------------------------------ MODULE Commands ------------------------------
(***************************************************************************)
(* The pipelines the commands build: which node waits for which, what the  *)
(* script in each node's container needs and writes, how the Jobs are      *)
(* named, where the files are, and whether dag-go's own limit on how long  *)
(* a node may wait for its parents is in force (InitDag) or left to the    *)
(* context (WithDefaultTimeout(0)).                                        *)
(*                                                                         *)
(* A node is named by the sequence of symbols its Job's name ends with,    *)
(* a file or a directory by one that says which it is.                     *)
(***************************************************************************)
EXTENDS JobNames, TLC

CONSTANTS
    Fan,                \* workers of a fan-out: 3 in most pipelines, 8 in the stress patterns
    Spread              \* workers of cmd/fanout, which no node joins: 3

ASSUME FanAssumption == Fan \in Nat \ {0, 1} /\ Spread \in 1..Fan

Worker(kind, i) == kind \o <<ToString(i)>>

Workers(kind) == {Worker(kind, i) : i \in 1..Fan}

\* Mutant: the last node waits for the first only.
FanOutUnjoined(first, workers, last) ==
    [n \in {first, last} \cup workers |-> IF n = first THEN {} ELSE {first}]

\* first -> workers -> last
FanOut(first, workers, last) ==
    [n \in {first, last} \cup workers |->
        IF n = first THEN {} ELSE IF n = last THEN workers ELSE {first}]

\* A script needs directories and input files; it writes its outputs while it
\* runs; it may exit with 1 on purpose, or verify what it read.
Script(directories, reads, writes) ==
    [needs |-> directories, reads |-> reads, writes |-> writes, verdict |-> "exit 0"]

\* A script on the root of the volume needs no directory but that.
Plain(reads, writes) == Script({}, reads, writes)

Dir(path) == <<"mkdir">> \o path

Shard(worker) == <<"shard">> \o worker

Shards(workers) == {Shard(w) : w \in workers}

\* mkdir -p every directory, then write a file.
SetUp(directories, out) == Plain({}, {Dir(d) : d \in directories} \cup {out})

WriteShard(worker, inputs) == Script({Dir(Shard(worker))}, inputs, {Shard(worker)})

\* test -f every shard, then cat them all into one report.
Collect(workers, report) == Script({Dir(report)}, Shards(workers), {report})

\* Node by node: a first, a worker and a last script.
Scripts(first, setUp, workers, Work(_), last, collect) ==
    [n \in {first, last} \cup workers |->
        IF n = first THEN setUp ELSE IF n = last THEN collect ELSE Work(n)]

\* A command with fixed names in /data, and one whose names have its run ID.
Fixed(name, dag, scripts) ==
    [prefix |-> <<name>>, root |-> "/data", dag |-> dag, script |-> scripts,
     nodeTimeout |-> TRUE]

PerRun(prefix, root, dag, scripts, nodeTimeout) ==
    [prefix |-> <<prefix>>, root |-> root, dag |-> dag, script |-> scripts,
     nodeTimeout |-> nodeTimeout]

NodeA == <<"a">>

NodesB == Workers(<<"b">>)

NodeC == <<"c">>

Report == <<"report">>

-----------------------------------------------------------------------------
\* cmd/poc-pipeline: A -> B1..B3 -> C, a report of the shards.
Seed == <<"seed">>

PocDag == FanOut(NodeA, NodesB, NodeC)

SpecA == SetUp(Shards(NodesB) \cup {Report}, Seed)

SpecWorker(worker) == WriteShard(worker, {Seed})

SpecCollect == Collect(NodesB, Report)

PocPipeline ==
    PerRun("poc-", "/data/poc-pipeline", PocDag,
           Scripts(NodeA, SpecA, NodesB, SpecWorker, NodeC, SpecCollect), TRUE)

-----------------------------------------------------------------------------
\* cmd/pipeline-abc: A -> B -> C, where C verifies that b.txt comes from A.
AbcDag == FanOut(NodeA, {<<"b">>}, NodeC)

TextA == <<"a.txt">>

AbcScripts ==
    Scripts(NodeA, Plain({}, {TextA}),
            {<<"b">>}, LAMBDA n : Plain({TextA}, {<<"b.txt">>}),
            NodeC, [Plain({<<"b.txt">>}, {}) EXCEPT !.verdict = "verify"])

PipelineAbc == Fixed("pipeline-abc", AbcDag, AbcScripts)

-----------------------------------------------------------------------------
\* cmd/fanout: A -> B1..B3.  A writes the a.txt of pipeline-abc.
SpreadB == {Worker(<<"b">>, i) : i \in 1..Spread}

FanoutDag == [n \in {NodeA} \cup SpreadB |-> IF n = NodeA THEN {} ELSE {NodeA}]

FanoutScripts ==
    [n \in {NodeA} \cup SpreadB |->
        IF n = NodeA THEN Plain({}, {TextA}) ELSE Plain({TextA}, {n})]

Fanout == Fixed("fanout", FanoutDag, FanoutScripts)

-----------------------------------------------------------------------------
\* cmd/fastfail: A -> B1..B3 -> C, where B2 and, should it run, C exit with 1.
FastfailDag == FanOut(NodeA, NodesB, NodeC)

ExitOne == [Plain({}, {}) EXCEPT !.verdict = "exit 1"]

FastfailScripts ==
    Scripts(NodeA, Plain({}, {<<"ff-seed">>}),
            NodesB, LAMBDA n : IF n = <<"b", "2">> THEN ExitOne ELSE Plain({}, {<<"ff">> \o n}),
            NodeC, ExitOne)

Fastfail == Fixed("ff", FastfailDag, FastfailScripts)

-----------------------------------------------------------------------------
\* cmd/execclass: A -> B1, B2 -> C, on the queues of two execution classes.
ClassWorkers == {<<"b", "1">>, <<"b", "2">>}

ExecClassDag == FanOut(NodeA, ClassWorkers, NodeC)

ClassShard(n) == <<"ec">> \o n

ExecClassScripts ==
    Scripts(NodeA, Plain({}, {<<"ec-seed">>}),
            ClassWorkers, LAMBDA n : Plain({<<"ec-seed">>}, {ClassShard(n)}),
            NodeC, Plain({ClassShard(n) : n \in ClassWorkers}, {}))

ExecClass == Fixed("ec", ExecClassDag, ExecClassScripts)

-----------------------------------------------------------------------------
\* cmd/dag-runner, cmd/runner, cmd/operational: one Job, which may fail.
OneNode(name, label, script) == Fixed(name, [n \in {label} |-> {}], [n \in {label} |-> script])

DagRunnerOk == OneNode("dag-node-a", <<"ok">>, Plain({}, {}))

DagRunnerFail == OneNode("dag-node-a", <<"fail">>, ExitOne)

RunJob(label) ==
    [OneNode("poc-test", <<label>>, IF label = "fail" THEN ExitOne ELSE Plain({}, {}))
        EXCEPT !.nodeTimeout = FALSE]

TestRerun == [OneNode("op-rerun", <<"job">>, Plain({}, {})) EXCEPT !.nodeTimeout = FALSE]

-----------------------------------------------------------------------------
\* cmd/stress: a fan-out of any width, and one of two stages.
StressInit == FALSE     \* initDag: WithDefaultTimeout(0)

Stress(dag, scripts) == PerRun("s-", "/data/stress", dag, scripts, StressInit)

StressSpec(worker) == WriteShard(worker, {})

\* Mutant: the last node's directory is left out.
StressSpecSetupShort(workers, reports) == SetUp(Shards(workers), <<"done">> \o NodeA)

StressSpecSetup(workers, reports) ==
    SetUp(Shards(workers) \cup reports, <<"done">> \o NodeA)

StressSpecCollect == Collect(NodesB, Report)

WideFanoutDag == FanOut(NodeA, NodesB, NodeC)

WideFanout ==
    Stress(WideFanoutDag,
           Scripts(NodeA, StressSpecSetup(NodesB, {Report}),
                   NodesB, StressSpec, NodeC, StressSpecCollect))

NodeM == <<"m">>

NodesC == Workers(<<"c">>)

NodeD == <<"d">>

Merged == <<"merged">>

StressSpecMerge == Collect(NodesB, Merged)

StressSpecFinalCollect == Collect(NodesC, Report)

\* Two fan-outs in a row: the last node of the one is the first of the other.
InARow(one, two) ==
    [n \in DOMAIN one \cup DOMAIN two |-> IF n \in DOMAIN one THEN one[n] ELSE two[n]]

\* A -> B1..B8 -> M -> C1..C4 -> D.  No C reads what M wrote.
TwoStageDag == InARow(FanOut(NodeA, NodesB, NodeM), FanOut(NodeM, NodesC, NodeD))

TwoStageScripts ==
    InARow(Scripts(NodeA, StressSpecSetup(NodesB \cup NodesC, {Merged, Report}),
                   NodesB, StressSpec, NodeM, StressSpecMerge),
           Scripts(NodeM, StressSpecMerge, NodesC, StressSpec, NodeD, StressSpecFinalCollect))

TwoStage == Stress(TwoStageDag, TwoStageScripts)

\* The patterns that differ in how long their workers sleep are one pipeline.
RunPattern(pattern) == IF pattern = "two-stage-8x4" THEN TwoStage ELSE WideFanout

-----------------------------------------------------------------------------
\* cmd/ingress: what the dispatcher runs for an entry, --pipeline fanout or
\* specimen, in the same directory and with the same prefix.
IngressInit == FALSE    \* initDag: WithDefaultTimeout(0)

Ingress(dag, scripts) == PerRun("i-", "/data/ingress", dag, scripts, IngressInit)

NodeSetup == <<"setup">>

NodeCollect == <<"collect">>

WideFanout3Dag == FanOut(NodeSetup, NodesB, NodeCollect)

IngressScripts(first, workers) ==
    Scripts(first, SetUp(Shards(workers) \cup {Report}, <<"done">> \o first),
            workers, LAMBDA n : WriteShard(n, {}),
            NodeCollect, Collect(workers, Report))

WideFanout3 == Ingress(WideFanout3Dag, IngressScripts(NodeSetup, NodesB))

NodePrepare == <<"prepare">>

SpecimenWorkers == Workers(<<"worker", "-">>)

SpecimenDag == FanOut(NodePrepare, SpecimenWorkers, NodeCollect)

SpecimenScripts == IngressScripts(NodePrepare, SpecimenWorkers)

Specimen == Ingress(SpecimenDag, SpecimenScripts)

-----------------------------------------------------------------------------
CommandNames ==
    {"poc-pipeline", "pipeline-abc", "fanout", "fastfail", "execclass", "dag-runner success",
     "dag-runner fail", "runner success", "runner fail", "operational rerun",
     "stress wide-fanout-8", "stress two-stage-8x4", "ingress fanout", "ingress specimen"}

Catalogue ==
    [p \in CommandNames |->
        CASE p = "poc-pipeline" -> PocPipeline
          [] p = "pipeline-abc" -> PipelineAbc
          [] p = "fanout" -> Fanout
          [] p = "fastfail" -> Fastfail
          [] p = "execclass" -> ExecClass
          [] p = "dag-runner success" -> DagRunnerOk
          [] p = "dag-runner fail" -> DagRunnerFail
          [] p = "runner success" -> RunJob("success")
          [] p = "runner fail" -> RunJob("fail")
          [] p = "operational rerun" -> TestRerun
          [] p = "stress wide-fanout-8" -> RunPattern("wide-fanout-8")
          [] p = "stress two-stage-8x4" -> RunPattern("two-stage-8x4")
          [] p = "ingress fanout" -> WideFanout3
          [] p = "ingress specimen" -> Specimen]

\* "relies solely on the caller's ctx deadline rather than adding any extra
\* per-node deadline": the patterns of stress, and both pipelines of ingress.
LongPipelines ==
    {"stress wide-fanout-8", "stress two-stage-8x4", "ingress fanout", "ingress specimen"}
=============================================================================
