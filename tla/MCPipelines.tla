---------------------------- MODULE MCPipelines ----------------------------
(***************************************************************************)
(* The pipelines of the commands for TLC: two executions, of one run or of *)
(* two that get in each other's way.                                       *)
(***************************************************************************)
EXTENDS Pipelines, Commands

\* Without a run ID: the commands whose names are fixed.
Call(program, run) == [program |-> program, run |-> run]

Pair(first, second) == [e \in Executions |-> IF e = "e1" THEN first ELSE second]

Twice(program, run) == Pair(Call(program, run), Call(program, run))

\* A run ID one name of the fan-out is too long for.
LongRun == <<"2", "6", "0", "3">>

\* A fault may happen in some of the smaller products, deadlines in all.
Faulty ==
    {Twice("fanout", <<>>), Twice("operational rerun", <<>>), Twice("ingress specimen", <<"r">>),
     Pair(Call("runner success", <<>>), Call("runner fail", <<>>)),
     Pair(Call("dag-runner success", <<>>), Call("dag-runner fail", <<>>))}

MCWorkloads ==
    Faulty
    \cup {Twice(p, <<>>) : p \in {"pipeline-abc", "fastfail", "execclass"}}
    \cup {Twice(p, <<"r">>) : p \in {"poc-pipeline", "stress two-stage-8x4"}}
    \cup {Twice("ingress fanout", DummyRun("124901", "1")),
          Pair(Call("fanout", <<>>), Call("pipeline-abc", <<>>)),
          Pair(Call("stress wide-fanout-8", BurstRun(LongRun, "1")),
               Call("stress wide-fanout-8", BurstRun(LongRun, "2")))}

MCMaxFaults == [w \in MCWorkloads |-> IF w \in Faulty THEN 1 ELSE 0]
=============================================================================
