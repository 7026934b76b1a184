-------------------------- MODULE MCStagePlacement --------------------------
(* Three stages on three devices: one miner with a CPU and a GPU, one with a  *)
(* GPU.  The scheduler keeps some memory back, none, or more than there is.   *)
EXTENDS StagePlacement, TLC

M(m, t, n) == [miner |-> m, type |-> t, total |-> n]
MCMachines == <<M(1, "cpu", 5), M(1, "cuda", 4), M(2, "cuda", 6)>>

Needs == {[cpu |-> 1, cuda |-> 1], [cpu |-> 3, cuda |-> 2], "cpu" :> 3}
MCCapabilities ==
    {[free |-> <<5, 4, 6>>, reserve |-> <<1, 1, 1>>, most |-> <<2, 2>>],
     [free |-> <<5, 2, 6>>, reserve |-> <<0, 0, 2>>, most |-> <<2, 1>>],
     [free |-> <<4, 4, 0>>, reserve |-> <<0, 5, 1>>, most |-> <<3, 3>>]}
MCAsks ==
    {[need |-> n, width |-> b[1], policy |-> p, required |-> b[2],
      free |-> c.free, reserve |-> c.reserve, most |-> c.most,
      compute |-> <<5, 1, 2>>, worn |-> <<0, 0, 2>>, burden |-> <<0, 2, 0>>] :
        n \in {m \in [1..3 -> Needs] : m[1] # m[2] /\ m[2] # m[3]},
        b \in {<<1, {}>>, <<1, {"cpu", "cuda"}>>, <<20, {"cpu", "cuda"}>>},
        p \in {"memory-first", "memory-performance"}, c \in MCCapabilities}

MCCalls ==
    {<<{}, {}>>, <<{}, 1..3>>, <<{2}, 1..3>>, <<{}, {3}>>, <<{1, 3}, {2}>>}
=============================================================================
