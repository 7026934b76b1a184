--------------------------- MODULE StagePlacement ---------------------------
(***************************************************************************)
(* build_placement_plan (adapters/capabilities.py): the stages of a model  *)
(* are placed one after another on the devices of the miners.  A beam of   *)
(* partial placements is kept, each of which passed a search for a         *)
(* completion; the cheapest ones survive a stage.  A running placement is  *)
(* planned again when telemetry, a failure or the owner ask for it, and    *)
(* the memory its stages occupy then counts as available.                  *)
(*                                                                         *)
(* Memory, times and penalties are small numbers.  Devices are numbered in *)
(* the order of miner and device id.  A device whose health is zero counts *)
(* as excluded, and one that lacks the dtype as one of no allowed type.    *)
(* The cost of compiling for a TPU and the weights of the scheduler are    *)
(* left out: the weights are one.                                          *)
(***************************************************************************)
EXTENDS Naturals, Sequences, FiniteSets, FiniteSetsExt

CONSTANTS
    NumStages,
    Machines,    \* per device: its miner, type and total memory
    Asks,        \* what may be asked for: manifest and capabilities
    Calls,       \* bound: devices a call leaves out, and those with telemetry
    OtherUses,   \* bound: memory other programs may come to use
    MaxRequests  \* bound: plans built

Stages  == 1..NumStages
Devices == 1..Len(Machines)

ASSUME PlacementAssumption ==
    /\ NumStages \in Nat \ {0} /\ MaxRequests \in Nat /\ OtherUses \subseteq Nat
    /\ Len(Machines) \in Nat /\ \A d \in Devices : Machines[d].total \in Nat
    /\ Calls \subseteq (SUBSET Devices) \X (SUBSET Devices)

\* Every stage needs memory: its workspace is never empty.  A miner takes at
\* least one stage, the sort keeps at least one placement, and times and
\* penalties are not negative.  ask.reserve is the memory of a device that is
\* never planned with, which the scheduler may set to none, and ask.most the
\* smaller of max_stage_count and max_stages_per_miner.
ASSUME AskAssumption ==
    \A a \in Asks :
        /\ \A i \in Stages : \A t \in DOMAIN a.need[i] : a.need[i][t] \in Nat \ {0}
        /\ \A d \in Devices :
              /\ {a.free[d], a.reserve[d], a.compute[d], a.worn[d], a.burden[d]} \subseteq Nat
              /\ a.most[Machines[d].miner] \in Nat \ {0}
        /\ a.width \in Nat \ {0}

VARIABLES
    ask,      \* the manifest and the capabilities
    others,   \* memory other programs use on each device
    plan,     \* the placement that runs, empty if none
    \* the call of build_placement_plan:
    phase, prev, forced, gone, told, budget, beam,
    cut,      \* the beam dropped a placement
    outcome,  \* how the last call ended, "started" before the first
    requests

callVars == <<prev, forced, gone, told, budget>>
vars == <<ask, others, plan, phase, callVars, beam, cut, outcome, requests>>

-----------------------------------------------------------------------------
\* estimate_stage_resources: the peak memory of a stage on a type of device;
\* ask.need[i] has the allowed types as its domain.
Type(d)    == Machines[d].type
Miner(d)   == Machines[d].miner
Need(i, d) == ask.need[i][Type(d)]

Used(p, d)   == MapThenSumSet(LAMBDA i : Need(i, d), {i \in DOMAIN p : p[i] = d})
Placed(p, m) == Cardinality({i \in DOMAIN p : Miner(p[i]) = m})

\* Mutant of Free: telemetry does not change what a capability says.
FreeByCapability(d, t, p) == ask.free[d]

\* _devices, when placement p runs: a device in t reports what is free now, but a
\* report of nothing is taken for no report; then the capability counts.
FreeNow(d, p) == Machines[d].total - (others[d] + Used(p, d))
Free(d, t, p) == IF d \in t /\ FreeNow(d, p) > 0 THEN FreeNow(d, p) ELSE ask.free[d]

Less(a, b)  == IF a > b THEN a - b ELSE 0
Least(a, b) == IF a < b THEN a ELSE b

\* _device_budget, and the memory of the previous assignments reclaimed.
Budget(d, t, p) ==
    Least(Less(Machines[d].total, ask.reserve[d]),
          Less(Free(d, t, p), ask.reserve[d]) + (IF Free(d, t, p) > 0 THEN Used(p, d) ELSE 0))

\* The candidate audit.
Eligible(i) == {d \in Devices \ gone : Type(d) \in DOMAIN ask.need[i] /\ Need(i, d) <= budget[d]}

\* Where stage i can go when p is placed.
Options(p, i) ==
    {d \in Eligible(i) : Used(p, d) + Need(i, d) <= budget[d] /\ Placed(p, Miner(d)) < ask.most[Miner(d)]}

\* Mutant of Completes: the beam is trusted.
CompletesUnseen(p) == TRUE

\* _remaining_stages_feasible: the stage with the fewest options goes first.
Partial == {p \in UNION {[S -> Devices] : S \in SUBSET Stages} :
               \A i \in DOMAIN p : p[i] \in Eligible(i)}
With(p, i, d) == [j \in DOMAIN p \cup {i} |-> IF j = i THEN d ELSE p[j]]

Completion[p \in Partial] ==
    LET rest  == Stages \ DOMAIN p
        opts  == [i \in rest |-> Options(p, i)]
        n(i)  == Cardinality(opts[i])
        first == CHOOSE i \in rest :
                    \A j \in rest : n(i) < n(j) \/ (n(i) = n(j) /\ i <= j)
    IN  \/ rest = {}
        \/ /\ \A i \in rest : opts[i] # {}
           /\ \E d \in opts[first] : Completion[With(p, first, d)]
Completes(p) == Completion[p]

-----------------------------------------------------------------------------
\* _transfer_latency_ms: between devices of a miner, between miners.
Transfer(c, d) == IF c = d THEN 0 ELSE IF Miner(c) = Miner(d) THEN 1 ELSE 3
Migration      == 1000  \* the least penalty there is

\* The incremental score of stage i of placement p, in hundredths.  ask.compute
\* is the measured or estimated time, ask.worn the penalties for health and old
\* checkpoints, ask.burden those for load and for a type not preferred.
Increment(p, i) ==
    LET d    == p[i]
        used == Used(SubSeq(p, 1, i), d)
        move == IF prev # <<>> /\ ~forced THEN IF prev[i] # d THEN Migration ELSE 0 ELSE 0
    IN  100 * (move + ask.worn[d])
        + IF ask.policy = "memory-first"
          THEN (100 * 1000 * used) \div budget[d] + ask.compute[d]
          ELSE 100 * (ask.compute[d] + ask.burden[d]
                      + (IF i = 1 THEN 0 ELSE Transfer(p[i - 1], d)))
Score(p) == MapThenSumSet(LAMBDA i : Increment(p, i), DOMAIN p)

\* _mapping_signature: earlier devices first.
Earlier(p, q) ==
    \E i \in DOMAIN p : p[i] < q[i] /\ \A j \in 1..(i - 1) : p[j] = q[j]

\* Mutant of Before: the signature decides.
BeforeBySignature(cost, p, q) == Earlier(p, q)

Before(cost, p, q) == cost[p] < cost[q] \/ (cost[p] = cost[q] /\ Earlier(p, q))

\* The n first placements of S in the order of the sort.
Cheapest(S, n) ==
    LET cost == [p \in S |-> Score(p)]
    IN  {p \in S : Cardinality({q \in S : Before(cost, q, p)}) < n}
Covers(p) == ask.required \subseteq {Type(p[i]) : i \in DOMAIN p}

-----------------------------------------------------------------------------
Init ==
    /\ ask \in Asks
    /\ others = [d \in Devices |-> Less(Machines[d].total, ask.free[d])]
    /\ plan = <<>> /\ phase = "rest" /\ prev = <<>> /\ forced = FALSE
    /\ gone = {} /\ told = {} /\ budget = [d \in Devices |-> 0]
    /\ beam = {} /\ cut = FALSE /\ outcome = "started" /\ requests = 0

\* A plan is asked for: first or again, without the devices g, with telemetry of
\* the devices t, and with f when the reason makes moving free: a straggler, bad
\* health, rebalancing, the owner's wish or the coordinator's recovery.  Nothing
\* moves in a first plan.
Request(f, g, t) ==
    /\ phase = "rest" /\ requests < MaxRequests
    /\ requests' = requests + 1 /\ UNCHANGED <<ask, others, plan>>
    /\ prev' = plan /\ forced' = (f /\ plan # <<>>) /\ gone' = g /\ told' = t
    /\ budget' = [d \in Devices |-> Budget(d, t, plan)]
    /\ cut' = FALSE
    /\ IF \A i \in Stages : Eligible(i)' # {}
       THEN phase' = "plan" /\ beam' = {<<>>} /\ outcome' = "none"
       ELSE phase' = "rest" /\ beam' = {} /\ outcome' = "no_eligible_device"

\* One stage of the beam.
Next1(p) == {Append(p, d) : d \in Options(p, Len(p) + 1)}
PlaceStage ==
    /\ phase = "plan" /\ \A p \in beam : Len(p) < NumStages
    /\ LET next == {p \in UNION {Next1(q) : q \in beam} : Completes(p)}
       IN  /\ beam' = Cheapest(next, ask.width)
           /\ cut' = (cut \/ beam' # next)
           /\ IF next = {} THEN phase' = "rest" /\ outcome' = "capacity_exhausted"
              ELSE UNCHANGED <<phase, outcome>>
    /\ UNCHANGED <<ask, others, plan, callVars, requests>>

\* The best placement that has every required type of device.
Choose ==
    /\ phase = "plan" /\ \A p \in beam : Len(p) = NumStages
    /\ phase' = "rest" /\ beam' = {}
    /\ LET complete == {p \in beam : Covers(p)}
       IN  IF complete = {} THEN outcome' = "coverage_missing" /\ UNCHANGED plan
           ELSE /\ outcome' = "placed"
                /\ plan' \in Cheapest(complete, 1)
    /\ UNCHANGED <<ask, others, callVars, cut, requests>>

\* Other programs come and go, once between two calls; memory that is in use
\* stays in use.
OthersChange(d, n) ==
    /\ phase = "rest" /\ outcome # "none" /\ requests < MaxRequests
    /\ n # others[d] /\ n + Used(plan, d) <= Machines[d].total
    /\ others' = [others EXCEPT ![d] = n]
    /\ outcome' = "none"
    /\ UNCHANGED <<ask, plan, phase, callVars, beam, cut, requests>>

Next ==
    \/ \E f \in BOOLEAN, c \in Calls : Request(f, c[1], c[2])
    \/ PlaceStage \/ Choose
    \/ \E d \in Devices, n \in OtherUses : OthersChange(d, n)

Spec == Init /\ [][Next]_vars

-----------------------------------------------------------------------------
\* Where stages would fit, without beam, search or budgets.
Placements == [Stages -> Devices \ gone]
Fit(q, room) ==
    /\ \A i \in Stages : Type(q[i]) \in DOMAIN ask.need[i]
    /\ \A d \in Devices : Used(q, d) <= room[d]
    /\ \A i \in Stages : Placed(q, Miner(q[i])) <= ask.most[Miner(q[i])]
Capacity == [d \in Devices |-> Less(Machines[d].total, others[d] + ask.reserve[d])]

\* The call knew the truth about device d: the device reported what was free, or
\* the capability was right about it, and stages that ran there already had left
\* some memory free.  A full device, or one whose changes nobody reported, can
\* deceive it.
Known(d) ==
    LET now == FreeNow(d, prev)
    IN  \/ d \in told /\ now > 0
        \/ ask.free[d] = now /\ (now > 0 \/ Used(prev, d) = 0)

\* Told the truth, planning fails for lack of devices only if no placement at
\* all fits their memory: neither the beam nor the memory the running stages
\* occupy themselves gets in the way.
FailsOnlyIfImpossible ==
    outcome \in {"no_eligible_device", "capacity_exhausted"} /\ (\A d \in Devices \ gone : Known(d))
        => ~\E q \in Placements : Fit(q, Capacity)

\* No device about which the planner knew the truth gets more than it has beside
\* other programs, in the first plan and after any sequence of new ones.
FitsMachines ==
    outcome = "placed"
        => \A d \in Devices : Known(d) => Used(plan, d) + others[d] <= Machines[d].total

\* A beam that dropped nothing finds the placement of least score with every
\* required type of device, if there is one.
BestUnlessCut ==
    LET able == {q \in Placements : Fit(q, budget) /\ Covers(q)}
    IN  /\ outcome = "placed" /\ ~cut => plan \in able /\ \A q \in able : Score(plan) <= Score(q)
        /\ outcome = "coverage_missing" /\ ~cut => able = {}
=============================================================================
