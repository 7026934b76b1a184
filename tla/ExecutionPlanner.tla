-------------------------- MODULE ExecutionPlanner --------------------------
(***************************************************************************)
(* The plan command of the v2 command line, as the pure function it is     *)
(* before its result is recorded: resource snapshots of the providers      *)
(* (core/execution.py, adapters/providers.py), the choice of a backend     *)
(* (backends/accelerate.py, backends/elastic_peft.py), the contract of an  *)
(* execution plan, and the launch specification of a stable rank group.    *)
(*                                                                         *)
(* Memory and devices are small numbers; identifiers, hashes, dtypes and   *)
(* command lines are left out.  Rank groups are numbers, in the order of   *)
(* their names.                                                            *)
(***************************************************************************)
EXTENDS Naturals, FiniteSets, FiniteSetsExt

CONSTANTS
    Resources,   \* resource ids
    Offers       \* what a provider may say of a resource

Modes    == {"elastic_delta", "stable_sharded"}
Backends == {"volunteer_peft", "accelerate_fsdp2"}

\* TrainingProject, which does not tie the backend to the mode; peft: the
\* peft_lora_v1 plugin is among its optimization plugins.
ProjectKinds == [mode : Modes, backend : Backends, peft : BOOLEAN]

\* What the command is told: the runtime probe succeeds, a trainer entry point
\* is named, its contract was verified.
Options == [runtime : BOOLEAN, entry : BOOLEAN, verified : BOOLEAN]

\* A stable window belongs to a group.
Snapshot(o) == o.free \in Nat /\ o.devices \in Nat \ {0} /\ (o.stable => o.group \in Nat)

\* A list of snapshots, whose resource ids are distinct.
Inventories ==
    UNION {[S -> {o \in Offers : Snapshot(o)}] : S \in {R \in SUBSET Resources : IsFiniteSet(R)}}

\* legacy_capability_to_snapshots: the capabilities a discovered device has.
DiscoveredCaps(type) ==
    IF type = "cuda" THEN {"cuda", "distributed_collective", "stable_sharded", "peft_lora"}
    ELSE {"cpu", "peft_lora"}
Discovered(inv) == \A i \in DOMAIN inv : inv[i].caps = DiscoveredCaps(inv[i].type)

-----------------------------------------------------------------------------
\* AccelerateFSDP2Backend.build_plan: rank groups and their order.
Eligible(o)    == o.type = "cuda" /\ o.stable /\ "distributed_collective" \in o.caps
Groups(inv)    == {inv[i].group : i \in {j \in DOMAIN inv : Eligible(inv[j])}}
Ranks(inv, g)  == {i \in DOMAIN inv : Eligible(inv[i]) /\ inv[i].group = g}
Devices(inv, S) == MapThenSumSet(LAMBDA i : inv[i].devices, S)
Memory(inv, S)  == MapThenSumSet(LAMBDA i : inv[i].free, S)

\* Mutant of Ahead: memory before devices.
AheadByMemory(inv, g, h) ==
    LET m(x) == Memory(inv, Ranks(inv, x))
    IN  m(g) > m(h) \/ (m(g) = m(h) /\ g <= h)

Ahead(inv, g, h) ==
    LET d(x) == Devices(inv, Ranks(inv, x))
        m(x) == Memory(inv, Ranks(inv, x))
    IN  d(g) > d(h) \/ (d(g) = d(h) /\ (m(g) > m(h) \/ (m(g) = m(h) /\ g <= h)))

Best(inv) == CHOOSE g \in Groups(inv) : \A h \in Groups(inv) : Ahead(inv, g, h)

Selected(q, inv) ==
    IF q.backend = "volunteer_peft" THEN {i \in DOMAIN inv : "peft_lora" \in inv[i].caps}
    ELSE IF Groups(inv) = {} THEN {} ELSE Ranks(inv, Best(inv))

\* The reasons why the plan is not ready.
Unblocked(q, inv, opt) ==
    /\ opt.runtime /\ Selected(q, inv) # {}
    /\ IF q.backend = "volunteer_peft" THEN q.mode = "elastic_delta" /\ q.peft
       ELSE q.mode = "stable_sharded" /\ Devices(inv, Selected(q, inv)) >= 2

\* TrainingExecutionPlan raises otherwise: the restart semantics are those of
\* the mode, every selected resource has the capabilities the plan requires.
Required(b) == IF b = "volunteer_peft" THEN {"peft_lora"}
               ELSE {"cuda", "distributed_collective", "stable_sharded"}
Builds(q, inv) ==
    /\ q.mode = "stable_sharded" <=> q.backend = "accelerate_fsdp2"
    /\ \A i \in Selected(q, inv) : Required(q.backend) \subseteq inv[i].caps

\* build_launch_spec raises for a plan without resources.
Launches(q, inv) == q.mode = "stable_sharded" => Selected(q, inv) # {}

\* _build_training_v2_plan up to record_plan.
Outcome(q, inv, opt) ==
    IF ~(Builds(q, inv) /\ Launches(q, inv)) THEN "error"
    ELSE IF Unblocked(q, inv, opt) /\ (q.mode = "stable_sharded" => opt.entry /\ opt.verified)
         THEN "ready" ELSE "blocked"

-----------------------------------------------------------------------------
\* What can run a project, without any choice.
CanRun(q, inv, S) ==
    IF q.mode = "elastic_delta" THEN S # {} /\ \A i \in S : "peft_lora" \in inv[i].caps
    ELSE /\ Devices(inv, S) >= 2
         /\ Cardinality({inv[i].group : i \in S}) = 1
         /\ \A i \in S : inv[i].stable /\ Required("accelerate_fsdp2") \subseteq inv[i].caps

\* A plan of q that is ready names resources that can run q, never an
\* intermittent one or two groups; and of discovered resources, if any of them
\* can run q then the plan is ready with as many devices as can be had.
Consistent(q) ==
    IF q.mode = "elastic_delta" THEN q.backend = "volunteer_peft" /\ q.peft
    ELSE q.backend = "accelerate_fsdp2"
SoundFor(q) ==
    \A inv \in Inventories, opt \in Options :
        LET out  == Outcome(q, inv, opt)
            able == {S \in SUBSET DOMAIN inv : CanRun(q, inv, S)}
        IN  /\ out = "ready" => Selected(q, inv) \in able
            /\ (/\ Consistent(q) /\ Discovered(inv) /\ able # {}
                /\ opt.runtime /\ opt.entry /\ opt.verified)
               => /\ out = "ready"
                  /\ \A S \in able : Devices(inv, S) <= Devices(inv, Selected(q, inv))
=============================================================================
