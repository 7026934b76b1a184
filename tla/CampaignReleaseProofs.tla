------------------------ MODULE CampaignReleaseProofs ------------------------
(***************************************************************************)
(* Safety of evaluation, finalization and export, for any number of rounds *)
(* and of operator processes that run and die as they like.                *)
(***************************************************************************)
EXTENDS CampaignRelease, FiniteSetTheorems, TLAPS

Commands == {"none", "evaluate", "finalize", "export"}
Places   == {"idle", "read", "write", "check", "archive"}
Versions == Nat \cup {None}
OpState  == [cmd : Commands, pc : Places, seen : Versions, tries : {0, 1, 2},
             slow : SUBSET Versions]

TypeOK ==
    /\ version \in Nat /\ complete \in BOOLEAN
    /\ lifecycle \in {"running", "finalized"}
    /\ eval \in Versions /\ ops \in [Operators -> OpState]
    /\ lock \in Operators \cup {None}

\* The lock beyond one step is an export's, which has seen the version that
\* stays as long as it holds it; only evaluations read before it took the lock
\* can still replace evaluation.json.
Exporting ==
    \A o \in Operators : At(o, "archive") =>
        /\ lock = o
        /\ ops[o].seen = version
        /\ eval \in {version} \cup ops[o].slow
        /\ \A p \in Operators : At(p, "write") => ops[p].seen \in ops[o].slow

\* A command that finalizes goes on only with a campaign that is complete, and
\* what it reads then is the last version.
Finalizing ==
    \A o \in Operators : ops[o].cmd = "finalize" =>
        /\ At(o, "read") \/ At(o, "write") \/ ops[o].tries # 0 => complete
        /\ At(o, "write") => ops[o].seen = version

Inv == TypeOK /\ Exporting /\ Finalizing /\ ExportCoherent /\ FinalizedComplete

\* The state of a command after a step, and that the step is of this command.
Now(o)  == ops'[o]
Only(o) ==
    /\ ops' \in [Operators -> OpState]
    /\ \A p \in Operators : p # o => ops'[p] = ops[p]

LEMMA StepOf ==
  ASSUME TypeOK, NEW o \in Operators, NEW r \in OpState, Step(o, r)
  PROVE  Only(o) /\ Now(o) = r
BY DEF TypeOK, Step, Now, Only

LEMMA ToRest == ASSUME TypeOK, NEW o \in Operators, Step(o, Resting)
                PROVE  Only(o) /\ Now(o) = Resting
<1>1. Resting \in OpState
  BY DEF Resting, OpState, Commands, Places, Versions
<1> QED
  BY <1>1, StepOf

\* What each step makes of the command it is a step of.
LEMMA Effects ==
  ASSUME TypeOK, NEW o \in Operators
  PROVE  /\ \A cmd \in {"evaluate", "finalize", "export"} : Start(o, cmd) =>
              /\ Only(o)
              /\ Now(o).cmd = cmd /\ Now(o).tries = 0
              /\ Now(o).pc = IF cmd = "evaluate" THEN "read" ELSE "check"
         /\ ReadState(o) =>
              /\ Only(o)
              /\ Now(o).cmd = ops[o].cmd /\ Now(o).tries = ops[o].tries
              /\ Now(o).pc = "write" /\ Now(o).seen = version
         /\ EvaluateAgain(o) =>
              /\ Only(o)
              /\ Now(o).cmd = ops[o].cmd /\ Now(o).tries = ops[o].tries
              /\ Now(o).pc = "read"
         /\ ExportBegin(o) =>
              /\ Only(o)
              /\ Now(o).cmd = "export" /\ Now(o).pc = "archive"
              /\ Now(o).seen = version /\ Now(o).slow = InFlight
         /\ WriteEvaluation(o) =>
              /\ Only(o)
              /\ \/ Now(o) = Resting /\ (ops[o].tries # 2 => ops[o].cmd = "evaluate")
                    /\ gaveUp' = gaveUp \cup ({ops[o].cmd} \ {"evaluate"})
                 \/ /\ Now(o).cmd = ops[o].cmd /\ Now(o).pc = "check"
                    /\ \/ ops[o].tries = 0 /\ Now(o).tries = 1
                       \/ ops[o].tries = 1 /\ Now(o).tries = 2
                    /\ gaveUp' = gaveUp
         /\ FinalizeNow(o) \/ FinalizeRefused(o) \/ ExportWrite(o) \/ Killed(o) =>
              Now(o) = Resting /\ Only(o)
<1> USE DEF Step
<1>1. ASSUME NEW cmd \in {"evaluate", "finalize", "export"}, Start(o, cmd)
      PROVE  /\ Only(o)
             /\ Now(o).cmd = cmd /\ Now(o).tries = 0
             /\ Now(o).pc = IF cmd = "evaluate" THEN "read" ELSE "check"
  BY <1>1 DEF Now, Only, TypeOK, Start, Resting, OpState, Commands, Places, Versions
<1>2. ASSUME ReadState(o)
      PROVE  /\ Only(o)
             /\ Now(o).cmd = ops[o].cmd /\ Now(o).tries = ops[o].tries
             /\ Now(o).pc = "write" /\ Now(o).seen = version
  <2> DEFINE r == [ops[o] EXCEPT !.pc = "write", !.seen = version]
  <2>1. /\ r \in OpState /\ r.cmd = ops[o].cmd /\ r.tries = ops[o].tries
        /\ r.pc = "write" /\ r.seen = version
    BY DEF TypeOK, OpState, Places, Versions
  <2>2. Step(o, r)
    BY <1>2 DEF ReadState
  <2> HIDE DEF r
  <2> QED
    BY <2>1, <2>2, StepOf
<1>3. ASSUME EvaluateAgain(o)
      PROVE  /\ Only(o)
             /\ Now(o).cmd = ops[o].cmd /\ Now(o).tries = ops[o].tries
             /\ Now(o).pc = "read"
  BY <1>3 DEF Now, Only, TypeOK, EvaluateAgain, OpState, Places
<1>4. ASSUME ExportBegin(o)
      PROVE  /\ Only(o)
             /\ Now(o).cmd = "export" /\ Now(o).pc = "archive"
             /\ Now(o).seen = version /\ Now(o).slow = InFlight
  <2>1. InFlight \in SUBSET Versions
    BY DEF TypeOK, InFlight, OpState
  <2> HIDE DEF InFlight
  <2> QED
    BY <1>4, <2>1, ZenonT(40) DEF Now, Only, TypeOK, ExportBegin, OpState, Places, Versions
<1>5. ASSUME WriteEvaluation(o)
      PROVE  /\ Only(o)
             /\ \/ Now(o) = Resting /\ (ops[o].tries # 2 => ops[o].cmd = "evaluate")
                   /\ gaveUp' = gaveUp \cup ({ops[o].cmd} \ {"evaluate"})
                \/ /\ Now(o).cmd = ops[o].cmd /\ Now(o).pc = "check"
                   /\ \/ ops[o].tries = 0 /\ Now(o).tries = 1
                      \/ ops[o].tries = 1 /\ Now(o).tries = 2
                   /\ gaveUp' = gaveUp
  <2>1. CASE ops[o].cmd = "evaluate" \/ ops[o].tries + 1 = Attempts
    <3>1. Step(o, Resting) /\ gaveUp' = gaveUp \cup ({ops[o].cmd} \ {"evaluate"})
      BY <1>5, <2>1 DEF WriteEvaluation
    <3>2. ops[o].tries # 2 => ops[o].cmd = "evaluate"
      BY <2>1 DEF TypeOK, OpState, Attempts
    <3> QED
      BY <3>1, <3>2, ToRest
  <2>2. CASE ~(ops[o].cmd = "evaluate" \/ ops[o].tries + 1 = Attempts)
    <3>1. ops[o].tries = 0 \/ ops[o].tries = 1
      BY <2>2 DEF TypeOK, Attempts, OpState
    <3>2. /\ ops' = [ops EXCEPT ![o] = [ops[o] EXCEPT !.pc = "check", !.tries = ops[o].tries + 1]]
          /\ gaveUp' = gaveUp
      BY <1>5, <2>2 DEF WriteEvaluation
    <3>3. CASE ops[o].tries = 0
      <4>1. 0 + 1 = 1
        OBVIOUS
      <4>2. ops' = [ops EXCEPT ![o] = [ops[o] EXCEPT !.pc = "check", !.tries = 1]]
        BY <3>2, <3>3, <4>1, Zenon
      <4>3. /\ Only(o)
            /\ Now(o).cmd = ops[o].cmd /\ Now(o).pc = "check" /\ Now(o).tries = 1
        BY <4>2, ZenonT(40) DEF Now, Only, TypeOK, OpState, Places
      <4> QED
        BY <3>2, <3>3, <4>3, Zenon
    <3>4. CASE ops[o].tries = 1
      <4>1. 1 + 1 = 2
        OBVIOUS
      <4>2. ops' = [ops EXCEPT ![o] = [ops[o] EXCEPT !.pc = "check", !.tries = 2]]
        BY <3>2, <3>4, <4>1, Zenon
      <4>3. /\ Only(o)
            /\ Now(o).cmd = ops[o].cmd /\ Now(o).pc = "check" /\ Now(o).tries = 2
        BY <4>2, ZenonT(40) DEF Now, Only, TypeOK, OpState, Places
      <4> QED
        BY <3>2, <3>4, <4>3, Zenon
    <3> QED
      BY <3>1, <3>3, <3>4
  <2> QED
    BY <2>1, <2>2
<1>6. ASSUME FinalizeNow(o) \/ FinalizeRefused(o) \/ ExportWrite(o) \/ Killed(o)
      PROVE  Now(o) = Resting /\ Only(o)
  BY <1>6, ToRest DEF FinalizeNow, FinalizeRefused, ExportWrite, Killed
<1> QED
  BY <1>1, <1>2, <1>3, <1>4, <1>5, <1>6

-----------------------------------------------------------------------------
LEMMA AtRest == Resting.pc = "idle" /\ Resting.cmd = "none" /\ Resting.tries = 0
BY DEF Resting

\* Steps that leave the version and the lock alone and begin nothing that
\* reads or exports keep what an export relies on.
LEMMA ExportingStays ==
  ASSUME TypeOK, Exporting, NEW o \in Operators, Only(o), UNCHANGED <<version, eval>>,
         Now(o).pc \notin {"write", "archive"},
         lock' = lock \/ At(o, "archive") \/ (lock = o /\ lock' = None)
  PROVE  Exporting'
<1>1. \A p \in Operators : At(p, "archive")' => p # o /\ At(p, "archive") /\ ops'[p] = ops[p]
  BY DEF Only, Now, At
<1>2. \A p \in Operators : At(p, "write")' => p # o /\ At(p, "write") /\ ops'[p] = ops[p]
  BY DEF Only, Now, At
<1>3. \A p \in Operators : At(p, "archive")' => lock' = p
  BY <1>1 DEF Exporting
<1> QED
  BY <1>1, <1>2, <1>3 DEF Exporting

\* While the lock is free nobody exports.
LEMMA NoExport ==
  ASSUME Exporting, Unlocked PROVE \A o \in Operators : ~At(o, "archive")
BY ReleaseAssumption DEF Exporting, Unlocked

LEMMA ExportingStep ==
  ASSUME Inv, RNext PROVE Exporting'
<1> USE DEF Inv
<1>1. CASE CampaignStep
  BY <1>1, NoExport DEF CampaignStep, rvars, Exporting, At
<1>2. CASE ImportEvaluation
  BY <1>2, NoExport DEF ImportEvaluation, Exporting, At
<1>3. ASSUME NEW o \in Operators, NEW cmd \in {"evaluate", "finalize", "export"}, Start(o, cmd)
      PROVE  Exporting'
  BY <1>3, Effects, ExportingStays DEF Start, cvars
<1>4. ASSUME NEW o \in Operators, EvaluateAgain(o) PROVE Exporting'
  BY <1>4, Effects, ExportingStays DEF EvaluateAgain, cvars
<1>5. ASSUME NEW o \in Operators, FinalizeNow(o) \/ FinalizeRefused(o) PROVE Exporting'
  <2>1. Only(o) /\ Now(o) = Resting
    BY <1>5, Effects
  <2>2. UNCHANGED <<version, eval, lock>>
    BY <1>5 DEF FinalizeNow, FinalizeRefused, Finalize, cvars
  <2> QED
    BY <2>1, <2>2, ExportingStays, AtRest
<1>6. ASSUME NEW o \in Operators, ExportWrite(o) \/ Killed(o) PROVE Exporting'
  <2>1. Only(o) /\ Now(o) = Resting
    BY <1>6, Effects
  <2>2. /\ UNCHANGED <<version, eval>>
        /\ lock' = lock \/ At(o, "archive") \/ (lock = o /\ lock' = None)
    BY <1>6 DEF ExportWrite, Killed, cvars
  <2> QED
    BY <2>1, <2>2, ExportingStays, AtRest
<1>7. ASSUME NEW o \in Operators, ReadState(o) PROVE Exporting'
  <2>1. \A p \in Operators : ~At(p, "archive")'
    BY <1>7, Effects, NoExport DEF ReadState, At, Only, Now
  <2> QED
    BY <2>1 DEF Exporting
<1>8. ASSUME NEW o \in Operators, ExportBegin(o) PROVE Exporting'
  <2>1. \A p \in Operators : At(p, "archive")' => p = o
    BY <1>8, Effects, NoExport DEF ExportBegin, At, Only
  <2>2. \A p \in Operators : At(p, "write")' => At(p, "write") /\ ops'[p].seen = ops[p].seen
    BY <1>8, Effects DEF At, Only, Now
  <2>3. \A p \in Operators : At(p, "write") => ops[p].seen \in InFlight
    BY DEF InFlight, At
  <2>4. /\ lock' = o /\ UNCHANGED <<version, eval>> /\ eval = version
        /\ ops'[o].seen = version /\ ops'[o].slow = InFlight
    BY <1>8, Effects DEF ExportBegin, Current, cvars, Now
  <2> QED
    BY <2>1, <2>2, <2>3, <2>4 DEF Exporting
<1>9. ASSUME NEW o \in Operators, WriteEvaluation(o) PROVE Exporting'
  <2>1. Only(o) /\ Now(o).pc \in {"idle", "check"} /\ UNCHANGED <<version, lock>>
        /\ eval' = ops[o].seen /\ At(o, "write")
    <3>1. Only(o) /\ (Now(o) = Resting \/ Now(o).pc = "check")
      BY <1>9, Effects
    <3>2. UNCHANGED <<version, lock>> /\ eval' = ops[o].seen /\ At(o, "write")
      BY <1>9 DEF WriteEvaluation, cvars
    <3> QED
      BY <3>1, <3>2, AtRest
  <2>2. \A p \in Operators : At(p, "archive")' \/ At(p, "write")' => p # o /\ ops'[p] = ops[p]
    BY <2>1 DEF Only, Now, At
  <2> QED
    BY <2>1, <2>2 DEF Exporting, At
<1> QED
  BY <1>1, <1>2, <1>3, <1>4, <1>5, <1>6, <1>7, <1>8, <1>9 DEF RNext, OperatorStep

-----------------------------------------------------------------------------
\* A step of one command leaves the others' part of Finalizing as it is, and
\* so does one that a complete campaign does not allow.
LEMMA FinalizingStays ==
  ASSUME TypeOK, Finalizing, NEW o \in Operators, Only(o), UNCHANGED <<version, complete>>,
         Now(o).cmd = "finalize" =>
           /\ Now(o).pc \in {"read", "write"} \/ Now(o).tries # 0 => complete
           /\ Now(o).pc = "write" => Now(o).seen = version
  PROVE  Finalizing'
BY DEF Finalizing, Only, Now, At

LEMMA FinalizingStep ==
  ASSUME Inv, RNext PROVE Finalizing'
<1> USE DEF Inv
<1>1. CASE CampaignStep
  BY <1>1 DEF CampaignStep, Advance, rvars, Finalizing, At
<1>2. CASE ImportEvaluation
  BY <1>2 DEF ImportEvaluation, cvars, Finalizing, At
<1>3. ASSUME NEW o \in Operators, NEW cmd \in {"evaluate", "finalize", "export"}, Start(o, cmd)
      PROVE  Finalizing'
  <2>1. UNCHANGED <<version, complete>>
    BY <1>3 DEF Start, cvars
  <2>2. Only(o) /\ Now(o).cmd = cmd /\ Now(o).tries = 0
        /\ Now(o).pc = IF cmd = "evaluate" THEN "read" ELSE "check"
    BY <1>3, Effects
  <2> QED
    BY <2>1, <2>2, FinalizingStays
<1>4. ASSUME NEW o \in Operators, EvaluateAgain(o) PROVE Finalizing'
  <2>1. UNCHANGED <<version, complete>> /\ (ops[o].cmd = "finalize" => complete)
    BY <1>4 DEF EvaluateAgain, cvars
  <2>2. Only(o) /\ Now(o).cmd = ops[o].cmd /\ Now(o).pc = "read"
    BY <1>4, Effects
  <2> QED
    BY <2>1, <2>2, FinalizingStays
<1>5. ASSUME NEW o \in Operators,
             FinalizeNow(o) \/ FinalizeRefused(o) \/ ExportWrite(o) \/ Killed(o)
      PROVE  Finalizing'
  <2>1. UNCHANGED <<version, complete>>
    BY <1>5 DEF FinalizeNow, FinalizeRefused, Finalize, ExportWrite, Killed, cvars
  <2>2. Only(o) /\ Now(o) = Resting
    BY <1>5, Effects
  <2> QED
    BY <2>1, <2>2, FinalizingStays, AtRest
<1>6. ASSUME NEW o \in Operators, ReadState(o) PROVE Finalizing'
  <2>1. UNCHANGED <<version, complete>> /\ At(o, "read")
    BY <1>6 DEF ReadState, cvars
  <2>2. Only(o) /\ Now(o).cmd = ops[o].cmd /\ Now(o).pc = "write" /\ Now(o).seen = version
    BY <1>6, Effects
  <2>3. ops[o].cmd = "finalize" => complete
    BY <2>1 DEF Finalizing
  <2> QED
    BY <2>1, <2>2, <2>3, FinalizingStays
<1>7. ASSUME NEW o \in Operators, ExportBegin(o) PROVE Finalizing'
  <2>1. UNCHANGED <<version, complete>>
    BY <1>7 DEF ExportBegin, cvars
  <2>2. Only(o) /\ Now(o).cmd = "export"
    BY <1>7, Effects
  <2> QED
    BY <2>1, <2>2, FinalizingStays
<1>8. ASSUME NEW o \in Operators, WriteEvaluation(o) PROVE Finalizing'
  <2>1. UNCHANGED <<version, complete>> /\ At(o, "write")
    BY <1>8 DEF WriteEvaluation, cvars
  <2>2. Only(o) /\ (Now(o) = Resting \/ (Now(o).cmd = ops[o].cmd /\ Now(o).pc = "check"))
    BY <1>8, Effects
  <2>3. ops[o].cmd = "finalize" => complete
    BY <2>1 DEF Finalizing
  <2> QED
    BY <2>1, <2>2, <2>3, FinalizingStays, AtRest
<1> QED
  BY <1>1, <1>2, <1>3, <1>4, <1>5, <1>6, <1>7, <1>8 DEF RNext, OperatorStep

-----------------------------------------------------------------------------
\* The inductive invariant.
THEOREM ReleaseInvariance == RSpec => []Inv
<1>1. RInit => Inv
  <2>1. Resting \in OpState
    BY DEF Resting, OpState, Commands, Places, Versions
  <2> SUFFICES ASSUME RInit PROVE Inv
    OBVIOUS
  <2>2. \A o \in Operators : ops[o] = Resting
    BY DEF RInit
  <2>3. TypeOK
    BY <2>1 DEF RInit, CInit, TypeOK, Versions
  <2>4. Exporting /\ Finalizing
    BY <2>2, AtRest DEF Exporting, Finalizing, At
  <2> QED
    BY <2>3, <2>4 DEF RInit, CInit, Inv, ExportCoherent, FinalizedComplete
<1>2. Inv /\ [RNext]_<<cvars, rvars>> => Inv'
  <2> SUFFICES ASSUME Inv, RNext PROVE Inv'
    BY DEF Inv, TypeOK, Exporting, Finalizing, ExportCoherent, FinalizedComplete, cvars, rvars, At
  <2>1. TypeOK'
    <3>1. CASE CampaignStep
      BY <3>1 DEF CampaignStep, Advance, rvars, Inv, TypeOK
    <3>2. CASE ImportEvaluation
      BY <3>2 DEF ImportEvaluation, Inv, TypeOK, cvars, Versions
    <3>3. ASSUME NEW o \in Operators, NEW cmd \in {"evaluate", "finalize", "export"}, Start(o, cmd)
          PROVE  TypeOK'
      BY <3>3, Effects DEF Inv, Only, TypeOK, Start, cvars
    <3>4. ASSUME NEW o \in Operators, OperatorStep(o) \/ Killed(o) PROVE TypeOK'
      <4>1. Only(o)
        BY <3>4, Effects DEF Inv, OperatorStep
      <4>2. version' = version /\ complete' = complete
        BY <3>4 DEF OperatorStep, ReadState, WriteEvaluation, FinalizeNow, Finalize,
           FinalizeRefused, EvaluateAgain, ExportBegin, ExportWrite, Killed, cvars
      <4>3. lifecycle' = lifecycle \/ lifecycle' = "finalized"
        BY <3>4 DEF OperatorStep, ReadState, WriteEvaluation, FinalizeNow, Finalize,
           FinalizeRefused, EvaluateAgain, ExportBegin, ExportWrite, Killed, cvars
      <4>4. eval' = eval \/ eval' = ops[o].seen
        BY <3>4 DEF OperatorStep, ReadState, WriteEvaluation, FinalizeNow,
           FinalizeRefused, EvaluateAgain, ExportBegin, ExportWrite, Killed
      <4>5. lock' \in {lock, o, None}
        BY <3>4 DEF OperatorStep, ReadState, WriteEvaluation, FinalizeNow,
           FinalizeRefused, EvaluateAgain, ExportBegin, ExportWrite, Killed
      <4>6. ops[o].seen \in Versions
        BY DEF Inv, TypeOK, OpState
      <4> QED
        BY <4>1, <4>2, <4>3, <4>4, <4>5, <4>6 DEF Inv, TypeOK, Only
    <3> QED
      BY <3>1, <3>2, <3>3, <3>4 DEF RNext
  <2>2. ExportCoherent'
    <3>1. ASSUME NEW o \in Operators, ExportWrite(o) PROVE ExportCoherent'
      <4>1. archive' = [lineage |-> ops[o].seen, adapter |-> version, eval |-> eval,
                        slow |-> ops[o].slow]
        BY <3>1 DEF ExportWrite
      <4>2. ops[o].seen = version /\ eval \in {version} \cup ops[o].slow
        BY <3>1 DEF ExportWrite, Inv, Exporting
      <4> QED
        BY <4>1, <4>2 DEF ExportCoherent
    <3>2. CASE archive' = archive
      BY <3>2 DEF Inv, ExportCoherent
    <3> QED
      BY <3>1, <3>2 DEF RNext, CampaignStep, rvars, ImportEvaluation, Start, OperatorStep,
         ReadState, WriteEvaluation, FinalizeNow, FinalizeRefused, EvaluateAgain, ExportBegin,
         Killed
  <2>3. FinalizedComplete'
    BY DEF Inv, TypeOK, FinalizedComplete, RNext, CampaignStep, Advance, rvars, ImportEvaluation,
       Start, OperatorStep, ReadState, WriteEvaluation, FinalizeNow, Finalize, FinalizeRefused,
       EvaluateAgain, ExportBegin, ExportWrite, Killed, cvars
  <2> QED
    BY <2>1, <2>2, <2>3, ExportingStep, FinalizingStep DEF Inv
<1> QED
  BY <1>1, <1>2, PTL DEF RSpec

\* Adapter and lineage of an archive are of one version, its evaluation of the
\* same or of one read before the export began.
THEOREM ArchivesCohere == RSpec => []ExportCoherent
BY ReleaseInvariance, PTL DEF Inv

\* A campaign is finalized complete only.
THEOREM FinalizedOnlyComplete == RSpec => []FinalizedComplete
BY ReleaseInvariance, PTL DEF Inv

-----------------------------------------------------------------------------
(***************************************************************************)
(* Three tries of finalize.  While a campaign is complete nothing new can  *)
(* become stale, so with one other process at most one stale evaluation    *)
(* can be written; it costs finalize one try at most.                      *)
(***************************************************************************)
Stale(p) == At(p, "write") /\ ops[p].seen # version

Held ==
    \A o \in Operators : ops[o].cmd = "finalize" =>
        /\ ops[o].tries = 1 /\ At(o, "check") =>
             Current \/ \A p \in Operators \ {o} : ~Stale(p)
        /\ ops[o].tries = 1 /\ ~At(o, "check") => \A p \in Operators \ {o} : ~Stale(p)
        /\ ops[o].tries = 2 =>
             At(o, "check") /\ Current /\ \A p \in Operators \ {o} : ~Stale(p)

Few == \A a, b, c \in Operators : a = b \/ a = c \/ b = c

LEMMA TwoOperators == ASSUME Cardinality(Operators) <= 2 PROVE Few
<1> SUFFICES ASSUME NEW a \in Operators, NEW b \in Operators, NEW c \in Operators,
                    a # b, a # c, b # c
             PROVE  FALSE
  BY DEF Few
<1>1. IsFiniteSet({a}) /\ Cardinality({a}) = 1
  BY FS_Singleton
<1>2. IsFiniteSet({a} \cup {b}) /\ Cardinality({a} \cup {b}) = 2
  BY <1>1, FS_AddElement
<1>3. Cardinality(({a} \cup {b}) \cup {c}) = 3
  BY <1>2, FS_AddElement
<1>4. Cardinality(({a} \cup {b}) \cup {c}) <= Cardinality(Operators)
  BY ReleaseAssumption, FS_Subset
<1>5. Cardinality(Operators) \in Nat
  BY ReleaseAssumption, FS_CardinalityType
<1> QED
  BY <1>3, <1>4, <1>5

Tries == Few => "finalize" \notin gaveUp /\ Held

\* A step of o that leaves no new stale evaluation and keeps evaluation.json
\* keeps what holds of the others.
LEMMA HeldStays ==
  ASSUME TypeOK, Held, NEW o \in Operators, Only(o), UNCHANGED <<version, eval>>,
         At(o, "write")' => Now(o).seen = version,
         Now(o).cmd = "finalize" => Now(o).tries = 0
           \/ (Now(o).tries = 1 /\ ~At(o, "check")' /\ ops[o].cmd = "finalize" /\ ops[o].tries = 1
               /\ (At(o, "check") => ~Current))
  PROVE  Held'
<1>1. \A p \in Operators : p # o => ops'[p] = ops[p]
  BY DEF Only
<1>2. \A q \in Operators : ops[q].cmd = "finalize" /\ ops[q].tries # 0 =>
         \A p \in Operators : Stale(p)' => Stale(p) /\ p # o
  BY <1>1 DEF Stale, At, Now
<1>3. ASSUME NEW q \in Operators, q # o, ops'[q].cmd = "finalize"
      PROVE  /\ ops'[q].tries = 1 /\ At(q, "check")' =>
                  Current' \/ \A p \in Operators \ {q} : ~Stale(p)'
             /\ ops'[q].tries = 1 /\ ~At(q, "check")' => \A p \in Operators \ {q} : ~Stale(p)'
             /\ ops'[q].tries = 2 =>
                  At(q, "check")' /\ Current' /\ \A p \in Operators \ {q} : ~Stale(p)'
  BY <1>1, <1>2, <1>3 DEF Held, At, Current
<1>4. ASSUME ops'[o].cmd = "finalize", ops'[o].tries # 0
      PROVE  ops'[o].tries = 1 /\ ~At(o, "check")' /\ \A p \in Operators \ {o} : ~Stale(p)'
  BY <1>2, <1>4 DEF Held, Now
<1> QED
  BY <1>3, <1>4 DEF Held

LEMMA HeldStep ==
  ASSUME Inv, Few, Held, RNext PROVE Held'
<1> USE DEF Inv
<1>1. CASE CampaignStep
  BY <1>1 DEF CampaignStep, Advance, rvars, Finalizing, Held, OpState, TypeOK
<1>2. CASE ImportEvaluation
  BY <1>2 DEF ImportEvaluation, cvars, Held, At, Current, Stale
<1>3. ASSUME NEW o \in Operators, NEW cmd \in {"evaluate", "finalize", "export"}, Start(o, cmd)
      PROVE  Held'
  <2>1. UNCHANGED <<version, eval>>
    BY <1>3 DEF Start, cvars
  <2>2. Only(o) /\ Now(o).tries = 0 /\ Now(o).pc \in {"read", "check"}
    BY <1>3, Effects
  <2>3. ~At(o, "write")'
    BY <2>2 DEF At, Now
  <2> QED
    BY <2>1, <2>2, <2>3, HeldStays
<1>4. ASSUME NEW o \in Operators, EvaluateAgain(o) PROVE Held'
  <2>1. UNCHANGED <<version, eval>> /\ At(o, "check") /\ ~Current
    BY <1>4 DEF EvaluateAgain, cvars
  <2>2. Only(o) /\ Now(o).cmd = ops[o].cmd /\ Now(o).pc = "read" /\ Now(o).tries = ops[o].tries
    BY <1>4, Effects
  <2>3. ~At(o, "write")' /\ ~At(o, "check")'
    BY <2>2 DEF At, Now
  <2>4. ops[o].cmd = "finalize" => ops[o].tries = 0 \/ ops[o].tries = 1
    BY <2>1 DEF Held, TypeOK, OpState
  <2> QED
    BY <2>1, <2>2, <2>3, <2>4, HeldStays
<1>5. ASSUME NEW o \in Operators,
             FinalizeNow(o) \/ FinalizeRefused(o) \/ ExportWrite(o) \/ Killed(o)
      PROVE  Held'
  <2>1. UNCHANGED <<version, eval>>
    BY <1>5 DEF FinalizeNow, FinalizeRefused, Finalize, ExportWrite, Killed, cvars
  <2>2. Only(o) /\ Now(o) = Resting
    BY <1>5, Effects
  <2>3. ~At(o, "write")'
    BY <2>2, AtRest DEF At, Now
  <2> QED
    BY <2>1, <2>2, <2>3, HeldStays, AtRest
<1>6. ASSUME NEW o \in Operators, ReadState(o) PROVE Held'
  <2>1. UNCHANGED <<version, eval>> /\ At(o, "read")
    BY <1>6 DEF ReadState, cvars
  <2>2. Only(o) /\ Now(o).cmd = ops[o].cmd /\ Now(o).pc = "write" /\ Now(o).seen = version
        /\ Now(o).tries = ops[o].tries
    BY <1>6, Effects
  <2>3. ~At(o, "check") /\ ~At(o, "check")'
    BY <2>1, <2>2 DEF At, Now
  <2>4. ops[o].cmd = "finalize" => ops[o].tries = 0 \/ ops[o].tries = 1
    BY <2>3 DEF Held, TypeOK, OpState
  <2> QED
    BY <2>1, <2>2, <2>3, <2>4, HeldStays
<1>7. ASSUME NEW o \in Operators, ExportBegin(o) PROVE Held'
  <2>1. UNCHANGED <<version, eval>>
    BY <1>7 DEF ExportBegin, cvars
  <2>2. Only(o) /\ Now(o).cmd = "export" /\ Now(o).pc = "archive"
    BY <1>7, Effects
  <2>3. ~At(o, "write")'
    BY <2>2 DEF At, Now
  <2> QED
    BY <2>1, <2>2, <2>3, HeldStays
<1>8. ASSUME NEW o \in Operators, WriteEvaluation(o) PROVE Held'
  <2>1. version' = version /\ eval' = ops[o].seen /\ At(o, "write") /\ ~At(o, "check")
    BY <1>8 DEF WriteEvaluation, cvars, At
  <2>2. Only(o) /\ (\/ Now(o) = Resting
                    \/ /\ Now(o).cmd = ops[o].cmd /\ Now(o).pc = "check"
                       /\ \/ ops[o].tries = 0 /\ Now(o).tries = 1
                          \/ ops[o].tries = 1 /\ Now(o).tries = 2)
    BY <1>8, Effects
  <2>3. \A p \in Operators : Stale(p)' => Stale(p) /\ p # o
    BY <2>1, <2>2, AtRest DEF Stale, At, Only, Now
  <2>4. ~Stale(o) => Current'
    BY <2>1 DEF Stale, Current
  <2>5. ASSUME NEW q \in Operators, q # o, ops'[q].cmd = "finalize"
        PROVE  /\ ops'[q].tries = 1 /\ At(q, "check")' =>
                    Current' \/ \A p \in Operators \ {q} : ~Stale(p)'
               /\ ops'[q].tries = 1 /\ ~At(q, "check")' => \A p \in Operators \ {q} : ~Stale(p)'
               /\ ops'[q].tries = 2 =>
                    At(q, "check")' /\ Current' /\ \A p \in Operators \ {q} : ~Stale(p)'
    <3>1. ops'[q] = ops[q]
      BY <2>2, <2>5 DEF Only
    <3>2. \A p \in Operators : p = q \/ p = o
      BY <2>5 DEF Few
    <3> QED
      BY <2>3, <2>4, <2>5, <3>1, <3>2 DEF Held, At
  <2>6. ASSUME ops'[o].cmd = "finalize"
        PROVE  /\ At(o, "check")' /\ Current'
               /\ ops'[o].tries = 2 => \A p \in Operators \ {o} : ~Stale(p)'
    <3>1. Now(o).cmd = "finalize" /\ Now(o) # Resting
      BY <2>6, AtRest DEF Now
    <3>2. ops[o].cmd = "finalize" /\ Now(o).pc = "check" /\ (Now(o).tries = 2 => ops[o].tries = 1)
      BY <2>2, <3>1
    <3>3. ~Stale(o)
      BY <2>1, <3>2 DEF Finalizing, Stale
    <3> QED
      BY <2>1, <2>3, <2>4, <3>2, <3>3 DEF Held, At, Now
  <2> QED
    BY <2>5, <2>6 DEF Held
<1> QED
  BY <1>1, <1>2, <1>3, <1>4, <1>5, <1>6, <1>7, <1>8 DEF RNext, OperatorStep

\* With one other operator process at most, finalize never ends with
\* volunteer_campaign_evaluation_changed_during_finalize: three tries suffice.
THEOREM ThreeTriesSuffice == RSpec => []FinalizeSucceeds
<1>1. RInit => Tries
  BY AtRest DEF RInit, Tries, Held
<1>2. Inv /\ Inv' /\ Tries /\ [RNext]_<<cvars, rvars>> => Tries'
  <2> SUFFICES ASSUME Inv, Tries, [RNext]_<<cvars, rvars>>, Few PROVE Tries'
    BY DEF Tries, Few
  <2>1. CASE UNCHANGED <<cvars, rvars>>
    BY <2>1 DEF Tries, Held, At, Current, Stale, cvars, rvars
  <2>2. CASE RNext
    <3>1. ASSUME NEW o \in Operators, WriteEvaluation(o) PROVE "finalize" \notin gaveUp'
      <4>1. \/ ops[o].tries # 2 => ops[o].cmd = "evaluate"
            \/ gaveUp' = gaveUp
        BY <3>1, Effects DEF Inv
      <4>2. gaveUp' = gaveUp \/ gaveUp' = gaveUp \cup ({ops[o].cmd} \ {"evaluate"})
        BY <3>1, Effects DEF Inv
      <4>3. At(o, "write") /\ ~At(o, "check")
        BY <3>1 DEF WriteEvaluation, At
      <4>4. ops[o].cmd = "finalize" => ops[o].tries # 2
        BY <4>3 DEF Tries, Held
      <4> QED
        BY <4>1, <4>2, <4>4 DEF Tries
    <3>2. gaveUp' = gaveUp \/ \E o \in Operators : WriteEvaluation(o)
      BY <2>2 DEF RNext, CampaignStep, rvars, ImportEvaluation, Start, OperatorStep, ReadState,
         FinalizeNow, FinalizeRefused, EvaluateAgain, ExportBegin, ExportWrite, Killed
    <3> QED
      BY <2>2, <3>1, <3>2, HeldStep DEF Tries
  <2> QED
    BY <2>1, <2>2
<1>3. Tries => FinalizeSucceeds
  BY TwoOperators DEF Tries, FinalizeSucceeds
<1> QED
  BY <1>1, <1>2, <1>3, ReleaseInvariance, PTL DEF RSpec

\* Beside evaluations, finalizations and exports the campaign is what the
\* coordinator promises: it advances, and it is finalized once it is complete.
THEOREM ReleaseImplementsCampaign == RSpec => CSpec
<1>1. RInit => CInit
  BY DEF RInit
<1>2. [RNext]_<<cvars, rvars>> => [CNext]_cvars
  BY DEF RNext, CNext, CampaignStep, ImportEvaluation, Start, OperatorStep, ReadState,
     WriteEvaluation, FinalizeNow, FinalizeRefused, EvaluateAgain, ExportBegin, ExportWrite,
     Killed, cvars
<1> QED
  BY <1>1, <1>2, PTL DEF RSpec, CSpec
=============================================================================
