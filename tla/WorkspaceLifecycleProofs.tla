---------------------- MODULE WorkspaceLifecycleProofs ----------------------
(***************************************************************************)
(* Safety of the workspace for any number of processes and commands, any   *)
(* projects and any resources.                                             *)
(***************************************************************************)
EXTENDS WorkspaceLifecycle, FiniteSetTheorems, TLAPS

Points == {"none", "create", "control", "file", "read", "decide", "reread", "save"}

Process == [pc : Points, cmd : Commands \cup {"init", "none"}, project : Projects \cup {None},
            cur : Control \cup {None}, target : States \cup {None},
            plan : Ended \cup {None}, next : Control \cup {None}]

TypeOK ==
    /\ project \in Projects \cup {None}
    /\ control \in Control \cup {None}
    /\ plan \in Ended \cup {None}
    /\ procs \in [Procs -> Process]
    /\ inits \subseteq Projects
    /\ commands \in Nat

\* What a process holds at each point of its command.
Bound(r) == r.pc \in {"control", "file", "read", "decide", "reread", "save"}

Holds(r) ==
    /\ r.pc = "create" => r.project \in Projects
    /\ Bound(r) => project # None /\ r.project = project
    /\ r.pc \in {"file", "read", "decide", "reread", "save"} => r.cmd \in Commands
    /\ r.pc \in {"read", "decide", "reread"} /\ r.cmd = "plan" => r.plan \in Ended
    /\ r.pc \in {"decide", "reread", "save"} => control # None /\ r.cur \in Control
    /\ r.pc = "reread" => r.target \in States
    /\ r.pc = "save" => r.next \in Control /\ r.next.project = project

\* What it decided, having seen a pause that it is not there to end.
KeepsPause(r) ==
    r.cmd # "resume" /\ r.cur # None /\ r.cur.state = "paused" =>
        /\ r.pc = "reread" => r.target = "paused"
        /\ r.pc = "save" => r.next.state = "paused"

Agreed ==
    /\ control # None => project # None /\ control.project = project
    /\ inits # {} => project # None /\ inits = {project}

Inv == TypeOK /\ Agreed /\ \A p \in Procs : Holds(procs[p]) /\ KeepsPause(procs[p])

-----------------------------------------------------------------------------
LEMMA RestingRecord ==
  /\ Resting \in Process /\ Resting.pc = "none" /\ Resting.cmd = "none"
  /\ Resting.project = None /\ Resting.cur = None
BY DEF Resting, Process, Points

\* A process that rests holds nothing.
LEMMA RestingHolds == Holds(Resting) /\ KeepsPause(Resting)
BY RestingRecord DEF Holds, KeepsPause, Bound

\* What the other processes hold stays true when one takes a step that neither
\* rebinds the project nor removes the control file.
LEMMA OthersHold ==
  ASSUME TypeOK, \A q \in Procs : Holds(procs[q]) /\ KeepsPause(procs[q]),
         NEW p \in Procs, NEW r, Step(p, r), Holds(r)', KeepsPause(r),
         project # None => project' = project, control # None => control' # None
  PROVE  \A q \in Procs : Holds(procs[q])' /\ KeepsPause(procs[q])'
<1> SUFFICES ASSUME NEW q \in Procs PROVE Holds(procs[q])' /\ KeepsPause(procs[q])'
  OBVIOUS
<1>1. procs'[q] = IF q = p THEN r ELSE procs[q]
  BY DEF Step, TypeOK
<1>2. CASE q = p
  BY <1>1, <1>2 DEF Holds, KeepsPause, Bound
<1>3. CASE q # p
  BY <1>1, <1>3 DEF Holds, KeepsPause, Bound
<1> QED
  BY <1>2, <1>3

\* A process that finishes disturbs nobody.
LEMMA FinishHolds ==
  ASSUME TypeOK, \A q \in Procs : Holds(procs[q]) /\ KeepsPause(procs[q]),
         NEW p \in Procs, Finish(p),
         project # None => project' = project, control # None => control' # None
  PROVE  /\ procs' \in [Procs -> Process]
         /\ \A q \in Procs : Holds(procs[q])' /\ KeepsPause(procs[q])'
<1>1. Holds(Resting)' /\ KeepsPause(Resting)
  BY RestingRecord DEF Holds, KeepsPause, Bound
<1>2. procs' \in [Procs -> Process]
  BY RestingRecord DEF Finish, Step, TypeOK
<1> QED
  BY <1>1, <1>2, OthersHold DEF Finish

\* The control file that the first command creates is the one of its project.
LEMMA LoadsControl ==
  ASSUME TypeOK, Agreed, NEW q \in Projects
  PROVE  /\ LoadControl(q) \in Control
         /\ control # None => LoadControl(q) = control
         /\ control = None => LoadControl(q).project = q
BY DEF LoadControl, InitialControl, Control, States, TypeOK

\* Neither does a step of nobody.
LEMMA StillInv ==
  ASSUME Inv, UNCHANGED <<project, control, plan, procs, inits>>, commands' \in Nat
  PROVE  Inv'
<1>1. TypeOK' /\ Agreed'
  BY DEF Inv, TypeOK, Agreed
<1>2. \A p \in Procs : Holds(procs[p])' /\ KeepsPause(procs[p])'
  BY DEF Inv, Holds, KeepsPause, Bound
<1> QED
  BY <1>1, <1>2 DEF Inv

-----------------------------------------------------------------------------
LEMMA InitStep ==
  ASSUME Inv, NEW p \in Procs,
         (\E q \in Projects : InitStart(p, q)) \/ CreateManifest(p) \/ InitControl(p)
  PROVE  Inv'
<1> USE WorkspaceAssumption
<1>1. ASSUME NEW q \in Projects, InitStart(p, q) PROVE Inv'
  <2> PICK x : x = IF project = None THEN "create" ELSE "control"
    OBVIOUS
  <2> PICK r : r = [Resting EXCEPT !.cmd = "init", !.project = q, !.pc = x]
    OBVIOUS
  <2>0. /\ UNCHANGED <<project, control, plan, inits>> /\ commands' \in Nat
        /\ project = None \/ project \in Projects
        /\ project \in {None, q} => Step(p, r)
        /\ project \notin {None, q} => UNCHANGED procs
    <3>1. commands \in Nat /\ (project = None \/ project \in Projects)
      BY DEF Inv, TypeOK
    <3>2. commands' = commands + 1 /\ UNCHANGED <<project, control, plan, inits>>
      BY <1>1 DEF InitStart
    <3>3. project \in {None, q} => Step(p, r)
      BY <1>1 DEF InitStart
    <3>4. project \notin {None, q} => UNCHANGED procs
      BY <1>1 DEF InitStart
    <3> QED
      BY <3>1, <3>2, <3>3, <3>4
  <2>1. CASE project \in {None, q}
    <3>1. /\ Step(p, r) /\ r \in Process /\ r.cmd = "init" /\ r.project = q /\ r.cur = None
          /\ r.pc = IF project = None THEN "create" ELSE "control"
      BY <2>0, <2>1 DEF Resting, Process, Points
    <3>2. Holds(r)' /\ KeepsPause(r)
      BY <2>0, <2>1, <3>1 DEF Holds, KeepsPause, Bound
    <3>3. \A o \in Procs : Holds(procs[o])' /\ KeepsPause(procs[o])'
      BY <2>0, <3>1, <3>2, OthersHold DEF Inv
    <3> QED
      BY <2>0, <3>1, <3>3 DEF Inv, TypeOK, Agreed, Step
  <2>2. CASE project \notin {None, q}
    BY <2>0, <2>2, StillInv
  <2> QED
    BY <2>1, <2>2
<1>2. CASE CreateManifest(p)
  <2> PICK r : r = [procs[p] EXCEPT !.pc = "control"]
    OBVIOUS
  <2>1. /\ procs[p].project \in Projects /\ procs[p] \in Process
        /\ project' = IF project = None THEN procs[p].project ELSE project
        /\ project' \in Projects /\ UNCHANGED <<control, plan, inits, commands>>
    BY <1>2 DEF CreateManifest, Inv, TypeOK, Holds, At
  <2>2. CASE project' = procs[p].project
    <3>1. /\ Step(p, r) /\ r \in Process /\ r.pc = "control" /\ r.project = procs[p].project
      BY <1>2, <2>1, <2>2 DEF CreateManifest, Process, Points
    <3>2. Holds(r)' /\ KeepsPause(r)
      BY <2>1, <2>2, <3>1 DEF Holds, KeepsPause, Bound
    <3>3. \A x \in Procs : Holds(procs[x])' /\ KeepsPause(procs[x])'
      BY <2>1, <3>1, <3>2, OthersHold DEF Inv
    <3> QED
      BY <2>1, <3>1, <3>3 DEF Inv, TypeOK, Agreed, Step
  <2>3. CASE project' # procs[p].project
    <3>1. Finish(p)
      BY <1>2, <2>3 DEF CreateManifest
    <3> QED
      BY <2>1, <3>1, FinishHolds DEF Inv, TypeOK, Agreed
  <2> QED
    BY <2>2, <2>3
<1>3. CASE InitControl(p)
  <2>1. /\ procs[p].project = project /\ project \in Projects
        /\ control' = LoadControl(project) /\ Finish(p)
        /\ UNCHANGED <<project, plan, commands>>
        /\ inits' = IF control'.project = project THEN inits \cup {project} ELSE inits
    BY <1>3 DEF InitControl, Inv, TypeOK, Holds, Bound, At
  <2>2. control' \in Control /\ control'.project = project
    BY <2>1, LoadsControl DEF Inv, Agreed
  <2>3. control # None => control' # None
    BY <2>1, LoadsControl DEF Inv
  <2> QED
    BY <2>1, <2>2, <2>3, FinishHolds DEF Inv, TypeOK, Agreed
<1> QED
  BY <1>1, <1>2, <1>3

\* A step of p to r that leaves the files alone.
LEMMA ProcessStep ==
  ASSUME Inv, NEW p \in Procs, NEW r \in Process, Step(p, r), Holds(r), KeepsPause(r),
         UNCHANGED <<project, control, inits>>, plan' \in Ended \cup {None},
         commands' \in Nat
  PROVE  Inv'
<1>1. Holds(r)'
  BY DEF Holds, Bound
<1>2. \A x \in Procs : Holds(procs[x])' /\ KeepsPause(procs[x])'
  BY <1>1, OthersHold DEF Inv
<1> QED
  BY <1>2 DEF Inv, TypeOK, Agreed, Step

LEMMA CommandStep ==
  ASSUME Inv, NEW p \in Procs,
         \/ \E cmd \in Commands : Start(p, cmd)
         \/ \E x \in Ended : WritePlan(p, x)
         \/ PlanFails(p) \/ Read(p) \/ Decide(p) \/ Reread(p) \/ Save(p) \/ Killed(p)
  PROVE  Inv'
<1> USE WorkspaceAssumption
<1>0. /\ TypeOK /\ Agreed /\ procs[p] \in Process /\ Holds(procs[p]) /\ KeepsPause(procs[p])
      /\ commands \in Nat /\ commands + 1 \in Nat
  BY DEF Inv, TypeOK
<1>1. ASSUME NEW cmd \in Commands, Start(p, cmd) PROVE Inv'
  <2> PICK r : r = [Resting EXCEPT !.cmd = cmd, !.project = project,
                       !.pc = IF cmd = "plan" THEN "file" ELSE "read"]
    OBVIOUS
  <2>1. /\ Step(p, r) /\ project # None /\ project \in Projects
        /\ commands' \in Nat /\ UNCHANGED <<project, control, plan, inits>>
    BY <1>0, <1>1 DEF Start, TypeOK
  <2>2. /\ r \in Process /\ r.cmd = cmd /\ r.project = project /\ r.cur = None
        /\ r.pc = IF cmd = "plan" THEN "file" ELSE "read"
    BY <2>1 DEF Resting, Process, Points
  <2>3. Holds(r) /\ KeepsPause(r)
    BY <2>1, <2>2 DEF Holds, KeepsPause, Bound
  <2> QED
    BY <1>0, <2>1, <2>2, <2>3, ProcessStep DEF TypeOK
<1>2. ASSUME NEW x \in Ended, WritePlan(p, x) PROVE Inv'
  <2> PICK r : r = [procs[p] EXCEPT !.pc = "read", !.plan = x]
    OBVIOUS
  <2>1. Step(p, r) /\ plan' = x /\ At(p, "file") /\ UNCHANGED <<project, control, inits, commands>>
    BY <1>2 DEF WritePlan
  <2>2. /\ r \in Process /\ r.cmd = procs[p].cmd /\ r.project = procs[p].project
        /\ r.pc = "read" /\ r.plan = x
    BY <1>0 DEF Process, Points
  <2>3. Holds(r) /\ KeepsPause(r)
    BY <1>0, <2>1, <2>2 DEF Holds, KeepsPause, Bound, At
  <2> QED
    BY <1>0, <2>1, <2>2, <2>3, ProcessStep DEF TypeOK
<1>3. CASE PlanFails(p) \/ Killed(p)
  <2>1. Finish(p) /\ UNCHANGED <<project, control, plan, inits, commands>>
    BY <1>3 DEF PlanFails, Killed
  <2> QED
    BY <1>0, <2>1, FinishHolds DEF Inv, TypeOK, Agreed
<1>4. CASE Read(p)
  <2>1. /\ procs[p].project = project /\ project \in Projects /\ At(p, "read")
        /\ control' = LoadControl(project)
        /\ UNCHANGED <<project, plan, inits, commands>>
    BY <1>0, <1>4 DEF Read, TypeOK, Holds, Bound, At
  <2>2. control' \in Control /\ control' # None /\ control'.project = project
    <3>1. control' \in Control /\ control'.project = project
      BY <1>0, <2>1, LoadsControl DEF Agreed
    <3> QED
      BY <3>1
  <2>4. CASE Finish(p)
    BY <1>0, <2>1, <2>2, <2>4, FinishHolds DEF Inv, TypeOK, Agreed
  <2>5. CASE Step(p, [procs[p] EXCEPT !.pc = "decide", !.cur = control'])
    <3> PICK r : r = [procs[p] EXCEPT !.pc = "decide", !.cur = control']
      OBVIOUS
    <3>1. /\ r \in Process /\ r.cmd = procs[p].cmd /\ r.project = procs[p].project
          /\ r.pc = "decide" /\ r.plan = procs[p].plan /\ r.cur = control'
      BY <1>0, <2>2 DEF Process, Points
    <3>2. Holds(r)' /\ KeepsPause(r)
      BY <1>0, <2>1, <2>2, <3>1 DEF Holds, KeepsPause, Bound, At
    <3>3. \A q \in Procs : Holds(procs[q])' /\ KeepsPause(procs[q])'
      BY <2>1, <2>2, <2>5, <3>2, OthersHold DEF Inv
    <3> QED
      BY <1>0, <2>1, <2>2, <2>5, <3>1, <3>3 DEF Inv, TypeOK, Agreed, Step
  <2> QED
    BY <1>4, <2>4, <2>5 DEF Read
<1>5. CASE Decide(p)
  <2>1. PICK t \in Targets(procs[p].cmd, procs[p].cur, procs[p].plan) :
           Step(p, [procs[p] EXCEPT !.pc = "reread", !.target = t])
    BY <1>5 DEF Decide
  <2> PICK r : r = [procs[p] EXCEPT !.pc = "reread", !.target = t]
    OBVIOUS
  <2>2. /\ At(p, "decide") /\ UNCHANGED <<project, control, plan, inits, commands>>
    BY <1>5 DEF Decide
  <2>3. /\ procs[p].cmd \in Commands /\ procs[p].cur \in Control
        /\ procs[p].cmd = "plan" => procs[p].plan \in Ended
        /\ procs[p].cur.state \in States
    BY <1>0, <2>2 DEF Holds, At, Control
  <2>4. /\ t \in States
        /\ procs[p].cmd # "resume" /\ procs[p].cur.state = "paused" => t = "paused"
    BY <1>0, <2>1, <2>3 DEF Targets, States, Ended, TypeOK
  <2>5. /\ r \in Process /\ r.cmd = procs[p].cmd /\ r.project = procs[p].project
        /\ r.pc = "reread" /\ r.plan = procs[p].plan /\ r.cur = procs[p].cur /\ r.target = t
    BY <1>0, <2>4 DEF Process, Points
  <2>6. Holds(r) /\ KeepsPause(r)
    BY <1>0, <2>2, <2>4, <2>5 DEF Holds, KeepsPause, Bound, At
  <2> QED
    BY <1>0, <2>1, <2>2, <2>5, <2>6, ProcessStep DEF TypeOK
<1>6. CASE Reread(p)
  <2>1. /\ control \in Control /\ control.project = project /\ control.gen \in Nat
        /\ control.plan \in Ended \cup {None} /\ project \in Projects /\ At(p, "reread")
        /\ procs[p].target \in States /\ (procs[p].cmd = "plan" => procs[p].plan \in Ended)
    BY <1>0, <1>6 DEF Reread, TypeOK, Agreed, Holds, At, Control
  <2>2. PICK g \in Nat : g = control.gen + (IF Moves(procs[p]) THEN 1 ELSE 0)
    BY <2>1
  <2>3. PICK l \in Ended \cup {None} :
           l = IF procs[p].cmd = "plan" THEN procs[p].plan ELSE control.plan
    BY <2>1
  <2>4. PICK n \in Control :
           n = [project |-> control.project, state |-> procs[p].target, gen |-> g, plan |-> l]
    BY <2>1 DEF Control
  <2>5. PICK r : r = [procs[p] EXCEPT !.pc = "save", !.next = n]
    OBVIOUS
  <2>6. Step(p, r) /\ UNCHANGED <<project, control, plan, inits, commands>>
    BY <1>6, <2>2, <2>3, <2>4, <2>5 DEF Reread
  <2>7. /\ r \in Process /\ r.cmd = procs[p].cmd /\ r.project = procs[p].project
        /\ r.pc = "save" /\ r.cur = procs[p].cur /\ r.next = n
    BY <1>0, <2>5 DEF Process, Points
  <2>8. n.project = project /\ n.state = procs[p].target
    BY <2>1, <2>4
  <2>9. Holds(r) /\ KeepsPause(r)
    BY <1>0, <2>1, <2>7, <2>8 DEF Holds, KeepsPause, Bound, At
  <2> QED
    BY <1>0, <2>6, <2>7, <2>9, ProcessStep DEF TypeOK
<1>7. CASE Save(p)
  <2>1. /\ control' = procs[p].next /\ Finish(p) /\ At(p, "save")
        /\ UNCHANGED <<project, plan, inits, commands>>
    BY <1>7 DEF Save
  <2>2. control' \in Control /\ control'.project = project /\ project # None
    BY <1>0, <2>1 DEF Holds, Bound, At
  <2>3. control' # None
    BY <2>2
  <2> QED
    BY <1>0, <2>1, <2>2, <2>3, FinishHolds DEF Inv, TypeOK, Agreed
<1> QED
  BY <1>1, <1>2, <1>3, <1>4, <1>5, <1>6, <1>7

\* The workspace is always well typed and every process is bound to the one
\* project.
THEOREM WorkspaceInvariance == Spec => []Inv
<1>1. Init => Inv
  <2> SUFFICES ASSUME Init PROVE Inv
    OBVIOUS
  <2>1. TypeOK
    BY RestingRecord, WorkspaceAssumption DEF Init, TypeOK
  <2>2. \A p \in Procs : Holds(procs[p]) /\ KeepsPause(procs[p])
    BY RestingHolds DEF Init
  <2> QED
    BY <2>1, <2>2 DEF Init, Inv, Agreed
<1>2. Inv /\ [Next]_vars => Inv'
  <2> SUFFICES ASSUME Inv, [Next]_vars PROVE Inv'
    OBVIOUS
  <2>1. CASE UNCHANGED vars
    BY <2>1, StillInv DEF vars, Inv, TypeOK
  <2> QED
    BY <2>1, InitStep, CommandStep DEF Next
<1> QED
  BY <1>1, <1>2, PTL DEF Spec

\* However many inits race and wherever each is killed, all that returned
\* bound the same project, and the manifest and the control file name it.
THEOREM OneProject == Spec => []ManifestAgreed
<1>1. Inv => ManifestAgreed
  BY DEF Inv, Agreed, ManifestAgreed
<1> QED
  BY <1>1, WorkspaceInvariance, PTL

\* No command that saw the pause undoes it: only a resume ends it, or a
\* command whose first read was earlier than the pause.
THEOREM PausesKept == Spec => OnlyEarlierCommandsUnpause
<1> DEFINE Kept ==
      control # None /\ control.state = "paused" /\ control' # control =>
          \/ control'.state = "paused"
          \/ \E p \in Procs : /\ procs[p].pc = "save" /\ procs'[p].pc = "none"
                              /\ procs[p].cmd = "resume" \/ procs[p].cur.state # "paused"
<1>1. ASSUME Inv, [Next]_vars PROVE Kept
  <2>1. ASSUME NEW p \in Procs, Save(p) PROVE Kept
    <3>1. /\ procs[p].pc = "save" /\ control' = procs[p].next /\ procs'[p].pc = "none"
      BY <1>1, <2>1, RestingRecord DEF Save, At, Finish, Step, Inv, TypeOK
    <3>2. Holds(procs[p]) /\ KeepsPause(procs[p])
      BY <1>1 DEF Inv
    <3>3. procs[p].cur # None
      BY <3>1, <3>2, WorkspaceAssumption DEF Holds
    <3> QED
      BY <3>1, <3>2, <3>3 DEF KeepsPause
  <2>2. ASSUME NEW p \in Procs, Read(p) \/ InitControl(p) PROVE Kept
    BY <2>2 DEF Read, InitControl, LoadControl
  <2>3. CASE UNCHANGED control
    BY <2>3
  <2> HIDE DEF Kept
  <2> QED
    BY <1>1, <2>1, <2>2, <2>3 DEF Next, InitStart, CreateManifest, Start, WritePlan, PlanFails,
       Decide, Reread, Killed, vars
<1> QED
  BY <1>1, WorkspaceInvariance, PTL DEF Spec, OnlyEarlierCommandsUnpause

-----------------------------------------------------------------------------
\* Among some subsets of a finite set there is one that no other is one element
\* short of: induction on finite sets.
LEMMA LeastSubset ==
  ASSUME NEW D, IsFiniteSet(D), NEW B, B \subseteq SUBSET D, B # {}
  PROVE  \E s \in B : \A x \in s : s \ {x} \notin B
<1>1. IsWellFoundedOn(StrictSubsetOrdering(D), FiniteSubsetsOf(D))
  BY FS_StrictSubsetOrderingWellFounded
<1>2. B \subseteq FiniteSubsetsOf(D)
  BY FS_FiniteSubsetsOfFinite
<1>3. PICK s \in B : \A t \in B : <<t, s>> \notin StrictSubsetOrdering(D)
  BY <1>1, <1>2, WFMin
<1>4. \A x \in s : <<s \ {x}, s>> \in StrictSubsetOrdering(D)
  BY DEF StrictSubsetOrdering
<1> QED
  BY <1>3, <1>4

\* f sums up the weights w of the elements of any subset of D.
Sums(f, D, w) ==
    /\ f \in [SUBSET D -> Nat] /\ f[{}] = 0
    /\ \A s \in SUBSET D : \A x \in s : f[s] = w[x] + f[s \ {x}]

LEMMA SumExists ==
  ASSUME NEW D, IsFiniteSet(D), NEW w \in [D -> Nat]
  PROVE  \E f : Sums(f, D, w)
<1> DEFINE B == {s \in SUBSET D : ~\E f : Sums(f, s, w)}
<1>1. SUFFICES ASSUME D \in B PROVE FALSE
  OBVIOUS
<1>2. PICK s \in B : \A x \in s : s \ {x} \notin B
  <2> HIDE DEF B
  <2>1. B \subseteq SUBSET D
    BY DEF B
  <2> QED
    BY <1>1, <2>1, LeastSubset
<1>3. CASE s = {}
  <2>1. Sums([t \in SUBSET {} |-> 0], {}, w)
    BY DEF Sums
  <2> QED
    BY <1>2, <1>3, <2>1
<1>4. CASE s # {}
  <2>1. PICK x \in s : TRUE
    BY <1>4
  <2>2. PICK f : Sums(f, s \ {x}, w)
    BY <1>2, <2>1
  <2> DEFINE g == [t \in SUBSET s |-> IF x \in t THEN w[x] + f[t \ {x}] ELSE f[t]]
  <2>3. \A t \in SUBSET s : t \ {x} \in SUBSET (s \ {x}) /\ (x \notin t => t \in SUBSET (s \ {x}))
    OBVIOUS
  <2>4. w[x] \in Nat /\ \A y \in s : w[y] \in Nat
    BY <1>2, <2>1
  <2>5. g \in [SUBSET s -> Nat] /\ g[{}] = 0
    BY <2>2, <2>3, <2>4 DEF Sums
  <2>6. ASSUME NEW t \in SUBSET s, NEW y \in t
        PROVE  g[t] = w[y] + g[t \ {y}]
    <3>1. CASE x \notin t
      BY <2>2, <2>3, <3>1 DEF Sums
    <3>2. CASE y = x
      BY <3>2
    <3>3. CASE x \in t /\ y # x
      <4>1. /\ t \ {x} \in SUBSET (s \ {x}) /\ y \in t \ {x}
            /\ (t \ {x}) \ {y} = (t \ {y}) \ {x}
            /\ (t \ {y}) \ {x} \in SUBSET (s \ {x})
        BY <3>3
      <4>2. f[t \ {x}] = w[y] + f[(t \ {y}) \ {x}] /\ f[(t \ {y}) \ {x}] \in Nat
        BY <2>2, <4>1 DEF Sums
      <4>3. g[t] = w[x] + f[t \ {x}] /\ g[t \ {y}] = w[x] + f[(t \ {y}) \ {x}]
        BY <3>3
      <4>4. w[x] \in Nat /\ w[y] \in Nat
        BY <2>4
      <4> HIDE DEF g
      <4> QED
        BY <4>2, <4>3, <4>4
    <3> QED
      BY <3>1, <3>2, <3>3
  <2> HIDE DEF g
  <2>7. Sums(g, s, w)
    BY <2>5, <2>6 DEF Sums
  <2> QED
    BY <1>2, <2>7
<1> QED
  BY <1>3, <1>4

\* More elements, a larger sum.
LEMMA SumGrows ==
  ASSUME NEW D, IsFiniteSet(D), NEW w \in [D -> Nat], NEW f, Sums(f, D, w),
         NEW S \in SUBSET D, NEW T \in SUBSET S
  PROVE  f[T] <= f[S]
<1> DEFINE B == {s \in SUBSET S : T \subseteq s /\ ~(f[T] <= f[s])}
<1>1. SUFFICES ASSUME B # {} PROVE FALSE
  OBVIOUS
<1>2. PICK s \in B : \A x \in s : s \ {x} \notin B
  <2>1. B \subseteq SUBSET D
    OBVIOUS
  <2> HIDE DEF B
  <2> QED
    BY <1>1, <2>1, LeastSubset
<1>3. f[T] \in Nat /\ f[s] \in Nat
  BY DEF Sums
<1>4. PICK x \in s : x \notin T
  BY <1>2, <1>3
<1>5. f[s] = w[x] + f[s \ {x}] /\ w[x] \in Nat /\ f[s \ {x}] \in Nat
  BY DEF Sums
<1>6. f[T] <= f[s \ {x}]
  BY <1>2, <1>4
<1> QED
  BY <1>2, <1>3, <1>5, <1>6

LEMMA InventoryFacts ==
  ASSUME NEW inv \in Inventories
  PROVE  /\ IsFiniteSet(DOMAIN inv)
         /\ \A i \in DOMAIN inv :
               /\ inv[i].free \in Nat /\ inv[i].devices \in Nat \ {0}
               /\ inv[i].stable => inv[i].group \in Nat
<1>1. PICK R \in SUBSET Resources :
         IsFiniteSet(R) /\ inv \in [R -> {o \in Offers : Snapshot(o)}]
  BY DEF Inventories
<1>2. \A i \in R : Snapshot(inv[i])
  BY <1>1
<1> QED
  BY <1>1, <1>2 DEF Snapshot

\* The folds of the planner add up the values of one key.
FoldOf(inv, key, S) == MapThenSumSet(LAMBDA i : inv[i][key], S)

\* Such a fold, which takes the elements in the order of its choices, is the sum.
LEMMA FoldIsSum ==
  ASSUME NEW inv, IsFiniteSet(DOMAIN inv), NEW key,
         \A i \in DOMAIN inv : inv[i][key] \in Nat,
         NEW f, Sums(f, DOMAIN inv, [i \in DOMAIN inv |-> inv[i][key]]),
         NEW S \in SUBSET DOMAIN inv
  PROVE  FoldOf(inv, key, S) = f[S]
<1> DEFINE w == [i \in DOMAIN inv |-> inv[i][key]]
           Fold(g) == g = [s \in SUBSET S |->
             IF s = {} THEN 0
             ELSE LET x == CHOOSE y \in s : TRUE IN inv[x][key] + g[s \ {x}]]
           g == CHOOSE h : Fold(h)
           B == {s \in SUBSET S : g[s] # f[s]}
<1>1. Fold([s \in SUBSET S |-> f[s]])
  <2> DEFINE h == [s \in SUBSET S |-> f[s]]
  <2>1. ASSUME NEW s \in SUBSET S, s # {}
        PROVE  LET x == CHOOSE y \in s : TRUE IN h[s] = inv[x][key] + h[s \ {x}]
    BY <2>1 DEF Sums
  <2>2. h[{}] = 0
    BY DEF Sums
  <2> QED
    BY <2>1, <2>2
<1>2. Fold(g)
  <2> HIDE DEF Fold
  <2> QED
    BY <1>1
<1>3. SUFFICES ASSUME S \in B PROVE FALSE
  <2>1. FoldOf(inv, key, S) = g[S]
    BY DEF FoldOf, MapThenSumSet, MapThenFoldSet
  <2> HIDE DEF g
  <2> QED
    BY <2>1
<1>4. PICK s \in B : \A x \in s : s \ {x} \notin B
  <2>1. B \subseteq SUBSET DOMAIN inv
    OBVIOUS
  <2> HIDE DEF B
  <2> QED
    BY <1>3, <2>1, LeastSubset
<1> DEFINE x == CHOOSE y \in s : TRUE
<1>5. s \in SUBSET S /\ g[s] # f[s]
  OBVIOUS
<1> HIDE DEF g
<1>6. s # {}
  BY <1>2, <1>5 DEF Sums
<1>7. x \in s
  BY <1>6
<1>8. g[s] = inv[x][key] + g[s \ {x}]
  BY <1>2, <1>6
<1>9. f[s] = inv[x][key] + f[s \ {x}]
  BY <1>7 DEF Sums
<1>10. g[s \ {x}] = f[s \ {x}]
  BY <1>4, <1>7
<1> QED
  BY <1>5, <1>8, <1>9, <1>10

LEMMA FoldFacts ==
  ASSUME NEW inv, IsFiniteSet(DOMAIN inv), NEW key,
         \A i \in DOMAIN inv : inv[i][key] \in Nat
  PROVE  /\ FoldOf(inv, key, {}) = 0
         /\ \A S \in SUBSET DOMAIN inv :
               /\ FoldOf(inv, key, S) \in Nat
               /\ \A T \in SUBSET S : FoldOf(inv, key, T) <= FoldOf(inv, key, S)
<1> DEFINE D == DOMAIN inv
           w == [i \in D |-> inv[i][key]]
<1>1. w \in [D -> Nat]
  OBVIOUS
<1>2. PICK f : Sums(f, D, w)
  <2> HIDE DEF w
  <2> QED
    BY <1>1, SumExists
<1>3. \A S \in SUBSET D : FoldOf(inv, key, S) = f[S]
  BY <1>2, FoldIsSum
<1>4. \A S \in SUBSET D : \A T \in SUBSET S : f[T] <= f[S]
  <2> HIDE DEF w
  <2> QED
    BY <1>1, <1>2, SumGrows
<1>5. f \in [SUBSET D -> Nat] /\ f[{}] = 0
  BY <1>2 DEF Sums
<1> HIDE DEF w
<1>6. ASSUME NEW S \in SUBSET D, NEW T \in SUBSET S
      PROVE  FoldOf(inv, key, T) <= FoldOf(inv, key, S)
  BY <1>3, <1>4
<1> QED
  BY <1>3, <1>5, <1>6

\* The planner's two sums, over any resources of an inventory.
LEMMA SumFacts ==
  ASSUME NEW inv \in Inventories
  PROVE  /\ Devices(inv, {}) = 0
         /\ \A S \in SUBSET DOMAIN inv :
               /\ Devices(inv, S) \in Nat /\ Memory(inv, S) \in Nat
               /\ \A T \in SUBSET S : /\ Devices(inv, T) <= Devices(inv, S)
                                      /\ Memory(inv, T) <= Memory(inv, S)
<1>1. /\ IsFiniteSet(DOMAIN inv)
      /\ \A i \in DOMAIN inv : inv[i]["devices"] \in Nat /\ inv[i]["free"] \in Nat
  BY InventoryFacts
<1>2. ASSUME NEW S
      PROVE  /\ Devices(inv, S) = FoldOf(inv, "devices", S)
             /\ Memory(inv, S) = FoldOf(inv, "free", S)
  BY DEF Devices, Memory, FoldOf
<1>3. /\ FoldOf(inv, "devices", {}) = 0
      /\ \A S \in SUBSET DOMAIN inv :
            /\ FoldOf(inv, "devices", S) \in Nat
            /\ \A T \in SUBSET S : FoldOf(inv, "devices", T) <= FoldOf(inv, "devices", S)
  BY <1>1, FoldFacts
<1>4. \A S \in SUBSET DOMAIN inv :
            /\ FoldOf(inv, "free", S) \in Nat
            /\ \A T \in SUBSET S : FoldOf(inv, "free", T) <= FoldOf(inv, "free", S)
  BY <1>1, FoldFacts
<1> QED
  BY <1>2, <1>3, <1>4

\* The least and the largest of some numbers.
LEMMA LeastOf ==
  ASSUME NEW S, S \subseteq Nat, S # {}
  PROVE  \E n \in S : \A m \in S : n <= m
<1> DEFINE R == {ss \in Nat \X Nat : ss[1] < ss[2]}
<1>1. IsWellFoundedOn(R, Nat)
  BY NatLessThanWellFounded DEF OpToRel
<1> HIDE DEF R
<1>2. PICK n \in S : \A m \in S : <<m, n>> \notin R
  BY <1>1, WFMin
<1>3. \A m \in S : ~(m < n)
  BY <1>2 DEF R
<1> QED
  BY <1>3

LEMMA LargestOf ==
  ASSUME NEW n \in Nat, NEW S, S \subseteq 0..n, S # {}
  PROVE  \E m \in S : \A x \in S : x <= m
<1> DEFINE L == {b \in Nat : n - b \in S}
<1>1. \A x \in S : x \in 0..n /\ x \in Int /\ n - x \in Nat /\ n - (n - x) = x
  OBVIOUS
<1>2. L \subseteq Nat /\ L # {}
  BY <1>1
<1>3. PICK k \in L : \A l \in L : k <= l
  <2> HIDE DEF L
  <2> QED
    BY <1>2, LeastOf
<1>4. ASSUME NEW x \in S PROVE x <= n - k
  <2>1. n - x \in L
    BY <1>1
  <2>2. k <= n - x /\ k \in Nat /\ x \in Int
    BY <1>1, <1>3, <2>1
  <2> QED
    BY <2>2
<1> QED
  BY <1>4

\* The best rank group exists: one with the most devices, with the most memory
\* among those, and the first of these.
LEMMA BestIsAhead ==
  ASSUME NEW inv \in Inventories, Groups(inv) # {}
  PROVE  Best(inv) \in Groups(inv) /\ \A h \in Groups(inv) : Ahead(inv, Best(inv), h)
<1> DEFINE d(x) == Devices(inv, Ranks(inv, x))
           m(x) == Memory(inv, Ranks(inv, x))
           D == {d(x) : x \in Groups(inv)}
<1>1. /\ Devices(inv, DOMAIN inv) \in Nat /\ Memory(inv, DOMAIN inv) \in Nat
      /\ \A x : /\ d(x) \in 0..Devices(inv, DOMAIN inv)
                /\ m(x) \in 0..Memory(inv, DOMAIN inv)
  <2>1. \A x : Ranks(inv, x) \in SUBSET DOMAIN inv
    BY DEF Ranks
  <2> QED
    BY <2>1, SumFacts
<1>2. Groups(inv) \subseteq Nat
  BY InventoryFacts DEF Groups, Eligible
<1> HIDE DEF d, m
<1>3. PICK a \in D : \A x \in D : x <= a
  <2>1. D \subseteq 0..Devices(inv, DOMAIN inv) /\ D # {}
    BY <1>1
  <2> HIDE DEF D
  <2> QED
    BY <1>1, <2>1, LargestOf
<1> DEFINE G == {x \in Groups(inv) : d(x) = a}
           M == {m(x) : x \in G}
<1>4. PICK b \in M : \A x \in M : x <= b
  <2>1. M \subseteq 0..Memory(inv, DOMAIN inv) /\ M # {}
    BY <1>1
  <2> HIDE DEF M
  <2> QED
    BY <1>1, <2>1, LargestOf
<1> DEFINE F == {x \in G : m(x) = b}
<1>5. PICK g \in F : \A x \in F : g <= x
  <2>1. F \subseteq Nat /\ F # {}
    BY <1>2
  <2> HIDE DEF F
  <2> QED
    BY <2>1, LeastOf
<1>6. ASSUME NEW h \in Groups(inv)
      PROVE  d(g) > d(h) \/ (d(g) = d(h) /\ (m(g) > m(h) \/ (m(g) = m(h) /\ g <= h)))
  <2>1. g \in Groups(inv) /\ d(g) = a /\ m(g) = b
    BY <1>5
  <2>2. d(h) <= a /\ d(h) \in Nat /\ a \in Nat /\ m(h) \in Nat /\ b \in Nat
    BY <1>1, <2>1, <1>3
  <2>3. d(h) = a => m(h) <= b
    BY <1>4
  <2>4. d(h) = a /\ m(h) = b => g <= h
    BY <1>5
  <2> QED
    BY <2>1, <2>2, <2>3, <2>4
<1>7. g \in Groups(inv) /\ \A h \in Groups(inv) : Ahead(inv, g, h)
  BY <1>5, <1>6 DEF Ahead, d, m
<1> QED
  BY <1>7 DEF Best

\* Discovered resources have every capability a backend requires.
LEMMA DiscoveredSuffices ==
  ASSUME NEW inv \in Inventories, Discovered(inv), NEW i \in DOMAIN inv
  PROVE  /\ "cuda" \in inv[i].caps <=> inv[i].type = "cuda"
         /\ inv[i].type = "cuda" => Required("accelerate_fsdp2") \subseteq inv[i].caps
BY DEF Discovered, DiscoveredCaps, Required

\* An elastic project runs on everything that can train adapters.
LEMMA ElasticPlansReady ==
  ASSUME NEW q \in ProjectKinds, NEW inv \in Inventories, NEW opt \in Options,
         NEW S \in SUBSET DOMAIN inv, CanRun(q, inv, S),
         Consistent(q), q.mode = "elastic_delta", opt.runtime
  PROVE  /\ Outcome(q, inv, opt) = "ready"
         /\ Devices(inv, S) <= Devices(inv, Selected(q, inv))
<1>1. q.backend = "volunteer_peft" /\ q.peft
  BY DEF Consistent
<1>2. /\ S # {} /\ S \subseteq Selected(q, inv)
      /\ Selected(q, inv) \in SUBSET DOMAIN inv
      /\ \A i \in Selected(q, inv) : Required(q.backend) \subseteq inv[i].caps
  BY <1>1 DEF CanRun, Selected, Required
<1>3. Builds(q, inv) /\ Launches(q, inv) /\ Unblocked(q, inv, opt)
  BY <1>1, <1>2 DEF Builds, Launches, Unblocked
<1>4. Devices(inv, S) <= Devices(inv, Selected(q, inv))
  BY <1>2, SumFacts
<1> QED
  BY <1>3, <1>4 DEF Outcome

\* A stable project runs on the rank group with the most devices.
LEMMA StablePlansReady ==
  ASSUME NEW q \in ProjectKinds, NEW inv \in Inventories, NEW opt \in Options,
         NEW S \in SUBSET DOMAIN inv, CanRun(q, inv, S), Discovered(inv),
         Consistent(q), q.mode = "stable_sharded",
         opt.runtime, opt.entry, opt.verified
  PROVE  /\ Outcome(q, inv, opt) = "ready"
         /\ Devices(inv, S) <= Devices(inv, Selected(q, inv))
<1>1. q.backend = "accelerate_fsdp2"
  BY DEF Consistent
<1>2. /\ Devices(inv, S) >= 2
      /\ Cardinality({inv[i].group : i \in S}) = 1
      /\ \A i \in S : inv[i].stable /\ Required("accelerate_fsdp2") \subseteq inv[i].caps
  BY DEF CanRun
<1>3. \A i \in S : Eligible(inv[i])
  BY <1>2, DiscoveredSuffices DEF Eligible, Required
<1>4. PICK g : S \subseteq Ranks(inv, g) /\ g \in Groups(inv)
  <2>1. IsFiniteSet({inv[i].group : i \in S})
    <3>1. IsFiniteSet(S)
      BY InventoryFacts, FS_Subset
    <3>2. [i \in S |-> inv[i].group] \in Surjection(S, {inv[i].group : i \in S})
      BY DEF Surjection
    <3> QED
      BY <3>1, <3>2, FS_Surjection
  <2>2. PICK g : {inv[i].group : i \in S} = {g}
    BY <1>2, <2>1, FS_Singleton
  <2> QED
    BY <1>3, <2>2 DEF Ranks, Groups
<1> DEFINE b == Best(inv)
<1>5. b \in Groups(inv) /\ Ahead(inv, b, g)
  BY <1>4, BestIsAhead
<1>6. Selected(q, inv) = Ranks(inv, b)
  BY <1>1, <1>4 DEF Selected
<1>7. /\ Ranks(inv, b) \in SUBSET DOMAIN inv /\ Ranks(inv, g) \in SUBSET DOMAIN inv
      /\ \A i \in Ranks(inv, b) : inv[i].type = "cuda"
  BY DEF Ranks, Eligible
<1>8. Devices(inv, S) <= Devices(inv, Ranks(inv, b))
  <2>1. /\ Devices(inv, S) \in Nat
        /\ Devices(inv, Ranks(inv, g)) \in Nat /\ Devices(inv, Ranks(inv, b)) \in Nat
        /\ Devices(inv, S) <= Devices(inv, Ranks(inv, g))
    BY <1>4, <1>7, SumFacts
  <2>2. Devices(inv, Ranks(inv, b)) >= Devices(inv, Ranks(inv, g))
    BY <1>5, <2>1 DEF Ahead
  <2> QED
    BY <2>1, <2>2
<1>9. Devices(inv, Ranks(inv, b)) >= 2 /\ Ranks(inv, b) # {}
  BY <1>2, <1>7, <1>8, SumFacts
<1>10. \A i \in Ranks(inv, b) : Required("accelerate_fsdp2") \subseteq inv[i].caps
  BY <1>7, DiscoveredSuffices
<1>11. Builds(q, inv) /\ Launches(q, inv) /\ Unblocked(q, inv, opt)
  BY <1>1, <1>6, <1>9, <1>10 DEF Builds, Launches, Unblocked
<1> QED
  BY <1>6, <1>8, <1>11 DEF Outcome

-----------------------------------------------------------------------------
\* A plan that is ready names resources that can run its project, whatever
\* the providers reported: the contract of an execution plan (Builds) makes up
\* for what the choice of the rank group does not look at.
THEOREM ReadyPlansCanRun ==
  ASSUME NEW q \in ProjectKinds, NEW inv \in Inventories, NEW opt \in Options,
         Outcome(q, inv, opt) = "ready"
  PROVE  Selected(q, inv) \subseteq DOMAIN inv /\ CanRun(q, inv, Selected(q, inv))
<1> DEFINE S == Selected(q, inv)
<1>1. Builds(q, inv) /\ Unblocked(q, inv, opt)
  BY DEF Outcome
<1>2. CASE q.backend = "volunteer_peft"
  <2>1. q.mode = "elastic_delta"
    BY <1>1, <1>2 DEF Unblocked
  <2> QED
    BY <1>1, <1>2, <2>1 DEF Unblocked, Selected, CanRun
<1>3. CASE q.backend # "volunteer_peft"
  <2>1. q.mode = "stable_sharded" /\ q.backend = "accelerate_fsdp2" /\ S # {}
    BY <1>1, <1>3 DEF Unblocked, Builds
  <2>2. PICK g : S = Ranks(inv, g)
    BY <1>3, <2>1 DEF Selected
  <2>3. /\ S \subseteq DOMAIN inv
        /\ \A i \in S : inv[i].stable /\ inv[i].group = g
    BY <2>2 DEF Ranks, Eligible
  <2>4. {inv[i].group : i \in S} = {g}
    BY <2>1, <2>3
  <2>5. Cardinality({inv[i].group : i \in S}) = 1
    BY <2>4, FS_Singleton
  <2>6. Devices(inv, S) >= 2 /\ \A i \in S : Required("accelerate_fsdp2") \subseteq inv[i].caps
    BY <1>1, <1>3, <2>1 DEF Unblocked, Builds
  <2> QED
    BY <2>1, <2>3, <2>5, <2>6 DEF CanRun
<1> QED
  BY <1>2, <1>3

\* The planner is sound for every project and whatever the providers report:
\* what it calls ready can run, and what discovered resources can run is ready,
\* with as many devices as can be had.
THEOREM PlannerSound == \A q \in ProjectKinds : SoundFor(q)
<1>1. SUFFICES ASSUME NEW q \in ProjectKinds, NEW inv \in Inventories, NEW opt \in Options
      PROVE  LET out  == Outcome(q, inv, opt)
                 able == {S \in SUBSET DOMAIN inv : CanRun(q, inv, S)}
             IN  /\ out = "ready" => Selected(q, inv) \in able
                 /\ (/\ Consistent(q) /\ Discovered(inv) /\ able # {}
                     /\ opt.runtime /\ opt.entry /\ opt.verified)
                    => /\ out = "ready"
                       /\ \A S \in able : Devices(inv, S) <= Devices(inv, Selected(q, inv))
  BY DEF SoundFor
<1> DEFINE able == {S \in SUBSET DOMAIN inv : CanRun(q, inv, S)}
<1>2. ASSUME Outcome(q, inv, opt) = "ready"
      PROVE  Selected(q, inv) \in able
  BY <1>2, ReadyPlansCanRun
<1>3. ASSUME Consistent(q), Discovered(inv), opt.runtime, opt.entry, opt.verified,
             NEW S \in able
      PROVE  /\ Outcome(q, inv, opt) = "ready"
             /\ Devices(inv, S) <= Devices(inv, Selected(q, inv))
  <2>1. q.mode = "elastic_delta" \/ q.mode = "stable_sharded"
    BY DEF ProjectKinds, Modes
  <2> QED
    BY <1>3, <2>1, ElasticPlansReady, StablePlansReady
<1> QED
  BY <1>2, <1>3

\* No command ever records a plan that its project and the inventory do not
\* bear out.
THEOREM PlansAlwaysSound == Spec => []PlansSound
<1>1. Inv => PlansSound
  <2> SUFFICES ASSUME Inv, NEW p \in Procs, At(p, "file")
        PROVE  Sound[procs[p].project]
    BY DEF PlansSound
  <2>1. procs[p].project \in Projects
    BY WorkspaceAssumption DEF Inv, TypeOK, Holds, Bound, At
  <2>2. SoundFor(procs[p].project)
    BY <2>1, PlannerSound, WorkspaceAssumption
  <2> QED
    BY <2>1, <2>2 DEF Sound
<1> QED
  BY <1>1, WorkspaceInvariance, PTL
=============================================================================
