------------------------- MODULE WorkspaceLifecycle -------------------------
(***************************************************************************)
(* The workspace of a project (core/workspace.py): a manifest that is      *)
(* created once, a plan file, and a control file with the state of the     *)
(* project.  Every command is a process of its own: it reads the control   *)
(* file, decides, reads the file AGAIN, changes the members it decided on  *)
(* and replaces the file.  There is no lock, so another command may save   *)
(* between any two of these steps.  What a plan command records is the     *)
(* result of ExecutionPlanner on some inventory of resources.              *)
(***************************************************************************)
EXTENDS ExecutionPlanner

CONSTANTS
    Procs,        \* processes, each running one command at a time
    Projects,     \* project contracts somebody may try to initialize
    MaxCommands,  \* bound: commands started
    None

Ended    == {"ready", "blocked"}            \* what a plan leads to
States   == {"initialized", "running", "completed", "paused"} \cup Ended
Commands == {"plan", "run", "join", "pause", "resume"}

\* The members of the control file that commands decide on or validate.
Control == [project : Projects, state : States, gen : Nat, plan : Ended \cup {None}]

ASSUME WorkspaceAssumption ==
    /\ Projects \subseteq ProjectKinds /\ MaxCommands \in Nat
    /\ None \notin Projects /\ None \notin Control

VARIABLES
    project,   \* the manifest
    control,   \* the control file
    plan,      \* the plan file: whether its plan can be executed
    procs,
    inits,     \* projects whose init returned without an error
    commands

vars == <<project, control, plan, procs, inits, commands>>

Resting == [pc |-> "none", cmd |-> "none", project |-> None, cur |-> None,
            target |-> None, plan |-> None, next |-> None]

Init ==
    /\ project = None /\ control = None /\ plan = None
    /\ procs = [p \in Procs |-> Resting]
    /\ inits = {} /\ commands = 0

At(p, pc)  == procs[p].pc = pc
Step(p, r) == procs' = [procs EXCEPT ![p] = r]
Finish(p)  == Step(p, Resting)

-----------------------------------------------------------------------------
\* init_project_contract: an existing manifest must be the same project.
InitStart(p, q) ==
    /\ At(p, "none") /\ commands < MaxCommands
    /\ commands' = commands + 1
    /\ IF project \in {None, q}
       THEN Step(p, [Resting EXCEPT !.cmd = "init", !.project = q,
                        !.pc = IF project = None THEN "create" ELSE "control"])
       ELSE UNCHANGED procs
    /\ UNCHANGED <<project, control, plan, inits>>

\* Mutant of CreateManifest: the file is written over.
CreateManifestOver(p) ==
    /\ At(p, "create")
    /\ project' = procs[p].project
    /\ Step(p, [procs[p] EXCEPT !.pc = "control"])
    /\ UNCHANGED <<control, plan, inits, commands>>

\* _create_json_exclusive links the complete file; who loses the race compares
\* the winner's project with its own.
CreateManifest(p) ==
    /\ At(p, "create")
    /\ project' = IF project = None THEN procs[p].project ELSE project
    /\ IF project' = procs[p].project
       THEN Step(p, [procs[p] EXCEPT !.pc = "control"])
       ELSE Finish(p)
    /\ UNCHANGED <<control, plan, inits, commands>>

\* _load_control_state with create: the first one links the initial file.
InitialControl(q) == [project |-> q, state |-> "initialized", gen |-> 0, plan |-> None]
LoadControl(q) == IF control = None THEN InitialControl(q) ELSE control

InitControl(p) ==
    /\ At(p, "control")
    /\ control' = LoadControl(procs[p].project)
    /\ inits' = IF control'.project = procs[p].project
                THEN inits \cup {procs[p].project} ELSE inits
    /\ Finish(p)
    /\ UNCHANGED <<project, plan, commands>>

-----------------------------------------------------------------------------
\* A command starts with load_project.
Start(p, cmd) ==
    /\ At(p, "none") /\ project # None /\ commands < MaxCommands
    /\ commands' = commands + 1
    /\ Step(p, [Resting EXCEPT !.cmd = cmd, !.project = project,
                   !.pc = IF cmd = "plan" THEN "file" ELSE "read"])
    /\ UNCHANGED <<project, control, plan, inits>>

\* What the planner makes of the resources there may be.
Outcomes == [q \in Projects |-> {Outcome(q, inv, opt) : inv \in Inventories, opt \in Options}]

\* record_plan replaces the plan file before it looks at the control file.
WritePlan(p, r) ==
    /\ At(p, "file") /\ r \in Outcomes[procs[p].project]
    /\ plan' = r
    /\ Step(p, [procs[p] EXCEPT !.pc = "read", !.plan = r])
    /\ UNCHANGED <<project, control, inits, commands>>

\* An exception of the planner: the plan of an earlier command stays.
PlanFails(p) ==
    /\ At(p, "file") /\ "error" \in Outcomes[procs[p].project]
    /\ Finish(p)
    /\ UNCHANGED <<project, control, plan, inits, commands>>

\* The first read.  A completed workspace is not paused.
Read(p) ==
    /\ At(p, "read")
    /\ control' = LoadControl(procs[p].project)
    /\ IF \/ control'.project # procs[p].project
          \/ procs[p].cmd = "pause" /\ control'.state = "completed"
       THEN Finish(p)
       ELSE Step(p, [procs[p] EXCEPT !.pc = "decide", !.cur = control'])
    /\ UNCHANGED <<project, plan, inits, commands>>

\* Mutant of Targets: a new plan starts over.
TargetsPlanAnew(cmd, cur, new) ==
    IF cmd = "pause" THEN {"paused"}
    ELSE IF cmd = "resume" THEN {IF plan = None THEN "initialized" ELSE plan}
    ELSE IF cmd = "plan" THEN {new}
    ELSE IF cur.state = "paused" THEN {"paused"}
    ELSE IF cmd = "join" THEN {"completed", "ready", cur.state}
    ELSE {"blocked", "ready", "running", "completed"}

\* The state a command decides on.  resume follows the plan file; the others
\* keep a pause; run is blocked without a plan, without its controller or with
\* the wrong backend; join keeps the state when it is not admitted.
Targets(cmd, cur, new) ==
    IF cmd = "pause" THEN {"paused"}
    ELSE IF cmd = "resume" THEN {IF plan = None THEN "initialized" ELSE plan}
    ELSE IF cur.state = "paused" THEN {"paused"}
    ELSE IF cmd = "plan" THEN {new}
    ELSE IF cmd = "join" THEN {"completed", "ready", cur.state}
    ELSE {"blocked", "ready", "running", "completed"}

Decide(p) ==
    /\ At(p, "decide")
    /\ \E t \in Targets(procs[p].cmd, procs[p].cur, procs[p].plan) :
          Step(p, [procs[p] EXCEPT !.pc = "reread", !.target = t])
    /\ UNCHANGED <<project, control, plan, inits, commands>>

\* _set_control_state: the generation moves when the FIRST read was on the
\* other side of the pause; the members not decided on are those of the second.
Moves(r) ==
    \/ r.cmd = "pause" /\ r.cur.state # "paused"
    \/ r.cmd = "resume" /\ r.cur.state = "paused"
Reread(p) ==
    /\ At(p, "reread")
    /\ LET r == procs[p]
       IN  Step(p, [r EXCEPT !.pc = "save", !.next =
               [project |-> control.project, state |-> r.target,
                gen  |-> control.gen + (IF Moves(r) THEN 1 ELSE 0),
                plan |-> IF r.cmd = "plan" THEN r.plan ELSE control.plan]])
    /\ UNCHANGED <<project, control, plan, inits, commands>>

\* _save_control_state
Save(p) ==
    /\ At(p, "save")
    /\ control' = procs[p].next
    /\ Finish(p)
    /\ UNCHANGED <<project, plan, inits, commands>>

\* A process is killed between two steps; it leaves what it has written.
Killed(p) ==
    /\ procs[p].pc # "none" /\ Finish(p)
    /\ UNCHANGED <<project, control, plan, inits, commands>>

Next ==
    \E p \in Procs :
        \/ \E q \in Projects : InitStart(p, q)
        \/ CreateManifest(p) \/ InitControl(p)
        \/ \E cmd \in Commands : Start(p, cmd)
        \/ \E r \in Ended : WritePlan(p, r)
        \/ PlanFails(p)
        \/ Read(p) \/ Decide(p) \/ Reread(p) \/ Save(p) \/ Killed(p)

Spec == Init /\ [][Next]_vars

-----------------------------------------------------------------------------
\* Whatever resources there are, the plan a command is about to record is ready
\* only on resources that can run the project, and is ready if discovered ones
\* can (SoundFor).
Sound == [q \in Projects |-> SoundFor(q)]
PlansSound == \A p \in Procs : At(p, "file") => Sound[procs[p].project]

\* However inits race, every one that returned without an error bound the same
\* project, the manifest is that project for ever, and no control file of
\* another project is ever there to be refused.
ManifestAgreed ==
    /\ inits \subseteq {project}
    /\ control # None => control.project = project

\* Who ends a pause: a resume, or a command that had read the state before the
\* pause was saved and saves its decision after it.  No command that saw the
\* pause undoes it, although what it saves mixes two reads.
OnlyEarlierCommandsUnpause ==
    [][control # None /\ control.state = "paused" /\ control' # control =>
          \/ control'.state = "paused"
          \/ \E p \in Procs : /\ procs[p].pc = "save" /\ procs'[p].pc = "none"
                              /\ procs[p].cmd = "resume" \/ procs[p].cur.state # "paused"]_vars
=============================================================================
