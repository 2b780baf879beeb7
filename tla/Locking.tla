-------------------------------- MODULE Locking --------------------------------
(***************************************************************************)
(* The commands that write a project's lock file: lock, require and        *)
(* converge of src/cli/command.rs, with resolution, hydration and          *)
(* src/convergence.rs behind them.                                         *)
(*                                                                         *)
(* A command reads the lock file once, builds its candidate in memory and  *)
(* replaces the file at the end by an atomic rename; no lock covers the    *)
(* time in between, so commands of one project overlap freely.  Byte       *)
(* transfer is abstracted to its success or failure: ContentStore has it.  *)
(***************************************************************************)
EXTENDS LockGraph

CONSTANTS Commands,   \* processes working on one project
          Projects,   \* what a scan of the project may find
          Demands,    \* requirements given on a command line
          Traces,     \* inputs of a trace that concern packages
          MaxChanges, \* bound: lock and require commands
          NoLock      \* there is no lock file yet

ASSUME LockingAssumption ==
    /\ Projects \subseteq Declarations
    /\ Demands \subseteq SUBSET Wants
    /\ Traces \subseteq SUBSET Requests
    /\ MaxChanges \in Nat
    /\ NoLock \notin Locks
    /\ Snapshots # {}

VARIABLES
    project,   \* declarations in the project's sources
    lockfile,  \* pqty.lock, always an exact lock
    changes,   \* lock and require commands so far
    pc, kind,
    index,     \* the snapshot a command loaded
    cand,      \* its candidate lock
    queue,     \* providers whose dependencies are still to be entered
    base,      \* the closure of the lock it read
    trace      \* the trace a converge works on

file == <<project, lockfile, changes>>
vars == <<file, pc, kind, index, cand, queue, base, trace>>

Steps == {"idle", "expand", "check", "publish"}

LockingTypeOK ==
    /\ project \in Projects
    /\ lockfile \in Locks \union {NoLock}
    /\ changes \in 0..MaxChanges
    /\ pc \in [Commands -> Steps]
    /\ kind \in [Commands -> {"none", "lock", "require", "converge"}]
    /\ index \in [Commands -> Snapshots]
    /\ cand \in [Commands -> Locks \union {NoLock}]
    /\ queue \in [Commands -> SUBSET Providers]
    /\ base \in [Commands -> SUBSET Providers]
    /\ trace \in [Commands -> SUBSET Requests]

AnySnapshot == CHOOSE s \in Snapshots : TRUE

Init ==
    /\ project \in Projects
    /\ lockfile = NoLock
    /\ changes = 0
    /\ pc = [c \in Commands |-> "idle"]
    /\ kind = [c \in Commands |-> "none"]
    /\ index = [c \in Commands |-> AnySnapshot]
    /\ cand = [c \in Commands |-> NoLock]
    /\ queue = [c \in Commands |-> {}]
    /\ base = [c \in Commands |-> {}]
    /\ trace = [c \in Commands |-> {}]

\* A command begins with candidate l, whose providers q are to be expanded.
Start(c, k, step, s, l, q) ==
    /\ pc[c] = "idle"
    /\ pc' = [pc EXCEPT ![c] = step]
    /\ kind' = [kind EXCEPT ![c] = k]
    /\ index' = [index EXCEPT ![c] = s]
    /\ cand' = [cand EXCEPT ![c] = l]
    /\ queue' = [queue EXCEPT ![c] = q]
    /\ base' = [base EXCEPT ![c] = IF lockfile = NoLock THEN {} ELSE lockfile.closure]

Changing == changes < MaxChanges /\ changes' = changes + 1

\* A command returns: what it held in memory is gone.
Return(c) ==
    /\ pc' = [pc EXCEPT ![c] = "idle"]
    /\ kind' = [kind EXCEPT ![c] = "none"]
    /\ cand' = [cand EXCEPT ![c] = NoLock]
    /\ queue' = [queue EXCEPT ![c] = {}]
    /\ base' = [base EXCEPT ![c] = {}]
    /\ trace' = [trace EXCEPT ![c] = {}]
    /\ index' = [index EXCEPT ![c] = AnySnapshot]

-----------------------------------------------------------------------------
(* Commands. *)

Edit(d) ==
    /\ project' = d
    /\ UNCHANGED <<lockfile, changes, pc, kind, index, cand, queue, base, trace>>

\* Nothing in the project needs the registry's file table.
NoRegistryInputs(d) == d.literals = {} /\ d.graphics = {}

MutReusablePackagesOnly(l, d, w) ==
    /\ l # NoLock
    /\ l.project.packages = d.packages
    /\ l.wants = w

\* The declarations and requirements that decide the closure are those of
\* the existing lock.
Reusable(l, d, w) ==
    /\ l # NoLock
    /\ NoRegistryInputs(d)
    /\ l.project.packages = d.packages
    /\ l.project.literals = d.literals
    /\ l.wants = w

\* lock over an existing lock: only the project records are refreshed, the
\* registry is not read unless it is a local installation.
Reuse(c, w) ==
    /\ Changing
    /\ Reusable(lockfile, project, w)
    /\ Start(c, "lock", "publish", lockfile.snapshot,
             [lockfile EXCEPT !.project = project], {})
    /\ UNCHANGED <<project, lockfile, trace>>

\* lock from the project's declarations.  Also where Reusable holds: the
\* registry selected may be another, or a local installation changed.
Resolve(c, s, w) ==
    /\ Changing
    /\ Resolvable(s, project)
    /\ Satisfiable(s, w)
    /\ LET l == Required(Seeded(s, project), s, w)
       IN  Start(c, "lock", "expand", s, l, l.closure)
    /\ UNCHANGED <<project, lockfile, trace>>

\* require: the registry must be the one of the lock.
Require(c, s, w) ==
    /\ Changing
    /\ lockfile # NoLock
    /\ lockfile.snapshot = s
    /\ w # {}
    /\ Satisfiable(s, w)
    /\ Start(c, "require", "expand", s, Required(lockfile, s, w), Askers(Unique(s, w)))
    /\ UNCHANGED <<project, lockfile, trace>>

MutSameRegistryAny(l, s) == TRUE
SameRegistry(l, s) == l.snapshot = s

\* converge: a stable trace and an unresolved one leave everything as it is.
Converge(c, s, t) ==
    /\ lockfile # NoLock
    /\ LET missing == Missing(lockfile, t)
       IN  /\ missing # {}
           /\ SameRegistry(lockfile, s)
           /\ Convergible(lockfile, s, missing)
           /\ Start(c, "converge", "expand", s, Observed(lockfile, s, missing),
                    Askers(Unique(s, missing)))
    /\ trace' = [trace EXCEPT ![c] = t]
    /\ UNCHANGED file

-----------------------------------------------------------------------------
(* The steps of a command. *)

MutExpandRepeating(c, p) ==
    /\ pc[c] = "expand"
    /\ p \in queue[c]
    /\ cand' = [cand EXCEPT ![c] = Expanded(cand[c], index[c], p)]
    /\ queue' = [queue EXCEPT ![c] = (@ \ {p}) \union Children(cand[c], index[c], p)]
    /\ UNCHANGED <<file, pc, kind, index, base, trace>>

\* The worklist is first in, first out in the code; no order is assumed here.
Expand(c, p) ==
    /\ pc[c] = "expand"
    /\ p \in queue[c]
    /\ cand' = [cand EXCEPT ![c] = Expanded(cand[c], index[c], p)]
    /\ queue' = [queue EXCEPT ![c] =
                    (@ \ {p}) \union (Children(cand[c], index[c], p) \ cand[c].closure)]
    /\ UNCHANGED <<file, pc, kind, index, base, trace>>

\* All entries are hydrated and the files of the closure are searched; the
\* loop goes on while that adds a provider.
Discover(c) ==
    /\ pc[c] = "expand"
    /\ queue[c] = {}
    /\ \E found \in {Found(cand[c], index[c])} :
          IF found = {}
          THEN /\ pc' = [pc EXCEPT ![c] = "check"]
               /\ UNCHANGED <<cand, queue>>
          ELSE /\ cand' = [cand EXCEPT ![c] = Grown(cand[c], index[c], found)]
               /\ queue' = [queue EXCEPT ![c] = Newcomers(found)]
               /\ UNCHANGED pc
    /\ UNCHANGED <<file, kind, index, base, trace>>

MutAcceptableGraph(l, t) == Valid(l)

\* The candidate must be valid; one that converges must account for the
\* whole trace.
Acceptable(l, t) == Valid(l) /\ Missing(l, t) = {}
Check(c) ==
    /\ pc[c] = "check"
    /\ IF Acceptable(cand[c], trace[c])
       THEN pc' = [pc EXCEPT ![c] = "publish"] /\ UNCHANGED <<kind, index, cand, queue, base, trace>>
       ELSE Return(c)
    /\ UNCHANGED file

Publish(c) ==
    /\ pc[c] = "publish"
    /\ lockfile' = cand[c]
    /\ Return(c)
    /\ UNCHANGED <<project, changes>>

\* A transfer, a limit or a write fails, or the process is stopped.
IoError(c) ==
    /\ pc[c] # "idle"
    /\ Return(c)
    /\ UNCHANGED file

Step(c) == (\E p \in Providers : Expand(c, p)) \/ Discover(c) \/ Check(c) \/ Publish(c)

Next ==
    \/ \E d \in Projects : Edit(d)
    \/ \E c \in Commands :
        \/ \E w \in Demands : Reuse(c, w)
        \/ \E w \in Demands, s \in Snapshots : Resolve(c, s, w)
        \/ \E w \in Demands, s \in Snapshots : Require(c, s, w)
        \/ \E t \in Traces, s \in Snapshots : Converge(c, s, t)
        \/ Step(c)
        \/ IoError(c)

Fairness == \A c \in Commands : WF_vars(Step(c))

Spec == Init /\ [][Next]_vars
FairSpec == Spec /\ Fairness

-----------------------------------------------------------------------------
(* Properties. *)

\* Building a candidate and validating it are written independently of each
\* other: whatever order the worklist is served in, and with whatever lock
\* the command began, the graph that resolution, discovery and convergence
\* build is one the final check accepts, with a provider for every declaration
\* and requirement.  Only the contents of providers, or a second owner of a
\* required name, can make a command fail there.
WantsHeld(l) ==
    /\ l.wants \intersect Providers \subseteq l.closure \intersect l.direct
    /\ \A r \in l.wants \intersect Requests : \E p \in l.closure : <<p, r>> \in l.requests
ValidationAccepts ==
    \A c \in Commands : pc[c] = "check" =>
        GraphValid(cand[c]) /\ WantsHeld(cand[c]) /\ DeclarationsValid(cand[c])

\* Every provider of the lock file is there for a reason that ends in a
\* direct one: no set of indirect providers only requires itself.  Validation
\* asks for some requester only, which a dependency cycle supplies.
WellFounded(l) ==
    \A S \in SUBSET (l.closure \ l.direct) :
        S # {} => \E e \in l.edges : e[1] \in l.closure \ S /\ e[2] \in S
NoOrphans == lockfile # NoLock => WellFounded(lockfile)

\* The entries of a lock come from the one snapshot it names, however many
\* commands extended it while the registry moved.
FromSnapshot(l) ==
    l.deps = {e \in Providers \X Providers :
                 e[1] \in l.closure /\ e[2] \in Depends(l.snapshot, e[1])}
OneSnapshot == lockfile # NoLock => FromSnapshot(lockfile)

\* The lock file answers all it records: each declaration that the registry
\* can answer and each name that the files of its closure load, also when a
\* lock was reused over changed sources.
Answered(l) ==
    /\ \A a \in Unique(l.snapshot, l.project.packages) : a \in l.satisfies
    /\ \A a \in UniqueFiles(l.snapshot, l.project.literals \union l.project.graphics) :
          a \in l.requests /\ a[1] \in l.direct
    /\ Found(l, l.snapshot) = {}
LockAnswers == lockfile # NoLock => Answered(lockfile)

\* When converge reports "changed", the new lock has every provider of the
\* lock it read and at least one more, and satisfies the complete trace.
ConvergeExtends ==
    [][\A c \in Commands :
          kind[c] = "converge" /\ pc[c] = "publish" /\ pc'[c] = "idle" /\ lockfile' # lockfile
              => /\ base[c] \subseteq lockfile'.closure
                 /\ base[c] # lockfile'.closure
                 /\ Missing(lockfile', trace[c]) = {}]_vars

\* Every command ends: the worklist and the discovery rounds terminate on
\* cyclic dependencies and loads.
CommandsReturn == \A c \in Commands : pc[c] # "idle" ~> pc[c] = "idle"

\* Rendering and converging comes to rest, whatever the traces say and also
\* when converging commands overwrite each other's result: from some point on
\* converge changes nothing.
ConvergenceSettles == <>[][~\E c \in Commands : kind[c] = "converge" /\ Publish(c)]_vars
=============================================================================
