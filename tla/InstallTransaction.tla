-------------------------- MODULE InstallTransaction --------------------------
(***************************************************************************)
(* The installation transaction of one destination directory:              *)
(* src/store/transaction.rs and its caller in src/store/install.rs.        *)
(*                                                                         *)
(* Several pqty processes install exact locks into the same destination.   *)
(* Beside the destination lies a control directory, whose four members are *)
(* the OS lock file (guard), the ownership record (owner), the tree being  *)
(* assembled (stage) and the tree being replaced (previous).  Every file   *)
(* system call is a step of its own: a process may exit, or the call may   *)
(* fail, between any two of them.                                          *)
(*                                                                         *)
(* A lock here stands for an environment fingerprint together with a link  *)
(* mode: the ownership marker records both and the audit compares both.    *)
(***************************************************************************)
EXTENDS FiniteSets

CONSTANTS Procs,    \* processes that install into the destination
          Locks,    \* exact locks (fingerprint and link mode) they install
          Files,    \* the locked TDS paths of a tree
          NoLock,   \* the lock of a directory pqty did not build
          Nobody    \* the owner of a free OS lock

ASSUME ConstantsAssumption ==
    /\ NoLock \notin Locks
    /\ Nobody \notin Procs

VARIABLES
    pc,          \* the next step of each process
    want,        \* the lock each running call installs
    result,      \* how the last call of each process ended
    guard,       \* holder of the OS lock on <control>/lock
    owner,       \* <control>/owner: absent, created but not written, written
    stray,       \* does the control directory hold files pqty did not write?
    dest,        \* the TEXMF destination
    stage,       \* <control>/stage
    previous,    \* <control>/previous
    existing     \* publish's local: was there a destination to displace?

vars == <<pc, want, result, guard, owner, stray, dest, stage, previous, existing>>

-----------------------------------------------------------------------------
(* Directory trees.                                                        *)

Tree == [exists : BOOLEAN,                       \* is there a directory?
         lock   : Locks \union {NoLock},         \* what it was assembled for
         files  : SUBSET Files,                  \* locked files present
         marker : {"none", "torn", "valid"},     \* .pqty-materialized.json
         extra  : BOOLEAN]                       \* other files (not ls-R)

Gone == [exists |-> FALSE, lock |-> NoLock, files |-> {},
         marker |-> "none", extra |-> FALSE]
EmptyDir == [Gone EXCEPT !.exists = TRUE]
ForeignTree == [EmptyDir EXCEPT !.extra = TRUE]

\* The directory has no entry at all.
Bare(t) == t.files = {} /\ t.marker = "none" /\ ~t.extra

MutReplaceableUnmarked(t) == ~t.exists \/ t.marker # "torn"

\* ensure_replaceable_destination: absent, empty, or carrying a valid marker.
Replaceable(t) == ~t.exists \/ Bare(t) \/ t.marker = "valid"

\* A whole tree that pqty assembled for some lock.
Complete(t) == /\ t.exists
               /\ t.lock \in Locks
               /\ t.files = Files
               /\ t.marker = "valid"

\* installed_tree_matches: marker, file set and contents are those of lock l.
Matches(t, l) == Complete(t) /\ t.lock = l /\ ~t.extra

\* A non-empty directory without a valid marker: somebody else's data.
Unowned(t) == t.exists /\ t.marker # "valid" /\ (t.files # {} \/ t.marker # "none" \/ t.extra)

\* remove_dir_all deletes the entries in any order and the directory last.
Shrunk(t) ==
    IF Bare(t) THEN {Gone}
    ELSE {[t EXCEPT !.files = @ \ {f}] : f \in t.files}
         \union {u \in {[t EXCEPT !.marker = "none"]} : t.marker # "none"}
         \union {u \in {[t EXCEPT !.extra = FALSE]} : t.extra}

-----------------------------------------------------------------------------
Outcomes == {"none", "ok", "failed", "refused", "disowned", "crashed"}

\* The steps taken with the guard held, in the order of the code.
Guarded == {"own", "record", "recover", "drop", "clear", "audit", "hydrate",
            "place", "mark", "seal", "publish", "swap", "settle", "cleanup",
            "abort"}
Steps == {"idle", "wait"} \union Guarded

TypeOK ==
    /\ pc \in [Procs -> Steps]
    /\ want \in [Procs -> Locks \union {NoLock}]
    /\ result \in [Procs -> Outcomes]
    /\ guard \in Procs \union {Nobody}
    /\ owner \in {"none", "torn", "ours"}
    /\ stray \in BOOLEAN
    /\ dest \in Tree
    /\ stage \in Tree
    /\ previous \in Tree
    /\ existing \in BOOLEAN

\* The destination may be new, empty or a user's own directory, and the
\* control directory may already hold something that is not pqty's.
Init ==
    /\ pc = [p \in Procs |-> "idle"]
    /\ want = [p \in Procs |-> NoLock]
    /\ result = [p \in Procs |-> "none"]
    /\ guard = Nobody
    /\ owner = "none"
    /\ stray \in BOOLEAN
    /\ dest \in {Gone, EmptyDir, ForeignTree}
    /\ stage = Gone
    /\ previous = Gone
    /\ existing = FALSE

-----------------------------------------------------------------------------
(* Every way out of a call drops the Installation, and with it the guard.  *)

MutLeaveHoldingGuard(p, outcome) ==
    /\ pc' = [pc EXCEPT ![p] = "idle"]
    /\ want' = [want EXCEPT ![p] = NoLock]
    /\ result' = [result EXCEPT ![p] = outcome]
    /\ UNCHANGED guard

Leave(p, outcome) ==
    /\ pc' = [pc EXCEPT ![p] = "idle"]
    /\ want' = [want EXCEPT ![p] = NoLock]
    /\ result' = [result EXCEPT ![p] = outcome]
    /\ guard' = IF guard = p THEN Nobody ELSE guard

Goto(p, step) ==
    /\ pc' = [pc EXCEPT ![p] = step]
    /\ UNCHANGED <<want, result, guard>>

At(p, step) == pc[p] = step

trees == <<dest, stage, previous>>

\* install_locked or materialize_from_store is called with lock l; the control
\* directory is created if need be and the lock file opened.
Begin(p, l) ==
    /\ At(p, "idle")
    /\ pc' = [pc EXCEPT ![p] = "wait"]
    /\ want' = [want EXCEPT ![p] = l]
    /\ result' = [result EXCEPT ![p] = "none"]
    /\ UNCHANGED <<guard, owner, stray, trees, existing>>

\* FileGuard::acquire: the kernel blocks the caller until the lock is free.
Acquire(p) ==
    /\ At(p, "wait")
    /\ guard = Nobody
    /\ guard' = p
    /\ pc' = [pc EXCEPT ![p] = "own"]
    /\ UNCHANGED <<want, result, owner, stray, trees, existing>>

\* The ownership record is there, or it is created in an otherwise empty
\* control directory; anything else is refused.
CheckOwner(p) ==
    /\ At(p, "own")
    /\ \/ /\ owner = "ours"
          /\ Goto(p, "recover")
          /\ UNCHANGED owner
       \/ /\ owner = "none"
          /\ ~stray
          /\ owner' = "torn"
          /\ Goto(p, "record")
       \/ /\ owner = "torn" \/ (owner = "none" /\ stray)
          /\ Leave(p, "disowned")
          /\ UNCHANGED owner
    /\ UNCHANGED <<stray, trees, existing>>

\* write_all and sync_all of the new ownership record.
WriteOwner(p) ==
    /\ At(p, "record")
    /\ owner' = "ours"
    /\ Goto(p, "recover")
    /\ UNCHANGED <<stray, trees, existing>>

-----------------------------------------------------------------------------
(* recover: finish what an interrupted predecessor left.                   *)

MutRecoverDiscarding(p) ==
    /\ At(p, "recover")
    /\ Replaceable(dest)
    /\ Goto(p, IF previous.exists THEN "drop" ELSE "clear")
    /\ UNCHANGED <<owner, stray, trees, existing>>

\* Plausible mistake: the backup is vetted even when it is only to be removed.
MutRecoverVetting(p) ==
    /\ At(p, "recover")
    /\ LET sound == Replaceable(dest) /\ Replaceable(previous)
       IN \/ ~sound /\ Leave(p, "refused") /\ UNCHANGED <<dest, previous>>
          \/ /\ sound /\ previous.exists /\ ~dest.exists
             /\ dest' = previous /\ previous' = Gone
             /\ Goto(p, "clear")
          \/ /\ sound /\ (previous.exists => dest.exists)
             /\ Goto(p, IF previous.exists THEN "drop" ELSE "clear")
             /\ UNCHANGED <<dest, previous>>
    /\ UNCHANGED <<owner, stray, stage, existing>>

Recover(p) ==
    /\ At(p, "recover")
    /\ \/ /\ ~Replaceable(dest)
          /\ Leave(p, "refused")
          /\ UNCHANGED <<dest, previous>>
       \/ /\ Replaceable(dest)
          /\ ~previous.exists
          /\ Goto(p, "clear")
          /\ UNCHANGED <<dest, previous>>
       \/ /\ Replaceable(dest)
          /\ previous.exists
          /\ dest.exists
          /\ Goto(p, "drop")
          /\ UNCHANGED <<dest, previous>>
       \/ /\ previous.exists
          /\ ~dest.exists
          /\ ~Replaceable(previous)
          /\ Leave(p, "refused")
          /\ UNCHANGED <<dest, previous>>
       \/ /\ previous.exists
          /\ ~dest.exists
          /\ Replaceable(previous)
          /\ dest' = previous
          /\ previous' = Gone
          /\ Goto(p, "clear")
    /\ UNCHANGED <<owner, stray, stage, existing>>

\* The new tree was already active: the backup's removal is finished.
DropPrevious(p) ==
    /\ At(p, "drop")
    /\ previous' \in Shrunk(previous)
    /\ IF previous'.exists THEN UNCHANGED <<pc, want, result, guard>>
                           ELSE Goto(p, "clear")
    /\ UNCHANGED <<owner, stray, dest, stage, existing>>

MutClearStageMarked(p) ==
    /\ At(p, "clear")
    /\ IF stage.exists /\ Replaceable(stage)
       THEN /\ stage' \in Shrunk(stage)
            /\ UNCHANGED <<pc, want, result, guard>>
       ELSE /\ IF stage.exists THEN Leave(p, "refused") ELSE Goto(p, "audit")
            /\ UNCHANGED stage
    /\ UNCHANGED <<owner, stray, dest, previous, existing>>

\* An interrupted assembly is discarded, marker or not.
ClearStage(p) ==
    /\ At(p, "clear")
    /\ IF stage.exists
       THEN /\ stage' \in Shrunk(stage)
            /\ UNCHANGED <<pc, want, result, guard>>
       ELSE /\ Goto(p, "audit")
            /\ UNCHANGED stage
    /\ UNCHANGED <<owner, stray, dest, previous, existing>>

-----------------------------------------------------------------------------
(* The rest of install_locked and materialize_locked.                      *)

MutAuditAnyTree(p) ==
    /\ At(p, "audit")
    /\ IF Complete(dest) THEN Leave(p, "ok") ELSE Goto(p, "hydrate")
    /\ UNCHANGED <<owner, stray, trees, existing>>

MutAuditMarkerOnly(p) ==
    /\ At(p, "audit")
    /\ IF dest.marker = "valid" /\ dest.lock = want[p]
       THEN Leave(p, "ok") ELSE Goto(p, "hydrate")
    /\ UNCHANGED <<owner, stray, trees, existing>>

\* A destination that already matches the lock is kept as it is.
Audit(p) ==
    /\ At(p, "audit")
    /\ IF Matches(dest, want[p]) THEN Leave(p, "ok") ELSE Goto(p, "hydrate")
    /\ UNCHANGED <<owner, stray, trees, existing>>

\* The store's objects are checked or recovered under the store's own lock
\* (module ContentStore); then the stage directory is created.
CreateStage(p) ==
    /\ At(p, "hydrate")
    /\ stage' = [EmptyDir EXCEPT !.lock = want[p]]
    /\ Goto(p, "place")
    /\ UNCHANGED <<owner, stray, dest, previous, existing>>

MutPlaceIgnoringErrors(p) ==
    /\ At(p, "place")
    /\ \/ Goto(p, "mark") /\ UNCHANGED stage
       \/ /\ \E f \in Files \ stage.files :
                stage' = [stage EXCEPT !.files = @ \union {f}]
          /\ UNCHANGED <<pc, want, result, guard>>
    /\ UNCHANGED <<owner, stray, dest, previous, existing>>

\* place, for one file of the lock after another.
Place(p) ==
    /\ At(p, "place")
    /\ IF stage.files = Files
       THEN Goto(p, "mark") /\ UNCHANGED stage
       ELSE /\ \E f \in Files \ stage.files :
                  stage' = [stage EXCEPT !.files = @ \union {f}]
            /\ UNCHANGED <<pc, want, result, guard>>
    /\ UNCHANGED <<owner, stray, dest, previous, existing>>

\* write_materialized_marker: create_new, then write and sync.
CreateMarker(p) ==
    /\ At(p, "mark")
    /\ stage' = [stage EXCEPT !.marker = "torn"]
    /\ Goto(p, "seal")
    /\ UNCHANGED <<owner, stray, dest, previous, existing>>

WriteMarker(p) ==
    /\ At(p, "seal")
    /\ stage' = [stage EXCEPT !.marker = "valid"]
    /\ Goto(p, "publish")
    /\ UNCHANGED <<owner, stray, dest, previous, existing>>

\* publish, up to the first rename.
Displace(p) ==
    /\ At(p, "publish")
    /\ \/ /\ ~(Replaceable(dest) /\ Replaceable(stage))
          /\ Goto(p, "abort")
          /\ UNCHANGED <<dest, previous, existing>>
       \/ /\ Replaceable(dest)
          /\ Replaceable(stage)
          /\ existing' = dest.exists
          /\ IF dest.exists
             THEN previous' = dest /\ dest' = Gone
             ELSE UNCHANGED <<dest, previous>>
          /\ Goto(p, "swap")
    /\ UNCHANGED <<owner, stray, stage>>

\* publish's second rename makes the staged tree the destination.
Swap(p) ==
    /\ At(p, "swap")
    /\ dest' = stage
    /\ stage' = Gone
    /\ Goto(p, "settle")
    /\ UNCHANGED <<owner, stray, previous, existing>>

\* Both parent directories are synced; a displaced tree is then removed.
Settle(p) ==
    /\ At(p, "settle")
    /\ IF existing THEN Goto(p, "cleanup") ELSE Leave(p, "ok")
    /\ UNCHANGED <<owner, stray, trees, existing>>

Cleanup(p) ==
    /\ At(p, "cleanup")
    /\ previous' \in Shrunk(previous)
    /\ IF previous'.exists THEN UNCHANGED <<pc, want, result, guard>>
                           ELSE Leave(p, "ok")
    /\ UNCHANGED <<owner, stray, dest, stage, existing>>

\* A failed assembly removes what is left of the stage, as far as it can.
Abort(p) ==
    /\ At(p, "abort")
    /\ IF stage.exists
       THEN /\ stage' \in Shrunk(stage)
            /\ UNCHANGED <<pc, want, result, guard>>
       ELSE /\ Leave(p, "failed")
            /\ UNCHANGED stage
    /\ UNCHANGED <<owner, stray, dest, previous, existing>>

-----------------------------------------------------------------------------
(* Faults.                                                                 *)

\* A system call fails: the error is returned by `?`.  Before the assembly,
\* after the second rename and during the stage's own removal that ends the
\* call; inside the assembly it leads to the stage's removal.
IoError(p) ==
    /\ \/ /\ pc[p] \in {"own", "record", "recover", "drop", "clear", "audit",
                        "hydrate", "settle", "cleanup", "abort"}
          /\ Leave(p, "failed")
       \/ /\ pc[p] \in {"place", "mark", "seal", "publish"}
          /\ Goto(p, "abort")
    /\ UNCHANGED <<owner, stray, trees, existing>>

\* The sync after the first rename, or the second rename itself, fails: the
\* displaced tree is renamed back, which may fail in its turn.
UndoSwap(p) ==
    /\ At(p, "swap")
    /\ \/ existing /\ dest' = previous /\ previous' = Gone
       \/ UNCHANGED <<dest, previous>>
    /\ Goto(p, "abort")
    /\ UNCHANGED <<owner, stray, stage, existing>>

\* The process exits; the kernel releases its lock.
Crash(p) ==
    /\ ~At(p, "idle")
    /\ Leave(p, "crashed")
    /\ UNCHANGED <<owner, stray, trees, existing>>

-----------------------------------------------------------------------------
Work(p) ==
    \/ Acquire(p) \/ CheckOwner(p) \/ WriteOwner(p)
    \/ Recover(p) \/ DropPrevious(p) \/ ClearStage(p)
    \/ Audit(p) \/ CreateStage(p) \/ Place(p) \/ CreateMarker(p) \/ WriteMarker(p)
    \/ Displace(p) \/ Swap(p) \/ Settle(p) \/ Cleanup(p) \/ Abort(p)

Fault(p) == IoError(p) \/ UndoSwap(p) \/ Crash(p)

Call(p) == \E l \in Locks : Begin(p, l)

Next == \E p \in Procs : Call(p) \/ Work(p) \/ Fault(p)

Spec == Init /\ [][Next]_vars

\* A running process keeps executing, and the kernel hands a released lock to
\* each of its waiters in turn.
Fairness == \A p \in Procs : WF_vars(Work(p)) /\ SF_vars(Acquire(p))

FairSpec == Spec /\ Fairness

\* Users retry, and from some moment on no call fails and no process exits.
Calm == <>[][\A p \in Procs : ~Fault(p)]_vars
Retried == Calm /\ \A p \in Procs : WF_vars(Call(p))

-----------------------------------------------------------------------------
(* The environment: users and renderers between installations.             *)

\* A locked file is deleted or altered, or a file is added, in the active tree.
Damage ==
    /\ dest.exists
    /\ \/ \E f \in dest.files : dest' = [dest EXCEPT !.files = @ \ {f}]
       \/ dest' = [dest EXCEPT !.marker = "none"]
       \/ dest' = [dest EXCEPT !.extra = TRUE]

\* Somebody creates the missing destination directory, or deletes it whole.
MakeDir == ~dest.exists /\ dest' = EmptyDir
Discard == dest.exists /\ dest' = Gone

Meddle ==
    /\ guard = Nobody
    /\ Damage \/ MakeDir \/ Discard
    /\ UNCHANGED <<pc, want, result, guard, owner, stray, stage, previous, existing>>

MeddledSpec == Init /\ [][Next \/ Meddle]_vars

-----------------------------------------------------------------------------
(* Properties.                                                             *)

\* The tree that is active, or that recovery makes active again.
Recoverable == IF dest.exists THEN dest ELSE previous

\* No consumer ever sees a half-assembled or half-removed tree at the
\* destination, whichever system call a process exits at: it is absent, what
\* it was before the first installation, or whole (publish, recover).
NeverPartial ==
    dest.exists => dest \in {EmptyDir, ForeignTree} \/ Complete(dest)

\* Once some whole tree was installed there is always a whole tree, at the
\* destination or ready to be recovered to it: publish displaces the old tree
\* before it moves the new one in, and removes it only after.
Kept == \/ Complete(dest)
        \/ ~dest.exists /\ Complete(previous)

OldTreeSurvives == [][Kept => Kept']_vars

\* A non-empty directory that pqty did not build is never renamed, changed or
\* removed (ensure_replaceable_destination in recover and in publish).
ForeignKept == [][Unowned(dest) /\ guard # Nobody => dest' = dest]_vars

\* A call that returns success leaves exactly its own lock's tree behind, with
\* no file missing or added, however the destination had been altered before.
OkMeansInstalled ==
    [][\A p \in Procs :
         result[p] # "ok" /\ result'[p] = "ok" => Matches(dest', want[p])]_vars

\* The stage and the backup belong to the holder of the OS lock: no other
\* process is between its acquisition and its return, and a free lock means
\* that nobody will touch them (FileGuard).
Exclusive ==
    \A p \in Procs : pc[p] \in Guarded <=> guard = p

\* A backup that has lost anything is debris of a finished replacement: a whole
\* active tree stands beside it (the order of publish's renames and removal).
DebrisHasSuccessor ==
    previous.exists /\ previous # EmptyDir /\ ~Complete(previous) => Complete(dest)

\* The destination as an atomic register.
Publication ==
    INSTANCE TreePublication WITH
        active   <- Recoverable.lock,
        asked    <- want,
        effected <- {p \in Procs : pc[p] \in {"settle", "cleanup"}},
        answer   <- result

\* Every install of a lock takes effect at one instant or not at all.
Linearized == Publication!PubSpec

\* Every call returns: no waiter on the OS lock is left waiting for ever.
EveryCallReturns == Publication!PubFairSpec

\* Whatever was interrupted, and however often, once an owned control directory
\* and a replaceable destination are met by a call that runs to its end, a whole
\* tree is live again: recover never leaves a state it cannot get out of.
RetryRestores == Retried => (owner = "ours" /\ ~Unowned(dest) ~> Complete(dest))

\* How a call should return: with its own tree installed, or because the control
\* directory is not pqty's, or because what recovery would have to replace is not.
Returns(p) == pc[p] # "idle" /\ pc'[p] = "idle"
EndsWell(p) ==
    \/ result'[p] = "ok" /\ Matches(dest', want[p])
    \/ result'[p] = "disowned" /\ owner # "ours"
    \/ result'[p] = "refused" /\ Unowned(Recoverable)
AllEndWell == \A p \in Procs : Returns(p) => EndsWell(p)

\* Once no system call fails and no process exits, every call that returns has
\* installed its tree or met something that is not pqty's: nothing that faults left
\* behind, in the stage, the backup, the record or the destination, makes it fail,
\* while users go on damaging, creating and deleting the destination between calls
\* (acquire, recover and publish).
RetryInstalls == Calm => <>[][AllEndWell]_vars

\* Comment in acquire: "A process can exit between creating the directory and
\* writing its owner record."  So only files pqty did not write should make a
\* call refuse the control directory.
DisownedOnlyForStrangers ==
    \A p \in Procs : result[p] = "disowned" => stray
=============================================================================
