------------------------ MODULE InstallTransactionProofs ------------------------
(***************************************************************************)
(* Proofs about the installation transaction for any number of processes,  *)
(* locks and files: types, mutual exclusion, what the destination may ever *)
(* hold, and that a whole tree survives every interruption.                *)
(***************************************************************************)
EXTENDS InstallTransaction, TLAPS

\* A tree as it is displaced: whole, or the empty directory found at first.
Settled(t) == t = EmptyDir \/ Complete(t)

\* A stage assembled in full for lock l.
Assembled(t, l) == /\ t.exists /\ t.lock = l /\ t.files = Files
                   /\ t.marker = "valid" /\ ~t.extra

\* A running call, and nothing else, has a lock to install.
Asking == \A p \in Procs : want[p] \in Locks <=> pc[p] # "idle"

\* A backup beside a destination is debris of a finished replacement; a backup
\* without one is what recovery must restore.
BackupOk ==
    previous.exists => IF dest.exists THEN Complete(dest) ELSE Settled(previous)

\* What the holder of the guard has established when it is about to take `step`.
StepOk(p) ==
    /\ pc[p] \in {"audit", "hydrate"} => ~stage.exists
    /\ pc[p] \in {"clear", "audit", "hydrate", "place", "mark", "seal", "publish"}
          => ~previous.exists
    /\ pc[p] \in {"place", "mark", "seal", "publish", "swap"}
          => stage.exists /\ stage.lock = want[p] /\ ~stage.extra
    /\ pc[p] \in {"mark", "seal", "publish", "swap"} => stage.files = Files
    /\ pc[p] \in {"publish", "swap"} => stage.marker = "valid"
    /\ pc[p] = "drop" => dest.exists /\ previous.exists
    /\ pc[p] = "swap" => /\ ~dest.exists
                         /\ existing <=> previous.exists
    /\ pc[p] \in {"settle", "cleanup"} => Matches(dest, want[p])
    /\ pc[p] = "settle" => (existing <=> previous.exists)
    /\ pc[p] = "cleanup" => previous.exists

\* What the OS lock protects: it holds whatever users do between the calls.
HInv ==
    /\ TypeOK
    /\ Exclusive
    /\ Asking
    /\ \A p \in Procs : StepOk(p)

\* With nobody else touching the destination.
IInv == HInv /\ NeverPartial /\ BackupOk

-----------------------------------------------------------------------------
(* Trees.                                                                  *)

\* The constant trees are trees.
LEMMA ConstantTrees == Gone \in Tree /\ EmptyDir \in Tree /\ ForeignTree \in Tree
<1>1. Gone \in Tree
  BY SMT DEF Tree, Gone
<1>2. EmptyDir \in Tree
  BY <1>1, Zenon DEF Tree, EmptyDir
<1>3. ForeignTree \in Tree
  BY <1>2, Zenon DEF Tree, ForeignTree
<1> QED BY <1>1, <1>2, <1>3

\* Removing one entry, or the emptied directory, leaves a tree.
LEMMA ShrunkTyped ==
    ASSUME NEW t \in Tree, NEW u \in Shrunk(t)
    PROVE  u \in Tree
<1>1. CASE Bare(t)
  BY <1>1, ConstantTrees, Zenon DEF Shrunk
<1>2. CASE u = [t EXCEPT !.extra = FALSE]
  BY <1>2, Zenon DEF Tree
<1>3. CASE u = [t EXCEPT !.marker = "none"]
  BY <1>3, SMT DEF Tree
<1>4. CASE \E f \in t.files : u = [t EXCEPT !.files = @ \ {f}]
  BY <1>4, SMT DEF Tree
<1> QED BY <1>1, <1>2, <1>3, <1>4, Zenon DEF Shrunk

-----------------------------------------------------------------------------
(* Type correctness.                                                       *)

\* Every step keeps every variable in its type.
LEMMA TypeStep == TypeOK /\ [Next]_vars => TypeOK'
<1> SUFFICES ASSUME TypeOK, [Next]_vars PROVE TypeOK'
  OBVIOUS
<1> USE ConstantTrees DEF TypeOK, Outcomes, Steps, Guarded, Leave, Goto, At, trees
<1>1. CASE UNCHANGED vars
  BY <1>1 DEF vars
<1>2. ASSUME NEW p \in Procs, Call(p) PROVE TypeOK'
  BY <1>2 DEF Call, Begin
<1>3. ASSUME NEW p \in Procs, Work(p) PROVE TypeOK'
  <2>1. CASE Acquire(p)       BY <2>1 DEF Acquire
  <2>2. CASE CheckOwner(p)    BY <2>2 DEF CheckOwner
  <2>3. CASE WriteOwner(p)    BY <2>3 DEF WriteOwner
  <2>4. CASE Recover(p)       BY <2>4 DEF Recover
  <2>5. CASE DropPrevious(p)  BY <2>5, ShrunkTyped DEF DropPrevious
  <2>6. CASE ClearStage(p)    BY <2>6, ShrunkTyped DEF ClearStage
  <2>7. CASE Audit(p)         BY <2>7 DEF Audit
  <2>8. CASE CreateStage(p)
    <3>1. stage' \in Tree
      BY <2>8 DEF CreateStage, Tree, EmptyDir, Gone
    <3> QED BY <2>8, <3>1 DEF CreateStage
  <2>9. CASE Place(p)
    <3>1. stage' \in Tree
      BY <2>9 DEF Place, Tree
    <3> QED BY <2>9, <3>1 DEF Place
  <2>10. CASE CreateMarker(p)
    <3>1. stage' \in Tree
      BY <2>10 DEF CreateMarker, Tree
    <3> QED BY <2>10, <3>1 DEF CreateMarker
  <2>11. CASE WriteMarker(p)
    <3>1. stage' \in Tree
      BY <2>11 DEF WriteMarker, Tree
    <3> QED BY <2>11, <3>1 DEF WriteMarker
  <2>12. CASE Displace(p)
    <3>1. dest.exists \in BOOLEAN
      BY DEF Tree
    <3> QED BY <2>12, <3>1 DEF Displace
  <2>13. CASE Swap(p)         BY <2>13 DEF Swap
  <2>14. CASE Settle(p)       BY <2>14 DEF Settle
  <2>15. CASE Cleanup(p)      BY <2>15, ShrunkTyped DEF Cleanup
  <2>16. CASE Abort(p)        BY <2>16, ShrunkTyped DEF Abort
  <2> QED
    BY <1>3, <2>1, <2>2, <2>3, <2>4, <2>5, <2>6, <2>7, <2>8, <2>9, <2>10, <2>11,
       <2>12, <2>13, <2>14, <2>15, <2>16 DEF Work
<1>4. ASSUME NEW p \in Procs, Fault(p) PROVE TypeOK'
  <2>1. CASE IoError(p)   BY <2>1 DEF IoError
  <2>2. CASE UndoSwap(p)  BY <2>2 DEF UndoSwap
  <2>3. CASE Crash(p)     BY <2>3 DEF Crash
  <2> QED BY <1>4, <2>1, <2>2, <2>3 DEF Fault
<1> QED BY <1>1, <1>2, <1>3, <1>4 DEF Next

\* Users leave a tree, or none, at the destination.
LEMMA MeddleTyped == TypeOK /\ Meddle => TypeOK'
<1> SUFFICES ASSUME TypeOK, Meddle PROVE dest' \in Tree
  BY DEF TypeOK, Meddle
<1>1. dest \in Tree
  BY DEF TypeOK
<1>2. CASE dest' = [dest EXCEPT !.extra = TRUE]
  BY <1>1, <1>2, Zenon DEF Tree
<1>3. CASE dest' = [dest EXCEPT !.marker = "none"]
  BY <1>1, <1>3, SMT DEF Tree
<1>4. CASE \E f \in dest.files : dest' = [dest EXCEPT !.files = @ \ {f}]
  BY <1>1, <1>4, SMT DEF Tree
<1> QED BY <1>2, <1>3, <1>4, ConstantTrees DEF Meddle, Damage, MakeDir, Discard

\* Every variable keeps its type in every run of the transaction.
THEOREM TypeCorrect == Spec => []TypeOK
<1>1. Init => TypeOK
  BY ConstantTrees DEF Init, TypeOK, Steps, Outcomes
<1> QED BY <1>1, TypeStep, PTL DEF Spec

-----------------------------------------------------------------------------
(* The inductive invariant.                                                *)

\* What the constant trees are not.
LEMMA ConstantFacts ==
    /\ ~Gone.exists /\ EmptyDir.exists /\ ForeignTree.exists
    /\ ~Complete(Gone) /\ ~Complete(EmptyDir) /\ ~Complete(ForeignTree)
    /\ ~Replaceable(ForeignTree)
BY ConstantsAssumption, SMT
   DEF Gone, EmptyDir, ForeignTree, Complete, Replaceable, Bare

\* The holder takes a step and keeps the lock: only its own step condition has
\* to be shown again.
LEMMA HolderGoesOn ==
    ASSUME HInv, TypeOK', NEW p \in Procs, guard = p, NEW step \in Guarded,
           Goto(p, step), StepOk(p)'
    PROVE  HInv'
<1>1. pc'[p] = step /\ \A q \in Procs : q # p => pc'[q] = pc[q] /\ pc'[q] \notin Guarded
  BY DEF Goto, HInv, Exclusive, TypeOK
<1>2. want' = want /\ guard' = guard
  BY DEF Goto
<1>3. Exclusive'
  BY <1>1, <1>2 DEF Exclusive
<1>4. Asking'
  BY <1>1, <1>2 DEF Asking, HInv, Steps, Exclusive, Guarded
<1>5. ASSUME NEW q \in Procs PROVE StepOk(q)'
  <2>1. CASE q = p
    BY <2>1
  <2>2. CASE q # p
    BY <1>1, <2>2 DEF StepOk, Guarded
  <2> QED BY <2>1, <2>2
<1> QED BY <1>3, <1>4, <1>5 DEF HInv

\* The holder stays at its step, as the loops over files do.
LEMMA HolderStays ==
    ASSUME HInv, TypeOK', NEW p \in Procs, guard = p,
           UNCHANGED <<pc, want, result, guard>>, StepOk(p)'
    PROVE  HInv'
<1>1. pc[p] \in Guarded
  BY DEF HInv, Exclusive
<1>2. Goto(p, pc[p])
  BY DEF Goto, HInv, TypeOK
<1> QED BY <1>1, <1>2, HolderGoesOn

\* The holder returns or exits: nobody is inside any more.
LEMMA HolderLeaves ==
    ASSUME HInv, TypeOK', NEW p \in Procs, guard = p, NEW outcome, Leave(p, outcome)
    PROVE  HInv'
<1>1. \A q \in Procs : pc'[q] \notin Guarded
  BY DEF Leave, HInv, Exclusive, TypeOK, Guarded
<1>2. guard' = Nobody /\ Nobody \notin Procs
  BY ConstantsAssumption DEF Leave
<1>3. Exclusive'
  BY <1>1, <1>2 DEF Exclusive
<1>4. Asking'
  BY ConstantsAssumption DEF Asking, HInv, Leave, TypeOK
<1>5. ASSUME NEW q \in Procs PROVE StepOk(q)'
  BY <1>1 DEF StepOk, Guarded
<1> QED BY <1>3, <1>4, <1>5 DEF HInv

\* The initial states satisfy the invariant.
LEMMA InvInit == Init => IInv
<1> SUFFICES ASSUME Init PROVE IInv
  OBVIOUS
<1>1. TypeOK
  BY ConstantTrees DEF Init, TypeOK, Steps, Outcomes
<1>2. Exclusive /\ Asking
  BY ConstantsAssumption DEF Init, Exclusive, Asking, Guarded
<1>3. NeverPartial /\ BackupOk
  BY ConstantFacts DEF Init, NeverPartial, BackupOk
<1>4. ASSUME NEW p \in Procs PROVE StepOk(p)
  BY DEF Init, StepOk
<1> QED BY <1>1, <1>2, <1>3, <1>4 DEF IInv, HInv

\* Work done before the assembly: acquiring, owning, recovering, auditing.
LEMMA RecoverySteps ==
    ASSUME HInv, TypeOK', NEW p \in Procs,
           \/ Acquire(p) \/ CheckOwner(p) \/ WriteOwner(p)
           \/ Recover(p) \/ DropPrevious(p) \/ ClearStage(p) \/ Audit(p)
    PROVE  HInv'
<1>0. /\ TypeOK /\ Exclusive /\ Asking /\ StepOk(p)
      /\ pc[p] \in Guarded => guard = p
  BY DEF HInv, Exclusive
<1>1. CASE Acquire(p)
  <2>1. /\ guard' = p /\ pc'[p] = "own"
        /\ \A q \in Procs : q # p => pc'[q] = pc[q] /\ pc[q] \notin Guarded
    BY <1>0, <1>1, ConstantsAssumption DEF Acquire, At, TypeOK, Exclusive
  <2>2. Exclusive'
    BY <2>1 DEF Exclusive, Guarded
  <2>3. Asking'
    BY <1>0, <1>1 DEF Acquire, At, Asking, TypeOK, Steps
  <2>4. ASSUME NEW q \in Procs PROVE StepOk(q)'
    BY <2>1 DEF StepOk, Guarded
  <2> QED BY <2>2, <2>3, <2>4 DEF HInv
<1>2. CASE CheckOwner(p) \/ WriteOwner(p)
  <2>1. guard = p
    BY <1>0, <1>2 DEF CheckOwner, WriteOwner, At, Guarded
  <2>2. CASE Goto(p, "recover") \/ Goto(p, "record")
    <3>1. StepOk(p)'
      BY <1>0, <2>2 DEF Goto, StepOk, TypeOK
    <3> QED BY <2>1, <2>2, <3>1, HolderGoesOn DEF Guarded
  <2>3. CASE Leave(p, "disowned")
    BY <2>1, <2>3, HolderLeaves
  <2> QED BY <1>2, <2>2, <2>3 DEF CheckOwner, WriteOwner
<1>3. CASE Recover(p)
  <2>1. guard = p
    BY <1>0, <1>3 DEF Recover, At, Guarded
  <2>2. CASE Leave(p, "refused")
    BY <2>1, <2>2, HolderLeaves
  <2>3. CASE Goto(p, "clear")
    <3>1. ~previous'.exists
      BY <1>3, <2>3, ConstantFacts, <1>0 DEF Recover, Goto, Leave, TypeOK
    <3>2. StepOk(p)'
      BY <1>0, <2>3, <3>1 DEF Goto, StepOk, TypeOK
    <3> QED BY <2>1, <2>3, <3>2, HolderGoesOn DEF Guarded
  <2>4. CASE Goto(p, "drop") /\ UNCHANGED <<dest, previous>> /\ dest.exists /\ previous.exists
    <3>1. StepOk(p)'
      BY <1>0, <2>4 DEF Goto, StepOk, TypeOK
    <3> QED BY <2>1, <2>4, <3>1, HolderGoesOn DEF Guarded
  <2> QED BY <1>3, <2>2, <2>3, <2>4 DEF Recover
<1>4. CASE DropPrevious(p)
  <2>1. guard = p /\ dest.exists /\ dest' = dest
    BY <1>0, <1>4 DEF DropPrevious, At, Guarded, StepOk
  <2>2. CASE previous'.exists
    <3>1. StepOk(p)'
      BY <1>0, <1>4, <2>1, <2>2 DEF DropPrevious, At, StepOk
    <3> QED BY <1>4, <2>1, <2>2, <3>1, HolderStays DEF DropPrevious
  <2>3. CASE ~previous'.exists
    <3>1. Goto(p, "clear")
      BY <1>4, <2>3 DEF DropPrevious
    <3>2. StepOk(p)'
      BY <1>0, <2>3, <3>1 DEF Goto, StepOk, TypeOK
    <3> QED BY <2>1, <3>1, <3>2, HolderGoesOn DEF Guarded
  <2> QED BY <2>2, <2>3
<1>5. CASE ClearStage(p)
  <2>1. guard = p /\ ~previous'.exists
    BY <1>0, <1>5 DEF ClearStage, At, Guarded, StepOk
  <2>2. CASE stage.exists
    <3>1. StepOk(p)'
      BY <1>5, <2>1, <2>2 DEF ClearStage, At, StepOk
    <3> QED BY <1>5, <2>1, <2>2, <3>1, HolderStays DEF ClearStage
  <2>3. CASE ~stage.exists
    <3>1. Goto(p, "audit") /\ stage' = stage
      BY <1>5, <2>3 DEF ClearStage
    <3>2. StepOk(p)'
      BY <1>0, <2>1, <2>3, <3>1 DEF Goto, StepOk, TypeOK
    <3> QED BY <2>1, <3>1, <3>2, HolderGoesOn DEF Guarded
  <2> QED BY <2>2, <2>3
<1>6. CASE Audit(p)
  <2>1. guard = p /\ UNCHANGED trees
    BY <1>0, <1>6 DEF Audit, At, Guarded
  <2>2. CASE Leave(p, "ok")
    BY <2>1, <2>2, HolderLeaves
  <2>3. CASE Goto(p, "hydrate")
    <3>1. StepOk(p)'
      BY <1>0, <1>6, <2>1, <2>3 DEF Audit, At, Goto, StepOk, TypeOK, trees
    <3> QED BY <2>1, <2>3, <3>1, HolderGoesOn DEF Guarded
  <2> QED BY <1>6, <2>2, <2>3 DEF Audit
<1> QED BY <1>1, <1>2, <1>3, <1>4, <1>5, <1>6

\* Assembling the stage: only the stage changes, under its own step.
LEMMA AssemblySteps ==
    ASSUME HInv, TypeOK', NEW p \in Procs,
           CreateStage(p) \/ Place(p) \/ CreateMarker(p) \/ WriteMarker(p) \/ Abort(p)
    PROVE  HInv'
<1>0. /\ TypeOK /\ Exclusive /\ Asking /\ StepOk(p)
      /\ pc[p] \in Guarded => guard = p
  BY DEF HInv, Exclusive
<1>1. guard = p /\ UNCHANGED <<dest, previous>>
  BY <1>0 DEF CreateStage, Place, CreateMarker, WriteMarker, Abort, At, Guarded
<1>2. stage \in Tree /\ pc \in [Procs -> Steps]
  BY <1>0 DEF TypeOK
<1>3. CASE CreateStage(p)
  <2>1. Goto(p, "place")
    BY <1>3 DEF CreateStage
  <2>2. stage'.exists /\ stage'.lock = want[p] /\ ~stage'.extra
    BY <1>3 DEF CreateStage, EmptyDir, Gone
  <2>3. StepOk(p)'
    BY <1>0, <1>1, <1>2, <1>3, <2>1, <2>2 DEF CreateStage, At, Goto, StepOk
  <2> QED BY <1>1, <2>1, <2>3, HolderGoesOn DEF Guarded
<1>4. CASE Place(p)
  <2>1. CASE stage.files = Files
    <3>1. Goto(p, "mark") /\ stage' = stage
      BY <1>4, <2>1 DEF Place
    <3>2. StepOk(p)'
      BY <1>0, <1>1, <1>2, <1>4, <2>1, <3>1 DEF Place, At, Goto, StepOk
    <3> QED BY <1>1, <3>1, <3>2, HolderGoesOn DEF Guarded
  <2>2. CASE stage.files # Files
    <3>1. UNCHANGED <<pc, want, result, guard>>
      BY <1>4, <2>2 DEF Place
    <3>2. PICK f \in Files : stage' = [stage EXCEPT !.files = @ \union {f}]
      BY <1>4, <2>2 DEF Place
    <3>3. UNCHANGED <<stage.exists, stage.lock, stage.extra>>
      BY <1>2, <3>2 DEF Tree
    <3>4. StepOk(p)'
      BY <1>0, <1>1, <1>4, <3>1, <3>3 DEF Place, At, StepOk
    <3> QED BY <1>1, <3>1, <3>4, HolderStays
  <2> QED BY <2>1, <2>2
<1>5. CASE CreateMarker(p)
  <2>1. Goto(p, "seal") /\ stage' = [stage EXCEPT !.marker = "torn"]
    BY <1>5 DEF CreateMarker
  <2>2. UNCHANGED <<stage.exists, stage.lock, stage.files, stage.extra>>
    BY <1>2, <2>1 DEF Tree
  <2>3. StepOk(p)'
    BY <1>0, <1>1, <1>2, <1>5, <2>1, <2>2 DEF CreateMarker, At, Goto, StepOk
  <2> QED BY <1>1, <2>1, <2>3, HolderGoesOn DEF Guarded
<1>6. CASE WriteMarker(p)
  <2>1. Goto(p, "publish") /\ stage' = [stage EXCEPT !.marker = "valid"]
    BY <1>6 DEF WriteMarker
  <2>2. UNCHANGED <<stage.exists, stage.lock, stage.files, stage.extra>>
        /\ stage'.marker = "valid"
    BY <1>2, <2>1 DEF Tree
  <2>3. StepOk(p)'
    BY <1>0, <1>1, <1>2, <1>6, <2>1, <2>2 DEF WriteMarker, At, Goto, StepOk
  <2> QED BY <1>1, <2>1, <2>3, HolderGoesOn DEF Guarded
<1>7. CASE Abort(p)
  <2>1. CASE stage.exists
    <3>1. UNCHANGED <<pc, want, result, guard>> /\ pc'[p] = "abort"
      BY <1>7, <2>1 DEF Abort, At
    <3>2. StepOk(p)'
      BY <3>1 DEF StepOk
    <3> QED BY <1>1, <3>1, <3>2, HolderStays
  <2>2. CASE ~stage.exists
    BY <1>1, <1>7, <2>2, HolderLeaves DEF Abort
  <2> QED BY <2>1, <2>2
<1> QED BY <1>3, <1>4, <1>5, <1>6, <1>7

\* Publication: displace, swap, settle, clean up.
LEMMA PublishSteps ==
    ASSUME HInv, TypeOK', NEW p \in Procs,
           Displace(p) \/ Swap(p) \/ Settle(p) \/ Cleanup(p)
    PROVE  HInv'
<1>0. /\ TypeOK /\ Exclusive /\ Asking /\ StepOk(p)
      /\ pc[p] \in Guarded => guard = p
  BY DEF HInv, Exclusive
<1>1. guard = p /\ want[p] \in Locks
  BY <1>0 DEF Displace, Swap, Settle, Cleanup, At, Guarded, Asking, Steps
<1>2. pc \in [Procs -> Steps]
  BY <1>0 DEF TypeOK
<1>3. CASE Displace(p)
  <2>1. stage' = stage /\ ~previous.exists
    BY <1>0, <1>3 DEF Displace, At, StepOk
  <2>2. CASE Goto(p, "abort")
    <3>1. StepOk(p)'
      BY <1>2, <2>2 DEF Goto, StepOk
    <3> QED BY <1>1, <2>2, <3>1, HolderGoesOn DEF Guarded
  <2>3. CASE /\ Goto(p, "swap") /\ existing' = dest.exists
             /\ dest.exists /\ previous' = dest /\ dest' = Gone
    <3>1. StepOk(p)'
      BY <1>0, <1>2, <1>3, <2>1, <2>3, ConstantFacts DEF Displace, At, Goto, StepOk
    <3> QED BY <1>1, <2>3, <3>1, HolderGoesOn DEF Guarded
  <2>4. CASE /\ Goto(p, "swap") /\ existing' = dest.exists
             /\ ~dest.exists /\ UNCHANGED <<dest, previous>>
    <3>1. StepOk(p)'
      BY <1>0, <1>2, <1>3, <2>1, <2>4 DEF Displace, At, Goto, StepOk
    <3> QED BY <1>1, <2>4, <3>1, HolderGoesOn DEF Guarded
  <2> QED BY <1>3, <2>2, <2>3, <2>4 DEF Displace
<1>4. CASE Swap(p)
  <2>1. Goto(p, "settle") /\ dest' = stage /\ UNCHANGED <<previous, existing>>
    BY <1>4 DEF Swap
  <2>2. Matches(stage, want[p])
    BY <1>0, <1>1, <1>4 DEF Swap, At, StepOk, Matches, Complete
  <2>3. StepOk(p)'
    BY <1>0, <1>2, <1>4, <2>1, <2>2 DEF Swap, At, Goto, StepOk, Matches, Complete
  <2> QED BY <1>1, <2>1, <2>3, HolderGoesOn DEF Guarded
<1>5. CASE Settle(p)
  <2>1. CASE existing
    <3>1. Goto(p, "cleanup") /\ UNCHANGED trees
      BY <1>5, <2>1 DEF Settle
    <3>2. StepOk(p)'
      BY <1>0, <1>2, <1>5, <2>1, <3>1
         DEF Settle, At, Goto, StepOk, trees, Matches, Complete
    <3> QED BY <1>1, <3>1, <3>2, HolderGoesOn DEF Guarded
  <2>2. CASE ~existing
    BY <1>1, <1>5, <2>2, HolderLeaves DEF Settle
  <2> QED BY <2>1, <2>2
<1>6. CASE Cleanup(p)
  <2>1. CASE previous'.exists
    <3>1. UNCHANGED <<pc, want, result, guard, dest>>
      BY <1>6, <2>1 DEF Cleanup
    <3>2. StepOk(p)'
      BY <1>0, <1>6, <2>1, <3>1 DEF Cleanup, At, StepOk, Matches, Complete
    <3> QED BY <1>1, <3>1, <3>2, HolderStays
  <2>2. CASE ~previous'.exists
    BY <1>1, <1>6, <2>2, HolderLeaves DEF Cleanup
  <2> QED BY <2>1, <2>2
<1> QED BY <1>3, <1>4, <1>5, <1>6

\* Failing system calls and exits, at whatever step they strike.
LEMMA FaultSteps == ASSUME HInv, TypeOK', NEW p \in Procs, Fault(p) PROVE HInv'
<1>0. /\ TypeOK /\ Exclusive /\ Asking /\ StepOk(p)
      /\ pc[p] \in Guarded <=> guard = p
  BY DEF HInv, Exclusive
<1>1. CASE IoError(p)
  <2>1. guard = p
    BY <1>0, <1>1 DEF IoError, Guarded
  <2>2. CASE Leave(p, "failed")
    BY <2>1, <2>2, HolderLeaves
  <2>3. CASE Goto(p, "abort")
    <3>1. StepOk(p)'
      BY <1>0, <2>3 DEF Goto, StepOk, TypeOK
    <3> QED BY <2>1, <2>3, <3>1, HolderGoesOn DEF Guarded
  <2> QED BY <1>1, <2>2, <2>3 DEF IoError
<1>2. CASE UndoSwap(p)
  <2>1. guard = p /\ Goto(p, "abort")
    BY <1>0, <1>2 DEF UndoSwap, At, Guarded
  <2>2. StepOk(p)'
    BY <1>0, <2>1 DEF Goto, StepOk, TypeOK
  <2> QED BY <2>1, <2>2, HolderGoesOn DEF Guarded
<1>3. CASE Crash(p)
  <2>1. CASE guard = p
    BY <1>3, <2>1, HolderLeaves DEF Crash
  <2>2. CASE guard # p
    <3>1. /\ guard' = guard /\ pc'[p] = "idle" /\ want'[p] = NoLock
          /\ \A q \in Procs : q # p => pc'[q] = pc[q] /\ want'[q] = want[q]
      BY <1>0, <1>3, <2>2 DEF Crash, Leave, TypeOK
    <3>2. Exclusive'
      BY <1>0, <2>2, <3>1 DEF Exclusive, Guarded
    <3>3. Asking'
      BY <1>0, <3>1, ConstantsAssumption DEF Asking
    <3>4. ASSUME NEW q \in Procs PROVE StepOk(q)'
      <4>1. StepOk(q)
        BY DEF HInv
      <4> QED BY <1>3, <3>1, <4>1 DEF Crash, trees, StepOk, Matches, Complete
    <3> QED BY <3>2, <3>3, <3>4 DEF HInv
  <2> QED BY <2>1, <2>2
<1> QED BY <1>1, <1>2, <1>3 DEF Fault

\* Starting a call changes nothing another process relies on.
LEMMA CallSteps == ASSUME HInv, TypeOK', NEW p \in Procs, Call(p) PROVE HInv'
<1>1. PICK l \in Locks : Begin(p, l)
  BY DEF Call
<1>2. /\ guard' = guard /\ pc'[p] = "wait" /\ guard # p
      /\ want'[p] \in Locks
      /\ \A q \in Procs : q # p => pc'[q] = pc[q] /\ want'[q] = want[q]
  BY <1>1 DEF Begin, At, HInv, Exclusive, TypeOK, Guarded
<1>3. Exclusive'
  BY <1>2 DEF HInv, Exclusive, Guarded
<1>4. Asking'
  BY <1>2 DEF HInv, Asking
<1>5. ASSUME NEW q \in Procs PROVE StepOk(q)'
  <2>1. StepOk(q)
    BY DEF HInv
  <2> QED BY <1>1, <1>2, <2>1 DEF Begin, trees, StepOk, Matches, Complete
<1> QED BY <1>3, <1>4, <1>5 DEF HInv

\* Users touch the destination only while nobody is inside; or nothing happens.
LEMMA OutsideSteps == ASSUME HInv, TypeOK', Meddle \/ UNCHANGED vars PROVE HInv'
<1>1. UNCHANGED <<pc, want, guard>>
  BY DEF Meddle, vars
<1>2. Exclusive' /\ Asking'
  BY <1>1 DEF HInv, Exclusive, Asking
<1>3. ASSUME NEW q \in Procs PROVE StepOk(q)'
  <2>1. StepOk(q)
    BY DEF HInv
  <2>2. CASE UNCHANGED vars
    BY <2>1, <2>2 DEF vars, StepOk, Matches, Complete
  <2>3. CASE Meddle
    <3>1. pc'[q] \notin Guarded
      BY <1>1, <2>3, ConstantsAssumption DEF Meddle, HInv, Exclusive
    <3> QED BY <3>1 DEF StepOk, Guarded
  <2> QED BY <2>2, <2>3
<1> QED BY <1>2, <1>3 DEF HInv

\* The holder's invariant is inductive, whatever users do between the calls.
LEMMA HolderStep == HInv /\ [Next \/ Meddle]_vars => HInv'
<1> SUFFICES ASSUME HInv, [Next \/ Meddle]_vars PROVE HInv'
  OBVIOUS
<1>1. TypeOK'
  BY TypeStep, MeddleTyped DEF HInv
<1>2. CASE Meddle \/ UNCHANGED vars
  BY <1>1, <1>2, OutsideSteps
<1>3. ASSUME NEW p \in Procs, Call(p) PROVE HInv'
  BY <1>1, <1>3, CallSteps
<1>4. ASSUME NEW p \in Procs, Work(p) PROVE HInv'
  BY <1>1, <1>4, RecoverySteps, AssemblySteps, PublishSteps DEF Work
<1>5. ASSUME NEW p \in Procs, Fault(p) PROVE HInv'
  BY <1>1, <1>5, FaultSteps
<1> QED BY <1>2, <1>3, <1>4, <1>5 DEF Next

\* The holder's invariant holds in every run, meddled with or not.
LEMMA HolderInvariance == (Spec => []HInv) /\ (MeddledSpec => []HInv)
<1>1. Init => HInv
  BY InvInit DEF IInv
<1>2. HInv /\ [Next]_vars => HInv'
  BY HolderStep
<1>3. Spec => []HInv
  BY <1>1, <1>2, PTL DEF Spec
<1>4. MeddledSpec => []HInv
  BY <1>1, HolderStep, PTL DEF MeddledSpec
<1> QED BY <1>3, <1>4

-----------------------------------------------------------------------------
(* The five things a step can do to the destination and the backup.        *)

Restored  == /\ ~dest.exists /\ previous.exists
             /\ dest' = previous /\ previous' = Gone
Displaced == /\ dest.exists /\ Replaceable(dest) /\ ~previous.exists
             /\ dest' = Gone /\ previous' = dest
Swapped   == /\ ~dest.exists /\ previous' = previous
             /\ \E p \in Procs : Swap(p) /\ Matches(dest', want[p])
Shed      == /\ dest.exists /\ previous.exists /\ dest' = dest

LEMMA TreeMoves ==
    ASSUME HInv, [Next]_vars
    PROVE  UNCHANGED <<dest, previous>> \/ Restored \/ Displaced \/ Swapped \/ Shed
<1> DEFINE Goal ==
      UNCHANGED <<dest, previous>> \/ Restored \/ Displaced \/ Swapped \/ Shed
<1>1. CASE UNCHANGED vars
  BY <1>1 DEF vars
<1>2. ASSUME NEW p \in Procs, Call(p) PROVE Goal
  BY <1>2 DEF Call, Begin, trees
<1>3. ASSUME NEW p \in Procs, Work(p) PROVE Goal
  <2>0. StepOk(p) /\ (pc[p] # "idle" => want[p] \in Locks)
    BY DEF HInv, Asking
  <2>1. CASE \/ Acquire(p) \/ CheckOwner(p) \/ WriteOwner(p) \/ ClearStage(p)
             \/ Audit(p) \/ CreateStage(p) \/ Place(p) \/ CreateMarker(p)
             \/ WriteMarker(p) \/ Settle(p) \/ Abort(p)
    BY <2>1 DEF Acquire, CheckOwner, WriteOwner, ClearStage, Audit, CreateStage,
                Place, CreateMarker, WriteMarker, Settle, Abort, trees
  <2>2. CASE Recover(p)
    BY <2>2 DEF Recover, Restored
  <2>3. CASE DropPrevious(p) \/ Cleanup(p)
    BY <2>0, <2>3 DEF DropPrevious, Cleanup, At, StepOk, Shed, Matches, Complete
  <2>4. CASE Displace(p)
    BY <2>0, <2>4 DEF Displace, At, StepOk, Displaced
  <2>5. CASE Swap(p)
    BY <2>0, <2>5 DEF Swap, At, StepOk, Swapped, Matches, Complete
  <2> QED BY <1>3, <2>1, <2>2, <2>3, <2>4, <2>5 DEF Work
<1>4. ASSUME NEW p \in Procs, Fault(p) PROVE Goal
  <2>1. CASE IoError(p) \/ Crash(p)
    BY <2>1 DEF IoError, Crash, trees
  <2>2. CASE UndoSwap(p)
    <3>1. StepOk(p)
      BY DEF HInv
    <3> QED BY <2>2, <3>1 DEF UndoSwap, At, StepOk, Restored
  <2> QED BY <1>4, <2>1, <2>2 DEF Fault
<1> QED BY <1>1, <1>2, <1>3, <1>4 DEF Next

\* With nobody meddling, every step keeps the destination and the backup whole.
LEMMA InvStep == IInv /\ [Next]_vars => IInv'
<1> SUFFICES ASSUME IInv, [Next]_vars PROVE IInv'
  OBVIOUS
<1> USE ConstantFacts DEF NeverPartial, BackupOk, Settled
<1>0. HInv /\ HInv' /\ NeverPartial /\ BackupOk
  BY HolderStep DEF IInv
<1>1. CASE UNCHANGED <<dest, previous>>
  BY <1>0, <1>1 DEF IInv, Complete
<1>2. CASE Restored
  BY <1>0, <1>2 DEF IInv, Restored, Complete
<1>3. CASE Displaced
  BY <1>0, <1>3 DEF IInv, Displaced, Complete
<1>4. CASE Swapped
  BY <1>0, <1>4 DEF IInv, Swapped, Matches, Complete
<1>5. CASE Shed
  BY <1>0, <1>5 DEF IInv, Shed, Complete
<1> QED BY <1>0, <1>1, <1>2, <1>3, <1>4, <1>5, TreeMoves

\* The invariant holds in every state of every undisturbed run.
LEMMA Invariance == Spec => []IInv
BY InvInit, InvStep, PTL DEF Spec

-----------------------------------------------------------------------------
(* The results.                                                            *)

\* At most one process is inside the transaction, and it holds the OS lock.
THEOREM MutualExclusion == Spec => []Exclusive
<1>1. IInv => Exclusive
  BY DEF IInv, HInv
<1> QED BY <1>1, Invariance, PTL

\* Whatever call fails and wherever a process exits, the destination is never
\* half assembled nor half removed.
THEOREM DestinationNeverPartial == Spec => []NeverPartial
<1>1. IInv => NeverPartial
  BY DEF IInv
<1> QED BY <1>1, Invariance, PTL

\* A damaged backup always has a whole active tree beside it.
THEOREM DebrisIsHarmless == Spec => []DebrisHasSuccessor
<1>1. IInv => DebrisHasSuccessor
  BY DEF IInv, BackupOk, DebrisHasSuccessor, Settled
<1> QED BY <1>1, Invariance, PTL

\* Once a whole tree is installed, one is there or recoverable for ever after.
THEOREM OldTreeIsKept == Spec => OldTreeSurvives
<1>1. IInv /\ [Next]_vars => [Kept => Kept']_vars
  <2> SUFFICES ASSUME IInv, [Next]_vars, Kept PROVE Kept'
    OBVIOUS
  <2> USE ConstantFacts DEF Kept
  <2>0. HInv /\ BackupOk
    BY DEF IInv
  <2>1. CASE UNCHANGED <<dest, previous>>
    BY <2>1 DEF Complete
  <2>2. CASE Restored
    BY <2>2 DEF Restored, Complete
  <2>3. CASE Displaced
    BY <2>3 DEF Displaced, Complete
  <2>4. CASE Swapped
    BY <2>4 DEF Swapped, Matches
  <2>5. CASE Shed
    BY <2>0, <2>5 DEF Shed, BackupOk, Complete
  <2> QED BY <2>0, <2>1, <2>2, <2>3, <2>4, <2>5, TreeMoves
<1> QED BY <1>1, Invariance, PTL DEF Spec, OldTreeSurvives

\* A non-empty directory that pqty did not build stays as it is, also when
\* users rearrange the destination between the calls.
THEOREM ForeignTreesAreKept == MeddledSpec => ForeignKept
<1>1. HInv /\ [Next \/ Meddle]_vars
        => [Unowned(dest) /\ guard # Nobody => dest' = dest]_vars
  <2> SUFFICES ASSUME HInv, [Next \/ Meddle]_vars, Unowned(dest), guard # Nobody
               PROVE  dest' = dest
    OBVIOUS
  <2>1. [Next]_vars
    BY DEF Meddle
  <2>2. dest.exists /\ ~Replaceable(dest)
    BY DEF Unowned, Replaceable, Bare
  <2> QED
    BY <2>1, <2>2, TreeMoves DEF Restored, Displaced, Swapped, Shed
<1> QED BY <1>1, HolderInvariance, PTL DEF MeddledSpec, ForeignKept

-----------------------------------------------------------------------------
(* What success means, and the atomic register.                            *)

\* The steps after the new tree was moved into place.
Late == {"settle", "cleanup"}

\* How a step ends a call or moves it on.
LEMMA Endings ==
    ASSUME TypeOK, NEW p \in Procs, Work(p) \/ Fault(p)
    PROVE  \/ UNCHANGED <<pc, want, result>>
           \/ \E step \in Guarded :
                 /\ pc' = [pc EXCEPT ![p] = step]
                 /\ UNCHANGED <<want, result>>
                 /\ Swap(p) \/ (pc[p] \in Late <=> step \in Late)
           \/ \E o \in Outcomes \ {"none", "ok"} : Leave(p, o)
           \/ Leave(p, "ok") /\ \/ Audit(p) /\ Matches(dest, want[p])
                                \/ Settle(p) \/ Cleanup(p)
<1> USE DEF Outcomes, Guarded, Goto, At, Late
<1>1. CASE Acquire(p) \/ CheckOwner(p) \/ WriteOwner(p) \/ Recover(p) \/ DropPrevious(p)
  BY <1>1 DEF Acquire, CheckOwner, WriteOwner, Recover, DropPrevious
<1>2. CASE ClearStage(p) \/ Audit(p) \/ CreateStage(p) \/ Place(p) \/ CreateMarker(p)
  BY <1>2 DEF ClearStage, Audit, CreateStage, Place, CreateMarker
<1>3. CASE WriteMarker(p) \/ Displace(p) \/ Swap(p) \/ Settle(p) \/ Cleanup(p) \/ Abort(p)
  BY <1>3 DEF WriteMarker, Displace, Swap, Settle, Cleanup, Abort
<1>4. CASE IoError(p) \/ UndoSwap(p) \/ Crash(p)
  BY <1>4 DEF IoError, UndoSwap, Crash
<1> QED BY <1>1, <1>2, <1>3, <1>4 DEF Work, Fault

\* A call that succeeds leaves its own lock's tree at the destination.
LEMMA SuccessMatches ==
    ASSUME HInv, NEW p \in Procs, Leave(p, "ok"),
           (Audit(p) /\ Matches(dest, want[p])) \/ Settle(p) \/ Cleanup(p)
    PROVE  dest' = dest /\ Matches(dest, want[p]) /\ (Cleanup(p) \/ previous' = previous)
<1>1. StepOk(p)
  BY DEF HInv
<1> QED BY <1>1 DEF Audit, Settle, Cleanup, At, StepOk, trees

\* Success means that exactly the requested tree is installed, however users
\* had damaged, removed or created the destination before the call.
THEOREM SuccessIsInstalled == MeddledSpec => OkMeansInstalled
<1>1. HInv /\ [Next \/ Meddle]_vars
        => [\A p \in Procs : result[p] # "ok" /\ result'[p] = "ok"
                               => Matches(dest', want[p])]_vars
  <2> SUFFICES ASSUME HInv, Next, NEW p \in Procs,
                      result[p] # "ok", result'[p] = "ok"
               PROVE  Matches(dest', want[p])
    BY DEF Meddle, vars
  <2>0. TypeOK
    BY DEF HInv
  <2>1. PICK q \in Procs : Call(q) \/ Work(q) \/ Fault(q)
    BY DEF Next
  <2>2. CASE Call(q)
    BY <2>0, <2>2 DEF Call, Begin, TypeOK
  <2>3. CASE Work(q) \/ Fault(q)
    <3>1. Leave(q, "ok") /\ \/ Audit(q) /\ Matches(dest, want[q])
                            \/ Settle(q) \/ Cleanup(q)
      BY <2>0, <2>3, Endings DEF Leave, TypeOK
    <3>2. p = q
      BY <2>0, <3>1 DEF Leave, TypeOK
    <3> QED BY <3>1, <3>2, SuccessMatches DEF Matches, Complete
  <2> QED BY <2>1, <2>2, <2>3
<1> QED BY <1>1, HolderInvariance, PTL DEF MeddledSpec, OkMeansInstalled

\* The callers whose tree is already the active one.
Effected == {p \in Procs : pc[p] \in Late}

\* Only the second rename of publish makes another lock's tree the active one.
LEMMA ActiveChanges ==
    ASSUME IInv, [Next]_vars, \A p \in Procs : ~Swap(p)
    PROVE  UNCHANGED Recoverable.lock
<1> USE ConstantFacts DEF Recoverable
<1>0. HInv /\ TypeOK
  BY DEF IInv, HInv
<1>1. CASE UNCHANGED <<dest, previous>>
  BY <1>1
<1>2. CASE Restored
  BY <1>2 DEF Restored
<1>3. CASE Displaced
  BY <1>3 DEF Displaced
<1>4. CASE Shed
  BY <1>4 DEF Shed
<1> QED BY <1>0, <1>1, <1>2, <1>3, <1>4, TreeMoves DEF Swapped

\* A step of process p that is neither a rename into place nor an end of the
\* call leaves the set of effected callers alone.
LEMMA EffectedStays ==
    ASSUME TypeOK, NEW p \in Procs, NEW step \in Guarded,
           pc' = [pc EXCEPT ![p] = step],
           pc[p] \in Late <=> step \in Late
    PROVE  Effected' = Effected
BY DEF Effected, TypeOK

\* Returning, failing or exiting is an answer of the register.
LEMMA LeaveAnswers ==
    ASSUME IInv, NEW p \in Procs, Work(p) \/ Fault(p), NEW o \in Outcomes \ {"none"},
           Leave(p, o), o = "ok" => Matches(dest, want[p]),
           UNCHANGED Recoverable.lock
    PROVE  Publication!Answer(p)
<1>1. pc[p] # "idle" /\ TypeOK
  BY DEF IInv, HInv, Work, Fault, At, Acquire, CheckOwner, WriteOwner, Recover,
         DropPrevious, ClearStage, Audit, CreateStage, Place, CreateMarker,
         WriteMarker, Displace, Swap, Settle, Cleanup, Abort, IoError, UndoSwap, Crash
<1>2. want[p] # NoLock
  BY <1>1, ConstantsAssumption DEF IInv, HInv, Asking
<1>3. o = "ok" => Recoverable.lock = want[p]
  BY DEF Matches, Complete, Recoverable
<1>4. Effected' = Effected \ {p}
  BY <1>1 DEF Leave, Effected, TypeOK, Late
<1> QED BY <1>2, <1>3, <1>4 DEF Publication!Answer, Leave, Effected, Late

\* The second rename is the instant at which a call takes effect.
LEMMA SwapTakes ==
    ASSUME IInv, NEW p \in Procs, Swap(p)
    PROVE  Publication!Take(p)
<1>1. /\ pc[p] = "swap" /\ TypeOK /\ StepOk(p)
      /\ pc' = [pc EXCEPT ![p] = "settle"] /\ UNCHANGED <<want, result>>
      /\ dest' = stage
  BY DEF IInv, HInv, Swap, At, Goto
<1>2. want[p] \in Locks /\ want[p] # NoLock
  BY <1>1, ConstantsAssumption DEF IInv, HInv, Asking
<1>3. Recoverable'.lock = want[p]
  BY <1>1 DEF Recoverable, StepOk
<1>4. p \notin Effected /\ Effected' = Effected \union {p}
  BY <1>1 DEF Effected, TypeOK, Late
<1> QED BY <1>1, <1>2, <1>3, <1>4 DEF Publication!Take, Effected, Late

\* The transaction implements the atomic register: every call takes effect at
\* one instant or not at all, and reports success only for its own lock.
THEOREM Linearization == Spec => Linearized
<1>1. Init => Publication!PubInit
  <2> SUFFICES ASSUME Init PROVE Publication!PubInit
    OBVIOUS
  <2>1. Gone.lock = NoLock /\ EmptyDir.lock = NoLock /\ ForeignTree.lock = NoLock
    BY DEF Gone, EmptyDir, ForeignTree
  <2>2. Recoverable.lock = NoLock
    BY <2>1 DEF Init, Recoverable
  <2>3. {p \in Procs : pc[p] \in {"settle", "cleanup"}} = {}
    BY DEF Init
  <2> QED BY <2>2, <2>3 DEF Init, Publication!PubInit
<1>2. IInv /\ [Next]_vars => [Publication!PubNext]_(Publication!pubVars)
  <2> SUFFICES ASSUME IInv, [Next]_vars
               PROVE  [Publication!PubNext]_(Publication!pubVars)
    OBVIOUS
  <2>0. TypeOK /\ Asking
    BY DEF IInv, HInv
  <2>1. CASE UNCHANGED vars
    BY <2>1 DEF vars, Publication!pubVars, Recoverable
  <2>2. ASSUME NEW p \in Procs, Call(p) PROVE Publication!Ask(p)
    <3>1. PICK l \in Locks : Begin(p, l)
      BY <2>2 DEF Call
    <3>2. want[p] = NoLock
      BY <2>0, <3>1 DEF Begin, At, Asking, TypeOK
    <3>3. Effected' = Effected
      BY <2>0, <3>1 DEF Begin, At, Effected, TypeOK, Late
    <3> QED
      BY <3>1, <3>2, <3>3 DEF Begin, trees, Publication!Ask, Recoverable, Effected, Late
  <2>3. ASSUME NEW p \in Procs, Work(p) \/ Fault(p), \A q \in Procs : ~Swap(q)
        PROVE  [Publication!PubNext]_(Publication!pubVars)
    <3>0. UNCHANGED Recoverable.lock
      BY <2>3, ActiveChanges
    <3>1. CASE UNCHANGED <<pc, want, result>>
      BY <3>0, <3>1 DEF Publication!pubVars
    <3>2. CASE \E step \in Guarded : /\ pc' = [pc EXCEPT ![p] = step]
                                     /\ UNCHANGED <<want, result>>
                                     /\ pc[p] \in Late <=> step \in Late
      BY <2>0, <3>0, <3>2, EffectedStays DEF Publication!pubVars, Effected, Late
    <3>3. CASE \E o \in Outcomes \ {"none", "ok"} : Leave(p, o)
      BY <2>3, <3>0, <3>3, LeaveAnswers DEF Publication!PubNext
    <3>4. CASE Leave(p, "ok") /\ \/ Audit(p) /\ Matches(dest, want[p])
                                 \/ Settle(p) \/ Cleanup(p)
      BY <2>3, <3>0, <3>4, SuccessMatches, LeaveAnswers
         DEF Publication!PubNext, Outcomes, IInv
    <3> QED BY <2>0, <2>3, <3>1, <3>2, <3>3, <3>4, Endings
  <2>4. ASSUME NEW p \in Procs, Swap(p)
        PROVE  [Publication!PubNext]_(Publication!pubVars)
    BY <2>4, SwapTakes DEF Publication!PubNext
  <2> QED BY <2>1, <2>2, <2>3, <2>4 DEF Next, Publication!PubNext
<1> QED BY <1>1, <1>2, Invariance, PTL DEF Spec, Linearized, Publication!PubSpec

-----------------------------------------------------------------------------
(* How calls end.                                                          *)

\* From recovery until it displaces the destination, the holder may replace it: what
\* recover established nobody undoes while the OS lock is held.
Past == {"drop", "clear", "audit", "hydrate", "place", "mark", "seal", "publish"}
Recovered == \A p \in Procs : pc[p] \in Past => Replaceable(dest)

\* The own steps of the holder.
LEMMA OwnRecovered ==
    ASSUME HInv, Recovered, NEW p \in Procs, Work(p), pc'[p] \in Past
    PROVE  Replaceable(dest')
<1>1. pc \in [Procs -> Steps] /\ (pc[p] \in Past => Replaceable(dest))
  BY DEF HInv, TypeOK, Recovered
<1> USE <1>1 DEF Past, At, Goto, Leave, trees
<1>2. CASE Recover(p)  BY <1>2 DEF Recover
<1>3. CASE Acquire(p) \/ CheckOwner(p) \/ WriteOwner(p)
  BY <1>3 DEF Acquire, CheckOwner, WriteOwner
<1>4. CASE DropPrevious(p) \/ ClearStage(p) \/ Audit(p) \/ CreateStage(p)
  BY <1>4 DEF DropPrevious, ClearStage, Audit, CreateStage
<1>5. CASE Place(p) \/ CreateMarker(p) \/ WriteMarker(p)
  BY <1>5 DEF Place, CreateMarker, WriteMarker
<1>6. CASE Displace(p) \/ Swap(p) \/ Settle(p) \/ Cleanup(p) \/ Abort(p)
  BY <1>6 DEF Displace, Swap, Settle, Cleanup, Abort
<1> QED BY <1>2, <1>3, <1>4, <1>5, <1>6 DEF Work

\* Who moves the destination holds the OS lock; a step changes the place of one call.
LEMMA OneMoves ==
    ASSUME HInv, NEW p \in Procs, Call(p) \/ Work(p) \/ Fault(p)
    PROVE  /\ \A q \in Procs \ {p} : pc'[q] = pc[q]
           /\ guard = p \/ dest' = dest
<1>1. pc \in [Procs -> Steps] /\ (pc[p] \in Guarded => guard = p)
  BY DEF HInv, TypeOK, Exclusive
<1> USE <1>1 DEF At, Goto, Leave, trees, Guarded
<1>2. CASE Call(p)  BY <1>2 DEF Call, Begin
<1>3. CASE Fault(p)  BY <1>3 DEF Fault, IoError, UndoSwap, Crash
<1>4. CASE Acquire(p) \/ CheckOwner(p) \/ WriteOwner(p) \/ Recover(p) \/ DropPrevious(p)
  BY <1>4 DEF Acquire, CheckOwner, WriteOwner, Recover, DropPrevious
<1>5. CASE ClearStage(p) \/ Audit(p) \/ CreateStage(p) \/ Place(p) \/ CreateMarker(p)
  BY <1>5 DEF ClearStage, Audit, CreateStage, Place, CreateMarker
<1>6. CASE WriteMarker(p) \/ Displace(p) \/ Swap(p) \/ Settle(p) \/ Cleanup(p) \/ Abort(p)
  BY <1>6 DEF WriteMarker, Displace, Swap, Settle, Cleanup, Abort
<1> QED BY <1>2, <1>3, <1>4, <1>5, <1>6 DEF Work

LEMMA RecoveredStep == HInv /\ Recovered /\ [Next \/ Meddle]_vars => Recovered'
<1> SUFFICES ASSUME HInv, Recovered, [Next \/ Meddle]_vars, NEW q \in Procs, pc'[q] \in Past
             PROVE  Replaceable(dest')
  BY DEF Recovered
<1>1. CASE UNCHANGED vars
  BY <1>1 DEF vars, Recovered
<1>2. CASE Meddle
  BY <1>2, ConstantsAssumption DEF Meddle, HInv, Exclusive, Past, Guarded
<1>3. ASSUME NEW p \in Procs, Call(p) \/ Work(p) \/ Fault(p)  PROVE Replaceable(dest')
  <2>1. CASE q # p
    <3>1. pc[q] \in Past /\ guard = q
      BY <1>3, <2>1, OneMoves DEF HInv, Exclusive, Past, Guarded
    <3> QED BY <1>3, <2>1, <3>1, OneMoves DEF Recovered
  <2>2. CASE q = p /\ Work(p)
    BY <2>2, OwnRecovered
  <2>3. CASE q = p /\ (Call(p) \/ Fault(p))
    BY <2>3 DEF Call, Begin, Fault, IoError, UndoSwap, Crash, Goto, Leave, Past, HInv, TypeOK
  <2> QED BY <1>3, <2>1, <2>2, <2>3
<1> QED BY <1>1, <1>2, <1>3 DEF Next

\* A call in which nothing fails never comes to remove its stage, and ends well.
LEMMA WorkEndsWell ==
    ASSUME HInv, Recovered, NEW p \in Procs, Work(p)
    PROVE  /\ pc'[p] = "abort" => pc[p] = "abort"
           /\ Returns(p) => EndsWell(p) \/ pc[p] = "abort"
<1>1. /\ pc \in [Procs -> Steps] /\ result \in [Procs -> Outcomes]
      /\ StepOk(p) /\ (pc[p] \in Past => Replaceable(dest))
  BY DEF HInv, TypeOK, Recovered
<1> USE <1>1 DEF Past, At, Goto, Leave, trees, Returns, EndsWell
<1>2. CASE Recover(p)  BY <1>2 DEF Recover, Replaceable, Unowned, Bare, Recoverable
<1>3. CASE CheckOwner(p)  BY <1>3 DEF CheckOwner
<1>4. CASE Acquire(p) \/ WriteOwner(p) \/ DropPrevious(p) \/ ClearStage(p) \/ CreateStage(p)
  BY <1>4 DEF Acquire, WriteOwner, DropPrevious, ClearStage, CreateStage
<1>5. CASE Place(p) \/ CreateMarker(p) \/ WriteMarker(p) \/ Swap(p) \/ Abort(p)
  BY <1>5 DEF Place, CreateMarker, WriteMarker, Swap, Abort
<1>6. CASE Displace(p)  BY <1>6 DEF Displace, StepOk, Replaceable
<1>7. CASE Audit(p)  BY <1>7 DEF Audit, Matches, Complete
<1>8. CASE Settle(p)  BY <1>8 DEF Settle, StepOk, Matches, Complete
<1>9. CASE Cleanup(p)  BY <1>9 DEF Cleanup, StepOk, Matches, Complete
<1> QED BY <1>2, <1>3, <1>4, <1>5, <1>6, <1>7, <1>8, <1>9 DEF Work

\* Some call is removing its stage after a failure.
Aborting == \E p \in Procs : pc[p] = "abort"

LEMMA FaultlessStep ==
    ASSUME HInv, HInv', Recovered, [Next \/ Meddle]_vars, \A p \in Procs : ~Fault(p)
    PROVE  /\ Aborting' => Aborting
           /\ AllEndWell \/ (Aborting /\ ~Aborting')
<1>1. CASE Meddle \/ UNCHANGED vars
  BY <1>1 DEF Meddle, vars, Aborting, AllEndWell, Returns
<1>2. ASSUME NEW p \in Procs, Call(p) \/ Work(p)
      PROVE  /\ Aborting' => Aborting
             /\ AllEndWell \/ (Aborting /\ ~Aborting')
  <2>1. \A q \in Procs \ {p} : pc'[q] = pc[q]
    BY <1>2, OneMoves
  <2>2. CASE Call(p)
    <3>1. pc[p] = "idle" /\ pc'[p] = "wait"
      BY <2>2 DEF Call, Begin, At, HInv, TypeOK
    <3> QED BY <2>1, <3>1 DEF Aborting, AllEndWell, Returns
  <2>3. CASE Work(p)
    <3>1. /\ pc'[p] = "abort" => pc[p] = "abort"
          /\ Returns(p) => EndsWell(p) \/ pc[p] = "abort"
      BY <2>3, WorkEndsWell
    <3>2. ASSUME pc[p] = "abort", Returns(p)  PROVE ~Aborting'
      <4>1. \A q \in Procs \ {p} : pc[q] # "abort"
        BY <3>2 DEF HInv, Exclusive, Guarded
      <4> QED BY <2>1, <3>2, <4>1 DEF Aborting, Returns
    <3> QED BY <2>1, <3>1, <3>2 DEF Aborting, AllEndWell, Returns
  <2> QED BY <1>2, <2>2, <2>3
<1> QED BY <1>1, <1>2 DEF Next

\* Once no system call fails and no process exits, every call that returns has
\* installed its tree or met something that is not pqty's: nothing that faults left
\* behind, in the stage, the backup, the record or the destination, makes it fail.
\* Users may go on changing the destination between the calls.
THEOREM RetriesInstall == MeddledSpec => RetryInstalls
<1>1. Init => HInv /\ Recovered
  BY InvInit DEF IInv, Init, Recovered, Past
<1>2. MeddledSpec => [](HInv /\ Recovered)
  BY <1>1, HolderStep, RecoveredStep, PTL DEF MeddledSpec
<1>3. /\ HInv /\ Recovered /\ (HInv /\ Recovered)'
      /\ [Next \/ Meddle]_vars /\ [\A p \in Procs : ~Fault(p)]_vars
      => /\ Aborting' => Aborting
         /\ [AllEndWell]_vars \/ (Aborting /\ ~Aborting')
  <2>1. CASE UNCHANGED vars
    BY <2>1 DEF vars, Aborting
  <2>2. CASE ~UNCHANGED vars
    BY <2>2, FaultlessStep
  <2> QED BY <2>1, <2>2
<1> QED
  BY <1>2, <1>3, PTL DEF MeddledSpec, Calm, RetryInstalls

\* And with nobody else touching the destination, in an owned control directory and
\* over a destination that may be replaced, every such call installs its tree: what
\* RetryRestores needs of each call, whatever was interrupted before.
THEOREM RetriesRestore ==
    Spec /\ Calm
    => <>[][owner = "ours" /\ ~Unowned(dest)
            => \A p \in Procs :
                 Returns(p) => result'[p] = "ok" /\ Matches(dest', want[p])]_vars
<1>1. Spec => MeddledSpec
  BY PTL DEF Spec, MeddledSpec
<1>2. IInv /\ [AllEndWell]_vars
      => [owner = "ours" /\ ~Unowned(dest)
            => \A p \in Procs :
                 Returns(p) => result'[p] = "ok" /\ Matches(dest', want[p])]_vars
  <2>1. IInv /\ ~Unowned(dest) => ~Unowned(Recoverable)
    BY DEF IInv, BackupOk, Settled, Complete, Unowned, Recoverable, EmptyDir, Gone
  <2> QED BY <2>1 DEF AllEndWell, EndsWell
<1> QED
  BY <1>1, <1>2, RetriesInstall, Invariance, PTL DEF RetryInstalls
=============================================================================
