--------------------------- MODULE ContentStoreProofs ---------------------------
(***************************************************************************)
(* What the store lock buys: with every call holding it, that is without   *)
(* bundle imports, for any processes, providers and objects.               *)
(***************************************************************************)
EXTENDS ContentStore, TLAPS

\* The part of the type invariant that is about the calls, not the store.
CallTypes ==
    /\ guard \in Procs \union {Nobody}
    /\ pc \in [Procs -> Steps]
    /\ kind \in [Procs -> Kinds \union {"none"}]
    /\ result \in [Procs -> {"none", "ok", "failed", "offline", "faulted", "crashed"}]
    /\ closure \in [Procs -> SUBSET Providers]
    /\ todo \in [Procs -> SUBSET Providers]
    /\ broken \in [Procs -> SUBSET Providers]
    /\ evidence \in [Procs -> SUBSET Providers]
    /\ batch \in [Procs -> SUBSET Providers]
    /\ left \in [Procs -> SUBSET Objects]
    /\ victim \in [Procs -> SUBSET Objects]

\* ... and the local variables among it.
WorkTypes ==
    /\ todo \in [Procs -> SUBSET Providers]
    /\ broken \in [Procs -> SUBSET Providers]
    /\ evidence \in [Procs -> SUBSET Providers]
    /\ batch \in [Procs -> SUBSET Providers]
    /\ left \in [Procs -> SUBSET Objects]
    /\ victim \in [Procs -> SUBSET Objects]

\* Leaving resets every variable of the call to a value of its type.
LEMMA LeaveTypes ==
  ASSUME CallTypes, NEW p \in Procs,
         NEW out \in {"none", "ok", "failed", "offline", "faulted", "crashed"}, Leave(p, out)
  PROVE  CallTypes'
  BY DEF CallTypes, Leave, Steps

\* Going on to another step changes only pc.
LEMMA GotoTypes ==
  ASSUME CallTypes, NEW p \in Procs, NEW step \in Steps, Goto(p, step), WorkTypes'
  PROVE  CallTypes'
  BY DEF CallTypes, WorkTypes, Goto

\* The part about the store's files, and the tally of corrupt placements.
FileTypes ==
    /\ object \in [Objects -> States]
    /\ manifest \in [Providers -> States]
    /\ prepared \subseteq Providers
    /\ rotten \subseteq Procs

\* Every step of a running call keeps both parts.
LEMMA StepTypes ==
  ASSUME FileTypes, CallTypes, NEW p \in Procs, Step(p)
  PROVE  FileTypes' /\ CallTypes'
<1> USE StoreAssumption DEF FileTypes, States
<1>w. ASSUME UNCHANGED Work
      PROVE  WorkTypes'
  BY <1>w DEF Work, CallTypes, WorkTypes
<1>1. CASE Inspect(p)
  <2>1. FileTypes'
    BY <1>1 DEF Inspect, store
  <2>2. CallTypes'
    <3>1. WorkTypes'
      BY <1>1, <1>w DEF Inspect, Take, Drop, Add, ObjectsOf, CallTypes, WorkTypes
    <3>2. \E step \in Steps : Goto(p, step)
      BY <1>1 DEF Inspect, Steps
    <3> QED
      BY <3>1, <3>2, GotoTypes
  <2> QED
    BY <2>1, <2>2
<1>2. CASE Check(p)
  <2>1. FileTypes'
    BY <1>2 DEF Check, store
  <2>2. CallTypes'
    <3>1. WorkTypes'
      BY <1>2, <1>w DEF Check, Take, Drop, Add, ObjectsOf, CallTypes, WorkTypes
    <3>2. \E step \in Steps : Goto(p, step)
      BY <1>2 DEF Check, Steps
    <3> QED
      BY <3>1, <3>2, GotoTypes
  <2> QED
    BY <2>1, <2>2
<1>3. CASE Evict(p)
  <2>1. FileTypes'
    BY <1>3 DEF Evict, Quarantine, store
  <2>2. CallTypes'
    BY <1>3, <1>w, LeaveTypes, GotoTypes
       DEF Evict, Quarantine, Take, Drop, Add, ObjectsOf, CallTypes, WorkTypes, Steps
  <2> QED
    BY <2>1, <2>2
<1>4. CASE NextProvider(p)
  <2>1. FileTypes'
    BY <1>4 DEF NextProvider, store
  <2>2. CallTypes'
    BY <1>4, <1>w, LeaveTypes, GotoTypes
       DEF NextProvider, Take, Drop, Add, ObjectsOf, CallTypes, WorkTypes, Steps
  <2> QED
    BY <2>1, <2>2
<1>5. CASE Stored(p)
  <2>1. FileTypes'
    BY <1>5 DEF Stored, store, CallTypes
  <2>2. CallTypes'
    BY <1>5, <1>w, LeaveTypes, GotoTypes
       DEF Stored, Take, Drop, Add, ObjectsOf, CallTypes, WorkTypes, Steps
  <2> QED
    BY <2>1, <2>2
<1>6. CASE Store(p)
  <2>1. FileTypes'
    BY <1>6 DEF Store, store
  <2>2. CallTypes'
    BY <1>6, <1>w, LeaveTypes, GotoTypes
       DEF Store, Take, Drop, Add, ObjectsOf, CallTypes, WorkTypes, Steps
  <2> QED
    BY <2>1, <2>2
<1>7. CASE Replace(p)
  <2>1. FileTypes'
    BY <1>7 DEF Replace, Quarantine, store
  <2>2. CallTypes'
    BY <1>7, <1>w, LeaveTypes, GotoTypes
       DEF Replace, Quarantine, Take, Drop, Add, ObjectsOf, CallTypes, WorkTypes, Steps
  <2> QED
    BY <2>1, <2>2
<1>8. CASE Link(p)
  <2>1. FileTypes'
    BY <1>8 DEF Link, store
  <2>2. CallTypes'
    BY <1>8, <1>w, LeaveTypes, GotoTypes
       DEF Link, Take, Drop, Add, ObjectsOf, CallTypes, WorkTypes, Steps
  <2> QED
    BY <2>1, <2>2
<1>9. CASE Publish(p)
  <2>1. FileTypes'
    BY <1>9 DEF Publish, store
  <2>2. CallTypes'
    BY <1>9, <1>w, LeaveTypes, GotoTypes
       DEF Publish, Take, Drop, Add, ObjectsOf, CallTypes, WorkTypes, Steps
  <2> QED
    BY <2>1, <2>2
<1>10. CASE Cached(p)
  <2>1. FileTypes'
    BY <1>10 DEF Cached, store
  <2>2. CallTypes'
    BY <1>10, <1>w, LeaveTypes, GotoTypes
       DEF Cached, Take, Drop, Add, ObjectsOf, CallTypes, WorkTypes, Steps
  <2> QED
    BY <2>1, <2>2
<1>11. CASE Load(p)
  <2>1. FileTypes'
    BY <1>11 DEF Load, store
  <2>2. CallTypes'
    <3>1. CASE Leave(p, "failed")
      BY <3>1, LeaveTypes
    <3>2. CASE ~Leave(p, "failed")
      <4>1. WorkTypes'
        BY <1>11, <3>2 DEF Load, Take, Drop, Add, ObjectsOf, CallTypes, WorkTypes
      <4>2. \E step \in Steps : Goto(p, step)
        BY <1>11, <3>2 DEF Load, Steps
      <4> QED
        BY <4>1, <4>2, GotoTypes
    <3> QED
      BY <3>1, <3>2
  <2> QED
    BY <2>1, <2>2
<1>12. CASE Verify(p)
  <2>1. FileTypes'
    BY <1>12 DEF Verify, store
  <2>2. CallTypes'
    BY <1>12, <1>w, LeaveTypes, GotoTypes
       DEF Verify, Take, Drop, Add, ObjectsOf, CallTypes, WorkTypes, Steps
  <2> QED
    BY <2>1, <2>2
<1>13. CASE Place(p)
  <2>1. FileTypes'
    BY <1>13 DEF Place, store
  <2>2. CallTypes'
    BY <1>13, <1>w, LeaveTypes, GotoTypes
       DEF Place, Take, Drop, Add, ObjectsOf, CallTypes, WorkTypes, Steps
  <2> QED
    BY <2>1, <2>2
<1> QED
  BY <1>1, <1>2, <1>3, <1>4, <1>5, <1>6, <1>7,
     <1>8, <1>9, <1>10, <1>11, <1>12, <1>13 DEF Step

\* The store keeps its types, whichever calls are made.
THEOREM StoreTypes == Spec => []StoreTypeOK
<1>1. Init => StoreTypeOK
  BY DEF Init, StoreTypeOK, States, Steps
<1>2. StoreTypeOK /\ [Next]_vars => StoreTypeOK'
  <2> SUFFICES ASSUME FileTypes, CallTypes, [Next]_vars
               PROVE  FileTypes' /\ CallTypes'
    BY DEF StoreTypeOK, FileTypes, CallTypes
  <2>1. ASSUME NEW p \in Procs, Begin(p) PROVE FileTypes' /\ CallTypes'
    BY <2>1, StoreAssumption
       DEF Begin, Take, ObjectsOf, FileTypes, CallTypes, States, Steps, store
  <2>2. ASSUME NEW p \in Procs, Acquire(p) PROVE FileTypes' /\ CallTypes'
    BY <2>2 DEF Acquire, FileTypes, CallTypes, States, Steps, store
  <2>3. ASSUME NEW p \in Procs, Step(p) PROVE FileTypes' /\ CallTypes'
    BY <2>3, StepTypes
  <2>4. ASSUME NEW p \in Procs, IoError(p) \/ Crash(p) PROVE FileTypes' /\ CallTypes'
    BY <2>4, LeaveTypes DEF IoError, Crash, FileTypes, States, store
  <2>5. CASE Damage
    BY <2>5 DEF Damage, FileTypes, CallTypes, States, locals
  <2>6. CASE UNCHANGED vars
    BY <2>6 DEF vars, store, locals, FileTypes, CallTypes, States
  <2> QED
    BY <2>1, <2>2, <2>3, <2>4, <2>5, <2>6 DEF Next
<1> QED
  BY <1>1, <1>2, PTL DEF Spec

-----------------------------------------------------------------------------
(* The work of the holder of the store lock.                               *)

Installs(p) == kind[p] \in {"install", "offline"}
Inside(p) == pc[p] \notin {"idle", "wait"}
Storing(p) == pc[p] \in {"store", "replace", "link"}

\* The providers being stored now.
InWork(p) == IF Storing(p) \/ pc[p] = "publish" THEN batch[p] ELSE {}

\* Objects that may be gone because the call still has to store them.
Owed(p) == ObjectsOf(broken[p]) \union (IF Storing(p) THEN left[p] ELSE {})

\* The providers an installation has inspected or recovered.
Settled(p) == closure[p] \ (todo[p] \union broken[p] \union InWork(p))

\* While an installation inspects and recovers, a settled provider is ready but
\* for the objects the call still owes to another one that shares them.
SettledReady(p) ==
    Installs(p) /\ pc[p] \notin {"idle", "wait", "load", "place"}
    => \A pr \in Settled(p) :
          /\ manifest[pr] = "good"
          /\ \A o \in Contents[pr] : object[o] = "good" \/ o \in Owed(p)

\* The checks, stores and publications of a batch of providers are in order.
BatchSound(p) ==
    /\ pc[p] = "check" => /\ \A pr \in batch[p] : manifest[pr] = "good"
                          /\ left[p] \subseteq ObjectsOf(batch[p])
    /\ pc[p] \in {"check", "verify", "store", "replace", "link", "publish"}
       => \A o \in ObjectsOf(batch[p]) : object[o] = "good" \/ o \in left[p]
    /\ pc[p] = "publish" => left[p] = {}
    /\ pc[p] = "cached" => ~Installs(p)
    /\ pc[p] \in {"replace", "link"} => victim[p] \subseteq left[p]
    /\ pc[p] = "evict" => victim[p] \subseteq ObjectsOf(broken[p])
    /\ pc[p] \in {"next", "store", "replace", "link", "publish"} /\ Installs(p)
       => todo[p] = {}

\* What is placed was inspected, or verified while it was loaded.
PlacementSound(p) ==
    /\ pc[p] \in {"load", "verify", "place"} => Installs(p) \/ kind[p] = "materialize"
    /\ pc[p] \in {"load", "place"} /\ Installs(p) => \A pr \in closure[p] : Ready(pr)
    /\ pc[p] \in {"load", "verify", "place"} /\ kind[p] = "materialize"
       => \A pr \in closure[p] \ todo[p] :
             Complete(pr) \/ (pc[p] = "verify" /\ pr \in batch[p])
    /\ pc[p] = "place" => todo[p] = {} /\ left[p] \subseteq ObjectsOf(closure[p])
    /\ pc[p] = "verify" => kind[p] = "materialize"

Sound(p) == SettledReady(p) /\ BatchSound(p) /\ PlacementSound(p)

LockInv ==
    /\ \A p \in Procs : Inside(p) => guard = p
    /\ \A p \in Procs : Inside(p) => Sound(p)
    /\ rotten = {}

\* A call that leaves is outside.
LEMMA LeaveOutside ==
  ASSUME CallTypes, NEW p \in Procs, NEW out, Leave(p, out)
  PROVE  ~Inside(p)'
  BY DEF CallTypes, Leave, Inside

LEMMA InspectSound ==
  ASSUME StoreTypeOK, NEW p \in Procs, Inside(p), Sound(p), Inspect(p), Inside(p)'
  PROVE  Sound(p)'
<1> USE StoreAssumption
    DEF StoreTypeOK, Sound, Inside, Storing, Installs, Inspect, At, Goto, Leave, Take, Drop, Add,
        Work, store, ObjectsOf
<1>1. SettledReady(p)'
  BY DEF SettledReady, BatchSound, Settled, InWork, Owed
<1>2. BatchSound(p)'
  BY DEF BatchSound
<1>3. PlacementSound(p)'
  BY DEF PlacementSound, Ready, Complete
<1> QED
  BY <1>1, <1>2, <1>3

LEMMA CheckSound ==
  ASSUME StoreTypeOK, NEW p \in Procs, Inside(p), Sound(p), Check(p), Inside(p)'
  PROVE  Sound(p)'
<1> USE StoreAssumption
    DEF StoreTypeOK, Sound, Inside, Storing, Installs, Check, At, Goto, Leave, Take, Drop, Add,
        Work, store, ObjectsOf
<1>1. SettledReady(p)'
  BY DEF SettledReady, BatchSound, Settled, InWork, Owed
<1>2. BatchSound(p)'
  BY DEF BatchSound
<1>3. PlacementSound(p)'
  BY DEF PlacementSound, Ready, Complete
<1> QED
  BY <1>1, <1>2, <1>3

LEMMA EvictSound ==
  ASSUME StoreTypeOK, NEW p \in Procs, Inside(p), Sound(p), Evict(p), Inside(p)'
  PROVE  Sound(p)'
<1> USE StoreAssumption
    DEF StoreTypeOK, Sound, Inside, Storing, Installs, Evict, Quarantine, At, Goto, Leave, Take, Drop, Add,
        Work, store, ObjectsOf
<1>1. SettledReady(p)'
  BY DEF SettledReady, BatchSound, Settled, InWork, Owed
<1>2. BatchSound(p)'
  BY DEF BatchSound
<1>3. PlacementSound(p)'
  BY DEF PlacementSound, Ready, Complete
<1> QED
  BY <1>1, <1>2, <1>3

LEMMA NextProviderSound ==
  ASSUME StoreTypeOK, NEW p \in Procs, Inside(p), Sound(p), NextProvider(p), Inside(p)'
  PROVE  Sound(p)'
<1> USE StoreAssumption
    DEF StoreTypeOK, Sound, Inside, Storing, Installs, NextProvider, At, Goto, Leave, Take, Drop, Add,
        Work, store, ObjectsOf
<1>1. SettledReady(p)'
  BY DEF SettledReady, BatchSound, Settled, InWork, Owed
<1>2. BatchSound(p)'
  BY DEF BatchSound
<1>3. PlacementSound(p)'
  BY DEF PlacementSound, Ready, Complete
<1> QED
  BY <1>1, <1>2, <1>3

LEMMA StoredSound ==
  ASSUME StoreTypeOK, NEW p \in Procs, Inside(p), Sound(p), Stored(p), Inside(p)'
  PROVE  Sound(p)'
<1> USE StoreAssumption
    DEF StoreTypeOK, Sound, Inside, Storing, Installs, Stored, At, Goto, Leave, Take, Drop, Add,
        Work, store, ObjectsOf
<1>1. SettledReady(p)'
  BY DEF SettledReady, BatchSound, Settled, InWork, Owed
<1>2. BatchSound(p)'
  BY DEF BatchSound
<1>3. PlacementSound(p)'
  BY DEF PlacementSound, Ready, Complete, SettledReady, BatchSound,
     Settled, InWork, Owed
<1> QED
  BY <1>1, <1>2, <1>3

LEMMA StoreSound ==
  ASSUME StoreTypeOK, NEW p \in Procs, Inside(p), Sound(p), Store(p), Inside(p)'
  PROVE  Sound(p)'
<1> USE StoreAssumption
    DEF StoreTypeOK, Sound, Inside, Storing, Installs, Store, At, Goto, Leave, Take, Drop, Add,
        Work, store, ObjectsOf
<1>1. SettledReady(p)'
  BY DEF SettledReady, BatchSound, Settled, InWork, Owed
<1>2. BatchSound(p)'
  BY DEF BatchSound
<1>3. PlacementSound(p)'
  BY DEF PlacementSound, Ready, Complete
<1> QED
  BY <1>1, <1>2, <1>3

LEMMA ReplaceSound ==
  ASSUME StoreTypeOK, NEW p \in Procs, Inside(p), Sound(p), Replace(p), Inside(p)'
  PROVE  Sound(p)'
<1> USE StoreAssumption
    DEF StoreTypeOK, Sound, Inside, Storing, Installs, Replace, Quarantine, At, Goto, Leave, Take, Drop, Add,
        Work, store, ObjectsOf
<1>1. SettledReady(p)'
  BY DEF SettledReady, BatchSound, Settled, InWork, Owed
<1>2. BatchSound(p)'
  BY DEF BatchSound
<1>3. PlacementSound(p)'
  BY DEF PlacementSound, Ready, Complete
<1> QED
  BY <1>1, <1>2, <1>3

LEMMA LinkSound ==
  ASSUME StoreTypeOK, NEW p \in Procs, Inside(p), Sound(p), Link(p), Inside(p)'
  PROVE  Sound(p)'
<1> USE StoreAssumption
    DEF StoreTypeOK, Sound, Inside, Storing, Installs, Link, At, Goto, Leave, Take, Drop, Add,
        Work, store, ObjectsOf
<1>1. SettledReady(p)'
  BY DEF SettledReady, BatchSound, Settled, InWork, Owed
<1>2. BatchSound(p)'
  BY DEF BatchSound
<1>3. PlacementSound(p)'
  BY DEF PlacementSound, Ready, Complete
<1> QED
  BY <1>1, <1>2, <1>3

LEMMA PublishSound ==
  ASSUME StoreTypeOK, NEW p \in Procs, Inside(p), Sound(p), Publish(p), Inside(p)'
  PROVE  Sound(p)'
<1> USE StoreAssumption
    DEF StoreTypeOK, Sound, Inside, Storing, Installs, Publish, At, Goto, Leave, Take, Drop, Add,
        Work, store, ObjectsOf
<1>1. SettledReady(p)'
  BY DEF SettledReady, BatchSound, Settled, InWork, Owed
<1>2. BatchSound(p)'
  BY DEF BatchSound
<1>3. PlacementSound(p)'
  BY DEF PlacementSound, Ready, Complete
<1> QED
  BY <1>1, <1>2, <1>3

LEMMA CachedSound ==
  ASSUME StoreTypeOK, NEW p \in Procs, Inside(p), Sound(p), Cached(p), Inside(p)'
  PROVE  Sound(p)'
<1> USE StoreAssumption
    DEF StoreTypeOK, Sound, Inside, Storing, Installs, Cached, At, Goto, Leave, Take, Drop, Add,
        Work, store, ObjectsOf
<1>1. SettledReady(p)'
  BY DEF SettledReady, BatchSound, Settled, InWork, Owed
<1>2. BatchSound(p)'
  BY DEF BatchSound
<1>3. PlacementSound(p)'
  BY DEF PlacementSound, Ready, Complete
<1> QED
  BY <1>1, <1>2, <1>3

LEMMA LoadSound ==
  ASSUME StoreTypeOK, NEW p \in Procs, Inside(p), Sound(p), Load(p), Inside(p)'
  PROVE  Sound(p)'
<1> USE StoreAssumption
    DEF StoreTypeOK, Sound, Inside, Storing, Installs, Load, At, Goto, Leave, Take, Drop, Add,
        Work, store, ObjectsOf
<1>1. SettledReady(p)'
  BY DEF SettledReady, BatchSound, Settled, InWork, Owed
<1>2. BatchSound(p)'
  BY DEF BatchSound
<1>3. PlacementSound(p)'
  BY DEF PlacementSound, Ready, Complete, BatchSound
<1> QED
  BY <1>1, <1>2, <1>3

LEMMA VerifySound ==
  ASSUME StoreTypeOK, NEW p \in Procs, Inside(p), Sound(p), Verify(p), Inside(p)'
  PROVE  Sound(p)'
<1> USE StoreAssumption
    DEF StoreTypeOK, Sound, Inside, Storing, Installs, Verify, At, Goto, Leave, Take, Drop, Add,
        Work, store, ObjectsOf
<1>1. SettledReady(p)'
  BY DEF SettledReady, BatchSound, Settled, InWork, Owed
<1>2. BatchSound(p)'
  BY DEF BatchSound
<1>3. PlacementSound(p)'
  BY DEF PlacementSound, Ready, Complete, BatchSound
<1> QED
  BY <1>1, <1>2, <1>3

LEMMA PlaceSound ==
  ASSUME StoreTypeOK, NEW p \in Procs, Inside(p), Sound(p), Place(p), Inside(p)'
  PROVE  Sound(p)'
<1> USE StoreAssumption
    DEF StoreTypeOK, Sound, Inside, Storing, Installs, Place, At, Goto, Leave, Take, Drop, Add,
        Work, store, ObjectsOf
<1>1. SettledReady(p)'
  BY DEF SettledReady, BatchSound, Settled, InWork, Owed
<1>2. BatchSound(p)'
  BY DEF BatchSound
<1>3. PlacementSound(p)'
  BY DEF PlacementSound, Ready, Complete
<1> QED
  BY <1>1, <1>2, <1>3

-----------------------------------------------------------------------------
(* The invariant of the store lock.                                        *)

\* One step of the holder keeps the invariant if it keeps the holder's part of it:
\* everybody else is outside.
LEMMA HolderKeeps ==
  ASSUME StoreTypeOK, LockInv, NEW p \in Procs, Inside(p),
         \A q \in Procs \ {p} : pc'[q] = pc[q],
         Inside(p)' => guard' = p /\ Sound(p)', rotten' = {}
  PROVE  LockInv'
<1>1. ASSUME NEW q \in Procs, q # p PROVE ~Inside(q)'
  <2>1. guard = p /\ ~Inside(q)
    BY <1>1 DEF LockInv
  <2> QED
    BY <1>1, <2>1 DEF Inside
<1> QED
  BY <1>1 DEF LockInv

\* The holder's own steps; place meets only intact objects.
LEMMA StepKeeps ==
  ASSUME StoreTypeOK, LockInv, NEW p \in Procs, Step(p)
  PROVE  LockInv'
<1>1. Inside(p)
  BY DEF Step, Inside, At, Inspect, Check, Evict, NextProvider, Stored, Store, Replace,
     Link, Publish, Cached, Load, Verify, Place
<1>2. Sound(p) /\ guard = p
  BY <1>1 DEF LockInv
<1>3. Inside(p)' => Sound(p)'
  BY <1>1, <1>2, InspectSound, CheckSound, EvictSound, NextProviderSound, StoredSound,
     StoreSound, ReplaceSound, LinkSound, PublishSound, CachedSound, LoadSound,
     VerifySound, PlaceSound DEF Step
<1>4. \A q \in Procs \ {p} : pc'[q] = pc[q]
  BY DEF Step, StoreTypeOK, Goto, Leave, Inspect, Check, Evict, NextProvider, Stored,
     Store, Replace, Quarantine, Link, Publish, Cached, Load, Verify, Place
<1>5. Inside(p)' => guard' = p
  <2>1. UNCHANGED guard \/ \E out \in {"none", "ok", "failed", "offline", "faulted", "crashed"} : Leave(p, out)
    BY DEF Step, Goto, Inspect, Check, Evict, NextProvider, Stored,
       Store, Replace, Quarantine, Link, Publish, Cached, Load, Verify, Place
  <2> QED
    BY <1>2, <2>1, LeaveOutside DEF StoreTypeOK, CallTypes
<1>6. rotten' = {}
  <2>1. CASE Place(p)
    BY <1>2, <2>1, StoreAssumption
       DEF LockInv, Place, At, Goto, Leave, Sound, PlacementSound, ObjectsOf, Ready, Complete,
           Installs, StoreTypeOK
  <2>2. CASE ~Place(p)
    BY <2>2 DEF LockInv, Step, Inspect, Check, Evict, NextProvider, Stored, Store, Replace,
       Link, Publish, Cached, Load, Verify
  <2> QED
    BY <2>1, <2>2
<1> QED
  BY <1>1, <1>3, <1>4, <1>5, <1>6, HolderKeeps

\* Without imports every call waits for the lock before it touches the store.
LEMMA LockInvariance ==
  ASSUME "import" \notin Kinds
  PROVE  Spec => [](StoreTypeOK /\ LockInv)
<1>1. Init => LockInv
  BY DEF Init, LockInv, Inside
<1>2. StoreTypeOK /\ LockInv /\ [Next]_vars => LockInv'
  <2> SUFFICES ASSUME StoreTypeOK, LockInv, [Next]_vars PROVE LockInv'
    OBVIOUS
  <2>1. ASSUME NEW p \in Procs, Begin(p) PROVE LockInv'
    <3>1. ~Inside(p)'
      BY <2>1 DEF Begin, Inside, StoreTypeOK
    <3>2. ASSUME NEW q \in Procs, q # p, Inside(q)' PROVE guard' = q /\ Sound(q)'
      <4>1. Inside(q) /\ guard' = guard
        BY <2>1, <3>2 DEF Begin, Inside, StoreTypeOK
      <4>2. Sound(q) /\ guard = q
        BY <4>1 DEF LockInv
      <4>3. /\ pc'[q] = pc[q] /\ kind'[q] = kind[q] /\ closure'[q] = closure[q]
            /\ batch'[q] = batch[q] /\ left'[q] = left[q]
            /\ UNCHANGED <<object, manifest, todo, broken, victim>>
        BY <2>1, <3>2 DEF Begin, Take, StoreTypeOK, store
      <4>4. Sound(q)'
        BY <4>2, <4>3 DEF Sound, SettledReady, BatchSound, PlacementSound, Settled, InWork,
           Owed, Storing, Installs, Ready, Complete, ObjectsOf
      <4> QED
        BY <4>1, <4>2, <4>4
    <3> QED
      BY <2>1, <3>1, <3>2 DEF LockInv, Begin
  <2>2. ASSUME NEW p \in Procs, Acquire(p) PROVE LockInv'
    <3>1. \A q \in Procs : ~Inside(q)
      BY <2>2, StoreAssumption DEF LockInv, Acquire
    <3>2. \A q \in Procs \ {p} : ~Inside(q)'
      BY <2>2, <3>1 DEF Acquire, Inside, StoreTypeOK
    <3>3. Sound(p)'
      <4>1. SettledReady(p)'
        BY <2>2 DEF Acquire, At, SettledReady, Settled, InWork, Owed, Storing, Installs,
           StoreTypeOK
      <4>2. BatchSound(p)'
        BY <2>2 DEF Acquire, At, BatchSound, Installs, StoreTypeOK
      <4>3. PlacementSound(p)'
        BY <2>2 DEF Acquire, At, PlacementSound, Installs, StoreTypeOK
      <4> QED
        BY <4>1, <4>2, <4>3 DEF Sound
    <3> QED
      BY <2>2, <3>2, <3>3 DEF LockInv, Acquire
  <2>3. ASSUME NEW p \in Procs, Step(p) PROVE LockInv'
    BY <2>3, StepKeeps
  <2>4. ASSUME NEW p \in Procs, IoError(p) \/ Crash(p) PROVE LockInv'
    <3>1. ~Inside(p)' /\ rotten' = rotten /\ store' = store
      BY <2>4, LeaveOutside DEF IoError, Crash, StoreTypeOK, CallTypes
    <3>2. ASSUME NEW q \in Procs, q # p, Inside(q)' PROVE guard' = q /\ Sound(q)'
      <4>1. Inside(q)
        BY <2>4, <3>2 DEF IoError, Crash, Leave, Inside, StoreTypeOK
      <4>2. Sound(q) /\ guard = q
        BY <4>1 DEF LockInv
      <4>3. /\ guard' = guard
            /\ pc'[q] = pc[q] /\ kind'[q] = kind[q] /\ closure'[q] = closure[q]
            /\ todo'[q] = todo[q] /\ broken'[q] = broken[q] /\ batch'[q] = batch[q]
            /\ left'[q] = left[q] /\ victim'[q] = victim[q]
            /\ UNCHANGED <<object, manifest>>
        BY <2>4, <3>1, <3>2, <4>2 DEF IoError, Crash, Leave, StoreTypeOK, store
      <4>4. Sound(q)'
        BY <4>2, <4>3 DEF Sound, SettledReady, BatchSound, PlacementSound, Settled, InWork,
           Owed, Storing, Installs, Ready, Complete, ObjectsOf
      <4> QED
        BY <4>2, <4>3, <4>4
    <3> QED
      BY <3>1, <3>2 DEF LockInv
  <2>5. CASE Damage
    BY <2>5 DEF Damage, LockInv, Inside, locals
  <2>6. CASE UNCHANGED vars
    BY <2>6 DEF vars, store, locals, LockInv, Inside, Sound, SettledReady, BatchSound,
       PlacementSound, Settled, InWork, Owed, Storing, Installs, Ready, Complete
  <2> QED
    BY <2>1, <2>2, <2>3, <2>4, <2>5, <2>6 DEF Next
<1> QED
  BY <1>1, <1>2, StoreTypes, PTL DEF Spec

\* What an installation found ready, or made so, stays ready until it has placed it,
\* whichever other calls are made and whatever is recovered in between.
THEOREM InspectedStaysReady ==
  ASSUME "import" \notin Kinds
  PROVE  Spec => []InspectionHolds
<1>1. LockInv => InspectionHolds
  BY DEF LockInv, InspectionHolds, Inside, Sound, PlacementSound, Installs
<1> QED
  BY <1>1, LockInvariance, PTL

\* No call that succeeds has placed corrupt bytes.
THEOREM OnlyIntactIsPlaced ==
  ASSUME "import" \notin Kinds
  PROVE  Spec => []InstalledIntact
<1>1. LockInv => InstalledIntact
  BY DEF LockInv, InstalledIntact
<1> QED
  BY <1>1, LockInvariance, PTL

\* A manifest appears only when every object it names is there and intact.
THEOREM ManifestsAreComplete ==
  ASSUME "import" \notin Kinds
  PROVE  Spec => PublishedComplete
<1>1. StoreTypeOK /\ LockInv /\ [Next]_vars
      => [\A pr \in Providers :
            manifest[pr] # "good" /\ manifest'[pr] = "good" => Complete(pr)']_vars
  <2> SUFFICES ASSUME StoreTypeOK, LockInv, Next, NEW pr \in Providers,
                      manifest[pr] # "good", manifest'[pr] = "good"
               PROVE  Complete(pr)'
    OBVIOUS
  <2>1. PICK p \in Procs : Publish(p)
    BY DEF Next, Step, StoreTypeOK, Begin, Acquire, Inspect, Check, Evict, Replace, Quarantine,
       NextProvider, Stored, Store, Link, Cached, Load, Verify, Place, IoError, Crash,
       Damage, store
  <2>2. Sound(p)
    BY <2>1 DEF Publish, At, LockInv, Inside
  <2>3. pr \in batch[p] /\ UNCHANGED object
    BY <2>1 DEF Publish, StoreTypeOK, store
  <2> QED
    BY <2>1, <2>2, <2>3, StoreAssumption
       DEF Publish, At, Sound, BatchSound, Complete, ObjectsOf
<1> QED
  BY <1>1, LockInvariance, PTL DEF Spec, PublishedComplete
-----------------------------------------------------------------------------
(* Installations repair the store.                                         *)

\* What the holder of the lock condemned is still there when it is moved away, the
\* name it links an object to is free.
Condemned(p) ==
    /\ pc[p] \in {"evict", "replace"} => \E o \in Objects : victim[p] = {o} /\ object[o] # "absent"
    /\ pc[p] = "link" => \E o \in Objects : victim[p] = {o} /\ object[o] # "bad"

\* An installation looks at nothing but its closure, and no bad manifest is in the way
\* of what it stores.
Unblocked(p) ==
    Installs(p) => /\ todo[p] \subseteq closure[p]
                   /\ \A pr \in broken[p] \union InWork(p) : manifest[pr] # "bad"

Repairing(p) == Condemned(p) /\ Unblocked(p)

RepairInv == \A p \in Procs : Inside(p) => Repairing(p)

\* A call that waits for the lock has found nothing broken yet.
Unmarked == \A p \in Procs : ~Inside(p) => broken[p] = {}

LEMMA NothingMarkedOutside == Spec => []Unmarked
<1>1. Init => Unmarked
  BY DEF Init, Unmarked
<1>2. StoreTypeOK /\ Unmarked /\ [Next]_vars => Unmarked'
  <2> SUFFICES ASSUME StoreTypeOK, Unmarked, [Next]_vars PROVE Unmarked'
    OBVIOUS
  <2> USE DEF StoreTypeOK, Unmarked, Inside
  <2>1. ASSUME NEW p \in Procs, NEW out, Leave(p, out) PROVE Unmarked'
    BY <2>1 DEF Leave
  <2>2. ASSUME NEW p \in Procs, Step(p) PROVE Unmarked'
    <3>1. \/ \E out : Leave(p, out)
          \/ /\ pc'[p] \notin {"idle", "wait"}
             /\ \A q \in Procs \ {p} : pc'[q] = pc[q] /\ broken'[q] = broken[q]
      <4> USE DEF At, Goto, Drop, Add, Work, store
      <4>1. CASE Inspect(p)  BY <4>1 DEF Inspect
      <4>2. CASE Check(p)  BY <4>2 DEF Check
      <4>3. CASE Evict(p)  BY <4>3 DEF Evict, Quarantine
      <4>4. CASE NextProvider(p)  BY <4>4 DEF NextProvider
      <4>5. CASE Stored(p)  BY <4>5 DEF Stored
      <4>6. CASE Store(p)  BY <4>6 DEF Store
      <4>7. CASE Replace(p)  BY <4>7 DEF Replace, Quarantine
      <4>8. CASE Link(p)  BY <4>8 DEF Link
      <4>9. CASE Publish(p)  BY <4>9 DEF Publish
      <4>10. CASE Cached(p)  BY <4>10 DEF Cached
      <4>11. CASE Load(p)  BY <4>11 DEF Load
      <4>12. CASE Verify(p)  BY <4>12 DEF Verify
      <4>13. CASE Place(p)  BY <4>13 DEF Place
      <4> QED
        BY <2>2, <4>1, <4>2, <4>3, <4>4, <4>5, <4>6, <4>7, <4>8, <4>9, <4>10, <4>11, <4>12,
           <4>13 DEF Step
    <3> QED
      BY <2>1, <3>1
  <2>3. ASSUME NEW p \in Procs, Begin(p) PROVE Unmarked'
    BY <2>3 DEF Begin, At
  <2>6. ASSUME NEW p \in Procs, Acquire(p) PROVE Unmarked'
    <3>1. pc'[p] \notin {"idle", "wait"}
      BY <2>6 DEF Acquire
    <3>2. \A q \in Procs \ {p} : pc'[q] = pc[q] /\ broken'[q] = broken[q]
      BY <2>6 DEF Acquire
    <3> QED
      BY <3>1, <3>2
  <2>4. ASSUME NEW p \in Procs, IoError(p) \/ Crash(p) PROVE Unmarked'
    BY <2>1, <2>4 DEF IoError, Crash
  <2>5. CASE Damage \/ UNCHANGED vars
    BY <2>5 DEF Damage, vars, locals
  <2> QED
    BY <2>2, <2>3, <2>4, <2>5, <2>6 DEF Next
<1> QED
  BY <1>1, <1>2, StoreTypes, PTL DEF Spec

LEMMA StepCondemns ==
  ASSUME StoreTypeOK, NEW p \in Procs, Inside(p), Sound(p), Repairing(p), Step(p), Inside(p)'
  PROVE  Condemned(p)'
<1> USE DEF StoreTypeOK, Repairing, Condemned, Unblocked, Inside, Storing, Installs, InWork, At,
        Goto, Leave, Take, Drop, Add, Work, store
<1>1. CASE Inspect(p)  BY <1>1 DEF Inspect
<1>2. CASE Check(p)  BY <1>2 DEF Check, Sound, BatchSound
<1>3. CASE Evict(p)  BY <1>3 DEF Evict, Quarantine
<1>4. CASE NextProvider(p)  BY <1>4 DEF NextProvider
<1>5. CASE Stored(p)  BY <1>5 DEF Stored
<1>6. CASE Store(p)  BY <1>6 DEF Store
<1>7. CASE Replace(p)  BY <1>7 DEF Replace, Quarantine
<1>8. CASE Link(p)  BY <1>8 DEF Link
<1>9. CASE Publish(p)  BY <1>9 DEF Publish
<1>10. CASE Cached(p)  BY <1>10 DEF Cached, Sound, BatchSound
<1>11. CASE Load(p)  BY <1>11 DEF Load
<1>12. CASE Verify(p)  BY <1>12 DEF Verify
<1>13. CASE Place(p)  BY <1>13 DEF Place
<1> QED
  BY <1>1, <1>2, <1>3, <1>4, <1>5, <1>6, <1>7, <1>8, <1>9, <1>10, <1>11, <1>12, <1>13 DEF Step

LEMMA StepUnblocks ==
  ASSUME StoreTypeOK, NEW p \in Procs, Inside(p), Sound(p), Repairing(p), Step(p), Inside(p)'
  PROVE  Unblocked(p)'
<1> USE DEF StoreTypeOK, Repairing, Condemned, Unblocked, Inside, Storing, Installs, InWork, At,
        Goto, Leave, Take, Drop, Add, Work, store
<1>1. CASE Inspect(p)
  <2>1. CASE todo[p] = {} /\ Goto(p, "next") /\ UNCHANGED <<store, Work>>
    BY <1>1, <2>1 DEF Inspect
  <2>2. ASSUME NEW pr \in todo[p],
               Take(p, {pr}), Goto(p, "check"),
               UNCHANGED <<store, todo, broken, evidence, victim>>
        PROVE  Unblocked(p)'
    BY <1>1, <2>2 DEF Inspect
  <2>3. ASSUME NEW pr \in todo[p], manifest'[pr] = "absent", Drop(todo, p, pr), Add(broken, p, pr),
               Goto(p, "inspect"), \A x \in Providers \ {pr} : manifest'[x] = manifest[x]
        PROVE  Unblocked(p)'
    <3>1. InWork(p) = {} /\ InWork(p)' = {}
      BY <1>1, <2>3 DEF Inspect
    <3>2. broken'[p] = broken[p] \union {pr} /\ todo'[p] = todo[p] \ {pr}
      BY <2>3
    <3>3. kind'[p] = kind[p] /\ closure'[p] = closure[p]
      BY <2>3
    <3> HIDE DEF InWork
    <3> QED
      BY <2>3, <3>1, <3>2, <3>3
  <2> QED
    BY <1>1, <2>1, <2>2, <2>3 DEF Inspect
<1>2. CASE Check(p)  BY <1>2 DEF Check, Sound, BatchSound
<1>3. CASE Evict(p)  BY <1>3 DEF Evict, Quarantine
<1>4. CASE NextProvider(p)  BY <1>4 DEF NextProvider
<1>5. CASE Stored(p)  BY <1>5 DEF Stored
<1>6. CASE Store(p)  BY <1>6 DEF Store
<1>7. CASE Replace(p)  BY <1>7 DEF Replace, Quarantine
<1>8. CASE Link(p)  BY <1>8 DEF Link
<1>9. CASE Publish(p)  BY <1>9 DEF Publish
<1>10. CASE Cached(p)  BY <1>10 DEF Cached, Sound, BatchSound
<1>11. CASE Load(p)
  <2> HIDE DEF Unblocked
  <2>1. kind'[p] = kind[p] /\ closure'[p] = closure[p]
    BY <1>11 DEF Load
  <2>3. todo'[p] \subseteq todo[p]
    <3>1. todo'[p] = todo[p] \/ \E pr \in todo[p] : todo'[p] = todo[p] \ {pr}
      BY <1>11 DEF Load
    <3> QED  BY <3>1
  <2>2. InWork(p)' = {} /\ broken'[p] = broken[p] /\ UNCHANGED manifest
    BY <1>11 DEF Load
  <2> QED
    BY <2>1, <2>2, <2>3 DEF Unblocked
<1>12. CASE Verify(p)  BY <1>12 DEF Verify
<1>13. CASE Place(p)  BY <1>13 DEF Place
<1> QED
  BY <1>1, <1>2, <1>3, <1>4, <1>5, <1>6, <1>7, <1>8, <1>9, <1>10, <1>11, <1>12, <1>13 DEF Step

\* A step that neither touches the store nor a call inside keeps what that call has.
LEMMA OthersRepair ==
  ASSUME RepairInv, NEW q \in Procs, Inside(q),
         pc'[q] = pc[q], kind'[q] = kind[q], batch'[q] = batch[q], broken'[q] = broken[q],
         victim'[q] = victim[q], todo'[q] = todo[q], closure'[q] = closure[q],
         UNCHANGED <<object, manifest>>
  PROVE  Repairing(q)'
BY DEF RepairInv, Repairing, Condemned, Unblocked, Installs, InWork, Storing

LEMMA RepairInvariance ==
  ASSUME "import" \notin Kinds
  PROVE  Spec => [](StoreTypeOK /\ LockInv /\ RepairInv)
<1>1. Init => RepairInv
  BY DEF Init, RepairInv, Inside
<1>2. StoreTypeOK /\ LockInv /\ Unmarked /\ RepairInv /\ [Next]_vars => RepairInv'
  <2> SUFFICES ASSUME StoreTypeOK, LockInv, Unmarked, RepairInv, [Next]_vars,
                      NEW q \in Procs, Inside(q)'
               PROVE  Repairing(q)'
    BY DEF RepairInv
  <2>1. ASSUME NEW p \in Procs, Begin(p) PROVE Repairing(q)'
    <3>1. q # p /\ Inside(q)
      BY <2>1 DEF Begin, Inside, StoreTypeOK
    <3> QED
      BY <2>1, <3>1, OthersRepair DEF Begin, Take, StoreTypeOK, store
  <2>2. ASSUME NEW p \in Procs, Acquire(p) PROVE Repairing(q)'
    <3>1. \A x \in Procs : ~Inside(x)
      BY <2>2, StoreAssumption DEF LockInv, Acquire
    <3>2. q = p
      BY <2>2, <3>1 DEF Acquire, Inside, StoreTypeOK
    <3>3. broken[p] = {}
      BY <2>2 DEF Acquire, At, Unmarked, Inside
    <3> QED
      BY <2>2, <3>2, <3>3
         DEF Acquire, At, Repairing, Condemned, Unblocked, Installs, InWork, Storing, StoreTypeOK
  <2>3. ASSUME NEW p \in Procs, Step(p) PROVE Repairing(q)'
    <3>1. Inside(p)
      BY <2>3 DEF Step, Inside, At, Inspect, Check, Evict, NextProvider, Stored, Store,
         Replace, Link, Publish, Cached, Load, Verify, Place
    <3>2. \A x \in Procs \ {p} : ~Inside(x)
      BY <3>1 DEF LockInv
    <3>3. \A x \in Procs \ {p} : pc'[x] = pc[x]
      BY <2>3 DEF Step, StoreTypeOK, Goto, Leave, Inspect, Check, Evict, NextProvider, Stored,
         Store, Replace, Quarantine, Link, Publish, Cached, Load, Verify, Place
    <3>4. q = p
      BY <3>2, <3>3 DEF Inside
    <3> QED
      BY <2>3, <3>1, <3>4, StepCondemns, StepUnblocks DEF LockInv, RepairInv, Repairing
  <2>4. ASSUME NEW p \in Procs, IoError(p) \/ Crash(p) PROVE Repairing(q)'
    <3>1. q # p /\ Inside(q)
      BY <2>4 DEF IoError, Crash, Leave, Inside, StoreTypeOK
    <3> QED
      BY <2>4, <3>1, OthersRepair DEF IoError, Crash, Leave, StoreTypeOK, store
  <2>5. CASE Damage
    BY <2>5 DEF Damage, Inside
  <2>6. CASE UNCHANGED vars
    BY <2>6, OthersRepair DEF vars, store, locals, Inside
  <2> QED
    BY <2>1, <2>2, <2>3, <2>4, <2>5, <2>6 DEF Next
<1> QED
  BY <1>1, <1>2, LockInvariance, NothingMarkedOutside, PTL DEF Spec

\* An online installation ends well unless something fails while it runs: whatever it
\* finds in the store, missing, corrupt or half recovered, it gets over.
Ended(p) == kind[p] = "install" /\ kind'[p] = "none"
NoInstallFails ==
    [][\A p \in Procs : Ended(p) => result'[p] = "ok" \/ IoError(p) \/ Crash(p)]_vars

LEMMA StepNeverFails ==
  ASSUME StoreTypeOK, NEW p \in Procs, Inside(p), Sound(p), Repairing(p), Step(p), Ended(p)
  PROVE  result'[p] = "ok"
<1> USE DEF StoreTypeOK, Inside, Ended, At, Goto, Leave
<1>1. CASE Inspect(p)  BY <1>1 DEF Inspect
<1>2. CASE Check(p)  BY <1>2 DEF Check
<1>3. CASE Evict(p)  BY <1>3 DEF Evict, Quarantine, Repairing, Condemned
<1>4. CASE NextProvider(p)  BY <1>4 DEF NextProvider
<1>5. CASE Stored(p)  BY <1>5 DEF Stored
<1>6. CASE Store(p)  BY <1>6 DEF Store
<1>7. CASE Replace(p)  BY <1>7 DEF Replace, Quarantine, Repairing, Condemned
<1>8. CASE Link(p)  BY <1>8 DEF Link, Repairing, Condemned
<1>9. CASE Publish(p)  BY <1>9 DEF Publish, Repairing, Unblocked, Installs, InWork
<1>10. CASE Cached(p)  BY <1>10 DEF Cached, Sound, BatchSound, Installs
<1>11. CASE Load(p)
  BY <1>11 DEF Load, Sound, PlacementSound, Installs, Ready, Repairing, Unblocked
<1>12. CASE Verify(p)  BY <1>12 DEF Verify, Sound, PlacementSound
<1>13. CASE Place(p)
  BY <1>13 DEF Place, Sound, PlacementSound, Installs, Ready, Complete, ObjectsOf
<1> QED
  BY <1>1, <1>2, <1>3, <1>4, <1>5, <1>6, <1>7, <1>8, <1>9, <1>10, <1>11, <1>12, <1>13 DEF Step

\* NoInstallFails of every store and every mix of locked calls.
THEOREM InstallationsGetOver ==
  ASSUME "import" \notin Kinds
  PROVE  Spec => NoInstallFails
<1>1. StoreTypeOK /\ LockInv /\ RepairInv /\ [Next]_vars
      => [\A p \in Procs : Ended(p) => result'[p] = "ok" \/ IoError(p) \/ Crash(p)]_vars
  <2> SUFFICES ASSUME StoreTypeOK, LockInv, RepairInv, Next, NEW p \in Procs, Ended(p)
               PROVE  result'[p] = "ok" \/ IoError(p) \/ Crash(p)
    OBVIOUS
  <2>1. CASE Step(p)
    <3>1. Inside(p)
      BY <2>1 DEF Step, Inside, At, Inspect, Check, Evict, NextProvider, Stored, Store,
         Replace, Link, Publish, Cached, Load, Verify, Place
    <3> QED
      BY <2>1, <3>1, StepNeverFails DEF LockInv, RepairInv
  <2>2. CASE IoError(p) \/ Crash(p)
    BY <2>2
  <2>3. CASE Begin(p)
    BY <2>3, StoreAssumption DEF Begin, Ended, StoreTypeOK
  <2>5. CASE Acquire(p) \/ Damage
    BY <2>5 DEF Acquire, Damage, Ended, locals
  <2>4. ASSUME NEW q \in Procs, q # p, Begin(q) \/ Acquire(q) \/ Step(q) \/ IoError(q) \/ Crash(q)
        PROVE  FALSE
    <3>1. kind'[p] = kind[p]
      BY <2>4 DEF Begin, Acquire, Step, IoError, Crash, StoreTypeOK, Goto, Leave, Inspect,
         Check, Evict, NextProvider, Stored, Store, Replace, Quarantine, Link, Publish,
         Cached, Load, Verify, Place
    <3> QED
      BY <3>1 DEF Ended
  <2> QED
    BY <2>1, <2>2, <2>3, <2>4, <2>5 DEF Next
<1> QED
  BY <1>1, RepairInvariance, PTL DEF Spec, NoInstallFails

\* Once nothing fails, exits or rots any more, every online installation succeeds.
THEOREM InstallationsRecover ==
  ASSUME "import" \notin Kinds
  PROVE  Spec => InstallsRecover
<1>1. /\ [~Disturbance]_vars
      /\ [\A p \in Procs : Ended(p) => result'[p] = "ok" \/ IoError(p) \/ Crash(p)]_vars
      => [\A p \in Procs : kind[p] = "install" /\ kind'[p] = "none" => result'[p] = "ok"]_vars
  BY DEF Disturbance, Ended
<1> QED
  BY <1>1, InstallationsGetOver, PTL DEF InstallsRecover, Calm, NoInstallFails
=================================================================================
