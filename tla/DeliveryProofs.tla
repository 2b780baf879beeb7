----------------------------- MODULE DeliveryProofs -----------------------------
(***************************************************************************)
(* A mirror's catalogs are complete, for any number of runs, snapshots,    *)
(* packages and files, whatever fails and whoever uses the store; and the  *)
(* safety of Mirror and PackageReader carries over to their composition: a *)
(* step of one is a step of its own or leaves it alone.                    *)
(***************************************************************************)
EXTENDS Delivery, TLAPS

Mirroring == {"next", "fill", "file"}

\* The file is there, or somebody harmed it.
Fine(o) == public[o] = "good" \/ o \in damaged

\* What a run may rely on.  Files it dealt with are fine, except the one it is still
\* copying; packages it is done with have their record, and all their files were
\* dealt with; the same goes for the current package, except what is left of it.
RunInv(r) ==
    /\ pc[r] \in {"idle", "wait"} => published[r] = {} /\ pending[r] = {}
    /\ \A x, y \in pending[r] : x = y
    /\ pc[r] \in Mirroring => lock = r /\ pending[r] = {}
    /\ lock = r => /\ pc[r] \in Mirroring \union {"copy"}
                   /\ \A o \in published[r] \ pending[r] : Fine(o)
                   /\ \A s \in snapshot[r] : \A k \in PackagesOf(s) :
                         \/ k \in todo[r]
                         \/ k \in records /\ Contents[k] \subseteq published[r]
    /\ lock = r /\ pc[r] \in {"file", "copy"}
       => \A k \in current[r] : Contents[k] \subseteq published[r] \union left[r]

MirrorInv == MirrorTypeOK /\ CatalogComplete /\ \A r \in Runs : RunInv(r)

LEMMA InitInv == Init => MirrorInv
<1> SUFFICES ASSUME Init PROVE MirrorInv
  OBVIOUS
<1>1. MirrorTypeOK
  BY DEF Init, MirrorTypeOK, States
<1>2. CatalogComplete
  BY DEF Init, CatalogComplete
<1>3. ASSUME NEW r \in Runs PROVE RunInv(r)
  BY MirrorAssumption DEF Init, RunInv, Mirroring
<1> QED
  BY <1>1, <1>2, <1>3 DEF MirrorInv

-----------------------------------------------------------------------------
(* What every step keeps.                                                  *)

\* Files stay fine: a step writes good ones only, or marks what it harms.
FineKept == \A o \in Objects : Fine(o) => Fine(o)'

\* The other runs are where they were, and hold the lock if they did.
OthersKept(r) ==
    \A q \in Runs \ {r} :
       /\ pc'[q] = pc[q] /\ snapshot'[q] = snapshot[q] /\ todo'[q] = todo[q]
       /\ current'[q] = current[q] /\ published'[q] = published[q]
       /\ left'[q] = left[q] /\ pending'[q] = pending[q]
       /\ lock' = q <=> lock = q

LEMMA OtherRuns ==
  ASSUME MirrorInv, NEW r \in Runs, NEW q \in Runs, q # r, OthersKept(r), FineKept,
         records \subseteq records'
  PROVE  RunInv(q)'
<1>1. RunInv(q) /\ published[q] \subseteq Objects
  BY DEF MirrorInv, MirrorTypeOK
<1>2. /\ pc'[q] = pc[q] /\ snapshot'[q] = snapshot[q] /\ todo'[q] = todo[q]
      /\ current'[q] = current[q] /\ published'[q] = published[q]
      /\ left'[q] = left[q] /\ pending'[q] = pending[q]
      /\ lock' = q <=> lock = q
  BY DEF OthersKept
<1>3. ASSUME lock = q, NEW o \in published[q] \ pending[q]
      PROVE  public'[o] = "good" \/ o \in damaged'
  <2>1. Fine(o)
    BY <1>1, <1>3 DEF RunInv
  <2> QED
    BY <1>1, <1>3, <2>1 DEF FineKept, Fine
<1>4. ASSUME lock = q, NEW s \in snapshot[q], NEW k \in PackagesOf(s)
      PROVE  \/ k \in todo[q]
             \/ k \in records' /\ Contents[k] \subseteq published[q]
  BY <1>1, <1>4 DEF RunInv
<1>5. /\ pc[q] \in {"idle", "wait"} => published[q] = {} /\ pending[q] = {}
      /\ \A x, y \in pending[q] : x = y
      /\ pc[q] \in Mirroring => lock = q /\ pending[q] = {}
      /\ lock = q => pc[q] \in Mirroring \union {"copy"}
      /\ lock = q /\ pc[q] \in {"file", "copy"}
         => \A k \in current[q] : Contents[k] \subseteq published[q] \union left[q]
  BY <1>1 DEF RunInv
<1> QED
  BY <1>2, <1>3, <1>4, <1>5 DEF RunInv, Fine

LEMMA CatalogsKept ==
  ASSUME CatalogComplete, FineKept, records \subseteq records', catalogs' = catalogs,
         MirrorTypeOK
  PROVE  CatalogComplete'
<1>1. ASSUME NEW s \in catalogs, NEW o \in FilesOf(s) PROVE Fine(o)'
  <2>1. o \in Objects
    BY MirrorAssumption DEF FilesOf, PackagesOf
  <2> QED
    BY <1>1, <2>1 DEF CatalogComplete, FineKept, Fine
<1>2. \A s \in catalogs : PackagesOf(s) \subseteq records'
  BY DEF CatalogComplete
<1> QED
  BY <1>1, <1>2 DEF CatalogComplete, Fine, FilesOf, PackagesOf

LEMMA StepInv ==
  ASSUME MirrorInv, NEW r \in Runs, MirrorTypeOK', RunInv(r)', OthersKept(r), FineKept,
         records \subseteq records', catalogs' = catalogs
  PROVE  MirrorInv'
  BY OtherRuns, CatalogsKept DEF MirrorInv

\* The end of a run, whatever it is, makes no promise.
LEMMA LeaveInv ==
  ASSUME MirrorInv, NEW r \in Runs, Leave(r), CatalogComplete', FineKept,
         UNCHANGED <<object, prepared, records>>, public' \in [Objects -> States],
         damaged' \subseteq Objects, catalogs' \subseteq Snapshots
  PROVE  MirrorInv'
<1>1. MirrorTypeOK'
  BY DEF MirrorInv, MirrorTypeOK, Leave, Set
<1>2. lock' # r /\ pc'[r] = "idle" /\ published'[r] = {} /\ pending'[r] = {}
  BY MirrorAssumption DEF MirrorInv, MirrorTypeOK, Leave, Set
<1>3. RunInv(r)'
  BY <1>2 DEF RunInv, Mirroring
<1>4. OthersKept(r)
  BY MirrorAssumption DEF OthersKept, MirrorInv, MirrorTypeOK, Leave, Set
<1> QED
  BY <1>1, <1>3, <1>4, OtherRuns DEF MirrorInv

-----------------------------------------------------------------------------
(* The steps of a run.                                                     *)

LEMMA BeginInv == ASSUME MirrorInv, NEW r \in Runs, Begin(r) PROVE MirrorInv'
<1>1. MirrorTypeOK'
  BY DEF MirrorInv, MirrorTypeOK, Begin, Set, store, output
<1>2. /\ pc[r] = "idle" /\ lock # r /\ lock' = lock /\ published'[r] = {}
  BY DEF MirrorInv, RunInv, Begin, Mirroring
<1>3. /\ \A x, y \in pending'[r] : x = y
      /\ \/ pc'[r] = "wait" /\ pending'[r] = {}
         \/ pc'[r] = "copy"
  BY DEF MirrorInv, MirrorTypeOK, RunInv, Begin, Set
<1>4. RunInv(r)'
  BY <1>2, <1>3 DEF RunInv, Mirroring
<1>5. OthersKept(r) /\ FineKept /\ records' = records /\ catalogs' = catalogs
  BY <1>2 DEF OthersKept, FineKept, Fine, MirrorInv, MirrorTypeOK, Begin, Set, output
<1> QED
  BY <1>1, <1>4, <1>5, StepInv

\* A run starts with all packages of its snapshot to do.
LEMMA AcquireInv ==
  ASSUME MirrorInv, NEW r \in Runs, Acquire(r) PROVE MirrorInv'
<1>1. MirrorTypeOK'
  BY DEF MirrorInv, MirrorTypeOK, Acquire, Set, store, output, PackagesOf
<1>2. /\ lock' = r /\ pc'[r] = "next" /\ published'[r] = {} /\ pending'[r] = {}
      /\ snapshot' = snapshot /\ todo'[r] = UNION {PackagesOf(s) : s \in snapshot[r]}
  BY DEF MirrorInv, MirrorTypeOK, RunInv, Acquire, Set
<1>3. RunInv(r)'
  BY <1>2 DEF RunInv, Mirroring, PackagesOf
<1>4. OthersKept(r) /\ FineKept /\ records' = records /\ catalogs' = catalogs
  BY MirrorAssumption DEF OthersKept, FineKept, Fine, MirrorInv, MirrorTypeOK, Acquire, Set, output
<1> QED
  BY <1>1, <1>3, <1>4, StepInv

\* A package taken from its record, or to be filled: what is left is what the run has
\* not dealt with.
LEMMA PrepareInv == ASSUME MirrorInv, NEW r \in Runs, Prepare(r) PROVE MirrorInv'
<1>1. PICK k \in todo[r] :
        /\ current' = [current EXCEPT ![r] = {k}]
        /\ \/ /\ left' = [left EXCEPT ![r] = Contents[k] \ published[r]]
              /\ pc' = [pc EXCEPT ![r] = "file"]
              /\ UNCHANGED guard
           \/ /\ guard' = r
              /\ left' = [left EXCEPT ![r] = Contents[k]]
              /\ pc' = [pc EXCEPT ![r] = "fill"]
  BY DEF Prepare, Set
<1>2. /\ pc[r] = "next" /\ todo[r] \subseteq Packages
      /\ UNCHANGED <<store, lock, output, snapshot, todo, published, pending>>
  BY DEF Prepare, MirrorInv, MirrorTypeOK
<1>3. k \in Packages /\ Contents[k] \subseteq Objects
  BY <1>1, <1>2, MirrorAssumption
<1>4. MirrorTypeOK'
  BY <1>1, <1>2, <1>3 DEF MirrorInv, MirrorTypeOK, store, output
<1>5. OthersKept(r) /\ FineKept /\ records' = records /\ catalogs' = catalogs
  BY <1>1, <1>2 DEF OthersKept, FineKept, Fine, MirrorInv, MirrorTypeOK, output
<1>6. RunInv(r)'
  <2>1. /\ current'[r] = {k}
        /\ \/ pc'[r] = "file" /\ left'[r] = Contents[k] \ published[r]
           \/ pc'[r] = "fill"
    BY <1>1 DEF MirrorInv, MirrorTypeOK
  <2>2. RunInv(r)
    BY DEF MirrorInv
  <2>3. /\ lock' = lock /\ public' = public /\ damaged' = damaged /\ records' = records
        /\ snapshot' = snapshot /\ todo' = todo /\ published' = published
        /\ pending' = pending
    BY <1>2 DEF output
  <2> QED
    BY <1>2, <2>1, <2>2, <2>3 DEF RunInv, Mirroring, Fine
<1> QED
  BY <1>4, <1>5, <1>6, StepInv

LEMMA FillInv == ASSUME MirrorInv, NEW r \in Runs, Fill(r) PROVE MirrorInv'
<1>1. MirrorTypeOK'
  BY DEF MirrorInv, MirrorTypeOK, Fill, Set, output, States
<1>2. OthersKept(r) /\ FineKept /\ records' = records /\ catalogs' = catalogs
  BY DEF OthersKept, FineKept, Fine, MirrorInv, MirrorTypeOK, Fill, Set, output
<1>3. RunInv(r)'
  <2>1. RunInv(r) /\ pc[r] = "fill"
    BY DEF MirrorInv, Fill
  <2>2. /\ pc' = pc /\ lock' = lock /\ public' = public /\ damaged' = damaged
        /\ records' = records /\ snapshot' = snapshot /\ todo' = todo
        /\ published' = published /\ pending' = pending
    BY DEF Fill, output
  <2> QED
    BY <2>1, <2>2 DEF RunInv, Mirroring, Fine
<1> QED
  BY <1>1, <1>2, <1>3, StepInv

\* The package in hand is filled; what is left of it is what the run has not dealt with.
LEMMA FilledInv == ASSUME MirrorInv, NEW r \in Runs, Filled(r) PROVE MirrorInv'
<1>0. (UNION {Contents[k] : k \in current[r]}) \ published[r] \subseteq Objects
  BY MirrorAssumption DEF MirrorInv, MirrorTypeOK
<1>1. MirrorTypeOK'
  BY <1>0, MirrorAssumption DEF MirrorInv, MirrorTypeOK, Filled, Set, output, States
<1>2. OthersKept(r) /\ FineKept /\ records' = records /\ catalogs' = catalogs
  BY DEF OthersKept, FineKept, Fine, MirrorInv, MirrorTypeOK, Filled, Set, output
<1>3. RunInv(r)'
  <2>1. RunInv(r) /\ pc[r] = "fill"
    BY DEF MirrorInv, Filled
  <2>2. /\ lock' = lock /\ public' = public /\ damaged' = damaged /\ current' = current
        /\ records' = records /\ snapshot' = snapshot /\ todo' = todo
        /\ published' = published /\ pending' = pending
    BY DEF Filled, output
  <2>3. /\ pc'[r] = "file"
        /\ left'[r] = (UNION {Contents[k] : k \in current[r]}) \ published[r]
    BY DEF Filled, Set, MirrorInv, MirrorTypeOK
  <2>4. \A k \in current[r] : Contents[k] \subseteq published[r] \union left'[r]
    BY <2>3
  <2> QED
    BY <2>1, <2>2, <2>3, <2>4 DEF RunInv, Mirroring, Fine
<1> QED
  BY <1>1, <1>2, <1>3, StepInv

\* The file is good, or it is what the run copies next.
LEMMA InspectInv == ASSUME MirrorInv, NEW r \in Runs, Inspect(r) PROVE MirrorInv'
<1>1. PICK o \in left[r] :
        /\ published' = [published EXCEPT ![r] = published[r] \union {o}]
        /\ left' = [left EXCEPT ![r] = left[r] \ {o}]
        /\ \/ /\ public[o] = "good"
              /\ damaged' = damaged \ {o}
              /\ UNCHANGED <<pc, pending>>
           \/ /\ public[o] # "good"
              /\ pending' = [pending EXCEPT ![r] = {o}]
              /\ pc' = [pc EXCEPT ![r] = "copy"]
              /\ UNCHANGED damaged
  BY DEF Inspect, Set
<1>2. /\ pc[r] = "file"
      /\ UNCHANGED <<store, guard, lock, public, records, catalogs, snapshot, todo, current>>
  BY DEF Inspect
<1>3. MirrorTypeOK'
  BY <1>1, <1>2 DEF MirrorInv, MirrorTypeOK, store
<1>4. OthersKept(r) /\ FineKept /\ records' = records /\ catalogs' = catalogs
  BY <1>1, <1>2 DEF OthersKept, FineKept, Fine, MirrorInv, MirrorTypeOK
<1>5. RunInv(r)'
  <2>1. RunInv(r)
    BY DEF MirrorInv
  <2>2. published'[r] = published[r] \union {o} /\ left'[r] = left[r] \ {o}
    BY <1>1 DEF MirrorInv, MirrorTypeOK
  <2>3. lock = r /\ lock' = r /\ pending[r] = {}
    BY <1>2, <2>1 DEF RunInv, Mirroring
  <2>4. \/ public[o] = "good" /\ pc'[r] = "file" /\ pending'[r] = {}
        \/ pc'[r] = "copy" /\ pending'[r] = {o}
    BY <1>1, <1>2, <2>3 DEF MirrorInv, MirrorTypeOK
  <2>5. ASSUME NEW x \in published'[r] \ pending'[r] PROVE Fine(x)'
    <3>1. CASE x \in published[r]
      <4>1. Fine(x) /\ x \in Objects
        BY <2>1, <2>3, <3>1 DEF RunInv, MirrorInv, MirrorTypeOK
      <4> QED
        BY <1>4, <4>1 DEF FineKept
    <3>2. CASE x = o
      BY <1>2, <2>4, <2>5, <3>2 DEF Fine
    <3> QED
      BY <2>2, <2>5, <3>1, <3>2
  <2>6. \A k \in current'[r] : Contents[k] \subseteq published'[r] \union left'[r]
    BY <1>2, <2>1, <2>2, <2>3 DEF RunInv
  <2>7. \A s \in snapshot'[r] : \A k \in PackagesOf(s) :
           \/ k \in todo'[r]
           \/ k \in records' /\ Contents[k] \subseteq published'[r]
    BY <1>2, <2>1, <2>2, <2>3 DEF RunInv
  <2> QED
    BY <2>3, <2>4, <2>5, <2>6, <2>7 DEF RunInv, Mirroring
<1> QED
  BY <1>3, <1>4, <1>5, StepInv

\* What was pending is fine now.
LEMMA CopyInv == ASSUME MirrorInv, NEW r \in Runs, Copy(r) PROVE MirrorInv'
<1>1. PICK o \in pending[r] : /\ public' = [public EXCEPT ![o] = "good"]
                             /\ damaged' = damaged \ {o}
  BY DEF Copy
<1>2. pc[r] = "copy" /\ UNCHANGED <<store, records, catalogs>>
  BY DEF Copy
<1>3. public' \in [Objects -> States] /\ damaged' \subseteq Objects
  BY <1>1 DEF MirrorInv, MirrorTypeOK, States
<1>4. FineKept
  BY <1>1 DEF FineKept, Fine, MirrorInv, MirrorTypeOK
<1>5. CASE Leave(r)
  <2>1. CatalogComplete'
    BY <1>2, <1>4, CatalogsKept DEF MirrorInv
  <2> QED
    BY <1>2, <1>3, <1>4, <1>5, <2>1, LeaveInv DEF MirrorInv, MirrorTypeOK, store
<1>6. CASE /\ lock = r
           /\ pending' = [pending EXCEPT ![r] = {}]
           /\ pc' = [pc EXCEPT ![r] = "file"]
           /\ UNCHANGED <<guard, lock, snapshot, todo, current, published, left>>
  <2>1. MirrorTypeOK'
    BY <1>2, <1>3, <1>6 DEF MirrorInv, MirrorTypeOK, store
  <2>2. OthersKept(r)
    BY <1>6 DEF OthersKept, MirrorInv, MirrorTypeOK
  <2>3. RunInv(r)'
    <3>1. RunInv(r)
      BY DEF MirrorInv
    <3>2. pc'[r] = "file" /\ pending'[r] = {}
      BY <1>6 DEF MirrorInv, MirrorTypeOK
    <3>3. ASSUME NEW x \in published[r] PROVE Fine(x)'
      <4>0. x \in Objects /\ \A y \in pending[r] : y \in Objects
        BY DEF MirrorInv, MirrorTypeOK
      <4>1. CASE x \in pending[r]
        <5>1. x = o
          BY <1>1, <4>1 DEF MirrorInv, RunInv
        <5> QED
          BY <1>1, <4>0, <5>1 DEF Fine, MirrorInv, MirrorTypeOK
      <4>2. CASE x \notin pending[r]
        <5>1. Fine(x)
          BY <1>6, <3>1, <4>2 DEF RunInv
        <5> QED
          BY <1>4, <4>0, <5>1 DEF FineKept
      <4> QED
        BY <4>1, <4>2
    <3>4. /\ published' = published /\ current' = current /\ left' = left /\ lock' = r
          /\ records' = records /\ snapshot' = snapshot /\ todo' = todo /\ lock = r
      BY <1>2, <1>6
    <3> QED
      BY <1>2, <3>1, <3>2, <3>3, <3>4 DEF RunInv, Mirroring
  <2> QED
    BY <1>2, <1>4, <2>1, <2>2, <2>3, StepInv
<1> QED
  BY <1>5, <1>6 DEF Copy, Set

\* The package's files are fine by now.
LEMMA RecordInv == ASSUME MirrorInv, NEW r \in Runs, Record(r) PROVE MirrorInv'
<1>1. MirrorTypeOK'
  BY DEF MirrorInv, MirrorTypeOK, Record, Set, store
<1>2. OthersKept(r) /\ FineKept /\ records \subseteq records' /\ catalogs' = catalogs
  BY DEF OthersKept, FineKept, Fine, MirrorInv, MirrorTypeOK, Record, Set
<1>3. RunInv(r)'
  <2>1. RunInv(r) /\ pc[r] = "file" /\ left[r] = {} /\ records' = records \union current[r]
    BY DEF MirrorInv, Record
  <2>2. /\ pc'[r] = "next" /\ current'[r] = {} /\ todo'[r] = todo[r] \ current[r]
    BY DEF Record, Set, MirrorInv, MirrorTypeOK
  <2>3. /\ lock' = lock /\ public' = public /\ damaged' = damaged /\ snapshot' = snapshot
        /\ published' = published /\ pending' = pending
    BY DEF Record
  <2>4. lock = r /\ \A k \in current[r] : Contents[k] \subseteq published[r]
    BY <2>1 DEF RunInv, Mirroring
  <2>5. ASSUME NEW s \in snapshot[r], NEW k \in PackagesOf(s)
        PROVE  \/ k \in todo'[r]
               \/ k \in records' /\ Contents[k] \subseteq published[r]
    BY <2>1, <2>2, <2>4, <2>5 DEF RunInv
  <2> QED
    BY <2>1, <2>2, <2>3, <2>4, <2>5 DEF RunInv, Mirroring, Fine
<1> QED
  BY <1>1, <1>2, <1>3, StepInv

\* With nothing left to do, the run's snapshot is complete.
LEMMA CatalogInv == ASSUME MirrorInv, NEW r \in Runs, Catalog(r) PROVE MirrorInv'
<1>1. /\ pc[r] = "next" /\ todo[r] = {} /\ catalogs' = catalogs \union snapshot[r]
      /\ Leave(r) /\ UNCHANGED <<store, public, records, damaged>>
  BY DEF Catalog
<1>2. RunInv(r) /\ CatalogComplete
  BY DEF MirrorInv
<1>3. ASSUME NEW s \in snapshot[r]
      PROVE  PackagesOf(s) \subseteq records /\ \A o \in FilesOf(s) : Fine(o)
  <2>1. \A k \in PackagesOf(s) : k \in records /\ Contents[k] \subseteq published[r]
    BY <1>1, <1>2 DEF RunInv, Mirroring
  <2>2. \A o \in published[r] : Fine(o)
    BY <1>1, <1>2 DEF RunInv, Mirroring
  <2> QED
    BY <2>1, <2>2 DEF FilesOf
<1>4. \A s \in catalogs : PackagesOf(s) \subseteq records /\ \A o \in FilesOf(s) : Fine(o)
  BY <1>2 DEF CatalogComplete, Fine
<1>5. CatalogComplete'
  BY <1>1, <1>3, <1>4 DEF CatalogComplete, Fine, FilesOf, PackagesOf
<1>6. FineKept /\ catalogs' \subseteq Snapshots
  BY <1>1 DEF FineKept, Fine, MirrorInv, MirrorTypeOK
<1> QED
  BY <1>1, <1>5, <1>6, LeaveInv DEF MirrorInv, MirrorTypeOK, store

LEMMA EndInv ==
  ASSUME MirrorInv, NEW r \in Runs, Reject(r) \/ Refuse(r) \/ Fail(r)
  PROVE  MirrorInv'
<1>1. Leave(r) /\ UNCHANGED <<store, output>>
  BY DEF Reject, Refuse, Fail
<1>2. FineKept
  BY <1>1 DEF FineKept, Fine, output
<1>3. CatalogComplete'
  BY <1>1, <1>2, CatalogsKept DEF MirrorInv, output
<1> QED
  BY <1>1, <1>2, <1>3, LeaveInv DEF MirrorInv, MirrorTypeOK, store, output

-----------------------------------------------------------------------------
(* The others.                                                             *)

LEMMA OthersInv == ASSUME MirrorInv, OthersStep \/ Rot \/ Damage PROVE MirrorInv'
<1>1. MirrorTypeOK'
  BY DEF MirrorInv, MirrorTypeOK, OthersStep, OthersEnter, OthersLeave, OthersStore, Rot,
         Damage, store, output, work, States
<1>2. FineKept /\ UNCHANGED <<records, catalogs, lock, pc, work>>
  BY DEF FineKept, Fine, MirrorInv, MirrorTypeOK, OthersStep, OthersEnter, OthersLeave,
         OthersStore, Rot, Damage, output
<1>3. ASSUME NEW r \in Runs PROVE RunInv(r)'
  <2>1. RunInv(r) /\ published[r] \subseteq Objects
    BY DEF MirrorInv, MirrorTypeOK
  <2>2. lock = r => \A o \in published[r] \ pending[r] :
                       public'[o] = "good" \/ o \in damaged'
    BY <1>2, <2>1 DEF RunInv, FineKept, Fine
  <2> QED
    BY <1>2, <2>1, <2>2 DEF RunInv, Fine, work
<1>4. CatalogComplete'
  BY <1>2, CatalogsKept DEF MirrorInv
<1> QED
  BY <1>1, <1>3, <1>4 DEF MirrorInv

LEMMA StutterInv == ASSUME MirrorInv, UNCHANGED mirrorVars PROVE MirrorInv'
<1>1. MirrorTypeOK'
  BY DEF MirrorInv, MirrorTypeOK, mirrorVars, store, output, work
<1>2. FineKept /\ UNCHANGED <<records, catalogs>>
  BY DEF FineKept, Fine, mirrorVars, output
<1>3. CatalogComplete'
  BY <1>2, CatalogsKept DEF MirrorInv
<1>4. \A r \in Runs : RunInv(r)'
  BY DEF MirrorInv, RunInv, Fine, mirrorVars, store, output, work
<1> QED
  BY <1>1, <1>3, <1>4 DEF MirrorInv

LEMMA NextInv == MirrorInv /\ [Next]_mirrorVars => MirrorInv'
<1> SUFFICES ASSUME MirrorInv, [Next]_mirrorVars PROVE MirrorInv'
  OBVIOUS
<1>1. ASSUME NEW r \in Runs,
             \/ Begin(r) \/ Acquire(r) \/ Prepare(r) \/ Reject(r) \/ Step(r) \/ Fail(r)
      PROVE  MirrorInv'
  BY <1>1, BeginInv, AcquireInv, PrepareInv, FillInv, FilledInv, InspectInv, CopyInv,
     RecordInv, CatalogInv, EndInv DEF Step
<1> QED
  BY <1>1, OthersInv, StutterInv DEF Next, Trouble

\* The invariant behind the theorems below.
THEOREM MirrorInvariant == Spec => []MirrorInv
<1> QED
  BY InitInv, NextInv, PTL DEF Spec

-----------------------------------------------------------------------------
(* The theorems.                                                           *)

\* Type correctness: public files are whole, good or rotten, and never partly written.
THEOREM MirrorTypes == Spec => []MirrorTypeOK
<1>1. MirrorInv => MirrorTypeOK
  BY DEF MirrorInv
<1> QED
  BY <1>1, MirrorInvariant, PTL

\* Whatever fails, exits, exports and mirrors at the same time, a catalog leads only
\* to records and files that are there.
THEOREM MirrorCatalogs == Spec => []CatalogComplete
<1>1. MirrorInv => CatalogComplete
  BY DEF MirrorInv
<1> QED
  BY <1>1, MirrorInvariant, PTL

-----------------------------------------------------------------------------
(* The composition with a browser.                                         *)

Reader == INSTANCE PackageReaderProofs WITH served <- public[Asset]

\* The reader of the composition and the one the proofs are about are the same.
LEMMA SameReader == [Browser!Next]_browserVars => [Reader!Next]_Reader!readerVars
<1>1. ASSUME NEW seq, NEW e PROVE Browser!RemoveFirst(seq, e) = Reader!RemoveFirst(seq, e)
  BY DEF Browser!RemoveFirst, Reader!RemoveFirst, Browser!RemoveAt, Reader!RemoveAt,
         Browser!SelectInSeq, Reader!SelectInSeq, Browser!Min, Reader!Min
<1> QED
  BY <1>1
     DEF browserVars,
         Browser!Request, Reader!Request, Browser!Grant, Reader!Grant, Browser!Hash,
         Reader!Hash, Browser!Fetch, Reader!Fetch, Browser!Body, Reader!Body, Browser!RemoveEntry,
         Reader!RemoveEntry, Browser!Open, Reader!Open, Browser!CloseReader, Reader!CloseReader,
         Browser!Swallow, Reader!Swallow, Browser!RemovalFault, Reader!RemovalFault,
         Browser!ReadFault, Reader!ReadFault, Browser!DownloadFault, Reader!DownloadFault,
         Browser!Refuse, Reader!Refuse, Browser!Abort, Reader!Abort, Browser!Kill, Reader!Kill,
         Browser!Spoil, Reader!Spoil, Browser!Goto, Reader!Goto, Browser!Leave, Reader!Leave,
         Browser!Step, Reader!Step, Browser!Trouble, Reader!Trouble, Browser!Next, Reader!Next,
         Browser!readerVars, Reader!readerVars

LEMMA StepsRefine ==
  [DeliveryNext]_deliveryVars => [Next]_mirrorVars /\ [Browser!Next]_browserVars
  BY DEF DeliveryNext, deliveryVars, browserVars

\* Catalogs stay complete while browsers read from the mirror.
THEOREM DeliveryCatalogs == DeliverySpec => []CatalogComplete
<1>1. DeliveryInit => MirrorInv
  BY InitInv DEF DeliveryInit
<1>2. MirrorInv /\ [DeliveryNext]_deliveryVars => MirrorInv'
  BY StepsRefine, NextInv
<1>3. MirrorInv => CatalogComplete
  BY DEF MirrorInv
<1> QED
  BY <1>1, <1>2, <1>3, PTL DEF DeliverySpec

LEMMA BrowserInvariant == DeliverySpec => []Reader!ReaderInv
<1>1. DeliveryInit => Reader!ReaderInv
  BY Reader!ReaderInit DEF DeliveryInit, Browser!Init, Reader!Init
<1>2. Reader!ReaderInv /\ [DeliveryNext]_deliveryVars => Reader!ReaderInv'
  BY StepsRefine, SameReader, Reader!ReaderNext, DeliveryAssumption
<1> QED
  BY <1>1, <1>2, PTL DEF DeliverySpec

\* Tabs read the bytes the digest names, whatever the mirror does to its output.
THEOREM DeliveryReaders == DeliverySpec => []ReadersVerified
<1>1. Reader!ReaderInv => ReadersVerified
  BY DEF Reader!ReaderInv, ReadersVerified, Browser!ReadersVerified, Reader!ReadersVerified
<1> QED
  BY <1>1, BrowserInvariant, PTL

\* Types of both parts; in particular the server has some file or none, and a tab that
\* waits for the Web Lock is queued for it once.
THEOREM DeliveryTypes == DeliverySpec => [](DeliveryTypeOK /\ Reader!QueueInv)
<1>1. DeliveryInit => MirrorInv /\ Reader!WellFormed
  BY InitInv, Reader!ReaderTypesInit DEF DeliveryInit, Browser!Init, Reader!Init
<1>2. MirrorInv => public[Asset] \in Reader!Files
  BY DeliveryAssumption DEF MirrorInv, MirrorTypeOK, States, Reader!Files
<1>3. MirrorInv /\ Reader!WellFormed /\ [DeliveryNext]_deliveryVars
      => MirrorInv' /\ Reader!WellFormed'
  BY <1>2, StepsRefine, NextInv, SameReader, Reader!ReaderTypesNext
<1>4. MirrorInv /\ Reader!WellFormed => DeliveryTypeOK /\ Reader!QueueInv
  BY DEF MirrorInv, DeliveryTypeOK, Reader!WellFormed, Browser!ReaderTypeOK,
         Reader!ReaderTypeOK
<1> QED
  BY <1>1, <1>3, <1>4, PTL DEF DeliverySpec

\* Of a failed download no empty or wrong entry remains that the storage was able to
\* remove, whatever other tabs and the mirror do in the meantime.
THEOREM DeliveryFailures == DeliverySpec => CleanFailure
<1>1. ASSUME Reader!ReaderInv, [DeliveryNext]_deliveryVars,
             NEW t \in Tabs, t \notin failed, t \in failed', at[t] # "swallow"
      PROVE  entry' \in {"absent", "good"}
  BY <1>1, StepsRefine, SameReader, Reader!FailureStep
<1>2. Reader!ReaderInv /\ [DeliveryNext]_deliveryVars
      => [\A t \in Tabs : t \notin failed /\ t \in failed' /\ at[t] # "swallow"
                          => entry' \in {"absent", "good"}]_Browser!readerVars
  BY <1>1
<1> QED
  BY <1>2, BrowserInvariant, PTL DEF DeliverySpec, CleanFailure, Browser!CleanFailure

-----------------------------------------------------------------------------
(* Delivery succeeds.  Only what is under way when the last trouble happens *)
(* can still fail, and at each of the two locks that is one run and one     *)
(* call.                                                                   *)

LEMMA Invariants ==
  DeliverySpec => [](MirrorInv /\ Reader!WellFormed /\ Reader!ReaderInv)
<1>1. DeliveryInit => MirrorInv /\ Reader!WellFormed
  BY InitInv, Reader!ReaderTypesInit DEF DeliveryInit, Browser!Init, Reader!Init
<1>2. MirrorInv => public[Asset] \in Reader!Files
  BY DeliveryAssumption DEF MirrorInv, MirrorTypeOK, States, Reader!Files
<1>3. MirrorInv /\ Reader!WellFormed /\ [DeliveryNext]_deliveryVars
      => MirrorInv' /\ Reader!WellFormed'
  BY <1>2, StepsRefine, NextInv, SameReader, Reader!ReaderTypesNext
<1> QED
  BY <1>1, <1>3, BrowserInvariant, PTL DEF DeliverySpec

\* The run that has the output's lock needs an object that the store does not have.
Starved(r) ==
    \/ pc[r] = "fill" /\ \E k \in current[r] : \E o \in Contents[k] \ left[r] : object[o] # "good"
    \/ pc[r] \in {"file", "copy"} /\ \E o \in left[r] \union pending[r] : object[o] # "good"
SomeStarved == \E r \in Runs : lock = r /\ Starved(r)

\* A run that gives the output's lock back has published its catalog.
RunsPublish == \A r \in Runs : lock = r /\ lock' # r => snapshot[r] \subseteq catalogs'

\* The steps of the run itself.
LEMMA OwnRunStep ==
  ASSUME MirrorInv, MirrorInv', Sound, NEW r \in Runs, lock = r,
         Prepare(r) \/ Reject(r) \/ Step(r)
  PROVE  /\ lock' = r /\ Starved(r)' => Starved(r)
         /\ lock' # r => snapshot[r] \subseteq catalogs' \/ Starved(r)
         /\ lock' \in {r, Nobody}
<1>1. /\ pc[r] \in Mirroring => pending[r] = {}
      /\ \A o \in Objects : object[o] \in {"absent", "good"}
      /\ todo[r] \subseteq Packages /\ left[r] \subseteq Objects /\ pending[r] \subseteq Objects
  BY DEF MirrorInv, MirrorTypeOK, RunInv, Sound, States
<1>2. /\ pc \in [Runs -> {"idle", "wait", "next", "fill", "file", "copy"}]
      /\ left \in [Runs -> SUBSET Objects] /\ pending \in [Runs -> SUBSET Objects]
      /\ current \in [Runs -> SUBSET Packages] /\ object \in [Objects -> States]
  BY DEF MirrorInv, MirrorTypeOK
<1>11. \A k \in Packages : Contents[k] \subseteq Objects
  BY MirrorAssumption
<1>3. CASE Prepare(r)
  <2>1. PICK k \in todo[r] :
           /\ Set(current, r, {k})
           /\ \/ /\ Reusable(k)
                 /\ Set(left, r, Contents[k] \ published[r])
                 /\ Set(pc, r, "file")
              \/ /\ Set(left, r, Contents[k])
                 /\ Set(pc, r, "fill")
    BY <1>3 DEF Prepare
  <2>2. object' = object /\ pending' = pending /\ lock' = lock /\ pending[r] = {}
    BY <1>1, <1>3 DEF Prepare, store, Mirroring
  <2>3. current'[r] = {k} /\ Contents[k] \subseteq Objects
    BY <1>1, <1>2, <1>11, <2>1 DEF Set
  <2>4. \/ Reusable(k) /\ left'[r] = Contents[k] \ published[r] /\ pc'[r] = "file"
        \/ left'[r] = Contents[k] /\ pc'[r] = "fill"
    BY <1>2, <2>1 DEF Set
  <2>5. CASE Reusable(k) /\ left'[r] = Contents[k] \ published[r] /\ pc'[r] = "file"
    BY <1>1, <2>2, <2>3, <2>5 DEF Reusable, Starved
  <2>6. CASE left'[r] = Contents[k] /\ pc'[r] = "fill"
    BY <2>2, <2>3, <2>6 DEF Starved
  <2> QED
    BY <2>4, <2>5, <2>6
<1>4. CASE Reject(r)
  BY <1>1, <1>4 DEF Reject, Sound
<1>5. CASE Fill(r)
  <2>1. PICK o \in left[r] : object' = [object EXCEPT ![o] = "good"] /\ Set(left, r, left[r] \ {o})
    BY <1>5 DEF Fill
  <2>2. current' = current /\ lock' = lock /\ pc' = pc /\ pc[r] = "fill"
    BY <1>5 DEF Fill
  <2>3. left'[r] = left[r] \ {o}
    BY <1>2, <2>1 DEF Set
  <2>4. \A x \in Objects : x = o \/ object[x] = "good" => object'[x] = "good"
    BY <1>2, <2>1
  <2>5. \A k \in current[r] : Contents[k] \subseteq Objects
    BY <1>2, <1>11
  <2> QED
    BY <2>2, <2>3, <2>4, <2>5 DEF Starved
<1>6. CASE Filled(r)
  <2>1. /\ object' = object /\ current' = current /\ pending' = pending /\ lock' = lock
        /\ pc[r] = "fill" /\ left[r] = {} /\ pending[r] = {}
        /\ Set(left, r, (UNION {Contents[k] : k \in current[r]}) \ published[r])
    BY <1>1, <1>6 DEF Filled, Mirroring
  <2>2. left'[r] = (UNION {Contents[k] : k \in current[r]}) \ published[r]
    BY <1>2, <2>1 DEF Set
  <2>3. ASSUME NEW o \in left'[r], object[o] # "good"
        PROVE  \E k \in current[r] : \E x \in Contents[k] \ left[r] : object[x] # "good"
    BY <2>1, <2>2, <2>3
  <2>4. pc'[r] # "fill"
    BY <1>2, <1>6 DEF Filled, Set
  <2> QED
    BY <2>1, <2>3, <2>4 DEF Starved
<1>7. CASE Inspect(r)
  <2>1. PICK o \in left[r] :
           /\ Set(left, r, left[r] \ {o})
           /\ \/ UNCHANGED <<pc, pending>>
              \/ Set(pending, r, {o}) /\ Set(pc, r, "copy")
    BY <1>7 DEF Inspect
  <2>2. object' = object /\ lock' = lock /\ pc[r] = "file"
    BY <1>7 DEF Inspect, store
  <2>3. /\ left'[r] \union pending'[r] \subseteq left[r] \union pending[r]
        /\ pc'[r] \in {"file", "copy"}
    BY <1>2, <2>1, <2>2 DEF Set
  <2> QED
    BY <2>2, <2>3 DEF Starved
<1>8. CASE Copy(r)
  <2>1. /\ object' = object /\ lock' = lock /\ left' = left /\ pc[r] = "copy"
        /\ Set(pending, r, {}) /\ Set(pc, r, "file")
    BY <1>8 DEF Copy, store
  <2>2. pending'[r] = {} /\ pc'[r] = "file"
    BY <1>2, <2>1 DEF Set
  <2> QED
    BY <2>1, <2>2 DEF Starved
<1>9. CASE Refuse(r)
  BY <1>1, <1>9 DEF Refuse, Leave, Starved
<1>10. CASE Record(r)
  <2>1. lock' = lock /\ pc'[r] = "next"
    BY <1>2, <1>10 DEF Record, Set
  <2> QED
    BY <2>1 DEF Starved
<1>12. CASE Catalog(r)
  BY <1>12, MirrorAssumption DEF Catalog, Leave
<1> QED
  BY <1>3, <1>4, <1>5, <1>6, <1>7, <1>8, <1>9, <1>10, <1>12 DEF Step

\* The steps of everybody else give the holder no trouble.
LEMMA OtherRunStep ==
  ASSUME MirrorInv, NEW r \in Runs, lock = r,
         \/ \E q \in Runs \ {r} : Begin(q) \/ Acquire(q) \/ Prepare(q) \/ Reject(q) \/ Step(q)
         \/ Begin(r) \/ Acquire(r) \/ OthersStep
  PROVE  lock' = r /\ (Starved(r)' => Starved(r))
<1>1. /\ pc[r] \notin {"idle", "wait"}
      /\ \A q \in Runs \ {r} : pc[q] \notin Mirroring
      /\ left[r] \subseteq Objects /\ pending[r] \subseteq Objects
      /\ object \in [Objects -> States]
  BY DEF MirrorInv, MirrorTypeOK, RunInv, Mirroring
<1>2. \A k \in current[r] : Contents[k] \subseteq Objects
  BY MirrorAssumption DEF MirrorInv, MirrorTypeOK
<1>3. lock \notin {Nobody}
  BY MirrorAssumption
<1>4. ~Begin(r) /\ ~Acquire(r)
  BY <1>1 DEF Begin, Acquire
<1>5. CASE OthersStep
  <2>1. /\ lock' = lock /\ pc' = pc /\ current' = current /\ left' = left /\ pending' = pending
        /\ \A o \in Objects : object[o] = "good" => object'[o] = "good"
    BY <1>1, <1>5 DEF OthersStep, OthersEnter, OthersLeave, OthersStore, store, work
  <2> QED
    BY <1>1, <1>2, <2>1 DEF Starved
<1>6. ASSUME NEW q \in Runs \ {r}, Begin(q) \/ Acquire(q) \/ Prepare(q) \/ Reject(q) \/ Step(q)
      PROVE  lock' = r /\ (Starved(r)' => Starved(r))
  <2>1. Begin(q) \/ Copy(q) \/ Refuse(q)
    BY <1>1, <1>3, <1>6
       DEF Acquire, Prepare, Reject, Step, Fill, Filled, Inspect, Record, Catalog, Mirroring
  <2>2. object' = object /\ lock' = lock
    BY <2>1 DEF Begin, Copy, Refuse, Leave, store
  <2>3. /\ pc'[r] = pc[r] /\ current'[r] = current[r] /\ left'[r] = left[r]
        /\ pending'[r] = pending[r]
    BY <2>1 DEF Begin, Copy, Refuse, Leave, Set, MirrorInv, MirrorTypeOK
  <2> QED
    BY <2>2, <2>3 DEF Starved
<1> QED
  BY <1>4, <1>5, <1>6

LEMMA CalmRuns ==
  ASSUME MirrorInv, MirrorInv', Sound, [Next]_mirrorVars, ~Trouble
  PROVE  /\ SomeStarved' => SomeStarved
         /\ RunsPublish \/ (SomeStarved /\ ~SomeStarved')
<1>1. CASE UNCHANGED mirrorVars
  BY <1>1 DEF mirrorVars, store, work, SomeStarved, Starved, RunsPublish
<1>2. CASE Next /\ \A r \in Runs : lock # r
  <2>1. ASSUME NEW r \in Runs, lock' = r  PROVE ~Starved(r)'
    <3>1. \A q \in Runs : pc[q] \notin Mirroring
      BY <1>2 DEF MirrorInv, RunInv
    <3>2. PICK q \in Runs : Acquire(q)
      BY <1>2, <2>1, <3>1
         DEF Next, Trouble, Begin, Prepare, Reject, Step, Fill, Filled, Inspect, Copy, Refuse,
             Record, Catalog, OthersStep, OthersEnter, OthersLeave, OthersStore, Mirroring, Leave
    <3>3. q = r /\ pc'[r] = "next"
      BY <2>1, <3>2 DEF Acquire, Set, MirrorInv, MirrorTypeOK
    <3> QED
      BY <3>3 DEF Starved
  <2> QED
    BY <1>2, <2>1 DEF SomeStarved, RunsPublish
<1>3. ASSUME Next, NEW r \in Runs, lock = r
      PROVE  /\ SomeStarved' => SomeStarved
             /\ RunsPublish \/ (SomeStarved /\ ~SomeStarved')
  <2>1. CASE Prepare(r) \/ Reject(r) \/ Step(r)
    <3>1. /\ lock' = r /\ Starved(r)' => Starved(r)
          /\ lock' # r => snapshot[r] \subseteq catalogs' \/ Starved(r)
          /\ lock' \in {r, Nobody}
      BY <1>3, <2>1, OwnRunStep
    <3> QED
      BY <1>3, <3>1, MirrorAssumption DEF SomeStarved, RunsPublish
  <2>2. CASE ~(Prepare(r) \/ Reject(r) \/ Step(r))
    <3>1. lock' = r /\ (Starved(r)' => Starved(r))
      BY <1>3, <2>2, OtherRunStep DEF Next
    <3> QED
      BY <1>3, <3>1 DEF SomeStarved, RunsPublish
  <2> QED
    BY <2>1, <2>2
<1> QED
  BY <1>1, <1>2, <1>3

-----------------------------------------------------------------------------
\* What an undamaged catalog lists stays listed, and is there.
LEMMA ListedStays ==
  ASSUME [Next]_mirrorVars, ~Trouble, Listed
  PROVE  Listed'
<1>1. damaged' \subseteq damaged /\ catalogs \subseteq catalogs'
  BY DEF Next, Begin, Acquire, Prepare, Reject, Step, Fill, Filled, Inspect, Copy, Refuse, Record,
     Catalog, OthersStep, OthersEnter, OthersLeave, OthersStore, mirrorVars, output
<1> QED
  BY <1>1 DEF Listed, FilesOf, PackagesOf

\* The call that has the Web Lock has not got the file, or cannot write it because a
\* tab reads the one that is there.
Barred(t) ==
    \/ at[t] \in {"remove", "swallow"}
    \/ at[t] = "body" /\ staged[t] # "good"
    \/ at[t] \in {"fetch", "body"} /\ handles # {}
SomeBarred == \E t \in Tabs : Barred(t)

\* A call for what an undamaged catalog lists ends with a reader.
TabsOpen == \A t \in Tabs : Listed /\ at[t] # "idle" /\ at'[t] = "idle" => at[t] = "reading"

LEMMA CalmTabs ==
  ASSUME MirrorInv, Reader!WellFormed, Reader!ReaderInv, Reader!ReaderInv', Listed,
         [Browser!Next]_browserVars, ~Browser!Trouble
  PROVE  /\ SomeBarred' => SomeBarred
         /\ TabsOpen \/ (SomeBarred /\ ~SomeBarred')
<1>1. public[Asset] = "good"
  BY DEF MirrorInv, CatalogComplete, Listed
<1>2. /\ staged \in [Tabs -> {"none", "good", "bad"}] /\ handles \subseteq Tabs
      /\ at \in [Tabs -> {"idle", "queued", "hash", "fetch", "body", "remove", "swallow", "open", "reading"}]
      /\ holder \in Tabs \union {NoTab}
  BY DEF Reader!WellFormed, Reader!ReaderTypeOK
<1>3. /\ \A t \in Tabs : at[t] \in {"hash", "fetch", "body", "remove", "swallow", "open"} => holder = t
      /\ \A t \in Tabs : at'[t] \in {"hash", "fetch", "body", "remove", "swallow", "open"} => holder' = t
      /\ handles # {} => entry = "good"
  BY DEF Reader!ReaderInv, Reader!Locked, Reader!ReadersVerified
<1>4. NoTab \notin Tabs
  BY DeliveryAssumption
<1>5. CASE UNCHANGED browserVars
  BY <1>5 DEF browserVars, SomeBarred, Barred, TabsOpen
<1>6. ASSUME NEW t \in Tabs, Browser!Request(t) \/ Browser!CloseReader(t)
      PROVE  (SomeBarred' => SomeBarred) /\ TabsOpen
  <2>1. /\ \A x \in Tabs \ {t} : at'[x] = at[x] /\ staged'[x] = staged[x]
        /\ at'[t] \in {"queued", "idle"} /\ handles' \subseteq handles
        /\ at[t] \in {"idle", "reading"}
    BY <1>2, <1>6 DEF Browser!Request, Browser!CloseReader, Browser!Leave
  <2> QED
    BY <2>1 DEF SomeBarred, Barred, TabsOpen
<1>7. ASSUME NEW t \in Tabs, Browser!Step(t)
      PROVE  /\ SomeBarred' => SomeBarred
             /\ TabsOpen \/ (SomeBarred /\ ~SomeBarred')
  <2>1. \A x \in Tabs \ {t} : at'[x] = at[x] /\ staged'[x] = staged[x]
    BY <1>2, <1>7
       DEF Browser!Step, Browser!Grant, Browser!Hash, Browser!Fetch, Browser!Body,
           Browser!RemoveEntry, Browser!Swallow, Browser!Open, Browser!Goto, Browser!Leave
  <2>2. \A x \in Tabs \ {t} : at[x] \notin {"hash", "fetch", "body", "remove", "swallow", "open"}
    BY <1>3, <1>4, <1>7
       DEF Browser!Step, Browser!Grant, Browser!Hash, Browser!Fetch, Browser!Body,
           Browser!RemoveEntry, Browser!Swallow, Browser!Open
  <2>3. Barred(t)' => Barred(t)
    BY <1>1, <1>2, <1>3, <1>7
       DEF Browser!Step, Browser!Grant, Browser!Hash, Browser!Fetch, Browser!Body,
           Browser!RemoveEntry, Browser!Swallow, Browser!Open, Browser!Goto, Browser!Leave, Barred
  <2>4. at'[t] = "idle" => at[t] \in {"remove", "swallow"}
    BY <1>2, <1>7
       DEF Browser!Step, Browser!Grant, Browser!Hash, Browser!Fetch, Browser!Body,
           Browser!RemoveEntry, Browser!Swallow, Browser!Open, Browser!Goto, Browser!Leave
  <2> QED
    BY <2>1, <2>2, <2>3, <2>4 DEF SomeBarred, Barred, TabsOpen
<1> QED
  BY <1>5, <1>6, <1>7 DEF Browser!Next

\* DeliverySucceeds, for any number of runs, packages, files and tabs, and whoever else
\* uses the store: it needs no fairness, since it speaks of the runs and calls that end.
THEOREM DeliveryRecovers == DeliverySpec => DeliverySucceeds
<1> DEFINE Inv == MirrorInv /\ Reader!WellFormed /\ Reader!ReaderInv
<1>1. /\ Inv /\ Inv' /\ Sound
      /\ [DeliveryNext]_deliveryVars /\ [~Trouble /\ ~Browser!Trouble]_deliveryVars
      => /\ SomeStarved' => SomeStarved
         /\ [RunsPublish]_deliveryVars \/ (SomeStarved /\ ~SomeStarved')
  <2>1. CASE UNCHANGED deliveryVars
    BY <2>1 DEF deliveryVars, mirrorVars, store, work, SomeStarved, Starved
  <2>2. CASE ~UNCHANGED deliveryVars
    BY <2>2, StepsRefine, CalmRuns
  <2> QED
    BY <2>1, <2>2
<1>2. /\ Inv /\ Inv'
      /\ [DeliveryNext]_deliveryVars /\ [~Trouble /\ ~Browser!Trouble]_deliveryVars
      => /\ Listed => Listed'
         /\ Listed /\ SomeBarred' => SomeBarred
         /\ [TabsOpen]_deliveryVars \/ (SomeBarred /\ ~SomeBarred')
  <2>1. CASE UNCHANGED deliveryVars
    BY <2>1 DEF deliveryVars, browserVars, mirrorVars, output, SomeBarred, Barred, Listed
  <2>2. CASE ~UNCHANGED deliveryVars
    <3>1. CASE Listed
      BY <2>2, <3>1, StepsRefine, ListedStays, CalmTabs
    <3>2. CASE ~Listed
      BY <3>2 DEF TabsOpen
    <3> QED
      BY <3>1, <3>2
  <2> QED
    BY <2>1, <2>2
<1>3. [RunsPublish]_deliveryVars /\ [TabsOpen]_deliveryVars
      => [/\ \A r \in Runs : lock = r /\ lock' # r => snapshot[r] \subseteq catalogs'
          /\ \A t \in Tabs : Listed /\ at[t] # "idle" /\ at'[t] = "idle"
                             => at[t] = "reading"]_deliveryVars
  BY DEF RunsPublish, TabsOpen
<1>4. DeliverySpec => []Inv
  BY Invariants
<1>5. ~Listed => [TabsOpen]_deliveryVars
  BY DEF TabsOpen
<1> HIDE DEF Inv
<1> QED
  BY <1>1, <1>2, <1>3, <1>4, <1>5, PTL DEF DeliverySpec, DeliverySucceeds, Calm
=================================================================================
