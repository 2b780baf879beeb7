--------------------------------- MODULE Mirror ---------------------------------
(***************************************************************************)
(* Publishing packages for a web server: src/store/mirror.rs, with         *)
(* src/store/package.rs, src/store/file_export.rs and src/temporary.rs.    *)
(*                                                                         *)
(* A mirror run takes the output's lock, prepares every package of one     *)
(* registry snapshot in the private store, one after the other under the   *)
(* store's lock, and publishes its objects, its record and at last the     *)
(* snapshot's catalog, each by a rename.  Exports publish single objects   *)
(* into the same directory without a lock.  Other processes use the store  *)
(* at the same time, objects of the store and public files may rot, and    *)
(* every run may fail or exit between any two steps.                       *)
(*                                                                         *)
(* Sources are remote and checksummed, as the command line demands, so a   *)
(* package has the same files whenever it is prepared.                     *)
(***************************************************************************)
CONSTANTS Runs,        \* processes that mirror or export
          Snapshots,   \* registry metadata digests
          Packages,    \* providers, each of one snapshot
          Objects,     \* file contents
          SnapshotOf, Contents,  \* of each package
          Others,      \* other users of the store, as owner of its lock
          Nobody       \* the owner of a free lock

ASSUME MirrorAssumption ==
    /\ SnapshotOf \in [Packages -> Snapshots]
    /\ Contents \in [Packages -> SUBSET Objects]
    /\ Others \notin Runs
    /\ Nobody \notin Runs \union {Others}

VARIABLES
    object,     \* the store's <digest> files
    prepared,   \* the prepared/<key>.json record of each package
    guard,      \* owner of .pqty-store.lock
    lock,       \* owner of .pqty-mirror.lock
    public,     \* the public/<digest> files
    records,    \* packages with a providers/<snapshot>/<provider>.json file
    catalogs,   \* snapshots with a catalogs/<snapshot>.json file
    damaged,    \* public files harmed since a run last verified or wrote them
    pc,
    snapshot,   \* what the run mirrors
    todo,       \* its packages not yet recorded
    current,    \* the package being prepared or published
    published,  \* digests the run has dealt with
    left,       \* objects of current still to store or to publish
    pending     \* the object in the run's temporary file

output == <<public, records, catalogs, damaged>>
store == <<object, prepared>>
work == <<snapshot, todo, current, published, left, pending>>
mirrorVars == <<store, guard, lock, output, pc, work>>

States == {"absent", "good", "bad"}
PackagesOf(s) == {k \in Packages : SnapshotOf[k] = s}
FilesOf(s) == UNION {Contents[k] : k \in PackagesOf(s)}

MirrorTypeOK ==
    /\ object \in [Objects -> States]
    /\ prepared \in [Packages -> States]
    /\ guard \in Runs \union {Others, Nobody}
    /\ lock \in Runs \union {Nobody}
    /\ public \in [Objects -> States]
    /\ records \subseteq Packages
    /\ catalogs \subseteq Snapshots
    /\ damaged \subseteq Objects
    /\ pc \in [Runs -> {"idle", "wait", "next", "fill", "file", "copy"}]
    /\ snapshot \in [Runs -> SUBSET Snapshots]
    /\ todo \in [Runs -> SUBSET Packages]
    /\ current \in [Runs -> SUBSET Packages]
    /\ published \in [Runs -> SUBSET Objects]
    /\ left \in [Runs -> SUBSET Objects]
    /\ pending \in [Runs -> SUBSET Objects]

Init ==
    /\ object = [o \in Objects |-> "absent"]
    /\ prepared \in [Packages -> {"absent", "bad"}]
    /\ guard = Nobody
    /\ lock = Nobody
    /\ public = [o \in Objects |-> "absent"]
    /\ records = {}
    /\ catalogs = {}
    /\ damaged = {}
    /\ pc = [r \in Runs |-> "idle"]
    /\ snapshot = [r \in Runs |-> {}]
    /\ todo = [r \in Runs |-> {}]
    /\ current = [r \in Runs |-> {}]
    /\ published = [r \in Runs |-> {}]
    /\ left = [r \in Runs |-> {}]
    /\ pending = [r \in Runs |-> {}]

-----------------------------------------------------------------------------
Set(f, r, value) == f' = [f EXCEPT ![r] = value]

\* Every way out of a run drops its locks, its temporary file and its variables.
Leave(r) ==
    /\ Set(pc, r, "idle")
    /\ guard' = IF guard = r THEN Nobody ELSE guard
    /\ lock' = IF lock = r THEN Nobody ELSE lock
    /\ Set(snapshot, r, {}) /\ Set(todo, r, {}) /\ Set(current, r, {})
    /\ Set(published, r, {}) /\ Set(left, r, {}) /\ Set(pending, r, {})

\* A mirror run, or the export of one file of a prepared manifest.
Begin(r) ==
    /\ pc[r] = "idle"
    /\ \/ /\ \E s \in Snapshots : Set(snapshot, r, {s})
          /\ Set(pc, r, "wait")
          /\ UNCHANGED pending
       \/ /\ \E o \in Objects : Set(pending, r, {o})
          /\ Set(pc, r, "copy")
          /\ UNCHANGED snapshot
    /\ UNCHANGED <<store, guard, lock, output, todo, current, published, left>>

\* FileGuard::acquire sleeps until the output's lock is free.
Acquire(r) ==
    /\ pc[r] = "wait"
    /\ lock = Nobody
    /\ lock' = r
    /\ Set(todo, r, UNION {PackagesOf(s) : s \in snapshot[r]})
    /\ Set(pc, r, "next")
    /\ UNCHANGED <<store, guard, output, snapshot, current, published, left, pending>>

-----------------------------------------------------------------------------
(* prepare_package, under the lock of the store.                           *)

\* PackageManifest::validate and validate_against: the record's identities, order,
\* sizes and hashes fit together, and it is the registry's package with all its files.
Valid(k) == prepared[k] = "good"

\* read_cached returns nothing only where there is no record; any other must pass.
Unusable(k) == prepared[k] # "absent" /\ ~Valid(k)

\* A valid record is taken if all objects it names exist; their bytes are not read.
Reusable(k) == Valid(k) /\ \A o \in Contents[k] : object[o] # "absent"

MutPrepareRecord(r) ==
    /\ pc[r] = "next"
    /\ guard = Nobody
    /\ \E k \in todo[r] :
         /\ Set(current, r, {k})
         /\ ~Unusable(k)
         /\ \/ /\ prepared[k] = "good"
               /\ Set(left, r, Contents[k] \ published[r])
               /\ Set(pc, r, "file")
               /\ UNCHANGED guard
            \/ /\ prepared[k] = "absent"
               /\ guard' = r
               /\ Set(left, r, Contents[k])
               /\ Set(pc, r, "fill")
    /\ UNCHANGED <<store, lock, output, snapshot, todo, published, pending>>

\* Once the lock of the store is free, the next package is found prepared, or is
\* materialized.
Prepare(r) ==
    /\ pc[r] = "next"
    /\ guard = Nobody
    /\ \E k \in todo[r] :
         /\ Set(current, r, {k})
         /\ ~Unusable(k)
         /\ \/ /\ Reusable(k)
               /\ Set(left, r, Contents[k] \ published[r])
               /\ Set(pc, r, "file")
               /\ UNCHANGED guard
            \/ /\ ~Reusable(k)
               /\ guard' = r
               /\ Set(left, r, Contents[k])
               /\ Set(pc, r, "fill")
    /\ UNCHANGED <<store, lock, output, snapshot, todo, published, pending>>

\* A record that is there but no good ends every run that comes to it.
Reject(r) ==
    /\ pc[r] = "next"
    /\ guard = Nobody
    /\ \E k \in todo[r] : Unusable(k)
    /\ Leave(r)
    /\ UNCHANGED <<store, output>>

\* materialize_provider stores the files of the container one by one, and replaces
\* corrupt ones; then the record is written.
Fill(r) ==
    /\ pc[r] = "fill"
    /\ \E o \in left[r] :
         /\ object' = [object EXCEPT ![o] = "good"]
         /\ Set(left, r, left[r] \ {o})
    /\ UNCHANGED <<prepared, guard, lock, output, pc, snapshot, todo, current,
                   published, pending>>

Filled(r) ==
    /\ pc[r] = "fill"
    /\ left[r] = {}
    /\ prepared' = [k \in Packages |-> IF k \in current[r] THEN "good" ELSE prepared[k]]
    /\ guard' = Nobody
    /\ Set(left, r, (UNION {Contents[k] : k \in current[r]}) \ published[r])
    /\ Set(pc, r, "file")
    /\ UNCHANGED <<object, lock, output, snapshot, todo, current, published, pending>>

-----------------------------------------------------------------------------
(* Publication, without the lock of the store.                             *)

MutInspectPresence(r) ==
    /\ pc[r] = "file"
    /\ \E o \in left[r] :
         /\ Set(published, r, published[r] \union {o})
         /\ Set(left, r, left[r] \ {o})
         /\ \/ /\ public[o] # "absent"
               /\ damaged' = damaged \ {o}
               /\ UNCHANGED <<pc, pending>>
            \/ /\ public[o] = "absent"
               /\ Set(pending, r, {o})
               /\ Set(pc, r, "copy")
               /\ UNCHANGED damaged
    /\ UNCHANGED <<store, guard, lock, public, records, catalogs, snapshot, todo, current>>

\* A public file with the right bytes is kept; any other is written again.
Inspect(r) ==
    /\ pc[r] = "file"
    /\ \E o \in left[r] :
         /\ Set(published, r, published[r] \union {o})
         /\ Set(left, r, left[r] \ {o})
         /\ \/ /\ public[o] = "good"
               /\ damaged' = damaged \ {o}
               /\ UNCHANGED <<pc, pending>>
            \/ /\ public[o] # "good"
               /\ Set(pending, r, {o})
               /\ Set(pc, r, "copy")
               /\ UNCHANGED damaged
    /\ UNCHANGED <<store, guard, lock, public, records, catalogs, snapshot, todo, current>>

MutCopyInPlace(r) ==
    /\ pc[r] = "copy"
    /\ \E o \in pending[r] :
         /\ object[o] = "good"
         /\ public' = [public EXCEPT ![o] = "partial"]
         /\ damaged' = damaged \ {o}
    /\ \/ /\ lock = r
          /\ Set(pending, r, {})
          /\ Set(pc, r, "file")
          /\ UNCHANGED <<guard, lock, snapshot, todo, current, published, left>>
       \/ lock # r /\ Leave(r)
    /\ UNCHANGED <<store, records, catalogs>>

\* copy_object hashes what it copies from the store into a private temporary file,
\* which publish_file renames over the public one.  An export ends with that.
Copy(r) ==
    /\ pc[r] = "copy"
    /\ \E o \in pending[r] :
         /\ object[o] = "good"
         /\ public' = [public EXCEPT ![o] = "good"]
         /\ damaged' = damaged \ {o}
    /\ \/ /\ lock = r
          /\ Set(pending, r, {})
          /\ Set(pc, r, "file")
          /\ UNCHANGED <<guard, lock, snapshot, todo, current, published, left>>
       \/ lock # r /\ Leave(r)
    /\ UNCHANGED <<store, records, catalogs>>

\* The object is not there, or not what its name says.
Refuse(r) ==
    /\ pc[r] = "copy"
    /\ \E o \in pending[r] : object[o] # "good"
    /\ Leave(r)
    /\ UNCHANGED <<store, output>>

\* The package's record follows its objects.
Record(r) ==
    /\ pc[r] = "file"
    /\ left[r] = {}
    /\ records' = records \union current[r]
    /\ Set(todo, r, todo[r] \ current[r])
    /\ Set(current, r, {})
    /\ Set(pc, r, "next")
    /\ UNCHANGED <<store, guard, lock, public, catalogs, damaged, snapshot, published,
                   left, pending>>

\* The catalog follows all packages, and ends the run.
Catalog(r) ==
    /\ pc[r] = "next"
    /\ todo[r] = {}
    /\ catalogs' = catalogs \union snapshot[r]
    /\ Leave(r)
    /\ UNCHANGED <<store, public, records, damaged>>

-----------------------------------------------------------------------------
(* What may go wrong, and the other users of the store.                    *)

\* A system call, the network, an archive or a record fails; a bad temporary file
\* is never renamed.  Or the process exits, and the kernel frees its locks.  (Where
\* Refuse or Reject end the run, they do.)
Fail(r) ==
    /\ pc[r] # "idle"
    /\ \A o \in pending[r] : object[o] = "good"
    /\ pc[r] = "next" => \A k \in todo[r] : ~Unusable(k)
    /\ Leave(r)
    /\ UNCHANGED <<store, output>>

\* Disks rot, and an import or an inspection moves an object to the quarantine.
Rot ==
    /\ \E o \in Objects, rotten \in {"absent", "bad"} :
         /\ object[o] # "absent"
         /\ object' = [object EXCEPT ![o] = rotten]
    /\ UNCHANGED <<prepared, guard, lock, output, pc, work>>

\* Somebody harms a public file.
Damage ==
    /\ \E o \in Objects :
         /\ public[o] = "good"
         /\ public' = [public EXCEPT ![o] = "bad"]
         /\ damaged' = damaged \union {o}
    /\ UNCHANGED <<store, guard, lock, records, catalogs, pc, work>>

\* Others take the lock of the store; it matters to a run that wants it next.
OthersEnter ==
    /\ guard = Nobody
    /\ \E r \in Runs : pc[r] = "next"
    /\ guard' = Others
    /\ UNCHANGED <<store, lock, output, pc, work>>

OthersLeave ==
    /\ guard = Others
    /\ guard' = Nobody
    /\ UNCHANGED <<store, lock, output, pc, work>>

\* Installations, hydrations and imports store objects.
OthersStore ==
    /\ \E o \in Objects :
         /\ object[o] # "good"
         /\ object' = [object EXCEPT ![o] = "good"]
    /\ UNCHANGED <<prepared, guard, lock, output, pc, work>>

Step(r) ==
    \/ Fill(r) \/ Filled(r) \/ Inspect(r) \/ Copy(r) \/ Refuse(r) \/ Record(r)
    \/ Catalog(r)
OthersStep == OthersEnter \/ OthersLeave \/ OthersStore
Trouble == Rot \/ Damage \/ \E r \in Runs : Fail(r)

Next ==
    \/ \E r \in Runs : Begin(r) \/ Acquire(r) \/ Prepare(r) \/ Reject(r) \/ Step(r)
    \/ OthersStep
    \/ Trouble

\* A run goes on; the kernel wakes those who wait for a lock; the others' calls end.
Fairness ==
    /\ \A r \in Runs : WF_mirrorVars(Step(r)) /\ SF_mirrorVars(Acquire(r)) /\ SF_mirrorVars(Prepare(r) \/ Reject(r))
    /\ WF_mirrorVars(OthersLeave)
Spec == Init /\ [][Next]_mirrorVars /\ Fairness

-----------------------------------------------------------------------------
(* Properties.                                                             *)

\* package-serving.md: "Only after every provider and public object has been verified
\* does pqty atomically publish" the catalog.  In every order of failures, exits,
\* exports and other runs, a catalog leads only to records and files that are there,
\* except files somebody harmed after a run last saw to them.
CatalogComplete ==
    \A s \in catalogs :
       /\ PackagesOf(s) \subseteq records
       /\ \A o \in FilesOf(s) : public[o] = "good" \/ o \in damaged
=================================================================================
