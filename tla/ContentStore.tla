------------------------------ MODULE ContentStore ------------------------------
(***************************************************************************)
(* The shared content-addressed store: src/store/object.rs and the calls   *)
(* that change it, in src/store/install.rs, hydrate.rs, package.rs and     *)
(* bundle.rs.                                                              *)
(*                                                                         *)
(* An object is a file named by the digest of its bytes, a manifest is a   *)
(* file named by the digest of a provider's path/object table.  Either is  *)
(* absent, good (its content hashes to its name) or bad.  Publication is a *)
(* hard link that fails if the name is taken; corrupt entries are renamed  *)
(* into a quarantine.  Installation, hydration, preparation and            *)
(* materialization hold the store's OS lock throughout, importing a bundle *)
(* takes no lock at all.  Every digest check, rename and link is a step.   *)
(***************************************************************************)
EXTENDS FiniteSets

CONSTANTS Procs,      \* processes that share the store
          Providers,  \* exact provider contents, each with its manifest
          Objects,    \* file contents
          Contents,   \* the objects of each provider
          Kinds,      \* the calls the processes make
          Nobody      \* the owner of the free store lock

ASSUME StoreAssumption ==
    /\ Contents \in [Providers -> SUBSET Objects]
    /\ Kinds \subseteq {"install", "offline", "materialize", "hydrate", "prepare", "import"}
    /\ Nobody \notin Procs

VARIABLES
    object,    \* <digest> files
    manifest,  \* manifests/<digest>.json files
    prepared,  \* providers with a prepared/<key>.json record
    guard,     \* holder of .pqty-store.lock
    pc, kind, result,
    closure,   \* the providers the call is about
    todo,      \* those still to inspect or to load
    broken,    \* those found missing or corrupt, or still to store
    evidence,  \* those found corrupt
    batch,     \* the providers whose objects are being checked or stored
    left,      \* the objects of batch not dealt with yet
    victim,    \* the entry a check condemned or found missing
    rotten     \* calls that placed corrupt bytes into a tree

store == <<object, manifest, prepared>>
locals == <<kind, closure, todo, broken, evidence, batch, left, victim, rotten>>
vars == <<store, guard, pc, result, locals>>

States == {"absent", "good", "bad"}
ObjectsOf(P) == {o \in Objects : \E pr \in P : o \in Contents[pr]}
Complete(pr) == \A o \in Contents[pr] : object[o] = "good"
Ready(pr) == manifest[pr] = "good" /\ Complete(pr)

Steps == {"idle", "wait", "inspect", "check", "evict", "next", "store", "replace",
          "link", "publish", "cached", "load", "verify", "place"}

StoreTypeOK ==
    /\ object \in [Objects -> States]
    /\ manifest \in [Providers -> States]
    /\ prepared \subseteq Providers
    /\ guard \in Procs \union {Nobody}
    /\ pc \in [Procs -> Steps]
    /\ kind \in [Procs -> Kinds \union {"none"}]
    /\ result \in [Procs -> {"none", "ok", "failed", "offline", "faulted", "crashed"}]
    /\ closure \in [Procs -> SUBSET Providers]
    /\ todo \in [Procs -> SUBSET Providers]
    /\ broken \in [Procs -> SUBSET Providers]
    /\ evidence \in [Procs -> SUBSET Providers]
    /\ batch \in [Procs -> SUBSET Providers]
    /\ left \in [Procs -> SUBSET Objects]
    /\ victim \in [Procs -> SUBSET Objects]
    /\ rotten \subseteq Procs

Init ==
    /\ object = [o \in Objects |-> "absent"]
    /\ manifest = [pr \in Providers |-> "absent"]
    /\ prepared = {}
    /\ guard = Nobody
    /\ pc = [p \in Procs |-> "idle"]
    /\ kind = [p \in Procs |-> "none"]
    /\ result = [p \in Procs |-> "none"]
    /\ closure = [p \in Procs |-> {}]
    /\ todo = [p \in Procs |-> {}]
    /\ broken = [p \in Procs |-> {}]
    /\ evidence = [p \in Procs |-> {}]
    /\ batch = [p \in Procs |-> {}]
    /\ left = [p \in Procs |-> {}]
    /\ victim = [p \in Procs |-> {}]
    /\ rotten = {}

-----------------------------------------------------------------------------
At(p, step) == pc[p] = step
Goto(p, step) == pc' = [pc EXCEPT ![p] = step] /\ UNCHANGED <<guard, result, kind, closure>>

\* Every way out of a call drops its guard and its local variables.
Leave(p, outcome) ==
    /\ pc' = [pc EXCEPT ![p] = "idle"]
    /\ result' = [result EXCEPT ![p] = outcome]
    /\ guard' = IF guard = p THEN Nobody ELSE guard
    /\ kind' = [kind EXCEPT ![p] = "none"]
    /\ closure' = [closure EXCEPT ![p] = {}]
    /\ todo' = [todo EXCEPT ![p] = {}]
    /\ broken' = [broken EXCEPT ![p] = {}]
    /\ evidence' = [evidence EXCEPT ![p] = {}]
    /\ batch' = [batch EXCEPT ![p] = {}]
    /\ left' = [left EXCEPT ![p] = {}]
    /\ victim' = [victim EXCEPT ![p] = {}]

Work == <<todo, broken, evidence, batch, left, victim>>

Take(p, P) == batch' = [batch EXCEPT ![p] = P] /\ left' = [left EXCEPT ![p] = ObjectsOf(P)]
Drop(f, p, x) == f' = [f EXCEPT ![p] = @ \ {x}]
Add(f, p, x) == f' = [f EXCEPT ![p] = @ \union {x}]

\* A call on a set of providers; one that prepares a package has one provider.
\* import_bundle has staged and verified every object of its closure, and goes
\* on without a lock.
Begin(p) ==
    /\ At(p, "idle")
    /\ \E k \in Kinds, P \in SUBSET Providers \ {{}} :
         /\ k = "prepare" => Cardinality(P) = 1
         /\ kind' = [kind EXCEPT ![p] = k]
         /\ closure' = [closure EXCEPT ![p] = P]
         /\ IF k = "import"
            THEN pc' = [pc EXCEPT ![p] = "store"] /\ Take(p, P)
            ELSE pc' = [pc EXCEPT ![p] = "wait"] /\ UNCHANGED <<batch, left>>
    /\ result' = [result EXCEPT ![p] = "none"]
    /\ rotten' = rotten \ {p}
    /\ UNCHANGED <<store, guard, todo, broken, evidence, victim>>

\* FileGuard::store sleeps until the lock is free.
Acquire(p) ==
    /\ At(p, "wait")
    /\ guard = Nobody
    /\ guard' = p
    /\ \/ kind[p] \in {"install", "offline"} /\ pc' = [pc EXCEPT ![p] = "inspect"]
          /\ todo' = [todo EXCEPT ![p] = closure[p]] /\ UNCHANGED broken
       \/ kind[p] = "materialize" /\ pc' = [pc EXCEPT ![p] = "load"]
          /\ todo' = [todo EXCEPT ![p] = closure[p]] /\ UNCHANGED broken
       \/ kind[p] = "hydrate" /\ pc' = [pc EXCEPT ![p] = "next"]
          /\ broken' = [broken EXCEPT ![p] = closure[p]] /\ UNCHANGED todo
       \/ kind[p] = "prepare" /\ pc' = [pc EXCEPT ![p] = "cached"]
          /\ UNCHANGED <<todo, broken>>
    /\ UNCHANGED <<store, result, kind, closure, evidence, batch, left, victim, rotten>>

-----------------------------------------------------------------------------
(* Inspection, before an installation: inspect_stored_provider.            *)

MutInspectKeeping(p) ==
    /\ At(p, "inspect")
    /\ \/ todo[p] = {} /\ Goto(p, "next") /\ UNCHANGED <<store, Work>>
       \/ \E pr \in todo[p] :
            \/ /\ manifest[pr] = "good"
               /\ Take(p, {pr}) /\ Goto(p, "check")
               /\ UNCHANGED <<store, todo, broken, evidence, victim>>
            \/ /\ manifest[pr] # "good"
               /\ Drop(todo, p, pr) /\ Add(broken, p, pr) /\ Goto(p, "inspect")
               /\ UNCHANGED <<store, evidence, batch, left, victim>>
    /\ UNCHANGED rotten

\* A manifest that is corrupt, or cannot be read, is quarantined.
Inspect(p) ==
    /\ At(p, "inspect")
    /\ \/ todo[p] = {} /\ Goto(p, "next") /\ UNCHANGED <<store, Work>>
       \/ \E pr \in todo[p] :
            \/ /\ manifest[pr] = "good"
               /\ Take(p, {pr}) /\ Goto(p, "check")
               /\ UNCHANGED <<store, todo, broken, evidence, victim>>
            \/ /\ manifest[pr] = "absent"
               /\ Drop(todo, p, pr) /\ Add(broken, p, pr) /\ Goto(p, "inspect")
               /\ UNCHANGED <<store, evidence, batch, left, victim>>
            \/ /\ manifest[pr] # "absent"
               /\ manifest' = [manifest EXCEPT ![pr] = "absent"]
               /\ Drop(todo, p, pr) /\ Add(broken, p, pr) /\ Add(evidence, p, pr)
               /\ Goto(p, "inspect")
               /\ UNCHANGED <<object, prepared, batch, left, victim>>
    /\ UNCHANGED rotten

MutCheckPresence(p) ==
    /\ At(p, "check")
    /\ \/ left[p] = {} /\ Goto(p, "inspect")
          /\ todo' = [todo EXCEPT ![p] = @ \ batch[p]]
          /\ UNCHANGED <<broken, evidence, left, victim>>
       \/ \E o \in left[p] :
            \/ object[o] # "absent" /\ Drop(left, p, o) /\ Goto(p, "check")
               /\ UNCHANGED <<todo, broken, evidence, victim>>
            \/ object[o] = "absent" /\ Goto(p, "inspect")
               /\ todo' = [todo EXCEPT ![p] = @ \ batch[p]]
               /\ broken' = [broken EXCEPT ![p] = @ \union batch[p]]
               /\ UNCHANGED <<evidence, left, victim>>
    /\ UNCHANGED <<store, batch, rotten>>

\* The objects are checked until one is absent, or condemned because its digest
\* differs or because reading it failed.
Check(p) ==
    /\ At(p, "check")
    /\ \/ left[p] = {} /\ Goto(p, "inspect")
          /\ todo' = [todo EXCEPT ![p] = @ \ batch[p]]
          /\ UNCHANGED <<broken, evidence, left, victim>>
       \/ \E o \in left[p] :
            \/ object[o] = "good" /\ Drop(left, p, o) /\ Goto(p, "check")
               /\ UNCHANGED <<todo, broken, evidence, victim>>
            \/ object[o] = "absent" /\ Goto(p, "inspect")
               /\ todo' = [todo EXCEPT ![p] = @ \ batch[p]]
               /\ broken' = [broken EXCEPT ![p] = @ \union batch[p]]
               /\ UNCHANGED <<evidence, left, victim>>
            \/ object[o] # "absent" /\ Goto(p, "evict")
               /\ todo' = [todo EXCEPT ![p] = @ \ batch[p]]
               /\ broken' = [broken EXCEPT ![p] = @ \union batch[p]]
               /\ evidence' = [evidence EXCEPT ![p] = @ \union batch[p]]
               /\ victim' = [victim EXCEPT ![p] = {o}]
               /\ UNCHANGED left
    /\ UNCHANGED <<store, batch, rotten>>

\* quarantine_store_entry renames the entry, whatever it holds by now.
Quarantine(p, next) ==
    \E o \in victim[p] :
       \/ /\ object[o] # "absent"
          /\ object' = [object EXCEPT ![o] = "absent"]
          /\ Goto(p, next)
          /\ UNCHANGED <<manifest, prepared, Work>>
       \/ object[o] = "absent" /\ Leave(p, "failed") /\ UNCHANGED store

MutEvictKeeping(p) ==
    /\ At(p, "evict")
    /\ \E o \in victim[p] : object' = [object EXCEPT ![o] = "quarantined"]
    /\ Goto(p, "inspect")
    /\ UNCHANGED <<manifest, prepared, Work, rotten>>

Evict(p) == At(p, "evict") /\ Quarantine(p, "inspect") /\ UNCHANGED rotten

-----------------------------------------------------------------------------
(* Storing: recover_locked_provider, materialize_provider, import_bundle.  *)

\* The next provider to recover or to hydrate.  Offline, a corrupt one is given
\* up; a missing one may still come from a cached container.
NextProvider(p) ==
    /\ At(p, "next")
    /\ \E pr \in broken[p] :
         \/ kind[p] = "offline" /\ pr \in evidence[p]
            /\ Leave(p, "offline") /\ UNCHANGED store
         \/ ~(kind[p] = "offline" /\ pr \in evidence[p])
            /\ Drop(broken, p, pr) /\ Take(p, {pr}) /\ Goto(p, "store")
            /\ UNCHANGED <<store, todo, evidence, victim>>
    /\ UNCHANGED rotten

\* All are stored: the installation goes on, a hydration ends, a preparation
\* writes its record and ends.
Stored(p) ==
    /\ At(p, "next")
    /\ broken[p] = {}
    /\ \/ /\ kind[p] \in {"install", "offline"}
          /\ todo' = [todo EXCEPT ![p] = closure[p]]
          /\ Goto(p, "load")
          /\ UNCHANGED <<store, broken, evidence, batch, left, victim>>
       \/ kind[p] = "hydrate" /\ Leave(p, "ok") /\ UNCHANGED store
       \/ /\ kind[p] = "prepare"
          /\ prepared' = prepared \union closure[p]
          /\ Leave(p, "ok")
          /\ UNCHANGED <<object, manifest>>
    /\ UNCHANGED rotten

MutStoreTrusting(p) ==
    /\ At(p, "store")
    /\ \/ left[p] = {} /\ Goto(p, "publish") /\ UNCHANGED <<left, victim>>
       \/ \E o \in left[p] :
            \/ object[o] # "absent" /\ Drop(left, p, o) /\ Goto(p, "store") /\ UNCHANGED victim
            \/ object[o] = "absent" /\ Goto(p, "link")
               /\ victim' = [victim EXCEPT ![p] = {o}] /\ UNCHANGED left
    /\ UNCHANGED <<store, todo, broken, evidence, batch, rotten>>

\* store_reader: the bytes are in a temporary file; is the object there already?
Store(p) ==
    /\ At(p, "store")
    /\ \/ left[p] = {} /\ Goto(p, "publish") /\ UNCHANGED <<left, victim>>
       \/ \E o \in left[p] :
            \/ object[o] = "good" /\ Drop(left, p, o) /\ Goto(p, "store") /\ UNCHANGED victim
            \/ object[o] = "absent" /\ Goto(p, "link")
               /\ victim' = [victim EXCEPT ![p] = {o}] /\ UNCHANGED left
            \/ object[o] = "bad" /\ Goto(p, "replace")
               /\ victim' = [victim EXCEPT ![p] = {o}] /\ UNCHANGED left
    /\ UNCHANGED <<store, todo, broken, evidence, batch, rotten>>

Replace(p) == At(p, "replace") /\ Quarantine(p, "link") /\ UNCHANGED rotten

\* publish_if_absent; when another writer was first, its bytes are checked.
Link(p) ==
    /\ At(p, "link")
    /\ \E o \in victim[p] :
         \/ /\ object[o] # "bad"
            /\ object' = [object EXCEPT ![o] = "good"]
            /\ Drop(left, p, o) /\ Goto(p, "store")
            /\ UNCHANGED <<manifest, prepared, todo, broken, evidence, batch, victim>>
         \/ object[o] = "bad" /\ Leave(p, "failed") /\ UNCHANGED store
    /\ UNCHANGED rotten

\* write_store_manifest, for the provider or for each provider of the bundle.
Publish(p) ==
    /\ At(p, "publish")
    /\ \/ batch[p] = {} /\ kind[p] = "import" /\ Leave(p, "ok") /\ UNCHANGED store
       \/ batch[p] = {} /\ kind[p] # "import" /\ Goto(p, "next") /\ UNCHANGED <<store, Work>>
       \/ \E pr \in batch[p] :
            \/ /\ manifest[pr] # "bad"
               /\ manifest' = [manifest EXCEPT ![pr] = "good"]
               /\ Drop(batch, p, pr) /\ Goto(p, "publish")
               /\ UNCHANGED <<object, prepared, todo, broken, evidence, left, victim>>
            \/ manifest[pr] = "bad" /\ Leave(p, "failed") /\ UNCHANGED store
    /\ UNCHANGED rotten

\* prepare_package trusts its record while all the objects exist.
Cached(p) ==
    /\ At(p, "cached")
    /\ \/ /\ closure[p] \subseteq prepared
          /\ \A o \in ObjectsOf(closure[p]) : object[o] # "absent"
          /\ Leave(p, "ok")
       \/ /\ \/ ~(closure[p] \subseteq prepared)
             \/ \E o \in ObjectsOf(closure[p]) : object[o] = "absent"
          /\ broken' = [broken EXCEPT ![p] = closure[p]]
          /\ Goto(p, "next")
          /\ UNCHANGED <<todo, evidence, batch, left, victim>>
    /\ UNCHANGED <<store, rotten>>

-----------------------------------------------------------------------------
(* Placing the objects into the tree: materialize_locked.                  *)

\* The manifests are read; without an inspection the objects are hashed too.
Load(p) ==
    /\ At(p, "load")
    /\ \/ /\ todo[p] = {}
          /\ Take(p, closure[p]) /\ Goto(p, "place")
          /\ UNCHANGED <<todo, broken, evidence, victim>>
       \/ \E pr \in todo[p] :
            \/ manifest[pr] # "good" /\ Leave(p, "failed")
            \/ /\ manifest[pr] = "good"
               /\ Drop(todo, p, pr)
               /\ \/ kind[p] = "materialize" /\ Take(p, {pr}) /\ Goto(p, "verify")
                  \/ kind[p] # "materialize" /\ Goto(p, "load") /\ UNCHANGED <<batch, left>>
               /\ UNCHANGED <<broken, evidence, victim>>
    /\ UNCHANGED <<store, rotten>>

MutVerifyPresence(p) ==
    /\ At(p, "verify")
    /\ \/ left[p] = {} /\ Goto(p, "load") /\ UNCHANGED Work
       \/ \E o \in left[p] :
            \/ object[o] # "absent" /\ Drop(left, p, o) /\ Goto(p, "verify")
               /\ UNCHANGED <<todo, broken, evidence, batch, victim>>
            \/ object[o] = "absent" /\ Leave(p, "failed")
    /\ UNCHANGED <<store, rotten>>

Verify(p) ==
    /\ At(p, "verify")
    /\ \/ left[p] = {} /\ Goto(p, "load") /\ UNCHANGED Work
       \/ \E o \in left[p] :
            \/ object[o] = "good" /\ Drop(left, p, o) /\ Goto(p, "verify")
               /\ UNCHANGED <<todo, broken, evidence, batch, victim>>
            \/ object[o] # "good" /\ Leave(p, "failed")
    /\ UNCHANGED <<store, rotten>>

\* place copies or links the object unchecked.
Place(p) ==
    /\ At(p, "place")
    /\ \/ left[p] = {} /\ Leave(p, "ok") /\ UNCHANGED rotten
       \/ \E o \in left[p] :
            \/ object[o] = "absent" /\ Leave(p, "failed") /\ UNCHANGED rotten
            \/ /\ object[o] # "absent"
               /\ Drop(left, p, o) /\ Goto(p, "place")
               /\ rotten' = IF object[o] = "bad" THEN rotten \union {p} ELSE rotten
               /\ UNCHANGED <<todo, broken, evidence, batch, victim>>
    /\ UNCHANGED store

-----------------------------------------------------------------------------
\* A download, a read or a write fails.  The outcome differs from that of calls
\* which end because of what they find in the store.
IoError(p) ==
    /\ pc[p] \notin {"idle", "wait"}
    /\ Leave(p, "faulted")
    /\ UNCHANGED <<store, rotten>>

\* The kernel frees the lock of a process that exits.
Crash(p) ==
    /\ pc[p] # "idle"
    /\ Leave(p, "crashed")
    /\ UNCHANGED <<store, rotten>>

\* Between calls, files of the store rot or are deleted.
Damage ==
    /\ \A p \in Procs : pc[p] = "idle"
    /\ \/ \E o \in Objects, s \in {"absent", "bad"} :
            /\ object[o] # "absent"
            /\ object' = [object EXCEPT ![o] = s]
            /\ UNCHANGED <<manifest, prepared>>
       \/ \E pr \in Providers, s \in {"absent", "bad"} :
            /\ manifest[pr] # "absent"
            /\ manifest' = [manifest EXCEPT ![pr] = s]
            /\ UNCHANGED <<object, prepared>>
    /\ UNCHANGED <<guard, pc, result, locals>>

Step(p) ==
    \/ Inspect(p) \/ Check(p) \/ Evict(p) \/ NextProvider(p) \/ Stored(p)
    \/ Store(p) \/ Replace(p) \/ Link(p) \/ Publish(p) \/ Cached(p)
    \/ Load(p) \/ Verify(p) \/ Place(p)

Next ==
    \/ \E p \in Procs : Begin(p) \/ Acquire(p) \/ Step(p) \/ IoError(p) \/ Crash(p)
    \/ Damage

Spec == Init /\ [][Next]_vars

\* From some moment on nothing fails, exits or rots.
Disturbance == Damage \/ \E p \in Procs : IoError(p) \/ Crash(p)
Calm == <>[][~Disturbance]_vars

-----------------------------------------------------------------------------
(* Properties.                                                             *)

\* architecture.md: "A provider manifest is published only after its complete
\* required file set and integrity checks succeed".  Whatever rotted before and
\* whichever calls were interrupted, at the moment a manifest appears every object
\* it names is there and intact (write_store_manifest after store_reader).
PublishedComplete ==
    [][\A pr \in Providers :
          manifest[pr] # "good" /\ manifest'[pr] = "good" => Complete(pr)']_vars

\* What an installation inspected, perhaps long before it recovered the other
\* providers, still holds when it places the files without hashing them again.
InspectionHolds ==
    \A p \in Procs :
       pc[p] \in {"load", "place"} /\ kind[p] \in {"install", "offline"}
       => \A pr \in closure[p] : Ready(pr)

\* A call that succeeds placed only intact bytes, though place hashes nothing.
InstalledIntact == \A p \in Procs : result[p] = "ok" => p \notin rotten

\* Whatever is missing, corrupt or half-recovered in the store, online installations
\* repair it by themselves: once failures stop, no installation fails any more.
InstallsRecover ==
    Calm => <>[][\A p \in Procs :
                   kind[p] = "install" /\ kind'[p] = "none" => result'[p] = "ok"]_vars
=================================================================================
