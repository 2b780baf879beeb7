-------------------------------- MODULE Exports --------------------------------
(***************************************************************************)
(* The readers of the store that take no lock: export_bundle in bundle.rs, *)
(* export_file_manifest in file_manifest.rs, copy_verified_file and        *)
(* export_file in file_export.rs, copy_package_file and                    *)
(* export_package_file in package.rs; and the import of the exported       *)
(* bundle into another store.                                              *)
(*                                                                         *)
(* The calls differ in what they hash, and through which open file:        *)
(*   index     hashes each object by path and hands out no bytes;          *)
(*   bundle    hashes by path, opens again, and archives unhashed;         *)
(*   file      opens once, hashes what it copies into a private file;      *)
(*   copy      opens once, hashes, rewinds, hashes what it copies;         *)
(*   package   hashes by path, opens again, hashes what it copies;         *)
(*   asset     copies like file, from a manifest the caller holds.         *)
(* Meanwhile the disk damages objects and the store's own users, who do    *)
(* lock it, move entries out of the way and publish them again.            *)
(***************************************************************************)
EXTENDS FiniteSets, Integers

CONSTANTS Calls,      \* callers, one call at a time each
          Providers,  \* the locked providers
          Objects,    \* file contents
          Contents,   \* the objects of each provider
          Kinds,      \* the calls the callers make
          MaxDamage   \* bound: how often the disk damages bytes

ASSUME ExportsAssumption ==
    /\ Contents \in [Providers -> SUBSET Objects \ {{}}]
    /\ Kinds \subseteq {"index", "bundle", "file", "copy", "package", "asset"}
    /\ MaxDamage \in Nat

VARIABLES
    object,     \* the store's <digest> files
    listed,     \* providers with a valid manifest in the store
    damage,     \* damage done so far
    pc, kind, result,
    closure,    \* the providers of the call
    unread,     \* those whose manifest is still to load
    todo,       \* the objects still to deal with
    current,    \* the object in hand
    handle,     \* the open object: see Bytes
    wrong,      \* the objects of which other bytes than theirs were written
    rotted,     \* objects damaged since this call last hashed them
    archive,    \* the bundle file: its providers, and its wrong objects
    parcel,     \* the providers being imported into another store
    torn,       \* their unpacked objects that the disk has damaged
    landed,     \* those of which store_reader has returned
    target,     \* the <digest> files of that store
    harmed,     \* those damaged since store_reader last returned of them
    named       \* its manifests

store == <<object, listed, damage>>
call == <<closure, unread, todo, current, handle, wrong, rotted>>
caller == <<pc, kind, result, call, archive>>
importer == <<parcel, torn, landed, target, harmed, named>>
vars == <<store, caller, importer>>

States == {"absent", "good", "bad"}
Archives == [of : SUBSET Providers, wrong : SUBSET Objects]
ObjectsOf(P) == UNION {Contents[pr] : pr \in P}

\* Calls that are about one file of one provider; that read its store manifest;
\* that hash the object by path first; that publish a private file at the end.
Single == {"file", "copy", "package", "asset"}
Indexed == {"index", "bundle", "file", "copy"}
Prehashed == {"index", "bundle", "package"}
Private == {"file", "asset"}

\* What an open file reads: "linked" is the file the store has at the object's path
\* now, and the bytes of a file that has lost its name are the handle's own.
Bytes(c) == IF handle[c] = "linked" THEN object[CHOOSE o \in current[c] : TRUE] ELSE handle[c]

ExportsTypeOK ==
    /\ object \in [Objects -> States]
    /\ listed \subseteq Providers
    /\ damage \in 0..MaxDamage
    /\ pc \in [Calls -> {"idle", "pick", "hash", "open", "rehash", "copy"}]
    /\ kind \in [Calls -> Kinds \union {"none"}]
    /\ result \in [Calls -> {"none", "ok", "refused", "failed"}]
    /\ closure \in [Calls -> SUBSET Providers]
    /\ unread \in [Calls -> SUBSET Providers]
    /\ todo \in [Calls -> SUBSET Objects]
    /\ current \in [Calls -> SUBSET Objects]
    /\ handle \in [Calls -> {"none", "linked", "good", "bad"}]
    /\ wrong \in [Calls -> SUBSET Objects]
    /\ rotted \in [Calls -> SUBSET Objects]
    /\ archive \in Archives
    /\ parcel \subseteq Providers
    /\ torn \subseteq Objects /\ landed \subseteq Objects
    /\ target \in [Objects -> States] /\ harmed \subseteq Objects
    /\ named \subseteq Providers
    /\ \A c \in Calls : Cardinality(current[c]) <= 1 /\ (handle[c] # "none" => current[c] # {})

\* A locked closure that has been installed into this store, and an empty one.
Init ==
    /\ object = [o \in Objects |-> "good"] /\ listed = Providers /\ damage = 0
    /\ pc = [c \in Calls |-> "idle"]
    /\ kind = [c \in Calls |-> "none"]
    /\ result = [c \in Calls |-> "none"]
    /\ closure = [c \in Calls |-> {}]
    /\ unread = [c \in Calls |-> {}]
    /\ todo = [c \in Calls |-> {}]
    /\ current = [c \in Calls |-> {}]
    /\ handle = [c \in Calls |-> "none"]
    /\ wrong = [c \in Calls |-> {}]
    /\ rotted = [c \in Calls |-> {}]
    /\ archive = [of |-> {}, wrong |-> {}]
    /\ parcel = {} /\ torn = {} /\ landed = {}
    /\ target = [o \in Objects |-> "absent"] /\ harmed = {} /\ named = {}

-----------------------------------------------------------------------------
(* One call.                                                               *)

Goto(c, step) == pc' = [pc EXCEPT ![c] = step]
Quiet == UNCHANGED <<store, importer>>

\* Plausible mistake: the way out forgets the open object.
MutLeaveOpen(c, outcome) ==
    /\ pc' = [pc EXCEPT ![c] = "idle"]
    /\ result' = [result EXCEPT ![c] = outcome]
    /\ unread' = [unread EXCEPT ![c] = {}]
    /\ todo' = [todo EXCEPT ![c] = {}]
    /\ current' = [current EXCEPT ![c] = {}]
    /\ closure' = [closure EXCEPT ![c] = {}]
    /\ UNCHANGED <<kind, handle>>

\* Open files close, private files are removed; what reached a writer stays there.
Leave(c, outcome) ==
    /\ pc' = [pc EXCEPT ![c] = "idle"]
    /\ result' = [result EXCEPT ![c] = outcome]
    /\ unread' = [unread EXCEPT ![c] = {}]
    /\ todo' = [todo EXCEPT ![c] = {}]
    /\ current' = [current EXCEPT ![c] = {}]
    /\ handle' = [handle EXCEPT ![c] = "none"]
    /\ closure' = [closure EXCEPT ![c] = {}]
    /\ UNCHANGED kind

Stop(c, outcome) == Leave(c, outcome) /\ UNCHANGED <<wrong, rotted, archive>>
Refuse(c) == Stop(c, "refused")

\* The lock is validated and the file is looked up in it, or in the caller's manifest.
Begin(c) ==
    /\ pc[c] = "idle"
    /\ \E k \in Kinds, P \in SUBSET Providers \ {{}}, o \in Objects :
         /\ k \in Single => Cardinality(P) = 1 /\ o \in ObjectsOf(P)
         /\ kind' = [kind EXCEPT ![c] = k]
         /\ closure' = [closure EXCEPT ![c] = P]
         /\ unread' = [unread EXCEPT ![c] = IF k \in Indexed THEN P ELSE {}]
         /\ todo' = [todo EXCEPT ![c] = IF k \in Single THEN {o} ELSE ObjectsOf(P)]
    /\ Goto(c, "pick")
    /\ result' = [result EXCEPT ![c] = "none"]
    /\ wrong' = [wrong EXCEPT ![c] = {}]
    /\ rotted' = [rotted EXCEPT ![c] = {}]
    /\ Quiet /\ UNCHANGED <<current, handle, archive>>

\* What the call can go on with: the file manifest takes the providers one by one, the
\* others load every manifest first.
Ready(c) ==
    IF kind[c] = "index" THEN todo[c] \intersect ObjectsOf(closure[c] \ unread[c])
    ELSE IF unread[c] = {} THEN todo[c] ELSE {}

\* load_store_manifest refuses a manifest that is missing, whose files do not hash to
\* its name or are not those of the lock.
LoadManifest(c) ==
    /\ pc[c] = "pick" /\ Ready(c) = {}
    /\ \E pr \in unread[c] :
         \/ /\ pr \in listed
            /\ unread' = [unread EXCEPT ![c] = @ \ {pr}]
            /\ UNCHANGED <<pc, kind, result, closure, todo, current, handle, wrong, rotted, archive>>
         \/ pr \notin listed /\ Refuse(c)
    /\ Quiet

Pick(c) ==
    /\ pc[c] = "pick"
    /\ \E o \in Ready(c) :
         /\ current' = [current EXCEPT ![c] = {o}]
         /\ todo' = [todo EXCEPT ![c] = @ \ {o}]
    /\ Goto(c, IF kind[c] \in Prehashed THEN "hash" ELSE "open")
    /\ Quiet /\ UNCHANGED <<kind, result, closure, unread, handle, wrong, rotted, archive>>

Hashed(c, step) ==
    /\ Goto(c, step)
    /\ rotted' = [rotted EXCEPT ![c] = @ \ current[c]]
    /\ UNCHANGED <<kind, result, closure, unread, todo, current, handle, wrong, archive>>

\* Plausible mistake: an object is taken on trust when it is there.
MutHashPresence(c) ==
    /\ pc[c] = "hash"
    /\ \E o \in current[c] :
         \/ object[o] # "absent" /\ Hashed(c, IF kind[c] = "index" THEN "pick" ELSE "open")
         \/ object[o] = "absent" /\ Refuse(c)
    /\ Quiet

\* digest_file, verify_object or copy_object into a sink: the file is opened by its
\* path, read to its end and closed.
HashPath(c) ==
    /\ pc[c] = "hash"
    /\ \E o \in current[c] :
         \/ object[o] = "good" /\ Hashed(c, IF kind[c] = "index" THEN "pick" ELSE "open")
         \/ object[o] # "good" /\ Refuse(c)
    /\ Quiet

OpenObject(c) ==
    /\ pc[c] = "open"
    /\ \E o \in current[c] :
         \/ /\ object[o] # "absent"
            /\ handle' = [handle EXCEPT ![c] = "linked"]
            /\ Goto(c, IF kind[c] = "copy" THEN "rehash" ELSE "copy")
            /\ UNCHANGED <<kind, result, closure, unread, todo, current, wrong, rotted, archive>>
         \/ object[o] = "absent" /\ Refuse(c)
    /\ Quiet

\* copy_verified_file reads the open file once before it rewinds it.
HashHandle(c) ==
    /\ pc[c] = "rehash"
    /\ \/ Bytes(c) = "good" /\ Hashed(c, "copy")
       \/ Bytes(c) # "good" /\ Refuse(c)
    /\ Quiet

\* The bytes reach the writer, the private file or the archive; all but the archive
\* hash them on the way and refuse them afterwards.
Copy(c) ==
    /\ pc[c] = "copy"
    /\ wrong' = [wrong EXCEPT ![c] = IF Bytes(c) = "good" THEN @ ELSE @ \union current[c]]
    /\ \/ /\ Bytes(c) = "good" \/ kind[c] = "bundle"
          /\ Goto(c, "pick")
          /\ handle' = [handle EXCEPT ![c] = "none"]
          /\ UNCHANGED <<kind, result, closure, unread, todo, current>>
       \/ Bytes(c) # "good" /\ kind[c] # "bundle" /\ Leave(c, "refused")
    /\ Quiet /\ UNCHANGED <<rotted, archive>>

\* Plausible mistake: the archive is published under a name that must be free.
MutFinishOnce(c) ==
    /\ pc[c] = "pick" /\ unread[c] = {} /\ todo[c] = {}
    /\ \/ kind[c] = "bundle" /\ archive.of # {} /\ Refuse(c)
       \/ /\ kind[c] = "bundle" => archive.of = {}
          /\ archive' = IF kind[c] = "bundle" THEN [of |-> closure[c], wrong |-> wrong[c]] ELSE archive
          /\ Leave(c, "ok") /\ UNCHANGED <<wrong, rotted>>
    /\ Quiet

\* publish_file renames the private file over the previous one.
Finish(c) ==
    /\ pc[c] = "pick" /\ unread[c] = {} /\ todo[c] = {}
    /\ archive' = IF kind[c] = "bundle" THEN [of |-> closure[c], wrong |-> wrong[c]] ELSE archive
    /\ Leave(c, "ok")
    /\ Quiet /\ UNCHANGED <<wrong, rotted>>

\* A read, a write or the rename fails, a size limit is exceeded, the process exits.
Fail(c) == pc[c] # "idle" /\ Stop(c, "failed") /\ Quiet

-----------------------------------------------------------------------------
(* The store below the calls.                                              *)

Damage == damage < MaxDamage /\ damage' = damage + 1

\* The disk damages a file in place: one that has a name, one that only an open
\* handle keeps, the archive.
Rot(o) ==
    /\ object[o] = "good" /\ Damage
    /\ object' = [object EXCEPT ![o] = "bad"]
    /\ rotted' = [c \in Calls |-> rotted[c] \union {o}]
    /\ UNCHANGED <<listed, pc, kind, result, closure, unread, todo, current, handle, wrong,
                   archive, importer>>

RotUnnamed(c) ==
    /\ handle[c] = "good" /\ Damage
    /\ handle' = [handle EXCEPT ![c] = "bad"]
    /\ rotted' = [rotted EXCEPT ![c] = @ \union current[c]]
    /\ UNCHANGED <<object, listed, pc, kind, result, closure, unread, todo, current, wrong,
                   archive, importer>>

RotArchive(o) ==
    /\ o \in ObjectsOf(archive.of) \ archive.wrong /\ Damage
    /\ archive' = [archive EXCEPT !.wrong = @ \union {o}]
    /\ UNCHANGED <<object, listed, pc, kind, result, call, importer>>

\* A writer that holds the store's lock moves an entry into the quarantine; an open
\* handle goes on reading the file.
Evict(o) ==
    /\ object[o] # "absent"
    /\ object' = [object EXCEPT ![o] = "absent"]
    /\ handle' = [c \in Calls |->
                    IF handle[c] = "linked" /\ o \in current[c] THEN object[o] ELSE handle[c]]
    /\ UNCHANGED <<listed, damage, pc, kind, result, closure, unread, todo, current, wrong, rotted,
                   archive, importer>>

\* It publishes the object again, and a manifest once its objects are there.
Restore(o) ==
    /\ object[o] = "absent"
    /\ object' = [object EXCEPT ![o] = "good"]
    /\ UNCHANGED <<listed, damage, caller, importer>>

List(pr) ==
    /\ pr \notin listed /\ \A o \in Contents[pr] : object[o] = "good"
    /\ listed' = listed \union {pr}
    /\ UNCHANGED <<object, damage, caller, importer>>

Unlist(pr) ==
    /\ pr \in listed
    /\ listed' = listed \ {pr}
    /\ UNCHANGED <<object, damage, caller, importer>>

-----------------------------------------------------------------------------
(* import_bundle, into a store of its own.                                 *)

Elsewhere == UNCHANGED <<store, caller>>

Ended == parcel' = {} /\ torn' = {} /\ landed' = {}

\* Every entry is unpacked into a private directory and hashed before the first one
\* is published; the entries must be those of the closure.
Stage ==
    /\ parcel = {} /\ archive.wrong = {}
    /\ parcel' = archive.of
    /\ Elsewhere /\ UNCHANGED <<torn, landed, target, harmed, named>>

Landed(o) ==
    /\ target' = [target EXCEPT ![o] = "good"]
    /\ landed' = landed \union {o}
    /\ harmed' = harmed \ {o}
    /\ UNCHANGED <<parcel, torn>>

\* Plausible mistake: the digest that store_reader must find is not passed on, and a
\* damaged copy is published under the digest it has by now.
MutLandUnexpected(o) ==
    /\ o \in ObjectsOf(parcel) \ landed
    /\ \/ o \notin torn /\ Landed(o)
       \/ /\ o \in torn
          /\ landed' = landed \union {o}
          /\ UNCHANGED <<parcel, torn, target, harmed>>
    /\ Elsewhere /\ UNCHANGED named

\* store_reader hashes the unpacked copy again and refuses it when it is not what its
\* name says; it hashes the object that is there, moves a wrong one into the quarantine
\* and publishes the copy in its place.
Land(o) ==
    /\ o \in ObjectsOf(parcel) \ landed
    /\ \/ o \notin torn /\ Landed(o)
       \/ o \in torn /\ Ended /\ UNCHANGED <<target, harmed>>
    /\ Elsewhere /\ UNCHANGED named

\* The manifests follow the last object, one by one.
Name ==
    /\ parcel # {} /\ ObjectsOf(parcel) \subseteq landed
    /\ \/ \E pr \in parcel \ named : named' = named \union {pr} /\ UNCHANGED <<parcel, torn, landed>>
       \/ parcel \subseteq named /\ Ended /\ UNCHANGED named
    /\ Elsewhere /\ UNCHANGED <<target, harmed>>

\* The import fails or its process exits, perhaps between the quarantine of a wrong
\* object and the publication of the right one.
FailImport ==
    /\ parcel # {} /\ Ended
    /\ \/ UNCHANGED target
       \/ \E o \in ObjectsOf(parcel) \ (landed \union torn) :
             target[o] = "bad" /\ target' = [target EXCEPT ![o] = "absent"]
    /\ Elsewhere /\ UNCHANGED <<harmed, named>>

\* The disk damages an unpacked copy, or an object of the importing store.
RotStaged(o) ==
    /\ o \in ObjectsOf(parcel) \ (landed \union torn) /\ Damage
    /\ torn' = torn \union {o}
    /\ UNCHANGED <<object, listed, caller, parcel, landed, target, harmed, named>>

RotTarget(o) ==
    /\ target[o] = "good" /\ Damage
    /\ target' = [target EXCEPT ![o] = "bad"]
    /\ harmed' = harmed \union {o}
    /\ UNCHANGED <<object, listed, caller, parcel, torn, landed, named>>

Work(c) ==
    \/ LoadManifest(c) \/ Pick(c) \/ HashPath(c) \/ OpenObject(c) \/ HashHandle(c)
    \/ Copy(c) \/ Finish(c)
Repair(o) == (object[o] # "good" /\ Evict(o)) \/ Restore(o)
Import == Stage \/ (\E o \in Objects : Land(o)) \/ Name

Next ==
    \/ \E c \in Calls : Begin(c) \/ Work(c) \/ Fail(c) \/ RotUnnamed(c)
    \/ \E o \in Objects : Rot(o) \/ RotArchive(o) \/ Evict(o) \/ Restore(o)
    \/ \E o \in Objects : RotStaged(o) \/ RotTarget(o)
    \/ \E pr \in Providers : List(pr) \/ Unlist(pr)
    \/ Import \/ FailImport

Spec == Init /\ [][Next]_vars

\* Calls are made again and run to their end, and so do the imports; the store's
\* users repair what they find damaged.
FairSpec ==
    /\ Spec
    /\ \A c \in Calls : WF_vars(Begin(c)) /\ WF_vars(Work(c))
    /\ \A o \in Objects : WF_vars(Repair(o))
    /\ \A pr \in Providers : WF_vars(List(pr))
    /\ WF_vars(Import)

Disturbance ==
    \/ \E c \in Calls : Fail(c) \/ RotUnnamed(c)
    \/ \E o \in Objects : RotStaged(o) \/ RotTarget(o)
    \/ \E o \in Objects : Rot(o) \/ RotArchive(o) \/ (object[o] = "good" /\ Evict(o))
    \/ \E pr \in Providers : Unlist(pr)
    \/ FailImport
Calm == <>[][~Disturbance]_vars

-----------------------------------------------------------------------------
(* Properties.                                                             *)

\* Bytes other than those the digest names reach a caller's writer or an archive only
\* when the disk damaged them after this very call had hashed them; nothing wrong is
\* ever published as a file, nor handed out by a copy that succeeds.
\* package.rs: "Bytes are verified before they reach the writer".
OnlyVerifiedLeaves ==
    \A c \in Calls : wrong[c] # {} =>
        /\ kind[c] \in Private \/ wrong[c] \subseteq rotted[c]
        /\ result[c] = "ok" => kind[c] = "bundle"

\* Every object of a manifest that an import has published is intact in the new store,
\* or the disk has damaged it since store_reader returned of it: whatever was damaged
\* before, in the archive, in the unpacked copy or in that store, and wherever an
\* earlier import ended.  bundle.rs:237: "Only verified content is published".
ImportedIntact ==
    \A o \in ObjectsOf(named) : target[o] = "good" \/ o \in harmed

\* Once damage and failures end, the store's users heal it, every further call
\* succeeds, and an archive that stays whole is imported, over whatever damage the
\* importing store had taken.
ExportsSettle ==
    Calm =>
      /\ \A c \in Calls : []<>(result[c] = "ok") /\ <>[](result[c] # "refused")
      /\ \A pr \in Providers :
           <>[](pr \in archive.of /\ archive.wrong = {})
           => <>[](pr \in named /\ \A o \in Contents[pr] : target[o] = "good")
=================================================================================
