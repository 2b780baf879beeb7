------------------------------ MODULE PackageReader ------------------------------
(***************************************************************************)
(* One package file in a browser: adapters/browser/filesystem.mjs.         *)
(*                                                                         *)
(* Tabs open the same file of the origin private file system (OPFS).  Each *)
(* call waits for the file's Web Lock, makes sure of the entry, verifies   *)
(* the cached bytes or downloads them, and opens a read-only handle before *)
(* the lock is released.  Reads, downloads and storage may fail, also in   *)
(* the cleanup after a failure; the host may abort a call, and a tab may   *)
(* be closed at any moment.                                                *)
(***************************************************************************)
EXTENDS SequencesExt

CONSTANTS Tabs,   \* workers that open the file
          NoTab   \* the holder of the free Web Lock

VARIABLES
    served,   \* what the server has under the file's URL
    entry,    \* the OPFS entry of the file; "empty" stands for a wrong size
    queue,    \* requests for the Web Lock
    holder,   \* its holder
    handles,  \* tabs with an open access handle
    staged,   \* what the response of the download under way holds
    at,
    failed    \* tabs whose last call could not download

readerVars == <<entry, queue, holder, handles, staged, at, failed>>

ReaderTypeOK ==
    /\ entry \in {"absent", "empty", "good", "bad"}
    /\ queue \in Seq(Tabs)
    /\ holder \in Tabs \union {NoTab}
    /\ handles \subseteq Tabs
    /\ staged \in [Tabs -> {"none", "good", "bad"}]
    /\ at \in [Tabs -> {"idle", "queued", "hash", "fetch", "body", "remove",
                        "swallow", "open", "reading"}]
    /\ failed \subseteq Tabs

Init ==
    /\ entry = "absent"
    /\ queue = <<>>
    /\ holder = NoTab
    /\ handles = {}
    /\ staged = [t \in Tabs |-> "none"]
    /\ at = [t \in Tabs |-> "idle"]
    /\ failed = {}

-----------------------------------------------------------------------------
Goto(t, step) == at' = [at EXCEPT ![t] = step] /\ UNCHANGED failed

\* Whatever ends the callback releases the Web Lock; a tab's end closes its handle.
Leave(t) ==
    /\ at' = [at EXCEPT ![t] = "idle"]
    /\ holder' = IF holder = t THEN NoTab ELSE holder
    /\ queue' = RemoveFirst(queue, t)
    /\ handles' = handles \ {t}
    /\ staged' = [staged EXCEPT ![t] = "none"]

\* openPackageFile, up to its request for the lock.
Request(t) ==
    /\ at[t] = "idle"
    /\ at' = [at EXCEPT ![t] = "queued"]
    /\ failed' = failed \ {t}
    /\ queue' = Append(queue, t)
    /\ UNCHANGED <<entry, holder, handles, staged>>

MutGrantTrusting(t) ==
    /\ at[t] = "queued"
    /\ holder = NoTab
    /\ Head(queue) = t
    /\ holder' = t
    /\ queue' = Tail(queue)
    /\ \/ entry \in {"good", "bad"} /\ Goto(t, "open") /\ UNCHANGED entry
       \/ entry \in {"absent", "empty"} /\ Goto(t, "fetch") /\ entry' = "empty"
    /\ UNCHANGED <<handles, staged>>

\* The Web Lock is granted in turn.  getFileHandle creates the entry; one of the right
\* size is worth reading.
Grant(t) ==
    /\ at[t] = "queued"
    /\ holder = NoTab
    /\ Head(queue) = t
    /\ holder' = t
    /\ queue' = Tail(queue)
    /\ \/ entry \in {"good", "bad"} /\ Goto(t, "hash") /\ UNCHANGED entry
       \/ entry \in {"absent", "empty"} /\ Goto(t, "fetch") /\ entry' = "empty"
    /\ UNCHANGED <<handles, staged>>

\* The cached bytes pass through consume.
Hash(t) ==
    /\ at[t] = "hash"
    /\ \/ entry = "good" /\ Goto(t, "open")
       \/ entry # "good" /\ Goto(t, "fetch")
    /\ UNCHANGED <<entry, queue, holder, handles, staged>>

\* The response is tied to what the server had at the time.
Fetch(t) ==
    /\ at[t] = "fetch"
    /\ \/ /\ served # "absent"
          /\ staged' = [staged EXCEPT ![t] = served]
          /\ Goto(t, "body")
       \/ served = "absent" /\ Goto(t, "remove") /\ UNCHANGED staged
    /\ UNCHANGED <<entry, queue, holder, handles>>

\* createWritable is refused while an access handle is open.  consume writes the body
\* and compares its size and digest; close then replaces the entry in one step, abort
\* drops what was written.
Body(t) ==
    /\ at[t] = "body"
    /\ \/ handles = {} /\ staged[t] = "good" /\ entry' = "good" /\ Goto(t, "open")
       \/ (handles # {} \/ staged[t] # "good") /\ Goto(t, "remove") /\ UNCHANGED entry
    /\ staged' = [staged EXCEPT ![t] = "none"]
    /\ UNCHANGED <<queue, holder, handles>>

MutRemoveNothing(t) ==
    /\ at[t] = "remove"
    /\ Leave(t)
    /\ failed' = failed \union {t}
    /\ UNCHANGED entry

\* removeEntry after a failed download; it is refused while a handle is open, and the
\* refusal swallowed.
RemoveEntry(t) ==
    /\ at[t] = "remove"
    /\ \/ handles = {} /\ entry' = "absent"
       \/ handles # {} /\ UNCHANGED entry
    /\ Leave(t)
    /\ failed' = failed \union {t}

\* So is the storage's own failure to remove the entry, which stays as it is.
Swallow(t) ==
    /\ at[t] = "swallow"
    /\ Leave(t)
    /\ failed' = failed \union {t}
    /\ UNCHANGED entry

MutOpenHolding(t) ==
    /\ at[t] = "open"
    /\ handles' = handles \union {t}
    /\ Goto(t, "reading")
    /\ UNCHANGED <<entry, queue, holder, staged>>

\* createSyncAccessHandle, still under the Web Lock, and the end of the callback.
Open(t) ==
    /\ at[t] = "open"
    /\ handles' = handles \union {t}
    /\ holder' = NoTab
    /\ Goto(t, "reading")
    /\ UNCHANGED <<entry, queue, staged>>

\* The reader is closed, by its host or with its tab.
CloseReader(t) ==
    /\ at[t] = "reading"
    /\ Leave(t)
    /\ UNCHANGED <<entry, failed>>

-----------------------------------------------------------------------------
(* What may go wrong.                                                      *)

\* Reading the cached bytes fails: the file is downloaded again.
ReadFault(t) ==
    /\ at[t] = "hash"
    /\ entry = "good"
    /\ Goto(t, "fetch")
    /\ UNCHANGED <<entry, queue, holder, handles, staged>>

\* The network, the server or the storage fails, or the host aborts.
DownloadFault(t) ==
    /\ \/ at[t] = "fetch" /\ served # "absent"
       \/ at[t] = "body" /\ staged[t] = "good"
    /\ staged' = [staged EXCEPT ![t] = "none"]
    /\ Goto(t, "remove")
    /\ UNCHANGED <<entry, queue, holder, handles>>

\* The storage fails to remove the entry.
RemovalFault(t) ==
    /\ at[t] = "remove"
    /\ Goto(t, "swallow")
    /\ UNCHANGED <<entry, queue, holder, handles, staged>>

\* An engine without shared handles refuses the second.
Refuse(t) ==
    /\ at[t] = "open"
    /\ handles # {}
    /\ Leave(t)
    /\ UNCHANGED <<entry, failed>>

\* The host aborts while the call waits, hashes or is about to open.
Abort(t) ==
    /\ at[t] \in {"queued", "hash", "open"}
    /\ Leave(t)
    /\ UNCHANGED <<entry, failed>>

\* The tab goes away during the call; one that goes away later is a CloseReader.
Kill(t) ==
    /\ at[t] \notin {"idle", "reading"}
    /\ Leave(t)
    /\ UNCHANGED <<entry, failed>>

\* Between uses, the entry's bytes rot.
Spoil ==
    /\ holder = NoTab
    /\ handles = {}
    /\ entry = "good"
    /\ entry' = "bad"
    /\ UNCHANGED <<queue, holder, handles, staged, at, failed>>

Step(t) ==
    \/ Grant(t) \/ Hash(t) \/ Fetch(t) \/ Body(t) \/ RemoveEntry(t) \/ Swallow(t)
    \/ Open(t)
Trouble ==
    \/ \E t \in Tabs : 
         ReadFault(t) \/ DownloadFault(t) \/ RemovalFault(t) \/ Refuse(t) \/ Abort(t) \/ Kill(t)
    \/ Spoil

Next ==
    \/ \E t \in Tabs : Request(t) \/ Step(t) \/ CloseReader(t)
    \/ Trouble

\* The browser grants the lock in turn, and requests and promises settle.
Fairness == \A t \in Tabs : WF_readerVars(Step(t))
Spec == Init /\ [][Next]_readerVars /\ Fairness

-----------------------------------------------------------------------------
(* Properties.                                                             *)

\* Whoever has a reader reads the bytes the digest names, until the reader is closed:
\* no other tab's download, failure or removal reaches the entry (filesystem.mjs:68).
ReadersVerified == handles # {} => entry = "good"

\* An empty or invalid entry is left behind by a failed download (filesystem.mjs:98)
\* only where the storage itself fails to remove it.  Otherwise the entry is gone, or it
\* is the intact one that another tab reads: an open handle, which makes the removal
\* fail too, never protects anything else.  Without the premise package-serving.md:128
\* ("A failed or invalid download removes its OPFS entry") says more than the code does.
CleanFailure ==
    [][\A t \in Tabs : t \notin failed /\ t \in failed' /\ at[t] # "swallow"
                       => entry' \in {"absent", "good"}]_readerVars
=================================================================================
