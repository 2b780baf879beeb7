------------------------------ MODULE RegistryCache ------------------------------
(***************************************************************************)
(* The shared cache of one registry URL's metadata:                        *)
(* src/store/registry_cache.rs, fetch_tlpdb and what it calls.             *)
(*                                                                         *)
(* The cache entry is two files, the tlpdb itself and a record of its      *)
(* digest and HTTP validator (etag).  Each file is replaced atomically,    *)
(* the pair is not, and no lock is taken: any number of processes may be   *)
(* between the two writes.  A snapshot is identified by its version, the   *)
(* registry serves versions in order; version 0 stands for a missing file  *)
(* or a missing validator.                                                 *)
(***************************************************************************)
EXTENDS Naturals

CONSTANTS Procs,       \* processes that share the cache directory
          Policies,    \* the cache policies their requests may carry
          MaxVersion   \* the registry publishes versions 1 .. MaxVersion

ASSUME CacheAssumption ==
    /\ MaxVersion \in Nat \ {0}
    /\ Policies \subseteq {"revalidate", "immutable", "offline"}

VARIABLES
    server,   \* the version the registry serves now
    tlpdb,    \* the version in <key>.tlpdb, 0 if there is no such file
    meta,     \* <key>.json
    pc, policy, result,
    cached,   \* fetch_tlpdb's local: was the tlpdb there at the start?
    sent,     \* the validator sent with the request
    got,      \* the version in the response body
    seen,     \* the version whose digest verify_cached_tlpdb computed
    since,    \* the version that was current when the registry answered
    loaded    \* the version the call's index was parsed from

vars == <<server, tlpdb, meta, pc, policy, result, cached, sent, got, seen, since, loaded>>
files == <<tlpdb, meta>>
locals == <<cached, sent, got, seen, since, loaded>>

Versions == 1 .. MaxVersion
MaybeVersion == 0 .. MaxVersion

\* CachedRegistryMetadata: the digest of a version, and its validator if known.
Meta == [digest : MaybeVersion, etag : MaybeVersion]
NoMeta == [digest |-> 0, etag |-> 0]
Recorded == meta.digest # 0

Steps == {"idle", "look", "conditions", "request", "store", "record",
          "verify", "compare", "remember", "load"}
\* "faulted" is the outcome of a call one of whose system calls failed; "failed"
\* that of one which found the cached file missing.
Outcomes == {"none", "ok", "miss", "failed", "inconsistent", "faulted", "crashed"}

CacheTypeOK ==
    /\ server \in Versions
    /\ tlpdb \in MaybeVersion
    /\ meta \in Meta
    /\ pc \in [Procs -> Steps]
    /\ policy \in [Procs -> Policies \union {"none"}]
    /\ result \in [Procs -> Outcomes]
    /\ cached \in [Procs -> BOOLEAN]
    /\ sent \in [Procs -> MaybeVersion]
    /\ got \in [Procs -> MaybeVersion]
    /\ seen \in [Procs -> MaybeVersion]
    /\ since \in [Procs -> MaybeVersion]
    /\ loaded \in [Procs -> MaybeVersion]

Init ==
    /\ server = 1
    /\ tlpdb = 0
    /\ meta = NoMeta
    /\ pc = [p \in Procs |-> "idle"]
    /\ policy = [p \in Procs |-> "none"]
    /\ result = [p \in Procs |-> "none"]
    /\ cached = [p \in Procs |-> FALSE]
    /\ sent = [p \in Procs |-> 0]
    /\ got = [p \in Procs |-> 0]
    /\ seen = [p \in Procs |-> 0]
    /\ since = [p \in Procs |-> 0]
    /\ loaded = [p \in Procs |-> 0]

-----------------------------------------------------------------------------
At(p, step) == pc[p] = step
Goto(p, step) == pc' = [pc EXCEPT ![p] = step] /\ UNCHANGED <<policy, result>>
Leave(p, outcome) ==
    /\ pc' = [pc EXCEPT ![p] = "idle"]
    /\ result' = [result EXCEPT ![p] = outcome]
    /\ UNCHANGED policy

\* load_tlpdb_index asks for the registry's metadata.
Begin(p) ==
    /\ At(p, "idle")
    /\ pc' = [pc EXCEPT ![p] = "look"]
    /\ \E pol \in Policies : policy' = [policy EXCEPT ![p] = pol]
    /\ result' = [result EXCEPT ![p] = "none"]
    /\ cached' = [cached EXCEPT ![p] = FALSE]
    /\ sent' = [sent EXCEPT ![p] = 0]
    /\ got' = [got EXCEPT ![p] = 0]
    /\ seen' = [seen EXCEPT ![p] = 0]
    /\ since' = [since EXCEPT ![p] = 0]
    /\ loaded' = [loaded EXCEPT ![p] = 0]
    /\ UNCHANGED <<server, files>>

\* A cached file is enough unless it must be revalidated.
Look(p) ==
    /\ At(p, "look")
    /\ cached' = [cached EXCEPT ![p] = tlpdb # 0]
    /\ \/ tlpdb # 0 /\ policy[p] # "revalidate" /\ Goto(p, "verify")
       \/ tlpdb = 0 /\ policy[p] = "offline" /\ Leave(p, "miss")
       \/ tlpdb = 0 /\ policy[p] = "immutable" /\ Goto(p, "conditions")
       \/ policy[p] = "revalidate" /\ Goto(p, "conditions")
    /\ UNCHANGED <<server, files, sent, got, seen, since, loaded>>

MutConditionsUncached(p) ==
    /\ At(p, "conditions")
    /\ sent' = [sent EXCEPT ![p] = meta.etag]
    /\ Goto(p, "request")
    /\ UNCHANGED <<server, files, cached, got, seen, since, loaded>>

\* The validator is sent only for a file that was there.
Conditions(p) ==
    /\ At(p, "conditions")
    /\ sent' = [sent EXCEPT ![p] = IF cached[p] THEN meta.etag ELSE 0]
    /\ Goto(p, "request")
    /\ UNCHANGED <<server, files, cached, got, seen, since, loaded>>

\* The registry answers 304 to its current validator and sends its current
\* version otherwise.
Request(p) ==
    /\ At(p, "request")
    /\ since' = [since EXCEPT ![p] = server]
    /\ IF sent[p] = server
       THEN Goto(p, "verify") /\ UNCHANGED got
       ELSE Goto(p, "store") /\ got' = [got EXCEPT ![p] = server]
    /\ UNCHANGED <<server, files, cached, sent, seen, loaded>>

MutStoreMetaFirst(p) ==
    /\ \/ At(p, "store") /\ UNCHANGED tlpdb /\ Goto(p, "record")
          /\ meta' = [digest |-> got[p], etag |-> got[p]]
       \/ At(p, "record") /\ tlpdb' = got[p] /\ UNCHANGED meta /\ Goto(p, "load")
    /\ UNCHANGED <<server, locals>>

\* publish_tlpdb_cache: first the tlpdb, then its record.
StoreTlpdb(p) ==
    /\ At(p, "store")
    /\ tlpdb' = got[p]
    /\ Goto(p, "record")
    /\ UNCHANGED <<server, meta, locals>>

StoreMeta(p) ==
    /\ At(p, "record")
    /\ meta' = [digest |-> got[p], etag |-> got[p]]
    /\ Goto(p, "load")
    /\ UNCHANGED <<server, tlpdb, locals>>

-----------------------------------------------------------------------------
(* verify_cached_tlpdb.                                                    *)

VerifyRead(p) ==
    /\ At(p, "verify")
    /\ seen' = [seen EXCEPT ![p] = tlpdb]
    /\ IF tlpdb = 0 THEN Leave(p, "failed") ELSE Goto(p, "compare")
    /\ UNCHANGED <<server, files, cached, sent, got, since, loaded>>

Compare(p) ==
    /\ At(p, "compare")
    /\ \/ ~Recorded /\ Goto(p, "remember")
       \/ Recorded /\ meta.digest = seen[p] /\ Goto(p, "load")
       \/ Recorded /\ meta.digest # seen[p] /\ Leave(p, "inconsistent")
    /\ UNCHANGED <<server, files, locals>>

MutRememberNoValidator(p) ==
    /\ At(p, "remember")
    /\ meta' = [digest |-> seen[p]]
    /\ Goto(p, "load")
    /\ UNCHANGED <<server, tlpdb, locals>>

\* A missing record is rebuilt from the file, without a validator.
Remember(p) ==
    /\ At(p, "remember")
    /\ meta' = [digest |-> seen[p], etag |-> 0]
    /\ Goto(p, "load")
    /\ UNCHANGED <<server, tlpdb, locals>>

\* load_tlpdb_index reads the file again, by its path.
Load(p) ==
    /\ At(p, "load")
    /\ loaded' = [loaded EXCEPT ![p] = tlpdb]
    /\ IF tlpdb = 0 THEN Leave(p, "failed") ELSE Leave(p, "ok")
    /\ UNCHANGED <<server, files, cached, sent, got, seen, since>>

-----------------------------------------------------------------------------
\* A request, a read or a write fails.
IoError(p) ==
    /\ pc[p] \notin {"idle", "look"}
    /\ Leave(p, "faulted")
    /\ UNCHANGED <<server, files, locals>>

Crash(p) ==
    /\ pc[p] # "idle"
    /\ Leave(p, "crashed")
    /\ UNCHANGED <<server, files, locals>>

\* A rolling registry publishes its next version.
Publish ==
    /\ server < MaxVersion
    /\ server' = server + 1
    /\ UNCHANGED <<files, pc, policy, result, locals>>

\* The cache directory is cleaned, one file at a time.
Purge ==
    /\ \/ tlpdb # 0 /\ tlpdb' = 0 /\ UNCHANGED meta
       \/ Recorded /\ meta' = NoMeta /\ UNCHANGED tlpdb
    /\ UNCHANGED <<server, pc, policy, result, locals>>

Work(p) ==
    \/ Look(p) \/ Conditions(p) \/ Request(p) \/ StoreTlpdb(p) \/ StoreMeta(p)
    \/ VerifyRead(p) \/ Compare(p) \/ Remember(p) \/ Load(p)

Next ==
    \/ \E p \in Procs : Begin(p) \/ Work(p) \/ IoError(p) \/ Crash(p)
    \/ Publish
    \/ Purge

Spec == Init /\ [][Next]_vars

\* Nothing fails: only the interleaving of the calls and the registry's releases.
FaultlessSpec == Init /\ [][Publish \/ \E p \in Procs : Begin(p) \/ Work(p)]_vars

\* Users ask again and calls run to their end.
FairSpec == Spec /\ \A p \in Procs : WF_vars(Begin(p)) /\ WF_vars(Work(p))

\* From some moment on nothing fails, exits or is cleaned, and the registry stays
\* as it is.
Disturbance == Publish \/ Purge \/ \E p \in Procs : IoError(p) \/ Crash(p)
Calm == <>[][~Disturbance]_vars

-----------------------------------------------------------------------------
(* Properties.                                                             *)

\* A revalidated load is at least as new as the registry's answer to it.
RevalidatedIsFresh ==
    \A p \in Procs :
       policy[p] = "revalidate" /\ result[p] = "ok" => loaded[p] >= since[p]

\* With one immutable version nobody ever sees the two files disagree, however
\* many processes fetch, exit or fail at once (dated snapshots).
NeverInconsistent == \A p \in Procs : result[p] # "inconsistent"

\* Whatever was left behind by exits, failures and cleanings, a revalidating call
\* of the only process succeeds again by itself once they stop: no combination of
\* the two files is stuck.
RevalidationRecovers ==
    Calm => <>[](\A p \in Procs : policy[p] = "revalidate" => result[p] \in {"none", "ok"})

\* architecture.md: "Artifact/cache replacement remains explicit and atomic".
\* So once all calls have ended, a cache entry whose validator is the current one
\* holds the current snapshot; otherwise every further revalidation is answered
\* 304 and ends with the inconsistency error.
QuietCacheRevalidates ==
    /\ \A p \in Procs : pc[p] = "idle"
    /\ tlpdb # 0
    /\ meta.etag = server
    => meta.digest = tlpdb
=============================================================================
