--------------------------- MODULE RegistryCacheProofs ---------------------------
(***************************************************************************)
(* What holds of the registry cache for every number of processes.         *)
(***************************************************************************)
EXTENDS RegistryCache, TLAPS

\* The cache keeps its types: whatever any call stores, loads or remembers is a
\* version the registry has published, or nothing.
THEOREM CacheTypes == Spec => []CacheTypeOK
<1>1. Init => CacheTypeOK
  BY CacheAssumption DEF Init, CacheTypeOK, Versions, MaybeVersion, Meta, NoMeta,
     Steps, Outcomes
<1>2. CacheTypeOK /\ [Next]_vars => CacheTypeOK'
  <2> SUFFICES ASSUME CacheTypeOK, [Next]_vars PROVE CacheTypeOK'
    OBVIOUS
  <2> USE CacheAssumption DEF CacheTypeOK, Versions, MaybeVersion, Meta, NoMeta,
          Steps, Outcomes, Recorded, At, Goto, Leave, files, locals
  <2>1. ASSUME NEW p \in Procs, Begin(p) PROVE CacheTypeOK'
    BY <2>1 DEF Begin
  <2>2. ASSUME NEW p \in Procs, Look(p) PROVE CacheTypeOK'
    BY <2>2 DEF Look
  <2>3. ASSUME NEW p \in Procs, Conditions(p) PROVE CacheTypeOK'
    BY <2>3 DEF Conditions
  <2>4. ASSUME NEW p \in Procs, Request(p) PROVE CacheTypeOK'
    BY <2>4 DEF Request
  <2>5. ASSUME NEW p \in Procs, StoreTlpdb(p) PROVE CacheTypeOK'
    BY <2>5 DEF StoreTlpdb
  <2>6. ASSUME NEW p \in Procs, StoreMeta(p) PROVE CacheTypeOK'
    BY <2>6 DEF StoreMeta
  <2>7. ASSUME NEW p \in Procs, VerifyRead(p) PROVE CacheTypeOK'
    BY <2>7 DEF VerifyRead
  <2>8. ASSUME NEW p \in Procs, Compare(p) PROVE CacheTypeOK'
    BY <2>8 DEF Compare
  <2>9. ASSUME NEW p \in Procs, Remember(p) PROVE CacheTypeOK'
    BY <2>9 DEF Remember
  <2>10. ASSUME NEW p \in Procs, Load(p) PROVE CacheTypeOK'
    BY <2>10 DEF Load
  <2>11. ASSUME NEW p \in Procs, IoError(p) \/ Crash(p) PROVE CacheTypeOK'
    BY <2>11 DEF IoError, Crash
  <2>12. CASE Publish
    BY <2>12 DEF Publish
  <2>13. CASE Purge
    BY <2>13 DEF Purge
  <2>14. CASE UNCHANGED vars
    BY <2>14 DEF vars
  <2> QED
    BY <2>1, <2>2, <2>3, <2>4, <2>5, <2>6, <2>7, <2>8, <2>9, <2>10, <2>11, <2>12,
       <2>13, <2>14 DEF Next, Work
<1> QED
  BY <1>1, <1>2, PTL DEF Spec

-----------------------------------------------------------------------------
(* Dated snapshots: the registry has one version.                          *)

\* What a call carries when it is about to write or to compare is that version,
\* so a record, whoever wrote it and when, describes the only file there can be.
CarriesTheVersion(p) ==
    /\ pc[p] \in {"store", "record"} => got[p] = 1
    /\ pc[p] \in {"compare", "remember"} => seen[p] = 1
    /\ result[p] # "inconsistent"

DatedInv ==
    /\ CacheTypeOK
    /\ Recorded => meta.digest = 1
    /\ \A p \in Procs : CarriesTheVersion(p)

\* However many processes fetch, revalidate, fail, exit or clean at once, no call
\* for a dated snapshot reports its two cache files inconsistent, though they are
\* written one after the other without a lock.
THEOREM DatedIsConsistent ==
  ASSUME MaxVersion = 1
  PROVE  Spec => []NeverInconsistent
<1> USE DEF CarriesTheVersion
<1>1. Init => DatedInv
  BY CacheAssumption DEF Init, DatedInv, Recorded, CacheTypeOK, Versions, MaybeVersion, Meta,
     NoMeta, Steps, Outcomes
<1>2. CacheTypeOK' /\ DatedInv /\ [Next]_vars => DatedInv'
  <2> SUFFICES ASSUME CacheTypeOK', DatedInv, [Next]_vars PROVE DatedInv'
    OBVIOUS
  <2> USE MaxVersion = 1 DEF DatedInv, CacheTypeOK, Versions, MaybeVersion, Meta,
          NoMeta, Steps, Outcomes, Recorded, At, Goto, Leave, files, locals
  <2>1. ASSUME NEW p \in Procs, Begin(p) PROVE DatedInv'
    BY <2>1 DEF Begin
  <2>2. ASSUME NEW p \in Procs, Look(p) PROVE DatedInv'
    BY <2>2 DEF Look
  <2>3. ASSUME NEW p \in Procs, Conditions(p) PROVE DatedInv'
    BY <2>3 DEF Conditions
  <2>4. ASSUME NEW p \in Procs, Request(p) PROVE DatedInv'
    BY <2>4 DEF Request
  <2>5. ASSUME NEW p \in Procs, StoreTlpdb(p) PROVE DatedInv'
    BY <2>5 DEF StoreTlpdb
  <2>6. ASSUME NEW p \in Procs, StoreMeta(p) PROVE DatedInv'
    BY <2>6 DEF StoreMeta
  <2>7. ASSUME NEW p \in Procs, VerifyRead(p) PROVE DatedInv'
    BY <2>7 DEF VerifyRead
  <2>8. ASSUME NEW p \in Procs, Compare(p) PROVE DatedInv'
    BY <2>8 DEF Compare
  <2>9. ASSUME NEW p \in Procs, Remember(p) PROVE DatedInv'
    BY <2>9 DEF Remember
  <2>10. ASSUME NEW p \in Procs, Load(p) PROVE DatedInv'
    BY <2>10 DEF Load
  <2>11. ASSUME NEW p \in Procs, IoError(p) \/ Crash(p) PROVE DatedInv'
    BY <2>11 DEF IoError, Crash
  <2>12. CASE Publish
    BY <2>12 DEF Publish
  <2>13. CASE Purge
    BY <2>13 DEF Purge
  <2>14. CASE UNCHANGED vars
    BY <2>14 DEF vars
  <2> QED
    BY <2>1, <2>2, <2>3, <2>4, <2>5, <2>6, <2>7, <2>8, <2>9, <2>10, <2>11, <2>12,
       <2>13, <2>14 DEF Next, Work
<1>3. DatedInv => NeverInconsistent
  BY DEF DatedInv, NeverInconsistent
<1> QED
  BY <1>1, <1>2, <1>3, CacheTypes, PTL DEF Spec

-----------------------------------------------------------------------------
(* A rolling registry whose callers come one after the other.              *)

\* No two calls overlap, whatever fails, exits or is cleaned.
OneAtATime ==
    \A p, q \in Procs : pc[p] # "idle" /\ pc[q] # "idle" => p = q

\* A lower bound that a tlpdb meets unless it is missing.
HasAtLeast(version) == tlpdb = 0 \/ tlpdb >= version

\* What a call carries is not older than the files, and what it was answered 304 for is
\* not newer: exits leave the record behind the tlpdb, never ahead of it.
CarriesNewer(p) ==
    /\ pc[p] = "request" => HasAtLeast(sent[p])
    /\ pc[p] \in {"store", "record"} =>
         /\ got[p] = since[p] /\ got[p] >= tlpdb /\ got[p] >= meta.etag
         /\ got[p] <= server
    /\ pc[p] = "record" => tlpdb \in {0, got[p]}
    /\ pc[p] \in {"verify", "compare", "remember", "load"} /\ policy[p] = "revalidate"
       => HasAtLeast(since[p])
    /\ pc[p] # "idle" => result[p] # "ok"
    /\ policy[p] = "revalidate" /\ result[p] = "ok" => loaded[p] >= since[p]

FreshInv ==
    /\ tlpdb <= server /\ meta.etag <= server
    /\ HasAtLeast(meta.etag)
    /\ meta.etag \in {0, meta.digest}
    /\ \A p \in Procs : CarriesNewer(p)

LEMMA FreshInit == Init => FreshInv
  BY DEF Init, FreshInv, CarriesNewer, HasAtLeast, NoMeta

\* The calls that have ended carry nothing that a step of another could outdate.
LEMMA IdleCarriesNewer ==
  ASSUME FreshInv, NEW q \in Procs, pc[q] = "idle", pc'[q] = "idle",
         policy'[q] = policy[q], result'[q] = result[q], loaded'[q] = loaded[q],
         since'[q] = since[q]
  PROVE  CarriesNewer(q)'
  BY DEF FreshInv, CarriesNewer

LEMMA FreshNext ==
  CacheTypeOK /\ OneAtATime /\ FreshInv /\ [Next]_vars => FreshInv'
<1> SUFFICES ASSUME CacheTypeOK, OneAtATime, FreshInv, [Next]_vars PROVE FreshInv'
  OBVIOUS
<1> DEFINE Files == /\ (tlpdb <= server /\ meta.etag <= server)'
                    /\ HasAtLeast(meta.etag)'
                    /\ (meta.etag \in {0, meta.digest})'
<1>1. ASSUME NEW p \in Procs, Begin(p) \/ Work(p) \/ IoError(p) \/ Crash(p)
      PROVE  FreshInv'
  <2>1. /\ tlpdb \in Nat /\ server \in Nat /\ meta.etag \in Nat
        /\ sent[p] \in Nat /\ got[p] \in Nat /\ since[p] \in Nat /\ loaded[p] \in Nat
    BY CacheAssumption DEF CacheTypeOK, Versions, MaybeVersion, Meta
  <2>2. FreshInv /\ CarriesNewer(p)
    BY DEF FreshInv
  <2>3. Files /\ CarriesNewer(p)'
    <3> USE <2>1, <2>2
        DEF FreshInv, CarriesNewer, HasAtLeast, CacheTypeOK, At, Goto, Leave, files, locals
    <3>1. CASE Begin(p)
      BY <3>1 DEF Begin
    <3>2. CASE Look(p)
      BY <3>2 DEF Look
    <3>3. CASE Conditions(p)
      BY <3>3 DEF Conditions
    <3>4. CASE Request(p)
      BY <3>4 DEF Request
    <3>5. CASE StoreTlpdb(p)
      BY <3>5 DEF StoreTlpdb
    <3>6. CASE StoreMeta(p)
      BY <3>6 DEF StoreMeta
    <3>7. CASE VerifyRead(p)
      BY <3>7 DEF VerifyRead
    <3>8. CASE Compare(p)
      BY <3>8 DEF Compare
    <3>9. CASE Remember(p)
      BY <3>9 DEF Remember
    <3>10. CASE Load(p)
      BY <3>10 DEF Load
    <3>11. CASE IoError(p) \/ Crash(p)
      BY <3>11 DEF IoError, Crash
    <3> QED
      BY <1>1, <3>1, <3>2, <3>3, <3>4, <3>5, <3>6, <3>7, <3>8, <3>9, <3>10, <3>11 DEF Work
  <2>4. ASSUME NEW q \in Procs, q # p PROVE CarriesNewer(q)'
    <3>1. /\ pc'[q] = pc[q] /\ policy'[q] = policy[q] /\ result'[q] = result[q]
          /\ loaded'[q] = loaded[q] /\ since'[q] = since[q]
      BY <1>1, <2>4
         DEF CacheTypeOK, Begin, Work, Look, Conditions, Request, StoreTlpdb, StoreMeta,
             VerifyRead, Compare, Remember, Load, IoError, Crash, Goto, Leave, locals
    <3>2. CASE pc[q] = "idle"
      BY <3>1, <3>2, IdleCarriesNewer
    <3>3. CASE pc[q] # "idle"
      <4>1. pc[p] = "idle" /\ Begin(p)
        BY <1>1, <2>4, <3>3
           DEF OneAtATime, Work, Look, Conditions, Request, StoreTlpdb, StoreMeta, VerifyRead,
               Compare, Remember, Load, IoError, Crash, At
      <4>2. /\ UNCHANGED <<server, tlpdb, meta>>
            /\ sent'[q] = sent[q] /\ got'[q] = got[q]
        BY <2>4, <4>1 DEF Begin, CacheTypeOK, files
      <4> QED
        BY <3>1, <4>2 DEF FreshInv, CarriesNewer, HasAtLeast
    <3> QED
      BY <3>2, <3>3
  <2> QED
    BY <2>3, <2>4 DEF FreshInv
<1>2. CASE Publish \/ Purge
  <2>1. /\ tlpdb \in Nat /\ server \in Nat /\ meta.etag \in Nat
        /\ \A p \in Procs : got[p] \in Nat
    BY CacheAssumption DEF CacheTypeOK, Versions, MaybeVersion, Meta
  <2>2. /\ server' \in Nat /\ server' >= server
        /\ tlpdb' \in {0, tlpdb} /\ meta'.etag \in {0, meta.etag}
        /\ meta' = meta \/ meta'.etag = 0
        /\ UNCHANGED <<pc, policy, result, locals>>
    BY <1>2, <2>1 DEF Publish, Purge, NoMeta, files
  <2>3. ASSUME NEW p \in Procs PROVE CarriesNewer(p)'
    BY <2>1, <2>2 DEF FreshInv, CarriesNewer, HasAtLeast, locals
  <2> QED
    BY <2>1, <2>2, <2>3 DEF FreshInv, HasAtLeast
<1>3. CASE UNCHANGED vars
  BY <1>3 DEF vars, FreshInv, CarriesNewer, HasAtLeast
<1> QED
  BY <1>1, <1>2, <1>3 DEF Next

\* As long as calls do not overlap, a revalidating call loads the registry's answer or
\* something newer, from whatever pair of files failures, exits and cleanings left.
THEOREM SerialIsFresh == Spec /\ []OneAtATime => []RevalidatedIsFresh
<1>1. FreshInv => RevalidatedIsFresh
  BY DEF FreshInv, CarriesNewer, RevalidatedIsFresh
<1> QED
  BY <1>1, CacheTypes, FreshInit, FreshNext, PTL DEF Spec

\* In particular when there is one process, as in run cache_solo.
THEOREM SoloIsFresh ==
  ASSUME \A p, q \in Procs : p = q
  PROVE  Spec => []RevalidatedIsFresh
<1>1. OneAtATime
  BY DEF OneAtATime
<1> QED
  BY <1>1, SerialIsFresh, PTL

\* What two overlapping calls can spoil, calls that do not overlap keep: a cache entry at
\* rest whose validator is the current one is a consistent pair, even after exits between
\* the two writes and after cleanings.
THEOREM SerialCacheRevalidates == Spec /\ []OneAtATime => []QuietCacheRevalidates
<1>1. CacheTypeOK /\ FreshInv => QuietCacheRevalidates
  BY CacheAssumption
     DEF CacheTypeOK, Versions, MaybeVersion, Meta, FreshInv, HasAtLeast, QuietCacheRevalidates
<1> QED
  BY <1>1, CacheTypes, FreshInit, FreshNext, PTL DEF Spec

\* A call that was answered 304 sent the validator of the only pair there was: since then
\* files may have gone away, but not changed.
Unmodified(p) ==
    policy[p] = "revalidate" =>
      /\ pc[p] = "request" /\ sent[p] # 0 => meta.digest \in {0, sent[p]}
      /\ pc[p] \in {"verify", "compare"} => /\ meta.digest \in {0, since[p]}
                                          /\ tlpdb \in {0, since[p]}
      /\ pc[p] = "compare" => seen[p] = since[p]
      /\ result[p] # "inconsistent"

UnmodifiedInv == \A p \in Procs : Unmodified(p)

LEMMA UnmodifiedNext ==
  CacheTypeOK /\ OneAtATime /\ FreshInv /\ UnmodifiedInv /\ [Next]_vars => UnmodifiedInv'
<1> SUFFICES ASSUME CacheTypeOK, OneAtATime, FreshInv, UnmodifiedInv, [Next]_vars,
                    NEW q \in Procs
             PROVE  Unmodified(q)'
  BY DEF UnmodifiedInv
<1>1. Unmodified(q) /\ CarriesNewer(q) /\ HasAtLeast(meta.etag) /\ tlpdb <= server
      /\ meta.etag \in {0, meta.digest}
  BY DEF UnmodifiedInv, FreshInv
<1>2. /\ tlpdb \in Nat /\ server \in Nat \ {0} /\ meta.etag \in Nat /\ sent[q] \in Nat
      /\ meta.digest \in Nat /\ since[q] \in Nat
  BY CacheAssumption DEF CacheTypeOK, Versions, MaybeVersion, Meta
<1>3. ASSUME NEW p \in Procs, p # q, Begin(p) \/ Work(p) \/ IoError(p) \/ Crash(p)
      PROVE  Unmodified(q)'
  <2>1. /\ pc'[q] = pc[q] /\ policy'[q] = policy[q] /\ result'[q] = result[q]
        /\ sent'[q] = sent[q] /\ seen'[q] = seen[q] /\ since'[q] = since[q]
    BY <1>3
       DEF CacheTypeOK, Begin, Work, Look, Conditions, Request, StoreTlpdb, StoreMeta,
           VerifyRead, Compare, Remember, Load, IoError, Crash, Goto, Leave, locals
  <2>2. pc[q] = "idle" \/ UNCHANGED <<tlpdb, meta>>
    <3>1. CASE Begin(p)
      BY <3>1 DEF Begin, files
    <3>2. CASE ~ Begin(p)
      BY <1>3, <3>2
         DEF OneAtATime, Work, Look, Conditions, Request, StoreTlpdb, StoreMeta, VerifyRead,
             Compare, Remember, Load, IoError, Crash, At
    <3> QED
      BY <3>1, <3>2
  <2> QED
    BY <1>1, <2>1, <2>2 DEF Unmodified
<1>4. ASSUME Begin(q) \/ Work(q) \/ IoError(q) \/ Crash(q) PROVE Unmodified(q)'
  <2> USE <1>1, <1>2
      DEF Unmodified, CarriesNewer, HasAtLeast, CacheTypeOK, At, Goto, Leave, files, locals
  <2>1. CASE Begin(q)
    BY <2>1 DEF Begin
  <2>2. CASE Look(q)
    BY <2>2 DEF Look
  <2>3. CASE Conditions(q)
    BY <2>3 DEF Conditions
  <2>4. CASE Request(q)
    BY <2>4 DEF Request
  <2>5. CASE StoreTlpdb(q) \/ StoreMeta(q) \/ Remember(q) \/ Load(q)
    BY <2>5 DEF StoreTlpdb, StoreMeta, Remember, Load
  <2>6. CASE VerifyRead(q)
    BY <2>6 DEF VerifyRead
  <2>7. CASE Compare(q)
    BY <2>7 DEF Compare, Recorded
  <2>8. CASE IoError(q) \/ Crash(q)
    BY <2>8 DEF IoError, Crash
  <2> QED
    BY <1>4, <2>1, <2>2, <2>3, <2>4, <2>5, <2>6, <2>7, <2>8 DEF Work
<1>5. CASE Publish \/ Purge
  <2>1. /\ tlpdb' \in {0, tlpdb} /\ meta'.digest \in {0, meta.digest}
        /\ UNCHANGED <<pc, policy, result, sent, seen, since>>
    BY <1>2, <1>5 DEF Publish, Purge, NoMeta, files, locals
  <2> QED
    BY <1>1, <2>1 DEF Unmodified
<1>6. CASE UNCHANGED vars
  BY <1>1, <1>6 DEF vars, Unmodified
<1> QED
  BY <1>3, <1>4, <1>5, <1>6 DEF Next

\* A revalidating call that overlaps with no other never reports the two files
\* inconsistent, whatever exits, failures and cleanings left: the safety half of
\* RevalidationRecovers.
THEOREM SerialRevalidationIsConsistent ==
  Spec /\ []OneAtATime
  => [](\A p \in Procs : policy[p] = "revalidate" => result[p] # "inconsistent")
<1>1. Init => UnmodifiedInv
  BY DEF Init, UnmodifiedInv, Unmodified
<1>2. UnmodifiedInv
      => (\A p \in Procs : policy[p] = "revalidate" => result[p] # "inconsistent")
  BY DEF UnmodifiedInv, Unmodified
<1> QED
  BY <1>1, <1>2, CacheTypes, FreshInit, FreshNext, UnmodifiedNext, PTL DEF Spec
-----------------------------------------------------------------------------
(* Recovery from what a failure left behind.                               *)

Revalidated(p) == policy[p] = "revalidate" /\ pc[p] # "idle" /\ pc'[p] = "idle"
Succeeds == \A p \in Procs : Revalidated(p) => result'[p] = "ok"

\* The call counts on a tlpdb that has been cleaned away meanwhile.
Doomed(p) ==
    /\ policy[p] = "revalidate"
    /\ tlpdb = 0
    /\ \/ pc[p] = "conditions" /\ cached[p]
       \/ pc[p] = "request" /\ sent[p] # 0
       \/ pc[p] \in {"record", "verify", "compare", "remember", "load"}
SomeDoomed == \E p \in Procs : Doomed(p)

\* What was fetched is a version.
Fetched == \A p \in Procs : pc[p] \in {"store", "record"} => got[p] # 0

\* A step of one call leaves the others where they are.
LEMMA OthersStay ==
  ASSUME CacheTypeOK, NEW p \in Procs, NEW q \in Procs, p # q,
         Begin(p) \/ Work(p) \/ IoError(p) \/ Crash(p)
  PROVE  /\ pc'[q] = pc[q] /\ policy'[q] = policy[q] /\ result'[q] = result[q]
         /\ cached'[q] = cached[q] /\ sent'[q] = sent[q] /\ got'[q] = got[q]
BY DEF CacheTypeOK, Begin, Work, Look, Conditions, Request, StoreTlpdb, StoreMeta,
       VerifyRead, Compare, Remember, Load, IoError, Crash, Goto, Leave, locals

LEMMA FetchedNext == CacheTypeOK /\ Fetched /\ [Next]_vars => Fetched'
<1> SUFFICES ASSUME CacheTypeOK, Fetched, [Next]_vars,
                    NEW q \in Procs, pc'[q] \in {"store", "record"}
             PROVE  got'[q] # 0
  BY DEF Fetched
<1>1. ASSUME NEW p \in Procs, p # q, Begin(p) \/ Work(p) \/ IoError(p) \/ Crash(p)
      PROVE  got'[q] # 0
  BY <1>1, OthersStay DEF Fetched
<1>2. CASE Request(q)
  BY <1>2, CacheAssumption DEF Request, Goto, CacheTypeOK, Versions
<1>3. CASE Begin(q) \/ IoError(q) \/ Crash(q) \/ (Work(q) /\ ~Request(q))
  BY <1>3 DEF Fetched, CacheTypeOK, At, Goto, Leave, locals, Begin, IoError, Crash, Work, Look,
     Conditions, StoreTlpdb, StoreMeta, VerifyRead, Compare, Remember, Load
<1>4. CASE Publish \/ Purge \/ UNCHANGED vars
  BY <1>4 DEF Fetched, Publish, Purge, vars, locals
<1> QED
  BY <1>1, <1>2, <1>3, <1>4 DEF Next

\* A call's own step never dooms it, and ends well unless it was doomed.
LEMMA OwnStep ==
  ASSUME CacheTypeOK, FreshInv, UnmodifiedInv, Fetched, NEW p \in Procs, Begin(p) \/ Work(p)
  PROVE  /\ Doomed(p)' => Doomed(p)
         /\ Revalidated(p) => result'[p] = "ok" \/ Doomed(p)
<1>1. CarriesNewer(p) /\ Unmodified(p) /\ (pc[p] \in {"store", "record"} => got[p] # 0)
  BY DEF FreshInv, UnmodifiedInv, Fetched
<1>2. tlpdb \in Nat /\ server \in Nat \ {0} /\ got[p] \in Nat /\ sent[p] \in Nat /\ since[p] \in Nat
  BY CacheAssumption DEF CacheTypeOK, Versions, MaybeVersion
<1> USE <1>1, <1>2
    DEF Doomed, Revalidated, CacheTypeOK, At, Goto, Leave, files, locals
<1>3. CASE Begin(p)  BY <1>3 DEF Begin
<1>4. CASE Look(p)  BY <1>4 DEF Look
<1>5. CASE Conditions(p)  BY <1>5 DEF Conditions
<1>6. CASE Request(p)  BY <1>6 DEF Request
<1>7. CASE StoreTlpdb(p)  BY <1>7 DEF StoreTlpdb
<1>8. CASE StoreMeta(p)  BY <1>8 DEF StoreMeta
<1>9. CASE VerifyRead(p)  BY <1>9 DEF VerifyRead
<1>10. CASE Compare(p)  BY <1>10 DEF Compare, Recorded, Unmodified
<1>11. CASE Remember(p)  BY <1>11 DEF Remember
<1>12. CASE Load(p)  BY <1>12 DEF Load
<1> QED
  BY <1>3, <1>4, <1>5, <1>6, <1>7, <1>8, <1>9, <1>10, <1>11, <1>12 DEF Work

\* While nothing disturbs the cache no further call is doomed, and when one fails,
\* the last doomed call has gone.
LEMMA UndisturbedStep ==
  ASSUME CacheTypeOK, OneAtATime, OneAtATime', FreshInv, UnmodifiedInv, Fetched,
         NEW p \in Procs, Begin(p) \/ Work(p)
  PROVE  /\ SomeDoomed' => SomeDoomed
         /\ Succeeds \/ (SomeDoomed /\ ~SomeDoomed')
<1>1. ASSUME NEW q \in Procs, Doomed(q)'  PROVE Doomed(q)
  <2>1. CASE q = p
    BY <1>1, <2>1, OwnStep
  <2>2. CASE q # p
    <3>1. pc[q] # "idle" /\ pc'[q] # "idle"
      BY <1>1, <2>2, OthersStay DEF Doomed
    <3>2. Begin(p)
      BY <2>2, <3>1
         DEF OneAtATime, Work, Look, Conditions, Request, StoreTlpdb, StoreMeta, VerifyRead,
             Compare, Remember, Load, At
    <3> QED
      BY <1>1, <2>2, <3>2, OthersStay DEF Doomed, Begin, files
  <2> QED
    BY <2>1, <2>2
<1>2. ASSUME NEW q \in Procs, Revalidated(q), result'[q] # "ok"
      PROVE  SomeDoomed /\ ~SomeDoomed'
  <2>1. q = p
    BY <1>2, OthersStay DEF Revalidated
  <2>2. Doomed(q)
    BY <1>2, <2>1, OwnStep
  <2>3. ASSUME NEW r \in Procs, Doomed(r)'  PROVE FALSE
    BY <1>1, <1>2, <2>3 DEF Revalidated, Doomed, OneAtATime
  <2> QED
    BY <2>2, <2>3 DEF SomeDoomed
<1> QED
  BY <1>1, <1>2 DEF SomeDoomed, Succeeds

\* Once failures, exits and cleanings stop, every revalidating call that ends has
\* succeeded, one call already under way perhaps excepted: from whatever they left
\* behind, calls that do not overlap recover by themselves.  RevalidationRecovers says
\* this of the results; it needs users who call again, which TLC checks.
THEOREM SerialRevalidationSucceeds ==
  Spec /\ []OneAtATime /\ Calm => <>[][Succeeds]_vars
<1> DEFINE Inv == CacheTypeOK /\ OneAtATime /\ FreshInv /\ UnmodifiedInv /\ Fetched
<1>1. Init => UnmodifiedInv /\ Fetched
  BY DEF Init, UnmodifiedInv, Unmodified, Fetched
<1>2. Spec /\ []OneAtATime => []Inv
  BY <1>1, CacheTypes, FreshInit, FreshNext, UnmodifiedNext, FetchedNext, PTL DEF Spec
<1>3. Inv /\ Inv' /\ [Next]_vars /\ [~Disturbance]_vars
      => /\ SomeDoomed' => SomeDoomed
         /\ [Succeeds]_vars \/ (SomeDoomed /\ ~SomeDoomed')
  <2> SUFFICES ASSUME Inv, Inv', [Next]_vars, [~Disturbance]_vars
               PROVE  /\ SomeDoomed' => SomeDoomed
                      /\ [Succeeds]_vars \/ (SomeDoomed /\ ~SomeDoomed')
    OBVIOUS
  <2>1. CASE UNCHANGED vars
    BY <2>1 DEF vars, SomeDoomed, Doomed
  <2>2. ASSUME NEW p \in Procs, Begin(p) \/ Work(p)
        PROVE  /\ SomeDoomed' => SomeDoomed
               /\ [Succeeds]_vars \/ (SomeDoomed /\ ~SomeDoomed')
    BY <2>2, UndisturbedStep
  <2> QED
    BY <2>1, <2>2 DEF Next, Disturbance
<1> HIDE DEF Inv
<1> QED
  BY <1>2, <1>3, PTL DEF Spec, Calm
==================================================================================
