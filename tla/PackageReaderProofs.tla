--------------------------- MODULE PackageReaderProofs ---------------------------
(***************************************************************************)
(* Readers of a package file, for any number of tabs and any server.       *)
(***************************************************************************)
EXTENDS PackageReader, SequenceTheorems, TLAPS

\* The part of a call that runs under the Web Lock.
Locked == {"hash", "fetch", "body", "remove", "swallow", "open"}

ReaderInv ==
    /\ entry \in {"absent", "empty", "good", "bad"}
    /\ holder \in Tabs \union {NoTab}
    /\ handles \subseteq Tabs
    /\ at \in [Tabs -> Locked \union {"idle", "queued", "reading"}]
    /\ \A t \in Tabs : at[t] \in Locked => holder = t
    /\ \A t \in Tabs : t \in handles => at[t] = "reading"
    /\ \A t \in Tabs : at[t] = "open" => entry = "good"
    /\ ReadersVerified

\* A tab waits for the Web Lock exactly once, when its call is at that point.
QueueInv ==
    /\ queue \in Seq(Tabs)
    /\ IsInjective(queue)
    /\ \A t \in Tabs : at[t] = "queued" <=> Contains(queue, t)

-----------------------------------------------------------------------------
(* The queue of requests.                                                  *)

\* Removing an element that occurs once leaves the others, once each.
LEMMA RemoveOnce ==
  ASSUME NEW S, NEW s \in Seq(S), IsInjective(s), NEW e
  PROVE  /\ RemoveFirst(s, e) \in Seq(S)
         /\ IsInjective(RemoveFirst(s, e))
         /\ \A x \in S : Contains(RemoveFirst(s, e), x) <=> Contains(s, x) /\ x # e
<1>1. CASE ~ \E i \in 1..Len(s) : s[i] = e
  <2>1. RemoveFirst(s, e) = s
    BY <1>1 DEF RemoveFirst
  <2> QED
    BY <1>1, <2>1 DEF Contains
<1>2. CASE \E i \in 1..Len(s) : s[i] = e
  <2> DEFINE k == SelectInSeq(s, LAMBDA v : v = e)
             n == Len(s)
             front == SubSeq(s, 1, k - 1)
             back == SubSeq(s, k + 1, n)
             r == front \o back
  <2>1. n \in Nat /\ DOMAIN s = 1..n /\ \A i \in 1..n : s[i] \in S
    BY LenProperties, ElementOfSeq
  <2>2. k \in 1..n /\ s[k] = e
    <3>1. PICK i \in 1..n : s[i] = e
      BY <1>2
    <3>2. {j \in 1..n : s[j] = e} = {i}
      BY <2>1, <3>1 DEF IsInjective
    <3>3. k = Min({j \in 1..n : s[j] = e})
      BY <3>1 DEF SelectInSeq
    <3>4. Min({i}) = i
      BY <3>1, <2>1 DEF Min
    <3> QED
      BY <3>1, <3>2, <3>3, <3>4
  <2>3. RemoveFirst(s, e) = r
    BY <1>2 DEF RemoveFirst, RemoveAt
  <2> HIDE DEF k
  <2>4. /\ front \in Seq(S) /\ Len(front) = k - 1
        /\ \A i \in 1..k - 1 : front[i] = s[i]
    <3>1. \A i \in 1..k - 1 : s[i] \in S
      BY <2>1, <2>2
    <3> QED
      BY <2>1, <2>2, <3>1, SubSeqProperties
  <2>5. /\ back \in Seq(S) /\ Len(back) = n - k
        /\ \A i \in 1..n - k : back[i] = s[k + i]
    <3> HIDE DEF n
    <3>1. k + 1 \in Int /\ n \in Int /\ \A i \in k + 1..n : s[i] \in S
      BY <2>1, <2>2
    <3>2. /\ back \in Seq(S)
          /\ Len(back) = IF k + 1 <= n THEN n - (k + 1) + 1 ELSE 0
          /\ \A i \in 1..n - (k + 1) + 1 : back[i] = s[(k + 1) + i - 1]
      BY <3>1, SubSeqProperties
    <3> HIDE DEF back
    <3>3. n - (k + 1) + 1 = n - k /\ \A i \in 1..n - k : (k + 1) + i - 1 = k + i
      BY <2>1, <2>2
    <3> QED
      BY <2>1, <2>2, <3>2, <3>3
  <2> HIDE DEF front, back, n
  <2>6. /\ r \in Seq(S) /\ Len(r) = n - 1 /\ DOMAIN r = 1..n - 1
        /\ \A i \in 1..n - 1 : r[i] = IF i < k THEN s[i] ELSE s[i + 1]
    <3>1. /\ r \in Seq(S) /\ Len(r) = Len(front) + Len(back)
          /\ \A i \in 1..Len(front) + Len(back) :
                r[i] = IF i <= Len(front) THEN front[i] ELSE back[i - Len(front)]
      BY <2>4, <2>5, ConcatProperties
    <3> HIDE DEF r
    <3>2. Len(front) = k - 1 /\ Len(front) + Len(back) = n - 1
      BY <2>1, <2>2, <2>4, <2>5
    <3>3. ASSUME NEW i \in 1..n - 1 PROVE r[i] = IF i < k THEN s[i] ELSE s[i + 1]
      <4>1. CASE i < k
        BY <2>1, <2>2, <2>4, <3>1, <3>2, <4>1
      <4>2. CASE ~ (i < k)
        <5>1. i - (k - 1) \in 1..n - k /\ k + (i - (k - 1)) = i + 1
          BY <2>1, <2>2, <4>2
        <5>2. r[i] = back[i - (k - 1)]
          BY <2>1, <2>2, <3>1, <3>2, <4>2
        <5> QED
          BY <2>5, <4>2, <5>1, <5>2
      <4> QED
        BY <4>1, <4>2
    <3> QED
      BY <3>1, <3>2, <3>3, LenProperties
  <2> HIDE DEF r
  <2>7. IsInjective(r)
    <3>1. ASSUME NEW i \in 1..n - 1, NEW j \in 1..n - 1, r[i] = r[j] PROVE i = j
      <4> DEFINE from(m) == IF m < k THEN m ELSE m + 1
      <4>1. /\ from(i) \in 1..n /\ r[i] = s[from(i)]
            /\ from(j) \in 1..n /\ r[j] = s[from(j)]
        BY <2>1, <2>2, <2>6
      <4>2. from(i) = from(j)
        BY <2>1, <3>1, <4>1 DEF IsInjective
      <4> QED
        BY <2>1, <2>2, <4>2
    <3> QED
      BY <2>6, <3>1 DEF IsInjective
  <2>8. ASSUME NEW x \in S PROVE Contains(r, x) <=> Contains(s, x) /\ x # e
    <3>1. ASSUME Contains(r, x) PROVE Contains(s, x) /\ x # e
      <4>1. PICK i \in 1..n - 1 : r[i] = x
        BY <2>6, <3>1 DEF Contains
      <4>2. PICK j \in 1..n : j # k /\ s[j] = x
        BY <2>1, <2>2, <2>6, <4>1
      <4> QED
        BY <2>1, <2>2, <4>2 DEF Contains, IsInjective, n
    <3>2. ASSUME Contains(s, x), x # e PROVE Contains(r, x)
      <4>1. PICK j \in 1..n : s[j] = x
        BY <3>2 DEF Contains, n
      <4>2. j # k
        BY <2>2, <3>2, <4>1
      <4>3. PICK i \in 1..n - 1 : r[i] = x
        <5>1. CASE j < k
          BY <2>1, <2>2, <2>6, <4>1, <5>1
        <5>2. CASE j > k
          <6>1. j - 1 \in 1..n - 1 /\ r[j - 1] = s[j]
            BY <2>1, <2>2, <2>6, <4>1, <5>2
          <6> QED
            BY <4>1, <6>1
        <5> QED
          BY <2>1, <2>2, <4>1, <4>2, <5>1, <5>2
      <4> QED
        BY <2>6, <4>3 DEF Contains
    <3> QED
      BY <3>1, <3>2
  <2> QED
    BY <2>3, <2>6, <2>7, <2>8
<1> QED
  BY <1>1, <1>2

\* A new request is the last, and the only one of its tab.
LEMMA AppendOnce ==
  ASSUME NEW S, NEW s \in Seq(S), IsInjective(s), NEW e \in S, ~ Contains(s, e)
  PROVE  /\ Append(s, e) \in Seq(S)
         /\ IsInjective(Append(s, e))
         /\ \A x \in S : Contains(Append(s, e), x) <=> Contains(s, x) \/ x = e
<1> DEFINE r == Append(s, e)
<1>1. /\ r \in Seq(S) /\ Len(r) = Len(s) + 1 /\ DOMAIN r = 1..Len(s) + 1
      /\ \A i \in 1..Len(s) : r[i] = s[i]
      /\ r[Len(s) + 1] = e
  BY AppendProperties, LenProperties
<1>2. Len(s) \in Nat /\ DOMAIN s = 1..Len(s)
  BY LenProperties
<1> HIDE DEF r
<1>3. IsInjective(r)
  BY <1>1, <1>2 DEF IsInjective, Contains
<1>4. \A x \in S : Contains(r, x) <=> Contains(s, x) \/ x = e
  BY <1>1, <1>2 DEF Contains
<1> QED
  BY <1>1, <1>3, <1>4 DEF r

\* The first request leaves the queue of the others.
LEMMA TailOnce ==
  ASSUME NEW S, NEW s \in Seq(S), IsInjective(s), s # <<>>
  PROVE  /\ Tail(s) \in Seq(S)
         /\ IsInjective(Tail(s))
         /\ \A x \in S : Contains(Tail(s), x) <=> Contains(s, x) /\ x # Head(s)
<1> DEFINE r == Tail(s)
<1>1. /\ r \in Seq(S) /\ Len(r) = Len(s) - 1 /\ DOMAIN r = 1..Len(s) - 1
      /\ \A i \in 1..Len(s) - 1 : r[i] = s[i + 1]
      /\ Head(s) = s[1]
  BY HeadTailProperties, LenProperties
<1>2. Len(s) \in Nat /\ Len(s) > 0 /\ DOMAIN s = 1..Len(s)
  BY LenProperties, EmptySeq
<1> HIDE DEF r
<1>3. IsInjective(r)
  BY <1>1, <1>2 DEF IsInjective
<1>4. ASSUME NEW x \in S PROVE Contains(r, x) <=> Contains(s, x) /\ x # s[1]
  <2>1. ASSUME Contains(r, x) PROVE Contains(s, x) /\ x # s[1]
    <3>1. PICK i \in 1..Len(s) - 1 : r[i] = x
      BY <1>1, <2>1 DEF Contains
    <3> QED
      BY <1>1, <1>2, <3>1 DEF Contains, IsInjective
  <2>2. ASSUME Contains(s, x), x # s[1] PROVE Contains(r, x)
    <3>1. PICK j \in 1..Len(s) : s[j] = x
      BY <2>2 DEF Contains
    <3>2. j - 1 \in 1..Len(s) - 1 /\ r[j - 1] = x
      BY <1>1, <1>2, <2>2, <3>1
    <3> QED
      BY <1>1, <3>2 DEF Contains
  <2> QED
    BY <2>1, <2>2
<1> QED
  BY <1>1, <1>3, <1>4 DEF r

-----------------------------------------------------------------------------
(* The calls.                                                              *)

LEMMA ReaderInit == Init => ReaderInv
  BY DEF Init, ReaderInv, Locked, ReadersVerified

\* Whoever changes the entry holds the lock, finds no handle open, or leaves it good.
LEMMA GrantInv ==
  ASSUME NoTab \notin Tabs, ReaderInv, NEW t \in Tabs, Grant(t) PROVE ReaderInv'
<1>1. \A u \in Tabs : at[u] \notin Locked
  BY DEF Grant, ReaderInv
<1>2. \/ entry \in {"good", "bad"} /\ at' = [at EXCEPT ![t] = "hash"] /\ entry' = entry
      \/ /\ entry \in {"absent", "empty"} /\ at' = [at EXCEPT ![t] = "fetch"]
         /\ entry' = "empty"
  BY DEF Grant, Goto
<1>3. holder' = t /\ handles' = handles /\ at[t] = "queued"
  BY DEF Grant
<1> QED
  BY <1>1, <1>2, <1>3 DEF ReaderInv, ReadersVerified, Locked

LEMMA LeaveInv ==
  ASSUME NoTab \notin Tabs, ReaderInv, NEW t \in Tabs, Leave(t),
         \/ entry' = entry
         \/ holder = t /\ handles = {} /\ entry' = "absent"
  PROVE ReaderInv'
<1>1. /\ at' = [at EXCEPT ![t] = "idle"] /\ handles' = handles \ {t}
      /\ holder' = IF holder = t THEN NoTab ELSE holder
  BY DEF Leave
<1>2. /\ \A u \in Tabs : at'[u] = IF u = t THEN "idle" ELSE at[u]
      /\ at' \in [Tabs -> Locked \union {"idle", "queued", "reading"}]
  BY <1>1 DEF ReaderInv
<1>3. \A u \in Tabs : at'[u] \in Locked => holder' = u
  BY <1>1, <1>2 DEF ReaderInv, Locked
<1>4. \A u \in Tabs : at'[u] = "open" => entry' = "good"
  BY <1>2, NoTab \notin Tabs DEF ReaderInv, Locked
<1> QED
  BY <1>1, <1>2, <1>3, <1>4 DEF ReaderInv, ReadersVerified

\* The steps of the lock's holder.
LEMMA HolderInv ==
  ASSUME NoTab \notin Tabs, ReaderInv, NEW t \in Tabs,
         \/ Hash(t) \/ Fetch(t) \/ Body(t) \/ Open(t)
         \/ ReadFault(t) \/ DownloadFault(t) \/ RemovalFault(t)
  PROVE ReaderInv'
<1>1. at[t] \in Locked /\ holder = t
  BY DEF Hash, Fetch, Body, Open, ReadFault, DownloadFault, RemovalFault, ReaderInv, Locked
<1>2. \A u \in Tabs \ {t} : at[u] \notin Locked
  BY <1>1 DEF ReaderInv
<1>3. CASE Open(t)
  <2>1. /\ at' = [at EXCEPT ![t] = "reading"] /\ handles' = handles \union {t}
        /\ holder' = NoTab /\ entry' = entry /\ entry = "good"
    BY <1>3 DEF Open, Goto, ReaderInv
  <2> QED
    BY <1>1, <1>2, <2>1 DEF ReaderInv, ReadersVerified, Locked
<1>4. CASE Hash(t) \/ Fetch(t) \/ Body(t) \/ ReadFault(t) \/ DownloadFault(t) \/ RemovalFault(t)
  <2>1. PICK step \in Locked :
           /\ at' = [at EXCEPT ![t] = step]
           /\ step = "open" => entry' = "good"
    BY <1>4 DEF Hash, Fetch, Body, ReadFault, DownloadFault, RemovalFault, Goto, Locked
  <2>2. entry' = entry \/ entry' = "good"
    BY <1>4 DEF Hash, Fetch, Body, ReadFault, DownloadFault, RemovalFault
  <2>3. holder' = holder /\ handles' = handles
    BY <1>4 DEF Hash, Fetch, Body, ReadFault, DownloadFault, RemovalFault
  <2> QED
    BY <1>1, <1>2, <2>1, <2>2, <2>3 DEF ReaderInv, ReadersVerified, Locked
<1> QED
  BY <1>3, <1>4

LEMMA ReaderNext == NoTab \notin Tabs /\ ReaderInv /\ [Next]_readerVars => ReaderInv'
<1> SUFFICES ASSUME NoTab \notin Tabs, ReaderInv, [Next]_readerVars PROVE ReaderInv'
  OBVIOUS
<1>1. ASSUME NEW t \in Tabs, Request(t) PROVE ReaderInv'
  BY <1>1 DEF Request, ReaderInv, ReadersVerified, Locked
<1>2. ASSUME NEW t \in Tabs,
             CloseReader(t) \/ Refuse(t) \/ Abort(t) \/ Kill(t) \/ RemoveEntry(t) \/ Swallow(t)
      PROVE  ReaderInv'
  <2>1. Leave(t)
    BY <1>2 DEF CloseReader, Refuse, Abort, Kill, RemoveEntry, Swallow
  <2>2. RemoveEntry(t) => holder = t
    BY DEF RemoveEntry, ReaderInv, Locked
  <2>3. \/ entry' = entry
        \/ holder = t /\ handles = {} /\ entry' = "absent"
    BY <1>2, <2>2 DEF CloseReader, Refuse, Abort, Kill, RemoveEntry, Swallow
  <2> QED
    BY <2>1, <2>3, LeaveInv
<1>3. CASE Spoil
  BY <1>3 DEF Spoil, ReaderInv, ReadersVerified, Locked
<1>4. CASE UNCHANGED readerVars
  BY <1>4 DEF readerVars, ReaderInv, ReadersVerified
<1> QED
  BY <1>1, <1>2, <1>3, <1>4, GrantInv, HolderInv DEF Next, Step, Trouble

\* Only a failed download is a failure, and it removes the entry unless somebody has
\* it open, or the storage fails.
LEMMA FailureStep ==
  ASSUME ReaderInv, [Next]_readerVars, NEW t \in Tabs, t \notin failed, t \in failed',
         at[t] # "swallow"
  PROVE  entry' \in {"absent", "good"}
<1>1. ASSUME NEW u \in Tabs, RemoveEntry(u) PROVE entry' \in {"absent", "good"}
  BY <1>1 DEF RemoveEntry, ReaderInv, ReadersVerified
<1>2. ASSUME NEW u \in Tabs,
             \/ Request(u) \/ CloseReader(u) \/ Refuse(u) \/ Abort(u) \/ Kill(u)
             \/ Grant(u) \/ Hash(u) \/ Fetch(u) \/ Body(u) \/ Open(u) \/ ReadFault(u)
             \/ DownloadFault(u) \/ RemovalFault(u)
      PROVE  FALSE
  BY <1>2 DEF Request, CloseReader, Refuse, Abort, Kill, Grant, Hash, Fetch, Body, Open,
       ReadFault, DownloadFault, RemovalFault, Goto
<1>3. ASSUME NEW u \in Tabs, Swallow(u) PROVE FALSE
  BY <1>3 DEF Swallow
<1>4. CASE Spoil \/ UNCHANGED readerVars
  BY <1>4 DEF Spoil, readerVars
<1> QED
  BY <1>1, <1>2, <1>3, <1>4 DEF Next, Step, Trouble

-----------------------------------------------------------------------------
(* Types and the queue, whatever files the server has.                     *)

Files == {"absent", "good", "bad"}
WellFormed == ReaderTypeOK /\ QueueInv

LEMMA ReaderTypesInit == Init => WellFormed
<1> SUFFICES ASSUME Init PROVE WellFormed
  OBVIOUS
<1>1. queue = <<>> /\ queue \in Seq(Tabs) /\ Len(queue) = 0 /\ DOMAIN queue = {}
  BY DEF Init
<1>2. QueueInv
  BY <1>1 DEF Init, QueueInv, IsInjective, Contains
<1>3. ReaderTypeOK
  BY <1>1 DEF Init, ReaderTypeOK
<1> QED
  BY <1>2, <1>3 DEF WellFormed

LEMMA RequestTypes == ASSUME WellFormed, NEW t \in Tabs, Request(t) PROVE WellFormed'
<1>1. /\ queue \in Seq(Tabs) /\ IsInjective(queue) /\ ~ Contains(queue, t)
      /\ queue' = Append(queue, t) /\ at' = [at EXCEPT ![t] = "queued"]
  BY DEF WellFormed, QueueInv, Request
<1>2. /\ queue' \in Seq(Tabs) /\ IsInjective(queue')
      /\ \A u \in Tabs : Contains(queue', u) <=> Contains(queue, u) \/ u = t
  BY <1>1, AppendOnce
<1>3. \A u \in Tabs : at'[u] = "queued" <=> at[u] = "queued" \/ u = t
  BY <1>1 DEF WellFormed, ReaderTypeOK
<1>4. QueueInv'
  BY <1>2, <1>3 DEF WellFormed, QueueInv
<1>5. ReaderTypeOK'
  BY <1>2 DEF WellFormed, ReaderTypeOK, Request
<1> QED
  BY <1>4, <1>5 DEF WellFormed

LEMMA GrantTypes == ASSUME WellFormed, NEW t \in Tabs, Grant(t) PROVE WellFormed'
<1>1. /\ queue \in Seq(Tabs) /\ IsInjective(queue) /\ Contains(queue, t)
      /\ Head(queue) = t /\ queue' = Tail(queue)
  BY DEF WellFormed, QueueInv, Grant
<1>2. queue # <<>>
  BY <1>1 DEF Contains
<1>3. /\ queue' \in Seq(Tabs) /\ IsInjective(queue')
      /\ \A u \in Tabs : Contains(queue', u) <=> Contains(queue, u) /\ u # t
  BY <1>1, <1>2, TailOnce
<1>4. \A u \in Tabs : at'[u] = "queued" <=> at[u] = "queued" /\ u # t
  BY DEF WellFormed, ReaderTypeOK, Grant, Goto
<1>5. QueueInv'
  BY <1>3, <1>4 DEF WellFormed, QueueInv
<1>6. ReaderTypeOK'
  BY <1>3 DEF WellFormed, ReaderTypeOK, Grant, Goto
<1> QED
  BY <1>5, <1>6 DEF WellFormed

\* A call may end while it waits: its request leaves the queue.
LEMMA LeaveTypes ==
  ASSUME WellFormed, NEW t \in Tabs, Leave(t),
         entry' \in {"absent", "empty", "good", "bad"}, failed' \subseteq Tabs
  PROVE  WellFormed'
<1>1. /\ queue \in Seq(Tabs) /\ IsInjective(queue) /\ queue' = RemoveFirst(queue, t)
  BY DEF WellFormed, QueueInv, Leave
<1>2. /\ queue' \in Seq(Tabs) /\ IsInjective(queue')
      /\ \A u \in Tabs : Contains(queue', u) <=> Contains(queue, u) /\ u # t
  BY <1>1, RemoveOnce
<1>3. \A u \in Tabs : at'[u] = "queued" <=> at[u] = "queued" /\ u # t
  BY DEF WellFormed, ReaderTypeOK, Leave
<1>4. QueueInv'
  BY <1>2, <1>3 DEF WellFormed, QueueInv
<1>5. ReaderTypeOK'
  BY <1>2 DEF WellFormed, ReaderTypeOK, Leave
<1> QED
  BY <1>4, <1>5 DEF WellFormed

LEMMA HolderTypes ==
  ASSUME served \in Files, WellFormed, NEW t \in Tabs,
         \/ Hash(t) \/ Fetch(t) \/ Body(t) \/ Open(t)
         \/ ReadFault(t) \/ DownloadFault(t) \/ RemovalFault(t)
  PROVE  WellFormed'
<1>1. PICK step \in Locked \union {"reading"} :
        at[t] # "queued" /\ at' = [at EXCEPT ![t] = step] /\ failed' = failed
  BY DEF Hash, Fetch, Body, Open, ReadFault, DownloadFault, RemovalFault, Goto, Locked
<1>2. queue' = queue
  BY DEF Hash, Fetch, Body, Open, ReadFault, DownloadFault, RemovalFault
<1>3. QueueInv'
  <2>1. \A u \in Tabs : at'[u] = "queued" <=> at[u] = "queued"
    BY <1>1 DEF WellFormed, ReaderTypeOK, Locked
  <2> QED
    BY <1>2, <2>1 DEF WellFormed, QueueInv
<1>4. ReaderTypeOK'
  BY <1>1, <1>2
     DEF WellFormed, ReaderTypeOK, Files, Locked, Hash, Fetch, Body, Open, ReadFault,
         DownloadFault, RemovalFault
<1> QED
  BY <1>3, <1>4 DEF WellFormed

LEMMA ReaderTypesNext ==
  served \in Files /\ WellFormed /\ [Next]_readerVars => WellFormed'
<1> SUFFICES ASSUME served \in Files, WellFormed, [Next]_readerVars PROVE WellFormed'
  OBVIOUS
<1>1. ASSUME NEW t \in Tabs,
             CloseReader(t) \/ Refuse(t) \/ Abort(t) \/ Kill(t) \/ RemoveEntry(t) \/ Swallow(t)
      PROVE  WellFormed'
  BY <1>1, LeaveTypes
     DEF CloseReader, Refuse, Abort, Kill, RemoveEntry, Swallow, WellFormed, ReaderTypeOK
<1>2. CASE Spoil
  BY <1>2 DEF Spoil, WellFormed, ReaderTypeOK, QueueInv
<1>3. CASE UNCHANGED readerVars
  BY <1>3 DEF readerVars, WellFormed, ReaderTypeOK, QueueInv
<1> QED
  BY <1>1, <1>2, <1>3, RequestTypes, GrantTypes, HolderTypes DEF Next, Step, Trouble

\* While the server has some file or none, each tab that waits for the Web Lock is
\* queued for it once, and nobody else is.
THEOREM ReaderQueue == Spec /\ [](served \in Files) => []WellFormed
  BY ReaderTypesInit, ReaderTypesNext, PTL DEF Spec

-----------------------------------------------------------------------------
(* The entry and its readers.                                              *)

\* The invariant, when NoTab is no tab.
THEOREM ReaderInvariant == ASSUME NoTab \notin Tabs PROVE Spec => []ReaderInv
<1>1. ReaderInv /\ [Next]_readerVars => ReaderInv'
  BY ReaderNext
<1> QED
  BY <1>1, ReaderInit, PTL DEF Spec
===================================================================================
