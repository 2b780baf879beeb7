-------------------------- MODULE ContainerFetchProofs --------------------------
(***************************************************************************)
(* What holds of container fetches for any number of processes, sources,   *)
(* retries, redirects and required files.                                  *)
(***************************************************************************)
EXTENDS ContainerFetch, TLAPS

Outcomes == {"none", "ok", "refused", "missing", "mismatch", "fault", "exhausted", "crashed"}

\* Leaving resets every variable of the call to a value of its type.
LEMMA LeaveTypes ==
  ASSUME FetchTypeOK, NEW p \in Procs, NEW out \in Outcomes, Leave(p, out),
         cache' \in {"absent", "good", "bad"}
  PROVE  FetchTypeOK'
<1> USE DEF FetchTypeOK, Leave, Goto
<1>1. 1 \in Candidates /\ 0 \in 0 .. Backoffs /\ 0 \in 0 .. MaxRedirects /\ 0 \in 0 .. TotalLimit
  BY FetchAssumption DEF Candidates
<1>2. delivered' \in [Procs -> [Required -> 0 .. 1]]
  BY DEF NoFiles
<1>3. gets' \in [Procs -> [Candidates -> 0 .. Backoffs + 1]]
  OBVIOUS
<1> QED
  BY <1>1, <1>2, <1>3 DEF Outcomes

\* A retry counts one attempt more; it is within the bound because the counter of the
\* current source is the number of its retries.
LEMMA NextAttemptTypes ==
  ASSUME FetchTypeOK, NEW p \in Procs, NextAttempt(p), UNCHANGED cache,
         \A s \in Candidates : s > source[p] => gets[p][s] = 0,
         gets[p][source[p]] = retry[p] + 1
  PROVE  FetchTypeOK'
<1> USE FetchAssumption DEF FetchTypeOK, Candidates
<1>1. CASE retry[p] = Backoffs /\ source[p] = Sources /\ Leave(p, "exhausted")
  BY <1>1, LeaveTypes DEF Outcomes
<1>2. CASE /\ retry[p] < Backoffs
           /\ retry' = [retry EXCEPT ![p] = @ + 1]
           /\ gets' = [gets EXCEPT ![p][source[p]] = @ + 1]
           /\ UNCHANGED source
           /\ hops' = [hops EXCEPT ![p] = 0]
           /\ staged' = [staged EXCEPT ![p] = "none"]
           /\ Goto(p, "get")
           /\ UNCHANGED <<result, offline, handle, archive>>
  <2>1. gets[p][source[p]] + 1 \in 0 .. Backoffs + 1
    BY <1>2
  <2>2. [gets[p] EXCEPT ![source[p]] = @ + 1] \in [Candidates -> 0 .. Backoffs + 1]
    BY <2>1
  <2>3. gets' \in [Procs -> [Candidates -> 0 .. Backoffs + 1]]
    BY <1>2, <2>2
  <2> QED
    <3>1. retry[p] + 1 \in 0 .. Backoffs
      BY <1>2
    <3>2. retry' \in [Procs -> 0 .. Backoffs]
      BY <1>2, <3>1
    <3>3. 0 \in 0 .. MaxRedirects
      OBVIOUS
    <3> QED
      BY <1>2, <2>3, <3>2, <3>3 DEF Goto, archive
<1>3. CASE /\ retry[p] = Backoffs
           /\ source[p] < Sources
           /\ source' = [source EXCEPT ![p] = @ + 1]
           /\ retry' = [retry EXCEPT ![p] = 0]
           /\ gets' = [gets EXCEPT ![p][source[p] + 1] = @ + 1]
           /\ hops' = [hops EXCEPT ![p] = 0]
           /\ staged' = [staged EXCEPT ![p] = "none"]
           /\ Goto(p, "get")
           /\ UNCHANGED <<result, offline, handle, archive>>
  <2>1. source[p] + 1 \in Candidates /\ gets[p][source[p] + 1] = 0
    BY <1>3
  <2>2. [gets[p] EXCEPT ![source[p] + 1] = @ + 1] \in [Candidates -> 0 .. Backoffs + 1]
    BY <2>1
  <2>3. gets' \in [Procs -> [Candidates -> 0 .. Backoffs + 1]]
    BY <1>3, <2>2
  <2> QED
    BY <1>3, <2>1, <2>3 DEF Goto, archive
<1> QED
  BY <1>1, <1>2, <1>3 DEF NextAttempt

-----------------------------------------------------------------------------
(* The attempts of a call.                                                 *)

Attempting(p) == pc[p] \in {"get", "body", "check", "publish"}

\* While a call is at its attempts, the sources before the current one have had all
\* of theirs, the current one as many as its retries say, the others none.
Precise(p) ==
    /\ gets[p][source[p]] = retry[p] + 1
    /\ \A s \in Candidates : s < source[p] => gets[p][s] = Backoffs + 1
    /\ \A s \in Candidates : s > source[p] => gets[p][s] = 0

\* The claim of AttemptsAccounted about one call.
Accounted(p) ==
    \A s \in Candidates :
       /\ gets[p][s] <= Backoffs + 1
       /\ gets[p][s] > 0 => \A t \in Candidates : t < s => gets[p][t] = Backoffs + 1
       /\ result[p] = "exhausted" => gets[p][s] = Backoffs + 1

CallInv(p) ==
    /\ pc[p] # "idle" => result[p] = "none"
    /\ pc[p] \in {"idle", "probe"} => source[p] = 1 /\ retry[p] = 0
    /\ pc[p] = "probe" => gets[p] = NoGets
    /\ Attempting(p) => Precise(p)
    /\ Accounted(p)
    /\ pc[p] = "publish" => staged[p] = "good"
    /\ pc[p] \in {"expand", "extract"} => handle[p] = "good"

FetchInv == FetchTypeOK /\ \A p \in Procs : CallInv(p)

LEMMA PreciseAccounted ==
  ASSUME FetchTypeOK, NEW p \in Procs, Precise(p), result[p] = "none"
  PROVE  Accounted(p)
<1> USE FetchAssumption DEF Candidates
<1>1. source[p] \in Candidates /\ retry[p] \in 0 .. Backoffs
  BY DEF FetchTypeOK
<1>2. ASSUME NEW s \in Candidates
      PROVE  /\ gets[p][s] \in 0 .. Backoffs + 1
             /\ s < source[p] \/ s = source[p] \/ s > source[p]
  BY <1>1 DEF FetchTypeOK
<1>3. ASSUME NEW s \in Candidates, gets[p][s] > 0, NEW t \in Candidates, t < s
      PROVE  gets[p][t] = Backoffs + 1
  BY <1>1, <1>2, <1>3 DEF Precise
<1> QED
  BY <1>2, <1>3 DEF Accounted

LEMMA InitInv == Init => FetchInv
<1> SUFFICES ASSUME Init PROVE FetchInv
  OBVIOUS
<1> USE FetchAssumption DEF Init, NoGets, NoFiles
<1>1. FetchTypeOK
  BY DEF FetchTypeOK, Candidates
<1>2. ASSUME NEW p \in Procs PROVE CallInv(p)
  BY DEF CallInv, Attempting, Accounted, Candidates
<1> QED
  BY <1>1, <1>2 DEF FetchInv

\* A step of one call keeps the variables of the others.
Others(p) ==
    \A q \in Procs \ {p} :
       /\ pc'[q] = pc[q] /\ result'[q] = result[q] /\ source'[q] = source[q]
       /\ retry'[q] = retry[q] /\ gets'[q] = gets[q] /\ staged'[q] = staged[q]
       /\ handle'[q] = handle[q]

LEMMA OthersKept ==
  ASSUME NEW p \in Procs, NEW q \in Procs, q # p, Others(p), CallInv(q)
  PROVE  CallInv(q)'
  BY DEF Others, CallInv, Attempting, Precise, Accounted, Candidates

\* Leaving keeps the count of the attempts, so it is accounted for as before.
LEMMA LeaveInv ==
  ASSUME FetchInv, NEW p \in Procs, NEW out \in Outcomes, Leave(p, out),
         out = "exhausted" => \A s \in Candidates : gets[p][s] = Backoffs + 1,
         cache' \in {"absent", "good", "bad"}
  PROVE  FetchInv'
<1>1. FetchTypeOK'
  BY LeaveTypes DEF FetchInv
<1>2. Others(p)
  BY DEF Others, Leave, Goto, FetchInv, FetchTypeOK
<1>3. CallInv(p)'
  <2>1. /\ pc'[p] = "idle" /\ result'[p] = out /\ source'[p] = 1 /\ retry'[p] = 0
        /\ gets' = gets
    BY DEF Leave, Goto, FetchInv, FetchTypeOK
  <2>2. Accounted(p)
    BY DEF FetchInv, CallInv
  <2>3. Accounted(p)'
    BY <2>1, <2>2 DEF Accounted, Candidates
  <2> QED
    BY <2>1, <2>3 DEF CallInv, Attempting
<1> QED
  BY <1>1, <1>2, <1>3, OthersKept DEF FetchInv

\* A retry at the same source, or the first attempt at the next, keeps the counts
\* precise; the last failure of all finds every source exhausted.
LEMMA NextAttemptInv ==
  ASSUME FetchInv, NEW p \in Procs, pc[p] \in {"get", "body"}, NextAttempt(p),
         UNCHANGED cache
  PROVE  FetchInv'
<1> USE FetchAssumption DEF Candidates
<1>1. /\ Precise(p) /\ CallInv(p) /\ FetchTypeOK /\ result[p] = "none"
      /\ source[p] \in Candidates /\ retry[p] \in 0 .. Backoffs
      /\ gets[p] \in [Candidates -> 0 .. Backoffs + 1]
  BY DEF FetchInv, CallInv, Attempting, FetchTypeOK
<1>2. FetchTypeOK'
  BY <1>1, NextAttemptTypes DEF Precise
<1>3. CASE retry[p] = Backoffs /\ source[p] = Sources /\ Leave(p, "exhausted")
  <2>1. \A s \in Candidates : gets[p][s] = Backoffs + 1
    BY <1>1, <1>3 DEF Precise
  <2>2. cache' \in {"absent", "good", "bad"}
    BY <1>1 DEF FetchTypeOK
  <2> QED
    BY <1>3, <2>1, <2>2, LeaveInv DEF Outcomes
<1>4. CASE ~(retry[p] = Backoffs /\ source[p] = Sources /\ Leave(p, "exhausted"))
  <2>1. /\ pc'[p] = "get" /\ result' = result
        /\ Others(p)
    BY <1>1, <1>4 DEF NextAttempt, Goto, Others, FetchTypeOK
  <2>2. Precise(p)'
    <3>1. CASE retry[p] < Backoffs
      <4>0. /\ source' = source
            /\ retry' = [retry EXCEPT ![p] = @ + 1]
            /\ gets' = [gets EXCEPT ![p][source[p]] = @ + 1]
        BY <1>1, <1>4, <3>1 DEF NextAttempt
      <4>1. source'[p] = source[p] /\ retry'[p] = retry[p] + 1
        BY <1>1, <4>0 DEF FetchTypeOK
      <4>2. gets'[p] = [gets[p] EXCEPT ![source[p]] = @ + 1]
        BY <1>1, <4>0 DEF FetchTypeOK
      <4>3. \A s \in Candidates :
              gets'[p][s] = IF s = source[p] THEN gets[p][s] + 1 ELSE gets[p][s]
        BY <1>1, <4>2
      <4>4. gets[p][source[p]] = retry[p] + 1
        BY <1>1 DEF Precise
      <4>5. \A s \in Candidates : s < source[p] => gets[p][s] = Backoffs + 1
        BY <1>1 DEF Precise
      <4>6. \A s \in Candidates : s > source[p] => gets[p][s] = 0
        BY <1>1 DEF Precise
      <4>7. gets'[p][source'[p]] = retry'[p] + 1
        BY <1>1, <4>1, <4>3, <4>4
      <4>8. \A s \in Candidates : s < source'[p] => gets'[p][s] = Backoffs + 1
        BY <1>1, <4>1, <4>3, <4>5
      <4>9. \A s \in Candidates : s > source'[p] => gets'[p][s] = 0
        BY <1>1, <4>1, <4>3, <4>6
      <4> QED
        BY <4>7, <4>8, <4>9 DEF Precise
    <3>2. CASE retry[p] = Backoffs
      <4>1. /\ source[p] < Sources
            /\ source' = [source EXCEPT ![p] = @ + 1]
            /\ retry' = [retry EXCEPT ![p] = 0]
            /\ gets' = [gets EXCEPT ![p][source[p] + 1] = @ + 1]
        BY <1>1, <1>4, <3>2 DEF NextAttempt
      <4>2. source'[p] = source[p] + 1 /\ retry'[p] = 0 /\ source[p] + 1 \in Candidates
        BY <1>1, <4>1 DEF FetchTypeOK
      <4>3. gets'[p] = [gets[p] EXCEPT ![source[p] + 1] = @ + 1]
        BY <1>1, <4>1 DEF FetchTypeOK
      <4>4. \A s \in Candidates :
              gets'[p][s] = IF s = source[p] + 1 THEN gets[p][s] + 1 ELSE gets[p][s]
        BY <1>1, <4>3
      <4>5. gets[p][source[p] + 1] = 0
        BY <1>1, <4>2 DEF Precise
      <4>6. \A s \in Candidates : s < source[p] + 1 => gets[p][s] = Backoffs + 1
        BY <1>1, <3>2 DEF Precise
      <4>7. \A s \in Candidates : s > source[p] + 1 => gets[p][s] = 0
        BY <1>1 DEF Precise
      <4>8. gets'[p][source'[p]] = retry'[p] + 1
        BY <1>1, <4>2, <4>4, <4>5
      <4>9. \A s \in Candidates : s < source'[p] => gets'[p][s] = Backoffs + 1
        BY <1>1, <4>2, <4>4, <4>6
      <4>10. \A s \in Candidates : s > source'[p] => gets'[p][s] = 0
        BY <1>1, <4>2, <4>4, <4>7
      <4> QED
        BY <4>8, <4>9, <4>10 DEF Precise
    <3> QED
      BY <1>1, <3>1, <3>2
  <2>3. Accounted(p)'
    <3>1. result'[p] = "none"
      BY <1>1, <2>1
    <3>2. /\ source'[p] \in Candidates /\ retry'[p] \in 0 .. Backoffs
          /\ gets'[p] \in [Candidates -> 0 .. Backoffs + 1]
      BY <1>2 DEF FetchTypeOK
    <3>3. ASSUME NEW s \in Candidates, gets'[p][s] > 0, NEW t \in Candidates, t < s
          PROVE  gets'[p][t] = Backoffs + 1
      <4>1. ~(s > source'[p])
        BY <2>2, <3>3 DEF Precise
      <4>2. t < source'[p]
        BY <3>2, <3>3, <4>1
      <4> QED
        BY <2>2, <4>2 DEF Precise
    <3> QED
      BY <3>1, <3>2, <3>3 DEF Accounted
  <2>4. CallInv(p)'
    BY <1>1, <2>1, <2>2, <2>3 DEF CallInv
  <2> QED
    BY <1>2, <2>1, <2>4, OthersKept DEF FetchInv
<1> QED
  BY <1>3, <1>4

\* The other steps of a call leave the counts, the source and the outcome alone.
LEMMA QuietInv ==
  ASSUME FetchInv, NEW p \in Procs, FetchTypeOK', Others(p),
         source' = source, retry' = retry, gets' = gets, result' = result,
         Attempting(p) => Attempting(p)' \/ pc'[p] = "open",
         ~Attempting(p) => pc'[p] \in {"open", "verify", "expand", "extract"},
         pc[p] # "idle",
         pc'[p] = "publish" => staged'[p] = "good",
         pc'[p] \in {"expand", "extract"} => handle'[p] = "good"
  PROVE  FetchInv'
<1>1. CallInv(p)'
  <2>1. CallInv(p) /\ result'[p] = "none"
    BY DEF FetchInv, CallInv
  <2>2. Accounted(p)'
    BY <2>1 DEF CallInv, Accounted, Candidates
  <2>3. Precise(p) => Precise(p)'
    BY DEF Precise, Candidates
  <2> QED
    BY <2>1, <2>2, <2>3 DEF CallInv, Attempting
<1> QED
  BY <1>1, OthersKept DEF FetchInv

-----------------------------------------------------------------------------
(* Each action.                                                            *)

\* A new call starts its count at nothing.
LEMMA BeginInv == ASSUME FetchInv, NEW p \in Procs, Begin(p) PROVE FetchInv'
<1> USE FetchAssumption DEF Candidates
<1>1. NoGets \in [Candidates -> 0 .. Backoffs + 1]
  BY DEF NoGets
<1>2. FetchTypeOK'
  BY <1>1 DEF FetchInv, FetchTypeOK, Begin, Goto, archive
<1>3. Others(p)
  BY DEF Others, Begin, Goto, FetchInv, FetchTypeOK
<1>4. CallInv(p)'
  <2>1. /\ pc'[p] = "probe" /\ result'[p] = "none" /\ gets'[p] = NoGets
        /\ source'[p] = source[p] /\ retry'[p] = retry[p]
    BY DEF Begin, Goto, FetchInv, FetchTypeOK
  <2>2. source[p] = 1 /\ retry[p] = 0
    BY DEF Begin, FetchInv, CallInv
  <2>3. Accounted(p)'
    BY <2>1 DEF Accounted, NoGets
  <2> QED
    BY <2>1, <2>2, <2>3 DEF CallInv, Attempting
<1> QED
  BY <1>2, <1>3, <1>4, OthersKept DEF FetchInv

\* The first attempt is at the first source.
LEMMA ProbeInv == ASSUME FetchInv, NEW p \in Procs, Probe(p) PROVE FetchInv'
<1> USE FetchAssumption DEF Candidates
<1>0. cache' = cache /\ cache' \in {"absent", "good", "bad"} /\ pc[p] = "probe"
  BY DEF Probe, FetchInv, FetchTypeOK
<1>1. CASE Leave(p, "refused")
  BY <1>0, <1>1, LeaveInv DEF Outcomes
<1>2. CASE /\ Goto(p, "open")
           /\ offline' = offline \ {p}
           /\ UNCHANGED <<result, attempt, staged, handle, archive>>
  <2>1. FetchTypeOK'
    BY <1>0, <1>2 DEF FetchInv, FetchTypeOK, Goto, archive, attempt
  <2>2. Others(p) /\ pc'[p] = "open"
    BY <1>2 DEF FetchInv, FetchTypeOK, Goto, Others, attempt
  <2> QED
    BY <1>0, <1>2, <2>1, <2>2, QuietInv DEF Attempting, attempt
<1>3. CASE /\ Goto(p, "get")
           /\ gets' = [gets EXCEPT ![p][1] = @ + 1]
           /\ UNCHANGED <<result, offline, source, retry, hops, staged, handle, archive>>
  <2>1. gets[p] = NoGets /\ source[p] = 1 /\ retry[p] = 0 /\ result[p] = "none"
    BY <1>0 DEF FetchInv, CallInv
  <2>2. gets' = [gets EXCEPT ![p] = [gets[p] EXCEPT ![1] = @ + 1]]
    BY <1>3
  <2>3. [gets[p] EXCEPT ![1] = @ + 1] \in [Candidates -> 0 .. Backoffs + 1]
    BY <2>1 DEF NoGets
  <2>4. gets' \in [Procs -> [Candidates -> 0 .. Backoffs + 1]]
    BY <2>2, <2>3 DEF FetchInv, FetchTypeOK
  <2>5. FetchTypeOK'
    BY <1>0, <1>3, <2>4 DEF FetchInv, FetchTypeOK, Goto, archive
  <2>6. Others(p)
    BY <1>3 DEF FetchInv, FetchTypeOK, Goto, Others
  <2>7. /\ pc'[p] = "get" /\ result'[p] = "none" /\ source'[p] = 1 /\ retry'[p] = 0
        /\ \A s \in Candidates : gets'[p][s] = IF s = 1 THEN 1 ELSE 0
    BY <1>3, <2>1, <2>2 DEF FetchInv, FetchTypeOK, Goto, NoGets
  <2>8. Precise(p)'
    BY <2>7 DEF Precise
  <2>9. Accounted(p)'
    BY <2>7 DEF Accounted
  <2>10. CallInv(p)'
    BY <2>7, <2>8, <2>9 DEF CallInv, Attempting
  <2> QED
    BY <2>5, <2>6, <2>10, OthersKept DEF FetchInv
<1> QED
  BY <1>1, <1>2, <1>3 DEF Probe

\* Redirects, responses and their bodies.
LEMMA AttemptInv ==
  ASSUME FetchInv, NEW p \in Procs,
         Redirect(p) \/ Respond(p) \/ Receive(p) \/ WrongBytes(p)
  PROVE  FetchInv'
<1>1. CASE Redirect(p)
  <2>1. hops[p] + 1 \in 0 .. MaxRedirects
    BY <1>1, FetchAssumption DEF Redirect, FetchInv, FetchTypeOK
  <2>2. FetchTypeOK'
    BY <1>1, <2>1 DEF Redirect, FetchInv, FetchTypeOK, archive
  <2>3. Others(p)
    BY <1>1 DEF Redirect, Others
  <2> QED
    BY <1>1, <2>2, <2>3, QuietInv DEF Redirect, Attempting
<1>2. CASE Respond(p) \/ Receive(p) \/ WrongBytes(p)
  <2>1. FetchTypeOK'
    BY <1>2 DEF Respond, Receive, WrongBytes, FetchInv, FetchTypeOK, Goto, archive, attempt
  <2>2. Others(p) /\ pc[p] \in {"get", "body"} /\ pc'[p] \in {"body", "check"}
    BY <1>2 DEF Respond, Receive, WrongBytes, FetchInv, FetchTypeOK, Goto, Others, attempt
  <2>3. source' = source /\ retry' = retry /\ gets' = gets /\ result' = result
    BY <1>2 DEF Respond, Receive, WrongBytes, attempt
  <2> QED
    BY <2>1, <2>2, <2>3, QuietInv DEF Attempting
<1> QED
  BY <1>1, <1>2

\* Only a temporary file with the right bytes comes to be published.
LEMMA CheckInv == ASSUME FetchInv, NEW p \in Procs, Check(p) PROVE FetchInv'
<1>0. cache' = cache /\ cache' \in {"absent", "good", "bad"} /\ pc[p] = "check"
  BY DEF Check, FetchInv, FetchTypeOK
<1>1. CASE Leave(p, "mismatch")
  BY <1>0, <1>1, LeaveInv DEF Outcomes
<1>2. CASE /\ staged[p] = "good"
           /\ Goto(p, "publish")
           /\ UNCHANGED <<result, offline, attempt, staged, handle, archive>>
  <2>1. FetchTypeOK'
    BY <1>0, <1>2 DEF FetchInv, FetchTypeOK, Goto, archive, attempt
  <2>2. Others(p) /\ pc'[p] = "publish" /\ staged'[p] = "good"
    BY <1>2 DEF FetchInv, FetchTypeOK, Goto, Others, attempt
  <2> QED
    BY <1>0, <1>2, <2>1, <2>2, QuietInv DEF Attempting, attempt
<1> QED
  BY <1>1, <1>2 DEF Check

LEMMA PublishInv == ASSUME FetchInv, NEW p \in Procs, Publish(p) PROVE FetchInv'
<1>1. pc[p] = "publish" /\ staged[p] = "good"
  BY DEF Publish, FetchInv, CallInv
<1>2. FetchTypeOK'
  BY <1>1 DEF Publish, FetchInv, FetchTypeOK, Goto, archive, attempt
<1>3. Others(p) /\ pc'[p] = "open"
  BY DEF Publish, FetchInv, FetchTypeOK, Goto, Others, attempt
<1> QED
  BY <1>1, <1>2, <1>3, QuietInv DEF Publish, Attempting, attempt

LEMMA OpenInv == ASSUME FetchInv, NEW p \in Procs, Open(p) PROVE FetchInv'
<1>0. cache' = cache /\ cache' \in {"absent", "good", "bad"} /\ pc[p] = "open"
  BY DEF Open, FetchInv, FetchTypeOK
<1>1. CASE Leave(p, "missing")
  BY <1>0, <1>1, LeaveInv DEF Outcomes
<1>2. CASE /\ cache # "absent"
           /\ handle' = [handle EXCEPT ![p] = cache]
           /\ Goto(p, "verify")
           /\ UNCHANGED <<result, offline, attempt, staged, archive>>
  <2>1. FetchTypeOK'
    BY <1>0, <1>2 DEF FetchInv, FetchTypeOK, Goto, archive, attempt
  <2>2. Others(p) /\ pc'[p] = "verify"
    BY <1>2 DEF FetchInv, FetchTypeOK, Goto, Others, attempt
  <2> QED
    BY <1>0, <1>2, <2>1, <2>2, QuietInv DEF Attempting, attempt
<1> QED
  BY <1>1, <1>2 DEF Open

\* Only a handle that read the right bytes comes to the archive.
LEMMA VerifyInv == ASSUME FetchInv, NEW p \in Procs, Verify(p) PROVE FetchInv'
<1>0. cache' = cache /\ cache' \in {"absent", "good", "bad"} /\ pc[p] = "verify"
  BY DEF Verify, FetchInv, FetchTypeOK
<1>1. CASE Leave(p, "mismatch")
  BY <1>0, <1>1, LeaveInv DEF Outcomes
<1>2. CASE /\ handle[p] = "good"
           /\ Goto(p, "expand")
           /\ UNCHANGED <<result, offline, attempt, staged, handle, archive>>
  <2>1. FetchTypeOK'
    BY <1>0, <1>2 DEF FetchInv, FetchTypeOK, Goto, archive, attempt
  <2>2. Others(p) /\ pc'[p] = "expand" /\ handle'[p] = "good"
    BY <1>2 DEF FetchInv, FetchTypeOK, Goto, Others, attempt
  <2> QED
    BY <1>0, <1>2, <2>1, <2>2, QuietInv DEF Attempting, attempt
<1> QED
  BY <1>1, <1>2 DEF Verify

LEMMA ExpandInv == ASSUME FetchInv, NEW p \in Procs, Expand(p) PROVE FetchInv'
<1>1. FetchTypeOK'
  BY DEF Expand, FetchInv, FetchTypeOK, Goto, archive, attempt
<1>2. Others(p) /\ pc'[p] = "extract" /\ handle'[p] = "good" /\ pc[p] = "expand"
  BY DEF Expand, FetchInv, CallInv, FetchTypeOK, Goto, Others, attempt
<1> QED
  BY <1>1, <1>2, QuietInv DEF Expand, Attempting, attempt

LEMMA DeliverInv == ASSUME FetchInv, NEW p \in Procs, Deliver(p) PROVE FetchInv'
<1>1. PICK f \in Required, size \in Sizes :
         /\ bytes[p] + size <= TotalLimit
         /\ delivered' = [delivered EXCEPT ![p][f] = 1]
         /\ bytes' = [bytes EXCEPT ![p] = @ + size]
  BY DEF Deliver
<1>2. bytes[p] + size \in 0 .. TotalLimit
  BY <1>1, FetchAssumption DEF FetchInv, FetchTypeOK, Sizes
<1>3. delivered' \in [Procs -> [Required -> 0 .. 1]]
  BY <1>1 DEF FetchInv, FetchTypeOK
<1>4. bytes' \in [Procs -> 0 .. TotalLimit]
  BY <1>1, <1>2 DEF FetchInv, FetchTypeOK
<1>5. FetchTypeOK'
  BY <1>3, <1>4 DEF Deliver, FetchInv, FetchTypeOK, attempt
<1>6. Others(p) /\ pc[p] = "extract" /\ pc' = pc /\ handle' = handle
  BY DEF Deliver, Others, attempt
<1>7. handle[p] = "good"
  BY <1>6 DEF FetchInv, CallInv
<1> QED
  BY <1>5, <1>6, <1>7, QuietInv DEF Deliver, Attempting, attempt

\* Every other end of a call.
LEMMA EndInv ==
  ASSUME FetchInv, NEW p \in Procs,
         Finish(p) \/ Unusable(p) \/ RefuseRedirect(p) \/ Terminal(p)
         \/ BadArchive(p) \/ Crash(p)
  PROVE  FetchInv'
<1>1. cache' \in {"absent", "good", "bad"}
  BY DEF Finish, Unusable, RefuseRedirect, Terminal, BadArchive, Crash, FetchInv, FetchTypeOK
<1>2. PICK out \in {"ok", "fault", "crashed"} : Leave(p, out)
  BY DEF Finish, Unusable, RefuseRedirect, Terminal, BadArchive, Crash
<1> QED
  BY <1>1, <1>2, LeaveInv DEF Outcomes

LEMMA StillInv ==
  ASSUME FetchInv, Meddle \/ UNCHANGED vars
  PROVE  FetchInv'
<1>1. FetchTypeOK'
  BY DEF FetchInv, FetchTypeOK, Meddle, vars, attempt, archive
<1>2. ASSUME NEW p \in Procs PROVE CallInv(p)'
  <2>1. CallInv(p)
    BY DEF FetchInv
  <2>2. /\ pc' = pc /\ result' = result /\ source' = source /\ retry' = retry
        /\ gets' = gets /\ staged' = staged /\ handle' = handle
    BY DEF Meddle, vars, attempt
  <2> QED
    BY <2>1, <2>2 DEF CallInv, Attempting, Precise, Accounted, Candidates, NoGets
<1> QED
  BY <1>1, <1>2 DEF FetchInv

LEMMA NextInv == FetchInv /\ [Next]_vars => FetchInv'
<1> SUFFICES ASSUME FetchInv, [Next]_vars PROVE FetchInv'
  OBVIOUS
<1>1. ASSUME NEW p \in Procs, Begin(p) \/ Step(p) \/ Fault(p) \/ Crash(p)
      PROVE  FetchInv'
  <2>1. CASE Transient(p)
    BY <2>1, NextAttemptInv DEF Transient
  <2> QED
    BY <1>1, <2>1, BeginInv, ProbeInv, AttemptInv, CheckInv, PublishInv, OpenInv,
       VerifyInv, ExpandInv, DeliverInv, EndInv DEF Step, Fault
<1>2. CASE Meddle \/ UNCHANGED vars
  BY <1>2, StillInv
<1> QED
  BY <1>1, <1>2 DEF Next

\* The invariant behind the theorems below.
THEOREM FetchInvariant == Spec => []FetchInv
<1> QED
  BY InitInv, NextInv, PTL DEF Spec

-----------------------------------------------------------------------------
(* The theorems.                                                           *)

\* Type correctness: the counters of retries, redirects, attempts and bytes stay
\* within their limits, and no required file goes to the visitor twice.
THEOREM FetchTypes == Spec => []FetchTypeOK
<1>1. FetchInv => FetchTypeOK
  BY DEF FetchInv
<1> QED
  BY <1>1, FetchInvariant, PTL

\* Attempts are bounded, in order and complete, for any number of sources and retries.
THEOREM FetchAttempts == Spec => []AttemptsAccounted
<1>1. FetchInv => AttemptsAccounted
  BY DEF FetchInv, CallInv, Accounted, AttemptsAccounted
<1> QED
  BY <1>1, FetchInvariant, PTL

\* No byte reaches the store from a handle that was not verified.
THEOREM FetchDelivers == Spec => OnlyVerifiedDelivered
<1>1. ASSUME FetchInv, [Next]_vars, NEW p \in Procs, NEW f \in Required,
             delivered'[p][f] > delivered[p][f]
      PROVE  handle[p] = "good"
  <2>1. delivered \in [Procs -> [Required -> 0 .. 1]]
    BY <1>1 DEF FetchInv, FetchTypeOK
  <2>2. ASSUME NEW q \in Procs, NEW out \in Outcomes, Leave(q, out) PROVE FALSE
    BY <1>1, <2>1, <2>2 DEF Leave, NoFiles
  <2>3. ASSUME UNCHANGED delivered PROVE FALSE
    BY <1>1, <2>1, <2>3
  <2>4. ASSUME NEW q \in Procs, Deliver(q) PROVE handle[p] = "good"
    <3>1. q = p
      BY <1>1, <2>1, <2>4 DEF Deliver
    <3> QED
      BY <1>1, <2>4, <3>1 DEF Deliver, FetchInv, CallInv
  <2>5. CASE Meddle \/ UNCHANGED vars
    BY <2>3, <2>5 DEF Meddle, vars, archive
  <2>6. ASSUME NEW q \in Procs, Begin(q) \/ Step(q) \/ Fault(q) \/ Crash(q), ~Deliver(q)
        PROVE  FALSE
    <3>1. \/ UNCHANGED delivered
          \/ \E out \in Outcomes : Leave(q, out)
      BY <2>6 DEF Begin, Step, Fault, Crash, Probe, Redirect, Respond, Receive, Check,
           Publish, Open, Verify, Expand, Finish, Transient, Unusable, RefuseRedirect,
           Terminal, WrongBytes, BadArchive,
           NextAttempt, Outcomes, archive
    <3> QED
      BY <2>2, <2>3, <3>1
  <2> QED
    BY <1>1, <2>4, <2>5, <2>6 DEF Next
<1>2. FetchInv /\ [Next]_vars
      => [\A p \in Procs, r \in Required :
            delivered'[p][r] > delivered[p][r] => handle[p] = "good"]_vars
  BY <1>1
<1> QED
  BY <1>2, FetchInvariant, PTL DEF Spec, OnlyVerifiedDelivered

\* Calls change the cached file for the better only.
THEOREM FetchCaches == Spec => CacheNeverWorsens
<1>1. ASSUME FetchInv, [Next]_vars, pc' # pc, cache' # cache
      PROVE  cache' = "good"
  <2>1. ASSUME NEW q \in Procs, Publish(q) PROVE cache' = "good"
    BY <2>1, <1>1 DEF Publish, FetchInv, CallInv
  <2>2. ASSUME NEW q \in Procs, Begin(q) \/ Step(q) \/ Fault(q) \/ Crash(q), ~Publish(q)
        PROVE  FALSE
    BY <1>1, <2>2 DEF Begin, Step, Fault, Crash, Probe, Redirect, Respond, Receive, Check,
         Open, Verify, Expand, Deliver, Finish, Transient, Unusable, RefuseRedirect,
           Terminal, WrongBytes, BadArchive
  <2>3. CASE Meddle \/ UNCHANGED vars
    BY <1>1, <2>3 DEF Meddle, vars
  <2> QED
    BY <1>1, <2>1, <2>2, <2>3 DEF Next
<1>2. FetchInv /\ [Next]_vars => [pc' # pc /\ cache' # cache => cache' = "good"]_vars
  BY <1>1
<1> QED
  BY <1>2, FetchInvariant, PTL DEF Spec, CacheNeverWorsens

-----------------------------------------------------------------------------
(* Recovery, call by call.  What earlier failures leave behind is in the    *)
(* call under way, never in the cache or in the next call.                  *)

\* A call that has received the wrong bytes, has lost the file it was to open, or has
\* opened a wrong one.
Doomed(p) ==
    \/ pc[p] = "check" /\ staged[p] # "good"
    \/ pc[p] = "open" /\ cache = "absent"
    \/ pc[p] = "verify" /\ handle[p] # "good"

\* A call that ends has delivered the container, or was offline and not yet past the
\* test for the cached file.
EndsWell(p) == pc[p] # "idle" /\ pc'[p] = "idle" => result'[p] = "ok" \/ p \in offline

\* The call's own steps.
LEMMA OwnStep ==
  ASSUME FetchInv, cache # "bad", NEW p \in Procs, Begin(p) \/ Step(p)
  PROVE  /\ Doomed(p)' => Doomed(p)
         /\ EndsWell(p) \/ (Doomed(p) /\ ~Doomed(p)')
<1>1. FetchTypeOK /\ (pc[p] = "publish" => staged[p] = "good")
  BY DEF FetchInv, CallInv
<1> USE <1>1 DEF FetchTypeOK, Doomed, EndsWell, Goto, Leave
<1>2. CASE Begin(p)  BY <1>2 DEF Begin
<1>3. CASE Probe(p)  BY <1>3 DEF Probe
<1>4. CASE Redirect(p)  BY <1>4 DEF Redirect
<1>5. CASE Respond(p)  BY <1>5 DEF Respond
<1>6. CASE Receive(p)  BY <1>6 DEF Receive
<1>7. CASE Check(p)  BY <1>7 DEF Check
<1>8. CASE Publish(p)  BY <1>8 DEF Publish
<1>9. CASE Open(p)  BY <1>9 DEF Open
<1>10. CASE Verify(p)  BY <1>10 DEF Verify
<1>11. CASE Expand(p)  BY <1>11 DEF Expand
<1>12. CASE Deliver(p)  BY <1>12 DEF Deliver
<1>13. CASE Finish(p)  BY <1>13 DEF Finish
<1> QED
  BY <1>2, <1>3, <1>4, <1>5, <1>6, <1>7, <1>8, <1>9, <1>10, <1>11, <1>12, <1>13 DEF Step

\* The steps of another call: it may publish the file that was missing, and takes none away.
LEMMA OtherStep ==
  ASSUME FetchInv, NEW p \in Procs, NEW q \in Procs, p # q, Begin(q) \/ Step(q)
  PROVE  (Doomed(p)' => Doomed(p)) /\ EndsWell(p)
<1>1. FetchTypeOK /\ (pc[q] = "publish" => staged[q] = "good")
  BY DEF FetchInv, CallInv
<1>2. pc'[p] = pc[p] /\ staged'[p] = staged[p] /\ handle'[p] = handle[p]
  BY <1>1 DEF FetchTypeOK, Begin, Step, Goto, Leave, Probe, Redirect, Respond, Receive,
     Check, Publish, Open, Verify, Expand, Deliver, Finish
<1>3. cache' = cache \/ cache' = "good"
  BY <1>1 DEF Begin, Step, Probe, Redirect, Respond, Receive, Check, Publish, Open, Verify,
     Expand, Deliver, Finish
<1> QED
  BY <1>2, <1>3 DEF Doomed, EndsWell

\* One process at a time: its calls end well, the one it is in perhaps excepted.
LEMMA ProcessRecovers ==
  ASSUME NEW p \in Procs
  PROVE  Spec /\ Calm /\ <>[](cache # "bad") => <>[][EndsWell(p)]_vars
<1>1. FetchInv /\ cache # "bad" /\ [Next]_vars /\ [~Disturbance]_vars
      => /\ Doomed(p)' => Doomed(p)
         /\ [EndsWell(p)]_vars \/ (Doomed(p) /\ ~Doomed(p)')
  <2> SUFFICES ASSUME FetchInv, cache # "bad", [Next]_vars, [~Disturbance]_vars
               PROVE  /\ Doomed(p)' => Doomed(p)
                      /\ [EndsWell(p)]_vars \/ (Doomed(p) /\ ~Doomed(p)')
    OBVIOUS
  <2>1. CASE UNCHANGED vars
    BY <2>1 DEF vars, Doomed
  <2>2. ASSUME NEW q \in Procs, Begin(q) \/ Step(q)
        PROVE  /\ Doomed(p)' => Doomed(p)
               /\ [EndsWell(p)]_vars \/ (Doomed(p) /\ ~Doomed(p)')
    BY <2>2, OwnStep, OtherStep
  <2> QED
    BY <2>1, <2>2 DEF Next, Disturbance
<1> QED
  BY <1>1, FetchInvariant, PTL DEF Spec, Calm

\* Once nothing fails any more and no foreign file has the container's name, every
\* online fetch that a process ends has succeeded, for any number of processes, sources
\* and retries.
THEOREM FetchesAreRepaired == Spec => FetchesRecover
<1>1. ASSUME NEW p \in Procs
      PROVE  Spec /\ Calm /\ <>[](cache # "bad")
             => <>[][pc[p] # "idle" /\ pc'[p] = "idle" => result'[p] = "ok" \/ p \in offline]_vars
  BY ProcessRecovers DEF EndsWell
<1> QED
  BY <1>1 DEF FetchesRecover
==================================================================================
