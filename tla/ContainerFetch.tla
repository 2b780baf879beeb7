----------------------------- MODULE ContainerFetch -----------------------------
(***************************************************************************)
(* Fetching a provider's container and taking its runtime files out of it: *)
(* src/store/container.rs, over src/store/http.rs, stream.rs, archive.rs   *)
(* and src/temporary.rs.                                                   *)
(*                                                                         *)
(* Processes with different stores share one container cache and no lock.  *)
(* Each call looks for the cached container, downloads it if there is no   *)
(* file by its name, publishes it by a rename, opens the file, hashes what *)
(* it opened and hands the required entries of the archive to a visitor,   *)
(* which stores them (ContentStore).  Servers, transport, disk and archive *)
(* may answer anything at each step; files of the cache may be replaced    *)
(* or deleted at any moment.                                               *)
(***************************************************************************)
EXTENDS Naturals, FiniteSets

CONSTANTS Procs,         \* calls of fetch_container_runfiles, one per process
          Sources,       \* number of candidate URLs
          Backoffs,      \* retries of a candidate after its first attempt
          MaxRedirects,  \* MAX_HTTP_REDIRECTS
          Required,      \* the runfiles the registry declares, by placement
          EntryLimit,    \* MAX_ARCHIVE_ENTRY_BYTES
          TotalLimit     \* MAX_CONTAINER_EXPANDED_BYTES

ASSUME FetchAssumption ==
    /\ Sources \in Nat \ {0}
    /\ Backoffs \in Nat
    /\ MaxRedirects \in Nat
    /\ EntryLimit \in Nat
    /\ TotalLimit \in Nat

VARIABLES
    cache,      \* the file <provider>.<16 digits>.tar.xz
    pc, result,
    offline,    \* calls that must not use the network
    source, retry, hops,  \* candidate, its retries so far, redirects followed
    gets,       \* attempts made at each candidate, by the current or last call
    staged,     \* the temporary file of the download
    handle,     \* what the open handle of the cached file reads
    delivered,  \* how often each required file went to the visitor
    bytes       \* selected_bytes

attempt == <<source, retry, hops, gets>>
archive == <<delivered, bytes>>
vars == <<cache, pc, result, offline, attempt, staged, handle, archive>>

Candidates == 1 .. Sources
NoGets == [s \in Candidates |-> 0]
NoFiles == [r \in Required |-> 0]
\* Archive members are told apart by size only: within the limit, and too large.
Sizes == 0 .. EntryLimit + 1

FetchTypeOK ==
    /\ cache \in {"absent", "good", "bad"}
    /\ pc \in [Procs -> {"idle", "probe", "get", "body", "check", "publish",
                         "open", "verify", "expand", "extract"}]
    /\ result \in [Procs -> {"none", "ok", "refused", "missing", "mismatch",
                             "fault", "exhausted", "crashed"}]
    /\ offline \subseteq Procs
    /\ source \in [Procs -> Candidates]
    /\ retry \in [Procs -> 0 .. Backoffs]
    /\ hops \in [Procs -> 0 .. MaxRedirects]
    /\ gets \in [Procs -> [Candidates -> 0 .. Backoffs + 1]]
    /\ staged \in [Procs -> {"none", "partial", "good", "bad"}]
    /\ handle \in [Procs -> {"none", "good", "bad"}]
    /\ delivered \in [Procs -> [Required -> 0 .. 1]]
    /\ bytes \in [Procs -> 0 .. TotalLimit]

Init ==
    /\ cache \in {"absent", "good", "bad"}
    /\ pc = [p \in Procs |-> "idle"]
    /\ result = [p \in Procs |-> "none"]
    /\ offline = {}
    /\ source = [p \in Procs |-> 1]
    /\ retry = [p \in Procs |-> 0]
    /\ hops = [p \in Procs |-> 0]
    /\ gets = [p \in Procs |-> NoGets]
    /\ staged = [p \in Procs |-> "none"]
    /\ handle = [p \in Procs |-> "none"]
    /\ delivered = [p \in Procs |-> NoFiles]
    /\ bytes = [p \in Procs |-> 0]

-----------------------------------------------------------------------------
Goto(p, step) == pc' = [pc EXCEPT ![p] = step]

\* Every way out of the call drops its temporary files, handle and counters.
Leave(p, outcome) ==
    /\ Goto(p, "idle")
    /\ result' = [result EXCEPT ![p] = outcome]
    /\ offline' = offline \ {p}
    /\ source' = [source EXCEPT ![p] = 1]
    /\ retry' = [retry EXCEPT ![p] = 0]
    /\ hops' = [hops EXCEPT ![p] = 0]
    /\ UNCHANGED gets
    /\ staged' = [staged EXCEPT ![p] = "none"]
    /\ handle' = [handle EXCEPT ![p] = "none"]
    /\ delivered' = [delivered EXCEPT ![p] = NoFiles]
    /\ bytes' = [bytes EXCEPT ![p] = 0]

Begin(p) ==
    /\ pc[p] = "idle"
    /\ Goto(p, "probe")
    /\ result' = [result EXCEPT ![p] = "none"]
    /\ offline' \in {offline, offline \union {p}}
    /\ gets' = [gets EXCEPT ![p] = NoGets]
    /\ UNCHANGED <<cache, source, retry, hops, staged, handle, archive>>

\* Any file by the right name is taken for the container, for now.
Probe(p) ==
    /\ pc[p] = "probe"
    /\ \/ /\ cache # "absent"
          /\ Goto(p, "open")
          /\ offline' = offline \ {p}
          /\ UNCHANGED <<result, attempt, staged, handle, archive>>
       \/ cache = "absent" /\ p \in offline /\ Leave(p, "refused")
       \/ /\ cache = "absent" /\ p \notin offline
          /\ Goto(p, "get")
          /\ gets' = [gets EXCEPT ![p][1] = @ + 1]
          /\ UNCHANGED <<result, offline, source, retry, hops, staged, handle, archive>>
    /\ UNCHANGED cache

-----------------------------------------------------------------------------
(* One attempt: get_with_safe_redirects_inner, fetch_verified_container.    *)

MutRedirectFree(p) ==
    /\ pc[p] = "get"
    /\ hops' = [hops EXCEPT ![p] = (@ + 1) % (MaxRedirects + 1)]
    /\ UNCHANGED <<cache, pc, result, offline, source, retry, gets, staged, handle, archive>>

\* A redirect to a URL the policy allows; the others end the call (Terminal).
Redirect(p) ==
    /\ pc[p] = "get"
    /\ hops[p] < MaxRedirects
    /\ hops' = [hops EXCEPT ![p] = @ + 1]
    /\ UNCHANGED <<cache, pc, result, offline, source, retry, gets, staged, handle, archive>>

\* A response whose declared length is within the limit.
Respond(p) ==
    /\ pc[p] = "get"
    /\ Goto(p, "body")
    /\ staged' = [staged EXCEPT ![p] = "partial"]
    /\ UNCHANGED <<cache, result, offline, attempt, handle, archive>>

\* The body is copied to the temporary file, up to the expected size.
Receive(p) ==
    /\ pc[p] = "body"
    /\ Goto(p, "check")
    /\ staged' = [staged EXCEPT ![p] = "good"]
    /\ UNCHANGED <<cache, result, offline, attempt, handle, archive>>

MutCheckNothing(p) ==
    /\ pc[p] = "check"
    /\ Goto(p, "publish")
    /\ UNCHANGED <<result, offline, attempt, staged, handle, archive, cache>>

\* copy_container compares size and digest; a mismatch is not a transport failure.
Check(p) ==
    /\ pc[p] = "check"
    /\ \/ /\ staged[p] = "good"
          /\ Goto(p, "publish")
          /\ UNCHANGED <<result, offline, attempt, staged, handle, archive>>
       \/ staged[p] # "good" /\ Leave(p, "mismatch")
    /\ UNCHANGED cache

MutPublishForget(p) ==
    /\ pc[p] = "publish"
    /\ staged' = [staged EXCEPT ![p] = "none"]
    /\ Goto(p, "open")
    /\ UNCHANGED <<cache, result, offline, attempt, handle, archive>>

\* publish_file renames the temporary file over whatever is there by now.
Publish(p) ==
    /\ pc[p] = "publish"
    /\ cache' = staged[p]
    /\ staged' = [staged EXCEPT ![p] = "none"]
    /\ Goto(p, "open")
    /\ UNCHANGED <<result, offline, attempt, handle, archive>>

MutNextResetless(p) ==
    \/ /\ source[p] < Sources
       /\ source' = [source EXCEPT ![p] = @ + 1]
       /\ gets' = [gets EXCEPT ![p][source[p] + 1] = @ + 1]
       /\ hops' = [hops EXCEPT ![p] = 0]
       /\ staged' = [staged EXCEPT ![p] = "none"]
       /\ Goto(p, "get")
       /\ UNCHANGED <<result, offline, retry, handle, archive>>
    \/ source[p] = Sources /\ Leave(p, "exhausted")

\* After a failure that may be retried: the same candidate after a pause, the next
\* candidate, or the end.
NextAttempt(p) ==
    \/ /\ \/ /\ retry[p] < Backoffs
             /\ retry' = [retry EXCEPT ![p] = @ + 1]
             /\ gets' = [gets EXCEPT ![p][source[p]] = @ + 1]
             /\ UNCHANGED source
          \/ /\ retry[p] = Backoffs
             /\ source[p] < Sources
             /\ source' = [source EXCEPT ![p] = @ + 1]
             /\ retry' = [retry EXCEPT ![p] = 0]
             /\ gets' = [gets EXCEPT ![p][source[p] + 1] = @ + 1]
       /\ hops' = [hops EXCEPT ![p] = 0]
       /\ staged' = [staged EXCEPT ![p] = "none"]
       /\ Goto(p, "get")
       /\ UNCHANGED <<result, offline, handle, archive>>
    \/ /\ retry[p] = Backoffs
       /\ source[p] = Sources
       /\ Leave(p, "exhausted")

-----------------------------------------------------------------------------
(* The cached file: the rest of fetch_container_runfiles.                  *)

Open(p) ==
    /\ pc[p] = "open"
    /\ \/ /\ cache # "absent"
          /\ handle' = [handle EXCEPT ![p] = cache]
          /\ Goto(p, "verify")
          /\ UNCHANGED <<result, offline, attempt, staged, archive>>
       \/ cache = "absent" /\ Leave(p, "missing")
    /\ UNCHANGED cache

MutVerifyPath(p) ==
    /\ pc[p] = "verify"
    /\ \/ /\ cache = "good"
          /\ Goto(p, "expand")
          /\ UNCHANGED <<result, offline, attempt, staged, handle, archive>>
       \/ cache # "good" /\ Leave(p, "mismatch")
    /\ UNCHANGED cache

\* The open file is hashed, also when it was downloaded a moment ago.
Verify(p) ==
    /\ pc[p] = "verify"
    /\ \/ /\ handle[p] = "good"
          /\ Goto(p, "expand")
          /\ UNCHANGED <<result, offline, attempt, staged, handle, archive>>
       \/ handle[p] # "good" /\ Leave(p, "mismatch")
    /\ UNCHANGED cache

\* extract_required_container decompresses all of it to a temporary file, within
\* the limit for the container's size, before the first entry is looked at.
Expand(p) ==
    /\ pc[p] = "expand"
    /\ Goto(p, "extract")
    /\ UNCHANGED <<cache, result, offline, attempt, staged, handle, archive>>

MutDeliverAgain(p) ==
    /\ pc[p] = "extract"
    /\ \E r \in Required, size \in Sizes :
         /\ size <= EntryLimit
         /\ bytes[p] + size <= TotalLimit
         /\ delivered[p][r] < 2
         /\ delivered' = [delivered EXCEPT ![p][r] = @ + 1]
         /\ bytes' = [bytes EXCEPT ![p] = @ + size]
    /\ UNCHANGED <<cache, pc, result, offline, attempt, staged, handle>>

\* visit_required_tar: the next required entry is a regular file under an alias of
\* r that has not come yet, within the limits; the visitor takes all of it.
\* Entries that are not required are skipped.
Deliver(p) ==
    /\ pc[p] = "extract"
    /\ \E r \in Required, size \in Sizes :
         /\ size <= EntryLimit
         /\ bytes[p] + size <= TotalLimit
         /\ delivered[p][r] = 0
         /\ delivered' = [delivered EXCEPT ![p][r] = 1]
         /\ bytes' = [bytes EXCEPT ![p] = @ + size]
    /\ UNCHANGED <<cache, pc, result, offline, attempt, staged, handle>>

\* The end of the archive, with nothing missing.
Finish(p) ==
    /\ pc[p] = "extract"
    /\ \A r \in Required : delivered[p][r] = 1
    /\ Leave(p, "ok")
    /\ UNCHANGED cache

-----------------------------------------------------------------------------
(* What may go wrong.                                                      *)

\* Statuses 408, 429, 500, 502, 503 and 504, timeouts and failed or broken
\* connections, while connecting or while reading the body.
Transient(p) ==
    /\ pc[p] \in {"get", "body"}
    /\ NextAttempt(p)
    /\ UNCHANGED cache

\* A request that names no checksum or size, a malformed one, or an unsafe URL.
Unusable(p) ==
    /\ pc[p] = "probe"
    /\ Leave(p, "fault")
    /\ UNCHANGED cache

\* A redirect to an unsafe URL or from HTTPS to HTTP, or one too many.
RefuseRedirect(p) ==
    /\ pc[p] = "get"
    /\ Leave(p, "fault")
    /\ UNCHANGED cache

\* Other statuses, TLS, a body that is longer than it may be, and every failure of
\* the disk end the call at once.
Terminal(p) ==
    /\ pc[p] \in {"get", "body", "publish", "open", "verify", "expand"}
    /\ Leave(p, "fault")
    /\ UNCHANGED cache

\* The server sends other bytes, or fewer, and ends the response in good order.
WrongBytes(p) ==
    /\ pc[p] = "body"
    /\ Goto(p, "check")
    /\ staged' = [staged EXCEPT ![p] = "bad"]
    /\ UNCHANGED <<cache, result, offline, attempt, handle, archive>>

\* An archive that cannot be decompressed within its limit, has an unsafe path, a
\* required entry that is no file, comes twice or exceeds a limit, lacks a
\* required file; or a visitor that fails.
BadArchive(p) ==
    /\ pc[p] \in {"expand", "extract"}
    /\ Leave(p, "fault")
    /\ UNCHANGED cache

Crash(p) ==
    /\ pc[p] # "idle"
    /\ Leave(p, "crashed")
    /\ UNCHANGED cache

\* Somebody replaces the cached file, or deletes it.
Meddle ==
    /\ cache # "absent"
    /\ cache' \in {"absent", "bad"} \ {cache}
    /\ UNCHANGED <<pc, result, offline, attempt, staged, handle, archive>>

Step(p) ==
    \/ Probe(p) \/ Redirect(p) \/ Respond(p) \/ Receive(p) \/ Check(p) \/ Publish(p)
    \/ Open(p) \/ Verify(p) \/ Expand(p) \/ Deliver(p) \/ Finish(p)
Fault(p) ==
    \/ Transient(p) \/ Unusable(p) \/ RefuseRedirect(p) \/ Terminal(p) \/ WrongBytes(p)
    \/ BadArchive(p)

Next ==
    \/ \E p \in Procs : Begin(p) \/ Step(p) \/ Fault(p) \/ Crash(p)
    \/ Meddle

\* A request ends by its timeouts, a file by its size: a call goes on, in some way.
Fairness == \A p \in Procs : WF_vars(Step(p) \/ Fault(p))
Spec == Init /\ [][Next]_vars /\ Fairness

Disturbance == Meddle \/ \E p \in Procs : Fault(p) \/ Crash(p)
Calm == <>[][~Disturbance]_vars

-----------------------------------------------------------------------------
(* Properties.                                                             *)

\* Whatever happens to the cached file between the download, the test for it, the
\* check and the extraction, no byte reaches the store that does not come from
\* the container the lock names ("Verify the open handle before decompression",
\* container.rs:101).
OnlyVerifiedDelivered ==
    [][\A p \in Procs, r \in Required :
          delivered'[p][r] > delivered[p][r] => handle[p] = "good"]_vars

\* cli.md: "at most three attempts per checked source for transient ... failures",
\* the sources in order, one after the other is exhausted; and the
\* call gives up on them only after all attempts at all sources.
AttemptsAccounted ==
    \A p \in Procs, s \in Candidates :
       /\ gets[p][s] <= Backoffs + 1
       /\ gets[p][s] > 0 => \A t \in Candidates : t < s => gets[p][t] = Backoffs + 1
       /\ result[p] = "exhausted" => gets[p][s] = Backoffs + 1

\* cli.md: "existing verified cache content is preserved on failure".  Whatever
\* calls race for the name, none of them puts anything but the container there.
CacheNeverWorsens ==
    [][pc' # pc /\ cache' # cache => cache' = "good"]_vars

\* Redirects, retries and candidates are bounded: no call goes on for ever,
\* whatever the servers answer.
EveryFetchEnds == \A p \in Procs : pc[p] # "idle" ~> pc[p] = "idle"

\* Once nothing fails any more and no foreign file has the container's name, online
\* fetches succeed: no failure leaves anything behind that stops the next call.
\* (Without the premise on the cache this is false: a corrupt file is refused,
\* but never fetched again, container.rs:81.)
FetchesRecover ==
    Calm /\ <>[](cache # "bad")
    => \A p \in Procs :
         <>[][pc[p] # "idle" /\ pc'[p] = "idle" => result'[p] = "ok" \/ p \in offline]_vars
=================================================================================
