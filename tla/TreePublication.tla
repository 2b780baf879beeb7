---------------------------- MODULE TreePublication ----------------------------
(***************************************************************************)
(* What installing into a destination promises: the destination is an      *)
(* atomic register that holds one lock's tree.  A call either takes effect *)
(* at one instant between its start and its return or not at all, and a    *)
(* call that reports success leaves its own lock's tree active.            *)
(*                                                                         *)
(* InstallTransaction implements this module with renames of whole trees.  *)
(***************************************************************************)
CONSTANTS Procs, Locks, NoLock, Outcomes

VARIABLES
    active,    \* the lock of the tree that is, or will be recovered to be, live
    asked,     \* the lock each running call installs, NoLock outside a call
    effected,  \* the callers whose call has taken effect
    answer     \* how the last call of each process ended

pubVars == <<active, asked, effected, answer>>

PubInit ==
    /\ active = NoLock
    /\ asked = [p \in Procs |-> NoLock]
    /\ effected = {}
    /\ answer = [p \in Procs |-> "none"]

Ask(p) ==
    /\ asked[p] = NoLock
    /\ \E l \in Locks : asked' = [asked EXCEPT ![p] = l]
    /\ answer' = [answer EXCEPT ![p] = "none"]
    /\ UNCHANGED <<active, effected>>

\* The one step at which the tree of a call becomes the active one.
Take(p) ==
    /\ asked[p] # NoLock
    /\ p \notin effected
    /\ active' = asked[p]
    /\ effected' = effected \union {p}
    /\ UNCHANGED <<asked, answer>>

\* A call returns, or its process exits.  Success is reported only while the
\* requested tree is active.
Answer(p) ==
    /\ asked[p] # NoLock
    /\ \E a \in Outcomes \ {"none"} :
          /\ a = "ok" => active = asked[p]
          /\ answer' = [answer EXCEPT ![p] = a]
    /\ asked' = [asked EXCEPT ![p] = NoLock]
    /\ effected' = effected \ {p}
    /\ UNCHANGED active

PubNext == \E p \in Procs : Ask(p) \/ Take(p) \/ Answer(p)

PubSpec == PubInit /\ [][PubNext]_pubVars

\* Every call is answered in the end.
PubFairSpec == PubSpec /\ \A p \in Procs : WF_pubVars(Answer(p))
================================================================================
