-------------------------------- MODULE Delivery --------------------------------
(***************************************************************************)
(* The way of a package file from the private store to a browser tab:      *)
(* Mirror publishes, a static server answers from public/ without pqty,    *)
(* and the tabs of PackageReader open one of the files.                    *)
(***************************************************************************)
EXTENDS Mirror

CONSTANTS Tabs, NoTab,
          Asset   \* the file the tabs open

ASSUME DeliveryAssumption == Asset \in Objects /\ NoTab \notin Tabs

VARIABLES entry, queue, holder, handles, staged, at, failed
browserVars == <<entry, queue, holder, handles, staged, at, failed>>
deliveryVars == <<mirrorVars, browserVars>>

Browser == INSTANCE PackageReader WITH served <- public[Asset]

DeliveryTypeOK == MirrorTypeOK /\ Browser!ReaderTypeOK

DeliveryInit == Init /\ Browser!Init
DeliveryNext ==
    \/ Next /\ UNCHANGED browserVars
    \/ Browser!Next /\ UNCHANGED mirrorVars
DeliverySpec ==
    /\ DeliveryInit
    /\ [][DeliveryNext]_deliveryVars
    /\ Fairness
    /\ Browser!Fairness

ReadersVerified == Browser!ReadersVerified
CleanFailure == Browser!CleanFailure

\* Every run ends and every call of openPackageFile is answered, although runs wait
\* for two locks, one inside the other, and calls for the tab that holds the Web Lock.
EveryoneReturns ==
    /\ \A r \in Runs : pc[r] # "idle" ~> pc[r] = "idle"
    /\ \A t \in Tabs : at[t] = "queued" ~> at[t] \in {"reading", "idle"}

\* Once nothing goes wrong any more and the store holds no corrupt object
\* (package.rs:247) or record (package.rs:250),
\* mirror runs succeed, and the tabs open what an undamaged catalog lists.
Calm == <>[][~Trouble /\ ~Browser!Trouble]_deliveryVars
Listed == Asset \notin damaged /\ \E s \in catalogs : Asset \in FilesOf(s)
Sound == (\A o \in Objects : object[o] # "bad") /\ \A k \in Packages : ~Unusable(k)
DeliverySucceeds ==
    Calm /\ <>[]Sound
    => <>[][/\ \A r \in Runs : lock = r /\ lock' # r => snapshot[r] \subseteq catalogs'
            /\ \A t \in Tabs : Listed /\ at[t] # "idle" /\ at'[t] = "idle"
                               => at[t] = "reading"]_deliveryVars
=================================================================================
