------------------------------- MODULE LockGraph -------------------------------
(***************************************************************************)
(* The provider graph of a lock and what its construction computes:        *)
(* src/registry/resolution.rs, src/registry/inputs.rs, the discovery of    *)
(* src/store/hydrate.rs and the checks of src/artifact/validation.rs.      *)
(*                                                                         *)
(* A registry snapshot says which providers belong to the package layer    *)
(* and which are stable (not development versions), what each depends on,  *)
(* which files it ships and which names the text of a file loads.  A lock is a record of relations over one snapshot: its   *)
(* closure, the dependencies and the requesters (edges) recorded in its    *)
(* entries, the entries that are direct and what each was asked for.       *)
(* A request stands for the candidate file name it is looked up by.        *)
(***************************************************************************)
EXTENDS FiniteSets, Integers

CONSTANTS Providers,  \* every provider of any snapshot
          Paths,      \* TDS paths
          Names,      \* basenames, with their extension
          Base,       \* the basename of each path
          Scannable,  \* paths whose extension discovery reads
          Snapshots,  \* registry metadata digests
          Registry    \* what each snapshot records

Snapshot == [layer : SUBSET Providers,
             stable : SUBSET Providers,
             depends : [Providers -> SUBSET Providers],
             ships : [Providers -> SUBSET Paths],
             loads : [Paths -> SUBSET Names]]

ASSUME RegistryAssumption ==
    /\ Base \in [Paths -> Names]
    /\ Scannable \subseteq Paths
    /\ Registry \in [Snapshots -> Snapshot]
    /\ Providers \cap (Paths \union Names) = {}
    /\ Paths \cap Names = {}
    /\ IsFiniteSet(Paths)

\* No snapshot lists a provider among its own dependencies: the lock of one
\* that did would be refused, resolution keeps such an edge.
ASSUME NoSelfDependency ==
    \A s \in Snapshots, p \in Providers : p \notin Registry[s].depends[p]

Requests == Names \union Paths
Wants == Providers \union Requests
Declarations == [packages : SUBSET Names, literals : SUBSET Names, graphics : SUBSET Names]

Locks == [snapshot : Snapshots, project : Declarations, wants : SUBSET Wants,
          closure : SUBSET Providers,
          deps : SUBSET (Providers \X Providers),   \* <<dependent, dependency>>
          edges : SUBSET (Providers \X Providers),  \* <<requester, requested>>
          direct : SUBSET Providers,
          satisfies : SUBSET (Providers \X Names),
          requests : SUBSET (Providers \X Requests)]

-----------------------------------------------------------------------------
(* The registry index. *)

Layer(s) == Registry[s].layer
Depends(s, p) == Registry[s].depends[p] \intersect Layer(s)

\* A file name leads to the providers that ship such a file; where some of
\* them are stable, to those only.
Shipping(s, r) == {p \in Providers : \E f \in Registry[s].ships[p] : r \in {f, Base[f]}}
Preferred(s, P) == IF P \intersect Registry[s].stable = {} THEN P
                                                         ELSE P \intersect Registry[s].stable

\* The index of a snapshot: the providers that a request can name, itself or
\* those that ship such a file.
Index == [s \in Snapshots |-> [r \in Wants |->
             ({r} \intersect Providers) \union (Preferred(s, Shipping(s, r)) \intersect Layer(s))]]
Suppliers(s, r) == Index[s][r]

\* Every file these providers ship under a name, with its owner.
FilesNamed(s, n) ==
    {a \in Providers \X Paths : /\ a[1] \in Suppliers(s, n)
                                /\ a[2] \in Registry[s].ships[a[1]]
                                /\ Base[a[2]] = n}

\* The requests of a set that name exactly one provider, with that provider.
Unique(s, R) == {a \in Providers \X R : Suppliers(s, a[2]) = {a[1]}}

\* Literal inputs and graphics that name exactly one file of the registry.
UniqueFiles(s, N) == {a \in Providers \X Paths : /\ Base[a[2]] \in N
                                                 /\ FilesNamed(s, Base[a[2]]) = {a}}

-----------------------------------------------------------------------------
(* Building a lock. *)

\* Entries for the providers of P that have none yet.
Join(l, s, P) ==
    [l EXCEPT !.closure = @ \union P,
              !.deps = @ \union UNION {{p} \X Depends(s, p) : p \in P \ l.closure}]

MutAskReplacing(l, s, P, satisfied, asked) ==
    [Join(l, s, P) EXCEPT !.direct = P,
                          !.satisfies = @ \union satisfied,
                          !.requests = @ \union asked]

MutAskFilesSatisfy(l, s, P, satisfied, asked) ==
    [Join(l, s, P) EXCEPT !.direct = @ \union P,
                          !.satisfies = @ \union satisfied \union asked,
                          !.requests = @ \union asked]

\* Entries that the project or the user asked for.
Ask(l, s, P, satisfied, asked) ==
    [Join(l, s, P) EXCEPT !.direct = @ \union P,
                          !.satisfies = @ \union satisfied,
                          !.requests = @ \union asked]

Askers(asks) == {a[1] : a \in asks}
FileAsks(asks) == {a \in asks : a[2] \in Requests}

Blank(s, d) ==
    [snapshot |-> s, project |-> d, wants |-> {}, closure |-> {}, deps |-> {},
     edges |-> {}, direct |-> {}, satisfies |-> {}, requests |-> {}]

\* Every declaration with the one provider that answers it; a literal or a
\* graphic that no provider ships stays with the project.
Seeded(s, d) ==
    LET packages == Unique(s, d.packages)
        files == UniqueFiles(s, d.literals \union d.graphics)
    IN  Ask(Blank(s, d), s, Askers(packages \union files), packages, files)

\* No declaration is left without a provider or with several.
Resolvable(s, d) ==
    /\ \A n \in d.packages : \E p \in Providers : Suppliers(s, n) = {p}
    /\ \A n \in d.literals \union d.graphics : \A a, b \in FilesNamed(s, n) : a = b

\* The user's requirements, each with the one provider that answers it.
Required(l, s, w) ==
    [Ask(l, s, Askers(Unique(s, w)), {}, FileAsks(Unique(s, w))) EXCEPT !.wants = @ \union w]
Satisfiable(s, w) == \A r \in w : \E p \in Providers : Suppliers(s, r) = {p}

\* One turn of the worklist loop: the dependencies of p get entries, and p
\* becomes one of their requesters.
Children(l, s, p) == {d \in Layer(s) : <<p, d>> \in l.deps}
MutExpandedNewOnly(l, s, p) ==
    [Join(l, s, Children(l, s, p)) EXCEPT
        !.edges = @ \union ({p} \X (Children(l, s, p) \ l.closure))]
Expanded(l, s, p) ==
    [Join(l, s, Children(l, s, p)) EXCEPT !.edges = @ \union ({p} \X Children(l, s, p))]

-----------------------------------------------------------------------------
(* Discovery in the files of a hydrated lock. *)

Files(l, p) == Registry[l.snapshot].ships[p]
Environment(l) == UNION {Files(l, p) : p \in l.closure}
RequestsOf(l, p) == {r \in Requests : <<p, r>> \in l.requests}

\* Requested files; files that satisfy a declaration of the project; all
\* readable files of a provider that came in as a dependency only.
Selected(l) ==
    {f \in Environment(l) : \E p \in l.closure :
        /\ f \in Files(l, p)
        /\ \/ {f, Base[f]} \intersect RequestsOf(l, p) # {}
           \/ p \in l.direct /\ <<p, Base[f]>> \in l.satisfies
           \/ p \notin l.direct /\ RequestsOf(l, p) = {} /\ f \in Scannable}

Loads(l, f) == IF f \in Scannable THEN Registry[l.snapshot].loads[f] ELSE {}

\* The files read: the selected ones and, while they are readable, the locked
\* files under the names they load.
Follow(l, read) ==
    read \union {f \in Environment(l) : \E g \in read : Base[f] \in Loads(l, g)}
Followed(l) ==
    LET rounds == Cardinality(Environment(l))
        stage[i \in 0..rounds] ==
            IF i = 0 THEN Selected(l)
            ELSE UNION {Follow(l, read) : read \in {stage[i - 1]}}
    IN  stage[rounds]

\* <<provider, name>>: a file of the provider that was read loads the name.
Reads(l) ==
    UNION {{p \in l.closure : f \in Files(l, p)} \X Loads(l, f) : f \in Followed(l)}

\* <<parent, name, provider>>: parent loads a name that is not locked and that
\* exactly this other provider ships.
Named(l, n) == {f \in Environment(l) : Base[f] = n}
Found(l, s) ==
    {t \in {<<a[1], a[2], q>> : a \in Reads(l), q \in Providers \ l.closure} :
        Named(l, t[2]) = {} /\ Suppliers(s, t[2]) = {t[3]}}

Newcomers(found) == {t[3] : t \in found}
Grown(l, s, found) ==
    [Join(l, s, Newcomers(found)) EXCEPT
        !.edges = @ \union {<<t[1], t[3]>> : t \in found},
        !.requests = @ \union {<<t[3], t[2]>> : t \in found}]

-----------------------------------------------------------------------------
(* Traces: names an engine asked for and paths it says it read. *)

Missing(l, t) ==
    {x \in t : IF x \in Paths THEN x \notin Environment(l)
                              ELSE \A f \in Named(l, x) : Named(l, x) # {f}}

\* Every missing input has one provider, and that is not locked yet.
Convergible(l, s, missing) ==
    \A x \in missing : \E p \in Providers \ l.closure : Suppliers(s, x) = {p}

BaseName(x) == IF x \in Paths THEN Base[x] ELSE x
MutObservedAnew(l, s, missing) ==
    Ask(Required(Seeded(s, l.project), s, l.wants), s, Askers(Unique(s, missing)), {},
        {<<a[1], BaseName(a[2])>> : a \in Unique(s, missing)})
Observed(l, s, missing) ==
    Ask(l, s, Askers(Unique(s, missing)), {},
        {<<a[1], BaseName(a[2])>> : a \in Unique(s, missing)})

-----------------------------------------------------------------------------
(* Validation, before an exact lock is used or written. *)

GraphValid(l) ==
    /\ \A e \in l.deps : e[1] # e[2] /\ e[2] \in l.closure /\ e \in l.edges
    /\ \A e \in l.edges : e[1] \in l.closure
    /\ \A p \in l.closure : p \in l.direct \/ \E q \in Providers : <<q, p>> \in l.edges

WantsValid(l) ==
    /\ l.wants \intersect Providers \subseteq l.closure \intersect l.direct
    /\ \A r \in l.wants \intersect Requests :
          \E p \in l.closure : {q \in l.closure : <<q, r>> \in l.requests} = {p}

DeclarationsValid(l) ==
    \A n \in l.project.packages : \E p \in l.closure : <<p, n>> \in l.satisfies

\* Every provider has files, no path has two owners, every declaration leads
\* to a file.
ContentsValid(l) ==
    /\ \A p \in l.closure : Files(l, p) # {}
    /\ \A p, q \in l.closure : p # q => Files(l, p) \intersect Files(l, q) = {}
    /\ \A n \in l.project.packages : \E p \in l.closure :
          /\ <<p, n>> \in l.satisfies
          /\ \E f \in Files(l, p) : Base[f] = n

Valid(l) == GraphValid(l) /\ WantsValid(l) /\ DeclarationsValid(l) /\ ContentsValid(l)
=============================================================================
