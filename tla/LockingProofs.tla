----------------------------- MODULE LockingProofs -----------------------------
(***************************************************************************)
(* What every lock file satisfies, for every registry, project and number  *)
(* of overlapping commands.                                                *)
(***************************************************************************)
EXTENDS Locking, TLAPS

\* Edges join providers of the closure, direct ones belong to it.
Shaped(l) == l.direct \subseteq l.closure /\ l.edges \subseteq l.closure \X l.closure

\* A requirement has one supplier, which is direct and was asked for it.
WantsMet(l) ==
    \A r \in l.wants : \E p \in l.direct :
        /\ Suppliers(l.snapshot, r) = {p}
        /\ r \in Requests => <<p, r>> \in l.requests

Core(l) == l \in Locks /\ Shaped(l) /\ FromSnapshot(l) /\ WellFounded(l)
Good(l) ==
    /\ Core(l)
    /\ WantsMet(l)
    /\ DeclarationsValid(l)

\* The dependencies of every provider outside Q have been entered.
Settled(l, Q) ==
    \A f \in l.deps : f[1] \notin Q => f[2] \in l.closure /\ f \in l.edges

-----------------------------------------------------------------------------
(* The operators. *)

LEMMA OwnSupplier ==
    ASSUME NEW s \in Snapshots, NEW p \in Providers  PROVE p \in Suppliers(s, p)
BY DEF Suppliers, Index, Wants

LEMMA JoinFields ==
    ASSUME NEW l \in Locks, NEW s \in Snapshots, NEW P, P \subseteq Providers
    PROVE  /\ Join(l, s, P) \in Locks
           /\ Join(l, s, P).closure = l.closure \union P
           /\ Join(l, s, P).deps =
                 l.deps \union UNION {{p} \X Depends(s, p) : p \in P \ l.closure}
           /\ Join(l, s, P).snapshot = l.snapshot
           /\ Join(l, s, P).project = l.project
           /\ Join(l, s, P).wants = l.wants
           /\ Join(l, s, P).edges = l.edges
           /\ Join(l, s, P).direct = l.direct
           /\ Join(l, s, P).satisfies = l.satisfies
           /\ Join(l, s, P).requests = l.requests
<1>1. UNION {{p} \X Depends(s, p) : p \in P \ l.closure} \subseteq Providers \X Providers
  BY RegistryAssumption DEF Depends, Layer, Snapshot
<1> QED  BY <1>1 DEF Join, Locks

LEMMA JoinKeepsSnapshot ==
    ASSUME NEW l \in Locks, FromSnapshot(l), NEW P, P \subseteq Providers
    PROVE  FromSnapshot(Join(l, l.snapshot, P))
<1> DEFINE j == Join(l, l.snapshot, P)
<1>1. l.snapshot \in Snapshots  BY DEF Locks
<1>2. /\ j.closure = l.closure \union P
      /\ j.deps = l.deps \union UNION {{p} \X Depends(l.snapshot, p) : p \in P \ l.closure}
      /\ j.snapshot = l.snapshot
      /\ j \in Locks
  BY <1>1, JoinFields
<1>3. ASSUME NEW f \in j.deps
      PROVE  f \in Providers \X Providers /\ f[1] \in j.closure /\ f[2] \in Depends(l.snapshot, f[1])
  <2>1. CASE f \in l.deps  BY <2>1, <1>2, <1>3 DEF FromSnapshot, Locks
  <2>2. CASE f \in UNION {{p} \X Depends(l.snapshot, p) : p \in P \ l.closure}
    BY <2>2, <1>2, <1>3 DEF Locks
  <2> QED  BY <2>1, <2>2, <1>2, <1>3
<1>4. ASSUME NEW f \in Providers \X Providers, f[1] \in j.closure, f[2] \in Depends(l.snapshot, f[1])
      PROVE  f \in j.deps
  <2>1. CASE f[1] \in l.closure  BY <2>1, <1>2, <1>4 DEF FromSnapshot
  <2>2. CASE f[1] \notin l.closure
    <3>1. f[1] \in P \ l.closure  BY <2>2, <1>2, <1>4
    <3>2. f \in {f[1]} \X Depends(l.snapshot, f[1])  BY <1>4
    <3> QED  BY <3>1, <3>2, <1>2
  <2> QED  BY <2>1, <2>2
<1>5. j.deps = {f \in Providers \X Providers : f[1] \in j.closure /\ f[2] \in Depends(l.snapshot, f[1])}
  BY <1>3, <1>4
<1> QED  BY <1>2, <1>5 DEF FromSnapshot

\* Whatever adds providers that are direct, or requested by a provider that
\* was there before, creates no orphans.
Extends(k, l) ==
    /\ l.closure \subseteq k.closure
    /\ l.direct \subseteq k.direct
    /\ l.edges \subseteq k.edges
    /\ \A p \in k.closure \ (l.closure \union k.direct) :
          \E f \in k.edges : f[1] \in l.closure /\ f[2] = p

LEMMA AddingKeepsWellFounded ==
    ASSUME NEW l, NEW k, Shaped(l), WellFounded(l), Extends(k, l)
    PROVE  WellFounded(k)
<1> SUFFICES ASSUME NEW S \in SUBSET (k.closure \ k.direct), S # {}
             PROVE  \E f \in k.edges : f[1] \in k.closure \ S /\ f[2] \in S
  BY DEF WellFounded
<1> DEFINE old == S \intersect l.closure
<1>1. CASE old = {}
  <2>1. PICK p \in S : TRUE  OBVIOUS
  <2>2. PICK f \in k.edges : f[1] \in l.closure /\ f[2] = p  BY <2>1, <1>1 DEF Extends
  <2> QED  BY <2>1, <2>2, <1>1 DEF Extends
<1>2. CASE old # {}
  <2>1. old \in SUBSET (l.closure \ l.direct)  BY DEF Extends
  <2>2. PICK f \in l.edges : f[1] \in l.closure \ old /\ f[2] \in old
    BY <2>1, <1>2 DEF WellFounded
  <2> QED  BY <2>2 DEF Extends
<1> QED  BY <1>1, <1>2

\* What Ask makes of l.
IsAsk(k, l, P, sat, asked) ==
    /\ k \in Locks
    /\ k.closure = l.closure \union P
    /\ k.snapshot = l.snapshot
    /\ k.project = l.project
    /\ k.wants = l.wants
    /\ k.edges = l.edges
    /\ k.direct = l.direct \union P
    /\ k.satisfies = l.satisfies \union sat
    /\ k.requests = l.requests \union asked

LEMMA AskFields ==
    ASSUME NEW l \in Locks, NEW s \in Snapshots, NEW P, P \subseteq Providers,
           NEW sat, NEW asked, sat \subseteq Providers \X Names, asked \subseteq Providers \X Requests
    PROVE  /\ IsAsk(Ask(l, s, P, sat, asked), l, P, sat, asked)
           /\ Ask(l, s, P, sat, asked).deps = Join(l, s, P).deps
<1> DEFINE j == Join(l, s, P)
<1>1. /\ j \in Locks
      /\ j.closure = l.closure \union P
      /\ j.snapshot = l.snapshot /\ j.project = l.project /\ j.wants = l.wants
      /\ j.edges = l.edges /\ j.direct = l.direct
      /\ j.satisfies = l.satisfies /\ j.requests = l.requests
  BY JoinFields
<1> DEFINE k == [j EXCEPT !.direct = j.direct \union P,
                          !.satisfies = j.satisfies \union sat,
                          !.requests = j.requests \union asked]
<1>2. Ask(l, s, P, sat, asked) = k  BY DEF Ask
<1> HIDE DEF j
<1>3. IsAsk(k, l, P, sat, asked) /\ k.deps = j.deps  BY <1>1 DEF Locks, IsAsk
<1> QED  BY <1>2, <1>3 DEF j

LEMMA AskKeepsCore ==
    ASSUME NEW l, Core(l), NEW P, P \subseteq Providers,
           NEW sat, NEW asked, sat \subseteq Providers \X Names, asked \subseteq Providers \X Requests
    PROVE  /\ Core(Ask(l, l.snapshot, P, sat, asked))
           /\ \A Q : Settled(l, Q) => Settled(Ask(l, l.snapshot, P, sat, asked), Q \union P)
<1> DEFINE k == Ask(l, l.snapshot, P, sat, asked)
           j == Join(l, l.snapshot, P)
<1>1. l \in Locks /\ l.snapshot \in Snapshots /\ FromSnapshot(l)  BY DEF Core, Locks
<1> HIDE DEF k, j
<1>9. IsAsk(k, l, P, sat, asked) /\ k.deps = j.deps  BY <1>1, AskFields DEF k, j
<1>2. /\ k \in Locks
      /\ k.closure = l.closure \union P
      /\ k.snapshot = l.snapshot
      /\ k.edges = l.edges
      /\ k.direct = l.direct \union P
      /\ k.requests = l.requests \union asked
      /\ k.deps = j.deps
  BY <1>9 DEF IsAsk
<1>3. /\ FromSnapshot(j)
      /\ j.closure = l.closure \union P
      /\ j.snapshot = l.snapshot
      /\ j.deps = l.deps \union UNION {{p} \X Depends(l.snapshot, p) : p \in P \ l.closure}
  <2>1. FromSnapshot(j)  BY <1>1, JoinKeepsSnapshot DEF j
  <2> QED  BY <2>1, <1>1, JoinFields DEF j
<1>4. FromSnapshot(k)  BY <1>2, <1>3 DEF FromSnapshot
<1>5. Shaped(k)  BY <1>2 DEF Core, Shaped
<1>6. WellFounded(k)
  <2>1. Shaped(l) /\ WellFounded(l)  BY DEF Core
  <2>2. Extends(k, l)  BY <1>2 DEF Extends
  <2> QED  BY <2>1, <2>2, AddingKeepsWellFounded
<1>8. ASSUME NEW Q, Settled(l, Q)  PROVE Settled(k, Q \union P)
  <2> SUFFICES ASSUME NEW f \in k.deps, f[1] \notin Q \union P
               PROVE  f[2] \in k.closure /\ f \in k.edges
    BY DEF Settled
  <2>1. f \in l.deps  BY <1>2, <1>3
  <2> QED  BY <2>1, <1>2, <1>8 DEF Settled
<1> QED  BY <1>2, <1>4, <1>5, <1>6, <1>8 DEF Core, k

LEMMA UniqueIsTyped ==
    ASSUME NEW s, NEW R
    PROVE  /\ Unique(s, R) \subseteq Providers \X R
           /\ Askers(Unique(s, R)) \subseteq Providers
           /\ \A a \in Unique(s, R) : Suppliers(s, a[2]) = {a[1]}
BY DEF Unique, Askers

\* Resolution of the project's declarations.
LEMMA SeededIsCore ==
    ASSUME NEW s \in Snapshots, NEW d \in Declarations, Resolvable(s, d)
    PROVE  /\ Core(Seeded(s, d))
           /\ Seeded(s, d).snapshot = s
           /\ Seeded(s, d).wants = {}
           /\ DeclarationsValid(Seeded(s, d))
<1>1. Blank(s, d) \in Locks  BY DEF Blank, Locks, Wants, Requests
<1> PICK b \in Locks : b = Blank(s, d)  BY <1>1
<1> DEFINE packages == Unique(s, d.packages)
           files == UniqueFiles(s, d.literals \union d.graphics)
           P == Askers(packages \union files)
           k == Ask(b, s, P, packages, files)
<1>2. /\ b.snapshot = s /\ b.closure = {} /\ b.deps = {} /\ b.edges = {}
      /\ b.direct = {} /\ b.requests = {} /\ b.wants = {} /\ b.project = d /\ b.satisfies = {}
  BY DEF Blank
<1>3. Seeded(s, d) = k  BY DEF Seeded
<1> HIDE DEF packages, files, P, k
<1>13. Core(b)
  BY <1>2 DEF Core, Shaped, FromSnapshot, WellFounded
<1>4. d.packages \subseteq Names  BY DEF Declarations
<1>5. packages \subseteq Providers \X Names  BY <1>4, UniqueIsTyped DEF packages
<1>6. files \subseteq Providers \X Paths  BY DEF UniqueFiles, files
<1>8. P \subseteq Providers  BY <1>5, <1>6 DEF Askers, P
<1>9. files \subseteq Providers \X Requests  BY <1>6 DEF Requests
<1>10. Core(k)  BY <1>2, <1>13, <1>5, <1>8, <1>9, AskKeepsCore DEF k
<1>11. /\ k.snapshot = s /\ k.wants = {} /\ k.project = d
       /\ k.closure = P /\ k.satisfies = packages
  <2>1. IsAsk(k, b, P, packages, files)  BY <1>5, <1>8, <1>9, AskFields DEF k
  <2> QED  BY <2>1, <1>2 DEF IsAsk
<1>12. DeclarationsValid(k)
  <2> SUFFICES ASSUME NEW n \in d.packages
               PROVE  \E p \in k.closure : <<p, n>> \in k.satisfies
    BY <1>11 DEF DeclarationsValid
  <2>1. PICK p \in Providers : Suppliers(s, n) = {p}  BY DEF Resolvable
  <2>2. <<p, n>> \in packages  BY <2>1 DEF Unique, packages
  <2>3. p \in P  BY <2>2 DEF Askers, P
  <2> QED  BY <2>2, <2>3, <1>11
<1> QED  BY <1>3, <1>10, <1>11, <1>12

LEMMA AskKeepsAnswers ==
    ASSUME NEW l \in Locks, NEW P, P \subseteq Providers, NEW sat, NEW asked,
           sat \subseteq Providers \X Names, asked \subseteq Providers \X Requests
    PROVE  /\ WantsMet(l) => WantsMet(Ask(l, l.snapshot, P, sat, asked))
           /\ DeclarationsValid(l) => DeclarationsValid(Ask(l, l.snapshot, P, sat, asked))
<1> DEFINE k == Ask(l, l.snapshot, P, sat, asked)
<1>1. l.snapshot \in Snapshots  BY DEF Locks
<1>2. /\ k.closure = l.closure \union P
      /\ k.snapshot = l.snapshot
      /\ k.project = l.project
      /\ k.wants = l.wants
      /\ k.direct = l.direct \union P
      /\ k.satisfies = l.satisfies \union sat
      /\ k.requests = l.requests \union asked
  <2>1. IsAsk(k, l, P, sat, asked)  BY <1>1, AskFields
  <2> QED  BY <2>1 DEF IsAsk
<1> HIDE DEF k
<1>3. WantsMet(l) => WantsMet(k)  BY <1>2 DEF WantsMet
<1>4. DeclarationsValid(l) => DeclarationsValid(k)  BY <1>2 DEF DeclarationsValid
<1> QED  BY <1>3, <1>4 DEF k

\* Recording requirements changes nothing else.
LEMMA Wanting ==
    ASSUME NEW l, Core(l), NEW w \in SUBSET Wants
    PROVE  LET k == [l EXCEPT !.wants = @ \union w]
           IN  /\ Core(k)
               /\ k.snapshot = l.snapshot /\ k.project = l.project /\ k.closure = l.closure
               /\ k.wants = l.wants \union w /\ k.direct = l.direct /\ k.requests = l.requests
               /\ k.satisfies = l.satisfies /\ k.deps = l.deps /\ k.edges = l.edges
<1> DEFINE k == [l EXCEPT !.wants = l.wants \union w]
<1>1. l \in Locks  BY DEF Core
<1>2. /\ k \in Locks
      /\ k.snapshot = l.snapshot /\ k.project = l.project /\ k.closure = l.closure
      /\ k.wants = l.wants \union w /\ k.direct = l.direct /\ k.requests = l.requests
      /\ k.satisfies = l.satisfies /\ k.deps = l.deps /\ k.edges = l.edges
  BY <1>1 DEF Locks
<1> HIDE DEF k
<1>3. Core(k)
  <2>1. Shaped(k) /\ FromSnapshot(k)  BY <1>2 DEF Core, Shaped, FromSnapshot
  <2>2. WellFounded(k)  BY <1>2 DEF Core, WellFounded
  <2> QED  BY <2>1, <2>2, <1>2 DEF Core
<1> QED  BY <1>2, <1>3 DEF k

IsBegun(k, l, P) ==
    /\ Good(k)
    /\ k.snapshot = l.snapshot
    /\ k.closure = l.closure \union P
    /\ \A Q : Settled(l, Q) => Settled(k, Q \union P)

\* Resolution of requirements, over a seeded lock or an existing one.
LEMMA RequiredIsGood ==
    ASSUME NEW l, Core(l), WantsMet(l), DeclarationsValid(l),
           NEW s, s = l.snapshot, NEW w \in SUBSET Wants, Satisfiable(s, w),
           NEW P, P = Askers(Unique(s, w))
    PROVE  IsBegun(Required(l, s, w), l, P)
<1> DEFINE U == Unique(s, w)
           asked == FileAsks(U)
           a == Ask(l, s, P, {}, asked)
           k == [a EXCEPT !.wants = @ \union w]
<1>1. l \in Locks /\ s \in Snapshots  BY DEF Core, Locks
<1>2. U \subseteq Providers \X w /\ P \subseteq Providers /\ \A u \in U : Suppliers(s, u[2]) = {u[1]}
  BY UniqueIsTyped
<1>3. asked \subseteq Providers \X Requests  BY <1>2 DEF FileAsks
<1>4. {} \subseteq Providers \X Names  OBVIOUS
<1>14. P = Askers(U)  OBVIOUS
<1> HIDE DEF U, asked
<1>5. Core(a) /\ \A Q : Settled(l, Q) => Settled(a, Q \union P)
  BY <1>2, <1>3, <1>4, AskKeepsCore
<1>6. WantsMet(a) /\ DeclarationsValid(a)
  BY <1>1, <1>2, <1>3, <1>4, AskKeepsAnswers
<1>7. /\ a.closure = l.closure \union P /\ a.snapshot = s
      /\ a.direct = l.direct \union P /\ a.requests = l.requests \union asked
  <2>1. IsAsk(a, l, P, {}, asked)  BY <1>1, <1>2, <1>3, <1>4, AskFields
  <2> QED  BY <2>1 DEF IsAsk
<1> HIDE DEF a
<1>8. /\ Core(k)
      /\ k.snapshot = a.snapshot /\ k.project = a.project /\ k.closure = a.closure
      /\ k.wants = a.wants \union w /\ k.direct = a.direct /\ k.requests = a.requests
      /\ k.satisfies = a.satisfies /\ k.deps = a.deps /\ k.edges = a.edges
  BY <1>5, Wanting
<1> HIDE DEF k
<1>9. WantsMet(k)
  <2> SUFFICES ASSUME NEW r \in k.wants
               PROVE  \E p \in k.direct : /\ Suppliers(k.snapshot, r) = {p}
                                          /\ r \in Requests => <<p, r>> \in k.requests
    BY DEF WantsMet
  <2>1. CASE r \in a.wants  BY <2>1, <1>6, <1>8 DEF WantsMet
  <2>2. CASE r \in w
    <3>1. PICK p \in Providers : Suppliers(s, r) = {p}  BY <2>2 DEF Satisfiable
    <3>2. <<p, r>> \in U  BY <2>2, <3>1 DEF Unique, U
    <3>3. p \in k.direct  BY <3>2, <1>7, <1>8, <1>14 DEF Askers
    <3>4. r \in Requests => <<p, r>> \in k.requests
      BY <3>2, <1>7, <1>8 DEF FileAsks, asked
    <3> QED  BY <3>1, <3>3, <3>4, <1>7, <1>8
  <2> QED  BY <2>1, <2>2, <1>8
<1>10. DeclarationsValid(k)  BY <1>6, <1>8 DEF DeclarationsValid
<1>11. ASSUME NEW Q, Settled(l, Q)  PROVE Settled(k, Q \union P)
  BY <1>5, <1>8, <1>11 DEF Settled
<1>12. Required(l, s, w) = k  BY DEF Required, k, a, asked, U
<1>13. Good(k) /\ k.snapshot = s /\ k.closure = l.closure \union P
  BY <1>7, <1>8, <1>9, <1>10 DEF Good
<1> QED  BY <1>11, <1>12, <1>13 DEF IsBegun

\* Convergence: what it records, a basename, is a request.
LEMMA ObservedIsGood ==
    ASSUME NEW l, Good(l), NEW s, s = l.snapshot, NEW missing \in SUBSET Requests,
           NEW P, P = Askers(Unique(s, missing))
    PROVE  IsBegun(Observed(l, s, missing), l, P)
<1> DEFINE U == Unique(s, missing)
           asked == {<<a[1], BaseName(a[2])>> : a \in U}
           k == Ask(l, s, P, {}, asked)
<1>1. Core(l) /\ l \in Locks /\ s \in Snapshots  BY DEF Good, Core, Locks
<1>2. U \subseteq Providers \X missing /\ P \subseteq Providers /\ \A u \in U : Suppliers(s, u[2]) = {u[1]}
  BY UniqueIsTyped
<1>3. ASSUME NEW u \in U  PROVE BaseName(u[2]) \in Requests
  BY <1>2, RegistryAssumption DEF BaseName, Requests
<1>4. asked \subseteq Providers \X Requests  BY <1>2, <1>3
<1>5. {} \subseteq Providers \X Names  OBVIOUS
<1>6. Observed(l, s, missing) = k  BY DEF Observed
<1> HIDE DEF U, asked, k
<1>7. Core(k) /\ \A Q : Settled(l, Q) => Settled(k, Q \union P)
  BY <1>1, <1>2, <1>4, <1>5, AskKeepsCore DEF k
<1>8. WantsMet(k) /\ DeclarationsValid(k)
  BY <1>1, <1>2, <1>4, <1>5, AskKeepsAnswers DEF Good, k
<1>9. k.closure = l.closure \union P /\ k.snapshot = s
  <2>1. IsAsk(k, l, P, {}, asked)  BY <1>1, <1>2, <1>4, <1>5, AskFields DEF k
  <2> QED  BY <2>1 DEF IsAsk
<1> QED  BY <1>6, <1>7, <1>8, <1>9 DEF Good, IsBegun

IsLinked(k, j, links, asked) ==
    /\ k \in Locks
    /\ k.closure = j.closure /\ k.deps = j.deps
    /\ k.snapshot = j.snapshot /\ k.project = j.project /\ k.wants = j.wants
    /\ k.edges = j.edges \union links /\ k.direct = j.direct
    /\ k.satisfies = j.satisfies /\ k.requests = j.requests \union asked

LEMMA LinkFields ==
    ASSUME NEW j \in Locks, NEW links, links \subseteq Providers \X Providers,
           NEW asked, asked \subseteq Providers \X Requests
    PROVE  IsLinked([j EXCEPT !.edges = @ \union links, !.requests = @ \union asked],
                    j, links, asked)
BY DEF Locks, IsLinked

IsGrown(k, l, P, links) ==
    /\ Good(k)
    /\ k.snapshot = l.snapshot
    /\ k.closure = l.closure \union P
    /\ k.edges = l.edges \union links
    /\ k.deps = Join(l, l.snapshot, P).deps

\* Growing a lock by providers that one of its own requests keeps it good.
LEMMA LinkingIsGood ==
    ASSUME NEW l, Good(l), NEW P, P \subseteq Providers,
           NEW links, links \subseteq l.closure \X (l.closure \union P),
           \A p \in P \ l.closure : \E f \in links : f[1] \in l.closure /\ f[2] = p,
           NEW asked, asked \subseteq Providers \X Requests,
           NEW s, s = l.snapshot,
           NEW k, k = [Join(l, s, P) EXCEPT !.edges = @ \union links, !.requests = @ \union asked]
    PROVE  IsGrown(k, l, P, links)
<1> DEFINE j == Join(l, l.snapshot, P)
<1>1. Core(l) /\ l \in Locks /\ l.snapshot \in Snapshots /\ FromSnapshot(l) /\ l.closure \subseteq Providers
  BY DEF Good, Core, Locks
<1>2. /\ j \in Locks
      /\ j.closure = l.closure \union P
      /\ j.snapshot = l.snapshot /\ j.project = l.project /\ j.wants = l.wants
      /\ j.edges = l.edges /\ j.direct = l.direct
      /\ j.satisfies = l.satisfies /\ j.requests = l.requests
  BY <1>1, JoinFields
<1>3. FromSnapshot(j)  BY <1>1, JoinKeepsSnapshot
<1>4. links \subseteq Providers \X Providers  BY <1>1
<1>5. /\ k \in Locks
      /\ k.closure = j.closure /\ k.deps = j.deps
      /\ k.snapshot = j.snapshot /\ k.project = j.project /\ k.wants = j.wants
      /\ k.edges = j.edges \union links /\ k.direct = j.direct
      /\ k.satisfies = j.satisfies /\ k.requests = j.requests \union asked
  <2>1. IsLinked(k, j, links, asked)  BY <1>2, <1>4, LinkFields
  <2> QED  BY <2>1 DEF IsLinked
<1> HIDE DEF j
<1>6. /\ k \in Locks
      /\ k.closure = l.closure \union P /\ k.deps = j.deps
      /\ k.snapshot = l.snapshot /\ k.project = l.project /\ k.wants = l.wants
      /\ k.edges = l.edges \union links /\ k.direct = l.direct
      /\ k.satisfies = l.satisfies /\ k.requests = l.requests \union asked
  BY <1>2, <1>5
<1>7. FromSnapshot(k)  BY <1>2, <1>3, <1>6 DEF FromSnapshot
<1>8. Shaped(k)  BY <1>1, <1>6 DEF Core, Shaped
<1>9. WellFounded(k)
  <2>1. Shaped(l) /\ WellFounded(l)  BY <1>1 DEF Core
  <2>2. Extends(k, l)  BY <1>6 DEF Extends
  <2> QED  BY <2>1, <2>2, AddingKeepsWellFounded
<1>11. WantsMet(k)  BY <1>6 DEF Good, WantsMet
<1>12. DeclarationsValid(k)  BY <1>6 DEF Good, DeclarationsValid
<1>13. Good(k)  BY <1>6, <1>7, <1>8, <1>9, <1>11, <1>12 DEF Good, Core
<1> QED  BY <1>6, <1>13 DEF j, IsGrown

\* A turn of the worklist loop.
LEMMA ExpandedIsGood ==
    ASSUME NEW l, Good(l), NEW s, s = l.snapshot, NEW p \in l.closure,
           NEW Q, Settled(l, Q),
           NEW C, C = Children(l, s, p)
    PROVE  /\ IsGrown(Expanded(l, s, p), l, C, {p} \X C)
           /\ Settled(Expanded(l, s, p), (Q \ {p}) \union (C \ l.closure))
<1> DEFINE links == {p} \X C
           k == [Join(l, s, C) EXCEPT !.edges = @ \union links, !.requests = @ \union {}]
<1>1. l \in Locks /\ s \in Snapshots /\ FromSnapshot(l) /\ l.closure \subseteq Providers
  BY DEF Good, Core, Locks
<1>2. C \subseteq Providers
  BY <1>1, RegistryAssumption DEF Children, Layer, Snapshot
<1>3. Expanded(l, s, p) = k
  <2>1. Join(l, s, C) \in Locks  BY <1>1, <1>2, JoinFields
  <2> DEFINE j == Join(l, s, C)
  <2> HIDE DEF j
  <2>2. [j EXCEPT !.edges = @ \union links] =
        [j EXCEPT !.edges = @ \union links, !.requests = @ \union {}]
    BY <2>1 DEF j, Locks
  <2> QED  BY <2>2 DEF j, Expanded
<1>4. C \subseteq {d \in Providers : <<p, d>> \in l.deps}  BY <1>2 DEF Children
<1>5. \A f \in l.deps : f[1] = p => f[2] \in C /\ f = <<p, f[2]>>
  BY <1>1 DEF FromSnapshot, Depends, Children
<1> HIDE DEF k
<1>10. {} \subseteq Providers \X Requests  OBVIOUS
<1>6. links \subseteq l.closure \X (l.closure \union C)  OBVIOUS
<1>11. ASSUME NEW x \in C \ l.closure  PROVE \E f \in links : f[1] \in l.closure /\ f[2] = x
  <2> WITNESS <<p, x>> \in links
  <2> QED  OBVIOUS
<1>7. IsGrown(k, l, C, links)  BY <1>2, <1>6, <1>10, <1>11, LinkingIsGood DEF k
<1>8. Join(l, s, C).deps = l.deps \union UNION {{x} \X Depends(s, x) : x \in C \ l.closure}
  BY <1>1, <1>2, JoinFields
<1>9. Settled(k, (Q \ {p}) \union (C \ l.closure))
  <2> SUFFICES ASSUME NEW f \in k.deps, f[1] \notin (Q \ {p}) \union (C \ l.closure)
               PROVE  f[2] \in k.closure /\ f \in k.edges
    BY DEF Settled
  <2>1. f \in l.deps  BY <1>7, <1>8 DEF IsGrown
  <2>2. CASE f[1] = p  BY <2>1, <2>2, <1>5, <1>7 DEF IsGrown
  <2>3. CASE f[1] # p  BY <2>1, <2>3, <1>7 DEF Settled, IsGrown
  <2> QED  BY <2>2, <2>3
<1> QED  BY <1>3, <1>7, <1>9

LEMMA FoundIsTyped ==
    ASSUME NEW l \in Locks, NEW f \in Found(l, l.snapshot)
    PROVE  /\ f[1] \in l.closure /\ f[2] \in Names /\ f[3] \in Providers \ l.closure
           /\ Suppliers(l.snapshot, f[2]) = {f[3]}
<1>1. l.snapshot \in Snapshots  BY DEF Locks
<1>2. \A g \in Paths : Loads(l, g) \subseteq Names
  BY <1>1, RegistryAssumption DEF Loads, Snapshot
<1>3. \A g \in Scannable : g \in Paths  BY RegistryAssumption
<1>4. \A a \in Reads(l) : a[1] \in l.closure /\ a[2] \in Names
  <2> SUFFICES ASSUME NEW a \in Reads(l)  PROVE a[1] \in l.closure /\ a[2] \in Names
    OBVIOUS
  <2>1. PICK g \in Followed(l) : a \in {p \in l.closure : g \in Files(l, p)} \X Loads(l, g)
    BY DEF Reads
  <2>2. g \in Scannable  BY <2>1 DEF Loads
  <2> QED  BY <2>1, <2>2, <1>2, <1>3
<1>5. PICK a \in Reads(l), q \in Providers \ l.closure : f = <<a[1], a[2], q>>
  BY DEF Found
<1>6. Suppliers(l.snapshot, f[2]) = {f[3]}  BY DEF Found
<1> QED  BY <1>4, <1>5, <1>6

\* A round of discovery.
LEMMA GrownIsGood ==
    ASSUME NEW l, Good(l), Settled(l, {}), NEW s, s = l.snapshot,
           NEW found, found = Found(l, s),
           NEW P, P = Newcomers(found)
    PROVE  /\ \E links : IsGrown(Grown(l, s, found), l, P, links)
           /\ Settled(Grown(l, s, found), P)
<1> DEFINE links == {<<t[1], t[3]>> : t \in found}
           asked == {<<t[3], t[2]>> : t \in found}
           k == [Join(l, s, P) EXCEPT !.edges = @ \union links, !.requests = @ \union asked]
<1>1. l \in Locks /\ s \in Snapshots /\ l.closure \subseteq Providers  BY DEF Good, Core, Locks
<1>2. \A t \in found : /\ t[1] \in l.closure /\ t[2] \in Names /\ t[3] \in Providers \ l.closure
                       /\ Suppliers(s, t[2]) = {t[3]}
  BY <1>1, FoundIsTyped
<1>3. Grown(l, s, found) = k  BY DEF Grown
<1>4. P \subseteq Providers  BY <1>2 DEF Newcomers
<1>5. links \subseteq l.closure \X (l.closure \union P)  BY <1>2 DEF Newcomers
<1>10. ASSUME NEW p \in P \ l.closure  PROVE \E f \in links : f[1] \in l.closure /\ f[2] = p
  <2>1. PICK t \in found : p = t[3]  BY DEF Newcomers
  <2>2. <<t[1], t[3]>> \in links  OBVIOUS
  <2> QED  BY <1>2, <2>1, <2>2
<1>6. asked \subseteq Providers \X Requests  BY <1>2 DEF Requests
<1> HIDE DEF links, asked, k
<1>7. IsGrown(k, l, P, links)  BY <1>4, <1>5, <1>6, <1>10, LinkingIsGood DEF k
<1>8. Join(l, s, P).deps = l.deps \union UNION {{x} \X Depends(s, x) : x \in P \ l.closure}
  BY <1>1, <1>4, JoinFields
<1>9. Settled(k, P)
  <2> SUFFICES ASSUME NEW f \in k.deps, f[1] \notin P
               PROVE  f[2] \in k.closure /\ f \in k.edges
    BY DEF Settled
  <2>1. f \in l.deps  BY <1>7, <1>8 DEF IsGrown
  <2> QED  BY <2>1, <1>7 DEF Settled, IsGrown
<1> QED  BY <1>3, <1>7, <1>9

LEMMA RenewedIsGood ==
    ASSUME NEW l, Good(l), Settled(l, {}), NEW d, d \in Declarations, d.packages = l.project.packages,
           NEW k, k = [l EXCEPT !.project = d]
    PROVE  Good(k) /\ Settled(k, {}) /\ k.snapshot = l.snapshot
<1>1. l \in Locks  BY DEF Good, Core
<1>2. /\ k \in Locks
      /\ k.snapshot = l.snapshot /\ k.project = d /\ k.closure = l.closure
      /\ k.wants = l.wants /\ k.direct = l.direct /\ k.requests = l.requests
      /\ k.satisfies = l.satisfies /\ k.deps = l.deps /\ k.edges = l.edges
  BY <1>1 DEF Locks
<1>3. Shaped(k) /\ FromSnapshot(k)  BY <1>2 DEF Good, Core, Shaped, FromSnapshot
<1>4. WellFounded(k)  BY <1>2 DEF Good, Core, WellFounded
<1>5. WantsMet(k)  BY <1>2 DEF Good, WantsMet
<1>6. DeclarationsValid(k)  BY <1>2 DEF Good, DeclarationsValid
<1>7. Settled(k, {})  BY <1>2 DEF Settled
<1> QED  BY <1>2, <1>3, <1>4, <1>5, <1>6, <1>7 DEF Good, Core

LEMMA NothingSettled ==
    ASSUME NEW l, Good(l)  PROVE Settled(l, l.closure)
BY DEF Good, Core, FromSnapshot, Settled

\* A good lock whose worklist is done passes the checks on the graph.
LEMMA GoodIsAccepted ==
    ASSUME NEW l, Good(l), Settled(l, {})
    PROVE  GraphValid(l) /\ WantsHeld(l) /\ DeclarationsValid(l)
<1> DEFINE s == l.snapshot
<1>1. l \in Locks /\ s \in Snapshots /\ l.closure \subseteq Providers /\ l.wants \subseteq Wants
  BY DEF Good, Core, Locks
<1>2. ASSUME NEW f \in l.deps  PROVE f[1] # f[2] /\ f[2] \in l.closure /\ f \in l.edges
  <2>1. f \in Providers \X Providers /\ f[2] \in Depends(s, f[1])
    BY DEF Good, Core, FromSnapshot
  <2>2. f[1] # f[2]  BY <1>1, <2>1, NoSelfDependency DEF Depends
  <2> QED  BY <2>2 DEF Settled
<1>3. \A f \in l.edges : f[1] \in l.closure  BY DEF Good, Core, Shaped
<1>4. ASSUME NEW p \in l.closure, p \notin l.direct
      PROVE  \E q \in Providers : <<q, p>> \in l.edges
  <2>1. {p} \in SUBSET (l.closure \ l.direct) /\ {p} # {}  BY <1>4
  <2>2. PICK f \in l.edges : f[2] = p /\ f[1] \in l.closure
    BY <2>1 DEF Good, Core, WellFounded
  <2>3. f = <<f[1], p>>  BY <1>1, <2>2 DEF Locks
  <2> QED  BY <1>1, <2>2, <2>3
<1>5. GraphValid(l)  BY <1>2, <1>3, <1>4 DEF GraphValid
<1>6. ASSUME NEW r \in l.wants \intersect Providers  PROVE r \in l.closure \intersect l.direct
  <2>1. PICK p \in l.direct : Suppliers(s, r) = {p}  BY DEF Good, WantsMet
  <2>2. r \in Suppliers(s, r)  BY <1>1, OwnSupplier
  <2> QED  BY <2>1, <2>2 DEF Good, Core, Shaped
<1>7. ASSUME NEW r \in l.wants \intersect Requests
      PROVE  \E p \in l.closure : <<p, r>> \in l.requests
  BY DEF Good, WantsMet, Core, Shaped
<1>8. WantsHeld(l)  BY <1>6, <1>7 DEF WantsHeld
<1> QED  BY <1>5, <1>8 DEF Good

-----------------------------------------------------------------------------
(* The inductive invariant. *)

Ready(l, s, q) == Good(l) /\ l.snapshot = s /\ q \subseteq l.closure /\ Settled(l, q)

FileOK == lockfile # NoLock => Good(lockfile) /\ Settled(lockfile, {})

CommandOK(c) ==
    /\ pc[c] # "idle" => Ready(cand[c], index[c], queue[c])
    /\ pc[c] \in {"check", "publish"} => queue[c] = {}

Larger(l, P) == P \subseteq l.closure /\ P # l.closure
ConvergeOK(c) ==
    kind[c] = "converge" =>
        /\ Larger(cand[c], base[c])
        /\ pc[c] = "publish" => Missing(cand[c], trace[c]) = {}

IInv == LockingTypeOK /\ FileOK /\ \A c \in Commands : CommandOK(c) /\ ConvergeOK(c)

LEMMA InitIsGood == Init => IInv
<1> SUFFICES ASSUME Init  PROVE IInv  OBVIOUS
<1>1. AnySnapshot \in Snapshots  BY LockingAssumption DEF AnySnapshot
<1>2. LockingTypeOK  BY <1>1, LockingAssumption DEF Init, LockingTypeOK, Steps
<1>3. FileOK  BY DEF Init, FileOK
<1>4. \A c \in Commands : CommandOK(c) /\ ConvergeOK(c)
  BY DEF Init, CommandOK, ConvergeOK
<1> QED  BY <1>2, <1>3, <1>4 DEF IInv

\* A command may begin with whatever is ready; the others are not disturbed.
LEMMA StartIsGood ==
    ASSUME IInv, NEW c \in Commands, NEW k \in {"lock", "require", "converge"},
           NEW step \in {"expand", "publish"}, NEW s \in Snapshots, NEW l, NEW q,
           Start(c, k, step, s, l, q), Ready(l, s, q),
           step = "publish" => q = {},
           k = "converge" => step = "expand" /\ lockfile # NoLock /\ Larger(l, lockfile.closure),
           UNCHANGED <<project, lockfile>>, changes' \in 0..MaxChanges,
           NEW t \in SUBSET Requests, trace' = [trace EXCEPT ![c] = t]
    PROVE  IInv'
<1>1. l \in Locks /\ q \subseteq Providers  BY DEF Ready, Good, Core, Locks
<1>2. lockfile # NoLock => lockfile.closure \subseteq Providers
  BY DEF IInv, LockingTypeOK, Locks
<1>3. LockingTypeOK'
  <2>1. pc' \in [Commands -> Steps]  BY DEF IInv, LockingTypeOK, Start, Steps
  <2>2. kind' \in [Commands -> {"none", "lock", "require", "converge"}]
    BY DEF IInv, LockingTypeOK, Start
  <2>3. index' \in [Commands -> Snapshots] /\ trace' \in [Commands -> SUBSET Requests]
    BY DEF IInv, LockingTypeOK, Start
  <2>4. cand' \in [Commands -> Locks \union {NoLock}]
    BY <1>1 DEF IInv, LockingTypeOK, Start
  <2>5. queue' \in [Commands -> SUBSET Providers]  BY <1>1 DEF IInv, LockingTypeOK, Start
  <2>6. base' \in [Commands -> SUBSET Providers]
    <3> DEFINE b == IF lockfile = NoLock THEN {} ELSE lockfile.closure
    <3>1. b \in SUBSET Providers  BY <1>2
    <3>2. base' = [base EXCEPT ![c] = b]  BY DEF Start
    <3> HIDE DEF b
    <3> QED  BY <3>1, <3>2 DEF IInv, LockingTypeOK
  <2> QED  BY <2>1, <2>2, <2>3, <2>4, <2>5, <2>6 DEF IInv, LockingTypeOK
<1>4. FileOK'  BY DEF IInv, FileOK
<1>5. ASSUME NEW d \in Commands, d # c  PROVE (CommandOK(d) /\ ConvergeOK(d))'
  <2>1. /\ pc'[d] = pc[d] /\ kind'[d] = kind[d] /\ index'[d] = index[d] /\ cand'[d] = cand[d]
        /\ queue'[d] = queue[d] /\ base'[d] = base[d] /\ trace'[d] = trace[d]
    BY <1>5 DEF IInv, LockingTypeOK, Start
  <2> QED  BY <2>1 DEF IInv, CommandOK, ConvergeOK
<1>6. /\ pc'[c] = step /\ kind'[c] = k /\ index'[c] = s /\ cand'[c] = l /\ queue'[c] = q
      /\ lockfile # NoLock => base'[c] = lockfile.closure
  BY DEF IInv, LockingTypeOK, Start
<1>7. CommandOK(c)' /\ ConvergeOK(c)'  BY <1>6 DEF CommandOK, ConvergeOK
<1> QED  BY <1>3, <1>4, <1>5, <1>7 DEF IInv

LEMMA ReturnIsGood ==
    ASSUME IInv, NEW c \in Commands, Return(c), UNCHANGED <<project, changes>>,
           lockfile' \in Locks \union {NoLock}, FileOK'
    PROVE  IInv'
<1>1. AnySnapshot \in Snapshots  BY LockingAssumption DEF AnySnapshot
<1>2. LockingTypeOK'  BY <1>1 DEF IInv, LockingTypeOK, Return, Steps
<1>3. ASSUME NEW d \in Commands, d # c  PROVE (CommandOK(d) /\ ConvergeOK(d))'
  <2>1. /\ pc'[d] = pc[d] /\ kind'[d] = kind[d] /\ index'[d] = index[d] /\ cand'[d] = cand[d]
        /\ queue'[d] = queue[d] /\ base'[d] = base[d] /\ trace'[d] = trace[d]
    BY <1>3 DEF IInv, LockingTypeOK, Return
  <2> QED  BY <2>1 DEF IInv, CommandOK, ConvergeOK
<1>4. pc'[c] = "idle" /\ kind'[c] = "none"  BY DEF IInv, LockingTypeOK, Return
<1>5. CommandOK(c)' /\ ConvergeOK(c)'  BY <1>4 DEF CommandOK, ConvergeOK
<1> QED  BY <1>2, <1>3, <1>5 DEF IInv

\* A step of a command leads from a ready candidate to a ready one.
LEMMA WorkIsGood ==
    ASSUME IInv, NEW c \in Commands, NEW step \in Steps \ {"idle"}, NEW l, NEW q,
           pc[c] # "idle",
           pc' = [pc EXCEPT ![c] = step],
           cand' = [cand EXCEPT ![c] = l],
           queue' = [queue EXCEPT ![c] = q],
           UNCHANGED <<file, kind, index, base, trace>>,
           Ready(l, index[c], q),
           step \in {"check", "publish"} => q = {},
           kind[c] = "converge" => /\ cand[c].closure \subseteq l.closure
                                   /\ step = "publish" => Missing(l, trace[c]) = {}
    PROVE  IInv'
<1>1. l \in Locks /\ q \subseteq Providers  BY DEF Ready, Good, Core, Locks
<1>2. LockingTypeOK'  BY <1>1 DEF IInv, LockingTypeOK, file
<1>3. FileOK'  BY DEF IInv, FileOK, file
<1>4. ASSUME NEW d \in Commands, d # c  PROVE (CommandOK(d) /\ ConvergeOK(d))'
  <2>1. pc'[d] = pc[d] /\ cand'[d] = cand[d] /\ queue'[d] = queue[d]
    BY <1>4 DEF IInv, LockingTypeOK
  <2> QED  BY <2>1 DEF IInv, CommandOK, ConvergeOK
<1>5. pc'[c] = step /\ cand'[c] = l /\ queue'[c] = q  BY DEF IInv, LockingTypeOK
<1>6. CommandOK(c)'  BY <1>5 DEF CommandOK
<1>7. ConvergeOK(c)'
  <2>1. kind[c] = "converge" => Larger(cand[c], base[c])  BY DEF IInv, ConvergeOK
  <2> QED  BY <1>5, <2>1 DEF ConvergeOK, Larger
<1> QED  BY <1>2, <1>3, <1>4, <1>6, <1>7 DEF IInv

LEMMA DemandsAreTyped ==
    \A d \in Projects, w \in Demands, t \in Traces :
        d \in Declarations /\ w \in SUBSET Wants /\ t \in SUBSET Requests
BY LockingAssumption

LEMMA ReuseIsGood ==
    ASSUME IInv, NEW c \in Commands, NEW w \in Demands, Reuse(c, w)  PROVE IInv'
<1> DEFINE l == [lockfile EXCEPT !.project = project]
<1>1. lockfile # NoLock /\ lockfile.project.packages = project.packages
  BY DEF Reuse, Reusable
<1>2. Good(lockfile) /\ Settled(lockfile, {})  BY <1>1 DEF IInv, FileOK
<1>3. project \in Declarations  BY LockingAssumption DEF IInv, LockingTypeOK
<1>4. Good(l) /\ Settled(l, {}) /\ l.snapshot = lockfile.snapshot
  BY <1>1, <1>2, <1>3, RenewedIsGood
<1>5. Start(c, "lock", "publish", lockfile.snapshot, l, {})  BY DEF Reuse
<1> HIDE DEF l
<1>6. Ready(l, lockfile.snapshot, {})  BY <1>4 DEF Ready
<1>7. lockfile.snapshot \in Snapshots  BY <1>2 DEF Good, Core, Locks
<1>8. changes' \in 0..MaxChanges /\ UNCHANGED <<project, lockfile, trace>>
  BY LockingAssumption DEF Reuse, Changing, IInv, LockingTypeOK
<1>9. trace' = [trace EXCEPT ![c] = trace[c]] /\ trace[c] \in SUBSET Requests
  BY <1>8 DEF IInv, LockingTypeOK
<1> QED  BY <1>5, <1>6, <1>7, <1>8, <1>9, StartIsGood

LEMMA ResolveIsGood ==
    ASSUME IInv, NEW c \in Commands, NEW w \in Demands, NEW s \in Snapshots, Resolve(c, s, w)
    PROVE  IInv'
<1> DEFINE b == Seeded(s, project)
           l == Required(b, s, w)
           P == Askers(Unique(s, w))
<1>1. project \in Declarations /\ w \in SUBSET Wants
  BY LockingAssumption, DemandsAreTyped DEF IInv, LockingTypeOK
<1>2. Resolvable(s, project) /\ Satisfiable(s, w) /\ Start(c, "lock", "expand", s, l, l.closure)
  BY DEF Resolve
<1>3. Core(b) /\ b.snapshot = s /\ b.wants = {} /\ DeclarationsValid(b)
  BY <1>1, <1>2, SeededIsCore
<1>4. WantsMet(b)  BY <1>3 DEF WantsMet
<1> HIDE DEF b
<1>5. IsBegun(l, b, P)  BY <1>1, <1>2, <1>3, <1>4, RequiredIsGood
<1> HIDE DEF l
<1>6. Ready(l, s, l.closure)  BY <1>3, <1>5, NothingSettled DEF IsBegun, Ready
<1>7. changes' \in 0..MaxChanges /\ UNCHANGED <<project, lockfile, trace>>
  BY LockingAssumption DEF Resolve, Changing, IInv, LockingTypeOK
<1>8. trace' = [trace EXCEPT ![c] = trace[c]] /\ trace[c] \in SUBSET Requests
  BY <1>7 DEF IInv, LockingTypeOK
<1> QED  BY <1>2, <1>6, <1>7, <1>8, StartIsGood

LEMMA RequireIsGood ==
    ASSUME IInv, NEW c \in Commands, NEW w \in Demands, NEW s \in Snapshots, Require(c, s, w)
    PROVE  IInv'
<1> DEFINE l == Required(lockfile, s, w)
           P == Askers(Unique(s, w))
<1>1. w \in SUBSET Wants  BY LockingAssumption
<1>2. /\ lockfile # NoLock /\ lockfile.snapshot = s /\ Satisfiable(s, w)
      /\ Start(c, "require", "expand", s, l, P)
  BY DEF Require
<1>3. Good(lockfile) /\ Settled(lockfile, {})  BY <1>2 DEF IInv, FileOK
<1>4. IsBegun(l, lockfile, P)  BY <1>1, <1>2, <1>3, RequiredIsGood DEF Good
<1> HIDE DEF l, P
<1>5. Ready(l, s, P)
  <2>1. Settled(l, {} \union P)  BY <1>3, <1>4 DEF IsBegun
  <2>2. {} \union P = P  OBVIOUS
  <2> QED  BY <1>2, <1>4, <2>1, <2>2 DEF IsBegun, Ready
<1>6. changes' \in 0..MaxChanges /\ UNCHANGED <<project, lockfile, trace>>
  BY LockingAssumption DEF Require, Changing, IInv, LockingTypeOK
<1>7. trace' = [trace EXCEPT ![c] = trace[c]] /\ trace[c] \in SUBSET Requests
  BY <1>6 DEF IInv, LockingTypeOK
<1> QED  BY <1>2, <1>5, <1>6, <1>7, StartIsGood

LEMMA ConvergeIsGood ==
    ASSUME IInv, NEW c \in Commands, NEW t \in Traces, NEW s \in Snapshots, Converge(c, s, t)
    PROVE  IInv'
<1> DEFINE missing == Missing(lockfile, t)
           l == Observed(lockfile, s, missing)
           P == Askers(Unique(s, missing))
<1>1. t \in SUBSET Requests  BY LockingAssumption
<1>2. /\ lockfile # NoLock /\ missing # {} /\ lockfile.snapshot = s
      /\ Convergible(lockfile, s, missing)
      /\ Start(c, "converge", "expand", s, l, P)
      /\ trace' = [trace EXCEPT ![c] = t] /\ UNCHANGED <<project, lockfile, changes>>
  BY DEF Converge, SameRegistry, file
<1>3. missing \in SUBSET Requests  BY <1>1 DEF Missing
<1>4. Good(lockfile) /\ Settled(lockfile, {})  BY <1>2 DEF IInv, FileOK
<1> HIDE DEF missing
<1>5. IsBegun(l, lockfile, P)  BY <1>2, <1>3, <1>4, ObservedIsGood
<1>6. \E p \in P : p \notin lockfile.closure
  <2>1. PICK x \in missing : TRUE  BY <1>2
  <2>2. PICK p \in Providers \ lockfile.closure : Suppliers(s, x) = {p}
    BY <1>2, <2>1 DEF Convergible
  <2>3. <<p, x>> \in Unique(s, missing)  BY <2>1, <2>2 DEF Unique
  <2> QED  BY <2>2, <2>3 DEF Askers
<1> HIDE DEF l, P
<1>7. Ready(l, s, P)
  <2>1. Settled(l, {} \union P)  BY <1>4, <1>5 DEF IsBegun
  <2>2. {} \union P = P  OBVIOUS
  <2> QED  BY <1>2, <1>5, <2>1, <2>2 DEF IsBegun, Ready
<1>8. Larger(l, lockfile.closure)  BY <1>5, <1>6 DEF IsBegun, Larger
<1>9. changes' \in 0..MaxChanges  BY <1>2 DEF IInv, LockingTypeOK
<1> QED  BY <1>1, <1>2, <1>7, <1>8, <1>9, StartIsGood

LEMMA ExpandIsGood ==
    ASSUME IInv, NEW c \in Commands, NEW p \in Providers, Expand(c, p)  PROVE IInv'
<1> DEFINE l == cand[c]
           s == index[c]
           C == Children(l, s, p)
           k == Expanded(l, s, p)
           q == (queue[c] \ {p}) \union (C \ l.closure)
<1>1. pc[c] = "expand" /\ p \in queue[c]  BY DEF Expand
<1>2. Ready(l, s, queue[c])  BY <1>1 DEF IInv, CommandOK
<1>3. /\ cand' = [cand EXCEPT ![c] = k] /\ queue' = [queue EXCEPT ![c] = q]
      /\ UNCHANGED <<file, pc, kind, index, base, trace>>
  BY DEF Expand
<1>4. pc' = [pc EXCEPT ![c] = "expand"]  BY <1>1, <1>3 DEF IInv, LockingTypeOK
<1> HIDE DEF l, s, C, k
<1>5. IsGrown(k, l, C, {p} \X C) /\ Settled(k, q)
  BY <1>1, <1>2, ExpandedIsGood DEF Ready, C, k
<1>6. Ready(k, s, q)  BY <1>2, <1>5 DEF Ready, IsGrown
<1>7. l.closure \subseteq k.closure  BY <1>5 DEF IsGrown
<1> HIDE DEF q
<1> QED  BY <1>1, <1>3, <1>4, <1>6, <1>7, WorkIsGood DEF l, s, Steps

LEMMA DiscoverIsGood ==
    ASSUME IInv, NEW c \in Commands, Discover(c)  PROVE IInv'
<1> DEFINE l == cand[c]
           s == index[c]
           found == Found(l, s)
           P == Newcomers(found)
           k == Grown(l, s, found)
<1>1. pc[c] = "expand" /\ queue[c] = {}  BY DEF Discover
<1>2. UNCHANGED <<file, kind, index, base, trace>>  BY DEF Discover
<1>3. Ready(l, s, {})  BY <1>1 DEF IInv, CommandOK
<1>4. CASE found = {}
  <2>1. pc' = [pc EXCEPT ![c] = "check"] /\ cand' = cand /\ queue' = queue
    BY <1>4 DEF Discover
  <2>2. cand' = [cand EXCEPT ![c] = l] /\ queue' = [queue EXCEPT ![c] = {}]
    BY <1>1, <2>1 DEF IInv, LockingTypeOK
  <2> HIDE DEF l, s
  <2> QED  BY <1>1, <1>2, <1>3, <2>1, <2>2, WorkIsGood DEF l, s, Steps
<1>5. CASE found # {}
  <2>1. pc' = pc /\ cand' = [cand EXCEPT ![c] = k] /\ queue' = [queue EXCEPT ![c] = P]
    BY <1>5 DEF Discover
  <2>2. pc' = [pc EXCEPT ![c] = "expand"]  BY <1>1, <2>1 DEF IInv, LockingTypeOK
  <2> HIDE DEF l, s, found, P, k
  <2>3. (\E links : IsGrown(k, l, P, links)) /\ Settled(k, P)
    BY <1>3, GrownIsGood DEF Ready, found, P, k
  <2>4. PICK links : IsGrown(k, l, P, links)  BY <2>3
  <2>5. Ready(k, s, P) /\ l.closure \subseteq k.closure
    BY <1>3, <2>3, <2>4 DEF Ready, IsGrown
  <2> QED  BY <1>1, <1>2, <2>1, <2>2, <2>5, WorkIsGood DEF l, s, Steps
<1> QED  BY <1>4, <1>5

LEMMA CheckIsGood ==
    ASSUME IInv, NEW c \in Commands, Check(c)  PROVE IInv'
<1>1. pc[c] = "check" /\ UNCHANGED file  BY DEF Check
<1>2. queue[c] = {} /\ Ready(cand[c], index[c], {})  BY <1>1 DEF IInv, CommandOK
<1>3. CASE Acceptable(cand[c], trace[c])
  <2>1. pc' = [pc EXCEPT ![c] = "publish"] /\ UNCHANGED <<kind, index, cand, queue, base, trace>>
    BY <1>3 DEF Check
  <2>2. cand' = [cand EXCEPT ![c] = cand[c]] /\ queue' = [queue EXCEPT ![c] = {}]
    BY <1>2, <2>1 DEF IInv, LockingTypeOK
  <2>3. Missing(cand[c], trace[c]) = {}  BY <1>3 DEF Acceptable
  <2> QED  BY <1>1, <1>2, <2>1, <2>2, <2>3, WorkIsGood DEF Steps
<1>4. CASE ~Acceptable(cand[c], trace[c])
  <2>1. Return(c)  BY <1>4 DEF Check
  <2>2. FileOK' /\ lockfile' \in Locks \union {NoLock}
    BY <1>1 DEF IInv, FileOK, LockingTypeOK, file
  <2> QED  BY <1>1, <2>1, <2>2, ReturnIsGood DEF file
<1> QED  BY <1>3, <1>4

LEMMA PublishIsGood ==
    ASSUME IInv, NEW c \in Commands, Publish(c)  PROVE IInv'
<1>1. pc[c] = "publish" /\ lockfile' = cand[c] /\ Return(c) /\ UNCHANGED <<project, changes>>
  BY DEF Publish
<1>2. queue[c] = {} /\ Ready(cand[c], index[c], {})  BY <1>1 DEF IInv, CommandOK
<1>3. FileOK' /\ lockfile' \in Locks  BY <1>1, <1>2 DEF FileOK, Ready, Good, Core
<1> QED  BY <1>1, <1>3, ReturnIsGood

\* No step of any command, edit or failure breaks the invariant.
THEOREM NextKeepsIInv == IInv /\ [Next]_vars => IInv'
<1> SUFFICES ASSUME IInv, [Next]_vars  PROVE IInv'  OBVIOUS
<1>1. ASSUME NEW d \in Projects, Edit(d)  PROVE IInv'
  <2>1. UNCHANGED <<lockfile, changes, pc, kind, index, cand, queue, base, trace>> /\ project' = d
    BY <1>1 DEF Edit
  <2>2. LockingTypeOK'  BY <1>1, <2>1 DEF IInv, LockingTypeOK
  <2>3. FileOK'  BY <2>1 DEF IInv, FileOK
  <2>4. ASSUME NEW c \in Commands  PROVE (CommandOK(c) /\ ConvergeOK(c))'
    BY <2>1 DEF IInv, CommandOK, ConvergeOK
  <2> QED  BY <2>2, <2>3, <2>4 DEF IInv
<1>2. ASSUME NEW c \in Commands, NEW w \in Demands, Reuse(c, w)  PROVE IInv'
  BY <1>2, ReuseIsGood
<1>3. ASSUME NEW c \in Commands, NEW w \in Demands, NEW s \in Snapshots, Resolve(c, s, w)  PROVE IInv'
  BY <1>3, ResolveIsGood
<1>4. ASSUME NEW c \in Commands, NEW w \in Demands, NEW s \in Snapshots, Require(c, s, w)  PROVE IInv'
  BY <1>4, RequireIsGood
<1>5. ASSUME NEW c \in Commands, NEW t \in Traces, NEW s \in Snapshots, Converge(c, s, t)  PROVE IInv'
  BY <1>5, ConvergeIsGood
<1>6. ASSUME NEW c \in Commands, NEW p \in Providers, Expand(c, p)  PROVE IInv'
  BY <1>6, ExpandIsGood
<1>7. ASSUME NEW c \in Commands, Discover(c) \/ Check(c) \/ Publish(c)  PROVE IInv'
  BY <1>7, DiscoverIsGood, CheckIsGood, PublishIsGood
<1>8. ASSUME NEW c \in Commands, IoError(c)  PROVE IInv'
  <2>1. Return(c) /\ UNCHANGED file  BY <1>8 DEF IoError
  <2>2. FileOK' /\ lockfile' \in Locks \union {NoLock}
    BY <2>1 DEF IInv, FileOK, LockingTypeOK, file
  <2> QED  BY <2>1, <2>2, ReturnIsGood DEF file
<1>9. CASE UNCHANGED vars
  <2>1. LockingTypeOK'  BY <1>9 DEF IInv, LockingTypeOK, vars, file
  <2>2. FileOK'  BY <1>9 DEF IInv, FileOK, vars, file
  <2>3. ASSUME NEW c \in Commands  PROVE (CommandOK(c) /\ ConvergeOK(c))'
    BY <1>9 DEF IInv, CommandOK, ConvergeOK, vars, file
  <2> QED  BY <2>1, <2>2, <2>3 DEF IInv
<1> QED  BY <1>1, <1>2, <1>3, <1>4, <1>5, <1>6, <1>7, <1>8, <1>9 DEF Next, Step

\* The invariant behind the theorems on lock files and candidates.
THEOREM AlwaysIInv == Spec => []IInv
<1> QED  BY InitIsGood, NextKeepsIInv, PTL DEF Spec

-----------------------------------------------------------------------------
(* What a lock answers. *)

\* Each declaration that the registry can answer is recorded.
DeclarationsAnswered(l) ==
    /\ Unique(l.snapshot, l.project.packages) \subseteq l.satisfies
    /\ \A a \in UniqueFiles(l.snapshot, l.project.literals \union l.project.graphics) :
          a \in l.requests /\ a[1] \in l.direct

\* Everything that builds a lock only adds to what it records.
Grows(k, l) ==
    /\ k.snapshot = l.snapshot /\ k.project = l.project
    /\ l.direct \subseteq k.direct
    /\ l.satisfies \subseteq k.satisfies
    /\ l.requests \subseteq k.requests

LEMMA GrowingKeepsAnswers ==
    ASSUME NEW l, NEW k, Grows(k, l), DeclarationsAnswered(l)  PROVE DeclarationsAnswered(k)
BY DEF Grows, DeclarationsAnswered

LEMMA AskGrows ==
    ASSUME NEW l \in Locks, NEW s \in Snapshots, NEW P, P \subseteq Providers,
           NEW sat, NEW asked, sat \subseteq Providers \X Names, asked \subseteq Providers \X Requests
    PROVE  Grows(Ask(l, s, P, sat, asked), l)
<1>1. IsAsk(Ask(l, s, P, sat, asked), l, P, sat, asked)  BY AskFields
<1> QED  BY <1>1 DEF IsAsk, Grows

LEMMA LinkingGrows ==
    ASSUME NEW l \in Locks, NEW s \in Snapshots, NEW P, P \subseteq Providers,
           NEW links, links \subseteq Providers \X Providers,
           NEW asked, asked \subseteq Providers \X Requests
    PROVE  /\ Grows([Join(l, s, P) EXCEPT !.edges = @ \union links], l)
           /\ Grows([Join(l, s, P) EXCEPT !.edges = @ \union links, !.requests = @ \union asked], l)
<1> DEFINE j == Join(l, s, P)
<1>1. /\ j \in Locks /\ j.snapshot = l.snapshot /\ j.project = l.project /\ j.direct = l.direct
      /\ j.satisfies = l.satisfies /\ j.requests = l.requests
  BY JoinFields
<1> HIDE DEF j
<1>2. Grows([j EXCEPT !.edges = @ \union links], l)  BY <1>1 DEF Locks, Grows
<1>3. Grows([j EXCEPT !.edges = @ \union links, !.requests = @ \union asked], l)
  BY <1>1 DEF Locks, Grows
<1> QED  BY <1>2, <1>3 DEF j

LEMMA RequiredGrows ==
    ASSUME NEW l \in Locks, NEW s \in Snapshots, NEW w  PROVE Grows(Required(l, s, w), l)
<1> DEFINE U == Unique(s, w)
           a == Ask(l, s, Askers(U), {}, FileAsks(U))
<1>1. U \subseteq Providers \X w /\ Askers(U) \subseteq Providers  BY UniqueIsTyped
<1>2. {} \subseteq Providers \X Names /\ FileAsks(U) \subseteq Providers \X Requests
  BY <1>1 DEF FileAsks
<1> HIDE DEF U
<1>3. Grows(a, l)  BY <1>1, <1>2, AskGrows
<1>4. a \in Locks
  <2>1. IsAsk(a, l, Askers(U), {}, FileAsks(U))  BY <1>1, <1>2, AskFields
  <2> QED  BY <2>1 DEF IsAsk
<1> HIDE DEF a
<1>5. Grows([a EXCEPT !.wants = @ \union w], l)  BY <1>3, <1>4 DEF Locks, Grows
<1> QED  BY <1>5 DEF Required, a, U

LEMMA ObservedGrows ==
    ASSUME NEW l \in Locks, NEW s \in Snapshots, NEW missing \in SUBSET Requests
    PROVE  Grows(Observed(l, s, missing), l)
<1> DEFINE U == Unique(s, missing)
           asked == {<<a[1], BaseName(a[2])>> : a \in U}
<1>1. U \subseteq Providers \X missing /\ Askers(U) \subseteq Providers  BY UniqueIsTyped
<1>2. ASSUME NEW u \in U  PROVE BaseName(u[2]) \in Requests
  BY <1>1, RegistryAssumption DEF BaseName, Requests
<1>3. {} \subseteq Providers \X Names /\ asked \subseteq Providers \X Requests  BY <1>1, <1>2
<1> HIDE DEF U, asked
<1>4. Grows(Ask(l, s, Askers(U), {}, asked), l)  BY <1>1, <1>3, AskGrows
<1> QED  BY <1>4 DEF Observed, U, asked

LEMMA ExpandedGrows ==
    ASSUME NEW l \in Locks, NEW s \in Snapshots, NEW p \in Providers
    PROVE  Grows(Expanded(l, s, p), l)
<1>1. Children(l, s, p) \subseteq Providers  BY RegistryAssumption DEF Children, Layer, Snapshot
<1>2. {p} \X Children(l, s, p) \subseteq Providers \X Providers  BY <1>1
<1>3. {} \subseteq Providers \X Requests  OBVIOUS
<1> QED  BY <1>1, <1>2, <1>3, LinkingGrows DEF Expanded

LEMMA GrownGrows ==
    ASSUME NEW l \in Locks, NEW s, s = l.snapshot, NEW found, found = Found(l, s)
    PROVE  Grows(Grown(l, s, found), l)
<1> DEFINE links == {<<t[1], t[3]>> : t \in found}
           asked == {<<t[3], t[2]>> : t \in found}
<1>1. s \in Snapshots /\ l.closure \subseteq Providers  BY DEF Locks
<1>2. \A t \in found : t[1] \in l.closure /\ t[2] \in Names /\ t[3] \in Providers \ l.closure
  BY FoundIsTyped
<1>3. Newcomers(found) \subseteq Providers  BY <1>2 DEF Newcomers
<1>4. links \subseteq Providers \X Providers /\ asked \subseteq Providers \X Requests
  BY <1>1, <1>2 DEF Requests
<1> HIDE DEF links, asked
<1> QED  BY <1>1, <1>3, <1>4, LinkingGrows DEF Grown, links, asked

\* Resolution records every answer there is.
LEMMA SeededAnswers ==
    ASSUME NEW s \in Snapshots, NEW d \in Declarations  PROVE DeclarationsAnswered(Seeded(s, d))
<1> DEFINE b == Blank(s, d)
           packages == Unique(s, d.packages)
           files == UniqueFiles(s, d.literals \union d.graphics)
           P == Askers(packages \union files)
           k == Ask(b, s, P, packages, files)
<1>1. b \in Locks /\ b.snapshot = s /\ b.project = d
  BY DEF Blank, Locks, Wants, Requests
<1>2. packages \subseteq Providers \X Names  BY UniqueIsTyped DEF Declarations
<1>3. files \subseteq Providers \X Requests  BY DEF UniqueFiles, Requests
<1>4. P \subseteq Providers /\ \A a \in files : a[1] \in P  BY <1>2, <1>3 DEF Askers
<1>5. Seeded(s, d) = k  BY DEF Seeded
<1> HIDE DEF b, packages, files, P, k
<1>6. IsAsk(k, b, P, packages, files)  BY <1>1, <1>2, <1>3, <1>4, AskFields DEF k
<1>7. k.snapshot = s /\ k.project = d /\ packages \subseteq k.satisfies
      /\ files \subseteq k.requests /\ P \subseteq k.direct
  BY <1>1, <1>6 DEF IsAsk
<1> QED  BY <1>4, <1>5, <1>7 DEF DeclarationsAnswered, packages, files

\* The files that discovery reads depend on the declarations of a project in
\* no way, nor does what they load.  Followed is a recursive function: it is the
\* one its defining equation chooses, and the two equations are the same.
SameContents(k, l) ==
    /\ k.snapshot = l.snapshot /\ k.closure = l.closure /\ k.direct = l.direct
    /\ k.satisfies = l.satisfies /\ k.requests = l.requests

LEMMA SameFiles ==
    ASSUME NEW k, NEW l, SameContents(k, l)
    PROVE  /\ \A p : Files(k, p) = Files(l, p)
           /\ Environment(k) = Environment(l)
           /\ Selected(k) = Selected(l)
           /\ \A f : Loads(k, f) = Loads(l, f)
           /\ \A read : Follow(k, read) = Follow(l, read)
           /\ \A n : Named(k, n) = Named(l, n)
<1>1. \A p : Files(k, p) = Files(l, p)  BY DEF SameContents, Files
<1>2. Environment(k) = Environment(l)  BY <1>1 DEF SameContents, Environment
<1>3. \A p : RequestsOf(k, p) = RequestsOf(l, p)  BY DEF SameContents, RequestsOf
<1>4. Selected(k) = Selected(l)
  <2> DEFINE Picks(x, f, p) ==
                 \/ {f, Base[f]} \intersect RequestsOf(x, p) # {}
                 \/ p \in x.direct /\ <<p, Base[f]>> \in x.satisfies
                 \/ p \notin x.direct /\ RequestsOf(x, p) = {} /\ f \in Scannable
  <2>1. \A f, p : Picks(k, f, p) <=> Picks(l, f, p)  BY <1>3 DEF SameContents
  <2>2. \A x : Selected(x) =
            {f \in Environment(x) : \E p \in x.closure : f \in Files(x, p) /\ Picks(x, f, p)}
    BY DEF Selected
  <2> HIDE DEF Picks
  <2>3. ASSUME NEW f
        PROVE  (\E p \in k.closure : f \in Files(k, p) /\ Picks(k, f, p)) <=>
               (\E p \in l.closure : f \in Files(l, p) /\ Picks(l, f, p))
    BY <1>1, <2>1 DEF SameContents
  <2> QED  BY <1>2, <2>2, <2>3
<1>5. \A f : Loads(k, f) = Loads(l, f)  BY DEF SameContents, Loads
<1>6. \A read : Follow(k, read) = Follow(l, read)  BY <1>2, <1>5 DEF Follow
<1>7. \A n : Named(k, n) = Named(l, n)  BY <1>2 DEF Named
<1> QED  BY <1>1, <1>2, <1>4, <1>5, <1>6, <1>7

LEMMA SameFollowed ==
    ASSUME NEW k, NEW l, SameContents(k, l)  PROVE Followed(k) = Followed(l)
<1> DEFINE rounds(x) == Cardinality(Environment(x))
           Rounds(x, f) ==
               [i \in 0..rounds(x) |->
                   IF i = 0 THEN Selected(x) ELSE UNION {Follow(x, read) : read \in {f[i - 1]}}]
<1>1. \A x : Followed(x) = (CHOOSE f : f = Rounds(x, f))[rounds(x)]
  BY Zenon DEF Followed
<1>2. rounds(k) = rounds(l)  BY SameFiles
<1>3. \A f : Rounds(k, f) = Rounds(l, f)  BY <1>2, SameFiles
<1> HIDE DEF rounds, Rounds
<1>4. (CHOOSE f : f = Rounds(k, f)) = (CHOOSE f : f = Rounds(l, f))  BY <1>3
<1> QED  BY <1>1, <1>2, <1>4

LEMMA SameFound ==
    ASSUME NEW k, NEW l, SameContents(k, l), NEW s  PROVE Found(k, s) = Found(l, s)
<1>1. Reads(k) = Reads(l)  BY SameFiles, SameFollowed DEF SameContents, Reads
<1>2. \A n : Named(k, n) = Named(l, n)  BY SameFiles
<1> QED  BY <1>1, <1>2 DEF SameContents, Found

\* A lock reused over changed sources answers the new declarations too.
LEMMA RenewedAnswers ==
    ASSUME NEW l \in Locks, Answered(l), NEW d \in Declarations, Reusable(l, d, l.wants),
           NEW k, k = [l EXCEPT !.project = d]
    PROVE  Answered(k)
<1>1. k.snapshot = l.snapshot /\ k.project = d /\ SameContents(k, l)
  BY DEF Locks, SameContents
<1>2. d.packages = l.project.packages /\ d.literals \union d.graphics = {}
  BY DEF Reusable, NoRegistryInputs
<1>3. UniqueFiles(k.snapshot, {}) = {}  BY DEF UniqueFiles
<1>4. Found(k, k.snapshot) = {}  BY <1>1, SameFound DEF Answered
<1> QED  BY <1>1, <1>2, <1>3, <1>4 DEF Answered, SameContents

\* What holds of a candidate: it records its declarations from the beginning, and
\* once discovery has come to an end nothing is left to find.
CommandAnswers(c) ==
    /\ pc[c] # "idle" => DeclarationsAnswered(cand[c])
    /\ pc[c] \in {"check", "publish"} => Found(cand[c], index[c]) = {}

AnswersInv == LockAnswers /\ \A c \in Commands : CommandAnswers(c)

\* A command moves to a step with a candidate that answers enough for it; the
\* others are not disturbed.
LEMMA MoveAnswers ==
    ASSUME IInv, AnswersInv, NEW c \in Commands, NEW step, NEW s, NEW l,
           pc' = [pc EXCEPT ![c] = step],
           index' = [index EXCEPT ![c] = s],
           cand' = [cand EXCEPT ![c] = l],
           step # "idle" => DeclarationsAnswered(l),
           step \in {"check", "publish"} => Found(l, s) = {},
           LockAnswers'
    PROVE  AnswersInv'
<1>1. ASSUME NEW d \in Commands  PROVE CommandAnswers(d)'
  <2>1. CASE d = c
    <3>1. pc'[c] = step /\ index'[c] = s /\ cand'[c] = l  BY DEF IInv, LockingTypeOK
    <3> QED  BY <2>1, <3>1 DEF CommandAnswers
  <2>2. CASE d # c
    <3>1. pc'[d] = pc[d] /\ index'[d] = index[d] /\ cand'[d] = cand[d]
      BY <2>2 DEF IInv, LockingTypeOK
    <3> QED  BY <3>1 DEF AnswersInv, CommandAnswers
  <2> QED  BY <2>1, <2>2
<1> QED  BY <1>1 DEF AnswersInv

LEMMA StayAnswers ==
    ASSUME AnswersInv, UNCHANGED lockfile  PROVE LockAnswers'
BY DEF AnswersInv, LockAnswers

LEMMA BeginAnswers ==
    ASSUME IInv, AnswersInv, NEW c \in Commands, NEW w \in Demands,
           \/ Reuse(c, w)
           \/ \E s \in Snapshots : Resolve(c, s, w) \/ Require(c, s, w)
    PROVE  AnswersInv'
<1>1. project \in Declarations /\ w \in SUBSET Wants
  BY LockingAssumption, DemandsAreTyped DEF IInv, LockingTypeOK
<1>2. CASE Reuse(c, w)
  <2> DEFINE l == [lockfile EXCEPT !.project = project]
  <2>1. lockfile \in Locks /\ Reusable(lockfile, project, lockfile.wants)
    BY <1>2 DEF Reuse, Reusable, IInv, LockingTypeOK
  <2>2. Answered(lockfile)  BY <2>1 DEF AnswersInv, LockAnswers, Reusable
  <2>3. Answered(l)  BY <1>1, <2>1, <2>2, RenewedAnswers
  <2>4. l.snapshot = lockfile.snapshot  BY <2>1 DEF Locks
  <2>5. Start(c, "lock", "publish", lockfile.snapshot, l, {}) /\ UNCHANGED lockfile
    BY <1>2 DEF Reuse
  <2> HIDE DEF l
  <2>6. DeclarationsAnswered(l) /\ Found(l, lockfile.snapshot) = {}
    BY <2>3, <2>4 DEF Answered, DeclarationsAnswered
  <2> QED  BY <2>5, <2>6, StayAnswers, MoveAnswers DEF Start
<1>3. ASSUME NEW s \in Snapshots, Resolve(c, s, w)  PROVE AnswersInv'
  <2> DEFINE b == Seeded(s, project)
             l == Required(b, s, w)
  <2>1. Resolvable(s, project) /\ Start(c, "lock", "expand", s, l, l.closure) /\ UNCHANGED lockfile
    BY <1>3 DEF Resolve
  <2>2. b \in Locks  BY <1>1, <2>1, SeededIsCore DEF Core
  <2>3. DeclarationsAnswered(b)  BY <1>1, SeededAnswers
  <2> HIDE DEF b
  <2>4. DeclarationsAnswered(l)  BY <2>2, <2>3, RequiredGrows, GrowingKeepsAnswers
  <2> HIDE DEF l
  <2> QED  BY <2>1, <2>4, StayAnswers, MoveAnswers DEF Start
<1>4. ASSUME NEW s \in Snapshots, Require(c, s, w)  PROVE AnswersInv'
  <2> DEFINE l == Required(lockfile, s, w)
  <2>1. /\ lockfile # NoLock /\ UNCHANGED lockfile
        /\ Start(c, "require", "expand", s, l, Askers(Unique(s, w)))
    BY <1>4 DEF Require
  <2>2. lockfile \in Locks  BY <2>1 DEF IInv, LockingTypeOK
  <2>3. DeclarationsAnswered(lockfile)
    BY <2>1 DEF AnswersInv, LockAnswers, Answered, DeclarationsAnswered
  <2>4. DeclarationsAnswered(l)  BY <2>2, <2>3, RequiredGrows, GrowingKeepsAnswers
  <2> HIDE DEF l
  <2> QED  BY <2>1, <2>4, StayAnswers, MoveAnswers DEF Start
<1> QED  BY <1>2, <1>3, <1>4

LEMMA ConvergeAnswers ==
    ASSUME IInv, AnswersInv, NEW c \in Commands, NEW t \in Traces, NEW s \in Snapshots,
           Converge(c, s, t)
    PROVE  AnswersInv'
<1> DEFINE missing == Missing(lockfile, t)
           l == Observed(lockfile, s, missing)
<1>1. /\ lockfile # NoLock /\ UNCHANGED lockfile
      /\ Start(c, "converge", "expand", s, l, Askers(Unique(s, missing)))
  BY DEF Converge, file
<1>2. missing \in SUBSET Requests  BY LockingAssumption DEF Missing
<1>3. lockfile \in Locks  BY <1>1 DEF IInv, LockingTypeOK
<1>4. DeclarationsAnswered(lockfile)
  BY <1>1 DEF AnswersInv, LockAnswers, Answered, DeclarationsAnswered
<1> HIDE DEF missing
<1>5. DeclarationsAnswered(l)  BY <1>2, <1>3, <1>4, ObservedGrows, GrowingKeepsAnswers
<1> HIDE DEF l
<1> QED  BY <1>1, <1>5, StayAnswers, MoveAnswers DEF Start

LEMMA WorkAnswers ==
    ASSUME IInv, AnswersInv, NEW c \in Commands,
           (\E p \in Providers : Expand(c, p)) \/ Discover(c)
    PROVE  AnswersInv'
<1> DEFINE l == cand[c]
           s == index[c]
<1>1. /\ pc \in [Commands -> Steps] /\ index \in [Commands -> Snapshots]
      /\ cand \in [Commands -> Locks \union {NoLock}]
  BY DEF IInv, LockingTypeOK
<1>2. pc[c] = "expand"  BY DEF Expand, Discover
<1>3. l \in Locks /\ s \in Snapshots /\ l.snapshot = s
  BY <1>1, <1>2 DEF IInv, CommandOK, Ready, Good, Core
<1>4. DeclarationsAnswered(l)  BY <1>2 DEF AnswersInv, CommandAnswers
<1>5. LockAnswers'  BY StayAnswers DEF Expand, Discover, file
<1>6. index' = [index EXCEPT ![c] = s]  BY <1>1 DEF Expand, Discover
<1>7. ASSUME NEW p \in Providers, Expand(c, p)  PROVE AnswersInv'
  <2>1. pc' = [pc EXCEPT ![c] = "expand"] /\ cand' = [cand EXCEPT ![c] = Expanded(l, s, p)]
    BY <1>1, <1>2, <1>7 DEF Expand
  <2> HIDE DEF l, s
  <2>2. DeclarationsAnswered(Expanded(l, s, p))
    BY <1>3, <1>4, ExpandedGrows, GrowingKeepsAnswers
  <2> QED  BY <1>5, <1>6, <2>1, <2>2, MoveAnswers
<1>8. CASE Discover(c) /\ Found(l, s) = {}
  <2>1. pc' = [pc EXCEPT ![c] = "check"] /\ cand' = [cand EXCEPT ![c] = l]
    BY <1>1, <1>8 DEF Discover
  <2> HIDE DEF l, s
  <2> QED  BY <1>4, <1>5, <1>6, <1>8, <2>1, MoveAnswers
<1>9. CASE Discover(c) /\ Found(l, s) # {}
  <2> DEFINE k == Grown(l, s, Found(l, s))
  <2>1. pc' = [pc EXCEPT ![c] = "expand"] /\ cand' = [cand EXCEPT ![c] = k]
    BY <1>1, <1>2, <1>9 DEF Discover
  <2> HIDE DEF l, s
  <2>2. DeclarationsAnswered(k)  BY <1>3, <1>4, GrownGrows, GrowingKeepsAnswers
  <2> HIDE DEF k
  <2> QED  BY <1>5, <1>6, <2>1, <2>2, MoveAnswers
<1> QED  BY <1>7, <1>8, <1>9

\* The end of a command: the lock file is what it was or an answering candidate.
LEMMA EndAnswers ==
    ASSUME IInv, AnswersInv, NEW c \in Commands, Check(c) \/ Publish(c) \/ IoError(c)
    PROVE  AnswersInv'
<1>1. /\ pc \in [Commands -> Steps] /\ index \in [Commands -> Snapshots]
      /\ cand \in [Commands -> Locks \union {NoLock}]
  BY DEF IInv, LockingTypeOK
<1>2. ASSUME Return(c), LockAnswers'  PROVE AnswersInv'
  BY <1>2, MoveAnswers DEF Return
<1>3. CASE Check(c) /\ Acceptable(cand[c], trace[c])
  <2>1. pc[c] = "check" /\ UNCHANGED lockfile  BY <1>3 DEF Check, file
  <2>2. /\ pc' = [pc EXCEPT ![c] = "publish"] /\ cand' = [cand EXCEPT ![c] = cand[c]]
        /\ index' = [index EXCEPT ![c] = index[c]]
    BY <1>1, <1>3 DEF Check
  <2>3. DeclarationsAnswered(cand[c]) /\ Found(cand[c], index[c]) = {}
    BY <2>1 DEF AnswersInv, CommandAnswers
  <2> QED  BY <2>1, <2>2, <2>3, StayAnswers, MoveAnswers
<1>4. CASE Check(c) /\ ~Acceptable(cand[c], trace[c])
  BY <1>2, <1>4, StayAnswers DEF Check, file
<1>5. CASE Publish(c)
  <2>1. pc[c] = "publish" /\ lockfile' = cand[c] /\ Return(c)  BY <1>5 DEF Publish
  <2>2. DeclarationsAnswered(cand[c]) /\ Found(cand[c], index[c]) = {}
    BY <2>1 DEF AnswersInv, CommandAnswers
  <2>3. cand[c].snapshot = index[c]  BY <2>1 DEF IInv, CommandOK, Ready
  <2>4. Answered(cand[c])  BY <2>2, <2>3 DEF Answered, DeclarationsAnswered
  <2>5. LockAnswers'
    <3> DEFINE l == cand[c]
    <3> HIDE DEF l
    <3>1. Answered(l) /\ lockfile' = l  BY <2>1, <2>4 DEF l
    <3> QED  BY <3>1 DEF LockAnswers, Answered
  <2> QED  BY <1>2, <2>1, <2>5
<1>6. CASE IoError(c)  BY <1>2, <1>6, StayAnswers DEF IoError, file
<1> QED  BY <1>3, <1>4, <1>5, <1>6

LEMMA InitAnswers == Init => AnswersInv
BY DEF Init, AnswersInv, LockAnswers, CommandAnswers

LEMMA NextKeepsAnswers == IInv /\ AnswersInv /\ [Next]_vars => AnswersInv'
<1> SUFFICES ASSUME IInv, AnswersInv, [Next]_vars  PROVE AnswersInv'  OBVIOUS
<1>1. ASSUME UNCHANGED <<lockfile, pc, index, cand>>  PROVE AnswersInv'
  BY <1>1 DEF AnswersInv, LockAnswers, CommandAnswers
<1>2. ASSUME NEW d \in Projects, Edit(d)  PROVE AnswersInv'  BY <1>1, <1>2 DEF Edit
<1>3. CASE UNCHANGED vars  BY <1>1, <1>3 DEF vars, file
<1> QED  BY <1>2, <1>3, BeginAnswers, ConvergeAnswers, WorkAnswers, EndAnswers DEF Next, Step

-----------------------------------------------------------------------------
(* The properties. *)

\* Every variable keeps its type, the lock file and the candidates included.
THEOREM LockingTypes == Spec => []LockingTypeOK
<1>1. IInv => LockingTypeOK  BY DEF IInv
<1> QED  BY <1>1, AlwaysIInv, PTL

\* What resolution, discovery and convergence build passes the checks on the
\* graph, for every registry, worklist order and overlap of commands.
THEOREM ConstructionIsAccepted == Spec => []ValidationAccepts
<1>1. IInv => ValidationAccepts
  BY GoodIsAccepted DEF IInv, CommandOK, Ready, ValidationAccepts
<1> QED  BY <1>1, AlwaysIInv, PTL

\* No set of indirect providers of the lock file only requires itself.
THEOREM NoSelfSupport == Spec => []NoOrphans
<1>1. IInv => NoOrphans  BY DEF IInv, FileOK, Good, Core, NoOrphans
<1> QED  BY <1>1, AlwaysIInv, PTL

\* The dependencies recorded in a lock file are those of the snapshot it names.
THEOREM LockHasOneSnapshot == Spec => []OneSnapshot
<1>1. IInv => OneSnapshot  BY DEF IInv, FileOK, Good, Core, OneSnapshot
<1> QED  BY <1>1, AlwaysIInv, PTL

\* The lock file answers each declaration that the registry can answer and has
\* the providers of the names its files load, for every registry and overlap of
\* commands, and also where a lock was reused over changed sources.
THEOREM LockIsAnswered == Spec => []LockAnswers
<1>1. Spec => [](IInv /\ AnswersInv)
  BY AlwaysIInv, InitAnswers, NextKeepsAnswers, PTL DEF Spec
<1>2. AnswersInv => LockAnswers  BY DEF AnswersInv
<1> QED  BY <1>1, <1>2, PTL

\* A converge that changes the lock extends what it read and accounts for its
\* whole trace.
THEOREM ConvergenceExtends == Spec => ConvergeExtends
<1>1. ASSUME IInv, [Next]_vars, NEW c \in Commands,
             kind[c] = "converge", pc[c] = "publish", pc'[c] = "idle", lockfile' # lockfile
      PROVE  /\ base[c] \subseteq lockfile'.closure
             /\ base[c] # lockfile'.closure
             /\ Missing(lockfile', trace[c]) = {}
  <2>1. PICK d \in Commands : Publish(d)
    BY <1>1 DEF Next, Step, Edit, Reuse, Resolve, Require, Converge, Expand, Discover,
                Check, IoError, vars, file
  <2>2. d = c
    BY <1>1, <2>1 DEF Publish, Return, IInv, LockingTypeOK
  <2>3. lockfile' = cand[c]  BY <2>1, <2>2 DEF Publish
  <2> QED  BY <1>1, <2>3 DEF IInv, ConvergeOK, Larger
<1>2. IInv /\ [Next]_vars =>
        [\A c \in Commands :
            kind[c] = "converge" /\ pc[c] = "publish" /\ pc'[c] = "idle" /\ lockfile' # lockfile
                => /\ base[c] \subseteq lockfile'.closure
                   /\ base[c] # lockfile'.closure
                   /\ Missing(lockfile', trace[c]) = {}]_vars
  BY <1>1
<1> QED  BY <1>2, AlwaysIInv, PTL DEF Spec, ConvergeExtends

-----------------------------------------------------------------------------
(* Why commands end. *)

\* A command moves on towards its end; while it expands, its candidate gets another
\* provider of the registry or its worklist loses one and gets none.
Advances(c) ==
    \/ /\ pc[c] = "expand" /\ pc'[c] = "expand"
       /\ \/ cand[c].closure \subseteq cand'[c].closure /\ cand'[c].closure # cand[c].closure
          \/ cand'[c].closure = cand[c].closure /\ queue'[c] \subseteq queue[c] /\ queue'[c] # queue[c]
    \/ pc[c] = "expand" /\ pc'[c] = "check"
    \/ pc[c] = "check" /\ pc'[c] \in {"publish", "idle"}
    \/ pc[c] = "publish" /\ pc'[c] = "idle"

\* Nothing else happens to a command under way, but its end.
Awaits(c) == pc'[c] = pc[c] /\ cand'[c] = cand[c] /\ queue'[c] = queue[c]

LEMMA StepAdvances ==
    ASSUME IInv, NEW c \in Commands, Step(c)
    PROVE  Advances(c)
<1>1. LockingTypeOK  BY DEF IInv
<1>2. CASE Check(c) \/ Publish(c)
  BY <1>1, <1>2 DEF Check, Publish, Return, LockingTypeOK, Advances
<1>3. ASSUME NEW p \in Providers, Expand(c, p)  PROVE Advances(c)
  <2> DEFINE l == cand[c]
             C == Children(l, index[c], p)
             k == Expanded(l, index[c], p)
  <2>1. pc[c] = "expand" /\ p \in queue[c]  BY <1>3 DEF Expand
  <2>2. Ready(l, index[c], queue[c])  BY <2>1 DEF IInv, CommandOK
  <2>3. IsGrown(k, l, C, {p} \X C)
    BY <2>1, <2>2, ExpandedIsGood DEF Ready
  <2>4. k.closure = l.closure \union C  BY <2>3 DEF IsGrown
  <2>5. /\ cand'[c] = k /\ pc'[c] = "expand"
        /\ queue'[c] = (queue[c] \ {p}) \union (C \ l.closure)
    BY <1>1, <1>3, <2>1 DEF Expand, LockingTypeOK
  <2> HIDE DEF l, C, k
  <2>6. CASE C \subseteq l.closure
    BY <2>1, <2>4, <2>5, <2>6 DEF Advances, l
  <2>7. CASE ~(C \subseteq l.closure)
    BY <2>1, <2>4, <2>5, <2>7 DEF Advances, l
  <2> QED  BY <2>6, <2>7
<1>4. CASE Discover(c)
  <2> DEFINE l == cand[c]
             found == Found(l, index[c])
             P == Newcomers(found)
             k == Grown(l, index[c], found)
  <2>1. pc[c] = "expand" /\ queue[c] = {}  BY <1>4 DEF Discover
  <2>2. Ready(l, index[c], {})  BY <2>1 DEF IInv, CommandOK
  <2>3. CASE found = {}
    BY <1>1, <1>4, <2>1, <2>3 DEF Discover, LockingTypeOK, Advances
  <2>4. CASE found # {}
    <3>1. cand'[c] = k /\ pc'[c] = "expand"
      BY <1>1, <1>4, <2>1, <2>4 DEF Discover, LockingTypeOK
    <3>2. PICK links : IsGrown(k, l, P, links)
      BY <2>2, GrownIsGood DEF Ready
    <3>3. k.closure = l.closure \union P  BY <3>2 DEF IsGrown
    <3>4. PICK t \in found : t[3] \in Providers \ l.closure
      <4>1. l \in Locks /\ index[c] = l.snapshot  BY <2>2 DEF Ready, Good, Core
      <4>2. PICK t \in found : TRUE  BY <2>4
      <4> QED  BY <4>1, <4>2, FoundIsTyped
    <3>5. t[3] \in P  BY <3>4 DEF Newcomers
    <3> HIDE DEF l, found, P, k
    <3> QED  BY <2>1, <3>1, <3>3, <3>4, <3>5 DEF Advances, l
  <2> QED  BY <2>3, <2>4
<1> QED  BY <1>2, <1>3, <1>4 DEF Step

\* The measure by which CommandsReturn holds, for every registry, cyclic dependencies
\* and loads included: a command's own steps get it nearer to its end, in an order that
\* a finite registry bounds, and no step of another command sets it back.
THEOREM CommandsAdvance ==
    Spec => [][\A c \in Commands : pc[c] # "idle" =>
                  /\ cand[c].closure \subseteq Providers
                  /\ Step(c) => Advances(c)
                  /\ Advances(c) \/ Awaits(c) \/ pc'[c] = "idle"]_vars
<1>1. ASSUME IInv, Next, NEW c \in Commands, pc[c] # "idle"
      PROVE  /\ cand[c].closure \subseteq Providers
             /\ Step(c) => Advances(c)
             /\ Advances(c) \/ Awaits(c) \/ pc'[c] = "idle"
  <2>1. cand[c].closure \subseteq Providers
    BY <1>1 DEF IInv, CommandOK, Ready, Good, Core, Locks
  <2>2. Step(c) => Advances(c)
    BY <1>1, StepAdvances
  <2>3. CASE Step(c)  BY <2>1, <2>2, <2>3
  <2>4. CASE IoError(c)
    BY <1>1, <2>1, <2>2, <2>4 DEF IoError, Return, IInv, LockingTypeOK
  <2>5. CASE ~Step(c) /\ ~IoError(c)
    <3>1. ASSUME NEW d \in Projects, Edit(d)  PROVE Awaits(c)
      BY <3>1 DEF Edit, Awaits
    <3>2. ASSUME NEW b \in Commands, Step(b) \/ IoError(b)  PROVE Awaits(c)
      <4>1. b # c  BY <2>5, <3>2
      <4>2. /\ pc' = [pc EXCEPT ![b] = pc'[b]]
            /\ cand' = [cand EXCEPT ![b] = cand'[b]]
            /\ queue' = [queue EXCEPT ![b] = queue'[b]]
        BY <1>1, <3>2 DEF IInv, LockingTypeOK, Step, Expand, Discover, Check, Publish, IoError, Return
      <4> QED  BY <1>1, <4>1, <4>2 DEF Awaits, IInv, LockingTypeOK
    <3>3. ASSUME NEW b \in Commands, NEW k, NEW step, NEW s, NEW l, NEW q, Start(b, k, step, s, l, q)
          PROVE  Awaits(c)
      <4>1. b # c  BY <1>1, <3>3 DEF Start
      <4> QED  BY <1>1, <3>3, <4>1 DEF Start, Awaits, IInv, LockingTypeOK
    <3>4. ASSUME NEW b \in Commands,
                 \/ \E w \in Demands : Reuse(b, w)
                 \/ \E w \in Demands, s \in Snapshots : Resolve(b, s, w)
                 \/ \E w \in Demands, s \in Snapshots : Require(b, s, w)
                 \/ \E t \in Traces, s \in Snapshots : Converge(b, s, t)
          PROVE  Awaits(c)
      BY <3>3, <3>4 DEF Reuse, Resolve, Require, Converge
    <3> QED  BY <1>1, <2>1, <2>2, <3>1, <3>2, <3>4 DEF Next
  <2> QED  BY <2>3, <2>4, <2>5
<1>2. IInv /\ [Next]_vars =>
        [\A c \in Commands : pc[c] # "idle" =>
            /\ cand[c].closure \subseteq Providers
            /\ Step(c) => Advances(c)
            /\ Advances(c) \/ Awaits(c) \/ pc'[c] = "idle"]_vars
  BY <1>1
<1> QED  BY <1>2, AlwaysIInv, PTL DEF Spec
=============================================================================
