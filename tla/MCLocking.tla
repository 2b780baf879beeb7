------------------------------- MODULE MCLocking -------------------------------
(* Instances of Locking.  The registry has a dependency cycle (d and e), a    *)
(* file that loads a name of a provider nothing depends on (d.sty loads       *)
(* r.def), a basename that two providers ship (d.def), one that a provider    *)
(* ships twice (r.def), and two snapshots that differ in their dependencies;  *)
(* in the second t is a development version, so that d.def is d's.            *)
EXTENDS Locking, TLC

CONSTANTS m, d, e, r, g, t, one, two

MCProviders == {m, d, e, r, g, t}
MCBase ==
    ("m/m.sty" :> "m.sty") @@ ("d/d.sty" :> "d.sty") @@ ("d/d.def" :> "d.def") @@
    ("e/e.sty" :> "e.sty") @@ ("r/r.def" :> "r.def") @@ ("r/x/r.def" :> "r.def") @@
    ("g/logo.pdf" :> "logo.pdf") @@ ("t/t.cfg" :> "t.cfg") @@ ("t/d.def" :> "d.def")
MCPaths == DOMAIN MCBase
MCNames == {MCBase[f] : f \in MCPaths}
MCScannable == MCPaths \ {"g/logo.pdf"}

None == [p \in MCProviders |-> {}]
MCShips ==
    (m :> {"m/m.sty"}) @@ (d :> {"d/d.sty", "d/d.def"}) @@ (e :> {"e/e.sty"}) @@
    (r :> {"r/r.def", "r/x/r.def"}) @@ (g :> {"g/logo.pdf"}) @@ (t :> {"t/t.cfg", "t/d.def"})
MCLoads == [f \in MCPaths |->
    CASE f = "d/d.sty" -> {"r.def"} [] f = "m/m.sty" -> {"d.sty"} [] OTHER -> {}]
Recording(stable, depends) ==
    [layer |-> MCProviders, stable |-> stable, depends |-> depends,
     ships |-> MCShips, loads |-> MCLoads]
MCRegistry == (one :> Recording(MCProviders, (m :> {d}) @@ (d :> {e}) @@ (e :> {d}) @@ None)) @@
              (two :> Recording(MCProviders \ {t}, (m :> {e}) @@ (t :> {m}) @@ (g :> {e}) @@ None))

Decl(packages, literals, graphics) ==
    [packages |-> packages, literals |-> literals, graphics |-> graphics]
MCProjects == {Decl({"d.sty"}, {}, {}), Decl({"d.sty"}, {}, {"logo.pdf"})}
MCDemands == {{}, {e, "r.def"}}
MCTraces == {{"t.cfg", "d.def"}, {"g/logo.pdf"}, {"r.def"}}

Symmetry == Permutations(Commands)

\* For the rendering loop: a literal input, traces that name exact paths.
LiteralProject == {Decl({"d.sty"}, {"t.cfg"}, {}), Decl({"d.sty"}, {}, {})}
PathTraces == {{"t/t.cfg"}, {"g/logo.pdf"}}
=============================================================================
