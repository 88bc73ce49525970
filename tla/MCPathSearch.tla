---------------------------- MODULE MCPathSearch ----------------------------
(***************************************************************************)
(* PathSearch for TLC: small graphs between a start, a finish and two other  *)
(* systems, and every kind of filter.                                      *)
(***************************************************************************)
EXTENDS PathSearch

CONSTANTS s, m, n, f,  \* systems
          x, u, y, z   \* parts: x and u of s, y of f, z of m

Edge(d, t, from, to, c, p) ==
  [doc |-> d, date |-> t, consumer |-> from, provider |-> to, parts |-> <<c, p>>]

\* Two interfaces between s and f, one back, and a way over m; one edge is too
\* old and one has no document.
Parallel ==
  [systems |-> {s, m, f},
   edges |-> {Edge(1, 2, s, f, x, y), Edge(1, 3, s, f, u, NoPart), Edge(1, 2, f, s, y, x),
              Edge(2, 2, s, m, x, z), Edge(2, 3, m, f, z, y), Edge(2, 1, s, f, u, y),
              Edge(NoDoc, 3, s, f, u, u)}]

\* Arrows against the path, both ways between m and f, a loop at s.
Backward ==
  [systems |-> {s, m, f},
   edges |-> {Edge(1, 2, m, s, x, u), Edge(1, 2, m, f, z, y), Edge(1, 3, f, m, y, z),
              Edge(2, 3, s, s, x, u), Edge(2, 2, s, f, NoPart, NoPart)}]

\* The start is no vertex although interfaces mention it.
Dangling == [systems |-> {m, f}, edges |-> {Edge(1, 2, s, f, x, y)}]

\* Connections of one, two and three steps in one document.
Long ==
  [systems |-> {s, m, n, f},
   edges |-> {Edge(1, 2, s, m, x, z), Edge(1, 2, n, m, y, z), Edge(1, 2, n, f, y, y),
              Edge(1, 2, s, n, u, y), Edge(1, 3, s, f, x, u), Edge(2, 2, s, m, x, z)}]

MCGraphs == {Parallel, Backward, Dangling, Long}

Filter(system, part) == [system |-> system, part |-> part]
Anyone == Filter(NoSystem, NoPart)

MCFilters == {<<Filter(s, NoPart), Filter(f, NoPart)>>, <<Filter(s, x), Filter(f, y)>>,
              <<Filter(s, x), Anyone>>, <<Filter(s, NoPart), Anyone>>,
              <<Anyone, Filter(f, y)>>, <<Anyone, Filter(f, NoPart)>>, <<Anyone, Anyone>>}
=============================================================================
