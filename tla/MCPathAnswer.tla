---------------------------- MODULE MCPathAnswer ----------------------------
(***************************************************************************)
(* PathAnswer for TLC: paths between a start and a finish system, direct   *)
(* in either direction or over a third system, with no, one or two         *)
(* combinations of parts on an edge.                                       *)
(***************************************************************************)
EXTENDS PathAnswer, TLC

CONSTANTS s, m, f,   \* systems
          x, y, z    \* a part of each: x of s, y of f, z of m

Direct(back, combos) ==
  [nodes |-> <<s, f>>, back |-> <<back>>, combos |-> <<combos>>]

\* s <- m -> f
Via(first) ==
  [nodes |-> <<s, m, f>>, back |-> <<TRUE, FALSE>>, combos |-> <<first, {<<z, y>>}>>]

MCPaths == {Direct(FALSE, {<<x, y>>}), Direct(TRUE, {<<NoPart, NoPart>>}),
            Direct(FALSE, {<<x, y>>, <<NoPart, y>>}),
            Via({<<z, x>>, <<NoPart, x>>})}

Filter(system, part) == [system |-> system, part |-> part]
Anyone == Filter(NoSystem, NoPart)

MCFilters == {<<Anyone, Anyone>>, <<Anyone, Filter(f, y)>>, <<Filter(s, x), Anyone>>,
              <<Filter(s, x), Filter(f, y)>>}
=============================================================================
