--------------------------- MODULE InterfaceGraph ---------------------------
(***************************************************************************)
(* NebulaGraph as the path queries of app/db/nebula_queries.py use it: the *)
(* systems it knows and, between a consumer and a provider, one edge for   *)
(* every interface a document describes.  Other programs write the graph,  *)
(* also between two statements of one search.                              *)
(*                                                                         *)
(* An edge is [doc, date, consumer, provider, parts]: the pair of modules  *)
(* (or components, which are handled alike) that the document names.       *)
(***************************************************************************)
EXTENDS Naturals, Sequences, FiniteSets

CONSTANTS Systems,         \* ids of systems, in the graph or only asked for
          Parts,           \* ids of modules and components, and NoPart
          NoPart,          \* an empty module or component id
          Docs,            \* document ids, a set of naturals
          NoDoc,           \* an edge without a document id
          Graphs,          \* what the database may hold
          Cutoff,          \* cutoff_date
          MAX_PATH_DEPTH,
          MaxChanges       \* how often the graph may change in one search

ASSUME DepthAssumption == MAX_PATH_DEPTH \in Nat /\ MaxChanges \in Nat

ASSUME GraphsAssumption ==
  /\ IsFiniteSet(Systems) /\ IsFiniteSet(Parts) /\ NoPart \in Parts /\ Cutoff \in Nat
  /\ \A g \in Graphs :
       /\ IsFiniteSet(g.edges)
       /\ g.edges \subseteq [doc : Docs \cup {NoDoc}, date : Nat, consumer : Systems,
                            provider : Systems, parts : Parts \X Parts]

VARIABLE db   \* the graphs the database has held, the present one last

Graph == db[Len(db)]

GraphInit == db \in {<<g>> : g \in Graphs}

GraphChanges ==
  /\ Len(db) <= MaxChanges
  /\ \E g \in Graphs \ {Graph} : db' = Append(db, g)

-----------------------------------------------------------------------------
\* WHERE rsm_document_date > cutoff.
Fresh(edges) == {e \in edges : e.date > Cutoff}

\* GO FROM n OVER, GO FROM n OVER ... REVERSELY, ... BIDIRECT
Out(n) == {e \in Graph.edges : e.consumer = n}

In(n) == {e \in Graph.edges : e.provider = n}

Incident(n) == Out(n) \cup In(n)

\* id($$): the other end.
Neighbour(e, n) == IF e.consumer = n THEN e.provider ELSE e.consumer

\* The edges of a step from a to b, along the arrow or against it.
Step(edges, a, b, back) ==
  {e \in edges : /\ e.consumer = IF back THEN b ELSE a
                 /\ e.provider = IF back THEN a ELSE b}

\* FIND NOLOOP PATH ... BIDIRECT UPTO MAX_PATH_DEPTH STEPS: the nodes of a
\* path are distinct; every choice of arrows between them is a row.
NodeSequences(a, b) ==
  {n \in UNION {[1..k -> Systems] : k \in 2..MAX_PATH_DEPTH + 1} :
     /\ n[1] = a
     /\ n[Len(n)] = b
     /\ \A i, j \in DOMAIN n : n[i] = n[j] => i = j}

PathRows(edges, a, b) ==
  UNION {{[nodes |-> n, back |-> arrows] : arrows \in
            {s \in [1..Len(n) - 1 -> BOOLEAN] :
               \A i \in DOMAIN s : Step(edges, n[i], n[i + 1], s[i]) # {}}} :
         n \in NodeSequences(a, b)}
=============================================================================
