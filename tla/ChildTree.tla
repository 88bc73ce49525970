------------------------------ MODULE ChildTree ------------------------------
(***************************************************************************)
(* _fetch_child_tree_from_nebula_sync of app/db/nebula_queries.py: a       *)
(* depth-first walk down the HIERARCHY edges, one statement per node, that *)
(* builds the tree of GET /api/v1/object/childAll.  The hierarchy may have *)
(* cycles and shared children, and others may change it while the walk is  *)
(* on its way; the server may refuse any statement.                        *)
(*                                                                         *)
(* The recursion is the stack of its frames: a frame is a node and the     *)
(* rows of its query that the loop has not looked at yet.  The rows are a  *)
(* set: the order is the server's, and a repeated row finds its node in    *)
(* `visited'.  The tree is the set of its parent-child links.              *)
(***************************************************************************)
EXTENDS Naturals, Sequences, FiniteSets

CONSTANTS Nodes,         \* rsm_ids
          Root,          \* the rsm_id that is asked for
          MayRefuse,     \* may the server refuse a statement?
          MaxChanges     \* how often others change the hierarchy

ASSUME RootAssumption == Root \in Nodes /\ IsFiniteSet(Nodes)
ASSUME RefuseAssumption == MayRefuse \in BOOLEAN
ASSUME ChangesAssumption == MaxChanges \in Nat

VARIABLES kids,      \* the hierarchy in the database
          changes,   \* how often it has been changed since the walk began
          pc,        \* "use", "fetch", "expand", "rows", "done"
          stack,     \* the frames of fetch_children_recursive, the top first
          visited,
          tree,      \* the links of the result
          refused,   \* nodes whose children query was refused
          result     \* "pending", "tree", "none" or "error"

walkVars == <<pc, stack, visited, tree, refused, result>>
vars == <<kids, changes, walkVars>>

Frames == [node : Nodes, rows : SUBSET Nodes]
Links == [parent : Nodes, child : Nodes]

TypeOK ==
  /\ kids \in [Nodes -> SUBSET Nodes]
  /\ changes \in 0..MaxChanges
  /\ pc \in {"use", "fetch", "expand", "rows", "done"}
  /\ stack \in Seq(Frames)
  /\ visited \in SUBSET Nodes
  /\ tree \in SUBSET Links
  /\ refused \in SUBSET Nodes
  /\ result \in {"pending", "tree", "none", "error"}

Init ==
  /\ kids \in [Nodes -> SUBSET Nodes]
  /\ changes = 0
  /\ pc = "use"
  /\ stack = <<>>
  /\ visited = {}
  /\ tree = {}
  /\ refused = {}
  /\ result = "pending"

-----------------------------------------------------------------------------
Top == Head(stack)

Ends(value) == pc' = "done" /\ result' = value

\* fetch_children_recursive(node): it is visited from now on.
Enter(node) ==
  /\ visited' = visited \cup {node}
  /\ pc' = "expand"

\* USE space
UseSpace ==
  /\ pc = "use"
  /\ \/ pc' = "fetch" /\ UNCHANGED result
     \/ MayRefuse /\ Ends("none")
  /\ UNCHANGED <<kids, changes, stack, visited, tree, refused>>

\* FETCH PROP of the root: no such vertex, or a refusal, is None.
FetchRoot ==
  /\ pc = "fetch"
  /\ \/ /\ Enter(Root)
        /\ stack' = <<[node |-> Root, rows |-> {}]>>
        /\ UNCHANGED result
     \/ Ends("none") /\ UNCHANGED <<stack, visited>>
  /\ UNCHANGED <<kids, changes, tree, refused>>

\* Faulty variant: what the hierarchy holds is not cut at nodes seen before.
TakeRowBlindly(child) ==
  /\ pc = "rows"
  /\ child \in Top.rows
  /\ Len(stack) < Cardinality(Nodes) + 2
  /\ tree' = tree \cup {[parent |-> Top.node, child |-> child]}
  /\ Enter(child)
  /\ stack' = <<[node |-> child, rows |-> {}],
                [Top EXCEPT !.rows = @ \ {child}]>> \o Tail(stack)
  /\ UNCHANGED <<kids, changes, refused, result>>

\* Faulty variants: the loop stops at a row it has seen before (break for
\* continue), or does not get past it.
TakeRowBreaks(child) ==
  /\ pc = "rows"
  /\ child \in Top.rows
  /\ IF child \in visited
       THEN /\ stack' = <<[Top EXCEPT !.rows = {}]>> \o Tail(stack)
            /\ UNCHANGED <<tree, visited, pc>>
       ELSE /\ tree' = tree \cup {[parent |-> Top.node, child |-> child]}
            /\ Enter(child)
            /\ stack' = <<[node |-> child, rows |-> {}],
                          [Top EXCEPT !.rows = @ \ {child}]>> \o Tail(stack)
  /\ UNCHANGED <<kids, changes, refused, result>>

TakeRowSticks(child) ==
  /\ pc = "rows"
  /\ child \in Top.rows \ visited
  /\ tree' = tree \cup {[parent |-> Top.node, child |-> child]}
  /\ Enter(child)
  /\ stack' = <<[node |-> child, rows |-> {}],
                [Top EXCEPT !.rows = @ \ {child}]>> \o Tail(stack)
  /\ UNCHANGED <<kids, changes, refused, result>>

\* GO ... OVER HIERARCHY REVERSELY: the rows of the node on top.  A refused
\* statement has no rows, and nobody is told.
Expand ==
  /\ pc = "expand"
  /\ pc' = "rows"
  /\ \/ /\ stack' = <<[Top EXCEPT !.rows = kids[Top.node]]>> \o Tail(stack)
        /\ UNCHANGED refused
     \/ /\ MayRefuse
        /\ refused' = refused \cup {Top.node}
        /\ UNCHANGED stack
  /\ UNCHANGED <<kids, changes, visited, tree, result>>

\* The loop over the rows: a node seen before is skipped, a new one becomes a
\* child and is descended into at once.
TakeRow(child) ==
  /\ pc = "rows"
  /\ child \in Top.rows
  /\ LET rest == [Top EXCEPT !.rows = @ \ {child}]
     IN IF child \in visited
          THEN /\ stack' = <<rest>> \o Tail(stack)
               /\ UNCHANGED <<tree, visited, pc>>
          ELSE /\ tree' = tree \cup {[parent |-> Top.node, child |-> child]}
               /\ Enter(child)
               /\ stack' = <<[node |-> child, rows |-> {}], rest>> \o Tail(stack)
  /\ UNCHANGED <<kids, changes, refused, result>>

\* return children: to the caller's loop, or out of the walk.
ReturnChildren ==
  /\ pc = "rows"
  /\ Top.rows = {}
  /\ stack' = Tail(stack)
  /\ IF Len(stack) = 1 THEN Ends("tree") ELSE UNCHANGED <<pc, result>>
  /\ UNCHANGED <<kids, changes, visited, tree, refused>>

\* Faulty variant: the exception is swallowed and the part that is there sent.
ConnectionLostSwallowed ==
  /\ pc = "expand"
  /\ Ends("partial")
  /\ UNCHANGED <<kids, changes, stack, visited, tree, refused>>

\* session.execute raises: the whole walk is lost and the exception goes up.
ConnectionLost ==
  /\ pc \in {"use", "fetch", "expand"}
  /\ Ends("error")
  /\ UNCHANGED <<kids, changes, stack, visited, tree, refused>>

Walk ==
  \/ UseSpace
  \/ FetchRoot
  \/ Expand
  \/ \E child \in Nodes : TakeRow(child)
  \/ ReturnChildren
  \/ ConnectionLost

\* Somebody else adds or removes an edge.
HierarchyChanges ==
  /\ pc # "done"
  /\ changes < MaxChanges
  /\ changes' = changes + 1
  /\ \E n, m \in Nodes :
       kids' = [kids EXCEPT ![n] = IF m \in @ THEN @ \ {m} ELSE @ \cup {m}]
  /\ UNCHANGED walkVars

Next == Walk \/ HierarchyChanges

Spec == Init /\ [][Next]_vars

\* The walk goes on as long as it can.
FairSpec == Spec /\ WF_vars(Walk)

-----------------------------------------------------------------------------
\* Whatever the hierarchy looks like and becomes, the answer is a tree: no
\* node has two parents in it, the root has none, and every parent is in it.
IsTree ==
  /\ \A l, m \in tree : l.child = m.child => l = m
  /\ \A l \in tree : /\ l.child # Root
                     /\ l.parent = Root \/ \E m \in tree : m.child = l.parent

\* The recursion is never deeper than there are nodes.
DepthBounded == Len(stack) <= Cardinality(Nodes)

Reach(from) ==
  LET R[n \in 0..Cardinality(Nodes)] ==
        IF n = 0 THEN from ELSE R[n - 1] \cup UNION {kids[m] : m \in R[n - 1]}
  IN R[Cardinality(Nodes)]

Found == {Root} \cup {l.child : l \in tree}

\* When nobody interferes, the answer has all children of every node in it but
\* those whose query was refused.
ChildrenComplete ==
  result = "tree" /\ changes = 0 => \A n \in Found \ refused : kids[n] \subseteq Found

\* So what is missing lies below a refused query, and nothing is made up.
CompleteBelowAnswers ==
  /\ ChildrenComplete
  /\ result = "tree" /\ changes = 0 =>
       /\ Found \subseteq Reach({Root})
       /\ Reach({Root}) \subseteq Found \cup Reach(refused)

\* The walk ends, on a hierarchy with cycles too.
WalkEnds == <>(pc = "done")
=============================================================================
