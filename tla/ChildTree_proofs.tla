--------------------------- MODULE ChildTree_proofs ---------------------------
(***************************************************************************)
(* Proofs about ChildTree, for every finite hierarchy, however often it is *)
(* changed during the walk and whatever the server refuses.                *)
(*                                                                         *)
(* TypeOK is not inductive alone: the walk takes the Head of its stack,    *)
(* which WalkInv shows not to be empty.  The heart of WalkInv is that the  *)
(* nodes of the tree are exactly the visited ones (SeenIsFound); a new     *)
(* child was not visited, so it is neither the root nor anybody's child.   *)
(* ReachInv adds that what is found can be reached from the root.          *)
(***************************************************************************)
EXTENDS ChildTree, SequenceTheorems, FiniteSetTheorems, WellFoundedInduction, TLAPS

Walking == pc \in {"expand", "rows"}

\* Between FetchRoot and the last return there is a frame for the root.
FramesWhileWalking ==
  /\ Walking => stack # <<>>
  /\ pc \in {"use", "fetch"} => stack = <<>> /\ visited = {} /\ tree = {}

FramesVisited == \A i \in DOMAIN stack : stack[i].node \in visited

SeenIsFound == Walking \/ result = "tree" => visited = Found

\* Each frame has visited a node of its own.
DepthOfVisited == Len(stack) <= Cardinality(visited)

\* On an unchanged hierarchy the children of a visited node are visited, or are
\* rows its frame still has to look at, or its query is to come or was refused.
AwaitsRows(n) ==
  \E i \in DOMAIN stack : /\ stack[i].node = n
                          /\ \/ kids[n] \subseteq visited \cup stack[i].rows
                             \/ i = 1 /\ pc = "expand"

NothingSkipped ==
  changes = 0 /\ (Walking \/ result = "tree") =>
    \A n \in visited : n \in refused \/ kids[n] \subseteq visited \/ (Walking /\ AwaitsRows(n))

WalkInv ==
  /\ TypeOK
  /\ FramesWhileWalking
  /\ FramesVisited
  /\ SeenIsFound
  /\ IsTree
  /\ DepthOfVisited
  /\ NothingSkipped
  /\ result = "tree" => pc = "done"

-----------------------------------------------------------------------------
(***************************************************************************)
(* The two ways the stack changes besides returning.                       *)
(***************************************************************************)
LEMMA ReplaceTop ==
  ASSUME NEW S, NEW s \in Seq(S), s # <<>>, NEW f \in S
  PROVE  LET r == <<f>> \o Tail(s)
         IN /\ r \in Seq(S)
            /\ Len(r) = Len(s)
            /\ r[1] = f
            /\ \A i \in 2..Len(s) : r[i] = s[i]
<1>1. /\ <<f>> \in Seq(S) /\ Len(<<f>>) = 1 /\ <<f>>[1] = f
      /\ Tail(s) \in Seq(S) /\ Len(Tail(s)) = Len(s) - 1
      /\ \A i \in 1..Len(Tail(s)) : Tail(s)[i] = s[i + 1]
      /\ Len(s) \in Nat \ {0}
  BY HeadTailProperties
<1>2. /\ <<f>> \o Tail(s) \in Seq(S)
      /\ Len(<<f>> \o Tail(s)) = Len(s)
      /\ \A i \in 1..Len(s) : (<<f>> \o Tail(s))[i] = IF i <= 1 THEN f ELSE Tail(s)[i - 1]
  BY <1>1, ConcatProperties
<1> QED
  BY <1>1, <1>2

LEMMA PushTop ==
  ASSUME NEW S, NEW s \in Seq(S), s # <<>>, NEW f \in S, NEW g \in S
  PROVE  LET r == <<f, g>> \o Tail(s)
         IN /\ r \in Seq(S)
            /\ Len(r) = Len(s) + 1
            /\ r[1] = f
            /\ r[2] = g
            /\ \A i \in 2..Len(s) : r[i + 1] = s[i]
<1>1. /\ <<f, g>> \in Seq(S) /\ Len(<<f, g>>) = 2 /\ <<f, g>>[1] = f /\ <<f, g>>[2] = g
      /\ Tail(s) \in Seq(S) /\ Len(Tail(s)) = Len(s) - 1
      /\ \A i \in 1..Len(Tail(s)) : Tail(s)[i] = s[i + 1]
      /\ Len(s) \in Nat \ {0}
  BY HeadTailProperties
<1>2. /\ <<f, g>> \o Tail(s) \in Seq(S)
      /\ Len(<<f, g>> \o Tail(s)) = Len(s) + 1
      /\ \A i \in 1..Len(s) + 1 :
           (<<f, g>> \o Tail(s))[i] = IF i <= 2 THEN <<f, g>>[i] ELSE Tail(s)[i - 2]
  BY <1>1, ConcatProperties
<1> QED
  BY <1>1, <1>2

-----------------------------------------------------------------------------
LEMMA WalkInvInitially == Init => WalkInv
<1> SUFFICES ASSUME Init PROVE WalkInv
  OBVIOUS
<1> USE DEF Init
<1>1. DepthOfVisited
  BY FS_EmptySet DEF DepthOfVisited
<1>2. TypeOK
  BY ChangesAssumption DEF TypeOK
<1>3. FramesVisited /\ FramesWhileWalking /\ IsTree
  BY DEF FramesVisited, FramesWhileWalking, Walking, IsTree
<1>4. SeenIsFound /\ NothingSkipped
  BY DEF SeenIsFound, NothingSkipped, Walking
<1> QED
  BY <1>1, <1>2, <1>3, <1>4 DEF WalkInv

\* USE and FETCH: nothing is visited before, only the root afterwards.
LEMMA StartKeeps ==
  ASSUME WalkInv, UseSpace \/ FetchRoot
  PROVE  WalkInv'
<1> USE DEF WalkInv, FramesWhileWalking
<1>1. CASE UseSpace
  BY <1>1 DEF UseSpace, Ends, TypeOK, FramesVisited, Walking, SeenIsFound, IsTree, DepthOfVisited,
              NothingSkipped
<1>2. CASE FetchRoot /\ pc' = "done"
  BY <1>2 DEF FetchRoot, Enter, Ends, TypeOK, FramesVisited, Walking, SeenIsFound, IsTree, DepthOfVisited,
              NothingSkipped
<1>3. CASE FetchRoot /\ pc' # "done"
  <2>1. /\ pc = "fetch" /\ pc' = "expand"
        /\ visited = {} /\ visited' = {Root}
        /\ stack' = <<[node |-> Root, rows |-> {}]>>
        /\ tree = {} /\ UNCHANGED <<kids, changes, tree, refused, result>>
    BY <1>3 DEF FetchRoot, Enter, Ends
  <2>2. TypeOK'
    BY <2>1, RootAssumption DEF TypeOK, Frames
  <2>3. DepthOfVisited'
    <3>1. Cardinality(visited') = 1
      BY <2>1, FS_Singleton
    <3>2. Len(stack') = 1
      BY <2>1
    <3> QED
      BY <3>1, <3>2 DEF DepthOfVisited
  <2>4. FramesVisited' /\ SeenIsFound' /\ IsTree'
    BY <2>1 DEF FramesVisited, SeenIsFound, Found, IsTree
  <2>5. NothingSkipped'
    BY <2>1 DEF NothingSkipped, AwaitsRows, Walking
  <2> QED
    BY <2>1, <2>2, <2>3, <2>4, <2>5 DEF Walking
<1> QED
  BY <1>1, <1>2, <1>3

\* The rows of the node on top, or their refusal.
LEMMA ExpandKeeps ==
  ASSUME WalkInv, Expand
  PROVE  WalkInv'
<1> USE DEF WalkInv, Walking
<1>0. stack # <<>> /\ stack \in Seq(Frames) /\ Top = stack[1] /\ Top \in Frames
  BY HeadTailProperties DEF Expand, FramesWhileWalking, TypeOK, Top
<1>1. CASE UNCHANGED stack
  BY <1>0, <1>1 DEF Expand, TypeOK, Frames, FramesWhileWalking, FramesVisited, SeenIsFound, Found, IsTree,
                    DepthOfVisited, NothingSkipped, AwaitsRows
<1>2. CASE stack' = <<[Top EXCEPT !.rows = kids[Top.node]]>> \o Tail(stack) /\ UNCHANGED refused
  <2> DEFINE frame == [Top EXCEPT !.rows = kids[Top.node]]
  <2>1. frame \in Frames /\ frame.node = stack[1].node /\ frame.rows = kids[frame.node]
    BY <1>0 DEF TypeOK, Frames
  <2>2. /\ stack' \in Seq(Frames) /\ Len(stack') = Len(stack) /\ stack'[1] = frame
        /\ \A i \in 2..Len(stack) : stack'[i] = stack[i]
    BY <1>0, <1>2, <2>1, ReplaceTop
  <2>3. DOMAIN stack = 1..Len(stack) /\ DOMAIN stack' = 1..Len(stack) /\ Len(stack) \in Nat \ {0}
    BY <1>0, <2>2
  <2> HIDE DEF frame
  <2>4. TypeOK'
    BY <1>2, <2>2 DEF Expand, TypeOK
  <2>5. FramesVisited'
    BY <2>1, <2>2, <2>3 DEF Expand, FramesVisited
  <2>6. NothingSkipped'
    <3> SUFFICES ASSUME changes = 0, NEW n \in visited, n \notin refused, ~(kids[n] \subseteq visited)
                 PROVE  AwaitsRows(n)'
      BY <1>2 DEF Expand, NothingSkipped
    <3>1. PICK i \in DOMAIN stack : /\ stack[i].node = n
                                    /\ i = 1 \/ kids[n] \subseteq visited \cup stack[i].rows
      BY DEF Expand, NothingSkipped, AwaitsRows
    <3>2. CASE i = 1
      BY <2>1, <2>2, <2>3, <3>1, <3>2 DEF Expand, AwaitsRows
    <3>3. CASE i # 1
      BY <2>2, <2>3, <3>1, <3>3 DEF Expand, AwaitsRows
    <3> QED
      BY <3>2, <3>3
  <2> QED
    BY <2>2, <2>3, <2>4, <2>5, <2>6
    DEF Expand, FramesWhileWalking, SeenIsFound, Found, IsTree, DepthOfVisited
<1> QED
  BY <1>1, <1>2 DEF Expand

\* A row that was seen before is only crossed out.
LEMMA SeenRowKeeps ==
  ASSUME WalkInv, NEW child \in Nodes, TakeRow(child), child \in visited
  PROVE  WalkInv'
<1> USE DEF WalkInv, Walking
<1> DEFINE rest == [Top EXCEPT !.rows = @ \ {child}]
<1>0. stack # <<>> /\ stack \in Seq(Frames) /\ Top = stack[1] /\ Top \in Frames
  BY HeadTailProperties DEF TakeRow, FramesWhileWalking, TypeOK, Top
<1>1. /\ pc = "rows" /\ stack' = <<rest>> \o Tail(stack)
      /\ UNCHANGED <<kids, changes, pc, visited, tree, refused, result>>
  BY DEF TakeRow
<1>2. rest \in Frames /\ rest.node = stack[1].node /\ rest.rows = stack[1].rows \ {child}
  BY <1>0 DEF Frames
<1>3. /\ stack' \in Seq(Frames) /\ Len(stack') = Len(stack) /\ stack'[1] = rest
      /\ \A i \in 2..Len(stack) : stack'[i] = stack[i]
  BY <1>0, <1>1, <1>2, ReplaceTop
<1>4. DOMAIN stack = 1..Len(stack) /\ DOMAIN stack' = 1..Len(stack) /\ Len(stack) \in Nat \ {0}
  BY <1>0, <1>3
<1> HIDE DEF rest
<1>5. TypeOK'
  BY <1>1, <1>3 DEF TypeOK
<1>6. FramesVisited'
  BY <1>1, <1>2, <1>3, <1>4 DEF FramesVisited
<1>7. NothingSkipped'
  <2> SUFFICES ASSUME changes = 0, NEW n \in visited, n \notin refused, ~(kids[n] \subseteq visited)
               PROVE  AwaitsRows(n)'
    BY <1>1 DEF NothingSkipped
  <2>1. PICK i \in DOMAIN stack : stack[i].node = n /\ kids[n] \subseteq visited \cup stack[i].rows
    BY <1>1 DEF NothingSkipped, AwaitsRows
  <2>2. CASE i = 1
    BY <1>1, <1>2, <1>3, <1>4, <2>1, <2>2 DEF AwaitsRows
  <2>3. CASE i # 1
    <3>1. i \in DOMAIN stack' /\ stack'[i] = stack[i]
      BY <1>3, <1>4, <2>3
    <3> QED
      BY <1>1, <2>1, <3>1 DEF AwaitsRows
  <2> QED
    BY <2>2, <2>3
<1> QED
  BY <1>1, <1>3, <1>4, <1>5, <1>6, <1>7
  DEF FramesWhileWalking, SeenIsFound, Found, IsTree, DepthOfVisited

\* A new row becomes a child: it is nobody's child yet, and its parent is found.
LEMMA NewRowKeeps ==
  ASSUME WalkInv, NEW child \in Nodes, TakeRow(child), child \notin visited
  PROVE  WalkInv'
<1> USE DEF WalkInv, Walking
<1> DEFINE rest == [Top EXCEPT !.rows = @ \ {child}]
           frame == [node |-> child, rows |-> {}]
           link == [parent |-> Top.node, child |-> child]
<1>0. stack # <<>> /\ stack \in Seq(Frames) /\ Top = stack[1] /\ Top \in Frames
  BY HeadTailProperties DEF TakeRow, FramesWhileWalking, TypeOK, Top
<1>1. /\ pc = "rows" /\ pc' = "expand" /\ stack' = <<frame, rest>> \o Tail(stack)
      /\ tree' = tree \cup {link} /\ visited' = visited \cup {child}
      /\ UNCHANGED <<kids, changes, refused, result>>
  BY DEF TakeRow, Enter
<1>2. /\ rest \in Frames /\ rest.node = stack[1].node /\ rest.rows = stack[1].rows \ {child}
      /\ frame \in Frames /\ frame.node = child
      /\ link \in Links /\ link.parent = stack[1].node /\ link.child = child
  BY <1>0 DEF Frames, Links
<1>3. /\ stack' \in Seq(Frames) /\ Len(stack') = Len(stack) + 1 /\ stack'[1] = frame /\ stack'[2] = rest
      /\ \A i \in 2..Len(stack) : stack'[i + 1] = stack[i]
  BY <1>0, <1>1, <1>2, PushTop
<1>4. DOMAIN stack = 1..Len(stack) /\ DOMAIN stack' = 1..Len(stack) + 1 /\ Len(stack) \in Nat \ {0}
  BY <1>0, <1>3
<1> HIDE DEF rest, frame, link
<1>5. \A i \in DOMAIN stack' : i = 1 \/ i = 2 \/ (i - 1 \in 2..Len(stack) /\ stack'[i] = stack[i - 1])
  BY <1>3, <1>4
<1>6. TypeOK'
  BY <1>1, <1>2, <1>3 DEF TypeOK
<1>7. FramesVisited'
  BY <1>1, <1>2, <1>3, <1>4, <1>5 DEF FramesVisited
<1>8. visited = Found /\ visited' = Found' /\ stack[1].node \in visited
  BY <1>1, <1>2, <1>4 DEF SeenIsFound, FramesVisited, Found
<1>9. IsTree'
  BY <1>1, <1>2, <1>8 DEF IsTree, Found
<1>10. DepthOfVisited'
  <2>1. IsFiniteSet(visited) /\ Cardinality(visited) \in Nat
    BY RootAssumption, FS_Subset, FS_CardinalityType DEF TypeOK
  <2>2. Cardinality(visited') = Cardinality(visited) + 1
    BY <1>1, <2>1, FS_AddElement
  <2> QED
    BY <1>3, <1>4, <2>1, <2>2 DEF DepthOfVisited
<1>11. NothingSkipped'
  <2> SUFFICES ASSUME changes = 0, NEW n \in visited', n \notin refused, ~(kids[n] \subseteq visited')
               PROVE  AwaitsRows(n)'
    BY <1>1 DEF NothingSkipped
  <2>1. CASE n = child
    <3>1. 1 \in DOMAIN stack' /\ stack'[1].node = n /\ pc' = "expand"
      BY <1>1, <1>2, <1>3, <1>4, <2>1
    <3> QED
      BY <3>1 DEF AwaitsRows
  <2>2. CASE n # child
    <3>1. PICK i \in DOMAIN stack : stack[i].node = n /\ kids[n] \subseteq visited \cup stack[i].rows
      BY <1>1, <2>2 DEF NothingSkipped, AwaitsRows
    <3>2. CASE i = 1
      BY <1>1, <1>2, <1>3, <1>4, <3>1, <3>2 DEF AwaitsRows
    <3>3. CASE i # 1
      <4>1. i \in 2..Len(stack) /\ i + 1 \in DOMAIN stack' /\ stack'[i + 1] = stack[i]
        BY <1>3, <1>4, <3>3
      <4> QED
        BY <1>1, <3>1, <4>1 DEF AwaitsRows
    <3> QED
      BY <3>2, <3>3
  <2> QED
    BY <2>1, <2>2
<1> QED
  BY <1>1, <1>3, <1>4, <1>6, <1>7, <1>8, <1>9, <1>10, <1>11 DEF FramesWhileWalking, SeenIsFound

\* A frame that has looked at all its rows goes; the last one is the answer.
LEMMA ReturnKeeps ==
  ASSUME WalkInv, ReturnChildren
  PROVE  WalkInv'
<1> USE DEF WalkInv, Walking
<1>0. stack # <<>> /\ stack \in Seq(Frames) /\ Top = stack[1] /\ stack[1].rows = {}
  BY HeadTailProperties DEF ReturnChildren, FramesWhileWalking, TypeOK, Top
<1>1. /\ pc = "rows" /\ pc' = (IF Len(stack) = 1 THEN "done" ELSE pc)
      /\ result' = (IF Len(stack) = 1 THEN "tree" ELSE result)
      /\ UNCHANGED <<kids, changes, visited, tree, refused>>
  BY DEF ReturnChildren, Ends
<1>2. /\ stack' \in Seq(Frames) /\ Len(stack') = Len(stack) - 1
      /\ \A i \in 1..Len(stack') : stack'[i] = stack[i + 1]
  BY <1>0, HeadTailProperties DEF ReturnChildren
<1>3. DOMAIN stack = 1..Len(stack) /\ DOMAIN stack' = 1..Len(stack') /\ Len(stack) \in Nat \ {0}
  BY <1>0, <1>2
<1>4. TypeOK' /\ FramesVisited'
  <2>1. TypeOK'
    BY <1>1, <1>2 DEF TypeOK
  <2>2. FramesVisited'
    BY <1>1, <1>2, <1>3 DEF FramesVisited
  <2> QED
    BY <2>1, <2>2
<1>5. DepthOfVisited'
  <2>1. Cardinality(visited) \in Nat
    BY RootAssumption, FS_Subset, FS_CardinalityType DEF TypeOK
  <2> QED
    BY <1>1, <1>2, <1>3, <2>1 DEF DepthOfVisited
<1>6. SeenIsFound' /\ IsTree'
  BY <1>1 DEF SeenIsFound, IsTree, Found
<1>7. NothingSkipped'
  <2> SUFFICES ASSUME changes = 0, NEW n \in visited, n \notin refused, ~(kids[n] \subseteq visited)
               PROVE  Walking' /\ AwaitsRows(n)'
    BY <1>1 DEF NothingSkipped
  <2>1. PICK i \in DOMAIN stack : stack[i].node = n /\ kids[n] \subseteq visited \cup stack[i].rows
    BY <1>1 DEF NothingSkipped, AwaitsRows
  <2>2. i # 1
    BY <1>0, <2>1
  <2>3. i - 1 \in DOMAIN stack' /\ stack'[i - 1] = stack[i] /\ Len(stack) # 1
    BY <1>2, <1>3, <2>2
  <2> QED
    BY <1>1, <2>1, <2>3 DEF AwaitsRows
<1> QED
  BY <1>1, <1>2, <1>3, <1>4, <1>5, <1>6, <1>7 DEF FramesWhileWalking

LEMMA LostKeeps ==
  ASSUME WalkInv, ConnectionLost
  PROVE  WalkInv'
BY DEF WalkInv, ConnectionLost, Ends, TypeOK, FramesWhileWalking, FramesVisited, Walking, SeenIsFound, IsTree,
       DepthOfVisited, NothingSkipped

\* What others do to the hierarchy ends what NothingSkipped promises, and no more.
LEMMA ChangeKeeps ==
  ASSUME WalkInv, HierarchyChanges
  PROVE  WalkInv'
<1>1. TypeOK'
  BY ChangesAssumption DEF WalkInv, HierarchyChanges, walkVars, TypeOK
<1>2. NothingSkipped'
  BY DEF WalkInv, HierarchyChanges, TypeOK, NothingSkipped
<1> QED
  BY <1>1, <1>2
  DEF WalkInv, HierarchyChanges, walkVars, FramesWhileWalking, FramesVisited, Walking, SeenIsFound, Found,
      IsTree, DepthOfVisited

LEMMA WalkInvStep == WalkInv /\ [Next]_vars => WalkInv'
<1> SUFFICES ASSUME WalkInv, [Next]_vars PROVE WalkInv'
  OBVIOUS
<1>1. ASSUME NEW child \in Nodes, TakeRow(child)
      PROVE  WalkInv'
  BY <1>1, SeenRowKeeps, NewRowKeeps
<1>2. CASE UNCHANGED vars
  BY <1>2 DEF vars, walkVars, WalkInv, TypeOK, FramesWhileWalking, FramesVisited, Walking, SeenIsFound, Found,
              IsTree, DepthOfVisited, NothingSkipped, AwaitsRows
<1> QED
  BY <1>1, <1>2, StartKeeps, ExpandKeeps, ReturnKeeps, LostKeeps, ChangeKeeps DEF Next, Walk

THEOREM WalkInvariance == FairSpec => []WalkInv
BY WalkInvInitially, WalkInvStep, PTL DEF FairSpec, Spec

\* The walk's variables keep their types, with changes of the hierarchy in between.
THEOREM WalkTypes == FairSpec => []TypeOK
<1>1. WalkInv => TypeOK
  BY DEF WalkInv
<1> QED
  BY <1>1, WalkInvariance, PTL

\* For every hierarchy, with cycles and shared children, what the walk has built is a
\* tree below the root at any time.
THEOREM AnswerIsTree == FairSpec => []IsTree
<1>1. WalkInv => IsTree
  BY DEF WalkInv
<1> QED
  BY <1>1, WalkInvariance, PTL

\* The recursion of fetch_children_recursive is bounded by the number of nodes.
THEOREM RecursionBounded == FairSpec => []DepthBounded
<1>1. WalkInv => DepthBounded
  <2> SUFFICES ASSUME WalkInv PROVE DepthBounded
    OBVIOUS
  <2>1. /\ Cardinality(visited) <= Cardinality(Nodes)
        /\ Cardinality(visited) \in Nat /\ Cardinality(Nodes) \in Nat
    BY RootAssumption, FS_Subset, FS_CardinalityType DEF WalkInv, TypeOK
  <2>2. Len(stack) \in Nat
    BY DEF WalkInv, TypeOK
  <2> QED
    BY <2>1, <2>2 DEF WalkInv, DepthOfVisited, DepthBounded
<1> QED
  BY <1>1, WalkInvariance, PTL

\* An answered query is answered in full: no child of a node in the tree is missing
\* unless the server refused that node's statement or the hierarchy changed.
THEOREM NoChildMissing == FairSpec => []ChildrenComplete
<1>1. WalkInv => ChildrenComplete
  BY DEF WalkInv, SeenIsFound, NothingSkipped, Walking, ChildrenComplete
<1> QED
  BY <1>1, WalkInvariance, PTL

-----------------------------------------------------------------------------
(***************************************************************************)
(* Reach is a recursive function.  The induction theorems of the library   *)
(* take a predicate; for a set of numbers, the existence of a smallest one *)
(* that is missing from it (WFMin) serves as well.                         *)
(***************************************************************************)
Smaller == {p \in Nat \X Nat : p[1] < p[2]}

\* A set that holds 0 and with every number the next one holds all of them.
LEMMA SetInduction ==
  ASSUME NEW T, 0 \in T, \A n \in Nat : n \in T => n + 1 \in T
  PROVE  \A n \in Nat : n \in T
<1> SUFFICES ASSUME Nat \ T # {} PROVE FALSE
  OBVIOUS
<1>1. IsWellFoundedOn(Smaller, Nat)
  <2>1. OpToRel(<, Nat) = Smaller
    BY DEF OpToRel, Smaller
  <2> QED
    BY <2>1, NatLessThanWellFounded
<1>2. PICK x \in Nat \ T : \A y \in Nat \ T : <<y, x>> \notin Smaller
  BY <1>1, WFMin
<1>3. x # 0 /\ x - 1 \in Nat /\ <<x - 1, x>> \in Smaller
  BY DEF Smaller
<1>4. x - 1 \in T
  BY <1>2, <1>3
<1> QED
  BY <1>3, <1>4

\* One more step down the hierarchy.
Spread(S) == S \cup UNION {kids[m] : m \in S}

\* What is reached in up to n steps, for each n up to top.
IsLevels(R, from, top) ==
  R = [n \in 0..top |-> IF n = 0 THEN from ELSE R[n - 1] \cup UNION {kids[m] : m \in R[n - 1]}]

\* The recursion has a solution, so the CHOOSE behind it finds one.
LEMMA LevelsExist ==
  ASSUME NEW from, NEW top \in Nat
  PROVE  \E R : IsLevels(R, from, top)
<1> DEFINE T == {n \in Nat : \E R : IsLevels(R, from, n)}
<1>1. 0 \in T
  <2>1. IsLevels([n \in 0..0 |-> from], from, 0)
    BY DEF IsLevels
  <2> QED
    BY <2>1
<1>2. ASSUME NEW n \in Nat, n \in T
      PROVE  n + 1 \in T
  <2>1. PICK R : IsLevels(R, from, n)
    BY <1>2
  <2> DEFINE S == [k \in 0..n + 1 |-> IF k = n + 1 THEN Spread(R[n]) ELSE R[k]]
  <2>2. /\ \A k \in 0..n : S[k] = R[k]
        /\ S[n + 1] = Spread(R[n])
        /\ DOMAIN S = 0..n + 1
    OBVIOUS
  <2>3. \A k \in 0..n : R[k] = IF k = 0 THEN from ELSE R[k - 1] \cup UNION {kids[m] : m \in R[k - 1]}
    BY <2>1 DEF IsLevels
  <2>4. \A k \in 0..n + 1 : S[k] = IF k = 0 THEN from ELSE S[k - 1] \cup UNION {kids[m] : m \in S[k - 1]}
    <3> HIDE DEF S
    <3>1. ASSUME NEW k \in 0..n
          PROVE S[k] = IF k = 0 THEN from ELSE S[k - 1] \cup UNION {kids[m] : m \in S[k - 1]}
      <4>1. CASE k = 0
        BY <2>2, <2>3, <4>1
      <4>2. CASE k # 0
        <5>1. k - 1 \in 0..n
           BY <4>2
        <5> QED BY <2>2, <2>3, <4>2, <5>1
      <4> QED BY <4>1, <4>2
    <3>2. S[n + 1] = S[n] \cup UNION {kids[m] : m \in S[n]} /\ (n + 1) - 1 = n /\ n + 1 # 0
      BY <2>2 DEF Spread
    <3>3. \A k \in 0..n + 1 : k \in 0..n \/ k = n + 1
      OBVIOUS
    <3> QED
      BY <3>1, <3>2, <3>3
  <2>5. S = [k \in 0..n + 1 |-> S[k]]
    OBVIOUS
  <2>6. IsLevels(S, from, n + 1)
    <3> HIDE DEF S
    <3> QED BY <2>4, <2>5 DEF IsLevels
  <2> QED
    BY <2>6
<1> HIDE DEF T
<1>3. top \in T
  BY <1>1, <1>2, SetInduction
<1> QED
  BY <1>3 DEF T

LEMMA ReachIsTop ==
  ASSUME NEW from, IsFiniteSet(Nodes)
  PROVE  \E R : IsLevels(R, from, Cardinality(Nodes)) /\ Reach(from) = R[Cardinality(Nodes)]
<1>0. Cardinality(Nodes) \in Nat
  BY FS_CardinalityType
<1> DEFINE C == Cardinality(Nodes)
           L == CHOOSE R : IsLevels(R, from, C)
<1>1. IsLevels(L, from, C)
  BY <1>0, LevelsExist
<1>2. Reach(from) = L[C]
  BY DEF Reach, IsLevels
<1> QED
  BY <1>1, <1>2

Closed(S) == \A m \in S : kids[m] \subseteq S

\* What can be reached is the smallest set of nodes that holds the nodes one starts
\* from and the children of each of its own.
LEMMA ReachIsClosure ==
  ASSUME TypeOK, NEW from \in SUBSET Nodes
  PROVE  /\ from \subseteq Reach(from)
         /\ Reach(from) \subseteq Nodes
         /\ Closed(Reach(from))
         /\ \A S : from \subseteq S /\ Closed(S) => Reach(from) \subseteq S
<1> DEFINE C == Cardinality(Nodes)
<1>0. C \in Nat /\ IsFiniteSet(Nodes)
  BY RootAssumption, FS_CardinalityType
<1>1. PICK R : IsLevels(R, from, C) /\ Reach(from) = R[C]
  BY <1>0, ReachIsTop
<1> HIDE DEF C
<1>2. R[0] = from /\ \A n \in Nat : n + 1 <= C => R[n + 1] = Spread(R[n])
  <2>1. \A k \in 0..C : R[k] = IF k = 0 THEN from ELSE R[k - 1] \cup UNION {kids[m] : m \in R[k - 1]}
    BY <1>1 DEF IsLevels
  <2>2. ASSUME NEW n \in Nat, n + 1 <= C
        PROVE  R[n + 1] = Spread(R[n])
    <3>1. n + 1 \in 0..C /\ n + 1 # 0 /\ (n + 1) - 1 = n
      BY <1>0, <2>2
    <3> QED
      BY <2>1, <3>1 DEF Spread
  <2>3. R[0] = from
    <3>1. 0 \in 0..C
      BY <1>0
    <3> QED
      BY <2>1, <3>1
  <2> QED
    BY <2>2, <2>3
<1>3. \A n \in Nat : n <= C => from \subseteq R[n] /\ R[n] \subseteq Nodes
  <2> DEFINE T == {n \in Nat : n <= C => from \subseteq R[n] /\ R[n] \subseteq Nodes}
  <2>1. 0 \in T
    BY <1>2
  <2>2. \A n \in Nat : n \in T => n + 1 \in T
    BY <1>0, <1>2 DEF Spread, TypeOK
  <2> HIDE DEF T
  <2>3. \A n \in Nat : n \in T
    BY <2>1, <2>2, SetInduction
  <2> QED
    BY <2>3 DEF T
<1>4. \A n \in Nat : n <= C => Closed(R[n]) \/ n <= Cardinality(R[n])
  <2> DEFINE T == {n \in Nat : n <= C => Closed(R[n]) \/ n <= Cardinality(R[n])}
  <2>1. 0 \in T
    <3>1. Cardinality(from) \in Nat
      BY <1>0, FS_Subset, FS_CardinalityType
    <3> QED
      BY <1>2, <3>1
  <2>2. ASSUME NEW n \in Nat, n \in T, n + 1 <= C
        PROVE  Closed(R[n + 1]) \/ n + 1 <= Cardinality(R[n + 1])
    <3>1. R[n] \subseteq Nodes /\ R[n + 1] \subseteq Nodes /\ R[n + 1] = Spread(R[n]) /\ n <= C
      BY <1>0, <1>2, <1>3, <2>2
    <3>2. CASE Closed(R[n])
      <4>1. R[n + 1] = R[n]
        BY <3>1, <3>2 DEF Closed, Spread
      <4> QED
        BY <3>2, <4>1
    <3>3. CASE ~Closed(R[n])
      <4>1. n <= Cardinality(R[n])
        BY <2>2, <3>1, <3>3
      <4>2. R[n] \subseteq R[n + 1] /\ R[n] # R[n + 1]
        BY <3>1, <3>3 DEF Closed, Spread
      <4>3. IsFiniteSet(R[n]) /\ IsFiniteSet(R[n + 1])
        BY <1>0, <3>1, FS_Subset
      <4>4. /\ Cardinality(R[n]) \in Nat /\ Cardinality(R[n + 1]) \in Nat
            /\ Cardinality(R[n]) <= Cardinality(R[n + 1])
            /\ Cardinality(R[n]) # Cardinality(R[n + 1])
        BY <4>2, <4>3, FS_Subset, FS_CardinalityType
      <4> QED
        BY <4>1, <4>4
    <3> QED
      BY <3>2, <3>3
  <2>3. \A n \in Nat : n \in T => n + 1 \in T
    BY <2>2
  <2> HIDE DEF T
  <2>4. \A n \in Nat : n \in T
    BY <2>1, <2>3, SetInduction
  <2> QED
    BY <2>4 DEF T
<1>5. Closed(R[C])
  <2>1. CASE C <= Cardinality(R[C])
    <3>1. R[C] = Nodes
      BY <1>0, <1>3, <2>1, FS_Subset, FS_CardinalityType DEF C
    <3> QED
      BY <3>1 DEF Closed, TypeOK
  <2> QED
    BY <1>0, <1>4, <2>1
<1>6. ASSUME NEW S, from \subseteq S, Closed(S)
      PROVE  R[C] \subseteq S
  <2> DEFINE T == {n \in Nat : n <= C => R[n] \subseteq S}
  <2>1. 0 \in T
    BY <1>2, <1>6
  <2>2. \A n \in Nat : n \in T => n + 1 \in T
    BY <1>0, <1>2, <1>6 DEF Spread, Closed
  <2> HIDE DEF T
  <2>3. \A n \in Nat : n \in T
    BY <2>1, <2>2, SetInduction
  <2> QED
    BY <1>0, <2>3 DEF T
<1> QED
  BY <1>0, <1>1, <1>3, <1>5, <1>6

-----------------------------------------------------------------------------
(***************************************************************************)
(* Nothing in the tree is made up: on an unchanged hierarchy the rows that *)
(* frames still have are children of their nodes, and so every child that  *)
(* was taken from them can be reached from the root.                       *)
(***************************************************************************)
RowsAreKids == \A i \in DOMAIN stack : stack[i].rows \subseteq kids[stack[i].node]

ReachInv == changes = 0 => RowsAreKids /\ Found \subseteq Reach({Root})

\* A step asks for the rows of one frame, starts one, or takes rows away.
LEMMA RowsOfStep ==
  ASSUME WalkInv, Walk, NEW i \in DOMAIN stack'
  PROVE  \/ stack'[i].rows = {}
         \/ stack'[i].rows = kids[stack'[i].node]
         \/ \E k \in DOMAIN stack : /\ stack'[i].node = stack[k].node
                                    /\ stack'[i].rows \subseteq stack[k].rows
<1> USE DEF WalkInv, FramesWhileWalking, Walking
<1>0. stack \in Seq(Frames)
  BY DEF TypeOK
<1>1. CASE UseSpace \/ FetchRoot \/ ConnectionLost
  <2>1. stack' = stack \/ stack' = <<[node |-> Root, rows |-> {}]>>
    BY <1>1 DEF UseSpace, FetchRoot, ConnectionLost
  <2> QED
    BY <2>1
<1>2. CASE Expand
  <2>1. stack # <<>> /\ Top = stack[1] /\ Top \in Frames /\ 1 \in DOMAIN stack
    BY <1>0, <1>2, HeadTailProperties DEF Expand, Top
  <2>2. CASE UNCHANGED stack
    BY <2>2
  <2>3. CASE stack' = <<[Top EXCEPT !.rows = kids[Top.node]]>> \o Tail(stack)
    <3> DEFINE frame == [Top EXCEPT !.rows = kids[Top.node]]
    <3>1. frame \in Frames /\ frame.node = stack[1].node /\ frame.rows = kids[frame.node]
      BY <2>1 DEF TypeOK, Frames
    <3>2. /\ stack' \in Seq(Frames) /\ Len(stack') = Len(stack) /\ stack'[1] = frame
          /\ \A k \in 2..Len(stack) : stack'[k] = stack[k]
      BY <1>0, <2>1, <2>3, <3>1, ReplaceTop
    <3>3. i = 1 \/ (i \in 2..Len(stack) /\ i \in DOMAIN stack)
      BY <1>0, <3>2
    <3> HIDE DEF frame
    <3> QED
      BY <3>1, <3>2, <3>3
  <2> QED
    BY <1>2, <2>2, <2>3 DEF Expand
<1>3. ASSUME NEW child \in Nodes, TakeRow(child)
      PROVE  \/ stack'[i].rows = {}
             \/ \E k \in DOMAIN stack : /\ stack'[i].node = stack[k].node
                                        /\ stack'[i].rows \subseteq stack[k].rows
  <2> DEFINE rest == [Top EXCEPT !.rows = @ \ {child}]
             frame == [node |-> child, rows |-> {}]
  <2>1. stack # <<>> /\ Top = stack[1] /\ Top \in Frames /\ 1 \in DOMAIN stack
    BY <1>0, <1>3, HeadTailProperties DEF TakeRow, Top
  <2>2. /\ rest \in Frames /\ rest.node = stack[1].node /\ rest.rows \subseteq stack[1].rows
        /\ frame \in Frames /\ frame.rows = {}
    BY <2>1 DEF Frames
  <2>3. CASE stack' = <<rest>> \o Tail(stack)
    <3>1. /\ stack' \in Seq(Frames) /\ Len(stack') = Len(stack) /\ stack'[1] = rest
          /\ \A k \in 2..Len(stack) : stack'[k] = stack[k]
      BY <1>0, <2>1, <2>2, <2>3, ReplaceTop
    <3>2. i = 1 \/ (i \in 2..Len(stack) /\ i \in DOMAIN stack)
      BY <1>0, <3>1
    <3> HIDE DEF rest, frame
    <3> QED
      BY <2>1, <2>2, <3>1, <3>2
  <2>4. CASE stack' = <<frame, rest>> \o Tail(stack)
    <3>1. /\ stack' \in Seq(Frames) /\ Len(stack') = Len(stack) + 1
          /\ stack'[1] = frame /\ stack'[2] = rest
          /\ \A k \in 2..Len(stack) : stack'[k + 1] = stack[k]
      BY <1>0, <2>1, <2>2, <2>4, PushTop
    <3>2. i = 1 \/ i = 2 \/ (i - 1 \in 2..Len(stack) /\ i - 1 \in DOMAIN stack /\ stack'[i] = stack[i - 1])
      BY <1>0, <3>1
    <3> HIDE DEF rest, frame
    <3> QED
      BY <2>1, <2>2, <3>1, <3>2
  <2> QED
    BY <1>3, <2>3, <2>4 DEF TakeRow
<1>4. CASE ReturnChildren
  <2>1. /\ stack # <<>> /\ stack' \in Seq(Frames) /\ Len(stack') = Len(stack) - 1
        /\ \A k \in 1..Len(stack') : stack'[k] = stack[k + 1]
    BY <1>0, <1>4, HeadTailProperties DEF ReturnChildren
  <2>2. i + 1 \in DOMAIN stack /\ stack'[i] = stack[i + 1]
    BY <1>0, <2>1
  <2> QED
    BY <2>2
<1> QED
  BY <1>1, <1>2, <1>3, <1>4 DEF Walk

LEMMA ReachInvInitially == Init => ReachInv
<1> SUFFICES ASSUME Init PROVE ReachInv
  OBVIOUS
<1>1. TypeOK
  BY WalkInvInitially DEF WalkInv
<1>2. {Root} \subseteq Reach({Root})
  BY <1>1, ReachIsClosure, RootAssumption
<1> QED
  BY <1>2 DEF Init, ReachInv, RowsAreKids, Found

\* The walk takes a child from the rows of a node it has found.
LEMMA FoundOfStep ==
  ASSUME WalkInv, Walk
  PROVE  Found' \subseteq Found \cup (IF stack = <<>> THEN {} ELSE stack[1].rows)
<1>1. ASSUME NEW child \in Nodes, TakeRow(child)
      PROVE  Found' \subseteq Found \cup (IF stack = <<>> THEN {} ELSE stack[1].rows)
  <2>1. stack # <<>> /\ Top = stack[1]
    BY <1>1 DEF TakeRow, WalkInv, FramesWhileWalking, Walking, TypeOK, Top
  <2> QED
    BY <1>1, <2>1 DEF TakeRow, Found
<1>2. CASE UNCHANGED tree
  BY <1>2 DEF Found
<1> QED
  BY <1>1, <1>2 DEF Walk, UseSpace, FetchRoot, Expand, ReturnChildren, ConnectionLost

LEMMA ReachInvStep ==
  ASSUME WalkInv, ReachInv, [Next]_vars
  PROVE  ReachInv'
<1>1. CASE Walk
  <2> SUFFICES ASSUME changes' = 0 PROVE RowsAreKids' /\ Found' \subseteq Reach({Root})'
    BY DEF ReachInv
  <2>1. kids' = kids /\ changes = 0
    BY <1>1 DEF Walk, UseSpace, FetchRoot, Expand, TakeRow, ReturnChildren, ConnectionLost
  <2>2. RowsAreKids'
    BY <1>1, <2>1, RowsOfStep DEF ReachInv, RowsAreKids
  <2>3. Reach({Root})' = Reach({Root})
    BY <2>1 DEF Reach
  <2>4. Closed(Reach({Root})) /\ Found \subseteq Reach({Root}) /\ RowsAreKids
    BY <2>1, ReachIsClosure, RootAssumption DEF ReachInv, WalkInv
  <2>5. ASSUME stack # <<>>
        PROVE  stack[1].rows \subseteq Reach({Root})
    <3>1. 1 \in DOMAIN stack /\ stack[1].node \in visited
      BY <2>5 DEF WalkInv, TypeOK, FramesVisited
    <3>2. CASE Walking \/ result = "tree"
      BY <2>4, <3>1, <3>2 DEF WalkInv, SeenIsFound, RowsAreKids, Closed
    <3>3. CASE ~Walking
      BY <1>1, <2>5, <3>3 DEF Walk, UseSpace, FetchRoot, Expand, TakeRow, ReturnChildren, ConnectionLost,
                              Walking, WalkInv, FramesWhileWalking
    <3> QED
      BY <3>2, <3>3
  <2>6. Found' \subseteq Reach({Root})
    BY <1>1, <2>4, <2>5, FoundOfStep
  <2> QED
    BY <2>2, <2>3, <2>6
<1>2. CASE HierarchyChanges
  BY <1>2 DEF HierarchyChanges, WalkInv, TypeOK, ReachInv
<1>3. CASE UNCHANGED vars
  BY <1>3 DEF vars, walkVars, ReachInv, RowsAreKids, Found, Reach
<1> QED
  BY <1>1, <1>2, <1>3 DEF Next

\* What the tree lacks lies below a refused node: the found nodes and what can be
\* reached from the refused ones are closed.
LEMMA NothingElseMissing ==
  ASSUME WalkInv, result = "tree", changes = 0
  PROVE  Reach({Root}) \subseteq Found \cup Reach(refused)
<1>1. TypeOK /\ visited = Found
  BY DEF WalkInv, SeenIsFound
<1>2. \A n \in Found : n \in refused \/ kids[n] \subseteq Found
  BY <1>1 DEF WalkInv, NothingSkipped, Walking
<1>3. refused \subseteq Reach(refused) /\ Closed(Reach(refused))
  BY <1>1, ReachIsClosure DEF TypeOK
<1>4. Closed(Found \cup Reach(refused)) /\ {Root} \subseteq Found \cup Reach(refused)
  BY <1>2, <1>3 DEF Closed, Found
<1> QED
  BY <1>1, <1>4, ReachIsClosure, RootAssumption

\* The answer is complete but for what lies below a refused statement, and nothing is
\* in it that cannot be reached from the root, for every finite hierarchy.
THEOREM AnswerComplete == FairSpec => []CompleteBelowAnswers
<1>1. Init => WalkInv /\ ReachInv
  BY WalkInvInitially, ReachInvInitially
<1>2. WalkInv /\ ReachInv /\ [Next]_vars => WalkInv' /\ ReachInv'
  BY WalkInvStep, ReachInvStep
<1>3. WalkInv /\ ReachInv => CompleteBelowAnswers
  <2> SUFFICES ASSUME WalkInv, ReachInv PROVE CompleteBelowAnswers
    OBVIOUS
  <2>1. ChildrenComplete
    BY DEF WalkInv, SeenIsFound, NothingSkipped, Walking, ChildrenComplete
  <2> QED
    BY <2>1, NothingElseMissing DEF ReachInv, CompleteBelowAnswers
<1> QED
  BY <1>1, <1>2, <1>3, PTL DEF FairSpec, Spec
=============================================================================
