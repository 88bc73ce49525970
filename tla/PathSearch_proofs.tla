-------------------------- MODULE PathSearch_proofs --------------------------
(***************************************************************************)
(* Proofs about PathSearch, for any graphs, documents, filters and depth.  *)
(***************************************************************************)
EXTENDS PathSearch, FiniteFacts

\* What Latest returns of a finite set of edges: the date of one of the document's
\* that no other one exceeds, or 0.
LEMMA LatestOfEdges ==
  ASSUME NEW edges, IsFiniteSet(edges), \A e \in edges : e.date \in Nat, NEW d
  PROVE  /\ Latest(edges, d) \in Nat
         /\ \A e \in edges : e.doc = d => e.date <= Latest(edges, d)
         /\ \/ \E e \in edges : e.doc = d /\ e.date = Latest(edges, d)
            \/ Latest(edges, d) = 0 /\ \A e \in edges : e.doc # d
<1> DEFINE own == {x \in edges : x.doc = d}
           dates == {e.date : e \in own}
           dateOf == [e \in own |-> e.date]
<1>1. IsFiniteSet(own)
  BY FS_Subset
<1>2. dateOf \in Surjection(own, dates)
  BY DEF Surjection
<1>3. IsFiniteSet(dates)
  <2> HIDE DEF own, dates, dateOf
  <2> QED
    BY <1>1, <1>2, FS_Surjection
<1>4. dates \subseteq Nat
  OBVIOUS
<1>5. CASE dates = {}
  <2>1. Latest(edges, d) = 0
    BY <1>5 DEF Latest
  <2> QED
    BY <2>1, <1>5
<1>6. CASE dates # {}
  <2>1. \E m \in dates : \A y \in dates : y <= m
    <3> HIDE DEF dates
    <3> QED
      BY <1>3, <1>4, <1>6, GreatestExists
  <2>2. Latest(edges, d) = CHOOSE m \in dates : \A y \in dates : y <= m
    BY <1>6 DEF Latest
  <2>3. Latest(edges, d) \in dates /\ \A y \in dates : y <= Latest(edges, d)
    <3> HIDE DEF dates
    <3> QED
      BY <2>1, <2>2
  <2> QED
    BY <2>3
<1> QED
  BY <1>5, <1>6

-----------------------------------------------------------------------------
Path == [nodes : Seq(Systems), back : Seq(BOOLEAN), combos : Seq(SUBSET (Parts \X Parts))]

Row == {r \in [nodes : Seq(Systems), back : Seq(BOOLEAN)] :
          /\ Len(r.back) \in Nat \ {0}
          /\ Len(r.nodes) = Len(r.back) + 1}

\* What the edges of a document look like.
LEMMA EdgesOfGraph ==
  ASSUME NEW g \in Graphs
  PROVE  /\ IsFiniteSet(Fresh(g.edges))
         /\ Fresh(g.edges) \subseteq [doc : Docs \cup {NoDoc}, date : Nat, consumer : Systems,
                                      provider : Systems, parts : Parts \X Parts]
         /\ \A e \in Fresh(g.edges) : e.date > 0
<1>1. Fresh(g.edges) \subseteq g.edges /\ \A e \in Fresh(g.edges) : e.date > Cutoff
  BY DEF Fresh
<1>2. IsFiniteSet(Fresh(g.edges))
  BY <1>1, FS_Subset, GraphsAssumption
<1> QED
  BY <1>1, <1>2, GraphsAssumption

\* A row of FIND PATH: as many arrows as steps, each along an edge, from one
\* end to the other, over distinct nodes.
LEMMA RowsArePaths ==
  ASSUME NEW E, NEW a, NEW b, NEW p \in PathRows(E, a, b)
  PROVE  /\ p \in Row
         /\ p.nodes \in NodeSequences(a, b)
         /\ p.nodes[1] = a /\ p.nodes[Len(p.nodes)] = b
         /\ DOMAIN p = {"nodes", "back"}
         /\ \A i \in DOMAIN p.back : Step(E, p.nodes[i], p.nodes[i + 1], p.back[i]) # {}
<1>1. PICK n \in NodeSequences(a, b) :
        p \in {[nodes |-> n, back |-> arrows] : arrows \in
            {s \in [1..Len(n) - 1 -> BOOLEAN] :
               \A i \in DOMAIN s : Step(E, n[i], n[i + 1], s[i]) # {}}}
  BY DEF PathRows
<1>2. PICK s \in [1..Len(n) - 1 -> BOOLEAN] :
        /\ p = [nodes |-> n, back |-> s]
        /\ \A i \in DOMAIN s : Step(E, n[i], n[i + 1], s[i]) # {}
  BY <1>1
<1>3. PICK k \in 2..MAX_PATH_DEPTH + 1 : n \in [1..k -> Systems]
  BY <1>1 DEF NodeSequences
<1>4. k \in Nat /\ k >= 2
  BY <1>3, DepthAssumption
<1>5. n \in Seq(Systems) /\ Len(n) = k
  BY <1>3, <1>4
<1>6. s \in Seq(BOOLEAN) /\ Len(s) = k - 1
  BY <1>2, <1>4, <1>5
<1>7. n[1] = a /\ n[Len(n)] = b
  BY <1>1 DEF NodeSequences
<1> QED
  BY <1>1, <1>2, <1>4, <1>5, <1>6, <1>7 DEF Row

LEMMA NodeSequencesFinite ==
  ASSUME NEW a, NEW b
  PROVE  IsFiniteSet(NodeSequences(a, b))
<1> DEFINE lengths == 2..MAX_PATH_DEPTH + 1
           ofLength == [k \in lengths |-> [1..k -> Systems]]
           all == {[1..k -> Systems] : k \in lengths}
<1>1. IsFiniteSet(lengths)
  BY FS_Interval, DepthAssumption
<1>2. ofLength \in Surjection(lengths, all)
  BY DEF Surjection
<1>3. IsFiniteSet(all)
  <2> HIDE DEF lengths, ofLength, all
  <2> QED
    BY <1>1, <1>2, FS_Surjection
<1>4. \A F \in all : IsFiniteSet(F)
  <2>1. \A k \in lengths : k \in Nat
    BY DepthAssumption
  <2>2. \A k \in lengths : IsFiniteSet([1..k -> Systems])
    BY <2>1, FunctionsFinite, GraphsAssumption
  <2> QED
    BY <2>2
<1>5. IsFiniteSet(UNION all)
  <2> HIDE DEF all
  <2> QED
    BY <1>3, <1>4, FS_UNION
<1>6. NodeSequences(a, b) \subseteq UNION all
  BY DEF NodeSequences
<1> QED
  BY <1>5, <1>6, FS_Subset

\* path_key: the first rows are finitely many.
LEMMA FirstRowsFinite ==
  ASSUME NEW E, NEW a, NEW b, NEW R \in SUBSET PathRows(E, a, b), NEW first \in FirstRows(R)
  PROVE  IsFiniteSet(first)
<1> DEFINE nodesOf == [p \in first |-> p.nodes]
<1>1. first \subseteq PathRows(E, a, b) /\ \A p, q \in first : p.nodes = q.nodes => p = q
  BY DEF FirstRows
<1>2. nodesOf \in [first -> NodeSequences(a, b)]
  BY <1>1, RowsArePaths
<1>3. nodesOf \in Injection(first, NodeSequences(a, b))
  BY <1>1, <1>2 DEF Injection, IsInjective
<1> QED
  <2> HIDE DEF nodesOf
  <2> QED
    BY <1>3, FS_Injection, NodeSequencesFinite

-----------------------------------------------------------------------------
(***************************************************************************)
(* The types, which every step keeps.                                      *)
(***************************************************************************)
Filter == [system : Systems \cup {NoSystem}, part : Parts]

Types ==
  /\ db \in Seq(Graphs) /\ db # <<>>
  /\ \E f \in Filters : request = [start |-> f[1], finish |-> f[2]]
  /\ pc \in {"call", "use", "system", "starts", "finishes", "paths", "edges",
             "forward", "reverse", "done", "gave up", "failed"}
  /\ attempt \in 1..DB_RETRY_COUNT + 1
  /\ rejected \in BOOLEAN
  /\ outDate \in [Docs -> Nat] /\ inDate \in [Docs -> Nat]
  /\ todo \in SUBSET Docs
  /\ doc \in Docs \cup {NoDoc}
  /\ rows \in Seq(Row)
  /\ combos \in Seq(SUBSET (Parts \X Parts))
  /\ found \in [Docs -> SUBSET Path]
  /\ date \in [Docs -> Nat]

LEMMA RequestType ==
  ASSUME Types
  PROVE  request = [start |-> Start, finish |-> Finish] /\ Start \in Filter /\ Finish \in Filter
<1>1. PICK f \in Filters : request = [start |-> f[1], finish |-> f[2]]
  BY DEF Types
<1>2. 1 \in 1..2 /\ 2 \in 1..2
  OBVIOUS
<1>3. f[1] \in Filter /\ f[2] \in Filter
  BY <1>2, FiltersAssumption DEF Filter
<1>4. Start = f[1] /\ Finish = f[2]
  BY <1>1 DEF Start, Finish
<1> QED
  BY <1>1, <1>3, <1>4

LEMMA GraphType ==
  ASSUME Types
  PROVE  Graph \in Graphs /\ Len(db) \in DOMAIN db
<1>1. db \in Seq(Graphs) /\ db # <<>>
  BY DEF Types
<1>2. Len(db) \in 1..Len(db) /\ DOMAIN db = 1..Len(db)
  BY <1>1, EmptySeq, LenProperties
<1>3. db[Len(db)] \in Graphs
  BY <1>1, <1>2, ElementOfSeq
<1> QED
  BY <1>2, <1>3 DEF Graph

\* The dates a statement brings.
LEMMA LatestHere ==
  ASSUME Types, NEW edges \in SUBSET Fresh(Graph.edges), NEW d
  PROVE  /\ IsFiniteSet(edges)
         /\ Latest(edges, d) \in Nat
         /\ Latest(edges, d) > 0 <=> \E e \in edges : e.doc = d
         /\ \A e \in edges : e.doc = d => e.date <= Latest(edges, d)
         /\ Latest(edges, d) > 0 => \E e \in edges : e.doc = d /\ e.date = Latest(edges, d)
<1>1. Graph \in Graphs
  BY GraphType
<1>2. IsFiniteSet(edges) /\ \A e \in edges : e.date \in Nat /\ e.date > 0
  BY <1>1, EdgesOfGraph, FS_Subset
<1> QED
  BY <1>2, LatestOfEdges

LEMMA StatementEdges ==
  ASSUME NEW n, NEW accepted
  PROVE  /\ Fresh(Out(n)) \subseteq Fresh(Graph.edges)
         /\ Fresh(In(n)) \subseteq Fresh(Graph.edges)
         /\ Fresh(Incident(n)) \subseteq Fresh(Graph.edges)
         /\ \A S : Rows(accepted, S) \subseteq S
BY DEF Fresh, Out, In, Incident, Rows

\* What a row of a one-hop statement becomes.
LEMMA HopType ==
  ASSUME Types, NEW e \in Fresh(Graph.edges), NEW anchor \in Systems, NEW back \in BOOLEAN
  PROVE  /\ HopPath(e, anchor, back) \in Path
         /\ Neighbour(e, anchor) \in Systems
         /\ HopPath(e, anchor, back).back = <<back>>
         /\ HopPath(e, anchor, back).combos = <<{e.parts}>>
         /\ HopPath(e, anchor, back).nodes = IF anchor = Start.system
              THEN <<anchor, Neighbour(e, anchor)>> ELSE <<Neighbour(e, anchor), anchor>>
<1>1. /\ e.consumer \in Systems /\ e.provider \in Systems /\ e.parts \in Parts \X Parts
  BY GraphType, EdgesOfGraph
<1>2. Neighbour(e, anchor) \in Systems
  BY <1>1 DEF Neighbour
<1> QED
  BY <1>1, <1>2 DEF HopPath, Path

\* Of a document the first rows are paths, one for each neighbour that is new.
FirstOfEach(new, edges, anchor, back, d) ==
  /\ \A p \in new : \E e \in edges :
       /\ e.doc = d /\ p = HopPath(e, anchor, back)
       /\ Neighbour(e, anchor) \in NewNeighbours(edges, anchor, d)
  /\ \A n \in NewNeighbours(edges, anchor, d) : \E e \in edges :
       e.doc = d /\ Neighbour(e, anchor) = n /\ HopPath(e, anchor, back) \in new
  /\ \A p, q \in new : p.nodes = q.nodes => p = q

LEMMA HopsOfDocument ==
  ASSUME NEW edges, NEW anchor, NEW back, NEW d, NEW new \in FirstHops(edges, anchor, back, d)
  PROVE  FirstOfEach(new, edges, anchor, back, d)
<1>1. PICK pick \in [NewNeighbours(edges, anchor, d) -> edges] :
        /\ \A n \in DOMAIN pick : pick[n].doc = d /\ Neighbour(pick[n], anchor) = n
        /\ new = {HopPath(pick[n], anchor, back) : n \in DOMAIN pick}
  BY DEF FirstHops
<1>2. \A p, q \in new : p.nodes = q.nodes => p = q
  <2> SUFFICES ASSUME NEW n \in DOMAIN pick, NEW m \in DOMAIN pick,
                      HopPath(pick[n], anchor, back).nodes = HopPath(pick[m], anchor, back).nodes
               PROVE  n = m
    BY <1>1
  <2>1. \A k \in DOMAIN pick : HopPath(pick[k], anchor, back).nodes
                                 = IF anchor = Start.system THEN <<anchor, k>> ELSE <<k, anchor>>
    BY <1>1 DEF HopPath
  <2>2. HopPath(pick[n], anchor, back).nodes = IF anchor = Start.system THEN <<anchor, n>> ELSE <<n, anchor>>
    BY <2>1
  <2>3. HopPath(pick[m], anchor, back).nodes = IF anchor = Start.system THEN <<anchor, m>> ELSE <<m, anchor>>
    BY <2>1
  <2>4. CASE anchor = Start.system
    <3>1. <<anchor, n>> = <<anchor, m>>
      BY <2>2, <2>3, <2>4
    <3> QED
      BY <3>1
  <2>5. CASE anchor # Start.system
    <3>1. <<n, anchor>> = <<m, anchor>>
      BY <2>2, <2>3, <2>5
    <3> QED
      BY <3>1
  <2> QED
    BY <2>4, <2>5
<1> QED
  BY <1>1, <1>2 DEF FirstOfEach

-----------------------------------------------------------------------------
(***************************************************************************)
(* Where the search is and what that says about the rest.                  *)
(***************************************************************************)
Untouched == found = Nothing /\ date = NoDates

Control ==
  /\ pc \in {"system", "starts", "finishes", "paths", "edges"} => Between
  /\ pc \in {"forward", "reverse"} => (Start.system = NoSystem) # (Finish.system = NoSystem)
  /\ pc \notin {"call", "done"} => Start.system # NoSystem \/ Finish.system # NoSystem
  /\ Start.system = NoSystem /\ Finish.system = NoSystem => Untouched
  /\ pc \in {"call", "use", "system", "starts", "finishes", "forward", "gave up", "failed"}
       => Untouched
  /\ pc = "edges" <=> rows # <<>>
  /\ pc # "edges" => combos = <<>>
  /\ pc \notin {"paths", "edges"} => todo = {}
  /\ pc = "edges" => /\ Len(combos) < Len(Head(rows).back)
                     /\ doc \in Docs \ todo
                     /\ outDate[doc] > 0 /\ inDate[doc] > 0
  /\ \A d \in todo : found[d] = {} /\ date[d] = 0 /\ outDate[d] > 0 /\ inDate[d] > 0

\* The one-hop actions in the terms they share: the system that is given, the
\* edges its filter admits, and those a statement asks for.
Anchor == IF Start.system # NoSystem THEN Start.system ELSE Finish.system

Admitted ==
  {e \in Fresh(Graph.edges) : IF Start.system # NoSystem THEN Matches(Start, e.parts[1])
                                                         ELSE Matches(Finish, e.parts[2])}

HopEdges(back) ==
  {e \in Admitted : IF back = (Start.system # NoSystem) THEN e.provider = Anchor
                                                        ELSE e.consumer = Anchor}

OneHop(back, accepted) ==
  /\ pc = IF back THEN "reverse" ELSE "forward"
  /\ pc' = IF back THEN "done" ELSE "reverse"
  /\ rejected' = (rejected \/ ~accepted)
  /\ ProcessRows(Rows(accepted, HopEdges(back)), Anchor, back)
  /\ UNCHANGED <<givenVars, docVars, todo, pathVars>>

OneHopStep ==
  \/ OneHopFromStart("forward", "reverse", FALSE)
  \/ OneHopFromStart("reverse", "done", TRUE)
  \/ OneHopToFinish("forward", "reverse", FALSE)
  \/ OneHopToFinish("reverse", "done", TRUE)

LEMMA OneHopShared ==
  ASSUME Types, Control, OneHopStep
  PROVE  /\ Anchor \in Systems /\ ~Between
         /\ \E back, accepted \in BOOLEAN : OneHop(back, accepted)
<1>1. pc \in {"forward", "reverse"}
  BY DEF OneHopStep, OneHopFromStart, OneHopToFinish, To
<1>2. (Start.system = NoSystem) # (Finish.system = NoSystem)
  BY <1>1 DEF Control
<1>3. Anchor \in Systems /\ ~Between
  BY <1>2, RequestType DEF Anchor, Filter, Between
<1>4. Accepted \subseteq BOOLEAN
  BY DEF Accepted
<1>5. ASSUME NEW back \in BOOLEAN, NEW from, NEW to,
             OneHopFromStart(from, to, back),
             from = IF back THEN "reverse" ELSE "forward",
             to = IF back THEN "done" ELSE "reverse"
      PROVE  \E accepted \in BOOLEAN : OneHop(back, accepted)
  <2>1. Start.system # NoSystem /\ Anchor = Start.system
    BY <1>2, <1>5 DEF OneHopFromStart, Anchor
  <2>2. HopEdges(back) = {e \in Fresh(IF back THEN In(Start.system) ELSE Out(Start.system)) :
                            Matches(Start, e.parts[1])}
    BY <2>1 DEF HopEdges, Admitted, Fresh, In, Out
  <2> QED
    BY <1>4, <1>5, <2>1, <2>2 DEF OneHopFromStart, OneHop, To, Statement
<1>6. ASSUME NEW back \in BOOLEAN, NEW from, NEW to,
             OneHopToFinish(from, to, back),
             from = IF back THEN "reverse" ELSE "forward",
             to = IF back THEN "done" ELSE "reverse"
      PROVE  \E accepted \in BOOLEAN : OneHop(back, accepted)
  <2>1. Start.system = NoSystem /\ Anchor = Finish.system
    BY <1>6 DEF OneHopToFinish, Anchor
  <2>2. HopEdges(back) = {e \in Fresh(IF back THEN Out(Finish.system) ELSE In(Finish.system)) :
                            Matches(Finish, e.parts[2])}
    BY <2>1 DEF HopEdges, Admitted, Fresh, In, Out
  <2> QED
    BY <1>4, <1>6, <2>1, <2>2 DEF OneHopToFinish, OneHop, To, Statement
<1> QED
  BY <1>3, <1>5, <1>6 DEF OneHopStep

\* What such a step does to the results of one document.
Got(back, accepted) == {e \in Rows(accepted, HopEdges(back)) : e.consumer # e.provider}

LEMMA HopResults ==
  ASSUME Types, Anchor \in Systems, NEW back \in BOOLEAN, NEW accepted \in BOOLEAN,
         OneHop(back, accepted), NEW d \in Docs
  PROVE  /\ Got(back, accepted) \in SUBSET Fresh(Graph.edges)
         /\ date'[d] = Later(date[d], Latest(Got(back, accepted), d))
         /\ \E new \in FirstHops(Got(back, accepted), Anchor, back, d) :
              found'[d] = found[d] \cup new
<1>1. Got(back, accepted) \subseteq Fresh(Graph.edges)
  BY DEF HopEdges, Admitted, Rows, Got
<1>2. /\ \E new \in [Docs -> UNION {FirstHops(Got(back, accepted), Anchor, back, c) : c \in Docs}] :
            /\ \A c \in Docs : new[c] \in FirstHops(Got(back, accepted), Anchor, back, c)
            /\ found' = [c \in Docs |-> found[c] \cup new[c]]
      /\ date' = [c \in Docs |-> Later(date[c], Latest(Got(back, accepted), c))]
  BY DEF OneHop, ProcessRows, Got
<1> QED
  BY <1>1, <1>2

-----------------------------------------------------------------------------
\* The paths and rows that an action finds.
LEMMA FoundPaths ==
  ASSUME Types, NEW d \in Docs, FindPaths(d)
  PROVE  \E accepted \in BOOLEAN :
           \E first \in FirstRows(Rows(accepted, PathRows(Interfaces(d), Start.system, Finish.system))) :
             /\ rejected' = (rejected \/ ~accepted)
             /\ first \subseteq PathRows(Interfaces(d), Start.system, Finish.system)
             /\ rows' \in Seq(first) /\ rows' \in Seq(Row)
             /\ \A i, j \in DOMAIN rows' : rows'[i].nodes = rows'[j].nodes => i = j
             /\ \A p \in first : \E i \in DOMAIN rows' : rows'[i] = p
<1> DEFINE all == PathRows(Interfaces(d), Start.system, Finish.system)
<1>0. PICK accepted \in BOOLEAN :
        /\ \E first \in FirstRows(Rows(accepted, all)) : rows' \in SetToSeqs(first)
        /\ rejected' = (rejected \/ ~accepted)
  BY DEF FindPaths, Statement, Accepted
<1>1. PICK first \in FirstRows(Rows(accepted, all)) : rows' \in SetToSeqs(first)
  BY <1>0
<1>2. first \subseteq all /\ \A p, q \in first : p.nodes = q.nodes => p = q
  BY DEF FirstRows, Rows
<1>3. IsFiniteSet(first)
  <2>1. Rows(accepted, all) \in SUBSET all
    BY DEF Rows
  <2> QED
    BY <2>1, FirstRowsFinite
<1>4. /\ rows' \in Seq(first)
      /\ \A i, j \in DOMAIN rows' : rows'[i] = rows'[j] => i = j
      /\ \A p \in first : \E i \in DOMAIN rows' : rows'[i] = p
  BY <1>1, <1>3, OrderOfSet
<1>5. \A i \in DOMAIN rows' : rows'[i] \in first
  BY <1>4, ElementOfSeq, LenProperties
<1>6. first \subseteq Row
  BY <1>2, RowsArePaths
<1>7. rows' \in Seq(Row)
  BY <1>4, <1>6, SeqMonotonic
<1> QED
  BY <1>0, <1>1, <1>2, <1>4, <1>5, <1>7

\* The path in hand, the step it is at, and what an answer adds to it.
LEMMA PathInHand ==
  ASSUME Types, Control, pc = "edges"
  PROVE  /\ Head(rows) \in Row /\ Head(rows) = rows[1] /\ 1 \in DOMAIN rows
         /\ Tail(rows) \in Seq(Row) /\ Len(Tail(rows)) = Len(rows) - 1
         /\ \A i \in DOMAIN Tail(rows) : i + 1 \in DOMAIN rows /\ Tail(rows)[i] = rows[i + 1]
         /\ \A i \in DOMAIN rows : i = 1 \/ (i - 1 \in DOMAIN Tail(rows) /\ Tail(rows)[i - 1] = rows[i])
         /\ Len(combos) \in Nat /\ Len(combos) + 1 \in 1..Len(Head(rows).back)
<1>1. rows \in Seq(Row) /\ rows # <<>> /\ Len(combos) < Len(Head(rows).back)
  BY DEF Types, Control
<1>2. /\ Head(rows) \in Row
      /\ Tail(rows) \in Seq(Row) /\ Len(Tail(rows)) = Len(rows) - 1
      /\ \A i \in 1..Len(Tail(rows)) : Tail(rows)[i] = rows[i + 1]
  BY <1>1, HeadTailProperties
<1>3. DOMAIN Tail(rows) = 1..Len(Tail(rows)) /\ DOMAIN rows = 1..Len(rows) /\ Len(rows) \in Nat \ {0}
  BY <1>1, <1>2, LenProperties, EmptySeq
<1>4. Head(rows) = rows[1]
  BY <1>1
<1>5. Len(combos) \in Nat
  BY LenProperties DEF Types
<1>6. Len(Head(rows).back) \in Nat
  BY <1>2 DEF Row
<1> QED
  BY <1>1, <1>2, <1>3, <1>4, <1>5, <1>6

EdgeAnswer(accepted) ==
  LET i == Len(combos) + 1
  IN IF accepted THEN EdgeParts(Head(rows).nodes[i], Head(rows).nodes[i + 1], Head(rows).back[i])
                 ELSE EmptyCombo

LEMMA EdgeAnswerType ==
  ASSUME Types, NEW accepted \in BOOLEAN
  PROVE  EdgeAnswer(accepted) \in SUBSET (Parts \X Parts)
<1>1. <<NoPart, NoPart>> \in Parts \X Parts
  BY GraphsAssumption
<1>2. \A e \in Fresh(Graph.edges) : e.parts \in Parts \X Parts
  BY GraphType, EdgesOfGraph
<1>3. \A a, b, back : Step(Interfaces(doc), a, b, back) \subseteq Fresh(Graph.edges)
  BY DEF Step, Interfaces
<1>4. \A a, b, back : EdgeParts(a, b, back) \subseteq Parts \X Parts
  BY <1>1, <1>2, <1>3 DEF EdgeParts, EmptyCombo
<1> QED
  BY <1>1, <1>4 DEF EdgeAnswer, EmptyCombo

\* The two outcomes of AskEdge.
Complete(accepted) ==
  [nodes |-> Head(rows).nodes, back |-> Head(rows).back,
   combos |-> Append(combos, EdgeAnswer(accepted))]

MoreEdges(accepted) ==
  /\ Len(combos) + 1 < Len(Head(rows).back)
  /\ combos' = Append(combos, EdgeAnswer(accepted))
  /\ UNCHANGED <<pc, rows, resultVars>>

LastEdge(accepted) ==
  /\ Len(combos) + 1 = Len(Head(rows).back)
  /\ found' = [found EXCEPT ![doc] = @ \cup {Complete(accepted)}]
  /\ date' = [date EXCEPT ![doc] = Later(outDate[doc], inDate[doc])]
  /\ combos' = <<>>
  /\ rows' = Tail(rows)
  /\ pc' = IF Tail(rows) = <<>> THEN "paths" ELSE "edges"

LEMMA AskEdgeOutcomes ==
  ASSUME Types, Control, AskEdge
  PROVE  /\ pc = "edges"
         /\ UNCHANGED <<givenVars, docVars, todo, doc>>
         /\ \E accepted \in BOOLEAN :
              /\ rejected' = (rejected \/ ~accepted)
              /\ EdgeAnswer(accepted) \in SUBSET (Parts \X Parts)
              /\ MoreEdges(accepted) \/ LastEdge(accepted)
<1>1. pc = "edges" /\ UNCHANGED <<givenVars, docVars, todo, doc>>
  BY DEF AskEdge
<1>2. Len(combos) + 1 \in 1..Len(Head(rows).back) /\ Len(Head(rows).back) \in Nat
  BY <1>1, PathInHand DEF Row
<1>3. PICK accepted \in BOOLEAN :
        /\ rejected' = (rejected \/ ~accepted)
        /\ IF Len(combos) + 1 < Len(Head(rows).back)
            THEN /\ combos' = Append(combos, EdgeAnswer(accepted))
                 /\ UNCHANGED <<pc, rows, resultVars>>
            ELSE /\ Keep(Complete(accepted))
                 /\ combos' = <<>>
                 /\ rows' = Tail(rows)
                 /\ pc' = IF Tail(rows) = <<>> THEN "paths" ELSE "edges"
  BY DEF AskEdge, Accepted, Statement, EdgeAnswer, Complete
<1>4. EdgeAnswer(accepted) \in SUBSET (Parts \X Parts)
  BY EdgeAnswerType
<1> QED
  BY <1>1, <1>2, <1>3, <1>4 DEF MoreEdges, LastEdge, Keep

LEMMA EmptyRows == <<>> \in Seq(Row) /\ <<>> \in Seq(SUBSET (Parts \X Parts))
OBVIOUS

LEMMA EveryRowHasSteps ==
  ASSUME NEW seq \in Seq(Row), seq # <<>>
  PROVE  Len(<<>>) < Len(Head(seq).back)
<1>1. Head(seq) \in Row
  BY HeadTailProperties
<1>2. Len(<<>>) = 0
  OBVIOUS
<1> QED
  BY <1>1, <1>2 DEF Row

LEMMA AttemptsBounded ==
  ASSUME NEW a \in 1..DB_RETRY_COUNT + 1, NEW b,
         (a <= DB_RETRY_COUNT /\ b = a + 1) \/ b = a
  PROVE  b \in 1..DB_RETRY_COUNT + 1
BY SearchAssumption

LEMMA GraphAdded ==
  ASSUME NEW seq \in Seq(Graphs), seq # <<>>, NEW g \in Graphs
  PROVE  /\ Append(seq, g) \in Seq(Graphs) /\ Append(seq, g) # <<>>
         /\ Len(Append(seq, g)) > 1
         /\ DOMAIN seq \subseteq DOMAIN Append(seq, g)
         /\ \A k \in DOMAIN seq : Append(seq, g)[k] = seq[k]
<1>1. Len(seq) \in Nat \ {0} /\ DOMAIN seq = 1..Len(seq)
  BY EmptySeq, LenProperties
<1>2. /\ Append(seq, g) \in Seq(Graphs)
      /\ Len(Append(seq, g)) = Len(seq) + 1
      /\ \A k \in 1..Len(seq) : Append(seq, g)[k] = seq[k]
  BY AppendProperties
<1>3. DOMAIN Append(seq, g) = 1..Len(seq) + 1
  BY <1>2, LenProperties
<1>4. Append(seq, g) # <<>>
  BY <1>1, <1>2, EmptySeq
<1> QED
  BY <1>1, <1>2, <1>3, <1>4

LEMMA TypesInitially == SearchInit => Types
<1> SUFFICES ASSUME SearchInit PROVE Types
  OBVIOUS
<1>1. db \in Seq(Graphs) /\ db # <<>>
  <2>1. PICK g \in Graphs : db = <<g>>
    BY DEF SearchInit, GraphInit
  <2> QED
    BY <2>1
<1>2. \E f \in Filters : request = [start |-> f[1], finish |-> f[2]]
  BY DEF SearchInit
<1>3. rows \in Seq(Row) /\ combos \in Seq(SUBSET (Parts \X Parts))
  BY DEF SearchInit
<1>4. attempt \in 1..DB_RETRY_COUNT + 1
  BY SearchAssumption DEF SearchInit
<1> QED
  BY <1>1, <1>2, <1>3, <1>4 DEF SearchInit, Types, Nothing, NoDates

LEMMA HopTypes ==
  ASSUME Types, Anchor \in Systems, NEW back \in BOOLEAN, NEW accepted \in BOOLEAN,
         OneHop(back, accepted), NEW d \in Docs
  PROVE  found'[d] \in SUBSET Path /\ date'[d] \in Nat
<1> DEFINE got == Got(back, accepted)
<1>1. /\ got \in SUBSET Fresh(Graph.edges)
      /\ date'[d] = Later(date[d], Latest(got, d))
      /\ \E new \in FirstHops(got, Anchor, back, d) : found'[d] = found[d] \cup new
  BY HopResults
<1>2. PICK new \in FirstHops(got, Anchor, back, d) : found'[d] = found[d] \cup new
  BY <1>1
<1>3. \A p \in new : \E e \in got : p = HopPath(e, Anchor, back)
  <2>1. FirstOfEach(new, got, Anchor, back, d)
    BY <1>2, HopsOfDocument
  <2> QED
    BY <2>1 DEF FirstOfEach
<1>4. \A e \in Fresh(Graph.edges) : HopPath(e, Anchor, back) \in Path
  BY HopType
<1>5. new \subseteq Path
  BY <1>1, <1>3, <1>4
<1>6. Latest(got, d) \in Nat
  BY <1>1, LatestHere
<1>7. found[d] \subseteq Path /\ date[d] \in Nat
  BY DEF Types
<1> QED
  BY <1>1, <1>2, <1>5, <1>6, <1>7 DEF Later

LEMMA TypesKept ==
  ASSUME Types, Control, [SearchNext]_searchVars
  PROVE  Types'
<1> USE DEF Types
<1>1. CASE Dispatch
  BY <1>1 DEF Dispatch, To, givenVars, localVars, docVars, pathVars, resultVars
<1>2. CASE UseSpace
  BY <1>2 DEF UseSpace, To, Accepted, Statement, givenVars, docVars, pathVars, resultVars
<1>3. CASE FetchStart
  BY <1>3 DEF FetchStart, To, Accepted, Statement, givenVars, docVars, pathVars, resultVars
<1>4. CASE StartEdges
  <2>1. PICK accepted \in BOOLEAN :
          LET edges == {e \in Fresh(Incident(Start.system)) : Matches(Start, e.parts[1])}
          IN /\ rejected' = (rejected \/ ~accepted)
             /\ outDate' = [d \in Docs |-> Latest(Rows(accepted, edges), d)]
    BY <1>4 DEF StartEdges, Accepted, Statement
  <2>2. outDate' \in [Docs -> Nat]
    <3> DEFINE edges == {e \in Fresh(Incident(Start.system)) : Matches(Start, e.parts[1])}
    <3>1. Rows(accepted, edges) \in SUBSET Fresh(Graph.edges)
      <4>1. edges \subseteq Fresh(Graph.edges)
        BY StatementEdges
      <4> QED
        BY <4>1 DEF Rows
    <3>2. \A d \in Docs : Latest(Rows(accepted, edges), d) \in Nat
      BY <3>1, LatestHere
    <3> QED
      BY <2>1, <3>2
  <2>3. pc' = "finishes" /\ UNCHANGED <<givenVars, inDate, todo, pathVars, resultVars>>
    BY <1>4 DEF StartEdges, To
  <2> QED
    BY <2>1, <2>2, <2>3 DEF givenVars, pathVars, resultVars
<1>5. CASE FinishEdges
  <2>1. PICK accepted \in BOOLEAN :
          /\ rejected' = (rejected \/ ~accepted)
          /\ inDate' = [d \in Docs |-> Latest(Rows(accepted, Fresh(Incident(Finish.system))), d)]
    BY <1>5 DEF FinishEdges, Accepted, Statement
  <2>2. inDate' \in [Docs -> Nat]
    <3>1. Rows(accepted, Fresh(Incident(Finish.system))) \in SUBSET Fresh(Graph.edges)
      <4>1. Fresh(Incident(Finish.system)) \subseteq Fresh(Graph.edges)
        BY StatementEdges
      <4> QED
        BY <4>1 DEF Rows
    <3>2. \A d \in Docs : Latest(Rows(accepted, Fresh(Incident(Finish.system))), d) \in Nat
      BY <3>1, LatestHere
    <3> QED
      BY <2>1, <3>2
  <2>3. /\ pc' = "paths" /\ todo' \in SUBSET Docs
        /\ UNCHANGED <<givenVars, outDate, pathVars, resultVars>>
    BY <1>5 DEF FinishEdges, To
  <2> QED
    BY <2>1, <2>2, <2>3 DEF givenVars, pathVars, resultVars
<1>6. ASSUME NEW d \in Docs, FindPaths(d) PROVE Types'
  <2>1. rows' \in Seq(Row) /\ rejected' \in BOOLEAN
    BY <1>6, FoundPaths
  <2>2. /\ pc' \in {"paths", "edges"} /\ todo' = todo \ {d} /\ doc' = d
        /\ UNCHANGED <<givenVars, docVars, combos, resultVars>>
    BY <1>6 DEF FindPaths, To
  <2> QED
    BY <2>1, <2>2 DEF givenVars, docVars, resultVars
<1>7. CASE AskEdge
  <2>1. PICK accepted \in BOOLEAN :
          /\ rejected' = (rejected \/ ~accepted)
          /\ EdgeAnswer(accepted) \in SUBSET (Parts \X Parts)
          /\ MoreEdges(accepted) \/ LastEdge(accepted)
    BY <1>7, AskEdgeOutcomes
  <2>2. pc = "edges" /\ UNCHANGED <<givenVars, docVars, todo, doc>>
    BY <1>7, AskEdgeOutcomes
  <2>3. Append(combos, EdgeAnswer(accepted)) \in Seq(SUBSET (Parts \X Parts))
    BY <2>1, AppendProperties
  <2>4. Tail(rows) \in Seq(Row) /\ Complete(accepted) \in Path
    BY <2>2, <2>3, PathInHand DEF Complete, Path, Row
  <2>5. CASE MoreEdges(accepted)
    BY <2>1, <2>2, <2>3, <2>5 DEF MoreEdges, givenVars, docVars, resultVars
  <2>6. CASE LastEdge(accepted)
    <3>1. found' \in [Docs -> SUBSET Path]
      BY <2>4, <2>6 DEF LastEdge
    <3>2. date' \in [Docs -> Nat]
      BY <2>6 DEF LastEdge, Later
    <3>3. combos' \in Seq(SUBSET (Parts \X Parts))
      <4>1. combos' = <<>>
        BY <2>6 DEF LastEdge
      <4> QED
        BY <4>1, EmptyRows
    <3>4. rows' \in Seq(Row) /\ pc' \in {"paths", "edges"}
      BY <2>4, <2>6 DEF LastEdge
    <3> QED
      BY <2>1, <2>2, <3>1, <3>2, <3>3, <3>4 DEF givenVars, docVars
  <2> QED
    BY <2>1, <2>5, <2>6
<1>8. CASE AllLooked
  BY <1>8 DEF AllLooked, To, givenVars, localVars, docVars, pathVars, resultVars
<1>9. CASE OneHopStep
  <2>1. Anchor \in Systems
    BY <1>9, OneHopShared
  <2>2. PICK back \in BOOLEAN, accepted \in BOOLEAN : OneHop(back, accepted)
    BY <1>9, OneHopShared
  <2>3. /\ pc' \in {"done", "reverse"} /\ rejected' \in BOOLEAN
        /\ UNCHANGED <<givenVars, docVars, todo, pathVars>>
    BY <2>2 DEF OneHop
  <2>4. ASSUME NEW d \in Docs PROVE found'[d] \in SUBSET Path /\ date'[d] \in Nat
    BY <2>1, <2>2, HopTypes
  <2>5. found' = [d \in Docs |-> found'[d]] /\ date' = [d \in Docs |-> date'[d]]
    BY <2>2 DEF OneHop, ProcessRows
  <2>6. found' \in [Docs -> SUBSET Path] /\ date' \in [Docs -> Nat]
    BY <2>4, <2>5
  <2> QED
    BY <2>3, <2>6 DEF givenVars, docVars, pathVars
<1>10. CASE ConnectionLost
  <2>0. /\ rows' = <<>> /\ combos' = <<>> /\ found' = Nothing
        /\ outDate' = NoDates /\ inDate' = NoDates /\ date' = NoDates
        /\ todo' = {} /\ doc' = NoDoc /\ rejected' = FALSE
    BY <1>10 DEF ConnectionLost, Forget
  <2>1. /\ rows' \in Seq(Row) /\ combos' \in Seq(SUBSET (Parts \X Parts))
        /\ outDate' \in [Docs -> Nat] /\ inDate' \in [Docs -> Nat] /\ date' \in [Docs -> Nat]
        /\ found' \in [Docs -> SUBSET Path] /\ todo' = {} /\ doc' = NoDoc /\ rejected' = FALSE
    <3>1. NoDates \in [Docs -> Nat] /\ Nothing \in [Docs -> SUBSET Path]
      BY DEF NoDates, Nothing
    <3> QED
      BY <2>0, <3>1, EmptyRows
  <2>2. attempt' \in 1..DB_RETRY_COUNT + 1
    <3>1. (attempt <= DB_RETRY_COUNT /\ attempt' = attempt + 1) \/ attempt' = attempt
      BY <1>10 DEF ConnectionLost
    <3> QED
      BY <3>1, AttemptsBounded
  <2>4. pc' \in {"use", "gave up", "failed"}
    BY <1>10 DEF ConnectionLost
  <2>3. UNCHANGED <<db, request>>
    BY <1>10 DEF ConnectionLost
  <2> QED
    BY <2>1, <2>2, <2>3, <2>4
<1>11. CASE GraphChanges /\ UNCHANGED <<request, attempt, pc, localVars>>
  <2>1. db' \in Seq(Graphs) /\ db' # <<>>
    <3>1. PICK g \in Graphs : db' = Append(db, g)
      BY <1>11 DEF GraphChanges
    <3> QED
      BY <3>1, GraphAdded
  <2> QED
    BY <1>11, <2>1 DEF localVars, docVars, pathVars, resultVars
<1>12. CASE UNCHANGED searchVars
  BY <1>12 DEF searchVars, givenVars, localVars, docVars, pathVars, resultVars
<1> QED
  BY <1>1, <1>2, <1>3, <1>4, <1>5, <1>6, <1>7, <1>8, <1>9, <1>10, <1>11, <1>12
     DEF SearchNext, OneHopStep

-----------------------------------------------------------------------------
LEMMA ControlInitially == SearchInit => Control
BY DEF SearchInit, Control, Untouched, Nothing, NoDates

LEMMA SameRequest ==
  ASSUME UNCHANGED request
  PROVE  Start' = Start /\ Finish' = Finish /\ Between' = Between /\ Anchor' = Anchor
BY DEF Start, Finish, Between, Anchor

LEMMA RequestKept ==
  ASSUME [SearchNext]_searchVars
  PROVE  UNCHANGED request
BY DEF SearchNext, searchVars, givenVars, Dispatch, UseSpace, FetchStart, StartEdges, FinishEdges,
       FindPaths, AskEdge, AllLooked, OneHopFromStart, OneHopToFinish, ConnectionLost

\* The actions that bring no path.
Quiet ==
  \/ Dispatch
  \/ UseSpace
  \/ FetchStart
  \/ StartEdges
  \/ FinishEdges
  \/ AllLooked
  \/ GraphChanges /\ UNCHANGED <<request, attempt, pc, localVars>>
  \/ UNCHANGED searchVars

LEMMA QuietKeeps ==
  ASSUME Quiet
  PROVE  UNCHANGED <<request, rows, combos, doc, found, date>>
BY DEF Quiet, searchVars, givenVars, localVars, docVars, pathVars, resultVars,
       Dispatch, UseSpace, FetchStart, StartEdges, FinishEdges, AllLooked

LEMMA ControlKept ==
  ASSUME Types, Control, [SearchNext]_searchVars
  PROVE  Control'
<1>0. /\ UNCHANGED request
      /\ Start' = Start /\ Finish' = Finish /\ Between' = Between
  BY RequestKept, SameRequest
<1> DEFINE rest == UNCHANGED <<outDate, inDate, todo, doc, rows, combos, found, date>>
<1>1. CASE Dispatch
  <2>1. rest /\ pc = "call" /\ pc' = IF Start.system = NoSystem /\ Finish.system = NoSystem
                                       THEN "done" ELSE "use"
    BY <1>1 DEF Dispatch, To, localVars, docVars, pathVars, resultVars
  <2> QED
    BY <1>0, <2>1 DEF Control, Untouched
<1>2. CASE UseSpace
  <2>1. rest /\ pc = "use" /\ pc' \in {"done", IF Between THEN "system" ELSE "forward"}
    BY <1>2 DEF UseSpace, To, docVars, pathVars, resultVars
  <2> QED
    BY <1>0, <2>1 DEF Control, Untouched, Between
<1>3. CASE FetchStart
  <2>1. rest /\ pc = "system" /\ pc' \in {"done", "starts"}
    BY <1>3 DEF FetchStart, To, docVars, pathVars, resultVars
  <2> QED
    BY <1>0, <2>1 DEF Control, Untouched, Between
<1>4. CASE StartEdges
  <2>1. /\ UNCHANGED <<inDate, todo, doc, rows, combos, found, date>>
        /\ pc = "starts" /\ pc' = "finishes"
    BY <1>4 DEF StartEdges, To, pathVars, resultVars
  <2>2. todo = {}
    BY <2>1 DEF Control
  <2> QED
    BY <1>0, <2>1, <2>2 DEF Control, Untouched, Between
<1>5. CASE FinishEdges
  <2>1. /\ UNCHANGED <<outDate, doc, rows, combos, found, date>>
        /\ pc = "finishes" /\ pc' = "paths"
        /\ todo' = {d \in Docs : outDate[d] > 0 /\ inDate'[d] > 0}
    BY <1>5 DEF FinishEdges, To, pathVars, resultVars
  <2>2. Untouched
    BY <2>1 DEF Control
  <2>3. \A d \in todo' : found'[d] = {} /\ date'[d] = 0 /\ outDate'[d] > 0 /\ inDate'[d] > 0
    BY <2>1, <2>2 DEF Untouched, Nothing, NoDates
  <2> QED
    BY <1>0, <2>1, <2>3 DEF Control, Untouched, Between
<1>6. ASSUME NEW d \in Docs, FindPaths(d) PROVE Control'
  <2>1. /\ UNCHANGED <<outDate, inDate, combos, found, date>>
        /\ pc = "paths" /\ pc' = IF rows' = <<>> THEN "paths" ELSE "edges"
        /\ d \in todo /\ todo' = todo \ {d} /\ doc' = d
    BY <1>6 DEF FindPaths, To, docVars, resultVars
  <2>2. rows' \in Seq(Row) /\ combos = <<>>
    BY <1>6, <2>1, FoundPaths DEF Control
  <2>3. ASSUME pc' = "edges" PROVE Len(combos') < Len(Head(rows').back)
    <3>1. rows' # <<>>
      BY <2>1, <2>3
    <3>2. Len(<<>>) < Len(Head(rows').back)
      BY <2>2, <3>1, EveryRowHasSteps
    <3> QED
      BY <2>1, <2>2, <3>2
  <2>4. outDate[d] > 0 /\ inDate[d] > 0
    BY <2>1 DEF Control
  <2> QED
    BY <1>0, <2>1, <2>2, <2>3, <2>4 DEF Control, Untouched, Between
<1>7. CASE AskEdge
  <2>1. pc = "edges" /\ UNCHANGED <<outDate, inDate, todo, doc>>
    BY <1>7, AskEdgeOutcomes DEF docVars
  <2>2. PICK accepted \in BOOLEAN :
          /\ EdgeAnswer(accepted) \in SUBSET (Parts \X Parts)
          /\ MoreEdges(accepted) \/ LastEdge(accepted)
    BY <1>7, AskEdgeOutcomes
  <2>3. rows # <<>> /\ Between /\ doc \in Docs \ todo /\ outDate[doc] > 0 /\ inDate[doc] > 0
    BY <2>1 DEF Control
  <2>4. CASE MoreEdges(accepted)
    <3>1. Len(combos') = Len(combos) + 1
      <4>1. combos \in Seq(SUBSET (Parts \X Parts))
        BY DEF Types
      <4> QED
        BY <2>2, <2>4, <4>1, AppendProperties DEF MoreEdges
    <3>2. UNCHANGED <<pc, rows, found, date>> /\ Len(combos) + 1 < Len(Head(rows).back)
      BY <2>4 DEF MoreEdges, resultVars
    <3> QED
      BY <1>0, <2>1, <3>1, <3>2 DEF Control, Untouched
  <2>5. CASE LastEdge(accepted)
    <3>1. /\ combos' = <<>> /\ rows' = Tail(rows)
          /\ pc' = IF Tail(rows) = <<>> THEN "paths" ELSE "edges"
          /\ \A d \in Docs \ {doc} : found'[d] = found[d] /\ date'[d] = date[d]
      <4>1. /\ combos' = <<>> /\ rows' = Tail(rows)
            /\ pc' = IF Tail(rows) = <<>> THEN "paths" ELSE "edges"
            /\ found' = [found EXCEPT ![doc] = @ \cup {Complete(accepted)}]
            /\ date' = [date EXCEPT ![doc] = Later(outDate[doc], inDate[doc])]
        BY <2>5 DEF LastEdge
      <4>2. found \in [Docs -> SUBSET Path] /\ date \in [Docs -> Nat]
        BY DEF Types
      <4> QED
        BY <4>1, <4>2
    <3>2. ASSUME Tail(rows) # <<>> PROVE Len(combos') < Len(Head(rows').back)
      <4>1. Tail(rows) \in Seq(Row)
        BY <2>1, PathInHand
      <4>2. Len(<<>>) < Len(Head(Tail(rows)).back)
        BY <3>2, <4>1, EveryRowHasSteps
      <4> QED
        BY <3>1, <4>2
    <3>3. \A d \in todo : d \in Docs \ {doc}
      BY <2>3 DEF Types
    <3>4. Start.system # NoSystem /\ Finish.system # NoSystem
      BY <2>3 DEF Between
    <3> QED
      BY <1>0, <2>1, <2>3, <3>1, <3>2, <3>3, <3>4 DEF Control
  <2> QED
    BY <2>2, <2>4, <2>5
<1>8. CASE AllLooked
  <2>1. rest /\ pc = "paths" /\ pc' = "done" /\ todo = {}
    BY <1>8 DEF AllLooked, To, localVars, docVars, pathVars, resultVars
  <2> QED
    BY <1>0, <2>1 DEF Control, Untouched, Between
<1>9. CASE OneHopStep
  <2>1. \E back, accepted \in BOOLEAN : OneHop(back, accepted)
    BY <1>9, OneHopShared
  <2>2. /\ pc \in {"forward", "reverse"} /\ pc' \in {"reverse", "done"}
        /\ UNCHANGED <<outDate, inDate, todo, doc, rows, combos>>
    BY <2>1 DEF OneHop, docVars, pathVars
  <2>3. /\ (Start.system = NoSystem) # (Finish.system = NoSystem)
        /\ rows = <<>> /\ combos = <<>>
    BY <2>2 DEF Control
  <2>4. todo = {}
    BY <2>2 DEF Control
  <2> QED
    BY <1>0, <2>2, <2>3, <2>4 DEF Control
<1>10. CASE ConnectionLost
  <2>1. /\ rows' = <<>> /\ combos' = <<>> /\ found' = Nothing /\ date' = NoDates /\ todo' = {}
        /\ pc' \in {"use", "gave up", "failed"} /\ pc \notin {"call", "done"}
    BY <1>10 DEF ConnectionLost, Forget
  <2> QED
    BY <1>0, <2>1 DEF Control, Untouched
<1>11. CASE GraphChanges /\ UNCHANGED <<request, attempt, pc, localVars>>
  BY <1>0, <1>11 DEF Control, Untouched, localVars, docVars, pathVars, resultVars
<1>12. CASE UNCHANGED searchVars
  BY <1>0, <1>12 DEF Control, Untouched, searchVars, localVars, docVars, pathVars, resultVars
<1> QED
  BY <1>1, <1>2, <1>3, <1>4, <1>5, <1>6, <1>7, <1>8, <1>9, <1>10, <1>11, <1>12
     DEF SearchNext, OneHopStep

-----------------------------------------------------------------------------
(***************************************************************************)
(* What the paths look like, those in the results and those in hand.       *)
(***************************************************************************)
Joins(p) == p.nodes[1] = Start.system /\ p.nodes[Len(p.nodes)] = Finish.system

IsHop(p) ==
  /\ Len(p.back) = 1
  /\ IF Start.system # NoSystem THEN p.nodes[1] = Start.system /\ p.nodes[2] # Start.system
                                ELSE p.nodes[2] = Finish.system /\ p.nodes[1] # Finish.system

Complied(p) ==
  /\ Len(p.back) \in Nat \ {0}
  /\ Len(p.nodes) = Len(p.back) + 1
  /\ Len(p.combos) = Len(p.back)
  /\ IF Between THEN Joins(p) ELSE IsHop(p)

Shape ==
  /\ \A d \in Docs : found[d] # {} <=> date[d] > 0
  /\ \A d \in Docs : \A p \in found[d] : Complied(p)
  /\ \A d \in Docs : \A p, q \in found[d] : p.nodes = q.nodes => p = q
  /\ \A i \in DOMAIN rows : Joins(rows[i])
  /\ \A i, j \in DOMAIN rows : rows[i].nodes = rows[j].nodes => i = j
  /\ pc = "edges" => \A i \in DOMAIN rows : \A p \in found[doc] : p.nodes # rows[i].nodes

LEMMA ShapeInitially == SearchInit => Shape
<1> SUFFICES ASSUME SearchInit PROVE Shape
  OBVIOUS
<1>1. rows = <<>> /\ found = [d \in Docs |-> {}] /\ date = [d \in Docs |-> 0] /\ pc = "call"
  BY DEF SearchInit, Nothing, NoDates
<1>2. DOMAIN rows = {}
  BY <1>1
<1> QED
  BY <1>1, <1>2 DEF Shape

LEMMA SameShape ==
  ASSUME UNCHANGED request
  PROVE  \A p : Joins(p)' = Joins(p) /\ Complied(p)' = Complied(p)
BY SameRequest DEF Joins, Complied, IsHop

\* A neighbour is not the system itself.
LEMMA HopShape ==
  ASSUME Types, Anchor \in Systems, ~Between, NEW back \in BOOLEAN, NEW accepted \in BOOLEAN,
         NEW e \in Got(back, accepted)
  PROVE  /\ e.consumer = Anchor \/ e.provider = Anchor
         /\ e.consumer # e.provider
         /\ Neighbour(e, Anchor) # Anchor
         /\ Complied(HopPath(e, Anchor, back))
         /\ HopPath(e, Anchor, back).nodes =
              IF Start.system # NoSystem THEN <<Anchor, Neighbour(e, Anchor)>>
                                         ELSE <<Neighbour(e, Anchor), Anchor>>
<1>1. /\ e.consumer = Anchor \/ e.provider = Anchor
      /\ e.consumer # e.provider
      /\ e \in Fresh(Graph.edges)
  BY DEF Got, HopEdges, Admitted, Rows
<1>2. Neighbour(e, Anchor) # Anchor
  BY <1>1 DEF Neighbour
<1>3. (Anchor = Start.system) = (Start.system # NoSystem)
  BY FiltersAssumption DEF Anchor
<1>4. /\ HopPath(e, Anchor, back).back = <<back>>
      /\ HopPath(e, Anchor, back).combos = <<{e.parts}>>
      /\ HopPath(e, Anchor, back).nodes = IF Start.system # NoSystem
           THEN <<Anchor, Neighbour(e, Anchor)>> ELSE <<Neighbour(e, Anchor), Anchor>>
  BY <1>1, <1>3, HopType
<1>5. Start.system = NoSystem => Anchor = Finish.system
  BY DEF Anchor
<1>6. IsHop(HopPath(e, Anchor, back))
  BY <1>2, <1>3, <1>4, <1>5 DEF IsHop
<1> QED
  BY <1>1, <1>2, <1>4, <1>6 DEF Complied

\* The neighbours of a document that a step adds are not among those it had.
LEMMA HopsAreNew ==
  ASSUME Types, Control, Shape, Anchor \in Systems, ~Between,
         NEW back \in BOOLEAN, NEW accepted \in BOOLEAN, OneHop(back, accepted), NEW d \in Docs
  PROVE  /\ found'[d] # {} <=> date'[d] > 0
         /\ \A p \in found'[d] : Complied(p)
         /\ \A p, q \in found'[d] : p.nodes = q.nodes => p = q
<1> DEFINE got == Got(back, accepted)
<1>1. /\ got \in SUBSET Fresh(Graph.edges)
      /\ date'[d] = Later(date[d], Latest(got, d))
      /\ \E new \in FirstHops(got, Anchor, back, d) : found'[d] = found[d] \cup new
  BY HopResults
<1>2. PICK new \in FirstHops(got, Anchor, back, d) : found'[d] = found[d] \cup new
  BY <1>1
<1>3. FirstOfEach(new, got, Anchor, back, d)
  BY <1>2, HopsOfDocument
<1>4. \A e \in got :
        /\ Neighbour(e, Anchor) # Anchor
        /\ Complied(HopPath(e, Anchor, back))
        /\ HopPath(e, Anchor, back).nodes =
              IF Start.system # NoSystem THEN <<Anchor, Neighbour(e, Anchor)>>
                                         ELSE <<Neighbour(e, Anchor), Anchor>>
  BY HopShape
<1> HIDE DEF got
<1>5. \A p \in new : Complied(p)
  BY <1>3, <1>4 DEF FirstOfEach
<1>6. ASSUME NEW p \in found[d], NEW q \in new PROVE p.nodes # q.nodes
  <2>1. PICK e \in got : /\ q = HopPath(e, Anchor, back)
                         /\ Neighbour(e, Anchor) \in NewNeighbours(got, Anchor, d)
    BY <1>3 DEF FirstOfEach
  <2>2. Neighbour(e, Anchor) \in {q.nodes[1], q.nodes[2]}
    <3>1. q.nodes = <<Anchor, Neighbour(e, Anchor)>> \/ q.nodes = <<Neighbour(e, Anchor), Anchor>>
      BY <1>4, <2>1
    <3> QED
      BY <3>1
  <2>3. {p.nodes[1], p.nodes[2]} \in {{r.nodes[1], r.nodes[2]} : r \in found[d]}
    OBVIOUS
  <2>4. Neighbour(e, Anchor) \notin {p.nodes[1], p.nodes[2]}
    BY <2>1, <2>3 DEF NewNeighbours
  <2> QED
    BY <2>2, <2>4
<1>7. \A p, q \in new : p.nodes = q.nodes => p = q
  BY <1>3 DEF FirstOfEach
<1>8. \A p, q \in found'[d] : p.nodes = q.nodes => p = q
  BY <1>2, <1>6, <1>7 DEF Shape
<1>9. /\ Latest(got, d) \in Nat /\ date[d] \in Nat
      /\ Latest(got, d) > 0 <=> \E e \in got : e.doc = d
  BY <1>1, LatestHere DEF Types
<1>10. found[d] # {} <=> date[d] > 0
  BY DEF Shape
<1>11. date'[d] > 0 <=> date[d] > 0 \/ Latest(got, d) > 0
  BY <1>1, <1>9 DEF Later
<1>12. ASSUME NEW e \in got, e.doc = d PROVE found'[d] # {}
  <2>1. CASE Neighbour(e, Anchor) \in NewNeighbours(got, Anchor, d)
    BY <1>2, <1>3, <2>1 DEF FirstOfEach
  <2>2. CASE Neighbour(e, Anchor) \notin NewNeighbours(got, Anchor, d)
    <3>1. Neighbour(e, Anchor) \in {Neighbour(x, Anchor) : x \in {y \in got : y.doc = d}}
      BY <1>12
    <3>2. Neighbour(e, Anchor) \in UNION {{r.nodes[1], r.nodes[2]} : r \in found[d]}
      BY <2>2, <3>1 DEF NewNeighbours
    <3> QED
      BY <1>2, <3>2
  <2> QED
    BY <2>1, <2>2
<1>13. new # {} => \E e \in got : e.doc = d
  BY <1>3 DEF FirstOfEach
<1>14. found'[d] # {} <=> date'[d] > 0
  BY <1>2, <1>9, <1>10, <1>11, <1>12, <1>13
<1>15. \A p \in found'[d] : Complied(p)
  BY <1>2, <1>5 DEF Shape
<1> QED
  BY <1>8, <1>14, <1>15

LEMMA ShapeKept ==
  ASSUME Types, Control, Shape, [SearchNext]_searchVars
  PROVE  Shape'
<1>0. /\ UNCHANGED request
      /\ \A p : Joins(p)' = Joins(p) /\ Complied(p)' = Complied(p)
  BY RequestKept, SameShape
<1>1. CASE Quiet
  <2>1. UNCHANGED <<rows, doc, found, date>> /\ (pc' = "edges" => rows' # <<>>)
    BY <1>1, QuietKeeps, ControlKept DEF Control
  <2>2. pc' = "edges" => pc = "edges"
    BY <2>1 DEF Control
  <2> QED
    BY <1>0, <2>1, <2>2 DEF Shape
<1>2. ASSUME NEW d \in Docs, FindPaths(d) PROVE Shape'
  <2>1. /\ UNCHANGED <<found, date>> /\ d \in todo /\ doc' = d
    BY <1>2 DEF FindPaths, resultVars
  <2>2. PICK first \in SUBSET PathRows(Interfaces(d), Start.system, Finish.system) :
          /\ rows' \in Seq(first)
          /\ \A i, j \in DOMAIN rows' : rows'[i].nodes = rows'[j].nodes => i = j
    BY <1>2, FoundPaths
  <2>3. \A i \in DOMAIN rows' : rows'[i] \in first
    BY <2>2, ElementOfSeq, LenProperties
  <2>4. \A i \in DOMAIN rows' : Joins(rows'[i])
    BY <2>3, RowsArePaths DEF Joins
  <2>5. found[d] = {}
    BY <2>1 DEF Control
  <2> QED
    BY <1>0, <2>1, <2>2, <2>4, <2>5 DEF Shape
<1>3. CASE AskEdge
  <2>1. pc = "edges" /\ UNCHANGED <<outDate, inDate, todo, doc>>
    BY <1>3, AskEdgeOutcomes DEF docVars
  <2>2. PICK accepted \in BOOLEAN :
          /\ EdgeAnswer(accepted) \in SUBSET (Parts \X Parts)
          /\ MoreEdges(accepted) \/ LastEdge(accepted)
    BY <1>3, AskEdgeOutcomes
  <2>3. Between /\ doc \in Docs /\ outDate[doc] > 0 /\ inDate[doc] > 0
    BY <2>1 DEF Control
  <2>4. CASE MoreEdges(accepted)
    <3>1. UNCHANGED <<pc, rows, found, date>>
      BY <2>4 DEF MoreEdges, resultVars
    <3> QED
      BY <1>0, <2>1, <3>1 DEF Shape
  <2>5. CASE LastEdge(accepted)
    <3> DEFINE path == Complete(accepted)
    <3>1. /\ found' = [found EXCEPT ![doc] = @ \cup {path}]
          /\ date' = [date EXCEPT ![doc] = Later(outDate[doc], inDate[doc])]
          /\ rows' = Tail(rows)
          /\ Len(combos) + 1 = Len(Head(rows).back)
      BY <2>5 DEF LastEdge
    <3>2. /\ Head(rows) \in Row /\ Head(rows) = rows[1] /\ 1 \in DOMAIN rows
          /\ \A i \in DOMAIN Tail(rows) : i + 1 \in DOMAIN rows /\ Tail(rows)[i] = rows[i + 1]
      BY <2>1, PathInHand
    <3>3. path.nodes = rows[1].nodes /\ path.back = rows[1].back
      BY <3>2 DEF Complete
    <3>4. Len(path.combos) = Len(combos) + 1
      <4>1. combos \in Seq(SUBSET (Parts \X Parts))
        BY DEF Types
      <4> QED
        BY <2>2, <4>1, AppendProperties DEF Complete
    <3>5. Complied(path)
      <4>1. Joins(path)
        BY <3>2, <3>3 DEF Shape, Joins
      <4>2. Len(rows[1].back) \in Nat \ {0} /\ Len(rows[1].nodes) = Len(rows[1].back) + 1
        BY <3>2 DEF Row
      <4> QED
        BY <2>3, <3>1, <3>2, <3>3, <3>4, <4>1, <4>2 DEF Complied
    <3>6. found \in [Docs -> SUBSET Path] /\ date \in [Docs -> Nat]
          /\ outDate[doc] \in Nat /\ inDate[doc] \in Nat
      BY <2>3 DEF Types
    <3>7. /\ found'[doc] = found[doc] \cup {path} /\ date'[doc] > 0
          /\ \A d \in Docs \ {doc} : found'[d] = found[d] /\ date'[d] = date[d]
      BY <2>3, <3>1, <3>6 DEF Later
    <3>8. \A p \in found[doc] : p.nodes # path.nodes
      BY <2>1, <3>2, <3>3 DEF Shape
    <3> HIDE DEF path
    <3>9. \A d \in Docs : found'[d] # {} <=> date'[d] > 0
      BY <3>7 DEF Shape
    <3>10. \A d \in Docs : \A p \in found'[d] : Complied(p)
      BY <3>5, <3>7 DEF Shape
    <3>11. \A d \in Docs : \A p, q \in found'[d] : p.nodes = q.nodes => p = q
      BY <3>7, <3>8 DEF Shape
    <3>12. \A i \in DOMAIN rows' : Joins(rows'[i])
      BY <3>1, <3>2 DEF Shape
    <3>13. DOMAIN Tail(rows) \subseteq Nat
      BY <2>1, PathInHand, LenProperties
    <3>14. \A i, j \in DOMAIN rows' : rows'[i].nodes = rows'[j].nodes => i = j
      <4> SUFFICES ASSUME NEW i \in DOMAIN rows', NEW j \in DOMAIN rows',
                          rows'[i].nodes = rows'[j].nodes
                   PROVE  i = j
        OBVIOUS
      <4>1. i \in Nat /\ j \in Nat /\ i + 1 \in DOMAIN rows /\ j + 1 \in DOMAIN rows
        BY <3>1, <3>2, <3>13
      <4>2. rows[i + 1].nodes = rows[j + 1].nodes
        BY <3>1, <3>2
      <4>3. i + 1 = j + 1
        BY <4>1, <4>2 DEF Shape
      <4> QED
        BY <4>1, <4>3
    <3>15. \A i \in DOMAIN rows' : \A p \in found'[doc] : p.nodes # rows'[i].nodes
      <4> SUFFICES ASSUME NEW i \in DOMAIN rows', NEW p \in found'[doc]
                   PROVE  p.nodes # rows'[i].nodes
        OBVIOUS
      <4>1. i \in Nat /\ i + 1 \in DOMAIN rows /\ rows'[i] = rows[i + 1]
        BY <3>1, <3>2, <3>13
      <4>2. rows[i + 1].nodes # rows[1].nodes
        <5>1. i + 1 # 1 /\ i > 0
          <6>1. DOMAIN Tail(rows) = 1..Len(Tail(rows))
            BY <2>1, PathInHand, LenProperties
          <6> QED
            BY <3>1, <4>1, <6>1
        <5> QED
          BY <3>2, <4>1, <5>1 DEF Shape
      <4> QED
        BY <2>1, <3>3, <3>7, <4>1, <4>2 DEF Shape
    <3> QED
      BY <1>0, <2>1, <3>9, <3>10, <3>11, <3>12, <3>14, <3>15 DEF Shape
  <2> QED
    BY <2>2, <2>4, <2>5
<1>4. CASE OneHopStep
  <2>1. PICK back \in BOOLEAN, accepted \in BOOLEAN : OneHop(back, accepted)
    BY <1>4, OneHopShared
  <2>2. \A d \in Docs :
          /\ found'[d] # {} <=> date'[d] > 0
          /\ \A p \in found'[d] : Complied(p)
          /\ \A p, q \in found'[d] : p.nodes = q.nodes => p = q
    BY <1>4, <2>1, OneHopShared, HopsAreNew
  <2>3. rows' = rows /\ rows = <<>> /\ pc' # "edges"
    BY <2>1 DEF OneHop, Control, pathVars
  <2>4. DOMAIN rows' = {}
    BY <2>3
  <2> QED
    BY <1>0, <2>2, <2>3, <2>4 DEF Shape
<1>5. CASE ConnectionLost
  <2>1. rows' = <<>> /\ found' = [d \in Docs |-> {}] /\ date' = [d \in Docs |-> 0] /\ pc' # "edges"
    BY <1>5 DEF ConnectionLost, Forget, Nothing, NoDates
  <2>2. DOMAIN rows' = {}
    BY <2>1
  <2> QED
    BY <2>1, <2>2 DEF Shape
<1> QED
  BY <1>1, <1>2, <1>3, <1>4, <1>5 DEF SearchNext, Quiet, OneHopStep

-----------------------------------------------------------------------------
(***************************************************************************)
(* Nothing is invented: what the database has held it has held for good.   *)
(***************************************************************************)
StepIn(g, d, p, i) ==
  Step({e \in Fresh(g.edges) : e.doc = d}, p.nodes[i], p.nodes[i + 1], p.back[i])

WasThere(p, d) == \E k \in DOMAIN db : \A i \in Steps(p) : StepIn(db[k], d, p, i) # {}

PartsWereThere(parts, p, d, i) ==
  \A c \in parts : c # <<NoPart, NoPart>> =>
    \E k \in DOMAIN db : \E e \in StepIn(db[k], d, p, i) : e.parts = c

AllThere ==
  /\ \A d \in Docs : \A p \in found[d] :
       /\ WasThere(p, d)
       /\ \A i \in Steps(p) : PartsWereThere(p.combos[i], p, d, i)
  /\ \A i \in DOMAIN rows : WasThere(rows[i], doc)
  /\ \A i \in DOMAIN combos : PartsWereThere(combos[i], Head(rows), doc, i)

LEMMA AllThereInitially == SearchInit => AllThere
<1> SUFFICES ASSUME SearchInit PROVE AllThere
  OBVIOUS
<1>1. rows = <<>> /\ combos = <<>> /\ found = [d \in Docs |-> {}]
  BY DEF SearchInit, Nothing
<1>2. DOMAIN rows = {} /\ DOMAIN combos = {}
  BY <1>1
<1> QED
  BY <1>1, <1>2 DEF AllThere

LEMMA HistoryKept ==
  ASSUME Types, [SearchNext]_searchVars
  PROVE  /\ DOMAIN db \subseteq DOMAIN db'
         /\ \A k \in DOMAIN db : db'[k] = db[k]
         /\ db' = db \/ Len(db') > 1
<1>1. CASE GraphChanges
  <2>1. PICK g \in Graphs : db' = Append(db, g)
    BY <1>1 DEF GraphChanges
  <2> QED
    BY <2>1, GraphAdded DEF Types
<1>2. CASE ~GraphChanges
  <2>1. db' = db
    BY <1>2 DEF SearchNext, searchVars, givenVars, Dispatch, UseSpace, FetchStart, StartEdges,
                FinishEdges, FindPaths, AskEdge, AllLooked, OneHopFromStart, OneHopToFinish,
                ConnectionLost
  <2> QED
    BY <2>1
<1> QED
  BY <1>1, <1>2

LEMMA StaysThere ==
  ASSUME Types, [SearchNext]_searchVars
  PROVE  /\ \A p, d : WasThere(p, d) => WasThere(p, d)'
         /\ \A parts, p, d, i : PartsWereThere(parts, p, d, i) => PartsWereThere(parts, p, d, i)'
<1>1. DOMAIN db \subseteq DOMAIN db' /\ \A k \in DOMAIN db : db'[k] = db[k]
  BY HistoryKept
<1>2. ASSUME NEW p, NEW d, WasThere(p, d) PROVE WasThere(p, d)'
  <2>1. PICK k \in DOMAIN db : \A i \in Steps(p) : StepIn(db[k], d, p, i) # {}
    BY <1>2 DEF WasThere
  <2>2. k \in DOMAIN db' /\ db'[k] = db[k]
    BY <1>1
  <2> QED
    BY <2>1, <2>2 DEF WasThere, StepIn, Steps
<1>3. ASSUME NEW parts, NEW p, NEW d, NEW i, PartsWereThere(parts, p, d, i)
      PROVE  PartsWereThere(parts, p, d, i)'
  <2> SUFFICES ASSUME NEW c \in parts, c # <<NoPart, NoPart>>
               PROVE  \E k \in DOMAIN db' : \E e \in StepIn(db'[k], d, p, i) : e.parts = c
    BY DEF PartsWereThere, StepIn
  <2>1. PICK k \in DOMAIN db : \E e \in StepIn(db[k], d, p, i) : e.parts = c
    BY <1>3 DEF PartsWereThere
  <2>2. k \in DOMAIN db' /\ db'[k] = db[k]
    BY <1>1
  <2> QED
    BY <2>1, <2>2
<1> QED
  BY <1>2, <1>3

\* The present graph is one of them.
LEMMA IsThere ==
  ASSUME Types, NEW p, NEW d
  PROVE  /\ (\A i \in Steps(p) : StepIn(Graph, d, p, i) # {}) => WasThere(p, d)
         /\ \A parts, i :
              (\A c \in parts : c # <<NoPart, NoPart>> => \E e \in StepIn(Graph, d, p, i) : e.parts = c)
                => PartsWereThere(parts, p, d, i)
<1>1. Graph = db[Len(db)] /\ Len(db) \in DOMAIN db
  BY GraphType DEF Graph
<1> QED
  BY <1>1 DEF WasThere, PartsWereThere

\* A row of a one-hop search is an edge, along the arrow or against it.
LEMMA HopIsThere ==
  ASSUME Types, Anchor \in Systems, ~Between, NEW back \in BOOLEAN, NEW accepted \in BOOLEAN,
         NEW e \in Got(back, accepted)
  PROVE  LET p == HopPath(e, Anchor, back)
         IN /\ WasThere(p, e.doc)
            /\ \A i \in Steps(p) : PartsWereThere(p.combos[i], p, e.doc, i)
<1> DEFINE p == HopPath(e, Anchor, back)
<1>1. /\ e \in Fresh(Graph.edges) /\ e.consumer # e.provider
      /\ IF back = (Start.system # NoSystem) THEN e.provider = Anchor ELSE e.consumer = Anchor
  BY DEF Got, HopEdges, Admitted, Rows
<1>2. /\ p.back = <<back>> /\ p.combos = <<{e.parts}>>
      /\ p.nodes = IF Start.system # NoSystem THEN <<Anchor, Neighbour(e, Anchor)>>
                                              ELSE <<Neighbour(e, Anchor), Anchor>>
  BY <1>1, HopType, HopShape
<1>3. Steps(p) = {1} /\ p.back[1] = back /\ p.combos[1] = {e.parts}
  BY <1>2 DEF Steps
<1>4. /\ e.consumer = IF back THEN p.nodes[2] ELSE p.nodes[1]
      /\ e.provider = IF back THEN p.nodes[1] ELSE p.nodes[2]
  BY <1>1, <1>2 DEF Neighbour
<1> HIDE DEF p
<1>5. e \in StepIn(Graph, e.doc, p, 1)
  BY <1>1, <1>3, <1>4 DEF StepIn, Step
<1>6. WasThere(p, e.doc)
  BY <1>3, <1>5, IsThere
<1>7. \A i \in Steps(p) : PartsWereThere(p.combos[i], p, e.doc, i)
  <2>1. \A c \in p.combos[1] : \E x \in StepIn(Graph, e.doc, p, 1) : x.parts = c
    BY <1>3, <1>5
  <2>2. PartsWereThere(p.combos[1], p, e.doc, 1)
    BY <2>1, IsThere
  <2> QED
    BY <1>3, <2>2
<1> QED
  BY <1>6, <1>7 DEF p

\* With an answer the edge data of the path in hand is still what was there.
LEMMA AnswerIsThere ==
  ASSUME Types, Control, AllThere, pc = "edges", NEW accepted \in BOOLEAN,
         EdgeAnswer(accepted) \in SUBSET (Parts \X Parts)
  PROVE  \A i \in DOMAIN Append(combos, EdgeAnswer(accepted)) :
           PartsWereThere(Append(combos, EdgeAnswer(accepted))[i], Head(rows), doc, i)
<1> DEFINE next == Len(combos) + 1
<1>1. \A c \in EdgeAnswer(accepted) : c # <<NoPart, NoPart>> =>
        \E e \in StepIn(Graph, doc, Head(rows), next) : e.parts = c
  BY DEF EdgeAnswer, EdgeParts, EmptyCombo, Interfaces, StepIn
<1>2. PartsWereThere(EdgeAnswer(accepted), Head(rows), doc, next)
  BY <1>1, IsThere
<1>3. \A i \in DOMAIN combos : PartsWereThere(combos[i], Head(rows), doc, i)
  BY DEF AllThere
<1>4. combos \in Seq(SUBSET (Parts \X Parts))
  BY DEF Types
<1>5. \A i \in DOMAIN Append(combos, EdgeAnswer(accepted)) :
        \/ i \in DOMAIN combos /\ Append(combos, EdgeAnswer(accepted))[i] = combos[i]
        \/ i = next /\ Append(combos, EdgeAnswer(accepted))[i] = EdgeAnswer(accepted)
  BY <1>4, Places
<1> HIDE DEF next
<1> QED
  BY <1>2, <1>3, <1>5

LEMMA AllThereKept ==
  ASSUME Types, Control, Shape, AllThere, [SearchNext]_searchVars
  PROVE  AllThere'
<1>0. /\ \A p, d : WasThere(p, d) => WasThere(p, d)'
      /\ \A parts, p, d, i : PartsWereThere(parts, p, d, i) => PartsWereThere(parts, p, d, i)'
  BY StaysThere
<1>1. CASE Quiet
  <2>1. UNCHANGED <<rows, combos, doc, found>>
    BY <1>1, QuietKeeps
  <2> QED
    BY <1>0, <2>1 DEF AllThere, Steps
<1>2. ASSUME NEW d \in Docs, FindPaths(d) PROVE AllThere'
  <2>1. /\ UNCHANGED <<found, combos>> /\ d \in todo /\ doc' = d /\ pc = "paths"
    BY <1>2 DEF FindPaths, To, resultVars
  <2>2. combos = <<>>
    BY <2>1 DEF Control
  <2>3. PICK first \in SUBSET PathRows(Interfaces(d), Start.system, Finish.system) : rows' \in Seq(first)
    BY <1>2, FoundPaths
  <2>4. \A i \in DOMAIN rows' : rows'[i] \in PathRows(Interfaces(d), Start.system, Finish.system)
    BY <2>3, ElementOfSeq, LenProperties
  <2>5. \A i \in DOMAIN rows' : WasThere(rows'[i], d)
    <3> SUFFICES ASSUME NEW i \in DOMAIN rows' PROVE WasThere(rows'[i], d)
      OBVIOUS
    <3> DEFINE p == rows'[i]
    <3>1. p \in PathRows(Interfaces(d), Start.system, Finish.system)
      BY <2>4
    <3> HIDE DEF p
    <3>2. \A j \in DOMAIN p.back : Step(Interfaces(d), p.nodes[j], p.nodes[j + 1], p.back[j]) # {}
      BY <3>1, RowsArePaths
    <3>3. \A j \in Steps(p) : StepIn(Graph, d, p, j) # {}
      BY <3>2 DEF StepIn, Steps, Interfaces
    <3>4. WasThere(p, d)
      BY <3>3, IsThere
    <3> QED
      BY <3>4 DEF p
  <2>6. (\A i \in DOMAIN rows : WasThere(rows[i], doc))'
    <3> SUFFICES ASSUME NEW i \in DOMAIN rows' PROVE WasThere(rows[i], doc)'
      OBVIOUS
    <3>1. PICK p : p = rows'[i]
      OBVIOUS
    <3>2. WasThere(p, d)'
      BY <1>0, <2>5, <3>1
    <3> QED
      BY <2>1, <3>1, <3>2 DEF WasThere, StepIn, Steps
  <2>7. DOMAIN combos' = {}
    BY <2>1, <2>2
  <2>8. \A e \in Docs : \A p \in found'[e] :
            /\ WasThere(p, e)'
            /\ \A i \in Steps(p) : PartsWereThere(p.combos[i], p, e, i)'
    BY <1>0, <2>1 DEF AllThere
  <2> QED
    BY <2>6, <2>7, <2>8 DEF AllThere, Steps
<1>3. CASE AskEdge
  <2>1. pc = "edges" /\ doc' = doc
    BY <1>3, AskEdgeOutcomes
  <2>2. PICK accepted \in BOOLEAN :
          /\ EdgeAnswer(accepted) \in SUBSET (Parts \X Parts)
          /\ MoreEdges(accepted) \/ LastEdge(accepted)
    BY <1>3, AskEdgeOutcomes
  <2> DEFINE grown == Append(combos, EdgeAnswer(accepted))
  <2>3. \A i \in DOMAIN grown : PartsWereThere(grown[i], Head(rows), doc, i)
    BY <2>1, <2>2, AnswerIsThere
  <2>4. CASE MoreEdges(accepted)
    <3>1. UNCHANGED <<rows, found>> /\ combos' = grown
      BY <2>4 DEF MoreEdges, resultVars
    <3> HIDE DEF grown
    <3> QED
      BY <1>0, <2>1, <2>3, <3>1 DEF AllThere, Steps
  <2>5. CASE LastEdge(accepted)
    <3> DEFINE path == Complete(accepted)
    <3>1. found' = [found EXCEPT ![doc] = @ \cup {path}] /\ rows' = Tail(rows) /\ combos' = <<>>
      BY <2>5 DEF LastEdge
    <3>2. doc \in Docs /\ found \in [Docs -> SUBSET Path]
      BY <2>1 DEF Control, Types
    <3>3. /\ found'[doc] = found[doc] \cup {path}
          /\ \A d \in Docs \ {doc} : found'[d] = found[d]
      BY <3>1, <3>2
    <3>4. /\ path.nodes = Head(rows).nodes /\ path.back = Head(rows).back /\ path.combos = grown
      BY DEF Complete
    <3>5. /\ Head(rows) \in Row /\ Head(rows) = rows[1] /\ 1 \in DOMAIN rows
          /\ \A i \in DOMAIN Tail(rows) : i + 1 \in DOMAIN rows /\ Tail(rows)[i] = rows[i + 1]
          /\ DOMAIN grown = 1..Len(combos) + 1
      <4>1. combos \in Seq(SUBSET (Parts \X Parts))
        BY DEF Types
      <4> QED
        BY <2>1, <2>2, <4>1, PathInHand, Places
    <3>6. Steps(path) = DOMAIN grown
      <4>1. Steps(path) = 1..Len(Head(rows).back)
        BY <3>4, <3>5, LenProperties DEF Steps, Row
      <4> QED
        BY <2>5, <3>5, <4>1 DEF LastEdge
    <3>7. WasThere(path, doc)
      <4>1. WasThere(Head(rows), doc)
        BY <3>5 DEF AllThere
      <4> QED
        BY <3>4, <4>1 DEF WasThere, StepIn, Steps
    <3>8. \A i \in Steps(path) : PartsWereThere(path.combos[i], path, doc, i)
      <4> SUFFICES ASSUME NEW i \in Steps(path) PROVE PartsWereThere(path.combos[i], path, doc, i)
        OBVIOUS
      <4>1. PartsWereThere(grown[i], Head(rows), doc, i)
        BY <2>3, <3>6
      <4> HIDE DEF path, grown
      <4> QED
        BY <3>4, <4>1 DEF PartsWereThere, StepIn
    <3>9. DOMAIN combos' = {}
      BY <3>1
    <3> HIDE DEF path, grown
    <3>10. \A d \in Docs : \A p \in found'[d] :
            /\ WasThere(p, d)
            /\ \A i \in Steps(p) : PartsWereThere(p.combos[i], p, d, i)
      BY <3>3, <3>7, <3>8 DEF AllThere
    <3>11. \A i \in DOMAIN rows' : WasThere(rows'[i], doc)
      BY <3>1, <3>5 DEF AllThere
    <3>12. (\A i \in DOMAIN rows : WasThere(rows[i], doc))'
      <4> SUFFICES ASSUME NEW i \in DOMAIN rows' PROVE WasThere(rows[i], doc)'
        OBVIOUS
      <4>1. PICK p, d : p = rows'[i] /\ d = doc
        OBVIOUS
      <4>2. WasThere(p, d)'
        BY <1>0, <3>11, <4>1
      <4> QED
        BY <2>1, <4>1, <4>2 DEF WasThere, StepIn, Steps
    <3>13. \A d \in Docs : \A p \in found'[d] :
            /\ WasThere(p, d)'
            /\ \A i \in Steps(p) : PartsWereThere(p.combos[i], p, d, i)'
      BY <1>0, <3>10
    <3> QED
      BY <3>9, <3>12, <3>13 DEF AllThere, Steps
  <2> QED
    BY <2>2, <2>4, <2>5
<1>4. CASE OneHopStep
  <2>0. Anchor \in Systems /\ ~Between
    BY <1>4, OneHopShared
  <2>1. PICK back \in BOOLEAN, accepted \in BOOLEAN : OneHop(back, accepted)
    BY <1>4, OneHopShared
  <2>2. ASSUME NEW d \in Docs, NEW p \in found'[d]
        PROVE  WasThere(p, d)' /\ \A i \in Steps(p) : PartsWereThere(p.combos[i], p, d, i)'
    <3> DEFINE got == Got(back, accepted)
    <3>1. PICK new \in FirstHops(got, Anchor, back, d) : found'[d] = found[d] \cup new
      BY <2>0, <2>1, HopResults
    <3>2. FirstOfEach(new, got, Anchor, back, d)
      BY <3>1, HopsOfDocument
    <3>3. CASE p \in found[d]
      BY <1>0, <3>3 DEF AllThere
    <3>4. CASE p \in new
      <4>1. PICK e \in got : e.doc = d /\ p = HopPath(e, Anchor, back)
        BY <3>2, <3>4 DEF FirstOfEach
      <4>2. WasThere(p, d) /\ \A i \in Steps(p) : PartsWereThere(p.combos[i], p, d, i)
        BY <2>0, <4>1, HopIsThere
      <4> QED
        BY <1>0, <4>2
    <3> QED
      BY <2>2, <3>1, <3>3, <3>4
  <2>3. rows' = <<>> /\ combos' = <<>>
    BY <2>1 DEF OneHop, Control, pathVars
  <2>4. DOMAIN rows' = {} /\ DOMAIN combos' = {}
    BY <2>3
  <2> QED
    BY <2>2, <2>4 DEF AllThere, Steps
<1>5. CASE ConnectionLost
  <2>1. rows' = <<>> /\ combos' = <<>> /\ found' = [d \in Docs |-> {}]
    BY <1>5 DEF ConnectionLost, Forget, Nothing
  <2>2. DOMAIN rows' = {} /\ DOMAIN combos' = {}
    BY <2>1
  <2> QED
    BY <2>1, <2>2 DEF AllThere
<1> QED
  BY <1>1, <1>2, <1>3, <1>4, <1>5 DEF SearchNext, Quiet, OneHopStep

-----------------------------------------------------------------------------
SearchInv == Types /\ Control /\ Shape /\ AllThere

LEMMA SearchInvHolds == SearchSpec => []SearchInv
<1>1. SearchInit => SearchInv
  BY TypesInitially, ControlInitially, ShapeInitially, AllThereInitially DEF SearchInv
<1>2. SearchInv /\ [SearchNext]_searchVars => SearchInv'
  BY TypesKept, ControlKept, ShapeKept, AllThereKept DEF SearchInv
<1> QED
  BY <1>1, <1>2, PTL DEF SearchSpec

\* What is in the results was in the database: each path of a document, with all
\* its steps, in one of the graphs the database has held, and all parts on it,
\* whatever is rejected, changed or lost in between.
THEOREM PathsWereThere == SearchSpec => []NothingInvented
<1>1. SearchInv => NothingInvented
  BY DEF SearchInv, AllThere, NothingInvented, WasThere, PartsWereThere, StepIn
<1> QED
  BY SearchInvHolds, <1>1, PTL

\* The types, and that a document has a date exactly when it has paths, each with
\* the edge data of all its steps.
THEOREM SearchTypeCorrect == SearchSpec => []SearchTypeOK
<1>1. SearchInv => SearchTypeOK
  <2> SUFFICES ASSUME SearchInv PROVE SearchTypeOK
    OBVIOUS
  <2>1. ASSUME NEW d \in Docs, NEW p \in found[d] PROVE Len(p.combos) = Len(p.nodes) - 1
    <3>1. Len(p.back) \in Nat /\ Len(p.nodes) = Len(p.back) + 1 /\ Len(p.combos) = Len(p.back)
      BY <2>1 DEF SearchInv, Shape, Complied
    <3> QED
      BY <3>1
  <2> QED
    BY <2>1 DEF SearchInv, Types, Control, Shape, SearchTypeOK
<1> QED
  BY SearchInvHolds, <1>1, PTL

\* The guarantee that PathAssembly starts from: whatever is rejected, changed or
\* lost, the results are an initial state of it.
THEOREM ResultsAreInput == SearchSpec => []DeliversInput
<1>1. SearchInv => DeliversInput
  <2> SUFFICES ASSUME SearchInv PROVE Assembly!Init
    BY DEF DeliversInput
  <2> DEFINE req == [start |-> Start, finish |-> Finish, order |-> "longest", count |-> 1]
             dates == [d \in Docs |-> IF found[d] = {} THEN 1 ELSE date[d]]
  <2>1. req \in Assembly!Requests
    <3>1. PICK f \in Filters : request = [start |-> f[1], finish |-> f[2]]
      BY DEF SearchInv, Types
    <3>2. Start = f[1] /\ Finish = f[2]
      BY <3>1 DEF Start, Finish
    <3> QED
      BY <3>2 DEF Assembly!Requests
  <2>2. \A d \in Docs : Assembly!OnePerNodes(found[d])
    BY DEF SearchInv, Shape, Assembly!OnePerNodes
  <2>3. ASSUME NEW d \in Docs PROVE Assembly!Answers(req, found[d])
    <3> SUFFICES ASSUME NEW p \in found[d]
                 PROVE  /\ Start.system \in {NoSystem, p.nodes[1]}
                        /\ Finish.system \in {NoSystem, p.nodes[Len(p.nodes)]}
                        /\ Start.system = NoSystem \/ Finish.system = NoSystem =>
                             Len(p.nodes) = 2 /\ Start.system # Finish.system
      BY DEF Assembly!Answers
    <3>1. Complied(p)
      BY DEF SearchInv, Shape
    <3>2. CASE Between
      BY <3>1, <3>2 DEF Complied, Joins, Between
    <3>3. CASE ~Between
      <4>1. IsHop(p) /\ Len(p.nodes) = 2
        <5>1. IsHop(p) /\ Len(p.nodes) = Len(p.back) + 1
          BY <3>1, <3>3 DEF Complied
        <5>2. Len(p.back) = 1
          BY <5>1 DEF IsHop
        <5> QED
          BY <5>1, <5>2
      <4>2. \/ Start.system = NoSystem /\ Finish.system # NoSystem
            \/ Start.system # NoSystem /\ Finish.system = NoSystem
        <5>1. ~Untouched
          BY DEF Untouched, Nothing
        <5> QED
          BY <3>3, <5>1 DEF SearchInv, Control, Between
      <4> QED
        BY <4>1, <4>2 DEF IsHop
    <3> QED
      BY <3>2, <3>3
  <2>4. found \in [Docs -> SUBSET {p \in Path : Len(p.combos) = Len(p.nodes) - 1}]
    <3>1. \A d \in Docs : \A p \in found[d] : Len(p.combos) = Len(p.nodes) - 1
      BY DEF SearchInv, Shape, Complied
    <3> QED
      BY <3>1 DEF SearchInv, Types
  <2>5. dates \in [Docs -> Nat \ {0}]
    <3>1. \A d \in Docs : date[d] \in Nat /\ (found[d] # {} <=> date[d] > 0)
      BY DEF SearchInv, Types, Shape
    <3> QED
      BY <3>1
  <2> QED
    BY <2>1, <2>2, <2>3, <2>4, <2>5 DEF Assembly!Init, Path
<1> QED
  BY SearchInvHolds, <1>1, PTL

-----------------------------------------------------------------------------
(***************************************************************************)
(* The one-hop searches on a graph that stands still.  After the first     *)
(* query a document has one path for every neighbour along the arrow,      *)
(* after the second one also for those it has only against it.             *)
(***************************************************************************)
Still == Len(db) = 1 /\ ~rejected

\* The edges of a document that a query in this direction brings.
Hops(back, d) == {e \in Got(back, TRUE) : e.doc = d}

Neighbours(back, d) == {Neighbour(e, Anchor) : e \in Hops(back, d)}

Other(p) == IF Start.system # NoSystem THEN p.nodes[2] ELSE p.nodes[1]

\* These are the paths, and this is the date, of one query.
AfterOne(paths, t, d) ==
  /\ \A p \in paths : \E e \in Hops(FALSE, d) : p = HopPath(e, Anchor, FALSE)
  /\ \A n \in Neighbours(FALSE, d) : \E p \in paths : Other(p) = n
  /\ t = Latest(Got(FALSE, TRUE), d)

\* And these of both.
AfterBoth(paths, t, d) ==
  /\ \A p \in paths :
       \/ \E e \in Hops(FALSE, d) : p = HopPath(e, Anchor, FALSE)
       \/ \E e \in Hops(TRUE, d) : /\ p = HopPath(e, Anchor, TRUE)
                                   /\ Neighbour(e, Anchor) \notin Neighbours(FALSE, d)
  /\ \A n \in Neighbours(FALSE, d) \cup Neighbours(TRUE, d) : \E p \in paths : Other(p) = n
  /\ t = Later(Latest(Got(FALSE, TRUE), d), Latest(Got(TRUE, TRUE), d))

HopsExact ==
  Still /\ ~Between =>
    /\ pc = "reverse" => \A d \in Docs : AfterOne(found[d], date[d], d)
    /\ pc = "done" => \A d \in Docs : AfterBoth(found[d], date[d], d)

LEMMA HopOther ==
  ASSUME Types, Anchor \in Systems, ~Between, NEW back \in BOOLEAN, NEW accepted \in BOOLEAN,
         NEW e \in Got(back, accepted)
  PROVE  Other(HopPath(e, Anchor, back)) = Neighbour(e, Anchor)
<1>1. HopPath(e, Anchor, back).nodes = IF Start.system # NoSystem
        THEN <<Anchor, Neighbour(e, Anchor)>> ELSE <<Neighbour(e, Anchor), Anchor>>
  BY HopShape
<1> QED
  BY <1>1 DEF Other

\* The other end is what a later query goes by.
LEMMA OtherIsNeighbour ==
  ASSUME Types, Shape, Anchor \in Systems, ~Between, NEW edges, NEW d \in Docs, NEW n, n # Anchor
  PROVE  n \in NewNeighbours(edges, Anchor, d) <=>
           /\ \E e \in edges : e.doc = d /\ Neighbour(e, Anchor) = n
           /\ \A p \in found[d] : Other(p) # n
<1>1. ASSUME NEW p \in found[d] PROVE n \in {p.nodes[1], p.nodes[2]} <=> Other(p) = n
  <2>1. Complied(p)
    BY DEF Shape
  <2>2. IsHop(p)
    BY <2>1 DEF Complied
  <2>3. Start.system = NoSystem => Anchor = Finish.system
    BY DEF Anchor
  <2>4. Start.system # NoSystem => Anchor = Start.system
    BY DEF Anchor
  <2> QED
    BY <2>2, <2>3, <2>4 DEF IsHop, Other
<1>2. n \in UNION {{p.nodes[1], p.nodes[2]} : p \in found[d]} <=> \E p \in found[d] : Other(p) = n
  BY <1>1
<1>3. n \in {Neighbour(e, Anchor) : e \in {x \in edges : x.doc = d}}
        <=> \E e \in edges : e.doc = d /\ Neighbour(e, Anchor) = n
  OBVIOUS
<1> QED
  BY <1>2, <1>3 DEF NewNeighbours

LEMMA FirstQuery ==
  ASSUME Types, Control, Shape, Anchor \in Systems, ~Between, OneHop(FALSE, TRUE), NEW d \in Docs
  PROVE  AfterOne(found'[d], date'[d], d)
<1> DEFINE got == Got(FALSE, TRUE)
<1>1. /\ got \in SUBSET Fresh(Graph.edges)
      /\ date'[d] = Later(date[d], Latest(got, d))
      /\ \E new \in FirstHops(got, Anchor, FALSE, d) : found'[d] = found[d] \cup new
  BY HopResults
<1>2. PICK new \in FirstHops(got, Anchor, FALSE, d) : found'[d] = found[d] \cup new
  BY <1>1
<1>3. FirstOfEach(new, got, Anchor, FALSE, d)
  BY <1>2, HopsOfDocument
<1>4. found[d] = {} /\ date[d] = 0
  BY DEF OneHop, Control, Untouched, Nothing, NoDates
<1>5. \A e \in got : Neighbour(e, Anchor) # Anchor /\ Other(HopPath(e, Anchor, FALSE)) = Neighbour(e, Anchor)
  BY HopShape, HopOther
<1> HIDE DEF got
<1>6. \A p \in found'[d] : \E e \in Hops(FALSE, d) : p = HopPath(e, Anchor, FALSE)
  BY <1>2, <1>3, <1>4 DEF FirstOfEach, Hops, got
<1>7. ASSUME NEW n \in Neighbours(FALSE, d) PROVE \E p \in found'[d] : Other(p) = n
  <2>1. PICK e \in got : e.doc = d /\ Neighbour(e, Anchor) = n
    BY <1>7 DEF Neighbours, Hops, got
  <2>2. n # Anchor
    BY <1>5, <2>1
  <2>3. n \in NewNeighbours(got, Anchor, d)
    BY <1>4, <2>1, <2>2, OtherIsNeighbour
  <2>4. PICK x \in got : Neighbour(x, Anchor) = n /\ HopPath(x, Anchor, FALSE) \in new
    BY <1>3, <2>3 DEF FirstOfEach
  <2> QED
    BY <1>2, <1>5, <2>4
<1>8. Latest(got, d) \in Nat
  BY <1>1, LatestHere
<1>9. date'[d] = Latest(got, d)
  BY <1>1, <1>4, <1>8 DEF Later
<1> QED
  BY <1>6, <1>7, <1>9 DEF AfterOne, got

LEMMA SecondQuery ==
  ASSUME Types, Control, Shape, Anchor \in Systems, ~Between, OneHop(TRUE, TRUE), NEW d \in Docs,
         AfterOne(found[d], date[d], d)
  PROVE  AfterBoth(found'[d], date'[d], d)
<1> DEFINE got == Got(TRUE, TRUE)
<1>1. /\ date'[d] = Later(date[d], Latest(got, d))
      /\ \E new \in FirstHops(got, Anchor, TRUE, d) : found'[d] = found[d] \cup new
  BY HopResults
<1>2. PICK new \in FirstHops(got, Anchor, TRUE, d) : found'[d] = found[d] \cup new
  BY <1>1
<1>3. FirstOfEach(new, got, Anchor, TRUE, d)
  BY <1>2, HopsOfDocument
<1>4. \A e \in got : Neighbour(e, Anchor) # Anchor /\ Other(HopPath(e, Anchor, TRUE)) = Neighbour(e, Anchor)
  BY HopShape, HopOther
<1> HIDE DEF got
<1>5. ASSUME NEW p \in new
      PROVE  \E e \in Hops(TRUE, d) : /\ p = HopPath(e, Anchor, TRUE)
                                      /\ Neighbour(e, Anchor) \notin Neighbours(FALSE, d)
  <2>1. PICK e \in got : /\ e.doc = d /\ p = HopPath(e, Anchor, TRUE)
                         /\ Neighbour(e, Anchor) \in NewNeighbours(got, Anchor, d)
    BY <1>3 DEF FirstOfEach
  <2>2. \A q \in found[d] : Other(q) # Neighbour(e, Anchor)
    <3>1. PICK n : n = Neighbour(e, Anchor)
      OBVIOUS
    <3>2. n # Anchor /\ n \in NewNeighbours(got, Anchor, d)
      BY <1>4, <2>1, <3>1
    <3>3. \A q \in found[d] : Other(q) # n
      BY <3>2, OtherIsNeighbour
    <3> QED
      BY <3>1, <3>3
  <2>3. Neighbour(e, Anchor) \notin Neighbours(FALSE, d)
    BY <2>2 DEF AfterOne
  <2> QED
    BY <2>1, <2>3 DEF Hops, got
<1>6. ASSUME NEW n \in Neighbours(TRUE, d) PROVE \E p \in found'[d] : Other(p) = n
  <2>1. PICK e \in got : e.doc = d /\ Neighbour(e, Anchor) = n
    BY <1>6 DEF Neighbours, Hops, got
  <2>2. CASE \E p \in found[d] : Other(p) = n
    BY <1>2, <2>2
  <2>3. CASE \A p \in found[d] : Other(p) # n
    <3>1. n \in NewNeighbours(got, Anchor, d)
      BY <1>4, <2>1, <2>3, OtherIsNeighbour
    <3>2. PICK x \in got : Neighbour(x, Anchor) = n /\ HopPath(x, Anchor, TRUE) \in new
      BY <1>3, <3>1 DEF FirstOfEach
    <3> QED
      BY <1>2, <1>4, <3>2
  <2> QED
    BY <2>2, <2>3
<1>7. date'[d] = Later(Latest(Got(FALSE, TRUE), d), Latest(got, d))
  BY <1>1 DEF AfterOne
<1> QED
  BY <1>2, <1>5, <1>6, <1>7 DEF AfterOne, AfterBoth, got

\* Between two statements nothing of this changes.
LEMMA SameHops ==
  ASSUME UNCHANGED <<db, request>>
  PROVE  \A paths, t, d : /\ AfterOne(paths, t, d)' <=> AfterOne(paths, t, d)
                          /\ AfterBoth(paths, t, d)' <=> AfterBoth(paths, t, d)
<1>1. Got(FALSE, TRUE)' = Got(FALSE, TRUE) /\ Got(TRUE, TRUE)' = Got(TRUE, TRUE)
  BY SameRequest DEF Got, Rows, HopEdges, Admitted, Graph, Anchor, Start, Finish
<1>2. \A e : /\ HopPath(e, Anchor, FALSE)' = HopPath(e, Anchor, FALSE)
             /\ HopPath(e, Anchor, TRUE)' = HopPath(e, Anchor, TRUE)
  BY SameRequest DEF HopPath
<1>3. \A e : Neighbour(e, Anchor)' = Neighbour(e, Anchor)
  BY SameRequest
<1>4. \A d : Hops(FALSE, d)' = Hops(FALSE, d) /\ Hops(TRUE, d)' = Hops(TRUE, d)
  BY <1>1 DEF Hops
<1>5. \A d : Neighbours(FALSE, d)' = Neighbours(FALSE, d) /\ Neighbours(TRUE, d)' = Neighbours(TRUE, d)
  BY <1>3, <1>4 DEF Neighbours
<1>6. \A p : Other(p)' = Other(p)
  BY SameRequest DEF Other
<1>7. ASSUME NEW paths, NEW t, NEW d PROVE AfterOne(paths, t, d)' <=> AfterOne(paths, t, d)
  <2>1. Latest(Got(FALSE, TRUE), d)' = Latest(Got(FALSE, TRUE), d)
    BY <1>1
  <2> QED
    BY <1>2, <1>4, <1>5, <1>6, <2>1 DEF AfterOne
<1>8. ASSUME NEW paths, NEW t, NEW d PROVE AfterBoth(paths, t, d)' <=> AfterBoth(paths, t, d)
  <2>1. /\ Latest(Got(FALSE, TRUE), d)' = Latest(Got(FALSE, TRUE), d)
        /\ Latest(Got(TRUE, TRUE), d)' = Latest(Got(TRUE, TRUE), d)
    BY <1>1
  <2>2. \A p : (\E e \in Hops(FALSE, d) : p = HopPath(e, Anchor, FALSE))'
                <=> \E e \in Hops(FALSE, d) : p = HopPath(e, Anchor, FALSE)
    BY <1>2, <1>4
  <2>3. \A p : (\E e \in Hops(TRUE, d) : /\ p = HopPath(e, Anchor, TRUE)
                                       /\ Neighbour(e, Anchor) \notin Neighbours(FALSE, d))'
                <=> \E e \in Hops(TRUE, d) : /\ p = HopPath(e, Anchor, TRUE)
                                           /\ Neighbour(e, Anchor) \notin Neighbours(FALSE, d)
    BY <1>2, <1>3, <1>4, <1>5
  <2>4. (\A n \in Neighbours(FALSE, d) \cup Neighbours(TRUE, d) : \E p \in paths : Other(p) = n)'
          <=> \A n \in Neighbours(FALSE, d) \cup Neighbours(TRUE, d) : \E p \in paths : Other(p) = n
    BY <1>5, <1>6
  <2> QED
    BY <2>1, <2>2, <2>3, <2>4 DEF AfterBoth
<1> QED
  BY <1>7, <1>8

LEMMA HopsExactInitially == SearchInit => HopsExact
BY DEF SearchInit, HopsExact

\* Nobody is asked for: the results are empty, and so is what they should be.
LEMMA NobodyAsked ==
  ASSUME Types, Start.system = NoSystem, Finish.system = NoSystem, NEW d \in Docs
  PROVE  AfterBoth({}, 0, d)
<1>1. Anchor = NoSystem
  BY DEF Anchor
<1>2. \A back : Got(back, TRUE) = {}
  <2>1. \A e \in Fresh(Graph.edges) : e.consumer \in Systems /\ e.provider \in Systems
    BY GraphType, EdgesOfGraph
  <2> QED
    BY <1>1, <2>1, FiltersAssumption DEF Got, HopEdges, Admitted, Rows
<1>3. Latest({}, d) = 0
  BY DEF Latest
<1> QED
  BY <1>2, <1>3 DEF AfterBoth, Neighbours, Hops, Later

LEMMA HopsExactKept ==
  ASSUME Types, Control, Shape, HopsExact, [SearchNext]_searchVars
  PROVE  HopsExact'
<1> SUFFICES ASSUME Still', ~Between', pc' \in {"reverse", "done"}
             PROVE  /\ pc' = "reverse" => \A d \in Docs : AfterOne(found[d], date[d], d)'
                    /\ pc' = "done" => \A d \in Docs : AfterBoth(found[d], date[d], d)'
  BY DEF HopsExact
<1>0. UNCHANGED <<db, request>> /\ ~Between
  BY RequestKept, HistoryKept, SameRequest DEF Still
<1>1. \A paths, t, d : /\ AfterOne(paths, t, d)' <=> AfterOne(paths, t, d)
                       /\ AfterBoth(paths, t, d)' <=> AfterBoth(paths, t, d)
  BY <1>0, SameHops
<1>2. CASE pc' = "reverse" /\ OneHopStep
  <2>0. Anchor \in Systems
    BY <1>2, OneHopShared
  <2>1. PICK back \in BOOLEAN, accepted \in BOOLEAN : OneHop(back, accepted)
    BY <1>2, OneHopShared
  <2>2. ~back /\ accepted
    BY <1>2, <2>1 DEF OneHop, Still
  <2>3. OneHop(FALSE, TRUE)
    BY <2>1, <2>2
  <2>4. ASSUME NEW d \in Docs PROVE AfterOne(found[d], date[d], d)'
    <3>1. PICK paths, t : paths = found'[d] /\ t = date'[d]
      OBVIOUS
    <3>2. AfterOne(paths, t, d)'
      BY <1>0, <1>1, <2>0, <2>3, <3>1, FirstQuery
    <3> QED
      BY <3>1, <3>2 DEF AfterOne
  <2> QED
    BY <1>2, <2>4
<1>3. CASE pc' = "done" /\ OneHopStep
  <2>0. Anchor \in Systems
    BY <1>3, OneHopShared
  <2>1. PICK back \in BOOLEAN, accepted \in BOOLEAN : OneHop(back, accepted)
    BY <1>3, OneHopShared
  <2>2. back /\ accepted /\ pc = "reverse" /\ Still
    BY <1>0, <1>3, <2>1 DEF OneHop, Still
  <2>3. OneHop(TRUE, TRUE)
    BY <2>1, <2>2
  <2>4. ASSUME NEW d \in Docs PROVE AfterBoth(found[d], date[d], d)'
    <3>1. PICK paths, t : paths = found'[d] /\ t = date'[d]
      OBVIOUS
    <3>2. AfterOne(found[d], date[d], d)
      BY <1>0, <2>2 DEF HopsExact
    <3>3. AfterBoth(paths, t, d)'
      BY <1>0, <1>1, <2>0, <2>3, <3>1, <3>2, SecondQuery
    <3> QED
      BY <3>1, <3>3 DEF AfterBoth
  <2> QED
    BY <1>3, <2>4
<1>4. CASE ~OneHopStep /\ pc = pc' /\ pc \in {"reverse", "done"} /\ ~ConnectionLost
  <2>1. Quiet
    BY <1>4 DEF SearchNext, Quiet, OneHopStep, FindPaths, AskEdge, To
  <2>2. found' = found /\ date' = date /\ rejected' = rejected
    BY <1>4, <2>1, QuietKeeps DEF Quiet, searchVars, localVars, Dispatch, UseSpace, FetchStart,
       StartEdges, FinishEdges, AllLooked, To
  <2>3. Still
    BY <1>0, <2>2 DEF Still
  <2>4. /\ pc = "reverse" => \A d \in Docs : AfterOne(found[d], date[d], d)
        /\ pc = "done" => \A d \in Docs : AfterBoth(found[d], date[d], d)
    BY <1>0, <2>3 DEF HopsExact
  <2>5. ASSUME NEW d \in Docs
        PROVE  /\ pc = "reverse" => AfterOne(found[d], date[d], d)'
               /\ pc = "done" => AfterBoth(found[d], date[d], d)'
    <3>1. PICK paths, t : paths = found[d] /\ t = date[d]
      OBVIOUS
    <3>2. /\ pc = "reverse" => AfterOne(paths, t, d)'
          /\ pc = "done" => AfterBoth(paths, t, d)'
      BY <1>1, <2>4, <3>1
    <3> QED
      BY <2>2, <3>1, <3>2 DEF AfterOne, AfterBoth
  <2> QED
    BY <1>4, <2>5
<1>5. CASE Dispatch /\ pc' = "done"
  <2>1. /\ Start.system = NoSystem /\ Finish.system = NoSystem
        /\ found' = Nothing /\ date' = NoDates
    BY <1>5 DEF Dispatch, To, localVars, resultVars, Control, Untouched
  <2>2. ASSUME NEW d \in Docs PROVE AfterBoth(found[d], date[d], d)'
    <3>1. PICK paths, t : paths = found'[d] /\ t = date'[d]
      OBVIOUS
    <3>2. paths = {} /\ t = 0
      BY <2>1, <3>1 DEF Nothing, NoDates
    <3>3. AfterBoth(paths, t, d)'
      BY <1>1, <2>1, <3>2, NobodyAsked
    <3> QED
      BY <3>1, <3>3 DEF AfterBoth
  <2> QED
    BY <1>5, <2>2
<1>6. CASE UseSpace /\ pc' = "done"
  BY <1>6 DEF UseSpace, To, Statement, Still
<1>7. CASE (FetchStart \/ AllLooked) /\ pc' = "done"
  BY <1>0, <1>7 DEF FetchStart, AllLooked, To, Control
<1> QED
  <2>1. ConnectionLost => pc' \notin {"reverse", "done"}
    BY DEF ConnectionLost
  <2>2. pc' = pc \/ OneHopStep \/ pc' \notin {"reverse", "done"}
        \/ (Dispatch \/ UseSpace \/ FetchStart \/ AllLooked)
    BY <2>1 DEF SearchNext, searchVars, OneHopStep, StartEdges, FinishEdges, FindPaths, AskEdge, To, Keep
  <2> QED
    BY <1>2, <1>3, <1>4, <1>5, <1>6, <1>7, <2>1, <2>2 DEF Dispatch, UseSpace, FetchStart, AllLooked, To

\* Looking the same and being the same: two ends make a path of one edge.
LEMMA HopsOfBoth ==
  ASSUME Types, Shape, Anchor \in Systems, ~Between, NEW d \in Docs, NEW p \in found[d],
         NEW back \in BOOLEAN, NEW e \in Hops(back, d), p = HopPath(e, Anchor, back)
  PROVE  /\ p.back[1] = back /\ p.combos[1] = {e.parts}
         /\ Other(p) = Neighbour(e, Anchor)
         /\ p.nodes = IF Start.system # NoSystem THEN <<Anchor, Other(p)>> ELSE <<Other(p), Anchor>>
         /\ Other(p) # Anchor
         /\ e.consumer = IF back THEN p.nodes[2] ELSE p.nodes[1]
         /\ e.provider = IF back THEN p.nodes[1] ELSE p.nodes[2]
<1>1. /\ e \in Got(back, TRUE) /\ e \in Fresh(Graph.edges) /\ e.consumer # e.provider
      /\ IF back = (Start.system # NoSystem) THEN e.provider = Anchor ELSE e.consumer = Anchor
  BY DEF Hops, Got, HopEdges, Admitted, Rows
<1>2. /\ p.back = <<back>> /\ p.combos = <<{e.parts}>>
      /\ p.nodes = IF Start.system # NoSystem THEN <<Anchor, Neighbour(e, Anchor)>>
                                              ELSE <<Neighbour(e, Anchor), Anchor>>
      /\ Neighbour(e, Anchor) # Anchor
  BY <1>1, HopType, HopShape
<1>3. Other(p) = Neighbour(e, Anchor)
  BY <1>1, HopOther
<1> QED
  BY <1>1, <1>2, <1>3 DEF Neighbour

\* The edges the filter admits are those of the two queries.
LEMMA AdmittedEdges ==
  ASSUME Types, NEW d \in Docs
  PROVE  {e \in Interfaces(d) :
            /\ Anchor \in {e.consumer, e.provider} /\ e.consumer # e.provider
            /\ LET part == IF Start.system # NoSystem THEN Start.part ELSE Finish.part
               IN part = NoPart \/ part = e.parts[IF Start.system # NoSystem THEN 1 ELSE 2]}
         = Hops(FALSE, d) \cup Hops(TRUE, d)
BY DEF Interfaces, Hops, Got, HopEdges, Admitted, Rows, Matches

\* The document's edges in C are those in A and those in B.
Together(C, A, B, d) == \A e : e \in C /\ e.doc = d <=> (e \in A \/ e \in B) /\ e.doc = d

Current(edges) == edges \subseteq Fresh(Graph.edges)

LEMMA LatestOfTwo ==
  ASSUME Types, NEW A, NEW B, NEW C, NEW d, Current(A), Current(B), Current(C),
         Together(C, A, B, d)
  PROVE  Latest(C, d) = Later(Latest(A, d), Latest(B, d))
<1> DEFINE a == Latest(A, d)
           b == Latest(B, d)
           c == Latest(C, d)
<1>1. /\ a \in Nat /\ \A e \in A : e.doc = d => e.date <= a
      /\ a > 0 <=> \E e \in A : e.doc = d
      /\ a > 0 => \E e \in A : e.doc = d /\ e.date = a
  BY LatestHere DEF Current
<1>2. /\ b \in Nat /\ \A e \in B : e.doc = d => e.date <= b
      /\ b > 0 <=> \E e \in B : e.doc = d
      /\ b > 0 => \E e \in B : e.doc = d /\ e.date = b
  BY LatestHere DEF Current
<1>3. /\ c \in Nat /\ \A e \in C : e.doc = d => e.date <= c
      /\ c > 0 <=> \E e \in C : e.doc = d
      /\ c > 0 => \E e \in C : e.doc = d /\ e.date = c
  BY LatestHere DEF Current
<1> HIDE DEF a, b, c
<1>0. \A e : e \in C /\ e.doc = d <=> (e \in A \/ e \in B) /\ e.doc = d
  BY DEF Together
<1>4. a <= c
  BY <1>0, <1>1, <1>3
<1>5. b <= c
  BY <1>0, <1>2, <1>3
<1>6. c <= a \/ c <= b
  <2>1. CASE c = 0
    BY <1>1, <2>1
  <2>2. CASE c > 0
    BY <1>0, <1>1, <1>2, <1>3, <2>2
  <2> QED
    BY <1>3, <2>1, <2>2
<1>7. c = Later(a, b)
  BY <1>1, <1>2, <1>3, <1>4, <1>5, <1>6 DEF Later
<1> QED
  BY <1>7 DEF a, b, c

OneEach(d, E) ==
  /\ {Other(p) : p \in found[d]} = {Neighbour(e, Anchor) : e \in E}
  /\ \A p \in found[d] : Other(p) = IF p.nodes[1] = Anchor THEN p.nodes[2] ELSE p.nodes[1]
  /\ \A p, q \in found[d] : Other(p) = Other(q) => p = q
  /\ \A p \in found[d] :
       LET along   == Step(E, p.nodes[1], p.nodes[2], FALSE)
           against == Step(E, p.nodes[1], p.nodes[2], TRUE)
       IN /\ p.back[1] <=> along = {}
          /\ \E e \in along \cup against : p.combos[1] = {e.parts}
  /\ date[d] = Latest(E, d)

LEMMA BothIsExact ==
  ASSUME Types, Shape, ~Between, Anchor \in Systems, NEW d \in Docs,
         AfterBoth(found[d], date[d], d),
         NEW E, E = Hops(FALSE, d) \cup Hops(TRUE, d)
  PROVE  OneEach(d, E)
<1>1. \A p \in found[d] : \E back \in BOOLEAN : \E e \in Hops(back, d) :
        /\ p = HopPath(e, Anchor, back)
        /\ back => Neighbour(e, Anchor) \notin Neighbours(FALSE, d)
  BY DEF AfterBoth
<1>2. ASSUME NEW p \in found[d]
      PROVE  /\ Other(p) \in {Neighbour(e, Anchor) : e \in E}
             /\ p.nodes = IF Start.system # NoSystem THEN <<Anchor, Other(p)>> ELSE <<Other(p), Anchor>>
             /\ Other(p) # Anchor
             /\ p.back[1] <=> Step(E, p.nodes[1], p.nodes[2], FALSE) = {}
             /\ \E e \in Step(E, p.nodes[1], p.nodes[2], FALSE) \cup
                         Step(E, p.nodes[1], p.nodes[2], TRUE) : p.combos[1] = {e.parts}
  <2>1. PICK back \in BOOLEAN, e \in E :
          /\ e \in Hops(back, d) /\ p = HopPath(e, Anchor, back)
          /\ back => Neighbour(e, Anchor) \notin Neighbours(FALSE, d)
    BY <1>1
  <2>2. /\ p.back[1] = back /\ p.combos[1] = {e.parts}
        /\ Other(p) = Neighbour(e, Anchor)
        /\ p.nodes = IF Start.system # NoSystem THEN <<Anchor, Other(p)>> ELSE <<Other(p), Anchor>>
        /\ Other(p) # Anchor
        /\ e.consumer = IF back THEN p.nodes[2] ELSE p.nodes[1]
        /\ e.provider = IF back THEN p.nodes[1] ELSE p.nodes[2]
    BY <2>1, HopsOfBoth
  <2>3. e \in Step(E, p.nodes[1], p.nodes[2], back)
    BY <2>2 DEF Step
  <2>4. ASSUME back, NEW x \in Step(E, p.nodes[1], p.nodes[2], FALSE) PROVE FALSE
    <3>1. x \in E /\ x.consumer = p.nodes[1] /\ x.provider = p.nodes[2]
      BY <2>4 DEF Step
    <3>2. p.nodes[1] = IF Start.system # NoSystem THEN Anchor ELSE Other(p)
      BY <2>2
    <3>3. p.nodes[2] = IF Start.system # NoSystem THEN Other(p) ELSE Anchor
      BY <2>2
    <3>4. x \in Hops(FALSE, d)
      BY <2>2, <3>1, <3>2, <3>3 DEF Hops, Got, HopEdges, Rows
    <3>5. Neighbour(x, Anchor) = Other(p)
      BY <2>2, <3>1, <3>2, <3>3 DEF Neighbour
    <3> QED
      BY <2>1, <2>2, <2>4, <3>4, <3>5 DEF Neighbours
  <2>5. p.back[1] <=> Step(E, p.nodes[1], p.nodes[2], FALSE) = {}
    BY <2>2, <2>3, <2>4
  <2>6. \E y \in Step(E, p.nodes[1], p.nodes[2], FALSE) \cup
                 Step(E, p.nodes[1], p.nodes[2], TRUE) : p.combos[1] = {y.parts}
    BY <2>2, <2>3
  <2> QED
    BY <2>1, <2>2, <2>5, <2>6
<1>3. \A n \in Neighbours(FALSE, d) \cup Neighbours(TRUE, d) : \E p \in found[d] : Other(p) = n
  BY DEF AfterBoth
<1>4. {Neighbour(e, Anchor) : e \in E} = Neighbours(FALSE, d) \cup Neighbours(TRUE, d)
  BY DEF Neighbours
<1>5. {Other(p) : p \in found[d]} = {Neighbour(e, Anchor) : e \in E}
  <2>1. \A p \in found[d] : Other(p) \in {Neighbour(e, Anchor) : e \in E}
    BY <1>2
  <2>2. \A n \in {Neighbour(e, Anchor) : e \in E} : \E p \in found[d] : Other(p) = n
    BY <1>3, <1>4
  <2> QED
    BY <2>1, <2>2
<1>6. ASSUME NEW p \in found[d]
      PROVE  Other(p) = IF p.nodes[1] = Anchor THEN p.nodes[2] ELSE p.nodes[1]
  <2>1. /\ p.nodes = IF Start.system # NoSystem THEN <<Anchor, Other(p)>> ELSE <<Other(p), Anchor>>
        /\ Other(p) # Anchor
    BY <1>2
  <2> QED
    BY <2>1
<1>7. ASSUME NEW p \in found[d], NEW q \in found[d], Other(p) = Other(q) PROVE p = q
  <2>1. /\ p.nodes = IF Start.system # NoSystem THEN <<Anchor, Other(p)>> ELSE <<Other(p), Anchor>>
        /\ q.nodes = IF Start.system # NoSystem THEN <<Anchor, Other(q)>> ELSE <<Other(q), Anchor>>
    BY <1>2
  <2>2. p.nodes = q.nodes
    BY <1>7, <2>1
  <2> QED
    BY <2>2 DEF Shape
<1>8. date[d] = Latest(E, d)
  <2>1. Current(Got(FALSE, TRUE)) /\ Current(Got(TRUE, TRUE)) /\ Current(E)
    BY DEF Current, Got, HopEdges, Admitted, Rows, Hops
  <2>2. Together(E, Got(FALSE, TRUE), Got(TRUE, TRUE), d)
    BY DEF Hops, Together
  <2>3. Latest(E, d) = Later(Latest(Got(FALSE, TRUE), d), Latest(Got(TRUE, TRUE), d))
    <3>0. \A C, A, B, x : /\ Current(A) /\ Current(B) /\ Current(C)
                          /\ Together(C, A, B, x)
                          => Latest(C, x) = Later(Latest(A, x), Latest(B, x))
      BY LatestOfTwo
    <3>1. PICK A, B : A = Got(FALSE, TRUE) /\ B = Got(TRUE, TRUE)
      OBVIOUS
    <3>2. Current(A) /\ Current(B) /\ Current(E) /\ Together(E, A, B, d)
      BY <2>1, <2>2, <3>1
    <3>3. Latest(E, d) = Later(Latest(A, d), Latest(B, d))
      BY <3>0, <3>2
    <3> QED
      BY <3>1, <3>3
  <2> QED
    BY <2>3 DEF AfterBoth
<1>9. \A p \in found[d] :
        /\ p.back[1] <=> Step(E, p.nodes[1], p.nodes[2], FALSE) = {}
        /\ \E e \in Step(E, p.nodes[1], p.nodes[2], FALSE) \cup
                    Step(E, p.nodes[1], p.nodes[2], TRUE) : p.combos[1] = {e.parts}
  BY <1>2
<1> QED
  BY <1>5, <1>6, <1>7, <1>8, <1>9 DEF OneEach

HopInv == SearchInv /\ HopsExact

LEMMA HopInvHolds == SearchSpec => []HopInv
<1>1. SearchInit => HopInv
  BY TypesInitially, ControlInitially, ShapeInitially, AllThereInitially, HopsExactInitially
     DEF HopInv, SearchInv
<1>2. HopInv /\ [SearchNext]_searchVars => HopInv'
  BY TypesKept, ControlKept, ShapeKept, AllThereKept, HopsExactKept DEF HopInv, SearchInv
<1> QED
  BY <1>1, <1>2, PTL DEF SearchSpec

\* The one-hop searches, for any graph: when nothing was rejected and the graph
\* stood still, each neighbour of each document once, along the arrow where it can
\* be, with parts the document has for it, and the latest date.
THEOREM OneHopIsExact == SearchSpec => []OneHopExact
<1>1. HopInv => OneHopExact
  <2> SUFFICES ASSUME HopInv, Undisturbed, ~Between PROVE OneHopExact
    BY DEF OneHopExact
  <2> DEFINE a == IF Start.system # NoSystem THEN Start.system ELSE Finish.system
             side(e, p) == p = NoPart \/ p = e.parts[IF Start.system # NoSystem THEN 1 ELSE 2]
             E(d) == {e \in Interfaces(d) :
                       /\ a \in {e.consumer, e.provider} /\ e.consumer # e.provider
                       /\ side(e, IF Start.system # NoSystem THEN Start.part ELSE Finish.part)}
             other(p) == IF p.nodes[1] = a THEN p.nodes[2] ELSE p.nodes[1]
  <2>1. Types /\ Control /\ Shape /\ \A d \in Docs : AfterBoth(found[d], date[d], d)
    BY DEF HopInv, SearchInv, HopsExact, Undisturbed, Still
  <2>2. a = Anchor
    BY DEF Anchor
  <2>3. ASSUME NEW d \in Docs PROVE E(d) = Hops(FALSE, d) \cup Hops(TRUE, d)
    BY <2>1, <2>2, AdmittedEdges
  <2>4. ASSUME NEW d \in Docs
        PROVE  /\ {other(p) : p \in found[d]} = {Neighbour(e, a) : e \in E(d)}
               /\ \A p, q \in found[d] : other(p) = other(q) => p = q
               /\ \A p \in found[d] :
                    LET along   == Step(E(d), p.nodes[1], p.nodes[2], FALSE)
                        against == Step(E(d), p.nodes[1], p.nodes[2], TRUE)
                    IN /\ p.back[1] <=> along = {}
                       /\ \E e \in along \cup against : p.combos[1] = {e.parts}
               /\ date[d] = Latest(E(d), d)
    <3>1. CASE Anchor \in Systems
      <4>1. PICK S : S = E(d)
        OBVIOUS
      <4>2. /\ {Other(p) : p \in found[d]} = {Neighbour(e, Anchor) : e \in S}
            /\ \A p \in found[d] : Other(p) = IF p.nodes[1] = Anchor THEN p.nodes[2] ELSE p.nodes[1]
            /\ \A p, q \in found[d] : Other(p) = Other(q) => p = q
            /\ \A p \in found[d] :
                 LET along   == Step(S, p.nodes[1], p.nodes[2], FALSE)
                     against == Step(S, p.nodes[1], p.nodes[2], TRUE)
                 IN /\ p.back[1] <=> along = {}
                    /\ \E e \in along \cup against : p.combos[1] = {e.parts}
            /\ date[d] = Latest(S, d)
        <5>1. S = Hops(FALSE, d) \cup Hops(TRUE, d)
          BY <2>3, <4>1
        <5>2. OneEach(d, S)
          BY <2>1, <3>1, <5>1, BothIsExact
        <5> QED
          BY <5>2 DEF OneEach
      <4>3. \A p \in found[d] : other(p) = Other(p)
        BY <2>2, <4>2
      <4> HIDE DEF E
      <4>4. {other(p) : p \in found[d]} = {Neighbour(e, a) : e \in E(d)}
        BY <2>2, <4>1, <4>2, <4>3
      <4>5. \A p, q \in found[d] : other(p) = other(q) => p = q
        BY <4>2, <4>3
      <4> QED
        BY <4>1, <4>2, <4>4, <4>5
    <3>2. CASE Anchor \notin Systems
      <4>1. Start.system = NoSystem /\ Finish.system = NoSystem
        BY <2>1, <3>2, RequestType DEF Anchor, Filter
      <4>2. found[d] = {} /\ date[d] = 0
        BY <2>1, <4>1 DEF Control, Untouched, Nothing, NoDates
      <4>3. E(d) = {}
        <5>1. \A e \in Fresh(Graph.edges) : e.consumer \in Systems /\ e.provider \in Systems
          BY <2>1, GraphType, EdgesOfGraph
        <5> QED
          BY <2>2, <3>2, <5>1 DEF Interfaces
      <4>4. Latest({}, d) = 0
        BY DEF Latest
      <4> HIDE DEF E
      <4> QED
        BY <4>2, <4>3, <4>4
    <3> QED
      BY <3>1, <3>2
  <2> QED
    BY <2>4 DEF OneHopExact
<1> QED
  BY HopInvHolds, <1>1, PTL

-----------------------------------------------------------------------------
(***************************************************************************)
(* The search between two systems on a graph that stands still.  A         *)
(* document is exact once it has been looked at: what the rows in hand do  *)
(* not cover yet is the only thing that is missing.                        *)
(***************************************************************************)
StartSide == {e \in Fresh(Incident(Start.system)) : Matches(Start, e.parts[1])}

FinishSide == Fresh(Incident(Finish.system))

All(d) == PathRows(Interfaces(d), Start.system, Finish.system)

Reach(d) == {p.nodes : p \in All(d)}

StepParts(d, p, i) ==
  {e.parts : e \in Step(Interfaces(d), p.nodes[i], p.nodes[i + 1], p.back[i])}

Full(parts, d, p, i) == parts = StepParts(d, p, i) /\ parts # {}

\* The dates that are known at a statement.
DatesKnown(at, out, in) ==
  /\ at \in {"starts", "finishes", "paths", "edges"} => Start.system \in Graph.systems
  /\ at \in {"finishes", "paths", "edges"} => \A d \in Docs : out[d] = Latest(StartSide, d)
  /\ at \in {"paths", "edges"} => \A d \in Docs : in[d] = Latest(FinishSide, d)

\* What is in hand belongs to the document in hand.
InHandReal(d, rs, cs) ==
  /\ \A i \in DOMAIN rs : rs[i] \in All(d)
  /\ \A i \in DOMAIN cs : Full(cs[i], d, Head(rs), i)

FoundReal(paths, t, d) ==
  /\ \A p \in paths : \A i \in Steps(p) : Full(p.combos[i], d, p, i)
  /\ paths # {} => /\ Latest(StartSide, d) > 0 /\ Latest(FinishSide, d) > 0
                   /\ t = Later(Latest(StartSide, d), Latest(FinishSide, d))

\* Nothing of the document is missing but for the rows in hand.
Covers(paths, rs, d) == {p.nodes : p \in paths} \cup {rs[i].nodes : i \in DOMAIN rs} = Reach(d)

Looked(d, at, td, out, in) ==
  at \in {"paths", "edges"} /\ d \notin td /\ out[d] > 0 /\ in[d] > 0

Finished(paths, d) ==
  {p.nodes : p \in paths} = IF Start.system \in Graph.systems /\ Latest(StartSide, d) > 0
                              THEN Reach(d) ELSE {}

Progress ==
  /\ DatesKnown(pc, outDate, inDate)
  /\ InHandReal(doc, rows, combos)
  /\ \A d \in Docs : FoundReal(found[d], date[d], d)
  /\ \A d \in Docs : Looked(d, pc, todo, outDate, inDate) =>
                     Covers(found[d], IF d = doc THEN rows ELSE <<>>, d)
  /\ pc = "done" => \A d \in Docs : Finished(found[d], d)

BetweenExact == Between /\ Still => Progress

LEMMA SameSides ==
  ASSUME UNCHANGED <<db, request>>
  PROVE  /\ StartSide' = StartSide /\ FinishSide' = FinishSide /\ Graph' = Graph
         /\ \A d : All(d)' = All(d) /\ Reach(d)' = Reach(d)
         /\ \A parts, d, p, i : Full(parts, d, p, i)' <=> Full(parts, d, p, i)
<1>1. Start' = Start /\ Finish' = Finish /\ Graph' = Graph
  BY SameRequest DEF Graph
<1>2. StartSide' = StartSide /\ FinishSide' = FinishSide
  BY <1>1 DEF StartSide, FinishSide, Incident, Out, In
<1>3. \A d : Interfaces(d)' = Interfaces(d)
  BY <1>1 DEF Interfaces
<1>4. \A d : All(d)' = All(d)
  BY <1>1, <1>3 DEF All
<1>5. \A d : Reach(d)' = Reach(d)
  BY <1>4 DEF Reach
<1>6. \A parts, d, p, i : Full(parts, d, p, i)' <=> Full(parts, d, p, i)
  BY <1>3 DEF Full, StepParts
<1> QED
  BY <1>1, <1>2, <1>4, <1>5, <1>6

\* A connection is a way along edges whose arrows may point either way.
LEMMA ReachIsLinked ==
  ASSUME NEW d
  PROVE  Reach(d) = {n \in NodeSequences(Start.system, Finish.system) :
           \A i \in 1..Len(n) - 1 :
             \E e \in Interfaces(d) : {e.consumer, e.provider} = {n[i], n[i + 1]}}
<1> DEFINE linked(n) == \A i \in 1..Len(n) - 1 :
             \E e \in Interfaces(d) : {e.consumer, e.provider} = {n[i], n[i + 1]}
<1>1. ASSUME NEW p \in All(d)
      PROVE  p.nodes \in NodeSequences(Start.system, Finish.system) /\ linked(p.nodes)
  <2>1. /\ p \in Row /\ p.nodes \in NodeSequences(Start.system, Finish.system)
        /\ \A i \in DOMAIN p.back : Step(Interfaces(d), p.nodes[i], p.nodes[i + 1], p.back[i]) # {}
    BY <1>1, RowsArePaths DEF All
  <2>2. DOMAIN p.back = 1..Len(p.nodes) - 1
    BY <2>1, LenProperties DEF Row
  <2>3. ASSUME NEW i \in 1..Len(p.nodes) - 1
        PROVE  \E e \in Interfaces(d) : {e.consumer, e.provider} = {p.nodes[i], p.nodes[i + 1]}
    <3>1. PICK e \in Interfaces(d) :
            /\ e.consumer = IF p.back[i] THEN p.nodes[i + 1] ELSE p.nodes[i]
            /\ e.provider = IF p.back[i] THEN p.nodes[i] ELSE p.nodes[i + 1]
      BY <2>1, <2>2 DEF Step
    <3> QED
      BY <3>1
  <2> QED
    BY <2>1, <2>3
<1>2. ASSUME NEW n \in NodeSequences(Start.system, Finish.system), linked(n)
      PROVE  n \in Reach(d)
  <2> DEFINE forward(i) == \E e \in Interfaces(d) : e.consumer = n[i] /\ e.provider = n[i + 1]
             s == [i \in 1..Len(n) - 1 |-> ~forward(i)]
             p == [nodes |-> n, back |-> s]
  <2>1. ASSUME NEW i \in 1..Len(n) - 1 PROVE Step(Interfaces(d), n[i], n[i + 1], s[i]) # {}
    <3>1. CASE forward(i)
      <4>1. s[i] = FALSE
        BY <3>1
      <4> QED
        BY <3>1, <4>1 DEF Step
    <3>2. CASE ~forward(i)
      <4>1. s[i] = TRUE
        BY <3>2
      <4>2. PICK e \in Interfaces(d) : {e.consumer, e.provider} = {n[i], n[i + 1]}
        BY <1>2
      <4>3. e.consumer = n[i + 1] /\ e.provider = n[i]
        BY <3>2, <4>2
      <4> QED
        BY <4>1, <4>3 DEF Step
    <3> QED
      BY <3>1, <3>2
  <2>2. s \in [1..Len(n) - 1 -> BOOLEAN]
    OBVIOUS
  <2> HIDE DEF s
  <2>3. DOMAIN s = 1..Len(n) - 1
    BY <2>2
  <2>4. p \in {[nodes |-> n, back |-> arrows] : arrows \in
            {t \in [1..Len(n) - 1 -> BOOLEAN] :
               \A i \in DOMAIN t : Step(Interfaces(d), n[i], n[i + 1], t[i]) # {}}}
    BY <2>1, <2>2, <2>3
  <2>5. p \in All(d)
    BY <2>4 DEF All, PathRows
  <2> QED
    BY <2>5 DEF Reach
<1> HIDE DEF linked
<1>3. Reach(d) = {n \in NodeSequences(Start.system, Finish.system) : linked(n)}
  BY <1>1, <1>2 DEF Reach
<1> QED
  BY <1>3 DEF linked

\* What reaches the finish ends in an edge there.
LEMMA ReachTouches ==
  ASSUME Types, NEW d \in Docs, Reach(d) # {}
  PROVE  Latest(FinishSide, d) > 0
<1>1. PICK p \in All(d) : TRUE
  BY DEF Reach
<1>2. /\ p \in Row /\ p.nodes[Len(p.nodes)] = Finish.system
      /\ \A i \in DOMAIN p.back : Step(Interfaces(d), p.nodes[i], p.nodes[i + 1], p.back[i]) # {}
  BY <1>1, RowsArePaths DEF All
<1>3. DOMAIN p.back = 1..Len(p.back) /\ Len(p.back) \in Nat \ {0} /\ Len(p.nodes) = Len(p.back) + 1
  BY <1>2, LenProperties DEF Row
<1>9. PICK i \in DOMAIN p.back : i = Len(p.back) /\ i + 1 = Len(p.nodes)
  BY <1>3
<1>4. PICK e : e \in Step(Interfaces(d), p.nodes[i], p.nodes[i + 1], p.back[i])
  BY <1>2
<1>5. /\ e \in Fresh(Graph.edges) /\ e.doc = d
      /\ e.consumer = Finish.system \/ e.provider = Finish.system
  BY <1>2, <1>9, <1>4 DEF Step, Interfaces
<1>6. e \in FinishSide
  BY <1>5 DEF FinishSide, Incident, In, Out, Fresh
<1>7. FinishSide \in SUBSET Fresh(Graph.edges)
  BY StatementEdges DEF FinishSide
<1> QED
  BY <1>5, <1>6, <1>7, LatestHere

\* What a state must have to be such a state, when the database and the request
\* are as they were.
LEMMA SameProgress ==
  ASSUME UNCHANGED <<db, request>>
  PROVE  /\ \A at, out, in : DatesKnown(at, out, in)' <=> DatesKnown(at, out, in)
         /\ \A d, rs, cs : InHandReal(d, rs, cs)' <=> InHandReal(d, rs, cs)
         /\ \A paths, t, d : FoundReal(paths, t, d)' <=> FoundReal(paths, t, d)
         /\ \A paths, rs, d : Covers(paths, rs, d)' <=> Covers(paths, rs, d)
         /\ \A paths, d : Finished(paths, d)' <=> Finished(paths, d)
<1>0. /\ StartSide' = StartSide /\ FinishSide' = FinishSide /\ Graph' = Graph /\ Start' = Start
      /\ \A d : All(d)' = All(d) /\ Reach(d)' = Reach(d)
      /\ \A parts, d, p, i : Full(parts, d, p, i)' <=> Full(parts, d, p, i)
  BY SameSides, SameRequest
<1>1. \A d : /\ Latest(StartSide, d)' = Latest(StartSide, d)
             /\ Latest(FinishSide, d)' = Latest(FinishSide, d)
  BY <1>0
<1>2. \A at, out, in : DatesKnown(at, out, in)' <=> DatesKnown(at, out, in)
  BY <1>0, <1>1 DEF DatesKnown
<1>3. \A d, rs, cs : InHandReal(d, rs, cs)' <=> InHandReal(d, rs, cs)
  BY <1>0 DEF InHandReal
<1>4. \A paths, t, d : FoundReal(paths, t, d)' <=> FoundReal(paths, t, d)
  BY <1>0, <1>1 DEF FoundReal, Steps
<1>5. \A paths, rs, d : Covers(paths, rs, d)' <=> Covers(paths, rs, d)
  BY <1>0 DEF Covers
<1>6. \A paths, d : Finished(paths, d)' <=> Finished(paths, d)
  BY <1>0, <1>1 DEF Finished
<1> QED
  BY <1>2, <1>3, <1>4, <1>5, <1>6

LEMMA ProgressAfter ==
  ASSUME UNCHANGED <<db, request>>,
         DatesKnown(pc', outDate', inDate'),
         InHandReal(doc', rows', combos'),
         \A d \in Docs : FoundReal(found'[d], date'[d], d),
         \A d \in Docs : Looked(d, pc', todo', outDate', inDate') =>
                           Covers(found'[d], IF d = doc' THEN rows' ELSE <<>>, d),
         pc' = "done" => \A d \in Docs : Finished(found'[d], d)
  PROVE  Progress'
<1>1. PICK at, out, in, dc, rs, cs, td, f, t :
        /\ at = pc' /\ out = outDate' /\ in = inDate' /\ dc = doc' /\ rs = rows'
        /\ cs = combos' /\ td = todo' /\ f = found' /\ t = date'
  OBVIOUS
<1>2. DatesKnown(at, out, in)'
  BY <1>1, SameProgress
<1>3. InHandReal(dc, rs, cs)'
  BY <1>1, SameProgress
<1>4. \A d \in Docs : FoundReal(f[d], t[d], d)'
  <2> SUFFICES ASSUME NEW d \in Docs PROVE FoundReal(f[d], t[d], d)'
    OBVIOUS
  <2>1. PICK paths, u : paths = f[d] /\ u = t[d]
    OBVIOUS
  <2>2. FoundReal(paths, u, d)'
    BY <1>1, <2>1, SameProgress
  <2> QED
    BY <2>1, <2>2
<1>5. \A d \in Docs : Looked(d, at, td, out, in)' => Covers(f[d], IF d = dc THEN rs ELSE <<>>, d)'
  <2> SUFFICES ASSUME NEW d \in Docs, Looked(d, at, td, out, in)
               PROVE  Covers(f[d], IF d = dc THEN rs ELSE <<>>, d)'
    BY DEF Looked
  <2>1. PICK paths, seq : paths = f[d] /\ seq = IF d = dc THEN rs ELSE <<>>
    OBVIOUS
  <2>2. Covers(paths, seq, d)'
    BY <1>1, <2>1, SameProgress
  <2> QED
    BY <2>1, <2>2
<1>6. at = "done" => \A d \in Docs : Finished(f[d], d)'
  <2> SUFFICES ASSUME NEW d \in Docs, at = "done" PROVE Finished(f[d], d)'
    OBVIOUS
  <2>1. PICK paths : paths = f[d]
    OBVIOUS
  <2>2. Finished(paths, d)'
    BY <1>1, <2>1, SameProgress
  <2> QED
    BY <2>1, <2>2
<1> QED
  BY <1>1, <1>2, <1>3, <1>4, <1>5, <1>6 DEF Progress

LEMMA ProgressInitially == SearchInit => BetweenExact
<1> SUFFICES ASSUME SearchInit PROVE Progress
  BY DEF BetweenExact
<1>1. /\ rows = <<>> /\ combos = <<>> /\ pc = "call"
      /\ found = [d \in Docs |-> {}] /\ date = [d \in Docs |-> 0]
  BY DEF SearchInit, Nothing, NoDates
<1>2. DOMAIN rows = {} /\ DOMAIN combos = {}
  BY <1>1
<1> QED
  BY <1>1, <1>2 DEF Progress, DatesKnown, InHandReal, FoundReal, Looked

\* An attempt without results has nothing in hand either.
LEMMA NothingYet ==
  ASSUME UNCHANGED <<db, request>>, pc' \in {"use", "system", "starts", "finishes", "gave up", "failed"},
         rows' = <<>>, combos' = <<>>, found' = Nothing,
         DatesKnown(pc', outDate', inDate')
  PROVE  Progress'
<1>0. \A d \in Docs : found'[d] = {}
  BY DEF Nothing
<1>1. DOMAIN rows' = {} /\ DOMAIN combos' = {}
  BY NoPlaces
<1>2. InHandReal(doc', rows', combos')
  BY <1>1 DEF InHandReal
<1>3. \A d \in Docs : FoundReal(found'[d], date'[d], d)
  BY <1>0 DEF FoundReal
<1>4. \A d \in Docs : ~Looked(d, pc', todo', outDate', inDate')
  BY DEF Looked
<1> QED
  BY <1>2, <1>3, <1>4, ProgressAfter

\* The statements before the paths of a document are asked for.
LEMMA FirstStatements ==
  ASSUME Types, Control, Between, Still', UNCHANGED <<db, request>>, BetweenExact,
         Dispatch \/ UseSpace \/ FetchStart \/ StartEdges
  PROVE  Progress'
<1>1. Still /\ Progress
  <2>1. rejected => rejected'
    BY DEF Dispatch, UseSpace, FetchStart, StartEdges, Statement, localVars
  <2> QED
    BY <2>1 DEF Still, BetweenExact
<1>2. /\ pc \in {"call", "use", "system", "starts"} /\ UNCHANGED <<rows, combos, found, date>>
  BY DEF Dispatch, UseSpace, FetchStart, StartEdges, To, localVars, pathVars, resultVars
<1>3. rows' = <<>> /\ combos' = <<>> /\ found' = Nothing
  BY <1>2 DEF Control, Untouched
<1>4. CASE Dispatch \/ UseSpace
  <2>1. pc' \in {"use", "system"}
    BY <1>4 DEF Dispatch, UseSpace, To, Between, Statement, Still
  <2> QED
    BY <1>3, <2>1, NothingYet DEF DatesKnown
<1>5. CASE FetchStart
  <2>1. pc' = IF Start.system \in Graph.systems THEN "starts" ELSE "done"
    BY <1>5 DEF FetchStart, To, Statement, Still
  <2>2. CASE Start.system \in Graph.systems
    BY <1>3, <2>1, <2>2, NothingYet DEF DatesKnown
  <2>3. CASE Start.system \notin Graph.systems
    <3>1. \A d \in Docs : found'[d] = {}
      BY <1>3 DEF Nothing
    <3>2. \A d \in Docs : Finished(found'[d], d)
      BY <2>3, <3>1 DEF Finished
    <3>3. InHandReal(doc', rows', combos')
      <4>1. DOMAIN rows' = {} /\ DOMAIN combos' = {}
        BY <1>3
      <4> QED
        BY <4>1 DEF InHandReal
    <3>4. \A d \in Docs : FoundReal(found'[d], date'[d], d)
      BY <3>1 DEF FoundReal
    <3>5. \A d \in Docs : ~Looked(d, pc', todo', outDate', inDate')
      BY <2>1, <2>3 DEF Looked
    <3>6. DatesKnown(pc', outDate', inDate')
      BY <2>1, <2>3 DEF DatesKnown
    <3> QED
      BY <3>2, <3>3, <3>4, <3>5, <3>6, ProgressAfter
  <2> QED
    BY <2>2, <2>3
<1>6. CASE StartEdges
  <2>1. PICK accepted \in Accepted :
          /\ rejected' = (rejected \/ ~accepted)
          /\ outDate' = [d \in Docs |-> Latest(Rows(accepted, StartSide), d)]
    BY <1>6 DEF StartEdges, Statement, StartSide
  <2>2. accepted
    BY <2>1 DEF Still, Accepted
  <2>3. \A d \in Docs : outDate'[d] = Latest(StartSide, d)
    BY <2>1, <2>2 DEF Rows
  <2>4. pc = "starts" /\ pc' = "finishes"
    BY <1>6 DEF StartEdges, To
  <2>5. Start.system \in Graph.systems
    BY <1>1, <2>4 DEF Progress, DatesKnown
  <2> QED
    BY <1>3, <2>3, <2>4, <2>5, NothingYet DEF DatesKnown
<1> QED
  BY <1>4, <1>5, <1>6

LEMMA FinishStatement ==
  ASSUME Types, Control, Between, Still', UNCHANGED <<db, request>>, BetweenExact, FinishEdges
  PROVE  Progress'
<1>1. PICK accepted \in Accepted :
        /\ rejected' = (rejected \/ ~accepted)
        /\ inDate' = [d \in Docs |-> Latest(Rows(accepted, FinishSide), d)]
  BY DEF FinishEdges, Statement, FinishSide
<1>2. accepted /\ Still /\ Progress
  BY <1>1 DEF Still, BetweenExact, Accepted
<1>3. /\ pc = "finishes" /\ pc' = "paths" /\ UNCHANGED <<outDate, rows, combos, found, date>>
      /\ todo' = {d \in Docs : outDate[d] > 0 /\ inDate'[d] > 0}
  BY DEF FinishEdges, To, pathVars, resultVars
<1>4. \A d \in Docs : inDate'[d] = Latest(FinishSide, d)
  BY <1>1, <1>2 DEF Rows
<1>5. DatesKnown(pc', outDate', inDate')
  BY <1>2, <1>3, <1>4 DEF Progress, DatesKnown
<1>6. /\ DOMAIN rows' = {} /\ DOMAIN combos' = {} /\ \A d \in Docs : found'[d] = {}
  BY <1>3 DEF Control, Untouched, Nothing
<1>7. InHandReal(doc', rows', combos') /\ \A d \in Docs : FoundReal(found'[d], date'[d], d)
  BY <1>6 DEF InHandReal, FoundReal
<1>8. \A d \in Docs : ~Looked(d, pc', todo', outDate', inDate')
  BY <1>3 DEF Looked
<1> QED
  BY <1>3, <1>5, <1>7, <1>8, ProgressAfter

\* The paths of a document: of those over the same systems one stays, so
\* nothing the document connects is missing.
LEMMA PathStatement ==
  ASSUME Types, Control, Between, Still', UNCHANGED <<db, request>>, BetweenExact,
         NEW d \in Docs, FindPaths(d)
  PROVE  Progress'
<1>0. PICK accepted \in BOOLEAN : \E first \in FirstRows(Rows(accepted, All(d))) :
        /\ rejected' = (rejected \/ ~accepted)
        /\ first \subseteq All(d) /\ rows' \in Seq(first)
        /\ \A p \in first : \E i \in DOMAIN rows' : rows'[i] = p
  BY FoundPaths DEF All
<1>1. PICK first \in FirstRows(Rows(accepted, All(d))) :
        /\ rejected' = (rejected \/ ~accepted)
        /\ first \subseteq All(d) /\ rows' \in Seq(first)
        /\ \A p \in first : \E i \in DOMAIN rows' : rows'[i] = p
  BY <1>0
<1>2. accepted /\ Still /\ Progress
  BY <1>1 DEF Still, BetweenExact
<1>3. /\ pc = "paths" /\ pc' \in {"paths", "edges"} /\ UNCHANGED <<outDate, inDate, combos, found, date>>
      /\ d \in todo /\ todo' = todo \ {d} /\ doc' = d
  BY DEF FindPaths, To, docVars, resultVars
<1>4. found[d] = {} /\ rows = <<>> /\ DOMAIN combos = {}
  BY <1>3 DEF Control
<1>5. {p.nodes : p \in first} = Reach(d)
  BY <1>1, <1>2 DEF FirstRows, Rows, Reach
<1>6. \A i \in DOMAIN rows' : rows'[i] \in first
  BY <1>1, ElementOfSeq, LenProperties
<1>7. {rows'[i].nodes : i \in DOMAIN rows'} = {p.nodes : p \in first}
  BY <1>1, <1>6
<1>8. Covers(found'[d], rows', d)
  BY <1>3, <1>4, <1>5, <1>7 DEF Covers
<1>9. \A c \in Docs : Looked(c, pc', todo', outDate', inDate') =>
                        Covers(found'[c], IF c = doc' THEN rows' ELSE <<>>, c)
  <2> SUFFICES ASSUME NEW c \in Docs, Looked(c, pc', todo', outDate', inDate')
               PROVE  Covers(found'[c], IF c = doc' THEN rows' ELSE <<>>, c)
    OBVIOUS
  <2>1. CASE c = d
    BY <1>3, <1>8, <2>1
  <2>2. CASE c # d
    <3>1. Looked(c, pc, todo, outDate, inDate)
      BY <1>3, <2>2 DEF Looked
    <3>2. Covers(found[c], IF c = doc THEN rows ELSE <<>>, c)
      BY <1>2, <3>1 DEF Progress
    <3>3. (IF c = doc THEN rows ELSE <<>>) = <<>> /\ (IF c = doc' THEN rows' ELSE <<>>) = <<>>
      BY <1>3, <1>4, <2>2
    <3> QED
      BY <1>3, <3>2, <3>3
  <2> QED
    BY <2>1, <2>2
<1>10. DatesKnown(pc', outDate', inDate')
  BY <1>2, <1>3 DEF Progress, DatesKnown
<1>11. InHandReal(doc', rows', combos')
  BY <1>1, <1>3, <1>4, <1>6 DEF InHandReal
<1>12. \A c \in Docs : FoundReal(found'[c], date'[c], c)
  BY <1>2, <1>3 DEF Progress
<1> QED
  BY <1>3, <1>9, <1>10, <1>11, <1>12, ProgressAfter

\* The edges of the step a row has in hand all answer, and there is one.
LEMMA AnswerIsFull ==
  ASSUME Types, Control, Progress, pc = "edges"
  PROVE  /\ Full(EdgeAnswer(TRUE), doc, Head(rows), Len(combos) + 1)
         /\ \A i \in DOMAIN Append(combos, EdgeAnswer(TRUE)) :
              Full(Append(combos, EdgeAnswer(TRUE))[i], doc, Head(rows), i)
<1> DEFINE next == Len(combos) + 1
<1>1. Head(rows) \in All(doc) /\ next \in 1..Len(Head(rows).back)
  BY PathInHand DEF Progress, InHandReal
<1>2. /\ Head(rows) \in Row
      /\ \A i \in DOMAIN Head(rows).back :
           Step(Interfaces(doc), Head(rows).nodes[i], Head(rows).nodes[i + 1], Head(rows).back[i]) # {}
  <2>1. PICK p, d : p = Head(rows) /\ d = doc
    OBVIOUS
  <2>2. p \in PathRows(Interfaces(d), Start.system, Finish.system)
    BY <1>1, <2>1 DEF All
  <2>3. /\ p \in Row
        /\ \A i \in DOMAIN p.back : Step(Interfaces(d), p.nodes[i], p.nodes[i + 1], p.back[i]) # {}
    BY <2>2, RowsArePaths
  <2> QED
    BY <2>1, <2>3
<1>3. next \in DOMAIN Head(rows).back
  BY <1>1, <1>2, LenProperties DEF Row
<1>4. StepParts(doc, Head(rows), next) # {}
  BY <1>2, <1>3 DEF StepParts
<1>5. Full(EdgeAnswer(TRUE), doc, Head(rows), next)
  BY <1>4 DEF Full, StepParts, EdgeAnswer, EdgeParts
<1>6. \A i \in DOMAIN combos : Full(combos[i], doc, Head(rows), i)
  BY DEF Progress, InHandReal
<1>7. \A i \in DOMAIN Append(combos, EdgeAnswer(TRUE)) :
        \/ i \in DOMAIN combos /\ Append(combos, EdgeAnswer(TRUE))[i] = combos[i]
        \/ i = next /\ Append(combos, EdgeAnswer(TRUE))[i] = EdgeAnswer(TRUE)
  <2>1. combos \in Seq(SUBSET (Parts \X Parts)) /\ EdgeAnswer(TRUE) \in SUBSET (Parts \X Parts)
    BY EdgeAnswerType DEF Types
  <2> QED
    BY <2>1, Places
<1>8. \A i \in DOMAIN Append(combos, EdgeAnswer(TRUE)) :
        Full(Append(combos, EdgeAnswer(TRUE))[i], doc, Head(rows), i)
  <2> HIDE DEF next
  <2> QED
    BY <1>5, <1>6, <1>7
<1> QED
  BY <1>5, <1>8

LEMMA MoreStatement ==
  ASSUME Types, Control, Progress, UNCHANGED <<db, request>>, pc = "edges",
         UNCHANGED <<docVars, todo, doc>>, MoreEdges(TRUE)
  PROVE  Progress'
<1>1. /\ UNCHANGED <<pc, rows, found, date, outDate, inDate, todo, doc>>
      /\ combos' = Append(combos, EdgeAnswer(TRUE))
  BY DEF MoreEdges, resultVars, docVars
<1>2. InHandReal(doc', rows', combos')
  BY <1>1, AnswerIsFull DEF Progress, InHandReal
<1>3. DatesKnown(pc', outDate', inDate')
  BY <1>1 DEF Progress
<1>4. \A d \in Docs : FoundReal(found'[d], date'[d], d)
  BY <1>1 DEF Progress
<1>5. \A d \in Docs : Looked(d, pc', todo', outDate', inDate') =>
                        Covers(found'[d], IF d = doc' THEN rows' ELSE <<>>, d)
  BY <1>1 DEF Progress
<1> QED
  BY <1>1, <1>2, <1>3, <1>4, <1>5, ProgressAfter

\* The path leaves the hand for the results.
LEMMA LastStatement ==
  ASSUME Types, Control, Progress, UNCHANGED <<db, request>>, pc = "edges",
         UNCHANGED <<docVars, todo, doc>>, LastEdge(TRUE)
  PROVE  Progress'
<1> DEFINE path == Complete(TRUE)
<1>1. /\ found' = [found EXCEPT ![doc] = @ \cup {path}]
      /\ date' = [date EXCEPT ![doc] = Later(outDate[doc], inDate[doc])]
      /\ rows' = Tail(rows) /\ combos' = <<>> /\ pc' \in {"paths", "edges"}
      /\ UNCHANGED <<outDate, inDate, todo, doc>>
  BY DEF LastEdge, docVars
<1>2. /\ doc \in Docs /\ outDate[doc] > 0 /\ inDate[doc] > 0
      /\ found \in [Docs -> SUBSET Path] /\ date \in [Docs -> Nat]
  BY DEF Control, Types
<1>3. /\ found'[doc] = found[doc] \cup {path}
      /\ date'[doc] = Later(outDate[doc], inDate[doc])
      /\ \A d \in Docs \ {doc} : found'[d] = found[d] /\ date'[d] = date[d]
  BY <1>1, <1>2
<1>4. /\ path.nodes = Head(rows).nodes /\ path.back = Head(rows).back
      /\ path.combos = Append(combos, EdgeAnswer(TRUE))
  BY DEF Complete
<1>5. /\ Head(rows) \in Row /\ Head(rows) = rows[1] /\ 1 \in DOMAIN rows
      /\ \A i \in DOMAIN Tail(rows) : i + 1 \in DOMAIN rows /\ Tail(rows)[i] = rows[i + 1]
      /\ \A i \in DOMAIN rows : i = 1 \/ (i - 1 \in DOMAIN Tail(rows) /\ Tail(rows)[i - 1] = rows[i])
  BY PathInHand
<1>6. Steps(path) = DOMAIN Append(combos, EdgeAnswer(TRUE))
  <2>1. combos \in Seq(SUBSET (Parts \X Parts)) /\ EdgeAnswer(TRUE) \in SUBSET (Parts \X Parts)
    BY EdgeAnswerType DEF Types
  <2>2. DOMAIN Append(combos, EdgeAnswer(TRUE)) = 1..Len(combos) + 1
    BY <2>1, Places
  <2>3. Steps(path) = 1..Len(Head(rows).back)
    BY <1>4, <1>5, LenProperties DEF Steps, Row
  <2> QED
    BY <2>2, <2>3 DEF LastEdge
<1> HIDE DEF path
<1>7. \A i \in Steps(path) : Full(path.combos[i], doc, path, i)
  <2> SUFFICES ASSUME NEW i \in Steps(path) PROVE Full(path.combos[i], doc, path, i)
    OBVIOUS
  <2>1. Full(path.combos[i], doc, Head(rows), i)
    BY <1>4, <1>6, AnswerIsFull
  <2> QED
    BY <1>4, <2>1 DEF Full, StepParts
<1>8. outDate[doc] = Latest(StartSide, doc) /\ inDate[doc] = Latest(FinishSide, doc)
  BY <1>2 DEF Progress, DatesKnown
<1>9. FoundReal(found'[doc], date'[doc], doc)
  BY <1>2, <1>3, <1>7, <1>8 DEF Progress, FoundReal
<1>10. \A d \in Docs : FoundReal(found'[d], date'[d], d)
  BY <1>3, <1>9 DEF Progress
<1>11. Covers(found'[doc], rows', doc)
  <2>1. Covers(found[doc], rows, doc)
    BY <1>2 DEF Progress, Looked, Control
  <2>2. {rows[i].nodes : i \in DOMAIN rows} =
          {rows'[i].nodes : i \in DOMAIN rows'} \cup {path.nodes}
    <3>1. ASSUME NEW i \in DOMAIN rows
          PROVE  rows[i].nodes = path.nodes \/ \E j \in DOMAIN rows' : rows'[j].nodes = rows[i].nodes
      BY <1>1, <1>4, <1>5
    <3>2. ASSUME NEW j \in DOMAIN rows'
          PROVE  \E i \in DOMAIN rows : rows[i].nodes = rows'[j].nodes
      BY <1>1, <1>5
    <3>3. \E i \in DOMAIN rows : rows[i].nodes = path.nodes
      BY <1>4, <1>5
    <3> QED
      BY <3>1, <3>2, <3>3
  <2>3. {p.nodes : p \in found'[doc]} = {p.nodes : p \in found[doc]} \cup {path.nodes}
    BY <1>3
  <2> QED
    BY <2>1, <2>2, <2>3 DEF Covers
<1>12. ASSUME NEW d \in Docs, Looked(d, pc', todo', outDate', inDate')
       PROVE  Covers(found'[d], IF d = doc' THEN rows' ELSE <<>>, d)
  <2>1. CASE d = doc
    BY <1>1, <1>11, <2>1
  <2>2. CASE d # doc
    <3>1. Looked(d, pc, todo, outDate, inDate)
      BY <1>1, <1>12 DEF Looked
    <3>2. Covers(found[d], IF d = doc THEN rows ELSE <<>>, d)
      BY <3>1 DEF Progress
    <3>3. (IF d = doc THEN rows ELSE <<>>) = <<>> /\ (IF d = doc' THEN rows' ELSE <<>>) = <<>>
      BY <1>1, <2>2
    <3> QED
      BY <1>3, <2>2, <3>2, <3>3
  <2> QED
    BY <2>1, <2>2
<1>13. InHandReal(doc', rows', combos')
  <2>1. DOMAIN combos' = {}
    BY <1>1
  <2>2. \A i \in DOMAIN rows : rows[i] \in All(doc)
    BY DEF Progress, InHandReal
  <2>3. \A i \in DOMAIN rows' : rows'[i] \in All(doc)
    BY <1>1, <1>5, <2>2
  <2> QED
    BY <1>1, <2>1, <2>3 DEF InHandReal
<1>14. DatesKnown(pc', outDate', inDate')
  BY <1>1 DEF Progress, DatesKnown
<1> QED
  BY <1>1, <1>10, <1>12, <1>13, <1>14, ProgressAfter

\* All documents have been looked at, so nothing is missing any more.
LEMMA NothingMissing ==
  ASSUME Types, Control, Progress, UNCHANGED <<db, request>>, AllLooked
  PROVE  Progress'
<1>1. /\ pc = "paths" /\ pc' = "done" /\ todo = {}
      /\ UNCHANGED <<outDate, inDate, todo, doc, rows, combos, found, date>>
  BY DEF AllLooked, To, localVars, docVars, pathVars, resultVars
<1>2. rows = <<>> /\ DOMAIN rows = {}
  BY <1>1 DEF Control
<1>3. ASSUME NEW d \in Docs PROVE Finished(found[d], d)
  <2>1. /\ Start.system \in Graph.systems
        /\ outDate[d] = Latest(StartSide, d) /\ inDate[d] = Latest(FinishSide, d)
        /\ outDate[d] \in Nat /\ inDate[d] \in Nat
    BY <1>1 DEF Progress, DatesKnown, Types
  <2>2. FoundReal(found[d], date[d], d)
    BY DEF Progress
  <2>3. CASE outDate[d] > 0 /\ inDate[d] > 0
    <3>1. Covers(found[d], IF d = doc THEN rows ELSE <<>>, d)
      BY <1>1, <2>3 DEF Progress, Looked
    <3>2. Covers(found[d], <<>>, d)
      BY <1>2, <3>1
    <3>3. {<<>>[i].nodes : i \in DOMAIN <<>>} = {}
      BY <1>2
    <3> QED
      BY <2>1, <2>3, <3>2, <3>3 DEF Covers, Finished
  <2>4. CASE outDate[d] = 0
    BY <2>1, <2>2, <2>4 DEF FoundReal, Finished
  <2>5. CASE inDate[d] = 0
    <3>1. ~(Latest(FinishSide, d) > 0)
      BY <2>1, <2>5
    <3>2. found[d] = {}
      BY <2>2, <3>1 DEF FoundReal
    <3>3. Reach(d) = {}
      BY <3>1, ReachTouches
    <3> QED
      BY <3>2, <3>3 DEF Finished
  <2> QED
    BY <2>1, <2>3, <2>4, <2>5
<1>4. \A d \in Docs : Finished(found'[d], d)
  BY <1>1, <1>3
<1>5. DatesKnown(pc', outDate', inDate') /\ \A d \in Docs : ~Looked(d, pc', todo', outDate', inDate')
  BY <1>1 DEF DatesKnown, Looked
<1>6. InHandReal(doc', rows', combos') /\ \A d \in Docs : FoundReal(found'[d], date'[d], d)
  BY <1>1 DEF Progress
<1> QED
  BY <1>4, <1>5, <1>6, ProgressAfter

LEMMA BetweenExactKept ==
  ASSUME Types, Control, BetweenExact, [SearchNext]_searchVars
  PROVE  BetweenExact'
<1> SUFFICES ASSUME Between', Still' PROVE Progress'
  BY DEF BetweenExact
<1>0. UNCHANGED <<db, request>> /\ Between
  <2>1. UNCHANGED request
    BY RequestKept
  <2>2. Between
    BY <2>1, SameRequest
  <2>3. db' = db
    BY HistoryKept DEF Still
  <2> QED
    BY <2>1, <2>2, <2>3
<1>1. CASE Dispatch \/ UseSpace \/ FetchStart \/ StartEdges
  BY <1>0, <1>1, FirstStatements
<1>2. CASE FinishEdges
  BY <1>0, <1>2, FinishStatement
<1>3. ASSUME NEW d \in Docs, FindPaths(d) PROVE Progress'
  BY <1>0, <1>3, PathStatement
<1>4. CASE AskEdge
  <2>1. /\ pc = "edges" /\ UNCHANGED <<docVars, todo, doc>>
        /\ \E accepted \in BOOLEAN : /\ rejected' = (rejected \/ ~accepted)
                                     /\ MoreEdges(accepted) \/ LastEdge(accepted)
    BY <1>4, AskEdgeOutcomes
  <2>2. PICK accepted \in BOOLEAN : /\ rejected' = (rejected \/ ~accepted)
                                    /\ MoreEdges(accepted) \/ LastEdge(accepted)
    BY <2>1
  <2>3. accepted = TRUE /\ Still
    BY <1>0, <2>2 DEF Still
  <2>4. (MoreEdges(TRUE) \/ LastEdge(TRUE)) /\ Progress
    BY <1>0, <2>2, <2>3 DEF BetweenExact
  <2> QED
    BY <1>0, <2>1, <2>4, MoreStatement, LastStatement
<1>5. CASE AllLooked
  <2>1. Still
    BY <1>0, <1>5 DEF AllLooked, localVars, Still
  <2> QED
    BY <1>0, <1>5, <2>1, NothingMissing DEF BetweenExact
<1>6. CASE OneHopStep
  BY <1>0, <1>6, OneHopShared
<1>7. CASE ConnectionLost
  BY <1>0, <1>7, NothingYet DEF ConnectionLost, Forget, DatesKnown
<1>8. CASE \/ GraphChanges /\ UNCHANGED <<request, attempt, pc, localVars>>
           \/ UNCHANGED searchVars
  <2>1. UNCHANGED <<pc, rejected, outDate, inDate, todo, doc, rows, combos, found, date>>
    BY <1>8 DEF searchVars, localVars, docVars, pathVars, resultVars
  <2>2. Progress
    BY <1>0, <2>1 DEF BetweenExact, Still
  <2> QED
    BY <1>0, <2>1, <2>2, ProgressAfter DEF Progress
<1> QED
  BY <1>1, <1>2, <1>3, <1>4, <1>5, <1>6, <1>7, <1>8 DEF SearchNext, OneHopStep

PathInv == SearchInv /\ BetweenExact

LEMMA PathInvHolds == SearchSpec => []PathInv
<1>1. SearchInit => PathInv
  BY TypesInitially, ControlInitially, ShapeInitially, AllThereInitially, ProgressInitially
     DEF PathInv, SearchInv
<1>2. PathInv /\ [SearchNext]_searchVars => PathInv'
  BY TypesKept, ControlKept, ShapeKept, AllThereKept, BetweenExactKept DEF PathInv, SearchInv
<1> QED
  BY <1>1, <1>2, PTL DEF SearchSpec

\* The edges at the two ends are those of the two statements.
LEMMA EndEdges ==
  ASSUME Types, NEW d \in Docs
  PROVE  Latest({e \in Interfaces(d) : \/ /\ Start.system \in {e.consumer, e.provider}
                                          /\ Start.part \in {NoPart, e.parts[1]}
                                       \/ Finish.system \in {e.consumer, e.provider}}, d)
         = Later(Latest(StartSide, d), Latest(FinishSide, d))
<1>1. PICK ends : ends = {e \in Interfaces(d) : \/ /\ Start.system \in {e.consumer, e.provider}
                                                   /\ Start.part \in {NoPart, e.parts[1]}
                                                \/ Finish.system \in {e.consumer, e.provider}}
  OBVIOUS
<1>2. /\ \A e : e \in StartSide <=> /\ e \in Fresh(Graph.edges)
                                   /\ Start.system \in {e.consumer, e.provider}
                                   /\ Start.part \in {NoPart, e.parts[1]}
      /\ \A e : e \in FinishSide <=> /\ e \in Fresh(Graph.edges)
                                    /\ Finish.system \in {e.consumer, e.provider}
  BY DEF StartSide, FinishSide, Fresh, Incident, In, Out, Matches
<1>3. Current(StartSide) /\ Current(FinishSide) /\ Current(ends)
  BY <1>1, <1>2 DEF Current, Interfaces
<1>4. Together(ends, StartSide, FinishSide, d)
  BY <1>1, <1>2 DEF Together, Interfaces
<1>5. \A A, B, C : Current(A) /\ Current(B) /\ Current(C) /\ Together(C, A, B, d)
                     => Latest(C, d) = Later(Latest(A, d), Latest(B, d))
  BY LatestOfTwo
<1>6. Latest(ends, d) = Later(Latest(StartSide, d), Latest(FinishSide, d))
  BY <1>3, <1>4, <1>5
<1> QED
  BY <1>1, <1>6

\* A document has an edge at the start if and only if the statement found a date.
LEMMA WantedDocument ==
  ASSUME Types, NEW d \in Docs
  PROVE  Latest(StartSide, d) > 0 <=>
           \E e \in Interfaces(d) : /\ Start.system \in {e.consumer, e.provider}
                                    /\ Start.part \in {NoPart, e.parts[1]}
<1>1. StartSide \in SUBSET Fresh(Graph.edges)
  BY StatementEdges DEF StartSide
<1>2. Latest(StartSide, d) > 0 <=> \E e \in StartSide : e.doc = d
  BY <1>1, LatestHere
<1> QED
  BY <1>2 DEF StartSide, Fresh, Incident, In, Out, Matches, Interfaces

\* The search between two systems, for any graph and any number of documents:
\* when nothing was rejected and the graph stood still, of every document that
\* touches both ends each loopless connection exactly once, with all the parts of
\* every step, and the latest date of the edges at the two ends.
THEOREM SearchIsExact == SearchSpec => []SearchExact
<1>1. PathInv => SearchExact
  <2> SUFFICES ASSUME PathInv, Undisturbed, Between PROVE SearchExact
    BY DEF SearchExact
  <2>1. Types /\ Progress /\ pc = "done"
    BY DEF PathInv, SearchInv, BetweenExact, Undisturbed, Still
  <2> DEFINE ends(d) == {e \in Interfaces(d) : \/ /\ Start.system \in {e.consumer, e.provider}
                                                  /\ Start.part \in {NoPart, e.parts[1]}
                                               \/ Finish.system \in {e.consumer, e.provider}}
             linked(d, n) == \A i \in 1..Len(n) - 1 :
                               \E e \in Interfaces(d) : {e.consumer, e.provider} = {n[i], n[i + 1]}
             wanted(d) == /\ Start.system \in Graph.systems
                          /\ \E e \in Interfaces(d) : /\ Start.system \in {e.consumer, e.provider}
                                                      /\ Start.part \in {NoPart, e.parts[1]}
  <2>2. ASSUME NEW d \in Docs
        PROVE  {p.nodes : p \in found[d]} =
                 {n \in NodeSequences(Start.system, Finish.system) : wanted(d) /\ linked(d, n)}
    <3>1. Finished(found[d], d)
      BY <2>1 DEF Progress
    <3>2. wanted(d) <=> Start.system \in Graph.systems /\ Latest(StartSide, d) > 0
      BY <2>1, WantedDocument
    <3>3. Reach(d) = {n \in NodeSequences(Start.system, Finish.system) : linked(d, n)}
      BY ReachIsLinked
    <3> HIDE DEF wanted, linked
    <3> QED
      BY <3>1, <3>2, <3>3 DEF Finished
  <2>3. ASSUME NEW d \in Docs, NEW p \in found[d], NEW i \in Steps(p)
        PROVE  /\ p.combos[i] = {e.parts : e \in Step(Interfaces(d), p.nodes[i], p.nodes[i + 1], p.back[i])}
               /\ p.combos[i] # {}
    <3>1. Full(p.combos[i], d, p, i)
      BY <2>1 DEF Progress, FoundReal
    <3> QED
      BY <3>1 DEF Full, StepParts
  <2>4. ASSUME NEW d \in Docs, found[d] # {} PROVE date[d] = Latest(ends(d), d)
    <3>1. date[d] = Later(Latest(StartSide, d), Latest(FinishSide, d))
      BY <2>1, <2>4 DEF Progress, FoundReal
    <3> QED
      BY <2>1, <3>1, EndEdges
  <2> QED
    BY <2>2, <2>3, <2>4 DEF SearchExact
<1> QED
  BY PathInvHolds, <1>1, PTL
=============================================================================
