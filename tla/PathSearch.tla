----------------------------- MODULE PathSearch -----------------------------
(***************************************************************************)
(* The searches behind path_search: _execute_experiment_search_sync and    *)
(* the two one-hop searches of app/db/nebula_queries.py, each a sequence   *)
(* of statements on one session, run again from the start when the         *)
(* connection breaks.  A statement the server rejects counts as one        *)
(* without rows.                                                           *)
(***************************************************************************)
EXTENDS InterfaceGraph, SequencesExt

CONSTANTS NoSystem,        \* a filter that is not given
          Filters,         \* <<start, finish>> a client may send
          MayReject,       \* may the server reject statements?
          DB_RETRY_COUNT

ASSUME SearchAssumption == MayReject \in BOOLEAN /\ DB_RETRY_COUNT \in Nat

ASSUME FiltersAssumption ==
  /\ NoSystem \notin Systems
  /\ \A f \in Filters : \A i \in 1..2 :
       f[i] \in [system : Systems \cup {NoSystem}, part : Parts]

VARIABLES request,   \* [start, finish]
          pc,        \* the statement the search is at
          attempt,
          rejected,  \* was a statement of this attempt rejected?
          outDate,   \* outgoing_document_data: latest date, 0 for no entry
          inDate,    \* incoming_document_data
          todo,      \* matching documents not looked at yet
          doc,       \* the one in hand
          rows,      \* its paths that have no edge data yet
          combos,    \* edge data of the first of them so far
          found,     \* the paths of the result, for each document
          date       \* document_rsm_date_time, 0 for None

givenVars == <<db, request, attempt>>
docVars == <<outDate, inDate>>
pathVars == <<doc, rows, combos>>
resultVars == <<found, date>>
localVars == <<rejected, docVars, todo, pathVars, resultVars>>
searchVars == <<givenVars, pc, localVars>>

Start == request.start
Finish == request.finish
Between == Start.system # NoSystem /\ Finish.system # NoSystem

Nothing == [d \in Docs |-> {}]
NoDates == [d \in Docs |-> 0]

SearchInit ==
  /\ GraphInit
  /\ request \in {[start |-> f[1], finish |-> f[2]] : f \in Filters}
  /\ pc = "call"
  /\ attempt = 1
  /\ rejected = FALSE
  /\ outDate = NoDates /\ inDate = NoDates
  /\ todo = {}
  /\ doc = NoDoc
  /\ rows = <<>> /\ combos = <<>>
  /\ found = Nothing /\ date = NoDates

-----------------------------------------------------------------------------
To(from, to) == pc = from /\ pc' = to

Accepted == IF MayReject THEN BOOLEAN ELSE {TRUE}

\* The statement of a step, whose rows are these unless it is rejected.
Statement(accepted) == rejected' = (rejected \/ ~accepted)

Rows(accepted, S) == IF accepted THEN S ELSE {}

Later(d1, d2) == IF d2 > d1 THEN d2 ELSE d1

Latest(edges, d) ==
  LET dates == {e.date : e \in {x \in edges : x.doc = d}}
  IN IF dates = {} THEN 0 ELSE CHOOSE x \in dates : \A y \in dates : y <= x

\* A filter on a part compares with one side of the edge, whichever of the two
\* systems that side belongs to.
Matches(filter, part) == filter.part \in {NoPart, part}

-----------------------------------------------------------------------------
(***************************************************************************)
(* Faulty variants, which no specification uses: slips in the code that    *)
(* one of the properties would catch.                                      *)
(***************************************************************************)
\* The path key holds the arrows as well: two paths over the same nodes.
FirstRowsKept(R) == {R}

\* The parts of an edge are asked for without the document.
EdgePartsOfAny(a, b, back) ==
  LET parts == {e.parts : e \in Step(Fresh(Graph.edges), a, b, back)}
  IN IF parts = {} THEN {<<NoPart, NoPart>>} ELSE parts

\* An edge without rows gets no combination at all.
NoCombo == {}

\* A document's date is that of the edges at the start.
KeepUndated(path) ==
  /\ found' = [found EXCEPT ![doc] = @ \cup {path}]
  /\ date' = [date EXCEPT ![doc] = outDate[doc]]

\* The second one-hop query overwrites what the first one found.
NewNeighboursAll(edges, anchor, d) ==
  {Neighbour(e, anchor) : e \in {x \in edges : x.doc = d}}

\* A dead connection's partial result is kept and added to.
ForgetNothing == UNCHANGED localVars

-----------------------------------------------------------------------------
\* path_search chooses by what was given; without a system it asks nothing.
Dispatch ==
  /\ To("call", IF Start.system = NoSystem /\ Finish.system = NoSystem
                  THEN "done" ELSE "use")
  /\ UNCHANGED <<givenVars, localVars>>

\* USE space: nothing is found without it.
UseSpace ==
  \E accepted \in Accepted :
    /\ To("use", IF ~accepted THEN "done"
                 ELSE IF Between THEN "system" ELSE "forward")
    /\ Statement(accepted)
    /\ UNCHANGED <<givenVars, docVars, todo, pathVars, resultVars>>

\* FETCH PROP ON SYSTEM: the start must be a vertex.
FetchStart ==
  \E accepted \in Accepted :
    /\ To("system", IF accepted /\ Start.system \in Graph.systems THEN "starts" ELSE "done")
    /\ Statement(accepted)
    /\ UNCHANGED <<givenVars, docVars, todo, pathVars, resultVars>>

\* The documents with an edge at the start, its part as the consumer's, and
\* those with an edge at the finish.
StartEdges ==
  \E accepted \in Accepted :
    LET edges == {e \in Fresh(Incident(Start.system)) : Matches(Start, e.parts[1])}
    IN /\ To("starts", "finishes")
       /\ Statement(accepted)
       /\ outDate' = [d \in Docs |-> Latest(Rows(accepted, edges), d)]
       /\ UNCHANGED <<givenVars, inDate, todo, pathVars, resultVars>>

FinishEdges ==
  \E accepted \in Accepted :
    /\ To("finishes", "paths")
    /\ Statement(accepted)
    /\ inDate' = [d \in Docs |-> Latest(Rows(accepted, Fresh(Incident(Finish.system))), d)]
    /\ todo' = {d \in Docs : outDate[d] > 0 /\ inDate'[d] > 0}
    /\ UNCHANGED <<givenVars, outDate, pathVars, resultVars>>

Interfaces(d) == {e \in Fresh(Graph.edges) : e.doc = d}

\* path_key: of the rows over the same nodes the first one counts.
FirstRows(R) ==
  {S \in SUBSET R : /\ \A p, q \in S : p.nodes = q.nodes => p = q
                    /\ {p.nodes : p \in S} = {p.nodes : p \in R}}

\* FIND NOLOOP PATH in one document; they come in the order of a set.
FindPaths(d) ==
  \E accepted \in Accepted :
    /\ d \in todo
    /\ todo' = todo \ {d}
    /\ doc' = d
    /\ \E first \in FirstRows(Rows(accepted, PathRows(Interfaces(d), Start.system, Finish.system))) :
         \E order \in SetToSeqs(first) : rows' = order
    /\ To("paths", IF rows' = <<>> THEN "paths" ELSE "edges")
    /\ Statement(accepted)
    /\ UNCHANGED <<givenVars, docVars, combos, resultVars>>

\* An edge query without rows, or rejected, counts as one combination without parts.
EmptyCombo == {<<NoPart, NoPart>>}

\* The distinct parts of a step.
EdgeParts(a, b, back) ==
  LET parts == {e.parts : e \in Step(Interfaces(doc), a, b, back)}
  IN IF parts = {} THEN EmptyCombo ELSE parts

\* A path is complete; with the first one its document gets into the results.
Keep(path) ==
  /\ found' = [found EXCEPT ![doc] = @ \cup {path}]
  /\ date' = [date EXCEPT ![doc] = Later(outDate[doc], inDate[doc])]

\* One GO for every edge of a path, forward or REVERSELY.
AskEdge ==
  \E accepted \in Accepted :
    LET path == Head(rows)
        i    == Len(combos) + 1
        edge == IF accepted
                  THEN EdgeParts(path.nodes[i], path.nodes[i + 1], path.back[i])
                  ELSE EmptyCombo
    IN /\ pc = "edges"
       /\ Statement(accepted)
       /\ IF i < Len(path.back)
            THEN /\ combos' = Append(combos, edge)
                 /\ UNCHANGED <<pc, rows, resultVars>>
            ELSE /\ Keep([nodes |-> path.nodes, back |-> path.back,
                          combos |-> Append(combos, edge)])
                 /\ combos' = <<>>
                 /\ rows' = Tail(rows)
                 /\ pc' = IF Tail(rows) = <<>> THEN "paths" ELSE "edges"
       /\ UNCHANGED <<givenVars, docVars, todo, doc>>

AllLooked ==
  /\ To("paths", "done")
  /\ todo = {}
  /\ UNCHANGED <<givenVars, localVars>>

-----------------------------------------------------------------------------
\* The neighbours a query brings and no earlier row has.
NewNeighbours(edges, anchor, d) ==
  {Neighbour(e, anchor) : e \in {x \in edges : x.doc = d}}
    \ UNION {{p.nodes[1], p.nodes[2]} : p \in found[d]}

\* A row as a path of one edge, which has one pair of parts.
HopPath(e, anchor, back) ==
  LET other == Neighbour(e, anchor)
  IN [nodes |-> IF anchor = Start.system THEN <<anchor, other>> ELSE <<other, anchor>>,
      back |-> <<back>>, combos |-> <<{e.parts}>>]

\* Of the rows of a document with the same neighbour the first one counts.
FirstHops(edges, anchor, back, d) ==
  {{HopPath(pick[n], anchor, back) : n \in DOMAIN pick} : pick \in
     {f \in [NewNeighbours(edges, anchor, d) -> edges] :
        \A n \in DOMAIN f : f[n].doc = d /\ Neighbour(f[n], anchor) = n}}

\* _process_rows: every row but a loop counts for the date.
ProcessRows(edges, anchor, back) ==
  LET got == {e \in edges : e.consumer # e.provider}
  IN /\ \E new \in [Docs -> UNION {FirstHops(got, anchor, back, d) : d \in Docs}] :
          /\ \A d \in Docs : new[d] \in FirstHops(got, anchor, back, d)
          /\ found' = [d \in Docs |-> found[d] \cup new[d]]
     /\ date' = [d \in Docs |-> Later(date[d], Latest(got, d))]

\* Each of the one-hop searches asks along the path, then against it.
OneHopFromStart(from, to, back) ==
  \E accepted \in Accepted :
    LET edges == {e \in Fresh(IF back THEN In(Start.system) ELSE Out(Start.system)) :
                    Matches(Start, e.parts[1])}
    IN /\ Finish.system = NoSystem
       /\ To(from, to)
       /\ Statement(accepted)
       /\ ProcessRows(Rows(accepted, edges), Start.system, back)
       /\ UNCHANGED <<givenVars, docVars, todo, pathVars>>

OneHopToFinish(from, to, back) ==
  \E accepted \in Accepted :
    LET edges == {e \in Fresh(IF back THEN Out(Finish.system) ELSE In(Finish.system)) :
                    Matches(Finish, e.parts[2])}
    IN /\ Start.system = NoSystem
       /\ To(from, to)
       /\ Statement(accepted)
       /\ ProcessRows(Rows(accepted, edges), Finish.system, back)
       /\ UNCHANGED <<givenVars, docVars, todo, pathVars>>

-----------------------------------------------------------------------------
\* The frame of the attempt is gone.
Forget ==
  /\ rejected' = FALSE
  /\ outDate' = NoDates /\ inDate' = NoDates
  /\ todo' = {}
  /\ doc' = NoDoc
  /\ rows' = <<>> /\ combos' = <<>>
  /\ found' = Nothing /\ date' = NoDates

\* A statement raises: _with_healthy_session runs the search again, gives up
\* (None counts as {}), or cannot get a session and raises.
ConnectionLost ==
  /\ pc \notin {"call", "done", "gave up", "failed"}
  /\ Forget
  /\ \/ /\ attempt <= DB_RETRY_COUNT
        /\ attempt' = attempt + 1
        /\ pc' = "use"
     \/ pc' \in {"gave up", "failed"} /\ UNCHANGED attempt
  /\ UNCHANGED <<db, request>>

SearchNext ==
  \/ Dispatch
  \/ UseSpace
  \/ FetchStart
  \/ StartEdges
  \/ FinishEdges
  \/ \E d \in Docs : FindPaths(d)
  \/ AskEdge
  \/ AllLooked
  \/ OneHopFromStart("forward", "reverse", FALSE)
  \/ OneHopFromStart("reverse", "done", TRUE)
  \/ OneHopToFinish("forward", "reverse", FALSE)
  \/ OneHopToFinish("reverse", "done", TRUE)
  \/ ConnectionLost
  \/ pc # "done" /\ GraphChanges /\ UNCHANGED <<request, attempt, pc, localVars>>

SearchSpec == SearchInit /\ [][SearchNext]_searchVars

-----------------------------------------------------------------------------
SearchTypeOK ==
  /\ attempt \in 1..DB_RETRY_COUNT + 1
  /\ \A d \in Docs : /\ found[d] # {} <=> date[d] > 0
                     /\ \A p \in found[d] : Len(p.combos) = Len(p.nodes) - 1
  /\ pc = "edges" <=> rows # <<>>
  /\ pc = "edges" => Len(combos) < Len(Head(rows).back)

Undisturbed == pc = "done" /\ Len(db) = 1 /\ ~rejected

Steps(p) == DOMAIN p.back

\* On a graph that stands still, seven kinds of statement and the first-row
\* rule add up to this: of every document that touches the start (with its
\* part) and the finish, each loopless connection of the two exactly once, in
\* arrows that the document has, every step with all its parts, and the latest
\* date of those edges.
SearchExact ==
  Undisturbed /\ Between =>
    \A d \in Docs :
      LET E     == Interfaces(d)
          ends  == {e \in E : \/ /\ Start.system \in {e.consumer, e.provider}
                                /\ Start.part \in {NoPart, e.parts[1]}
                             \/ Finish.system \in {e.consumer, e.provider}}
          linked(n) == \A i \in 1..Len(n) - 1 :
                         \E e \in E : {e.consumer, e.provider} = {n[i], n[i + 1]}
          wanted == /\ Start.system \in Graph.systems
                    /\ \E e \in E : /\ Start.system \in {e.consumer, e.provider}
                                    /\ Start.part \in {NoPart, e.parts[1]}
      IN /\ {p.nodes : p \in found[d]} =
              {n \in NodeSequences(Start.system, Finish.system) : wanted /\ linked(n)}
         /\ \A p \in found[d] : \A i \in Steps(p) :
              /\ p.combos[i] = {e.parts : e \in Step(E, p.nodes[i], p.nodes[i + 1], p.back[i])}
              /\ p.combos[i] # {}
         /\ found[d] # {} => date[d] = Latest(ends, d)

\* The same when statements are rejected: a document is in the answer with all
\* its connections, each once, and its date, or not at all; a rejected statement
\* about an edge costs the parts of that edge and nothing else of the path.
WholeOrAbsent ==
  pc = "done" /\ Len(db) = 1 /\ Between =>
    \A d \in {x \in Docs : found[x] # {}} :
      LET E       == Interfaces(d)
          atEnds  == {e \in E : \/ /\ Start.system \in {e.consumer, e.provider}
                                  /\ Start.part \in {NoPart, e.parts[1]}
                               \/ Finish.system \in {e.consumer, e.provider}}
          linked(n) == \A i \in 1..Len(n) - 1 :
                         \E e \in E : {e.consumer, e.provider} = {n[i], n[i + 1]}
          full(p, i) == {e.parts : e \in Step(E, p.nodes[i], p.nodes[i + 1], p.back[i])}
      IN /\ {p.nodes : p \in found[d]} = {n \in NodeSequences(Start.system, Finish.system) : linked(n)}
         /\ \A p, q \in found[d] : p.nodes = q.nodes => p = q
         /\ \A p \in found[d] : \A i \in Steps(p) :
              full(p, i) # {} /\ p.combos[i] \in {full(p, i), {<<NoPart, NoPart>>}}
         /\ date[d] = Latest(atEnds, d)

\* The same of the two one-hop searches: each neighbour of each document once,
\* along the arrow if it can be, with parts that the document has for it, and
\* the latest date of all the edges the filter admits.
OneHopExact ==
  Undisturbed /\ ~Between =>
    \A d \in Docs :
      LET a      == IF Start.system # NoSystem THEN Start.system ELSE Finish.system
          side(e, p) == p = NoPart \/ p = e.parts[IF Start.system # NoSystem THEN 1 ELSE 2]
          E      == {e \in Interfaces(d) :
                       /\ a \in {e.consumer, e.provider} /\ e.consumer # e.provider
                       /\ side(e, IF Start.system # NoSystem THEN Start.part ELSE Finish.part)}
          other(p) == IF p.nodes[1] = a THEN p.nodes[2] ELSE p.nodes[1]
      IN /\ {other(p) : p \in found[d]} = {Neighbour(e, a) : e \in E}
         /\ \A p, q \in found[d] : other(p) = other(q) => p = q
         /\ \A p \in found[d] :
              LET along   == Step(E, p.nodes[1], p.nodes[2], FALSE)
                  against == Step(E, p.nodes[1], p.nodes[2], TRUE)
              IN /\ p.back[1] <=> along = {}
                 /\ \E e \in along \cup against : p.combos[1] = {e.parts}
         /\ date[d] = Latest(E, d)

\* Whatever is rejected, however the graph changes between two statements and
\* wherever the connection breaks: a path in the results was a path of its
\* document at one time, and all parts on it were there at some time.
NothingInvented ==
  \A d \in Docs : \A p \in found[d] :
    LET of(g) == {e \in Fresh(g.edges) : e.doc = d}
        step(g, i) == Step(of(g), p.nodes[i], p.nodes[i + 1], p.back[i])
    IN /\ \E k \in DOMAIN db : \A i \in Steps(p) : step(db[k], i) # {}
       /\ \A i \in Steps(p) : \A c \in p.combos[i] :
            c # <<NoPart, NoPart>> => \E k \in DOMAIN db : \E e \in step(db[k], i) : e.parts = c

\* The assembly's assumption is this module's guarantee: whatever the search
\* returns is an initial state of PathAssembly.
Assembly == INSTANCE PathAssembly WITH
  Dates <- Nat \ {0},
  Paths <- {p \in [nodes : Seq(Systems), back : Seq(BOOLEAN), combos : Seq(SUBSET (Parts \X Parts))] :
              Len(p.combos) = Len(p.nodes) - 1},
  Orders <- {"longest"}, Counts <- {1},
  request <- [start |-> Start, finish |-> Finish, order |-> "longest", count |-> 1],
  date <- [d \in Docs |-> IF found[d] = {} THEN 1 ELSE date[d]],
  todo <- found, groups <- <<>>, inserted <- <<>>, answer <- <<>>

DeliversInput == pc \in {"done", "gave up"} => Assembly!Init

\* api-v3-paths.yaml: the source of a segment is determined by the consumer side
\* of an edge of the graph, the destination by the provider side; so a segment
\* of the response is an edge of a document, a part the edge leaves open aside.
SegmentsAreEdges ==
  Undisturbed => \A d \in Docs : \A p \in found[d] : \A key \in Assembly!Keys(p) :
    \A i \in DOMAIN key.segs :
      LET seg == key.segs[i]
      IN \E e \in Interfaces(d) :
           /\ e.consumer = seg.src[1] /\ e.parts[1] \in {NoPart, seg.src[2]}
           /\ e.provider = seg.dst[1] /\ e.parts[2] \in {NoPart, seg.dst[2]}
=============================================================================
