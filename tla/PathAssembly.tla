---------------------------- MODULE PathAssembly ----------------------------
(***************************************************************************)
(* path_search of app/api/v3/paths.py from the results of the search to    *)
(* the response: the paths of every document are spread over the           *)
(* combinations of modules on their edges, grouped by what they then look  *)
(* like, counted, sorted and cut to path_count.                            *)
(*                                                                         *)
(* A module and a component are handled alike; one `part' of a system      *)
(* stands for both.  A path is its systems and, for every edge, whether    *)
(* the arrow points backwards and which (consumer, provider) parts the     *)
(* database has for it.                                                    *)
(***************************************************************************)
EXTENDS Naturals, Sequences, FiniteSets, SequencesExt

CONSTANTS NoSystem, NoPart,   \* a filter that is not given; an empty id
          Docs,               \* document ids, a set of naturals
          Dates,              \* dates of documents, a set of naturals
          Paths,              \* paths the search may find
          Filters,            \* <<start, finish>> a client may send
          Orders,             \* sort_by
          Counts              \* path_count

ASSUME DocsAssumption == Docs \subseteq Nat /\ Dates \subseteq Nat \ {0}
ASSUME CountsAssumption == Counts \subseteq Nat \ {0}
ASSUME OrdersAssumption ==
  Orders \subseteq {"most_frequent", "longest", "shortest", "most_recent"}

VARIABLES request,   \* [start, finish, order, count]
          found,     \* the paths the search found in each document
          date,      \* the date of each document
          todo,      \* those not grouped yet
          groups,    \* combo_group_map: key -> [docs, date]
          inserted,  \* its keys in the order of their insertion
          answer     \* the response, or <<>> until it is built

inputVars == <<request, found, date>>
vars == <<inputVars, todo, groups, inserted, answer>>

Edge(path) == 1..Len(path.nodes) - 1

ASSUME PathsAssumption ==
  \A p \in Paths : Len(p.nodes) \in Nat \ {0} /\ \A i \in Edge(p) : IsFiniteSet(p.combos[i])

-----------------------------------------------------------------------------
\* paths_for_document has one path per sequence of nodes; a document without
\* paths is not in the results; the paths begin and end where the filters say,
\* and are single edges when only one of the two is given.
OnePerNodes(S) == \A p, q \in S : p.nodes = q.nodes => p = q

Answers(r, S) ==
  \A p \in S : /\ r.start.system \in {NoSystem, p.nodes[1]}
               /\ r.finish.system \in {NoSystem, p.nodes[Len(p.nodes)]}
               /\ r.start.system = NoSystem \/ r.finish.system = NoSystem =>
                    /\ Len(p.nodes) = 2
                    /\ r.start.system # r.finish.system

Requests == {[start |-> f[1], finish |-> f[2], order |-> o, count |-> c] :
               f \in Filters, o \in Orders, c \in Counts}

Init ==
  /\ request \in Requests
  /\ found \in {f \in [Docs -> SUBSET Paths] :
                  \A d \in Docs : OnePerNodes(f[d]) /\ Answers(request, f[d])}
  /\ date \in [Docs -> Dates]
  /\ todo = found
  /\ groups = <<>>   \* no keys
  /\ inserted = <<>>
  /\ answer = <<>>

-----------------------------------------------------------------------------
\* eff_edge: the consumer's side is the source, on a backward arrow the later
\* node; the filters' parts replace the source's on the first edge and the
\* destination's on the last.
EffEdge(path, i, combo) ==
  LET back == path.back[i]
      src  == path.nodes[IF back THEN i + 1 ELSE i]
      dst  == path.nodes[IF back THEN i ELSE i + 1]
      over(part, given, here) == IF here /\ given # NoPart THEN given ELSE part
  IN [src |-> <<src, over(combo[1], request.start.part, i = 1)>>,
      dst |-> <<dst, over(combo[2], request.finish.part, i = Len(path.nodes) - 1)>>]

\* to_combos: an edge without data counts as one with empty parts.
Combos(path, i) ==
  IF path.combos[i] = {} THEN {<<NoPart, NoPart>>} ELSE path.combos[i]

\* cartesian_seq over the resolved edges: every way to pick one of each.
Sequences(path) ==
  LET picks == {f \in [Edge(path) -> UNION {Combos(path, i) : i \in Edge(path)}] :
                  \A i \in Edge(path) : f[i] \in Combos(path, i)}
  IN {[i \in Edge(path) |-> EffEdge(path, i, f[i])] : f \in picks}

Keys(path) == {[nodes |-> path.nodes, segs |-> s] : s \in Sequences(path)}

Later(d1, d2) == IF d2 > d1 THEN d2 ELSE d1

\* Faulty variant of Join: a group keeps the last date instead of the latest.
JoinForgets(d, key) ==
  [docs |-> {d} \cup (IF key \in DOMAIN groups THEN groups[key].docs ELSE {}),
   date |-> date[d]]

\* A document joins the group of a key.
Join(d, key) ==
  IF key \in DOMAIN groups
    THEN [docs |-> groups[key].docs \cup {d}, date |-> Later(groups[key].date, date[d])]
    ELSE [docs |-> {d}, date |-> date[d]]

\* One iteration of the loop over the paths of a document: documents come in
\* any order (they were keys of a set), and so do the paths of each.  The new
\* keys are inserted in the order of the rows, which is the server's.
TakePath(d, path) ==
  /\ answer = <<>>
  /\ path \in todo[d]
  /\ \A e \in Docs \ {d} : todo[e] \in {{}, found[e]}
  /\ todo' = [todo EXCEPT ![d] = @ \ {path}]
  /\ LET keys == Keys(path)
     IN /\ groups' = [k \in DOMAIN groups \cup keys |->
                        IF k \in keys THEN Join(d, k) ELSE groups[k]]
        /\ \E new \in SetToSeqs(keys \ DOMAIN groups) : inserted' = inserted \o new
  /\ UNCHANGED <<inputVars, answer>>

-----------------------------------------------------------------------------
Frequency(key) == Cardinality(groups[key].docs)

Length(key) == Len(key.nodes) - 1

\* Faulty variant: reverse=True is forgotten.
BeforeOldest(k, m, order) ==
  IF order = "most_recent" THEN groups[k].date < groups[m].date
                           ELSE Frequency(k) > Frequency(m)

\* The tuples sorted() compares, one order per sort_by; for the descending one
\* the whole tuple is turned around, its last part included.  Its first part,
\* whether a group has a date, is the same for all: a document comes with a date
\* of its edges or not at all.
Before(k, m, order) ==
  LET freq == Frequency(k) > Frequency(m)
  IN CASE order = "most_frequent" -> freq
       [] order = "longest"  -> \/ Length(k) > Length(m)
                                \/ Length(k) = Length(m) /\ freq
       [] order = "shortest" -> \/ Length(k) < Length(m)
                                \/ Length(k) = Length(m) /\ freq
       [] order = "most_recent" ->
            \/ groups[k].date > groups[m].date
            \/ groups[k].date = groups[m].date /\ Frequency(k) < Frequency(m)

\* sorted() is stable: as many come before a key as its place says.
Precedes(i, j) ==
  \/ Before(inserted[i], inserted[j], request.order)
  \/ /\ ~Before(inserted[j], inserted[i], request.order)
     /\ i < j

Place(i) == Cardinality({j \in DOMAIN inserted : Precedes(j, i)}) + 1

Sorted == [n \in DOMAIN inserted |-> inserted[CHOOSE i \in DOMAIN inserted : Place(i) = n]]

MinDoc(S) == CHOOSE d \in S : \A e \in S : d <= e

Group(key) == [key |-> key, frequency |-> Frequency(key),
               document |-> MinDoc(groups[key].docs), date |-> groups[key].date]

\* The names are there: build the groups, sort and cut.
Respond ==
  /\ answer = <<>>
  /\ inserted # <<>>
  /\ \A d \in Docs : todo[d] = {}
  /\ LET sorted == Sorted
         kept   == IF Len(sorted) < request.count THEN Len(sorted) ELSE request.count
     IN answer' = [n \in 1..kept |-> Group(sorted[n])]
  /\ UNCHANGED <<inputVars, todo, groups, inserted>>

Next == Respond \/ \E d \in Docs : \E path \in todo[d] : TakePath(d, path)

Spec == Init /\ [][Next]_vars

-----------------------------------------------------------------------------
\* Combination by combination and in whatever order, the loop arrives at what
\* a group is meant to be: the documents in which the path can look like that,
\* each counted once, and the latest of their dates.
With(key) == {d \in Docs : \E p \in found[d] \ todo[d] : key \in Keys(p)}

GroupsExact ==
  /\ DOMAIN groups = UNION {Keys(p) : p \in UNION {found[d] \ todo[d] : d \in Docs}}
  /\ \A k \in DOMAIN groups :
       LET with == With(k)
       IN /\ groups[k].docs = with
          /\ \E d \in with : date[d] = groups[k].date
          /\ \A d \in with : date[d] <= groups[k].date

\* path_count cuts the worst: no group that was left out beats, in what the
\* client asked to sort by, one that was kept, and the kept ones are in order.
Beats(k, m) ==
  CASE request.order = "most_frequent" -> Cardinality(With(k)) > Cardinality(With(m))
    [] request.order = "longest"       -> Len(k.nodes) > Len(m.nodes)
    [] request.order = "shortest"      -> Len(k.nodes) < Len(m.nodes)
    [] request.order = "most_recent"   -> groups[k].date > groups[m].date

BestKept ==
  answer # <<>> =>
    LET kept == {answer[n].key : n \in DOMAIN answer}
    IN /\ \A i, j \in DOMAIN answer : i < j => ~Beats(answer[j].key, answer[i].key)
       /\ \A k \in kept, out \in DOMAIN groups \ kept : ~Beats(out, k)
       /\ Cardinality(kept) = Len(answer)
       /\ DOMAIN groups \subseteq kept \/ Len(answer) = request.count
=============================================================================
