----------------------------- MODULE PathAnswer -----------------------------
(***************************************************************************)
(* path_search as a whole after the search: while the paths are grouped    *)
(* (PathAssembly) the systems and parts on them are noted, then one call   *)
(* of fetch_nebula_node_names looks all their names up, from the start again  *)
(* when the connection breaks, and the segments of the response are        *)
(* dressed with what came back.                                            *)
(*                                                                         *)
(* The name of a vertex is modelled by the vertex it is the name of.       *)
(***************************************************************************)
EXTENDS PathAssembly

CONSTANTS Nameless,        \* systems and parts without a vertex or a name
          NoName,          \* null
          MaxRejections,   \* single statements the server may reject
          DB_RETRY_COUNT

ASSUME NamesAssumption == MaxRejections \in Nat /\ DB_RETRY_COUNT \in Nat

VARIABLES wanted,   \* all_nodes_set: <<system, part>>
          npc,      \* where the handler is
          attempt,  \* of the call that looks them up
          left,     \* nodes whose own statement is still to come
          names,    \* what was found: node -> vertex
          silent,   \* nodes whose own statement was rejected
          dressed   \* the names in the response: for every group and segment

nameVars == <<wanted, npc, attempt, left, names, silent, dressed>>
answerVars == <<vars, nameVars>>

AnswerInit ==
  /\ Init
  /\ wanted = {}
  /\ npc = "group"
  /\ attempt = 1
  /\ left = {}
  /\ names = <<>>   \* no keys
  /\ silent = {}
  /\ dressed = <<>>

-----------------------------------------------------------------------------
To(from, to) == npc = from /\ npc' = to

Accepted == IF MaxRejections > 0 THEN BOOLEAN ELSE {TRUE}

Vertex(node) == IF node[2] = NoPart THEN node[1] ELSE node[2]

Alone(node) == <<node[1], NoPart>>

\* Faulty variant: a name is filed under its system alone.
FoundUnder(nodes) ==
  [n \in DOMAIN names \cup {Alone(x) : x \in nodes} |->
     IF n \in DOMAIN names THEN names[n] ELSE Vertex(CHOOSE x \in nodes : Alone(x) = n)]

\* all_nodes_set.add: both ends of every segment, with its part and without.
NodesOf(path) ==
  UNION {UNION {{k.segs[i].src, k.segs[i].dst, Alone(k.segs[i].src), Alone(k.segs[i].dst)} :
                  i \in DOMAIN k.segs} : k \in Keys(path)}

Found(nodes) ==
  [n \in DOMAIN names \cup nodes |-> IF n \in nodes THEN Vertex(n) ELSE names[n]]

Named(nodes) == {n \in nodes : Vertex(n) \notin Nameless}

SystemNodes == {Alone(n) : n \in wanted}
PartNodes == {n \in wanted : n[2] # NoPart}

\* One round of the grouping loop.
Collect(d, path) ==
  /\ npc = "group"
  /\ TakePath(d, path)
  /\ wanted' = wanted \cup NodesOf(path)
  /\ UNCHANGED <<npc, attempt, left, names, silent, dressed>>

\* await fetch_nebula_node_names, with the systems of the filters; it does not
\* ask for nothing.
AskNames ==
  /\ \A d \in Docs : todo[d] = {}
  /\ wanted' = wanted \cup
       {<<s, NoPart>> : s \in {request.start.system, request.finish.system} \ {NoSystem}}
  /\ To("group", IF wanted' = {} THEN "build" ELSE "use")
  /\ UNCHANGED <<vars, attempt, left, names, silent, dressed>>

\* USE space: no names without it.
UseSpace ==
  /\ \E accepted \in Accepted :
       /\ To("use", IF accepted THEN "batch" ELSE "build")
       /\ silent' = IF accepted THEN silent ELSE wanted
       /\ attempt' = IF accepted THEN attempt ELSE 1
  /\ UNCHANGED <<vars, wanted, left, names, dressed>>

\* When the batch is rejected the systems are asked for one by one.
Fallback(accepted) == IF accepted THEN {} ELSE SystemNodes

\* _fetch_names_batch: the names of all systems in one statement.
AskSystems ==
  /\ \E accepted \in Accepted :
       /\ To("batch", "ask")
       /\ names' = IF accepted THEN Found(Named(SystemNodes)) ELSE names
       /\ left' = Fallback(accepted) \cup PartNodes
  /\ UNCHANGED <<vars, wanted, attempt, silent, dressed>>

\* _fetch_names_single: the systems the batch left, then the parts, one by one.
\* Nobody sees the names of an attempt before it is over, so this is one step.
AskOneByOne ==
  /\ To("ask", "build")
  /\ \E deaf \in {S \in SUBSET left : Cardinality(S) <= MaxRejections} :
       /\ names' = Found(Named(left \ deaf))
       /\ silent' = silent \cup deaf
  /\ left' = {}
  /\ attempt' = 1
  /\ UNCHANGED <<vars, wanted, dressed>>

\* A statement raises: the lookup is run again, or gives up (None counts as
\* {}), or finds no session and ends the request.
ConnectionLost ==
  /\ npc \in {"use", "batch", "ask"}
  /\ names' = <<>>
  /\ left' = {}
  /\ \/ attempt <= DB_RETRY_COUNT /\ attempt' = attempt + 1 /\ npc' = "use" /\ silent' = {}
     \/ attempt' = 1 /\ npc' = "build" /\ silent' = wanted
     \/ attempt' = 1 /\ npc' = "failed" /\ silent' = {}
  /\ UNCHANGED <<vars, wanted, dressed>>

-----------------------------------------------------------------------------
NameOf(node) == IF node \in DOMAIN names THEN names[node] ELSE NoName

\* An end of a segment: the entry without a part has no name for a part.
Dressed(end) == [system |-> NameOf(Alone(end)),
                 part   |-> IF end[2] = NoPart THEN NoName ELSE NameOf(end)]

\* _build_path_groups, sorted and cut: the response.
Build ==
  /\ To("build", "done")
  /\ \/ inserted = <<>> /\ UNCHANGED <<vars, dressed>>
     \/ /\ Respond
        /\ dressed' = [n \in DOMAIN answer' |-> LET segs == answer'[n].key.segs IN
             [i \in DOMAIN segs |-> [src |-> Dressed(segs[i].src), dst |-> Dressed(segs[i].dst)]]]
  /\ UNCHANGED <<wanted, attempt, left, names, silent>>

AnswerNext ==
  \/ \E d \in Docs : \E path \in todo[d] : Collect(d, path)
  \/ AskNames
  \/ UseSpace
  \/ AskSystems
  \/ AskOneByOne
  \/ ConnectionLost
  \/ Build

AnswerSpec == AnswerInit /\ [][AnswerNext]_answerVars

-----------------------------------------------------------------------------
\* Every end of every segment carries the name of its own system and of its own
\* part, and lacks one only when the database has none or rejected the very
\* statement that asked for it: a rejected batch, a repeated lookup and the
\* same part in several segments cost no name.
NameDue(node) ==
  IF Vertex(node) \in Nameless \/ node \in silent THEN NoName ELSE Vertex(node)

NamesBelong ==
  \A n \in DOMAIN answer : \A i \in DOMAIN answer[n].key.segs :
    LET seg == answer[n].key.segs[i]
        worn(end, name) ==
          /\ name.system = NameDue(Alone(end))
          /\ name.part = IF end[2] = NoPart THEN NoName ELSE NameDue(end)
    IN worn(seg.src, dressed[n][i].src) /\ worn(seg.dst, dressed[n][i].dst)
=============================================================================
