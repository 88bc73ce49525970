--------------------------- MODULE RequestLogging ---------------------------
(***************************************************************************)
(* app/core/logging.py around the handlers: RequestBodyLoggingMiddleware,  *)
(* which is the outer one, reads and replays the body of a path search;    *)
(* RequestIdMiddleware gives every request its id, in a context variable   *)
(* that log lines take it from, and writes the access line.                *)
(*                                                                         *)
(* Requests run as tasks of one event loop, each in a context of its own;  *)
(* an action is what a task does between two suspensions.                  *)
(***************************************************************************)
EXTENDS Naturals, Sequences

CONSTANTS Requests, Given,   \* x-request-id headers clients send
          Garbled,           \* such a header that is not UTF-8
          NoId,              \* "", the context variable's default
          Routes,            \* "paths" (body logged), "health" (excluded), "tree"
          MaxChunks          \* messages a body comes in

ASSUME IdAssumption ==
  /\ {NoId, Garbled} \cap (Given \cup Requests) = {}
  /\ NoId # Garbled
  /\ Given \cap Requests = {}
ASSUME RouteAssumption == Routes \subseteq {"paths", "health", "tree"}
ASSUME ChunksAssumption == MaxChunks \in Nat \ {0}

VARIABLES at,      \* where each request is
          client,  \* [route, header, chunks]: what its client sent
          body,    \* the chunks the outer middleware has read
          got,     \* the body the application has read
          ctx,     \* request_id_var in the context of the request
          status,  \* status_code of RequestIdMiddleware
          reply,   \* what the client gets: [status, id]
          lines    \* log lines of the request: [of, id, status]

vars == <<at, client, body, got, ctx, status, reply, lines>>

Silence == [status |-> 0, id |-> NoId]

Init ==
  /\ at = [r \in Requests |-> "none"]
  /\ client \in [Requests -> [route : Routes, header : Given \cup {NoId, Garbled},
                             chunks : 1..MaxChunks]]
  /\ body = [r \in Requests |-> <<>>]
  /\ got = [r \in Requests |-> <<>>]
  /\ ctx = [r \in Requests |-> NoId]
  /\ status = [r \in Requests |-> 500]
  /\ reply = [r \in Requests |-> Silence]
  /\ lines = [r \in Requests |-> <<>>]

-----------------------------------------------------------------------------
To(r, from, to) == at[r] = from /\ at' = [at EXCEPT ![r] = to]

\* The id of a request is its header, if that can be decoded, or a fresh uuid,
\* which is modelled by the request itself.
Decodable(r) == client[r].header # Garbled

Id(r) == IF client[r].header = NoId THEN r ELSE client[r].header

\* The whole body: its chunks in order.
Sent(r) == [i \in 1..client[r].chunks |-> i]

Line(of, id, code) == [of |-> of, id |-> id, status |-> code]

\* Faulty variants: the id is kept in a global; the replayed body is the last
\* message only; the access line is not in a finally clause; the status of the
\* response is not noted, or read under the wrong key.
SetIdGlobally(r) == ctx' = [x \in Requests |-> Id(r)]

ReplayLast(r) == IF body[r] = <<>> THEN <<>> ELSE <<body[r][Len(body[r])]>>

LogOnReturn(r) ==
  lines' = IF client[r].route = "health" \/ at[r] = "raised" THEN lines
           ELSE [lines EXCEPT ![r] = Append(@, Line("access", Id(r), status[r]))]

NoteNothing(r, code) == UNCHANGED status

NoteNull(r, code) == status' = [status EXCEPT ![r] = 0]

\* request_id_var.set, in the task's own context.
SetId(r) == ctx' = [ctx EXCEPT ![r] = Id(r)]

\* buffered_receive: the whole body in one message.
Replay(r) == body[r]

\* RequestIdMiddleware up to the application.  decode() raises for a header that
\* is not UTF-8, before the id is set and outside of the try.
Enter(r, from, to) ==
  \/ Decodable(r) /\ To(r, from, to) /\ SetId(r)
  \/ ~Decodable(r) /\ To(r, from, "undecoded") /\ UNCHANGED ctx

\* A GET, or any route whose body is not logged, goes straight to
\* RequestIdMiddleware; a path search waits for its body first.
Arrive(r) ==
  /\ \/ client[r].route = "paths" /\ To(r, "none", "reading") /\ UNCHANGED ctx
     \/ client[r].route # "paths" /\ Enter(r, "none", "app")
  /\ UNCHANGED <<client, body, got, status, reply, lines>>

\* await receive() while more_body is set.
ReadChunk(r) ==
  /\ at[r] = "reading"
  /\ Len(body[r]) + 1 < client[r].chunks
  /\ body' = [body EXCEPT ![r] = Append(@, Len(@) + 1)]
  /\ UNCHANGED <<at, client, got, ctx, status, reply, lines>>

\* The last message: the body is logged and, with no suspension in between,
\* RequestIdMiddleware entered.
ReadLast(r) ==
  /\ Enter(r, "reading", "body")
  /\ Len(body[r]) + 1 = client[r].chunks
  /\ body' = [body EXCEPT ![r] = Append(@, Len(@) + 1)]
  /\ lines' = [lines EXCEPT ![r] = Append(@, Line("body", ctx[r], 0))]
  /\ UNCHANGED <<client, got, status, reply>>

\* http.disconnect before the body is complete: the request is dropped.
Disconnect(r) ==
  /\ To(r, "reading", "gone")
  /\ UNCHANGED <<client, body, got, ctx, status, reply, lines>>

\* FastAPI reads the body and validates it; an invalid one is answered 422.
Parse(r) ==
  /\ got' = [got EXCEPT ![r] = Replay(r)]
  /\ To(r, "body", "app") \/ To(r, "body", "invalid")
  /\ UNCHANGED <<client, body, ctx, status, reply, lines>>

\* A handler starts a query: a line of its own, and one of the executor thread,
\* whose context is not the request's.
Query(r) ==
  /\ To(r, "app", "query")
  /\ client[r].route # "health"
  /\ lines' = [lines EXCEPT ![r] = @ \o <<Line("app", ctx[r], 0), Line("thread", NoId, 0)>>]
  /\ UNCHANGED <<client, body, got, ctx, status, reply>>

\* send_with_header notes the status and adds the id to the response.
NoteStatus(r, code) == status' = [status EXCEPT ![r] = code]

\* What needs no query: a search without systems, a tree without rsm_id, /health.
Unasked(route) ==
  CASE route = "paths" -> {200}
    [] route = "tree" -> {422}
    [] route = "health" -> {200, 503}

Respond(r) ==
  /\ \E code \in {200, 404, 422, 500, 503} :
       /\ \/ code = 422 /\ To(r, "invalid", "answered")
          \/ code \in {200, 404, 500} /\ To(r, "query", "answered")
          \/ code \in Unasked(client[r].route) /\ To(r, "app", "answered")
       /\ NoteStatus(r, code)
       /\ reply' = [reply EXCEPT ![r] = [status |-> code, id |-> Id(r)]]
  /\ UNCHANGED <<client, body, got, ctx, lines>>

\* An exception passes both middlewares; the server's own 500 is sent outside
\* of them, after the finally clause.
Raise(r) ==
  /\ To(r, "query", "raised")
  /\ UNCHANGED <<client, body, got, ctx, status, reply, lines>>

\* The access line of the finally clause.
Log(r) ==
  lines' = IF client[r].route = "health" THEN lines
           ELSE [lines EXCEPT ![r] = Append(@, Line("access", Id(r), status[r]))]

Finish(r) ==
  /\ To(r, "answered", "done")
  /\ Log(r)
  /\ UNCHANGED <<client, body, got, ctx, status, reply>>

Escape(r) ==
  /\ To(r, "raised", "done")
  /\ Log(r)
  /\ reply' = [reply EXCEPT ![r] = [status |-> 500, id |-> NoId]]
  /\ UNCHANGED <<client, body, got, ctx, status>>

\* The 500 of a request whose id could not be read: no line and no header.
Refuse(r) ==
  /\ To(r, "undecoded", "done")
  /\ reply' = [reply EXCEPT ![r] = [status |-> 500, id |-> NoId]]
  /\ UNCHANGED <<client, body, got, ctx, status, lines>>

TaskStep(r) ==
  \/ ReadLast(r) \/ ReadChunk(r) \/ Parse(r) \/ Query(r)
  \/ Respond(r) \/ Raise(r) \/ Finish(r) \/ Escape(r) \/ Refuse(r)

Next == \E r \in Requests : Arrive(r) \/ Disconnect(r) \/ TaskStep(r)

\* The loop runs every task that is ready and queries end; a client need
\* neither connect nor stay, but one that stays sends its body.
Spec == Init /\ [][Next]_vars /\ \A r \in Requests : WF_vars(TaskStep(r))

-----------------------------------------------------------------------------
TypeOK ==
  /\ at \in [Requests -> {"none", "reading", "gone", "body", "invalid", "app", "query",
                          "raised", "answered", "undecoded", "done"}]
  /\ ctx \in [Requests -> Given \cup Requests \cup {NoId}]
  /\ status \in [Requests -> {200, 404, 422, 500, 503}]
  /\ \A r \in Requests : Len(body[r]) <= client[r].chunks

\* The middleware that swallowed the body gives it back whole: what the
\* application validates is what the client sent, in however many messages,
\* and it never validates a part of it.
BodyIntact ==
  \A r \in Requests :
    got[r] = IF /\ client[r].route = "paths" /\ Decodable(r)
                /\ at[r] \notin {"none", "reading", "gone", "body"}
               THEN Sent(r) ELSE <<>>

\* One request's lines and response never carry the id of another one that is
\* being served on the same loop.
NoForeignId ==
  \A r \in Requests :
    /\ \A i \in DOMAIN lines[r] : lines[r][i].id \in {Id(r), NoId}
    /\ reply[r].id \in {Id(r), NoId}

\* Whatever way a request ends, the status in its only access line is the one
\* its client got, also when the answer was made outside the middleware.
Access(r) == {i \in DOMAIN lines[r] : lines[r][i].of = "access"}

AccessLineTrue ==
  \A r \in Requests :
    /\ \A i, k \in Access(r) : i = k
    /\ \A i \in Access(r) : lines[r][i].status = reply[r].status /\ lines[r][i].id = Id(r)

\* Every request whose client stays is answered and, /health and undecodable ids
\* aside, has its access line, 422 and unhandled exceptions included.
EveryRequestLogged ==
  \A r \in Requests : at[r] \notin {"none", "gone"} ~>
    \/ at[r] = "gone"
    \/ /\ at[r] = "done" /\ reply[r] # Silence
       /\ client[r].route = "health" \/ ~Decodable(r) \/ Access(r) # {}

\* README.md: the service logs a request id for every request, and the log format
\* has one in every line.
LinesCarryId ==
  \A r \in Requests : \A i \in DOMAIN lines[r] : lines[r][i].id # NoId
=============================================================================
