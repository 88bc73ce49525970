----------------------- MODULE RequestLogging_proofs -----------------------
(***************************************************************************)
(* Proofs about RequestLogging, for every number of requests, every set of *)
(* headers and bodies in any number of messages.                           *)
(*                                                                         *)
(* A request never touches the state of another one, so the invariant says *)
(* of each request by itself where its body, its id, its status and its    *)
(* lines stand (Body, Names, Account), and a step of a request has to keep *)
(* only its own part of it.                                                *)
(***************************************************************************)
EXTENDS RequestLogging, SequenceTheorems, TLAPS

UpTo(n) == [i \in 1..n |-> i]

Before == {"none", "reading", "gone"}

\* The application has read its body.
Validated(r) ==
  client[r].route = "paths" /\ Decodable(r) /\ at[r] \notin Before \cup {"body"}

\* What is left of the id and the lines in the hands of r is its own.
Own(r) == {Id(r), NoId}

LinesOf(r) == [of : {"body", "app", "thread", "access"}, id : Own(r), status : Nat]

Names(r) ==
  /\ ctx[r] \in Own(r)
  /\ reply[r] \in [status : Nat, id : Own(r)]
  /\ lines[r] \in Seq(LinesOf(r))

\* The body so far is a prefix of what the client sends, then all of it.
Body(r) ==
  /\ \E n \in 0..client[r].chunks : body[r] = UpTo(n)
  /\ client[r].route = "paths" /\ at[r] \notin Before => body[r] = Sent(r)
  /\ got[r] = IF Validated(r) THEN Sent(r) ELSE <<>>
  /\ at[r] = "body" => client[r].route = "paths" /\ Decodable(r)
  /\ at[r] = "reading" => client[r].route = "paths"
  /\ at[r] = "undecoded" => ~Decodable(r)
  /\ at[r] \notin Before \cup {"undecoded", "done"} => Decodable(r)

\* The status is 500 until there is a response, then that of the response; the
\* access line is the last thing a request does.
Account(r) ==
  /\ at[r] \notin {"answered", "done"} => status[r] = 500
  /\ at[r] \in {"answered", "done"} => status[r] = reply[r].status
  /\ at[r] # "done" => Access(r) = {}
  /\ \A i, k \in Access(r) : i = k
  /\ \A i \in Access(r) : lines[r][i].status = reply[r].status /\ lines[r][i].id = Id(r)

Clients == [Requests -> [route : Routes, header : Given \cup {NoId, Garbled}, chunks : 1..MaxChunks]]

Domains ==
  /\ client \in Clients
  /\ DOMAIN body = Requests
  /\ DOMAIN got = Requests
  /\ DOMAIN reply = Requests
  /\ DOMAIN lines = Requests

LoggingInv ==
  /\ TypeOK
  /\ Domains
  /\ \A r \in Requests : Names(r) /\ Body(r) /\ Account(r)

-----------------------------------------------------------------------------
\* One more message makes the prefix one longer.
LEMMA OneMore ==
  ASSUME NEW n \in Nat
  PROVE  /\ Len(UpTo(n)) = n
         /\ Append(UpTo(n), n + 1) = UpTo(n + 1)
<1>1. UpTo(n) \in Seq(Nat) /\ Len(UpTo(n)) = n
  BY DEF UpTo
<1>2. UpTo(n + 1) \in Seq(Nat) /\ Len(UpTo(n + 1)) = n + 1
  BY DEF UpTo
<1>3. Append(UpTo(n), n + 1) \in Seq(Nat) /\ Len(Append(UpTo(n), n + 1)) = n + 1
  BY <1>1
<1>4. \A i \in 1..n + 1 : Append(UpTo(n), n + 1)[i] = UpTo(n + 1)[i]
  BY <1>1 DEF UpTo
<1>5. QED
  BY <1>1, <1>2, <1>3, <1>4, SeqEqual

\* Every request begins with nothing read, nothing said and status 500.
LEMMA InitInv == Init => LoggingInv
<1>1. ASSUME Init, NEW r \in Requests
      PROVE  Names(r) /\ Body(r) /\ Account(r)
  <2>1. Names(r)
    BY <1>1 DEF Init, Names, Own, Silence
  <2>2. client[r].chunks \in Nat /\ UpTo(0) = <<>>
    BY <1>1, ChunksAssumption DEF Init, UpTo
  <2>3. Body(r)
    BY <1>1, <2>2 DEF Init, Body, Validated, Decodable, Before
  <2>4. Account(r)
    BY <1>1 DEF Init, Account, Access
  <2>5. QED
    BY <2>1, <2>3, <2>4
<1>2. Init => TypeOK /\ Domains
  BY ChunksAssumption DEF Init, TypeOK, Domains, Clients
<1>3. QED
  BY <1>1, <1>2 DEF LoggingInv

-----------------------------------------------------------------------------
\* A step of one request leaves everything of the others as it is.
Only(r) ==
  /\ client' = client
  /\ Domains'
  /\ \A q \in Requests \ {r} :
       /\ at'[q] = at[q] /\ body'[q] = body[q] /\ got'[q] = got[q] /\ ctx'[q] = ctx[q]
       /\ status'[q] = status[q] /\ reply'[q] = reply[q] /\ lines'[q] = lines[q]

\* So only its own part has to be looked at.
LEMMA OthersKept ==
  ASSUME LoggingInv, NEW r \in Requests, Only(r), TypeOK',
         Names(r)', Body(r)', Account(r)'
  PROVE  LoggingInv'
<1>1. ASSUME NEW q \in Requests \ {r}
      PROVE  Names(q)' /\ Body(q)' /\ Account(q)'
  <2>1. Names(q)'
    BY DEF LoggingInv, Only, Names, LinesOf, Own, Id
  <2>2. Body(q)'
    <3>1. Body(q)
      BY DEF LoggingInv
    <3>2. at'[q] = at[q] /\ body'[q] = body[q] /\ got'[q] = got[q] /\ client' = client
      BY DEF Only
    <3>3. /\ Decodable(q)' <=> Decodable(q)
          /\ Validated(q)' <=> Validated(q)
          /\ Sent(q)' = Sent(q)
      BY <3>2 DEF Decodable, Validated, Sent
    <3>4. QED
      BY <3>1, <3>2, <3>3 DEF Body
  <2>3. Account(q)'
    BY DEF LoggingInv, Only, Account, Access, Id
  <2>4. QED
    BY <2>1, <2>2, <2>3
<1>2. QED
  BY <1>1 DEF LoggingInv, Only

\* A log line more: the old lines stay, and the new one is the last.
LEMMA OneLineMore ==
  ASSUME NEW S, NEW s \in Seq(S), NEW e \in S
  PROVE  /\ Append(s, e) \in Seq(S)
         /\ DOMAIN Append(s, e) = DOMAIN s \cup {Len(s) + 1}
         /\ Len(s) + 1 \notin DOMAIN s
         /\ Append(s, e)[Len(s) + 1] = e
         /\ \A i \in DOMAIN s : Append(s, e)[i] = s[i]
  OBVIOUS

\* What may be in r's hands has the types TypeOK asks for.
LEMMA OwnIsTyped ==
  ASSUME LoggingInv, NEW r \in Requests
  PROVE  /\ Decodable(r) => Id(r) \in Given \cup Requests
         /\ Id(r) \in Own(r) /\ NoId \in Own(r)
         /\ client' = client => Id(r)' = Id(r) /\ Own(r)' = Own(r) /\ LinesOf(r)' = LinesOf(r)
  BY DEF LoggingInv, Domains, Clients, Decodable, Id, Own, LinesOf

\* The id is set, in r's own context, or the request is refused for its header.
LEMMA EntersOwn ==
  ASSUME LoggingInv, NEW r \in Requests, NEW from, NEW to, Enter(r, from, to)
  PROVE  /\ ctx' \in [Requests -> Given \cup Requests \cup {NoId}]
         /\ ctx'[r] \in Own(r)
         /\ \A q \in Requests \ {r} : ctx'[q] = ctx[q]
         /\ at[r] = from
         /\ \/ Decodable(r) /\ at' = [at EXCEPT ![r] = to]
            \/ ~Decodable(r) /\ at' = [at EXCEPT ![r] = "undecoded"]
<1>1. ctx \in [Requests -> Given \cup Requests \cup {NoId}] /\ ctx[r] \in Own(r)
  BY DEF LoggingInv, TypeOK, Names
<1>2. CASE Decodable(r) /\ To(r, from, to) /\ SetId(r)
  BY <1>1, <1>2, OwnIsTyped DEF SetId, To
<1>3. CASE ~Decodable(r) /\ To(r, from, "undecoded") /\ UNCHANGED ctx
  BY <1>1, <1>3 DEF To
<1>4. QED
  BY <1>2, <1>3 DEF Enter

\* A line about something else than access leaves the account as it is.
LEMMA OtherLine ==
  ASSUME LoggingInv, NEW r \in Requests, client' = client,
         NEW e \in LinesOf(r), e.of # "access", lines'[r] = Append(lines[r], e)
  PROVE  /\ lines'[r] \in Seq(LinesOf(r)')
         /\ Access(r)' = Access(r)
         /\ \A i \in Access(r) : lines'[r][i] = lines[r][i]
<1>1. lines[r] \in Seq(LinesOf(r))
  BY DEF LoggingInv, Names
<1>2. QED
  BY <1>1, OneLineMore, OwnIsTyped DEF Access

\* The access line is the only one of its kind.
LEMMA AccessLine ==
  ASSUME LoggingInv, NEW r \in Requests, client' = client, at[r] \in {"answered", "raised"},
         Log(r)
  PROVE  /\ lines'[r] \in Seq(LinesOf(r)')
         /\ \A i, k \in Access(r)' : i = k
         /\ \A i \in Access(r)' : lines'[r][i].status = status[r] /\ lines'[r][i].id = Id(r)
<1>1. lines[r] \in Seq(LinesOf(r)) /\ Access(r) = {} /\ DOMAIN lines = Requests
  BY DEF LoggingInv, Names, Account, Domains
<1>2. CASE client[r].route = "health"
  BY <1>1, <1>2, OwnIsTyped DEF Log, Access
<1>3. CASE client[r].route # "health"
  <2>1. status[r] \in Nat
    BY DEF LoggingInv, TypeOK
  <2>2. Line("access", Id(r), status[r]) \in LinesOf(r)
    BY <2>1, OwnIsTyped DEF Line, LinesOf
  <2>3. lines'[r] = Append(lines[r], Line("access", Id(r), status[r]))
    BY <1>1, <1>3 DEF Log
  <2>4. Access(r)' = {Len(lines[r]) + 1}
    BY <1>1, <2>2, <2>3, OneLineMore DEF Access, Line
  <2>5. lines'[r][Len(lines[r]) + 1] = Line("access", Id(r), status[r])
    BY <1>1, <2>2, <2>3, OneLineMore
  <2>6. QED
    BY <1>1, <2>2, <2>3, <2>4, <2>5, OneLineMore, OwnIsTyped DEF Line
<1>4. QED
  BY <1>2, <1>3

\* Once the application has its body, what was read of it stays, wherever the
\* request goes.
LEMMA BodyKept ==
  ASSUME LoggingInv, NEW r \in Requests,
         client' = client, body' = body, got' = got,
         at[r] \in {"app", "invalid", "query", "raised", "answered", "undecoded"},
         at'[r] \in {"query", "raised", "answered", "done"},
         at[r] = "undecoded" => at'[r] = "done"
  PROVE  Body(r)'
<1>1. at[r] \notin Before \cup {"body"} /\ at'[r] \notin Before \cup {"body", "undecoded"}
  BY DEF Before
<1>2. Validated(r)' <=> Validated(r)
  BY <1>1 DEF Validated, Decodable
<1>3. Body(r)
  BY DEF LoggingInv
<1>4. at'[r] \notin {"body", "reading", "undecoded"}
  BY <1>1 DEF Before
<1>5. at'[r] # "done" => Decodable(r)'
  <2>1. at[r] # "undecoded" => at[r] \notin Before \cup {"undecoded", "done"}
    BY DEF Before
  <2>2. QED
    BY <1>3, <2>1 DEF Body, Decodable
<1>6. client[r].route = "paths" => body[r] = Sent(r)
  BY <1>1, <1>3 DEF Body
<1>7. QED
  BY <1>2, <1>3, <1>4, <1>5, <1>6 DEF Body, Sent

\* The id a request gets is its own.
LEMMA ArriveStep ==
  ASSUME LoggingInv, NEW r \in Requests, Arrive(r)
  PROVE  LoggingInv'
<1>1. /\ ctx' \in [Requests -> Given \cup Requests \cup {NoId}]
      /\ ctx'[r] \in Own(r)
      /\ \A q \in Requests \ {r} : ctx'[q] = ctx[q]
      /\ at[r] = "none"
      /\ \/ client[r].route = "paths" /\ at' = [at EXCEPT ![r] = "reading"]
         \/ client[r].route # "paths" /\ Decodable(r) /\ at' = [at EXCEPT ![r] = "app"]
         \/ client[r].route # "paths" /\ ~Decodable(r) /\ at' = [at EXCEPT ![r] = "undecoded"]
  <2>1. CASE client[r].route = "paths" /\ To(r, "none", "reading") /\ UNCHANGED ctx
    BY <2>1 DEF LoggingInv, TypeOK, Names, To
  <2>2. CASE client[r].route # "paths" /\ Enter(r, "none", "app")
    BY <2>2, EntersOwn
  <2>3. QED
    BY <2>1, <2>2 DEF Arrive
<1>2. Only(r)
  BY <1>1 DEF LoggingInv, Arrive, Domains, TypeOK, Only, Clients
<1>3. TypeOK'
  BY <1>1 DEF LoggingInv, Arrive, TypeOK
<1>4. Names(r)'
  BY <1>1, OwnIsTyped DEF LoggingInv, Arrive, Names
<1>5. Body(r)'
  <2>1. at'[r] \in {"reading", "app", "undecoded"}
    BY <1>1 DEF LoggingInv, TypeOK
  <2>2. body' = body /\ got' = got /\ client' = client
    BY DEF Arrive
  <2>3. \/ client[r].route = "paths" /\ at'[r] = "reading"
        \/ client[r].route # "paths" /\ Decodable(r) /\ at'[r] = "app"
        \/ client[r].route # "paths" /\ ~Decodable(r) /\ at'[r] = "undecoded"
    BY <1>1 DEF LoggingInv, TypeOK
  <2>4. ~Validated(r) /\ ~Validated(r)'
    BY <1>1, <2>2, <2>3 DEF Validated, Before
  <2>5. Body(r)
    BY DEF LoggingInv
  <2>6. \E n \in 0..client'[r].chunks : body'[r] = UpTo(n)
    BY <2>2, <2>5 DEF Body
  <2>7. got'[r] = <<>>
    BY <2>2, <2>4, <2>5 DEF Body
  <2>8. QED
    BY <2>2, <2>3, <2>4, <2>6, <2>7 DEF Body, Before, Decodable
<1>6. Account(r)'
  BY <1>1 DEF LoggingInv, Arrive, Account, Access, TypeOK, Id
<1>7. QED
  BY <1>2, <1>3, <1>4, <1>5, <1>6, OthersKept

\* A message appended to the body: still a prefix, and with the last one all.
LEMMA ChunksRead ==
  ASSUME LoggingInv, NEW r \in Requests, at[r] = "reading",
         Len(body[r]) + 1 <= client[r].chunks,
         body' = [body EXCEPT ![r] = Append(@, Len(@) + 1)]
  PROVE  /\ Len(body'[r]) <= client[r].chunks
         /\ \E n \in 0..client[r].chunks : body'[r] = UpTo(n)
         /\ Len(body[r]) + 1 = client[r].chunks => body'[r] = Sent(r)
<1>1. client[r].chunks \in Nat /\ DOMAIN body = Requests
  BY ChunksAssumption DEF LoggingInv, Domains, Clients
<1>2. PICK n \in 0..client[r].chunks : body[r] = UpTo(n)
  BY DEF LoggingInv, Body, Validated, Decodable
<1>3. Len(body[r]) = n /\ body'[r] = UpTo(n + 1) /\ Len(body'[r]) = n + 1
  <2>1. n \in Nat /\ n + 1 \in Nat
    BY <1>1
  <2>2. body'[r] = Append(body[r], Len(body[r]) + 1)
    BY <1>1
  <2>3. Len(UpTo(n)) = n /\ Len(UpTo(n + 1)) = n + 1 /\ Append(UpTo(n), n + 1) = UpTo(n + 1)
    BY <2>1, OneMore
  <2>4. QED
    BY <1>2, <2>2, <2>3
<1>4. n + 1 \in 0..client[r].chunks
  BY <1>1, <1>3
<1>5. n + 1 = client[r].chunks => UpTo(n + 1) = Sent(r)
  BY DEF UpTo, Sent
<1>6. QED
  BY <1>1, <1>3, <1>4, <1>5

\* A message that is not the last one.
LEMMA ReadChunkStep ==
  ASSUME LoggingInv, NEW r \in Requests, ReadChunk(r)
  PROVE  LoggingInv'
<1>1. Only(r)
  BY DEF LoggingInv, ReadChunk, To, Domains, TypeOK, Only, Clients
<1>2. /\ Len(body'[r]) <= client[r].chunks
      /\ \E n \in 0..client[r].chunks : body'[r] = UpTo(n)
  <2>1. PICK n \in Nat : body[r] = UpTo(n)
    BY ChunksAssumption DEF LoggingInv, Body, Validated, Decodable, Domains, Clients
  <2>2. Len(body[r]) \in Nat /\ client[r].chunks \in Nat
    <3>1. client[r].chunks \in Nat
      BY ChunksAssumption DEF LoggingInv, Domains, Clients
    <3>2. QED
      BY <2>1, <3>1, OneMore
  <2>3. Len(body[r]) + 1 <= client[r].chunks
    BY <2>2 DEF ReadChunk
  <2>4. QED
    BY <2>3, ChunksRead DEF ReadChunk
<1>3. TypeOK'
  BY <1>2 DEF LoggingInv, ReadChunk, TypeOK, Domains
<1>4. Names(r)'
  BY DEF LoggingInv, ReadChunk, Names, Own, LinesOf, Id
<1>5. Body(r)'
  <2>1. at' = at /\ client' = client /\ got' = got /\ at[r] = "reading" /\ Body(r)
    BY DEF LoggingInv, ReadChunk
  <2>2. ~Validated(r) /\ ~Validated(r)'
    BY <2>1 DEF Validated, Before
  <2>3. QED
    BY <1>2, <2>1, <2>2 DEF Body, Before, Decodable
<1>6. Account(r)'
  BY DEF LoggingInv, ReadChunk, Account, Access, Id
<1>7. QED
  BY <1>1, <1>3, <1>4, <1>5, <1>6, OthersKept

\* The last message and the body line.
LEMMA ReadLastStep ==
  ASSUME LoggingInv, NEW r \in Requests, ReadLast(r)
  PROVE  LoggingInv'
<1>1. /\ ctx' \in [Requests -> Given \cup Requests \cup {NoId}]
      /\ ctx'[r] \in Own(r)
      /\ \A q \in Requests \ {r} : ctx'[q] = ctx[q]
      /\ at[r] = "reading"
      /\ \/ Decodable(r) /\ at' = [at EXCEPT ![r] = "body"]
         \/ ~Decodable(r) /\ at' = [at EXCEPT ![r] = "undecoded"]
  BY EntersOwn DEF ReadLast
<1>2. Only(r)
  BY <1>1 DEF LoggingInv, ReadLast, Domains, TypeOK, Only, Clients
<1>3. /\ Len(body'[r]) <= client[r].chunks
      /\ body'[r] = Sent(r) /\ \E n \in 0..client[r].chunks : body'[r] = UpTo(n)
  <2>1. Len(body[r]) + 1 <= client[r].chunks
    BY ChunksAssumption DEF LoggingInv, ReadLast, Domains, Clients
  <2>2. QED
    BY <1>1, <2>1, ChunksRead DEF ReadLast
<1>4. TypeOK'
  <2>1. \A q \in Requests : Len(body'[q]) <= client'[q].chunks
    BY <1>2, <1>3 DEF LoggingInv, TypeOK, Only
  <2>2. status' = status
    BY DEF ReadLast
  <2>3. QED
    BY <1>1, <2>1, <2>2 DEF LoggingInv, TypeOK
<1>5. Names(r)' /\ Account(r)'
  <2>1. ctx[r] \in Own(r)
    BY DEF LoggingInv, Names
  <2>2. Line("body", ctx[r], 0) \in LinesOf(r) /\ Line("body", ctx[r], 0).of # "access"
    BY <2>1 DEF Line, LinesOf
  <2>3. lines'[r] = Append(lines[r], Line("body", ctx[r], 0))
    BY DEF LoggingInv, Domains, ReadLast
  <2>4. client' = client /\ reply' = reply /\ status' = status
    BY DEF ReadLast
  <2>5. /\ lines'[r] \in Seq(LinesOf(r)')
        /\ Access(r)' = Access(r)
        /\ \A i \in Access(r) : lines'[r][i] = lines[r][i]
    BY <2>2, <2>3, <2>4, OtherLine
  <2>6. Names(r)'
    BY <1>1, <2>4, <2>5, OwnIsTyped DEF LoggingInv, Names
  <2>7. Account(r)'
    BY <1>1, <2>4, <2>5, OwnIsTyped DEF LoggingInv, Account, TypeOK
  <2>8. QED
    BY <2>6, <2>7
<1>6. Body(r)'
  <2>1. at'[r] \in {"body", "undecoded"} /\ (at'[r] = "body" <=> Decodable(r))
    BY <1>1 DEF LoggingInv, TypeOK
  <2>2. ~Validated(r) /\ ~Validated(r)' /\ got' = got /\ client' = client
    BY <1>1, <2>1 DEF ReadLast, Validated, Before, Decodable
  <2>3. client[r].route = "paths" /\ got[r] = <<>>
    BY <1>1, <2>2 DEF LoggingInv, Body
  <2>4. QED
    BY <1>3, <2>1, <2>2, <2>3 DEF Body, Before, Sent, Decodable
<1>7. QED
  BY <1>2, <1>4, <1>5, <1>6, OthersKept

\* A client that leaves.
LEMMA DisconnectStep ==
  ASSUME LoggingInv, NEW r \in Requests, Disconnect(r)
  PROVE  LoggingInv'
<1>1. Only(r)
  BY DEF LoggingInv, Disconnect, To, Domains, TypeOK, Only, Clients
<1>2. TypeOK'
  BY DEF LoggingInv, Disconnect, To, TypeOK, Domains, Clients
<1>3. Names(r)'
  BY DEF LoggingInv, Disconnect, To, Names, Domains, Own, LinesOf, Id
<1>4. Body(r)'
  BY DEF LoggingInv, Disconnect, To, Body, Validated, Decodable, Before, Sent, Domains, TypeOK
<1>5. Account(r)'
  BY DEF LoggingInv, Disconnect, To, Account, Access, Domains, TypeOK, Id
<1>6. QED
  BY <1>1, <1>2, <1>3, <1>4, <1>5, OthersKept

\* The application reads what was kept of the body.
LEMMA ParseStep ==
  ASSUME LoggingInv, NEW r \in Requests, Parse(r)
  PROVE  LoggingInv'
<1>1. Only(r)
  BY DEF LoggingInv, Parse, To, Domains, TypeOK, Only, Clients, Replay
<1>2. TypeOK'
  <2>1. at' = [at EXCEPT ![r] = "app"] \/ at' = [at EXCEPT ![r] = "invalid"]
    BY DEF Parse, To
  <2>2. QED
    BY <2>1 DEF LoggingInv, Parse, TypeOK
<1>3. Names(r)'
  BY DEF LoggingInv, Parse, To, Names, Domains, Own, LinesOf, Id, Replay
<1>4. Body(r)'
  <2>1. /\ at[r] = "body" /\ at'[r] \in {"app", "invalid"}
        /\ got'[r] = body[r] /\ body' = body /\ client' = client
    BY DEF LoggingInv, Parse, To, Domains, TypeOK, Replay
  <2>2. client[r].route = "paths" /\ Decodable(r) /\ body[r] = Sent(r)
    BY <2>1 DEF LoggingInv, Body, Before
  <2>3. Validated(r)' /\ Decodable(r)' /\ Sent(r)' = Sent(r)
    BY <2>1, <2>2 DEF Validated, Decodable, Sent, Before
  <2>4. \E n \in 0..client'[r].chunks : body'[r] = UpTo(n)
    BY <2>1 DEF LoggingInv, Body
  <2>5. QED
    BY <2>1, <2>2, <2>3, <2>4 DEF Body, Before
<1>5. Account(r)'
  BY DEF LoggingInv, Parse, To, Account, Access, Domains, TypeOK, Id, Replay
<1>6. QED
  BY <1>1, <1>2, <1>3, <1>4, <1>5, OthersKept

\* Two lines at the start of a query.
LEMMA QueryStep ==
  ASSUME LoggingInv, NEW r \in Requests, Query(r)
  PROVE  LoggingInv'
<1>1. Only(r)
  BY DEF LoggingInv, Query, To, Domains, TypeOK, Only, Clients
<1>2. TypeOK'
  BY DEF LoggingInv, Query, To, TypeOK, Domains, Clients
<1>3. Names(r)' /\ Account(r)'
  <2> DEFINE own == Line("app", ctx[r], 0)
             threads == Line("thread", NoId, 0)
  <2>1. lines[r] \in Seq(LinesOf(r)) /\ ctx[r] \in Own(r)
    BY DEF LoggingInv, Names
  <2>2. /\ own \in LinesOf(r) /\ own.of # "access"
        /\ threads \in LinesOf(r) /\ threads.of # "access"
    BY <2>1, OwnIsTyped DEF Line, LinesOf
  <2>3. lines'[r] = lines[r] \o <<own, threads>>
    BY DEF LoggingInv, Domains, Query
  <2>4. /\ lines'[r] \in Seq(LinesOf(r))
        /\ DOMAIN lines'[r] = DOMAIN lines[r] \cup {Len(lines[r]) + 1, Len(lines[r]) + 2}
        /\ \A i \in DOMAIN lines[r] : lines'[r][i] = lines[r][i]
        /\ lines'[r][Len(lines[r]) + 1] = own /\ lines'[r][Len(lines[r]) + 2] = threads
    <3> HIDE DEF own, threads
    <3>1. QED
      BY <2>1, <2>2, <2>3
  <2>5. Access(r)' = Access(r) /\ \A i \in Access(r) : lines'[r][i] = lines[r][i]
    <3> HIDE DEF own, threads
    <3>1. QED
      BY <2>2, <2>4 DEF Access
  <2>6. client' = client /\ reply' = reply /\ status' = status /\ ctx' = ctx
    BY DEF Query
  <2>7. Names(r)'
    BY <2>4, <2>6, OwnIsTyped DEF LoggingInv, Names
  <2>8. Account(r)'
    BY <2>5, <2>6, OwnIsTyped DEF LoggingInv, Query, To, Account, TypeOK
  <2>9. QED
    BY <2>7, <2>8
<1>4. Body(r)'
  BY BodyKept DEF LoggingInv, TypeOK, Query, To
<1>5. QED
  BY <1>1, <1>2, <1>3, <1>4, OthersKept

\* The response takes status and id.
LEMMA RespondStep ==
  ASSUME LoggingInv, NEW r \in Requests, Respond(r)
  PROVE  LoggingInv'
<1>1. Only(r)
  BY DEF LoggingInv, Respond, To, Domains, TypeOK, Only, Clients, NoteStatus
<1>2. TypeOK'
  <2>1. PICK code \in {200, 404, 422, 500, 503} :
          /\ \/ To(r, "invalid", "answered")
             \/ To(r, "query", "answered")
             \/ To(r, "app", "answered")
          /\ NoteStatus(r, code)
    BY DEF Respond
  <2>2. at' = [at EXCEPT ![r] = "answered"] /\ status' = [status EXCEPT ![r] = code]
    BY <2>1 DEF To, NoteStatus
  <2>3. QED
    BY <2>2 DEF LoggingInv, Respond, TypeOK
<1>3. Names(r)'
  BY DEF LoggingInv, Respond, To, Names, Domains, Own, LinesOf, Id, NoteStatus
<1>4. Body(r)'
  <2>1. at[r] \in {"invalid", "query", "app"} /\ at'[r] = "answered"
    BY DEF LoggingInv, TypeOK, Respond, To
  <2>2. QED
    BY <2>1, BodyKept DEF Respond
<1>5. Account(r)'
  BY DEF LoggingInv, Respond, To, Account, Access, Domains, TypeOK, Id, NoteStatus
<1>6. QED
  BY <1>1, <1>2, <1>3, <1>4, <1>5, OthersKept

\* An exception leaves the status at 500.
LEMMA RaiseStep ==
  ASSUME LoggingInv, NEW r \in Requests, Raise(r)
  PROVE  LoggingInv'
<1>1. Only(r)
  BY DEF LoggingInv, Raise, To, Domains, TypeOK, Only, Clients
<1>2. TypeOK'
  BY DEF LoggingInv, Raise, To, TypeOK, Domains, Clients
<1>3. Names(r)'
  BY DEF LoggingInv, Raise, To, Names, Domains, Own, LinesOf, Id
<1>4. Body(r)'
  BY BodyKept DEF LoggingInv, TypeOK, Raise, To
<1>5. Account(r)'
  BY DEF LoggingInv, Raise, To, Account, Access, Domains, TypeOK, Id
<1>6. QED
  BY <1>1, <1>2, <1>3, <1>4, <1>5, OthersKept

\* The access line after a response.
LEMMA FinishStep ==
  ASSUME LoggingInv, NEW r \in Requests, Finish(r)
  PROVE  LoggingInv'
<1>1. Only(r)
  BY DEF LoggingInv, Finish, To, Domains, TypeOK, Only, Clients, Log
<1>2. TypeOK'
  BY DEF LoggingInv, Finish, To, TypeOK, Domains, Clients, Log
<1>3. Names(r)' /\ Account(r)'
  <2>1. at[r] = "answered" /\ at'[r] = "done" /\ status[r] = reply[r].status
    BY DEF LoggingInv, TypeOK, Finish, To, Account
  <2>2. /\ lines'[r] \in Seq(LinesOf(r)')
        /\ \A i, k \in Access(r)' : i = k
        /\ \A i \in Access(r)' : lines'[r][i].status = status[r] /\ lines'[r][i].id = Id(r)
    BY <2>1, AccessLine DEF Finish
  <2>3. client' = client /\ reply' = reply /\ status' = status /\ ctx' = ctx
    BY DEF Finish
  <2>4. Names(r)'
    BY <2>2, <2>3, OwnIsTyped DEF LoggingInv, Names
  <2>5. Account(r)'
    BY <2>1, <2>2, <2>3, OwnIsTyped DEF Account
  <2>6. QED
    BY <2>4, <2>5
<1>4. Body(r)'
  BY BodyKept DEF LoggingInv, TypeOK, Finish, To
<1>5. QED
  BY <1>1, <1>2, <1>3, <1>4, OthersKept

\* The access line after an exception.
LEMMA EscapeStep ==
  ASSUME LoggingInv, NEW r \in Requests, Escape(r)
  PROVE  LoggingInv'
<1>1. Only(r)
  BY DEF LoggingInv, Escape, To, Domains, TypeOK, Only, Clients, Log
<1>2. TypeOK'
  BY DEF LoggingInv, Escape, To, TypeOK, Domains, Clients, Log
<1>3. Names(r)' /\ Account(r)'
  <2>1. at[r] = "raised" /\ at'[r] = "done" /\ status[r] = 500
    BY DEF LoggingInv, TypeOK, Escape, To, Account
  <2>2. /\ lines'[r] \in Seq(LinesOf(r)')
        /\ \A i, k \in Access(r)' : i = k
        /\ \A i \in Access(r)' : lines'[r][i].status = status[r] /\ lines'[r][i].id = Id(r)
    BY <2>1, AccessLine DEF Escape
  <2>3. /\ client' = client /\ status' = status /\ ctx' = ctx
        /\ reply'[r] = [status |-> 500, id |-> NoId]
    BY DEF LoggingInv, Domains, Escape
  <2>4. Names(r)'
    BY <2>2, <2>3, OwnIsTyped DEF LoggingInv, Names
  <2>5. Account(r)'
    BY <2>1, <2>2, <2>3, OwnIsTyped DEF Account
  <2>6. QED
    BY <2>4, <2>5
<1>4. Body(r)'
  BY BodyKept DEF LoggingInv, TypeOK, Escape, To
<1>5. QED
  BY <1>1, <1>2, <1>3, <1>4, OthersKept

\* The 500 for an id that cannot be decoded.
LEMMA RefuseStep ==
  ASSUME LoggingInv, NEW r \in Requests, Refuse(r)
  PROVE  LoggingInv'
<1>1. /\ at[r] = "undecoded" /\ at'[r] = "done" /\ reply'[r] = [status |-> 500, id |-> NoId]
      /\ client' = client /\ lines' = lines /\ status' = status /\ ctx' = ctx
    BY DEF LoggingInv, TypeOK, Domains, Refuse, To
<1>2. Only(r)
  BY DEF LoggingInv, Refuse, To, Domains, TypeOK, Only, Clients
<1>3. TypeOK'
  BY DEF LoggingInv, Refuse, To, TypeOK, Domains, Clients
<1>4. Names(r)'
  BY <1>1, OwnIsTyped DEF LoggingInv, Names
<1>5. Body(r)'
  BY <1>1, BodyKept DEF Refuse
<1>6. Account(r)'
  BY <1>1, OwnIsTyped DEF LoggingInv, Account, Access
<1>7. QED
  BY <1>2, <1>3, <1>4, <1>5, <1>6, OthersKept

-----------------------------------------------------------------------------
\* Every step is a step of one request, or nothing changes.
LEMMA StepInv == LoggingInv /\ [Next]_vars => LoggingInv'
<1>1. ASSUME LoggingInv, UNCHANGED vars
      PROVE  LoggingInv'
  <2>1. ASSUME NEW r \in Requests
        PROVE  Names(r)' /\ Body(r)' /\ Account(r)'
    <3>1. Names(r)'
      BY <1>1 DEF LoggingInv, vars, Names, Own, LinesOf, Id
    <3>2. Body(r)'
      BY <1>1 DEF LoggingInv, vars, Body, Validated, Decodable, Sent
    <3>3. Account(r)'
      BY <1>1 DEF LoggingInv, vars, Account, Access, Id
    <3>4. QED
      BY <3>1, <3>2, <3>3
  <2>2. TypeOK' /\ Domains'
    BY <1>1 DEF LoggingInv, vars, TypeOK, Domains
  <2>3. QED
    BY <2>1, <2>2 DEF LoggingInv
<1>2. ASSUME LoggingInv, NEW r \in Requests, Arrive(r) \/ Disconnect(r) \/ TaskStep(r)
      PROVE  LoggingInv'
  BY <1>2, ArriveStep, DisconnectStep, ReadChunkStep, ReadLastStep, ParseStep, QueryStep,
     RespondStep, RaiseStep, FinishStep, EscapeStep, RefuseStep DEF TaskStep
<1>3. QED
  BY <1>1, <1>2 DEF Next

\* The invariant holds in every reachable state.
THEOREM LoggingInvariance == Spec => []LoggingInv
BY InitInv, StepInv, PTL DEF Spec

\* The places, ids and statuses of all requests keep their types.
THEOREM LoggingTypes == Spec => []TypeOK
<1>1. LoggingInv => TypeOK
  BY DEF LoggingInv
<1>2. QED
  BY <1>1, LoggingInvariance, PTL

\* buffered_receive: the application validates what the client sent, whole, in
\* however many messages it came.
THEOREM BodiesIntact == Spec => []BodyIntact
<1>1. LoggingInv => BodyIntact
  BY DEF LoggingInv, BodyIntact, Body, Validated, Decodable, Before
<1>2. QED
  BY <1>1, LoggingInvariance, PTL

\* request_id_var: lines and response of a request carry its id or none,
\* however many requests share the loop.
THEOREM NoIdLeaks == Spec => []NoForeignId
<1>1. LoggingInv => NoForeignId
  <2>1. ASSUME LoggingInv, NEW r \in Requests
        PROVE  /\ \A i \in DOMAIN lines[r] : lines[r][i].id \in Own(r)
               /\ reply[r].id \in Own(r)
    <3>1. lines[r] \in Seq(LinesOf(r)) /\ reply[r] \in [status : Nat, id : Own(r)]
      BY <2>1 DEF LoggingInv, Names
    <3>2. \A i \in DOMAIN lines[r] : lines[r][i] \in LinesOf(r)
      BY <3>1
    <3>3. QED
      BY <3>1, <3>2 DEF LinesOf
  <2>2. QED
    BY <2>1 DEF NoForeignId, Own
<1>2. QED
  BY <1>1, LoggingInvariance, PTL

\* The finally clause: at most one access line, and it has the status the
\* client got.
THEOREM AccessIsTrue == Spec => []AccessLineTrue
<1>1. LoggingInv => AccessLineTrue
  BY DEF LoggingInv, AccessLineTrue, Account
<1>2. QED
  BY <1>1, LoggingInvariance, PTL
=============================================================================
