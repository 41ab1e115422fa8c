------------------------------ MODULE Exchange ------------------------------
(***************************************************************************)
(* What passes between mentatd and one client: requests over HTTP          *)
(* (handle_request of server.rs), over a WebSocket (websocket.rs) and over *)
(* the streaming endpoint (stream.rs).                                     *)
(*                                                                         *)
(* The three channels share no state here, so a behaviour uses one.        *)
(***************************************************************************)
EXTENDS Handlers

CONSTANTS
    Asked,      \* the requests a client may send
    Accepts,    \* the Accept headers: sequences of [type, q]
    Frames,     \* the frames a WebSocket client may send
    MaxFrames,  \* how many it sends
    BatchSize,  \* DEFAULT_BATCH_SIZE
    ClientWrites(_, _, _),  \* the body a client writes for a request, in a form
    ReadBody(_, _),         \* the operation that a format's parser reads in a body
    WriteBody(_, _),        \* the body that an encoding's serializer writes
    PrintRow(_),            \* serialize_value of a row
    RequestIdIn(_)          \* extract_request_id

ASSUME BatchAssumption == BatchSize \in Nat \ {0}
ASSUME MaxFramesAssumption == MaxFrames \in Nat

\* The frames there are, and what the parsers make of the size in a qseq.
ASSUME FramesAssumption == \A f \in Frames : f.k \in {"text", "binary", "ping", "pong", "close"}
ASSUME SizesAssumption ==
    \A r \in Asked, form \in {"edn", "json", "msgpack"}, outer \in {0, 2}, format \in {"edn", "json", "msgpack"} :
        LET o == ReadBody(format, ClientWrites(form, outer, r))
        IN  o.op = "qseq" => Arg(o, "chunk-size") = None \/ Arg(o, "chunk-size").n \in Int

VARIABLES
    channel,  \* "http", "ws" or "sse"
    http,     \* the last exchange over HTTP
    ws,       \* the WebSocket connection
    sse,      \* the stream
    dbs       \* the names of the server's databases

vars == <<channel, http, ws, sse, dbs>>

-----------------------------------------------------------------------------
(* HTTP *)

\* detect_input_format; without a Content-Type the body is Transit+JSON.
DetectInputFormat(type) ==
    CASE type \in {"none", "transit+json"} -> "json"
      [] type = "transit+msgpack" -> "msgpack"
      [] OTHER -> "edn"

\* parse_accept_encoding: the best quality of a Transit type, the first of
\* equals; EDN if no Transit type is named.
AcceptEncoding(accept) ==
    LET transit == SelectSeq(accept, LAMBDA a : a.type \in {"json", "msgpack"})
        best == {i \in 1..Len(transit) : \A j \in 1..Len(transit) : transit[i].q >= transit[j].q}
    IN  IF transit = <<>> THEN "edn" ELSE transit[CHOOSE i \in best : \A j \in best : i <= j].type

NoExchange == [st |-> "idle"]

\* handle_request up to the parsed operation
HttpParse ==
    /\ channel = "http" /\ http.st = "idle"
    /\ \E r \in Asked, form \in {"edn", "json", "msgpack"}, outer \in {0, 2},
          type \in {"none", "transit+json", "transit+msgpack", "edn"} :
         LET body == ClientWrites(form, outer, r)
             format == DetectInputFormat(type)
         IN  /\ form = "edn" => outer = 0
             /\ http' = [st |-> "parsed", r |-> r, form |-> form, format |-> format,
                         op |-> ReadBody(format, body)]
    /\ UNCHANGED <<channel, ws, sse, dbs>>

\* and from there to the body of the answer.
HttpAnswer ==
    /\ channel = "http" /\ http.st = "parsed"
    /\ \E accept \in Accepts, end \in Handled(http.op, dbs) :
         LET encoding == AcceptEncoding(accept)
         IN  /\ http' = IF end.answer = Panic THEN [st |-> "aborted"]
                        ELSE [st |-> "answered", name |-> http.op.op, answer |-> end.answer,
                              encoding |-> encoding, body |-> WriteBody(encoding, end.answer)]
             /\ dbs' = end.dbs
    /\ UNCHANGED <<channel, ws, sse>>

HttpNext ==
    /\ channel = "http" /\ http.st \in {"answered", "aborted"}
    /\ http' = NoExchange
    /\ UNCHANGED <<channel, ws, sse, dbs>>

-----------------------------------------------------------------------------
(* WebSocket.  ws is [st, net, busy, out, sent, gone]: whether the handler  *)
(* loops, the frames on their way to it, the one it works on, the frames it *)
(* sent, those the client sent so far, and whether the client has gone.     *)
(* A frame is [k, body, id]; id is the request id the client put in.  With  *)
(* a frame that the handler sent go the number of the frame it answers and  *)
(* the databases its operation found, for the properties to speak of.       *)

NoFrame == [k |-> "none", body |-> Body("edn", Nil, <<>>), id |-> None]
Reply(k, body, to) == [k |-> k, body |-> body, to |-> to, dbs |-> dbs]
IsRequest(f) == f.k \in {"text", "binary"}

RequestId == Tagged(":", Word("request-id"))

\* inject_request_id: the id is cut at a quote, which leaves the text unreadable.
InjectRequestId(j, id) ==
    IF id = None THEN j
    ELSE IF NeedsEscape(id.t) THEN Json("broken", NoText, 0, <<>>)
    ELSE Array(j.xs \o <<JsonText(RequestId), JsonText(id.t)>>)

\* process_ws_message parses a text that opens with a bracket as Transit+JSON;
\* process_ws_binary_message always takes MessagePack.
ParseFrame(f) ==
    IF f.k = "binary" THEN ReadBody("msgpack", f.body)
    ELSE ReadBody(IF f.body.form = "edn" /\ f.body.v.k \notin {"map", "vector"} THEN "edn" ELSE "json", f.body)

\* The operation of each request frame, and the id that is found in it.
FrameOp == [f \in {g \in Frames : IsRequest(g)} |-> ParseFrame(f)]
FrameId == [f \in {g \in Frames : IsRequest(g)} |->
              IF f.k = "text" /\ f.body.form = "json" THEN RequestIdIn(f.body.v) ELSE None]

FrameReply(f, answer) ==
    Body("json", InjectRequestId(WriteBody("json", answer).v, FrameId[f]), <<>>)

Welcome ==
    Success(Map(<<Keyword(Word("type")), Keyword(Word("datomic.client/session")),
                  Keyword(Word("session-id")), String(UuidText(1)),
                  Keyword(Word("protocol-version")), Integer(1)>>))

IdleAnomaly == Anomaly("interrupted", Word("Connection idle timeout"), Word("db.error/timeout"))

\* handle_ws_connection sends the welcome, or gives up if it cannot.
WsOpen ==
    /\ channel = "ws" /\ ws.st = "new"
    /\ ws' = IF ws.gone THEN [ws EXCEPT !.st = "closed"]
             ELSE [ws EXCEPT !.st = "open", !.out = <<Reply("welcome", WriteBody("json", Welcome), 0)>>]
    /\ UNCHANGED <<channel, http, sse, dbs>>

WsSend ==
    /\ channel = "ws" /\ ~ws.gone /\ Len(ws.sent) < MaxFrames
    /\ \E f \in Frames : ws' = [ws EXCEPT !.net = Append(@, f), !.sent = Append(@, f)]
    /\ UNCHANGED <<channel, http, sse, dbs>>

WsLeave ==
    /\ channel = "ws" /\ ~ws.gone
    /\ ws' = [ws EXCEPT !.gone = TRUE]
    /\ UNCHANGED <<channel, http, sse, dbs>>

\* How many of the client's frames the handler has taken from the socket.
Taken == Len(ws.sent) - Len(ws.net)

\* One frame taken from the socket; a ping that cannot be answered, a close
\* frame and the end of the stream end the loop.
WsReceive ==
    /\ channel = "ws" /\ ws.st = "open" /\ ws.busy = NoFrame
    /\ \/ /\ ws.net # <<>>
          /\ LET f == ws.net[1]
                 rest == [ws EXCEPT !.net = Tail(@)]
             IN  ws' = CASE IsRequest(f) -> [rest EXCEPT !.busy = f]
                         [] f.k = "ping" -> IF ws.gone THEN [rest EXCEPT !.st = "closed"]
                                            ELSE [rest EXCEPT !.out = Append(@, Reply("pong", f.body, 0))]
                         [] f.k = "pong" -> rest
                         [] f.k = "close" -> [rest EXCEPT !.st = "closed"]
       \/ /\ ws.net = <<>> /\ ws.gone
          /\ ws' = [ws EXCEPT !.st = "closed"]
    /\ UNCHANGED <<channel, http, sse, dbs>>

\* The operation ends and its answer is sent; if it cannot be, or the operation
\* panics, so does the loop.
Answering(end) ==
    /\ ws' = IF end.answer = Panic THEN [ws EXCEPT !.busy = NoFrame, !.st = "crashed"]
             ELSE IF ws.gone THEN [ws EXCEPT !.busy = NoFrame, !.st = "closed"]
             ELSE [ws EXCEPT !.busy = NoFrame,
                     !.out = Append(@, Reply("answer", FrameReply(ws.busy, end.answer), Taken))]
    /\ dbs' = end.dbs

\* Mutant: an answer leaves the buffer when the next frame has arrived.
WsAnswerUnflushed ==
    /\ channel = "ws" /\ ws.st = "open" /\ ws.busy # NoFrame /\ (ws.net # <<>> \/ ws.gone)
    /\ \E end \in Handled(FrameOp[ws.busy], dbs) : Answering(end)
    /\ UNCHANGED <<channel, http, sse>>

\* Mutant: a request that cannot be parsed is dropped.
WsAnswerParsed ==
    /\ channel = "ws" /\ ws.st = "open" /\ ws.busy # NoFrame
    /\ IF Refused(FrameOp[ws.busy]) THEN ws' = [ws EXCEPT !.busy = NoFrame] /\ UNCHANGED dbs
       ELSE \E end \in Handled(FrameOp[ws.busy], dbs) : Answering(end)
    /\ UNCHANGED <<channel, http, sse>>

WsAnswer ==
    /\ channel = "ws" /\ ws.st = "open" /\ ws.busy # NoFrame
    /\ \E end \in Handled(FrameOp[ws.busy], dbs) : Answering(end)
    /\ UNCHANGED <<channel, http, sse>>

\* No frame arrived for WS_IDLE_TIMEOUT_SECS; one may be on its way.
WsIdle ==
    /\ channel = "ws" /\ ws.st = "open" /\ ws.busy = NoFrame
    /\ ws' = [ws EXCEPT !.st = "closed",
                        !.out = Append(@, Reply("timeout", WriteBody("json", IdleAnomaly), 0))]
    /\ UNCHANGED <<channel, http, sse, dbs>>

-----------------------------------------------------------------------------
(* The stream.  sse is [st, rows, next, events]: the rows fetched, the      *)
(* first one not yet sent and the events sent.                              *)

Event(k, v, total, batches) == [k |-> k, v |-> v, total |-> total, batches |-> batches]

\* validate_stream_request, then execute_streaming_query: all rows are fetched
\* before the first is sent.
SseStart ==
    /\ channel = "sse" /\ sse.st = "new"
    /\ \E r \in Asked :
         LET op == ReadBody("edn", Body("edn", r, <<>>))
         IN  \/ /\ op.op \notin Queries
                /\ sse' = [sse EXCEPT !.st = "ended", !.events = <<Event("error", Nil, 0, 0)>>]
             \/ /\ op.op \in Queries
                /\ \E rows \in Rows :
                      LET answer == StreamedRows(rows)
                      IN  sse' = IF answer = Failed
                                 THEN [sse EXCEPT !.st = "ended", !.events = <<Event("error", Nil, 0, 0)>>]
                                 ELSE [st |-> "sending", op |-> op, call |-> StreamCall(op), json |-> rows,
                                       rows |-> answer.xs, next |-> 1, events |-> <<Event("columns", Nil, 0, 0)>>]
             \/ /\ op.op \in Queries
                /\ sse' = [sse EXCEPT !.st = "ended", !.events = <<Event("error", Nil, 0, 0)>>]
    /\ UNCHANGED <<channel, http, ws, dbs>>

PrintedRows(rows) == Vector([i \in 1..Len(rows) |-> PrintRow(rows[i])])

\* One element of chunks(DEFAULT_BATCH_SIZE)
SseBatch ==
    /\ channel = "sse" /\ sse.st = "sending" /\ sse.next <= Len(sse.rows)
    /\ sse' = [sse EXCEPT !.next = @ + BatchSize,
                          !.events = Append(@, Event("batch", PrintedRows(Chunk(sse.rows, sse.next, BatchSize)), 0, 0))]
    /\ UNCHANGED <<channel, http, ws, dbs>>

\* Mutant: the last, shorter batch is not counted.
BatchCountFloor(n) == n \div BatchSize

\* div_ceil
BatchCount(n) == (n + BatchSize - 1) \div BatchSize

\* Mutant: the last batch is taken to be full.
SseDoneExact ==
    /\ channel = "sse" /\ sse.st = "sending" /\ sse.next = Len(sse.rows) + 1
    /\ sse' = [sse EXCEPT !.st = "ended",
                          !.events = Append(@, Event("done", Nil, Len(sse.rows), BatchCount(Len(sse.rows))))]
    /\ UNCHANGED <<channel, http, ws, dbs>>

SseDone ==
    /\ channel = "sse" /\ sse.st = "sending" /\ sse.next > Len(sse.rows)
    /\ sse' = [sse EXCEPT !.st = "ended",
                          !.events = Append(@, Event("done", Nil, Len(sse.rows), BatchCount(Len(sse.rows))))]
    /\ UNCHANGED <<channel, http, ws, dbs>>

\* The client drops the connection and the generator with it.
SseDrop ==
    /\ channel = "sse" /\ sse.st = "sending"
    /\ sse' = [sse EXCEPT !.st = "dropped"]
    /\ UNCHANGED <<channel, http, ws, dbs>>

-----------------------------------------------------------------------------
Init ==
    /\ channel \in {"http", "ws", "sse"}
    /\ http = NoExchange
    /\ ws = [st |-> "new", net |-> <<>>, busy |-> NoFrame, out |-> <<>>, sent |-> <<>>, gone |-> FALSE]
    /\ dbs = {Word("mentat")}
    /\ sse = [st |-> "new", op |-> Refusal("missing"), call |-> None, json |-> <<>>, rows |-> <<>>, next |-> 1, events |-> <<>>]

Next ==
    \/ HttpParse \/ HttpAnswer \/ HttpNext
    \/ WsOpen \/ WsSend \/ WsLeave \/ WsReceive \/ WsAnswer \/ WsIdle
    \/ SseStart \/ SseBatch \/ SseDone \/ SseDrop

Spec == Init /\ [][Next]_vars

\* The handler's own steps: once a frame is there or an operation runs, tokio
\* runs the task on; the timer, the client and the network promise nothing.
\* No two of these steps are possible at once, so one condition serves for all.
FairSpec == Spec /\ WF_vars(WsOpen \/ WsReceive \/ WsAnswer \/ SseBatch \/ SseDone)

-----------------------------------------------------------------------------
(* Properties *)

\* Every variable holds what its component can hold: no frame is worked on once
\* the handler has left its loop, and a stream sends no row it does not have.
TypeOK ==
    /\ channel \in {"http", "ws", "sse"}
    /\ http.st \in {"idle", "parsed", "answered", "aborted"}
    /\ ws.st \in {"new", "open", "closed", "crashed"} /\ Len(ws.net) <= Len(ws.sent) /\ Len(ws.sent) <= MaxFrames
    /\ ws.st # "open" => ws.busy = NoFrame
    /\ sse.st \in {"new", "sending", "ended", "dropped"}
    /\ sse.next \in 1..(Len(sse.rows) + BatchSize)

\* The requests the handler took from the socket, and the frames it answered, by
\* their numbers; the one it works on or panicked on has no answer.
TakenRequests == {i \in 1..Taken : IsRequest(ws.sent[i])}
Unanswered == IF ws.busy # NoFrame \/ ws.st = "crashed" THEN {Taken} ELSE {}
AnswersSent == {i \in 1..Len(ws.out) : ws.out[i].k = "answer"}

\* Clients pair the answers on a connection with their requests: answers come in
\* the order of the requests, none twice; each one is an answer that the operation
\* of its own request may give, under the id found in that request; and while the
\* client is there every request taken off the socket has its answer, except the
\* one the handler works on or panicked on: the idle timer, pings and refused
\* requests swallow none (handle_ws_connection, process_ws_message).
AnswersPair ==
    /\ \A i, j \in AnswersSent : i < j => ws.out[i].to < ws.out[j].to
    /\ \A i \in AnswersSent :
          /\ ws.out[i].to \in TakenRequests \ Unanswered
          /\ LET f == ws.sent[ws.out[i].to]
             IN  \E end \in Handled(FrameOp[f], ws.out[i].dbs) : ws.out[i].body = FrameReply(f, end.answer)
    /\ ~ws.gone => TakenRequests \ Unanswered \subseteq {ws.out[i].to : i \in AnswersSent}

\* The requests a client sent, and the answers it got, each in order.
SentRequests == SelectSeq(ws.sent, IsRequest)
Replies == SelectSeq(ws.out, LAMBDA o : o.k = "answer")

\* A request on the socket is answered unless the connection ends.
RequestsAnswered ==
    \A i \in 1..MaxFrames :
        (Len(SentRequests) >= i) ~> (Len(Replies) >= i \/ ws.st \in {"closed", "crashed"})

\* When the stream says done, every event between the columns and it is a batch;
\* the batches hold every row once, in order, none of them empty, and the counts
\* it gives are theirs.
StreamComplete ==
    LET batches == SubSeq(sse.events, 2, Len(sse.events) - 1)
        done == sse.events[Len(sse.events)]
    IN  (sse.st = "ended" /\ done.k = "done") =>
            /\ \A i \in 1..Len(batches) : batches[i].k = "batch" /\ Len(batches[i].v.xs) \in 1..BatchSize
            /\ Joined([i \in 1..Len(batches) |-> batches[i].v.xs]) = PrintedRows(sse.rows).xs
            /\ done.total = Len(sse.rows) /\ done.batches = Len(batches)

\* Streaming a query asks PostgreSQL what the same request over HTTP asks it: the
\* two copies of the code that builds the inputs agree, except that the stream
\* does not know database values.
StreamAsksAlike ==
    (sse.st = "sending" /\ (sse.op.op = "q" => Arg(sse.op, "db-id") = None)) =>
        sse.call = QueryCall(sse.op, 0)

\* The chunks of a qseq hold the rows of its query, each once and in order; none
\* is empty or too large, and the total is theirs.
ChunksComplete ==
    (http.st = "answered" /\ http.name = "qseq" /\ http.answer.ok) =>
        LET chunks == http.answer.v.xs[2].xs
            size == http.answer.v.xs[6].n
            all == Joined([i \in 1..Len(chunks) |-> chunks[i].xs])
        IN  /\ \E rows \in Rows : all = QueryRows(rows).xs
            /\ \A i \in 1..Len(chunks) : chunks[i].xs # <<>> /\ (size > 0 => Len(chunks[i].xs) <= size)
            /\ http.answer.v.xs[4].n = Len(all)

\* An answer that is sent in pieces, the batches of a stream or the chunks of a
\* qseq, is the whole answer (execute_streaming_query, Operation::Qseq).
PiecesComplete == StreamComplete /\ ChunksComplete

\* Streaming a query gives the rows that asking it over HTTP gives.
StreamAgrees == sse.st = "sending" => Vector(sse.rows) = QueryRows(sse.json)

\* A stream that is not dropped comes to its last event.
StreamEnds == (sse.st = "sending") ~> (sse.st \in {"ended", "dropped"})

\* Nobody waits for ever: a request on the socket is answered and a stream comes
\* to its end, while the connection lasts.
ExchangesEnd == RequestsAnswered /\ StreamEnds

=============================================================================
