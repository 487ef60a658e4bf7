--------------------------- MODULE HttpConnection ---------------------------
(***************************************************************************)
(* One connection of the embedded server, from the moment a worker has     *)
(* taken it to its close: httplib's process_socket with its keep-alive     *)
(* count, process_request, read_headers, the readers of content, routing   *)
(* and write_response, against a client that writes its requests at its own*)
(* pace, one behind the other if it likes, falls silent, or hangs up.      *)
(* WebServer has the pool of workers, in which this is the life of one.    *)
(*                                                                         *)
(* A request is a sequence of parts: its line, its header fields, the blank*)
(* line, and its content, as it is or in chunks of one unit each.  A part  *)
(* is text or a unit of data.  Of text the client may write the beginning, *)
(* and go on byte by byte for as long as it likes, stop, or hang up; data  *)
(* holds no line end, and read as text is joined to the line that follows. *)
(***************************************************************************)
EXTENDS Integers, Sequences

CONSTANTS
  Requests,       \* the kinds of request the client may make
  MaxRequests,    \* bound of the model on the requests of one connection
  KeepAliveMax    \* CPPHTTPLIB_KEEPALIVE_MAX_COUNT

\* conn "old" is HTTP/1.0 without Keep-Alive.  size counts units of content.
Request ==
  [line : {"good", "bad", "long"}, method : {"GET", "POST", "TRACE"},
   framing : {"none", "length", "chunked", "gzip"}, size : Nat,
   conn : {"keep", "close", "old"}, expect : BOOLEAN]

ASSUME ConnectionAssumption ==
  /\ Requests \subseteq Request
  /\ \A r \in Requests : r.framing = "none" => r.size = 0
  /\ MaxRequests \in Nat \ {0}
  /\ KeepAliveMax \in Nat \ {0, 1}

VARIABLES
  requests,    \* the requests the client makes on this connection
  wpos,        \* the next part the client writes
  rpos,        \* the next part the server reads
  begun,       \* "sent": bytes of the part at wpos wait; "read": they were read
  torn,        \* the beginning of the part at rpos was read and is lost
  client,      \* whether the client has its side open
  continued,   \* the requests for which "100 Continue" has been written
  pc,          \* where the worker is
  count,       \* count of process_socket
  current,     \* the request whose line has been read, 0 for none
  fields,      \* how much of its fields has been read
  junk,        \* whether data has been read into the present line
  got,         \* units of content read
  mixed,       \* whether they include anything but that request's content
  status,      \* the status decided on, or "handler": a handler decides
  answers,     \* the responses written, oldest first
  gaveUp       \* the worker closed because nothing came in time

wire == <<wpos, rpos, begun, torn, client>>
parsing == <<current, fields, junk, got, mixed>>
vars == <<requests, wire, continued, pc, count, parsing, status, answers, gaveUp>>

Handled == {"200", "404", "500"}

Part == {"line", "field", "blank", "size", "data", "end", "last", "trailer"}
Position == [k : 1..(MaxRequests + 1), part : Part, unit : Nat]

Answer == [of : 0..MaxRequests, status : Handled \union {"400", "414", "415"},
           content : {"whole", "part", "mixed"}, close : BOOLEAN, asked : BOOLEAN]

LinePlaces == {"line", "headers", "long", "size", "end", "trailer"}

TypeOK ==
  /\ requests \in [1..MaxRequests -> Requests]
  /\ wpos \in Position
  /\ rpos \in Position
  /\ begun \in IF wpos.k > MaxRequests THEN {"no"} ELSE {"no", "sent", "read"}
  /\ torn \in BOOLEAN
  /\ client \in {"open", "gone"}
  /\ continued \subseteq 1..MaxRequests
  /\ pc \in LinePlaces \union {"select", "length", "rest", "chunk", "respond", "idle", "closed"}
  /\ count \in 1..KeepAliveMax
  /\ current \in 0..MaxRequests
  /\ fields \in {"none", "some", "all"}
  /\ junk \in BOOLEAN
  /\ got \in Nat
  /\ mixed \in BOOLEAN
  /\ status \in {"none", "handler", "400", "414", "415"}
  /\ answers \in Seq(Answer)
  /\ gaveUp \in BOOLEAN

Start(k) == [k |-> k, part |-> "line", unit |-> 0]

Init ==
  /\ requests \in [1..MaxRequests -> Requests]
  /\ wpos = Start(1)
  /\ rpos = Start(1)
  /\ begun = "no"
  /\ torn = FALSE
  /\ client = "open"
  /\ continued = {}
  /\ pc = "select"
  /\ count = KeepAliveMax
  /\ current = 0
  /\ fields = "none"
  /\ junk = FALSE
  /\ got = 0
  /\ mixed = FALSE
  /\ status = "none"
  /\ answers = <<>>
  /\ gaveUp = FALSE

-----------------------------------------------------------------------------
(***************************************************************************)
(* The parts of a request, in the order of the wire.                       *)
(***************************************************************************)
Chunked(k) == requests[k].framing = "chunked"

To(p, part, unit) == [k |-> p.k, part |-> part, unit |-> unit]

\* The part of the content that follows the one numbered u.
NextUnit(p, u) ==
  IF u < requests[p.k].size
    THEN To(p, IF Chunked(p.k) THEN "size" ELSE "data", u + 1)
    ELSE IF Chunked(p.k) THEN To(p, "last", 0) ELSE Start(p.k + 1)

After(p) ==
  CASE p.part = "line" -> To(p, "field", 0)
    [] p.part = "field" -> To(p, "blank", 0)
    [] p.part = "blank" -> NextUnit(p, 0)
    [] p.part = "size" -> To(p, "data", p.unit)
    [] p.part = "data" -> IF Chunked(p.k) THEN To(p, "end", p.unit)
                          ELSE NextUnit(p, p.unit)
    [] p.part = "end" -> NextUnit(p, p.unit)
    [] p.part = "last" -> To(p, "trailer", 0)
    [] p.part = "trailer" -> Start(p.k + 1)

-----------------------------------------------------------------------------
(***************************************************************************)
(* The client.                                                             *)
(***************************************************************************)
\* The fields and the blank line are written, the content is not begun.
AtContent(k) ==
  wpos.k = k /\ wpos.part \in {"size", "last", "data"} /\ wpos.unit <= 1

AwaitsContinue(k) == AtContent(k) /\ requests[k].expect /\ k \notin continued

Writes ==
  /\ client = "open" /\ pc # "closed"
  /\ wpos.k \in 1..MaxRequests
  /\ ~AwaitsContinue(wpos.k)
  /\ UNCHANGED <<requests, rpos, torn, client, continued, pc, count, parsing,
                 status, answers, gaveUp>>

\* A part is written, or what is left of it.
Write == Writes /\ wpos' = After(wpos) /\ begun' = "no"

\* A byte or more, and not all, of a line, or of the fields: one field more, and
\* one more, for ever, is a part that is never done.
Trickle ==
  /\ Writes /\ UNCHANGED wpos
  /\ wpos.part # "data" /\ begun # "sent"
  /\ begun' = "sent"

\* The client closes; what it has written is still read.
HangUp ==
  /\ client = "open" /\ pc # "closed"
  /\ client' = "gone"
  /\ UNCHANGED <<requests, wpos, rpos, begun, torn, continued, pc, count, parsing,
                 status, answers, gaveUp>>

-----------------------------------------------------------------------------
(***************************************************************************)
(* SocketStream::read and stream_line_reader::getline.                     *)
(***************************************************************************)
\* A part is read from the socket, to its end.
Take ==
  /\ rpos # wpos /\ rpos.k \in 1..MaxRequests
  /\ rpos' = After(rpos) /\ torn' = FALSE
  /\ UNCHANGED <<requests, wpos, begun, client, count, answers, gaveUp>>

\* What there is of a part is read, and the time of the reader begins anew.
ReadBeginning ==
  /\ pc \in LinePlaces \union {"rest"}
  /\ rpos = wpos /\ begun = "sent"
  /\ begun' = "read"
  /\ fields' \in IF pc = "headers" THEN {fields, "some"} ELSE {fields}
  /\ UNCHANGED <<requests, wpos, rpos, torn, client, continued, pc, count, current,
                 junk, got, mixed, status, answers, gaveUp>>

\* Nothing is read: the read times out, or the client has gone.  The bytes that
\* were read of a part are lost to the next reader.
Nothing ==
  /\ rpos = wpos /\ begun # "sent"
  /\ begun' = "no" /\ torn' = (torn \/ begun = "read")
  /\ UNCHANGED <<requests, wpos, rpos, client, count, answers>>

\* The kinds of line the readers tell apart.
Kind(part) == IF part \in {"blank", "end", "trailer"} THEN "blank" ELSE part

\* What the beginning of a line is taken for.  A request line may be too long
\* without its end; of the chunk that the beginning of a size announces nothing
\* comes.
CutKinds(p) ==
  {"junk"} \union
    (IF p.part = "line" /\ requests[p.k].line = "long" THEN {"line"} ELSE {})

\* The client has gone behind the beginning of a line.
CutShort == client = "gone" /\ (junk \/ begun = "read")

\* getline returns a line: one with its end, or what is left of one when the
\* client closes.
GetLine(kind) ==
  /\ junk' = FALSE
  /\ \/ /\ Take /\ rpos.part # "data"
        /\ kind = IF junk \/ torn THEN "junk" ELSE Kind(rpos.part)
     \/ /\ Nothing /\ CutShort /\ UNCHANGED gaveUp
        /\ kind \in IF junk \/ torn THEN {"junk"} ELSE CutKinds(rpos)

\* getline returns false.
NoLine == Nothing /\ ~CutShort /\ junk' = FALSE

\* Data in a line of text.
ReadData ==
  /\ pc \in LinePlaces
  /\ Take /\ rpos.part = "data"
  /\ junk' = TRUE
  /\ UNCHANGED <<continued, pc, current, fields, got, mixed, status>>

\* A unit of content is read.
ReadUnit ==
  /\ Take
  /\ got' = got + 1
  /\ mixed' = (mixed \/ rpos.k # current \/ rpos.part # "data")
  /\ UNCHANGED <<continued, current, fields, junk>>

RespondWith(s) == pc' = "respond" /\ status' = s

-----------------------------------------------------------------------------
(***************************************************************************)
(* process_socket and the request line.                                    *)
(***************************************************************************)
Lines == {"line", "field", "blank", "size", "last", "junk"}

SelectRead ==
  /\ pc = "select"
  /\ rpos # wpos \/ begun = "sent" \/ client = "gone"
  /\ pc' = "line"
  /\ current' = 0 /\ fields' = "none" /\ got' = 0 /\ mixed' = FALSE
  /\ UNCHANGED <<requests, wire, continued, count, junk, status, answers, gaveUp>>

\* Mutant: the time runs on although a request has begun to come.
KeepAliveDeadline ==
  /\ pc = "select"
  /\ client = "open"
  /\ pc' = "idle"
  /\ gaveUp' = TRUE
  /\ UNCHANGED <<requests, wire, continued, count, parsing, status, answers>>

\* Nothing came for CPPHTTPLIB_KEEPALIVE_TIMEOUT_SECOND.
KeepAliveTimeout ==
  /\ pc = "select"
  /\ Nothing /\ client = "open"
  /\ pc' = "idle"
  /\ gaveUp' = TRUE
  /\ UNCHANGED <<continued, parsing, status>>

\* The socket is closed.  What has come since the time-out is not read.
CloseIdle ==
  /\ pc = "idle"
  /\ pc' = "closed"
  /\ UNCHANGED <<requests, wire, continued, count, parsing, status, answers, gaveUp>>

\* A line that is no request line is answered at once: what follows it is
\* taken for the next request.
ReadRequestLine ==
  /\ pc = "line"
  /\ \E kind \in Lines :
       /\ GetLine(kind)
       /\ \/ /\ kind = "line" /\ requests[rpos.k].line = "good"
             /\ current' = rpos.k
             /\ pc' = "headers" /\ UNCHANGED status
          \/ /\ kind = "line" /\ requests[rpos.k].line = "long"
             /\ current' = rpos.k
             /\ pc' = "long" /\ UNCHANGED status
          \/ /\ kind = "line" /\ requests[rpos.k].line = "bad"
             /\ current' = rpos.k
             /\ RespondWith("400")
          \/ /\ kind # "line"
             /\ UNCHANGED current
             /\ RespondWith("400")
  /\ UNCHANGED <<continued, fields, got, mixed>>

\* The connection has been closed by the client, or its line does not end.
NoRequestLine ==
  /\ pc = "line"
  /\ NoLine
  /\ pc' = "closed"
  /\ gaveUp' = (client = "open")
  /\ UNCHANGED <<continued, current, fields, got, mixed, status>>

-----------------------------------------------------------------------------
(***************************************************************************)
(* The header fields.                                                      *)
(***************************************************************************)
ReadField ==
  /\ pc \in {"headers", "long"}
  /\ \E kind \in Lines \ {"blank"} :
       /\ GetLine(kind)
       /\ fields' = IF pc = "headers" /\ kind = "field" THEN "some" ELSE fields
  /\ UNCHANGED <<continued, pc, current, got, mixed, status>>

\* routing, up to the content: only methods that may carry content read it.
Route(r) ==
  \/ r.method = "TRACE" /\ RespondWith("400")
  \/ r.method = "GET" /\ RespondWith("handler")
  \/ /\ r.method = "POST"
     /\ \/ r.framing = "gzip" /\ RespondWith("415")
        \/ r.framing = "none" /\ pc' = "rest" /\ UNCHANGED status
        \/ r.framing = "chunked" /\ pc' = "size" /\ UNCHANGED status
        \/ r.framing = "length" /\ r.size > 0 /\ pc' = "length" /\ UNCHANGED status
        \/ r.framing = "length" /\ r.size = 0 /\ RespondWith("handler")

EndOfHeaders ==
  /\ pc = "headers"
  /\ GetLine("blank")
  /\ continued' = IF requests[current].expect THEN continued \union {current}
                  ELSE continued
  /\ fields' = "all"
  /\ Route(requests[current])
  /\ UNCHANGED <<current, got, mixed>>

\* The headers do not end.
NoHeaders ==
  /\ pc = "headers"
  /\ NoLine
  /\ RespondWith("400")
  /\ UNCHANGED <<continued, current, fields, got, mixed, gaveUp>>

\* A line over CPPHTTPLIB_REQUEST_URI_MAX_LENGTH: its headers are read into a
\* dummy, and whether they end is not asked.
EndOfLong ==
  /\ pc = "long"
  /\ GetLine("blank") \/ (NoLine /\ UNCHANGED gaveUp)
  /\ RespondWith("414")
  /\ UNCHANGED <<continued, current, fields, got, mixed>>

-----------------------------------------------------------------------------
(***************************************************************************)
(* The content.                                                            *)
(***************************************************************************)
\* read_content_with_length.
ReadLength ==
  /\ pc = "length"
  /\ ReadUnit
  /\ IF got' = requests[current].size THEN RespondWith("handler")
     ELSE UNCHANGED <<pc, status>>

\* read_content_without_length: what comes until the client closes.
ReadRest ==
  /\ pc = "rest"
  /\ ReadUnit
  /\ UNCHANGED <<pc, status>>

\* Mutant: this read has no time-out.
EndOfRestOnly ==
  /\ pc = "rest"
  /\ Nothing /\ client = "gone"
  /\ RespondWith("handler")
  /\ UNCHANGED <<continued, parsing, gaveUp>>

EndOfRest ==
  /\ pc = "rest"
  /\ Nothing
  /\ RespondWith(IF client = "gone" THEN "handler" ELSE "400")
  /\ UNCHANGED <<continued, parsing, gaveUp>>

\* read_content_chunked: the line with the size of a chunk.
ReadChunkSize ==
  /\ pc = "size"
  /\ \E kind \in Lines :
       /\ GetLine(kind)
       /\ \/ kind = "size" /\ pc' = "chunk" /\ UNCHANGED status
          \/ kind = "last" /\ pc' = "trailer" /\ UNCHANGED status
          \/ kind \notin {"size", "last"} /\ RespondWith("400")
  /\ UNCHANGED <<continued, current, fields, got, mixed>>

ReadChunk ==
  /\ pc = "chunk"
  /\ ReadUnit
  /\ pc' = "end"
  /\ UNCHANGED status

\* The line behind a chunk; one that is not blank ends the content without an
\* error, so that a client which goes in the middle of this line has the handler
\* run on the chunks there are.
ReadEndOfChunk ==
  /\ pc = "end"
  /\ \E kind \in Lines :
       /\ GetLine(kind)
       /\ IF kind = "blank" THEN pc' = "size" /\ UNCHANGED status
          ELSE RespondWith("handler")
  /\ UNCHANGED <<continued, current, fields, got, mixed>>

\* Mutant: the blank line behind the last chunk is not read.
ReadNoTrailer ==
  /\ pc = "trailer"
  /\ RespondWith("handler")
  /\ UNCHANGED <<requests, wire, continued, count, parsing, answers, gaveUp>>

ReadTrailer ==
  /\ pc = "trailer"
  /\ \E kind \in Lines :
       GetLine(kind) /\ RespondWith(IF kind = "blank" THEN "handler" ELSE "400")
  /\ UNCHANGED <<continued, current, fields, got, mixed>>

\* Content that stops in the middle.
NoContent ==
  /\ \/ pc \in {"length", "chunk"} /\ Nothing /\ UNCHANGED junk
     \/ pc \in {"size", "end", "trailer"} /\ NoLine
  /\ RespondWith("400")
  /\ UNCHANGED <<continued, current, fields, got, mixed, gaveUp>>

-----------------------------------------------------------------------------
(***************************************************************************)
(* The response.                                                           *)
(***************************************************************************)
\* process_request has seen that the client wants the connection closed: not
\* so when the headers did not end.
CloseAsked == fields = "all" /\ requests[current].conn # "keep"

\* Mutant: the last response does not know that it is the last.
AnnounceLate == fields # "none" /\ requests[current].conn = "close"

\* write_response: the last of the connection says so, and so does one to a
\* request that says it.
CloseAnnounced ==
  count = 1 \/ (fields # "none" /\ requests[current].conn = "close")

\* What the handler has seen of the content of its request.
ContentRead ==
  CASE mixed -> "mixed"
    [] ~mixed /\ current # 0 /\ requests[current].method = "POST"
         /\ got # requests[current].size -> "part"
    [] OTHER -> "whole"

WriteResponse(s) ==
  answers' = Append(answers,
    [of |-> current, status |-> s, content |-> ContentRead,
     close |-> CloseAnnounced, asked |-> CloseAsked])

\* Mutant: the loop does not stop at the last of its count.
CountPastLast ==
  IF CloseAsked THEN pc' = "closed" /\ UNCHANGED count
  ELSE pc' = "select" /\ count' = count - 1

\* Mutant: a response is not counted.
CountNothing ==
  IF CloseAsked THEN pc' = "closed" /\ UNCHANGED count
  ELSE pc' = "select" /\ UNCHANGED count

\* The end of the loop of process_socket.
CountDown ==
  IF CloseAsked \/ count = 1 THEN pc' = "closed" /\ UNCHANGED count
  ELSE pc' = "select" /\ count' = count - 1

\* The result of writing is not asked for: a client that has gone is met when
\* its next request is read.
Respond ==
  /\ pc = "respond"
  /\ \E s \in IF status = "handler" THEN Handled ELSE {status} : WriteResponse(s)
  /\ CountDown
  /\ status' = "none"
  /\ UNCHANGED <<requests, wire, continued, parsing, gaveUp>>

-----------------------------------------------------------------------------
Reading ==
  \/ SelectRead \/ ReadBeginning \/ ReadRequestLine \/ ReadData \/ ReadField
  \/ EndOfHeaders
  \/ EndOfLong \/ ReadLength \/ ReadRest \/ EndOfRest
  \/ ReadChunkSize \/ ReadChunk \/ ReadEndOfChunk \/ ReadTrailer

GivingUp ==
  KeepAliveTimeout \/ CloseIdle \/ NoRequestLine \/ NoHeaders \/ NoContent

Worker == Reading \/ GivingUp \/ Respond

Next == Write \/ Trickle \/ HangUp \/ Worker

Spec == Init /\ [][Next]_vars

\* A read ends with what has come, with the end of the connection, or after
\* CPPHTTPLIB_READ_TIMEOUT_SECOND without a byte.  Nothing is assumed of the
\* client: while it trickles no time runs out (httplib.h:1155, 2985), and while
\* it does not read a long answer is not written (httplib.h:3009); nor of the
\* handler, which may wait for ever.
FairSpec == Spec /\ WF_vars(Reading \/ GivingUp)

-----------------------------------------------------------------------------
(***************************************************************************)
(* Properties.                                                             *)
(***************************************************************************)
\* A request whose end the server can know.
Framed(r) ==
  /\ r.line = "good"
  /\ r.method = "POST" => r.framing \in {"length", "chunked"}
  /\ r.method # "POST" => r.framing = "none"

Sound(i) == answers[i].status \in Handled /\ Framed(requests[i])

\* The client hung up in the middle of its k-th request.
CutAt(k) == client = "gone" /\ wpos.k = k

\* As long as all goes well, client and server agree where a request ends, and
\* the i-th response answers the i-th request, or the beginning of its line.  And
\* whatever has gone wrong before, be it that the client fell silent in the middle
\* of a request and went on after the 400, a handler runs for what the client sent
\* as a request, for each once and in order, on the whole content of that request
\* and of no other: on a part of it only where the client hung up within that very
\* request, which the line behind a chunk does not tell from its end
\* (httplib.h:1161, 1891, 1964, 3694, 3718).
FramesAgree ==
  \A i \in DOMAIN answers :
    /\ (\A j \in 1..(i - 1) : Sound(j)) =>
         answers[i].of = i \/ (answers[i].status = "400" /\ CutAt(i))
    /\ answers[i].status \in Handled =>
         /\ answers[i].of # 0
         /\ \A j \in 1..(i - 1) : answers[j].of < answers[i].of
         /\ Framed(requests[answers[i].of]) =>
              \/ answers[i].content = "whole"
              \/ answers[i].content = "part" /\ CutAt(answers[i].of)

\* The worker hangs up on a client that does not only where the last response
\* or the last request said so, or nothing came in time; and after a response
\* that announced the end nothing more is answered, but for a 400 to headers
\* that did not end (httplib.h:1379, 3238, 3725).
CloseAgreed ==
  /\ pc = "closed" =>
       \/ gaveUp \/ client = "gone"
       \/ answers # <<>> /\ (answers[Len(answers)].close \/ answers[Len(answers)].asked)
  /\ \A i \in 1..(Len(answers) - 1) :
       ~answers[i].asked /\ (answers[i].close => answers[i].status = "400")

Arrived(k) == wpos.k > k /\ pc \notin {"idle", "closed"}
Answered(k) ==
  \/ Len(answers) >= k
  \/ \E i \in DOMAIN answers :
       answers[i].close \/ answers[i].asked \/ ~Sound(i)

TricklesForEver == []<><<Trickle>>_vars

\* The handler does not come back, or the client does not take its answer.
NeverAnswered == <>[](pc = "respond")

\* A request that has been written whole is answered, and one that waits for
\* "100 Continue" gets it, unless an earlier exchange has ended the connection
\* or lost the frame, or the worker was already closing for silence; and unless it
\* stands behind content without a length that the client never ends, or an
\* answer that is never taken.
RequestIsAnswered ==
  \/ \A k \in 1..MaxRequests :
       /\ Arrived(k) ~> Answered(k)
       /\ (AwaitsContinue(k) /\ pc \notin {"idle", "closed"}) ~>
            (k \in continued \/ Answered(k))
  \/ <>[](pc = "rest") /\ TricklesForEver
  \/ NeverAnswered

\* No client that is silent or gone, or waits for an answer, keeps a worker for
\* good, only one that goes on byte by byte and never comes to the end of a line,
\* of the fields, or of content without a length, or that does not take its
\* answer: nothing in httplib limits that (httplib.h:1155, 1857, 1926, 3009).
WorkerComesBack == <>(pc = "closed") \/ TricklesForEver \/ NeverAnswered

(***************************************************************************)
(* Why WorkerComesBack holds: what the worker has left to do.              *)
(***************************************************************************)
LeftAt(place) ==
  CASE place = "select" -> 4
    [] place = "line" -> 3
    [] place \in {"idle", "respond"} -> 1
    [] place = "closed" -> 0
    [] OTHER -> 2

WorkerLeft == 5 * count + LeftAt(pc)

\* Only a client that writes holds the worker up: but for what the client has
\* written, a part, the beginning of one or a line cut by its end, which the worker
\* reads once, whatever it does brings it nearer to the close (httplib.h:1364-1396,
\* 2985).
WorkerRunsDown ==
  [][\/ WorkerLeft' < WorkerLeft
     \/ /\ WorkerLeft' = WorkerLeft
        /\ \/ pc' = pc /\ (Write \/ Trickle \/ HangUp)
           \/ rpos # wpos /\ rpos' = After(rpos)
           \/ begun = "sent" /\ begun' = "read"
           \/ CutShort /\ ~junk' /\ begun' = "no"]_vars

(***************************************************************************)
(* Why RequestIsAnswered holds: the worker does not stop before.           *)
(***************************************************************************)
IsServing == pc \notin {"idle", "closed"}

\* The worker comes back (WorkerRunsDown), but not from a request that has been
\* written whole, nor from a client that awaits "100 Continue", unless it has
\* answered it, or an earlier exchange has ended the connection or lost the
\* frame: nothing came in time means that nothing lies between the two
\* (httplib.h:1374).
RequestsAreKept ==
  [][\A k \in 1..MaxRequests :
       /\ Arrived(k) => Arrived(k)' \/ Answered(k)'
       /\ AwaitsContinue(k) /\ IsServing =>
            \/ AwaitsContinue(k)' /\ IsServing'
            \/ k \in continued' \/ Answered(k)']_vars

(***************************************************************************)
(* The inductive invariant.  Once it has read the line of a request, the   *)
(* place of the worker and the amount it has read give the very part it    *)
(* reads next; as long as every response has been sound, that request is   *)
(* the next one.                                                           *)
(***************************************************************************)
AllSound == \A j \in DOMAIN answers : Sound(j)

NextAnswer == Len(answers) + 1

At(part, unit) == rpos = [k |-> current, part |-> part, unit |-> unit]

Size == requests[current].size

Clean == ~junk /\ ~torn

\* Nothing is left to read, nor will be.
Spent == client = "gone" /\ rpos = wpos /\ begun = "no" /\ ~junk

\* The worker is in the content of the request it has the line of.
InContent(framing) ==
  /\ requests[current].line = "good" /\ requests[current].method = "POST"
  /\ requests[current].framing = framing
  /\ ~mixed /\ Clean

\* The request is read to its end, or as far as there is any of it.
Complete ==
  /\ rpos = Start(current + 1) /\ Clean /\ ~mixed
  /\ requests[current].method = "POST" => got = Size

Truncated == Spent /\ rpos.k = current /\ ~mixed

Place ==
  /\ pc = "line" => got = 0 /\ ~mixed /\ current = 0
  /\ pc = "headers" =>
       /\ At("field", 0) \/ At("blank", 0)
       /\ requests[current].line = "good" /\ (Clean \/ Spent) /\ got = 0 /\ ~mixed
  /\ pc = "length" => InContent("length") /\ got < Size /\ At("data", got + 1)
  /\ pc = "rest" => ~Framed(requests[current])
  /\ pc = "size" =>
       /\ InContent("chunked")
       /\ \/ got < Size /\ At("size", got + 1)
          \/ got = Size /\ At("last", 0)
  /\ pc = "chunk" => InContent("chunked") /\ got < Size /\ At("data", got + 1)
  /\ pc = "end" => InContent("chunked") /\ got <= Size /\ At("end", got)
  /\ pc = "trailer" => InContent("chunked") /\ got = Size /\ At("trailer", 0)
  /\ pc = "respond" /\ status = "handler" =>
       current # 0 /\ (Framed(requests[current]) => Complete \/ Truncated)

\* The worker is where the next request begins, or has it, or its client is gone.
Sequence ==
  /\ pc \in {"select", "line"} =>
       \/ rpos = Start(NextAnswer) /\ Clean
       \/ Spent /\ rpos.k = Len(answers)
  /\ pc \notin {"select", "line"} =>
       \/ current = NextAnswer
       \/ pc = "respond" /\ status = "400" /\ CutAt(NextAnswer)

FrameInv == AllSound /\ pc \notin {"idle", "closed"} => Sequence

\* The line of the k-th request has been read.
Passed(k) == rpos.k > k \/ (rpos.k = k /\ (rpos.part # "line" \/ torn))

\* No line is answered twice.
OrderInv ==
  /\ \A i \in DOMAIN answers : answers[i].of # 0 => Passed(answers[i].of)
  /\ pc \notin {"select", "line", "idle", "closed"} /\ current # 0 =>
       Passed(current) /\ \A i \in DOMAIN answers : answers[i].of < current

\* How the fields and the status go with the place of the worker.
FieldsInv ==
  /\ status # "none" <=> pc = "respond"
  /\ status = "handler" => fields = "all"
  /\ pc \in {"line", "long"} => fields = "none"
  /\ fields = "some" =>
       \/ pc \in {"headers", "select", "idle", "closed"}
       \/ pc = "respond" /\ status = "400"
  /\ pc \in {"length", "rest", "size", "chunk", "end", "trailer"} => fields = "all"
  /\ pc \in {"headers", "long"} \/ fields # "none" => current # 0

EndInv ==
  /\ pc = "idle" => gaveUp
  /\ pc # "closed" =>
       \A i \in DOMAIN answers :
         ~answers[i].asked /\ (answers[i].close => answers[i].status = "400")

IInv ==
  /\ TypeOK /\ FieldsInv
  /\ FramesAgree /\ Place /\ FrameInv /\ OrderInv
  /\ CloseAgreed /\ EndInv

(***************************************************************************)
(* What WebServer shows of a worker is what happens here.                  *)
(***************************************************************************)
One(x) == [c \in {"it"} |-> x]

Pool == INSTANCE WebServer WITH
  Conns <- {"it"}, Workers <- {"it"}, NoConn <- "none",
  ui <- "serving", listener <- "accept", is_running_ <- TRUE,
  svr_sock_ <- "open", closes <- 0, acceptError <- FALSE, stopHeld <- TRUE,
  conn <- One(IF pc = "closed" THEN "closed" ELSE "accepted"),
  hand <- "none", jobs <- <<>>, shutdown_ <- FALSE,
  worker <- One(IF pc = "closed" THEN "ready"
                ELSE IF pc = "respond" THEN "answering" ELSE "reading"),
  serving <- One(IF pc = "closed" THEN "none" ELSE "it"),
  count <- One(IF pc = "closed" THEN 0 ELSE count)

\* Each step of the worker is a step of a worker of WebServer, or none there.
ImplementsWorker ==
  [][Pool!HandleRequest("it") \/ Pool!Respond("it") \/ Pool!KeepAliveEnds("it")]_(Pool!vars)

=============================================================================
