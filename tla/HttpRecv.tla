------------------------------- MODULE HttpRecv -------------------------------
(***************************************************************************)
(* http_recv_request (http_sendrecv.c) on one connection: how requests are *)
(* cut out of the byte stream.                                             *)
(*                                                                         *)
(* A byte is its position in the stream.  The stream is the messages the   *)
(* client sends; of a message only where it starts, the length of its      *)
(* header (which ends in CRLF CRLF) and of its body matter.  No body       *)
(* contains CRLF CRLF and every Content-Length is right: the client does   *)
(* nothing wrong here but, perhaps, stop.  recv returns any number of the  *)
(* bytes that have been sent, but not taken yet.                           *)
(***************************************************************************)
EXTENDS Integers, Sequences

CONSTANTS
  BufferSize,    \* HTTP_MAX_BUFFER_SIZE
  HeadSizes,     \* header lengths clients use
  BodySizes,     \* body lengths clients use
  MaxMessages,   \* BOUND: messages on the connection
  Pipeline,      \* TRUE: the client may send before it has its answer
  TinySegments,  \* TRUE: a header may begin with a segment of 1 or 2 bytes
  Builds,        \* the builds, see linux
  DiskMayFail    \* TRUE: fopen of the temporary file may fail

ASSUME RecvAssumption ==
  /\ BufferSize \in Nat \ {0} /\ MaxMessages \in Nat
  /\ HeadSizes \subseteq Nat /\ \A n \in HeadSizes : n >= 4
  /\ BodySizes \subseteq Nat
  /\ {Pipeline, TinySegments, DiskMayFail} \cup Builds \subseteq BOOLEAN

VARIABLES
  linux,      \* TRUE: the server is built with usocket.c, FALSE: wsocket.c
  messages,   \* the messages the client has begun, with their positions
  sent,       \* bytes the client has sent
  hungUp,     \* the client has closed the connection
  continued,  \* messages the client got "100 Continue" for
  taken,      \* bytes taken from the socket
  base,       \* position of headerbuf->buf[0]
  phase,      \* what http_recv_request is at
  found,      \* number of the message whose header end was found
  length,     \* content_length
  size,       \* body->size
  ptr,        \* body->ptr: NULL, into headerbuf, or bodybuf->buf
  held,       \* bytes of the body that are in memory or in the file
  answered,   \* requests that were handed on and answered
  slip,       \* HISTORY: bytes of a message were dropped, or left unread
  fault       \* HISTORY: http_find_crlf has left the buffer

clientVars == <<linux, messages, sent, hungUp>>
bodyVars   == <<length, size, ptr, held>>
vars == <<linux, messages, sent, hungUp, continued, taken, base, phase, found,
          length, size, ptr, held, answered, slip, fault>>

Phases == {"headers", "parse", "binary", "file", "have", "closed", "crashed"}

HeadEnd(m) == m.from + m.head
End(m)     == m.from + m.head + m.body

\* Bytes the socket has for recv.
Waiting == sent - taken

Init ==
  /\ linux \in Builds
  /\ messages = <<>> /\ sent = 0 /\ hungUp = FALSE /\ continued = 0
  /\ taken = 0 /\ base = 0 /\ phase = "headers" /\ found = 0
  /\ length = 0 /\ size = 0 /\ ptr = "null" /\ held = 0
  /\ answered = 0 /\ slip = FALSE /\ fault = FALSE

-----------------------------------------------------------------------------
(* The client (external).  With Expect: 100-continue it holds the body back. *)

Streamed == IF messages = <<>> THEN 0 ELSE End(messages[Len(messages)])

ClientBegin(head, body, expect) ==
  /\ ~hungUp /\ Len(messages) < MaxMessages
  /\ sent = Streamed
  /\ Pipeline \/ answered >= Len(messages)
  /\ expect => body > 0
  /\ messages' = Append(messages, [from |-> Streamed, head |-> head,
                                   body |-> body, expect |-> expect])
  /\ UNCHANGED <<linux, sent, hungUp, continued, taken, base, phase, found, bodyVars,
                 answered, slip, fault>>

\* How far the client may send now.
Allowed ==
  IF messages = <<>> THEN 0
  ELSE LET m == messages[Len(messages)]
       IN  IF m.expect /\ continued < Len(messages) THEN HeadEnd(m) ELSE End(m)

ClientSend(n) ==
  /\ ~hungUp
  /\ sent < n /\ n <= Allowed
  /\ sent' = n
  /\ UNCHANGED <<linux, messages, hungUp, continued, taken, base, phase,
                 found, bodyVars, answered, slip, fault>>

ClientHangUp ==
  /\ ~hungUp /\ hungUp' = TRUE
  /\ UNCHANGED <<linux, messages, sent, continued, taken, base, phase,
                 found, bodyVars, answered, slip, fault>>

-----------------------------------------------------------------------------
(* http_recv_headers *)

\* http_find_crlf on the bytes before the given position, from start_pos on:
\* the messages whose header ends are seen.
Seen(from, to) ==
  {k \in DOMAIN messages : from <= HeadEnd(messages[k]) - 4
                           /\ HeadEnd(messages[k]) <= to}

First(ks) == CHOOSE k \in ks : \A j \in ks : k <= j

\* MUTANT: one byte less is looked at again.
ScanStartShort == IF taken = base THEN base ELSE taken - 2

\* start_pos: three bytes of what was received before are looked at again.
ScanStart == IF taken = base THEN base ELSE taken - 3

\* A segment arrives and is searched for the end of the header.
RecvHeaders(n) ==
  /\ phase = "headers" /\ ~fault
  /\ n <= Waiting /\ n <= BufferSize - (taken - base)
  /\ taken > base \/ n >= 3
  /\ taken' = taken + n
  /\ LET ends == Seen(ScanStart, taken + n)
     IN  IF ends = {}
         THEN UNCHANGED <<phase, found, size, ptr>>
         ELSE /\ phase' = "parse"
              /\ found' = First(ends)
              /\ size' = taken + n - HeadEnd(messages[First(ends)])
              /\ ptr' = IF size' = 0 THEN "null" ELSE "header"
  /\ UNCHANGED <<clientVars, continued, base, length, held, answered, slip,
                 fault>>

\* The first segment has 1 or 2 bytes: the count of places to look at is
\* negative, and the search goes on beyond what was received.
RecvTiny(n) ==
  /\ TinySegments
  /\ phase = "headers" /\ ~fault
  /\ taken = base /\ n <= 2 /\ n <= Waiting /\ n <= BufferSize
  /\ taken' = taken + n
  /\ fault' = TRUE
  /\ UNCHANGED <<clientVars, continued, base, phase, found, bodyVars, answered,
                 slip>>

\* socket_accept leaves the mode of the new socket as it is: on Windows that is
\* the mode of the listening socket, non-blocking, and on Linux it is blocking.
NonBlocking == ~linux

\* socket_recv comes to wait for HTTP_RECV_TIMEOUT only after EAGAIN.
RecvTimesOut == NonBlocking

\* socket_recv returns nothing: the peer hung up, or it took too long.
Nothing == Waiting = 0 /\ (hungUp \/ RecvTimesOut)

\* With no room left in the buffer recv is asked for 0 bytes, and gets them.
RecvHeadersFails ==
  /\ phase = "headers" /\ ~fault
  /\ Nothing \/ taken - base = BufferSize
  /\ phase' = "closed"
  /\ UNCHANGED <<clientVars, continued, taken, base, found, bodyVars, answered,
                 slip, fault>>

-----------------------------------------------------------------------------
(* http_recv_body *)

\* Bytes that belong to what follows are part of this request's buffers, or
\* of its body, and nobody looks at them again.
Dropped(len) == size > len

\* MUTANT: a body may be one byte longer than the buffer.
GoesToFileLate(len) == len > BufferSize + 1

GoesToFile(len) == len > BufferSize

\* No Content-Length, or 0: whatever came with the header is the body.
BodyAbsent(len) ==
  /\ len = 0
  /\ phase' = "have" /\ held' = size
  /\ slip' = (slip \/ Dropped(0))
  /\ UNCHANGED <<size, ptr>>

\* The body came with the header.
BodyThere(len) ==
  /\ len > 0 /\ size >= len
  /\ phase' = "have" /\ size' = len /\ held' = len
  /\ slip' = (slip \/ Dropped(len))
  /\ UNCHANGED ptr

BodyToFile(len) ==
  /\ size < len /\ GoesToFile(len)
  /\ phase' = "file" /\ ptr' = "null" /\ held' = size
  /\ UNCHANGED <<size, slip>>

\* The file is not created: the request goes on with what came so far.
BodyNoFile(len) ==
  /\ DiskMayFail
  /\ size < len /\ GoesToFile(len)
  /\ phase' = "have" /\ held' = size
  /\ slip' = TRUE
  /\ UNCHANGED <<size, ptr>>

\* MUTANT: body->ptr still points behind the header.
BodyToBufferKeepsPtr(len) ==
  /\ size < len /\ ~GoesToFile(len)
  /\ phase' = "binary" /\ held' = size
  /\ UNCHANGED <<size, ptr, slip>>

BodyToBuffer(len) ==
  /\ size < len /\ ~GoesToFile(len)
  /\ phase' = "binary" /\ ptr' = "body" /\ held' = size
  /\ UNCHANGED <<size, slip>>

\* What starts at base is a message.
InStep == base = messages[found].from

\* MUTANT: 100 Continue is sent only when the body need not be waited for.
ContinueLate(expected) ==
  continued' = IF expected /\ phase' = "have" THEN found ELSE continued

\* http_send_string of the 100 response, before the body is received.
Continue(expected) ==
  continued' = IF expected THEN found ELSE continued

\* The header is parsed; what is no header may still look like one, with or
\* without the fields of the message it runs into.
Parse ==
  /\ phase = "parse"
  /\ \E len \in {messages[found].body} \cup (IF InStep THEN {} ELSE {0}),
        expected \in {messages[found].expect} \cup
                     (IF InStep THEN {} ELSE {FALSE}) :
       /\ length' = len
       /\ \/ BodyAbsent(len) \/ BodyThere(len) \/ BodyToFile(len)
          \/ BodyNoFile(len) \/ BodyToBuffer(len)
       /\ Continue(expected)
  /\ UNCHANGED <<clientVars, taken, base, found, answered, fault>>

ParseFails ==
  /\ phase = "parse" /\ ~InStep
  /\ phase' = "closed"
  /\ UNCHANGED <<clientVars, continued, taken, base, found, bodyVars, answered,
                 slip, fault>>

\* MUTANT: recv is asked for more than the rest of the body.
RecvBodyGreedy(n) ==
  /\ phase \in {"binary", "file"}
  /\ n <= Waiting
  /\ taken' = taken + n
  /\ held' = held + n
  /\ IF held + n >= length
     THEN phase' = "have" /\ size' = length
     ELSE UNCHANGED <<phase, size>>
  /\ UNCHANGED <<clientVars, continued, base, found, length, ptr, answered,
                 slip, fault>>

\* http_recv_binary and http_recv_file: as many rounds as it takes.
RecvBody(n) ==
  /\ phase \in {"binary", "file"}
  /\ n <= Waiting /\ n <= length - held
  /\ taken' = taken + n
  /\ held' = held + n
  /\ IF held + n = length
     THEN phase' = "have" /\ size' = length
     ELSE UNCHANGED <<phase, size>>
  /\ UNCHANGED <<clientVars, continued, base, found, length, ptr, answered,
                 slip, fault>>

\* The rest does not come, but body->size says it did.
RecvBodyStops ==
  /\ phase \in {"binary", "file"}
  /\ Nothing
  /\ phase' = "have" /\ size' = length
  /\ slip' = (slip \/ ~hungUp)
  /\ UNCHANGED <<clientVars, continued, taken, base, found, length, ptr, held,
                 answered, fault>>

\* _put_request, or http_urldecode for it, reads size bytes from NULL: this is a
\* body that went into a file.
CopyFaults ==
  /\ phase = "have" /\ size > 0 /\ ptr = "null"
  /\ phase' = "crashed"
  /\ UNCHANGED <<clientVars, continued, taken, base, found, bodyVars, answered,
                 slip, fault>>

\* The caller answers the request, deletes it, and receives the next one into
\* new buffers, or closes the connection.
Handle ==
  /\ phase = "have" /\ (size = 0 \/ ptr # "null")
  /\ phase' \in {"headers", "closed"}
  /\ answered' = answered + 1
  /\ base' = taken
  /\ found' = 0 /\ length' = 0 /\ size' = 0 /\ ptr' = "null" /\ held' = 0
  /\ UNCHANGED <<clientVars, continued, taken, slip, fault>>

ClientNext ==
  \/ \E head \in HeadSizes, body \in BodySizes, expect \in BOOLEAN :
       ClientBegin(head, body, expect)
  \/ \E n \in 1 .. Allowed : ClientSend(n)
  \/ ClientHangUp

ServerNext ==
  \/ \E n \in 1 .. Waiting : RecvHeaders(n) \/ RecvTiny(n) \/ RecvBody(n)
  \/ RecvHeadersFails \/ Parse \/ ParseFails \/ RecvBodyStops
  \/ CopyFaults \/ Handle

Next == ClientNext \/ ServerNext

Spec == Init /\ [][Next]_vars

\* Fairness: the frontend thread runs.  Nothing is assumed of the client.
FairSpec == Spec /\ WF_vars(ServerNext)

-----------------------------------------------------------------------------
\* The types.
TypeOK ==
  /\ \A k \in DOMAIN messages :
       messages[k] \in [from : Nat, head : HeadSizes, body : BodySizes,
                        expect : BOOLEAN]
  /\ Len(messages) <= MaxMessages
  /\ sent \in 0 .. Streamed /\ taken \in 0 .. sent /\ base \in 0 .. taken
  /\ hungUp \in BOOLEAN /\ slip \in BOOLEAN /\ fault \in BOOLEAN
  /\ continued \in 0 .. Len(messages) /\ answered \in 0 .. Len(messages)
  /\ found \in 0 .. Len(messages)
  /\ phase \in Phases /\ ptr \in {"null", "header", "body"}
  /\ length \in Nat /\ size \in Nat /\ held \in Nat

\* The requests handed on are the messages of the client, in their order and
\* with all of their bytes, until bytes are dropped or left unread
\* (see slip: there are four ways), or the client hangs up.
Framed ==
  phase = "have" /\ ~slip =>
    LET m == messages[answered + 1]
    IN  /\ base = m.from /\ found = answered + 1
        /\ size = m.body
        /\ held = m.body \/ hungUp
        /\ held = m.body => taken = End(m)

\* The buffers hold what is put into them: the header with what came along,
\* and a body that is not redirected to a file.
BuffersSuffice ==
  /\ phase \in {"headers", "parse"} => taken - base <= BufferSize
  /\ phase = "binary" => length <= BufferSize

\* Whoever reads size bytes at ptr, as _put_request does, finds them behind the
\* header, if they came with it, or in bodybuf, if they fit; but a body that comes
\* out of a file never can be read: it has a size and no ptr.
BodyInMemory ==
  [][phase # "have" /\ phase' = "have" =>
       IF phase = "file" THEN size' > 0 /\ ptr' = "null"
       ELSE \/ size' = 0
            \/ /\ phase = "parse" /\ ptr' = "header"
               /\ size' <= taken - HeadEnd(messages[found])
            \/ ptr' = "body" /\ size' <= BufferSize]_vars

\* A client that waits for 100 Continue gets it; the two do not wait for each
\* other.  (The process may have ended over a message before it.)
ContinueComes ==
  \A k \in 1 .. MaxMessages :
    (k = Len(messages) /\ messages[k].expect /\ sent = HeadEnd(messages[k]))
      ~> (continued >= k \/ phase \in {"closed", "crashed"} \/ slip \/ fault)

\* A message that was sent completely is received, answered or rejected, unless
\* the process ends over a body in a file.
MessageAnswered ==
  \A k \in 1 .. MaxMessages :
    (k = Len(messages) /\ sent = Streamed)
      ~> (answered >= k \/ phase \in {"closed", "crashed"} \/ slip \/ fault)

=============================================================================
