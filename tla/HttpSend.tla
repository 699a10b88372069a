------------------------------- MODULE HttpSend -------------------------------
(***************************************************************************)
(* One message is sent: http_send_response and http_send_request over      *)
(* socket_send, with a peer that reads, stalls or goes away.  The bytes of *)
(* a message are numbered: the head, then the body.                        *)
(***************************************************************************)
EXTENDS Integers, Sequences, FiniteSetsExt

CONSTANTS
  Block,     \* HTTP_MAX_SEND_BLOCK, scaled down
  HeadSize,  \* BOUND: bytes of a head; assumed to fit in one block
  Sizes,     \* BOUND: sizes of a body
  Room,      \* BOUND: bytes the kernel holds for the peer
  NoneSize,  \* strlen("None"), scaled down
  NoLength   \* no Content-Length in the headers

ASSUME SendAssumption ==
  /\ Block \in Nat \ {0} /\ HeadSize \in Nat \ {0}
  /\ Sizes \subseteq Nat /\ NoneSize \in Nat /\ Room \in Nat

Kinds    == {"response", "form", "file"}
Statuses == {"missing", "unknown", "200 or 404", "other"}

VARIABLES
  kind,      \* a response, a request with its body in memory or in a file
  status,    \* what the dictionary holds for the first line
  blocking,  \* the mode of conn->handle
  body,      \* ct->body->size, or the size of the file at this moment
  declared,  \* Content-Length in the dictionary
  pc,        \* where the sender is
  from, len, \* the block of socket_send: bytes from + 1 .. from + len
  put,       \* bytes of it the kernel has in this call of send
  sent,      \* the count to be returned
  eof,       \* feof(fp)
  peer,      \* what the other side does
  held,      \* bytes the kernel holds for the peer
  wire,      \* HISTORY: the bytes put, in order
  cut,       \* HISTORY: some call did not put all it was given
  changed    \* HISTORY: the file has changed since its size was taken

message == <<kind, status, blocking>>
sender  == <<pc, from, len, put, sent, eof>>
network == <<peer, held, wire>>
vars    == <<message, body, declared, sender, network, cut, changed>>

Free == Room - held

Init ==
  /\ kind \in Kinds /\ status \in Statuses /\ blocking \in BOOLEAN
  /\ body \in Sizes
  /\ declared \in {NoLength, Room}   \* what a script may have set
  /\ pc = "start" /\ from = 0 /\ len = 0 /\ put = 0 /\ sent = 0 /\ eof = FALSE
  /\ peer = "reading" /\ held = 0 /\ wire = <<>>
  /\ cut = FALSE /\ changed = FALSE

-----------------------------------------------------------------------------
(* Before the first byte *)

\* A response without status or version, or of an unknown status; a request
\* without method, url or version.
Refused == status = "missing" \/ (kind = "response" /\ status = "unknown")

Refuse ==
  /\ pc = "start" /\ Refused
  /\ pc' = "done" /\ sent' = -1
  /\ UNCHANGED <<message, body, declared, from, len, put, eof, network, cut, changed>>

\* A 200 or 404 without a body is given one.
FilledBody ==
  IF kind = "response" /\ status = "200 or 404" /\ body = 0 THEN NoneSize ELSE body

\* MUTANT: the length is taken before the body is filled.
LengthBefore(size) == IF body > 0 \/ kind = "file" THEN body ELSE declared

\* The Content-Length is that of the body; without a body a script's stays.
\* _get_file_size is 0 for a file that is not there.
LengthOf(size) == IF size > 0 \/ kind = "file" THEN size ELSE declared

\* The head is built with sprintf in one block, whose end is not looked at, and
\* handed to socket_send; here it fits.
Start ==
  /\ pc = "start" /\ ~Refused
  /\ body' = FilledBody /\ declared' = LengthOf(FilledBody)
  /\ pc' = "send" /\ from' = 0 /\ len' = HeadSize /\ put' = 0
  /\ UNCHANGED <<message, sent, eof, network, cut, changed>>

-----------------------------------------------------------------------------
(* socket_send; a call that is interrupted, EINTR, is made again. *)

\* MUTANT: the count of a file is what was read.
CountAsked(n) == IF from = 0 THEN n ELSE len

\* What a call adds to the count: http_send_binary counts what it was given.
Counted(n) == IF from = 0 \/ kind = "file" THEN n ELSE len

\* The call ends with *sent = n; its result is looked at by nobody.
Return(n) ==
  /\ pc' = "next" /\ sent' = sent + Counted(n)
  /\ cut' = (cut \/ n < len)
  /\ put' = 0

\* The kernel takes n bytes of the block.
Take(n) ==
  /\ wire' = wire \o [i \in 1 .. n |-> from + put + i]
  /\ held' = held + n

\* send() on a socket that blocks waits until the kernel has the whole block.
Copy ==
  /\ pc = "send" /\ blocking /\ peer # "gone" /\ put < len
  /\ \E n \in 1 .. Min({Free, len - put}) : Take(n) /\ put' = put + n
  /\ UNCHANGED <<message, body, declared, pc, from, len, sent, eof, peer, cut, changed>>

Copied ==
  /\ pc = "send" /\ put = len
  /\ Return(len)
  /\ UNCHANGED <<message, body, declared, from, len, eof, network, changed>>

\* send() on a socket that does not block takes what there is room for.
TakePart ==
  /\ pc = "send" /\ ~blocking /\ peer # "gone"
  /\ \E n \in 1 .. Min({Free, len}) : Take(n) /\ Return(n)
  /\ UNCHANGED <<message, body, declared, from, len, eof, peer, changed>>

\* EAGAIN
WouldBlock == pc = "send" /\ ~blocking /\ peer # "gone" /\ Free = 0

Wait ==
  /\ WouldBlock
  /\ pc' = "wait"
  /\ UNCHANGED <<message, body, declared, from, len, put, sent, eof, network, cut, changed>>

\* socket_waitfd: select says that the socket can be written, or has failed.
Writable ==
  /\ pc = "wait" /\ (Free > 0 \/ peer = "gone")
  /\ pc' = "send"
  /\ UNCHANGED <<message, body, declared, from, len, put, sent, eof, network, cut, changed>>

\* MUTANT: after the timeout send is tried again.
TriesAgain ==
  /\ pc = "wait" /\ Free = 0
  /\ pc' = "send"
  /\ UNCHANGED <<message, body, declared, from, len, put, sent, eof, network, cut, changed>>

\* socket_waitfd: HTTP_SEND_TIMEOUT has passed.
TimesOut ==
  /\ pc = "wait" /\ Free = 0
  /\ Return(0)
  /\ UNCHANGED <<message, body, declared, from, len, eof, network, changed>>

\* EPIPE or ECONNRESET: what was copied before counts as put.
Broken ==
  /\ pc = "send" /\ peer = "gone" /\ put < len
  /\ Return(put)
  /\ UNCHANGED <<message, body, declared, from, len, eof, network, changed>>

-----------------------------------------------------------------------------
(* The blocks of the body *)

\* What is left behind the block that was tried, whatever became of it.
Left == HeadSize + body - (from + len)

\* MUTANT: p goes on a whole block also when less was left for the last one.
StepBlock == from + Block

\* p += to_send; fread goes on where it stopped.
NextFrom == from + len

\* http_send_binary and http_send_file: the next block, a short one is the last.
NextBlock ==
  /\ pc = "next" /\ ~eof /\ Left > 0
  /\ from' = NextFrom /\ len' = Min({Block, Left})
  /\ eof' = (kind = "file" /\ Left < Block)
  /\ pc' = "send"
  /\ UNCHANGED <<message, body, declared, put, sent, network, cut, changed>>

Finish ==
  /\ pc = "next" /\ (eof \/ Left <= 0)
  /\ pc' = "done"
  /\ UNCHANGED <<message, body, declared, from, len, put, sent, eof, network, cut, changed>>

Sender ==
  \/ Refuse \/ Start \/ Copy \/ Copied \/ TakePart \/ Wait \/ Writable
  \/ TimesOut \/ Broken \/ NextBlock \/ Finish

-----------------------------------------------------------------------------
(* The surroundings *)

PeerReads ==
  /\ peer = "reading" /\ held > 0
  /\ \E n \in 1 .. held : held' = held - n
  /\ UNCHANGED <<message, body, declared, sender, peer, wire, cut, changed>>

PeerStalls ==
  /\ pc # "done" /\ peer # "gone"
  /\ peer' = IF peer = "reading" THEN "stalled" ELSE "reading"
  /\ UNCHANGED <<message, body, declared, sender, held, wire, cut, changed>>

PeerGoes ==
  /\ pc # "done" /\ peer # "gone"
  /\ peer' = "gone"
  /\ UNCHANGED <<message, body, declared, sender, held, wire, cut, changed>>

\* Somebody writes the file between fseek in _get_file_size and the last fread.
FileChanges ==
  /\ kind = "file" /\ pc \in {"send", "wait", "next"} /\ ~changed
  /\ \E size \in Sizes \ {body} : body' = size
  /\ changed' = TRUE
  /\ UNCHANGED <<message, declared, sender, network, cut>>

Next == Sender \/ PeerReads \/ PeerStalls \/ PeerGoes \/ FileChanges

Spec == Init /\ [][Next]_vars

\* The sender's thread is scheduled, and a peer that goes on reading reads.
FairSpec == Spec /\ WF_vars(Sender) /\ SF_vars(PeerReads)

-----------------------------------------------------------------------------
(* Properties *)

Ascending(s) == \A i \in 1 .. Len(s) - 1 : s[i] < s[i + 1]

Prefix(s) == \A i \in DOMAIN s : s[i] = i

\* The peer never gets a byte twice or before an earlier one; and on a socket
\* that blocks, the one of a Linux connection, it never gets a byte without all
\* those before it, although http_send_binary and http_send_file go on behind a
\* block whatever became of it.  If it stays, it gets the whole message.
InOrder ==
  /\ Ascending(wire)
  /\ blocking \/ ~cut => Prefix(wire)
  /\ pc = "done" /\ ~Refused /\ ~changed /\ blocking /\ peer # "gone"
       => Len(wire) = HeadSize + body

\* What http_send_request and http_send_response return: nothing was put when
\* it is -1, the bytes that were put when the body is a file, and never less
\* than the bytes put when it is in memory.
CountCovers ==
  pc = "done" =>
    /\ (sent = -1) = Refused
    /\ Refused => wire = <<>>
    /\ kind = "file" => Refused \/ sent = Len(wire)
    /\ kind # "file" => sent >= Len(wire) \/ Refused

\* The peer is told the length of the body it gets, unless a block was cut, the
\* file has changed after _get_file_size, or there is no body and the script
\* has set a length of its own.
LengthTold ==
  pc = "done" /\ ~Refused /\ ~cut /\ ~changed =>
    \/ declared = Len(wire) - HeadSize
    \/ Len(wire) = HeadSize /\ kind # "file"

\* A send ends: on a socket that does not block whatever the peer does, on one
\* that blocks unless the peer stops reading for good without going away: the
\* timeout of socket_send is no help then.
SendReturns == <>(pc = "done") \/ (blocking /\ <>[](peer = "stalled"))
===============================================================================
