---------------------------- MODULE HttpRecvProofs ----------------------------
(***************************************************************************)
(* RInv is an inductive invariant of HttpRecv, for every size of the       *)
(* buffer, every number and every size of headers and bodies, with and     *)
(* without pipelining, tiny segments and a full disk; the safety           *)
(* invariants of HttpRecv follow.                                          *)
(***************************************************************************)
EXTENDS HttpRecv, WellFoundedInduction, TLAPS

Message == [from : Nat, head : HeadSizes, body : BodySizes, expect : BOOLEAN]

\* The messages follow each other without gaps.
StreamInv ==
  /\ messages \in Seq(Message) /\ Len(messages) <= MaxMessages
  /\ messages # <<>> => messages[1].from = 0
  /\ \A k \in 1 .. Len(messages) - 1 : messages[k + 1].from = End(messages[k])
  /\ \A j \in 1 .. Len(messages), k \in 1 .. Len(messages) :
       j < k => End(messages[j]) <= messages[k].from

\* A message was found in the buffer.
Received == phase \in {"parse", "binary", "file", "have"}

\* Every header that is found lies behind the one found before it, also when
\* bytes have been dropped: no message is handed on twice.
CountInv ==
  /\ answered > 0 => HeadEnd(messages[answered]) <= base
  /\ Received => answered < found /\ HeadEnd(messages[found]) <= taken
  /\ phase = "headers" /\ taken > base => fault \/ taken >= base + 3
  /\ fault => phase = "headers"

\* What lies where.
BufferInv ==
  /\ BuffersSuffice
  /\ phase = "parse" => /\ size = taken - HeadEnd(messages[found])
                        /\ ptr = IF size = 0 THEN "null" ELSE "header"
  /\ phase \in {"binary", "file"} => held < length
  /\ phase = "binary" => ptr = "body"
  /\ phase = "file" => GoesToFile(length) /\ ptr = "null"

\* Where the message that is next begins.
NextStart == IF answered = 0 THEN 0 ELSE End(messages[answered])

\* Until bytes are dropped, the buffer begins where a message begins, and what
\* was taken is accounted for; but for the last request of a client that has
\* hung up in the middle of it.
OrderInv ==
  ~slip =>
    \/ hungUp /\ taken = sent /\ phase \in {"headers", "closed"}
    \/ /\ base = NextStart
       /\ phase = "headers" /\ answered < Len(messages) =>
            taken < HeadEnd(messages[answered + 1])
       /\ Received => found = answered + 1
       /\ phase \in {"binary", "file", "have"} =>
            taken = HeadEnd(messages[found]) + held
       /\ phase \in {"binary", "file"} => length = messages[found].body
       /\ phase = "have" =>
            /\ size = messages[found].body
            /\ held = size \/ (hungUp /\ taken = sent)

RInv == TypeOK /\ StreamInv /\ CountInv /\ BufferInv /\ OrderInv

-----------------------------------------------------------------------------
LEMMA LeastOfNat ==
  ASSUME NEW T, T \subseteq Nat, T # {}
  PROVE  \E x \in T : \A y \in T : x <= y
<1> DEFINE R == OpToRel(<, Nat)
<1>1. IsWellFoundedOn(R, Nat)  BY NatLessThanWellFounded
<1>2. \A x \in Nat, y \in Nat : y < x => <<y, x>> \in R  BY DEF OpToRel
<1> HIDE DEF R
<1>3. PICK x \in T : \A y \in T : ~ (<<y, x>> \in R)  BY <1>1, WFMin
<1>4. ASSUME NEW y \in T PROVE x <= y
  <2>1. x \in Nat /\ y \in Nat /\ ~ (y < x)  BY <1>2, <1>3
  <2> QED  BY <2>1
<1> QED  BY <1>4

-----------------------------------------------------------------------------
(* The stream *)

\* Where a message is, and the sizes of its parts.
LEMMA MessageAt ==
  ASSUME StreamInv, NEW k \in 1 .. Len(messages)
  PROVE  /\ messages[k] \in Message
         /\ messages[k].from \in Nat /\ messages[k].head \in Nat
         /\ messages[k].body \in Nat /\ messages[k].head >= 4
         /\ HeadEnd(messages[k]) \in Nat /\ End(messages[k]) \in Nat
         /\ messages[k].from + 4 <= HeadEnd(messages[k])
         /\ HeadEnd(messages[k]) <= End(messages[k])
<1>1. messages[k] \in Message  BY DEF StreamInv
<1>2. /\ messages[k].from \in Nat /\ messages[k].head \in Nat
      /\ messages[k].body \in Nat /\ messages[k].head >= 4
  BY <1>1, RecvAssumption DEF Message
<1> QED  BY <1>1, <1>2 DEF HeadEnd, End

LEMMA StreamLength == ASSUME StreamInv PROVE Len(messages) \in Nat
BY DEF StreamInv

\* Of two messages the later one has its header end at least four bytes behind
\* that of the earlier one.
LEMMA HeadsInOrder ==
  ASSUME StreamInv, NEW j \in 1 .. Len(messages), NEW k \in 1 .. Len(messages), j < k
  PROVE  HeadEnd(messages[j]) + 4 <= HeadEnd(messages[k])
<1>1. End(messages[j]) <= messages[k].from  BY DEF StreamInv
<1>2. /\ HeadEnd(messages[j]) \in Nat /\ End(messages[j]) \in Nat
      /\ HeadEnd(messages[j]) <= End(messages[j])
  BY MessageAt
<1>3. /\ messages[k].from \in Nat /\ HeadEnd(messages[k]) \in Nat
      /\ messages[k].from + 4 <= HeadEnd(messages[k])
  BY MessageAt
<1> QED  BY <1>1, <1>2, <1>3

\* No message ends behind the last one.
LEMMA EndsInStream ==
  ASSUME StreamInv
  PROVE  /\ Streamed \in Nat
         /\ \A k \in 1 .. Len(messages) : End(messages[k]) <= Streamed
<1> DEFINE last == Len(messages)
<1>1. last \in Nat  BY StreamLength
<1>2. CASE messages = <<>>
  <2>1. last = 0  BY <1>2
  <2> QED  BY <1>2, <2>1 DEF Streamed
<1>3. CASE messages # <<>>
  <2>1. last \in 1 .. last /\ Streamed = End(messages[last])
    BY <1>1, <1>3 DEF StreamInv, Streamed
  <2>2. /\ messages[last].from \in Nat /\ End(messages[last]) \in Nat
        /\ messages[last].from <= End(messages[last])
    BY <2>1, MessageAt
  <2>3. ASSUME NEW k \in 1 .. last PROVE End(messages[k]) <= Streamed
    <3>1. CASE k = last  BY <2>1, <2>2, <3>1
    <3>2. CASE k # last
      <4>1. End(messages[k]) <= messages[last].from
        BY <1>1, <2>1, <3>2 DEF StreamInv
      <4>2. End(messages[k]) \in Nat  BY MessageAt
      <4> QED  BY <2>1, <2>2, <4>1, <4>2
    <3> QED  BY <3>1, <3>2
  <2> QED  BY <2>1, <2>2, <2>3
<1> QED  BY <1>2, <1>3

\* The message behind the answered ones begins where these end.
LEMMA NextStarts ==
  ASSUME StreamInv, answered \in 0 .. Len(messages)
  PROVE  /\ NextStart \in Nat
         /\ answered < Len(messages) => messages[answered + 1].from = NextStart
         /\ answered = Len(messages) => NextStart = Streamed
<1>1. Len(messages) \in Nat  BY StreamLength
<1>2. CASE answered = 0
  <2>1. Len(messages) > 0 => messages # <<>>  OBVIOUS
  <2>2. Len(messages) = 0 => messages = <<>>  BY DEF StreamInv
  <2> QED  BY <1>2, <1>1, <2>1, <2>2 DEF NextStart, StreamInv, Streamed
<1>3. CASE answered # 0
  <2>1. answered \in 1 .. Len(messages) /\ NextStart = End(messages[answered])
    BY <1>1, <1>3 DEF NextStart
  <2>2. NextStart \in Nat  BY <2>1, MessageAt
  <2>3. answered < Len(messages) => answered \in 1 .. Len(messages) - 1
    BY <1>1, <2>1
  <2>4. messages # <<>>  BY <2>1
  <2> QED  BY <2>1, <2>2, <2>3, <2>4 DEF StreamInv, Streamed
<1> QED  BY <1>2, <1>3

\* A new message follows the others; these stay as they are.
LEMMA Begins ==
  ASSUME StreamInv, NEW head \in HeadSizes, NEW body \in BodySizes,
         NEW expect \in BOOLEAN, ClientBegin(head, body, expect)
  PROVE  /\ Len(messages') = Len(messages) + 1
         /\ \A k \in 1 .. Len(messages) : messages'[k] = messages[k]
         /\ messages'[Len(messages) + 1] =
              [from |-> Streamed, head |-> head, body |-> body, expect |-> expect]
         /\ messages' # <<>>
         /\ messages' \in Seq(Message)
         /\ Streamed' \in Nat /\ Streamed <= Streamed'
<1> DEFINE new == [from |-> Streamed, head |-> head, body |-> body, expect |-> expect]
<1>1. Streamed \in Nat  BY EndsInStream
<1>2. new \in Message  BY <1>1 DEF Message
<1>3. messages' = Append(messages, new)  BY DEF ClientBegin
<1> HIDE DEF new
<1>4. /\ Len(messages') = Len(messages) + 1
      /\ \A k \in 1 .. Len(messages) : messages'[k] = messages[k]
      /\ messages'[Len(messages) + 1] = new
      /\ messages' \in Seq(Message)
  BY <1>2, <1>3 DEF StreamInv
<1>5. messages' # <<>>  BY <1>4, StreamLength
<1>6. Streamed' = End(new)  BY <1>4, <1>5 DEF Streamed, End
<1>7. End(new) \in Nat /\ Streamed <= End(new)
  BY <1>1, RecvAssumption DEF End, new
<1> QED  BY <1>4, <1>5, <1>6, <1>7 DEF new

LEMMA StreamStep == ASSUME RInv, Next PROVE StreamInv'
<1>1. CASE UNCHANGED messages
  <2>1. StreamInv  BY DEF RInv
  <2> QED  BY <1>1, <2>1 DEF StreamInv, End
<1>2. ASSUME NEW head \in HeadSizes, NEW body \in BodySizes, NEW expect \in BOOLEAN,
             ClientBegin(head, body, expect)
      PROVE  StreamInv'
  <2> DEFINE n == Len(messages)
  <2>1. StreamInv  BY DEF RInv
  <2>2. n \in Nat  BY <2>1, StreamLength
  <2>3. /\ Len(messages') = n + 1
        /\ \A k \in 1 .. n : messages'[k] = messages[k]
        /\ messages'[n + 1].from = Streamed
        /\ messages' \in Seq(Message)
    <3>1. /\ Len(messages') = n + 1
          /\ \A k \in 1 .. n : messages'[k] = messages[k]
          /\ messages'[n + 1] = [from |-> Streamed, head |-> head,
                                 body |-> body, expect |-> expect]
          /\ messages' \in Seq(Message)
      BY <1>2, <2>1, Begins
    <3> QED  BY <3>1
  <2>4. n + 1 <= MaxMessages  BY <1>2, <2>2, RecvAssumption DEF ClientBegin
  <2>5. messages'[1].from = 0
    <3>1. CASE n = 0
      <4>1. messages = <<>>  BY <2>1, <3>1 DEF StreamInv
      <4> QED  BY <2>3, <3>1, <4>1 DEF Streamed
    <3>2. CASE n # 0
      <4>1. 1 \in 1 .. n /\ messages # <<>>  BY <2>2, <3>2
      <4> QED  BY <2>1, <2>3, <4>1 DEF StreamInv
    <3> QED  BY <3>1, <3>2
  <2>6. ASSUME NEW k \in 1 .. n PROVE messages'[k + 1].from = End(messages'[k])
    <3>1. CASE k = n
      <4>1. messages # <<>>  BY <3>1
      <4> QED  BY <2>3, <3>1, <4>1 DEF Streamed
    <3>2. CASE k # n
      <4>1. k \in 1 .. n - 1 /\ k + 1 \in 1 .. n  BY <2>2, <3>2
      <4> QED  BY <2>1, <2>3, <4>1 DEF StreamInv
    <3> QED  BY <3>1, <3>2
  <2>7. ASSUME NEW j \in 1 .. n + 1, NEW k \in 1 .. n + 1, j < k
        PROVE  End(messages'[j]) <= messages'[k].from
    <3>1. j \in 1 .. n /\ messages'[j] = messages[j]  BY <2>2, <2>3, <2>7
    <3>2. CASE k = n + 1  BY <2>1, <2>3, <3>1, <3>2, EndsInStream
    <3>3. CASE k # n + 1
      <4>1. k \in 1 .. n  BY <2>2, <3>3
      <4> QED  BY <2>1, <2>3, <2>7, <3>1, <4>1 DEF StreamInv
    <3> QED  BY <3>2, <3>3
  <2> QED  BY <2>2, <2>3, <2>4, <2>5, <2>6, <2>7 DEF StreamInv, End
<1>3. CASE ServerNext
  BY <1>1, <1>3 DEF ServerNext, RecvHeaders, RecvTiny, RecvBody, RecvHeadersFails,
     Parse, ParseFails, RecvBodyStops, CopyFaults, Handle, clientVars
<1>4. CASE \/ \E n \in 1 .. Allowed : ClientSend(n)
           \/ ClientHangUp
  BY <1>1, <1>4 DEF ClientSend, ClientHangUp
<1> QED  BY <1>2, <1>3, <1>4 DEF Next, ClientNext

-----------------------------------------------------------------------------
(* The search for the end of a header *)

\* What a segment shows: of the ends seen the first, four bytes or more behind
\* the beginning of the buffer, and in what was received.
LEMMA SeenFirst ==
  ASSUME RInv, NEW n \in 1 .. Waiting, RecvHeaders(n),
         Seen(ScanStart, taken + n) # {}
  PROVE  LET k == First(Seen(ScanStart, taken + n))
         IN /\ k \in 1 .. Len(messages)
            /\ HeadEnd(messages[k]) <= taken + n
            /\ base + 4 <= HeadEnd(messages[k])
            /\ \A j \in Seen(ScanStart, taken + n) : k <= j
<1> DEFINE ends == Seen(ScanStart, taken + n)
<1>1. StreamInv /\ Len(messages) \in Nat  BY StreamLength DEF RInv
<1>2. DOMAIN messages = 1 .. Len(messages)  BY <1>1 DEF StreamInv
<1>3. ends \subseteq 1 .. Len(messages) /\ ends # {}  BY <1>2 DEF Seen
<1>4. \E k \in ends : \A j \in ends : k <= j
  <2>1. ends \subseteq Nat  BY <1>3
  <2> QED  BY <1>3, <2>1, LeastOfNat
<1> HIDE DEF ends
<1>5. First(ends) \in ends /\ \A j \in ends : First(ends) <= j  BY <1>4 DEF First
<1>6. /\ First(ends) \in 1 .. Len(messages)
      /\ HeadEnd(messages[First(ends)]) <= taken + n
      /\ ScanStart <= HeadEnd(messages[First(ends)]) - 4
  BY <1>2, <1>5 DEF ends, Seen
<1>7. base \in Int /\ taken \in Int /\ base <= taken
  BY DEF RInv, TypeOK
<1>8. base <= ScanStart
  BY <1>7 DEF ScanStart, RecvHeaders, RInv, CountInv
<1>9. HeadEnd(messages[First(ends)]) \in Nat  BY <1>1, <1>6, MessageAt
<1>10. base + 4 <= HeadEnd(messages[First(ends)])
  BY <1>6, <1>7, <1>8, <1>9 DEF ScanStart
<1> QED  BY <1>5, <1>6, <1>10 DEF ends

-----------------------------------------------------------------------------
(* What the two sides leave alone *)

\* The client adds to the stream, until it hangs up, and touches nothing else.
LEMMA ClientFrame ==
  ASSUME RInv, ClientNext
  PROVE  /\ UNCHANGED <<linux, continued, taken, base, phase, found, bodyVars,
                        answered, slip, fault>>
         /\ Len(messages) \in Nat /\ Len(messages') \in Nat
         /\ Len(messages) <= Len(messages')
         /\ \A k \in 1 .. Len(messages) : messages'[k] = messages[k]
         /\ hungUp' \in BOOLEAN
         /\ hungUp => hungUp' /\ sent' = sent
         /\ sent' \in 0 .. Streamed' /\ sent <= sent'
         /\ Len(messages') # Len(messages) => sent = Streamed
<1>1. /\ StreamInv /\ Len(messages) \in Nat
      /\ Streamed \in Nat /\ sent \in Nat /\ sent <= Streamed
  BY StreamLength, EndsInStream DEF RInv, TypeOK
<1>2. hungUp \in BOOLEAN  BY DEF RInv, TypeOK
<1>3. ASSUME NEW head \in HeadSizes, NEW body \in BodySizes, NEW expect \in BOOLEAN,
             ClientBegin(head, body, expect)
      PROVE  /\ Len(messages') = Len(messages) + 1
             /\ \A k \in 1 .. Len(messages) : messages'[k] = messages[k]
             /\ Streamed <= Streamed' /\ Streamed' \in Nat
  BY <1>1, <1>3, Begins
<1>4. ASSUME NEW head \in HeadSizes, NEW body \in BodySizes, NEW expect \in BOOLEAN,
             ClientBegin(head, body, expect)
      PROVE  /\ UNCHANGED <<linux, continued, taken, base, phase, found, bodyVars,
                            answered, slip, fault, sent, hungUp>>
             /\ sent = Streamed
  BY <1>4 DEF ClientBegin
<1>5. ASSUME NEW n \in 1 .. Allowed, ClientSend(n)
      PROVE  /\ UNCHANGED <<linux, continued, taken, base, phase, found, bodyVars,
                            answered, slip, fault, messages, hungUp>>
             /\ sent < sent' /\ sent' \in Nat /\ ~hungUp /\ sent' <= Allowed
             /\ Streamed' = Streamed
  <2>1. Allowed \in Nat
    <3>1. CASE messages = <<>>  BY <3>1 DEF Allowed
    <3>2. CASE messages # <<>>
      <4>1. Len(messages) \in 1 .. Len(messages)
        BY <1>1, <3>2 DEF StreamInv
      <4> QED  BY <1>1, <3>2, <4>1, MessageAt DEF Allowed
    <3> QED  BY <3>1, <3>2
  <2> QED  BY <1>5, <2>1 DEF ClientSend, Streamed
<1>6. Allowed <= Streamed
  <2>1. CASE messages = <<>>  BY <2>1 DEF Allowed, Streamed
  <2>2. CASE messages # <<>>
    <3>1. Len(messages) \in 1 .. Len(messages)  BY <1>1, <2>2 DEF StreamInv
    <3> QED  BY <1>1, <2>2, <3>1, MessageAt DEF Allowed, Streamed
  <2> QED  BY <2>1, <2>2
<1>7. Allowed \in Int
  <2>1. CASE messages = <<>>  BY <2>1 DEF Allowed
  <2>2. CASE messages # <<>>
    <3>1. Len(messages) \in 1 .. Len(messages)  BY <1>1, <2>2 DEF StreamInv
    <3> QED  BY <1>1, <2>2, <3>1, MessageAt DEF Allowed
  <2> QED  BY <2>1, <2>2
<1>8. CASE \E head \in HeadSizes, body \in BodySizes, expect \in BOOLEAN :
             ClientBegin(head, body, expect)
  BY <1>1, <1>2, <1>3, <1>4, <1>8
<1>9. CASE \E n \in 1 .. Allowed : ClientSend(n)
  BY <1>1, <1>2, <1>5, <1>6, <1>7, <1>9
<1>10. CASE ClientHangUp
  BY <1>1, <1>2, <1>10 DEF ClientHangUp, Streamed
<1> QED  BY <1>8, <1>9, <1>10 DEF ClientNext

\* The server does not change the stream.
LEMMA ServerFrame == ASSUME ServerNext PROVE UNCHANGED clientVars
BY DEF ServerNext, RecvHeaders, RecvTiny, RecvBody, RecvHeadersFails,
   Parse, ParseFails, RecvBodyStops, CopyFaults, Handle, clientVars

-----------------------------------------------------------------------------
(* The two steps in which the server decides *)

\* http_recv_headers: one more segment, with the end of a header or without.
LEMMA Searched ==
  ASSUME RInv, NEW n \in 1 .. Waiting, RecvHeaders(n)
  PROVE  /\ phase = "headers" /\ ~fault
         /\ n \in Nat /\ taken' = taken + n /\ taken' - base <= BufferSize
         /\ taken' >= base + 3 /\ taken' <= sent
         /\ UNCHANGED <<linux, messages, sent, hungUp, continued, base, length,
                        held, answered, slip, fault>>
         /\ \/ /\ Seen(ScanStart, taken + n) = {}
               /\ UNCHANGED <<phase, found, size, ptr>>
            \/ /\ phase' = "parse" /\ found' \in 1 .. Len(messages)
               /\ HeadEnd(messages[found']) <= taken'
               /\ base + 4 <= HeadEnd(messages[found'])
               /\ \A j \in Seen(ScanStart, taken + n) : found' <= j
               /\ size' = taken' - HeadEnd(messages[found'])
               /\ ptr' = IF size' = 0 THEN "null" ELSE "header"
<1>1. /\ taken \in Nat /\ base \in Nat /\ base <= taken /\ sent \in Int
      /\ n \in Int /\ n > 0 /\ n <= sent - taken
  BY EndsInStream DEF RInv, TypeOK, Waiting
<1>2. /\ phase = "headers" /\ ~fault
      /\ taken' = taken + n /\ n <= BufferSize - (taken - base)
      /\ taken > base \/ n >= 3
      /\ UNCHANGED <<linux, messages, sent, hungUp, continued, base, length,
                     held, answered, slip, fault>>
  BY DEF RecvHeaders, clientVars
<1>3. taken > base => taken >= base + 3  BY <1>2 DEF RInv, CountInv
<1>4. taken' >= base + 3 /\ taken' <= sent /\ taken' - base <= BufferSize
  BY <1>1, <1>2, <1>3, RecvAssumption
<1>5. CASE Seen(ScanStart, taken + n) = {}
  BY <1>1, <1>2, <1>4, <1>5 DEF RecvHeaders
<1>6. CASE Seen(ScanStart, taken + n) # {}
  <2> DEFINE k == First(Seen(ScanStart, taken + n))
  <2>1. /\ phase' = "parse" /\ found' = k
        /\ size' = taken + n - HeadEnd(messages[k])
        /\ ptr' = IF size' = 0 THEN "null" ELSE "header"
    BY <1>6 DEF RecvHeaders
  <2>2. /\ k \in 1 .. Len(messages) /\ HeadEnd(messages[k]) <= taken + n
        /\ base + 4 <= HeadEnd(messages[k])
        /\ \A j \in Seen(ScanStart, taken + n) : k <= j
    BY <1>6, SeenFirst
  <2> HIDE DEF k
  <2>3. /\ phase' = "parse" /\ found' \in 1 .. Len(messages)
        /\ base + 4 <= HeadEnd(messages[found'])
        /\ \A j \in Seen(ScanStart, taken + n) : found' <= j
        /\ ptr' = IF size' = 0 THEN "null" ELSE "header"
    BY <2>1, <2>2
  <2>4. /\ HeadEnd(messages[found']) <= taken'
        /\ size' = taken' - HeadEnd(messages[found'])
    <3>1. HeadEnd(messages[k]) \in Nat  BY <2>2, MessageAt DEF RInv
    <3>2. HeadEnd(messages[found']) = HeadEnd(messages[k])  BY <2>1
    <3>3. HeadEnd(messages[found']) <= taken'  BY <1>1, <1>2, <2>2, <3>1, <3>2
    <3> QED  BY <1>1, <1>2, <2>1, <3>1, <3>2, <3>3
  <2> QED  BY <1>1, <1>2, <1>4, <2>3, <2>4
<1> QED  BY <1>5, <1>6

\* http_recv_body: where the body is, or goes.
LEMMA Parses ==
  ASSUME RInv, Parse
  PROVE  /\ phase = "parse" /\ found \in 1 .. Len(messages)
         /\ UNCHANGED <<linux, messages, sent, hungUp, taken, base, found,
                        answered, fault>>
         /\ continued' \in 0 .. Len(messages)
         /\ length' \in Nat /\ (InStep => length' = messages[found].body)
         /\ \/ BodyAbsent(length') \/ BodyThere(length') \/ BodyToFile(length')
            \/ BodyNoFile(length') \/ BodyToBuffer(length')
<1>1. /\ StreamInv /\ Len(messages) \in Nat /\ continued \in 0 .. Len(messages)
      /\ found \in 0 .. Len(messages) /\ answered \in 0 .. Len(messages)
  BY StreamLength DEF RInv, TypeOK
<1>2. phase = "parse" /\ answered < found
  BY DEF Parse, RInv, CountInv, Received
<1>3. found \in 1 .. Len(messages)  BY <1>1, <1>2
<1>4. PICK len \in {messages[found].body} \cup (IF InStep THEN {} ELSE {0}) :
        /\ length' = len
        /\ \/ BodyAbsent(len) \/ BodyThere(len) \/ BodyToFile(len)
           \/ BodyNoFile(len) \/ BodyToBuffer(len)
        /\ \E expected \in {messages[found].expect} \cup
                           (IF InStep THEN {} ELSE {FALSE}) : Continue(expected)
        /\ UNCHANGED <<linux, messages, sent, hungUp, taken, base, found,
                       answered, fault>>
  BY DEF Parse, clientVars
<1>5. len \in Nat /\ (InStep => len = messages[found].body)
  BY <1>1, <1>3, <1>4, MessageAt
<1>6. continued' \in 0 .. Len(messages)
  BY <1>1, <1>3, <1>4 DEF Continue
<1> QED  BY <1>2, <1>3, <1>4, <1>5, <1>6

-----------------------------------------------------------------------------
(* The parts of the invariant *)

LEMMA TypeStep == ASSUME RInv, Next PROVE TypeOK'
<1>1. /\ Len(messages') <= MaxMessages
      /\ \A k \in DOMAIN messages' :
           messages'[k] \in [from : Nat, head : HeadSizes, body : BodySizes,
                             expect : BOOLEAN]
  <2>1. messages' \in Seq(Message) /\ Len(messages') <= MaxMessages
    BY StreamStep DEF StreamInv
  <2>2. \A k \in DOMAIN messages' : messages'[k] \in Message  BY <2>1
  <2> QED  BY <2>1, <2>2 DEF Message
<1>2. TypeOK /\ StreamInv /\ Len(messages) \in Nat /\ Streamed \in Nat
  BY StreamLength, EndsInStream DEF RInv
<1>3. CASE ClientNext
  <2>1. /\ Len(messages') \in Nat /\ Len(messages) <= Len(messages')
        /\ sent' \in 0 .. Streamed' /\ sent <= sent'
        /\ hungUp' \in BOOLEAN
        /\ UNCHANGED <<continued, taken, base, phase, found, length, size, ptr,
                       held, answered, slip, fault>>
    BY <1>3, ClientFrame DEF bodyVars
  <2> QED  BY <1>1, <1>2, <2>1 DEF TypeOK
<1>4. CASE ServerNext
  <2>1. messages' = messages /\ sent' = sent /\ hungUp' = hungUp /\ Streamed' = Streamed
    BY <1>4, ServerFrame DEF clientVars, Streamed
  <2>2. ASSUME NEW n \in 1 .. Waiting, RecvHeaders(n) PROVE TypeOK'
    <3>1. /\ taken' \in 0 .. sent /\ base \in 0 .. taken'
          /\ UNCHANGED <<continued, base, length, held, answered, slip, fault>>
      BY <1>2, <2>2, Searched DEF TypeOK
    <3>2. \/ UNCHANGED <<phase, found, size, ptr>>
          \/ /\ phase' = "parse" /\ found' \in 1 .. Len(messages)
             /\ HeadEnd(messages[found']) <= taken'
             /\ size' = taken' - HeadEnd(messages[found'])
             /\ ptr' = IF size' = 0 THEN "null" ELSE "header"
      BY <2>2, Searched
    <3>3. size' \in Nat
      BY <1>2, <3>1, <3>2, MessageAt DEF TypeOK
    <3> QED  BY <1>1, <1>2, <2>1, <3>1, <3>2, <3>3 DEF TypeOK, Phases
  <2>3. ASSUME NEW n \in 1 .. Waiting, RecvTiny(n) PROVE TypeOK'
    BY <1>1, <1>2, <2>1, <2>3 DEF RecvTiny, TypeOK, Waiting, bodyVars
  <2>4. ASSUME NEW n \in 1 .. Waiting, RecvBody(n) PROVE TypeOK'
    BY <1>1, <1>2, <2>1, <2>4 DEF RecvBody, TypeOK, Waiting, Phases
  <2>5. CASE RecvHeadersFails \/ ParseFails \/ CopyFaults
    BY <1>1, <1>2, <2>1, <2>5 DEF RecvHeadersFails, ParseFails, CopyFaults, TypeOK, Phases, bodyVars
  <2>6. CASE Parse
    <3>1. /\ UNCHANGED <<taken, base, found, answered, fault>>
          /\ continued' \in 0 .. Len(messages) /\ length' \in Nat
          /\ \/ BodyAbsent(length') \/ BodyThere(length') \/ BodyToFile(length')
             \/ BodyNoFile(length') \/ BodyToBuffer(length')
      BY <2>6, Parses
    <3>2. /\ phase' \in Phases /\ ptr' \in {"null", "header", "body"}
          /\ size' \in Nat /\ held' \in Nat /\ slip' \in BOOLEAN
      BY <1>2, <3>1 DEF BodyAbsent, BodyThere, BodyToFile, BodyNoFile,
         BodyToBuffer, Dropped, TypeOK, Phases
    <3> QED  BY <1>1, <1>2, <2>1, <3>1, <3>2 DEF TypeOK
  <2>7. CASE RecvBodyStops
    BY <1>1, <1>2, <2>1, <2>7 DEF RecvBodyStops, TypeOK, Phases
  <2>8. CASE Handle
    <3>1. answered' \in 0 .. Len(messages)
      BY <1>2, <2>8 DEF Handle, TypeOK, RInv, CountInv, Received
    <3> QED  BY <1>1, <1>2, <2>1, <2>8, <3>1 DEF Handle, TypeOK, Phases
  <2> QED  BY <1>4, <2>2, <2>3, <2>4, <2>5, <2>6, <2>7, <2>8 DEF ServerNext
<1> QED  BY <1>3, <1>4 DEF Next

LEMMA CountStep == ASSUME RInv, Next PROVE CountInv'
<1> USE DEF CountInv, Received
<1>1. TypeOK /\ StreamInv /\ CountInv /\ Len(messages) \in Nat  BY StreamLength DEF RInv
<1>2. /\ taken \in Nat /\ base \in Nat /\ base <= taken
      /\ answered \in 0 .. Len(messages) /\ found \in 0 .. Len(messages)
  BY <1>1, EndsInStream DEF TypeOK
<1>3. CASE ClientNext
  <2>1. /\ UNCHANGED <<taken, base, phase, found, answered, fault>>
        /\ \A k \in 1 .. Len(messages) : messages'[k] = messages[k]
    BY <1>3, ClientFrame
  <2>2. answered > 0 => messages'[answered] = messages[answered]  BY <1>2, <2>1
  <2>3. Received => messages'[found] = messages[found]  BY <1>1, <1>2, <2>1
  <2> QED  BY <1>1, <2>1, <2>2, <2>3 DEF HeadEnd
<1>4. CASE ServerNext
  <2>1. messages' = messages  BY <1>4, ServerFrame DEF clientVars
  <2> USE DEF HeadEnd
  <2>2. ASSUME NEW n \in 1 .. Waiting, RecvHeaders(n) PROVE CountInv'
    <3>1. /\ phase = "headers" /\ ~fault /\ taken' >= base + 3
          /\ UNCHANGED <<base, answered, fault>>
          /\ \/ UNCHANGED <<phase, found>>
             \/ /\ phase' = "parse" /\ found' \in 1 .. Len(messages)
                /\ HeadEnd(messages[found']) <= taken'
                /\ base + 4 <= HeadEnd(messages[found'])
      BY <2>2, Searched
    <3>2. CASE UNCHANGED <<phase, found>>  BY <1>1, <2>1, <3>1, <3>2
    <3>3. CASE /\ phase' = "parse" /\ found' \in 1 .. Len(messages)
               /\ HeadEnd(messages[found']) <= taken'
               /\ base + 4 <= HeadEnd(messages[found'])
      <4>1. answered < found'
        <5>1. CASE answered = 0  BY <3>3, <5>1
        <5>2. CASE answered # 0
          <6>1. answered \in 1 .. Len(messages)  BY <1>2, <5>2
          <6>2. HeadEnd(messages[answered]) <= base  BY <1>1, <6>1
          <6>3. /\ HeadEnd(messages[answered]) \in Nat
                /\ HeadEnd(messages[found']) \in Nat
            BY <1>1, <3>3, <6>1, MessageAt
          <6>4. ~ (found' < answered)
            BY <1>1, <1>2, <3>3, <6>1, <6>2, <6>3, HeadsInOrder
          <6>5. found' # answered  BY <1>2, <3>3, <6>2, <6>3
          <6> QED  BY <1>2, <3>3, <6>4, <6>5
        <5> QED  BY <5>1, <5>2
      <4> QED  BY <1>1, <2>1, <3>1, <3>3, <4>1
    <3> QED  BY <3>1, <3>2, <3>3
  <2>3. ASSUME NEW n \in 1 .. Waiting, RecvTiny(n) PROVE CountInv'
    BY <1>1, <2>1, <2>3 DEF RecvTiny
  <2>4. ASSUME NEW n \in 1 .. Waiting, RecvBody(n) PROVE CountInv'
    <3>1. n \in Nat  BY <1>1, EndsInStream DEF Waiting, TypeOK
    <3>2. /\ phase \in {"binary", "file"} /\ phase' \in {"binary", "file", "have"}
          /\ taken' = taken + n /\ UNCHANGED <<found, base, answered, fault>>
      BY <2>4 DEF RecvBody
    <3>3. found \in 1 .. Len(messages)  BY <1>1, <1>2, <3>2
    <3>4. HeadEnd(messages[found]) \in Nat  BY <1>1, <3>3, MessageAt
    <3> QED  BY <1>1, <1>2, <2>1, <3>1, <3>2, <3>4
  <2>5. CASE RecvHeadersFails \/ ParseFails \/ CopyFaults
    BY <1>1, <2>1, <2>5 DEF RecvHeadersFails, ParseFails, CopyFaults
  <2>6. CASE Parse
    <3>1. /\ phase = "parse" /\ UNCHANGED <<taken, base, found, answered, fault>>
          /\ \/ BodyAbsent(length') \/ BodyThere(length') \/ BodyToFile(length')
             \/ BodyNoFile(length') \/ BodyToBuffer(length')
      BY <2>6, Parses
    <3>2. phase' \in {"have", "file", "binary"}
      BY <3>1 DEF BodyAbsent, BodyThere, BodyToFile, BodyNoFile, BodyToBuffer
    <3> QED  BY <1>1, <2>1, <3>1, <3>2
  <2>7. CASE RecvBodyStops  BY <1>1, <2>1, <2>7 DEF RecvBodyStops
  <2>8. CASE Handle
    <3>1. /\ answered' = answered + 1 /\ base' = taken /\ taken' = taken
          /\ fault' = fault /\ phase' \in {"headers", "closed"}
          /\ phase = "have" /\ answered < found /\ ~fault
          /\ HeadEnd(messages[found]) <= taken
      BY <1>1, <2>8 DEF Handle
    <3>2. answered + 1 \in 1 .. Len(messages) /\ found \in 1 .. Len(messages)
      BY <1>1, <1>2, <3>1
    <3>3. /\ HeadEnd(messages[answered + 1]) \in Nat
          /\ HeadEnd(messages[found]) \in Nat
      BY <1>1, <3>2, MessageAt
    <3>4. HeadEnd(messages[answered + 1]) <= HeadEnd(messages[found])
      <4>1. CASE answered + 1 = found  BY <3>3, <4>1
      <4>2. CASE answered + 1 # found
        <5>1. answered + 1 < found  BY <1>2, <3>1, <4>2
        <5> QED  BY <1>1, <3>2, <3>3, <5>1, HeadsInOrder
      <4> QED  BY <4>1, <4>2
    <3>5. HeadEnd(messages[answered + 1]) <= taken
      BY <1>2, <3>1, <3>3, <3>4
    <3> QED  BY <1>2, <2>1, <3>1, <3>5
  <2> QED  BY <1>4, <2>2, <2>3, <2>4, <2>5, <2>6, <2>7, <2>8 DEF ServerNext
<1> QED  BY <1>3, <1>4 DEF Next

LEMMA BufferStep == ASSUME RInv, Next PROVE BufferInv'
<1> USE DEF BufferInv, BuffersSuffice, GoesToFile
<1>1. TypeOK /\ StreamInv /\ BufferInv /\ CountInv  BY DEF RInv
<1>2. /\ taken \in Nat /\ base \in Nat /\ found \in 0 .. Len(messages)
      /\ answered \in 0 .. Len(messages) /\ Len(messages) \in Nat
      /\ size \in Nat /\ length \in Nat /\ held \in Nat /\ BufferSize \in Nat
  BY <1>1, EndsInStream, StreamLength, RecvAssumption DEF TypeOK
<1>3. CASE ClientNext
  <2>1. /\ UNCHANGED <<taken, base, phase, found, length, size, ptr, held>>
        /\ \A k \in 1 .. Len(messages) : messages'[k] = messages[k]
    BY <1>3, ClientFrame DEF bodyVars
  <2>2. phase \in {"parse", "have"} => messages'[found] = messages[found]
    BY <1>1, <1>2, <2>1 DEF CountInv, Received
  <2> QED  BY <1>1, <2>1, <2>2 DEF HeadEnd
<1>4. CASE ServerNext
  <2>1. messages' = messages  BY <1>4, ServerFrame DEF clientVars
  <2> USE DEF HeadEnd
  <2>2. ASSUME NEW n \in 1 .. Waiting, RecvHeaders(n) PROVE BufferInv'
    <3>1. /\ phase = "headers" /\ taken' - base <= BufferSize
          /\ UNCHANGED <<base, length, held>>
          /\ \/ UNCHANGED <<phase, found, size, ptr>>
             \/ /\ phase' = "parse"
                /\ size' = taken' - HeadEnd(messages[found'])
                /\ ptr' = IF size' = 0 THEN "null" ELSE "header"
      BY <2>2, Searched
    <3> QED  BY <1>1, <1>2, <2>1, <3>1
  <2>3. ASSUME NEW n \in 1 .. Waiting, RecvTiny(n) PROVE BufferInv'
    <3>1. /\ phase' = "headers" /\ taken' = taken + n /\ taken = base /\ base' = base
          /\ n <= BufferSize
      BY <2>3 DEF RecvTiny
    <3>2. n \in Nat  BY <1>1, EndsInStream DEF Waiting, TypeOK
    <3> QED  BY <1>2, <3>1, <3>2
  <2>4. ASSUME NEW n \in 1 .. Waiting, RecvBody(n) PROVE BufferInv'
    <3>1. n \in Nat  BY <1>1, EndsInStream DEF Waiting, TypeOK
    <3>2. /\ phase \in {"binary", "file"} /\ held' = held + n /\ n <= length - held
          /\ UNCHANGED <<base, length, ptr>>
          /\ \/ held + n # length /\ UNCHANGED phase
             \/ phase' = "have" /\ size' = length
      BY <2>4 DEF RecvBody
    <3>3. CASE held + n # length /\ UNCHANGED phase  BY <1>1, <1>2, <3>1, <3>2, <3>3
    <3>4. CASE phase' = "have" /\ size' = length
      <4>1. CASE phase = "binary"  BY <1>1, <1>2, <3>2, <3>4, <4>1
      <4>2. CASE phase = "file"  BY <1>1, <1>2, <3>2, <3>4, <4>2
      <4> QED  BY <3>2, <4>1, <4>2
    <3> QED  BY <3>2, <3>3, <3>4
  <2>5. CASE RecvHeadersFails \/ ParseFails \/ CopyFaults
    BY <2>5 DEF RecvHeadersFails, ParseFails, CopyFaults
  <2>6. CASE Parse
    <3>1. /\ phase = "parse" /\ UNCHANGED <<taken, base, found>> /\ length' \in Nat
          /\ \/ BodyAbsent(length') \/ BodyThere(length') \/ BodyToFile(length')
             \/ BodyNoFile(length') \/ BodyToBuffer(length')
      BY <2>6, Parses
    <3>2. /\ size = taken - HeadEnd(messages[found])
          /\ ptr = IF size = 0 THEN "null" ELSE "header"
      BY <1>1, <3>1
    <3>3. CASE BodyAbsent(length') \/ BodyThere(length')
      BY <1>2, <2>1, <3>1, <3>2, <3>3 DEF BodyAbsent, BodyThere
    <3>4. CASE BodyToFile(length') \/ BodyNoFile(length') \/ BodyToBuffer(length')
      BY <1>2, <2>1, <3>1, <3>2, <3>4 DEF BodyToFile, BodyNoFile, BodyToBuffer
    <3> QED  BY <3>1, <3>3, <3>4
  <2>7. CASE RecvBodyStops
    <3>1. /\ phase \in {"binary", "file"} /\ phase' = "have" /\ size' = length
          /\ UNCHANGED <<length, ptr>>
      BY <2>7 DEF RecvBodyStops
    <3>2. CASE phase = "binary"  BY <1>1, <1>2, <3>1, <3>2
    <3>3. CASE phase = "file"  BY <1>1, <1>2, <3>1, <3>3
    <3> QED  BY <3>1, <3>2, <3>3
  <2>8. CASE Handle
    BY <1>2, <2>8 DEF Handle
  <2> QED  BY <1>4, <2>2, <2>3, <2>4, <2>5, <2>6, <2>7, <2>8 DEF ServerNext
<1> QED  BY <1>3, <1>4 DEF Next

\* In step, no header end lies before the one of the next message: it is the
\* one the search finds, and nothing is missed at the edge of two segments.
LEMMA NextFound ==
  ASSUME RInv, NEW n \in 1 .. Waiting, RecvHeaders(n),
         base = NextStart,
         answered < Len(messages) => taken < HeadEnd(messages[answered + 1])
  PROVE  /\ answered < Len(messages)
         /\ Seen(ScanStart, taken + n) = {} => taken' < HeadEnd(messages[answered + 1])
         /\ Seen(ScanStart, taken + n) # {} => found' = answered + 1
<1> DEFINE a == answered + 1
           ends == Seen(ScanStart, taken + n)
<1>1. /\ TypeOK /\ StreamInv /\ Len(messages) \in Nat
      /\ answered \in 0 .. Len(messages) /\ Streamed \in Nat
  BY StreamLength, EndsInStream DEF RInv, TypeOK
<1>2. /\ taken \in Nat /\ base \in Nat /\ base <= taken /\ taken + n <= Streamed
      /\ n \in Nat /\ n > 0 /\ taken' = taken + n
  BY <1>1, Searched DEF TypeOK, Waiting
<1>3. a \in 1 .. Len(messages)
  <2>1. NextStart < Streamed  BY <1>1, <1>2
  <2> QED  BY <1>1, <2>1, NextStarts
<1>4. DOMAIN messages = 1 .. Len(messages)  BY <1>1 DEF StreamInv
<1>5. /\ messages[a].from = base /\ taken < HeadEnd(messages[a])
      /\ HeadEnd(messages[a]) \in Nat /\ base + 4 <= HeadEnd(messages[a])
  BY <1>1, <1>3, NextStarts, MessageAt
<1>6. HeadEnd(messages[a]) <= taken + n => a \in ends
  <2>1. ScanStart <= HeadEnd(messages[a]) - 4  BY <1>2, <1>5 DEF ScanStart
  <2> QED  BY <1>3, <1>4, <2>1 DEF Seen
<1>7. CASE ends = {}
  <2>1. taken' < HeadEnd(messages[a])  BY <1>2, <1>5, <1>6, <1>7
  <2> QED  BY <1>1, <1>3, <1>7, <2>1
<1>8. CASE ends # {}
  <2>1. /\ found' \in 1 .. Len(messages) /\ HeadEnd(messages[found']) <= taken + n
        /\ base + 4 <= HeadEnd(messages[found'])
        /\ \A j \in ends : found' <= j
    BY <1>2, <1>8, Searched
  <2>2. HeadEnd(messages[found']) \in Nat  BY <1>1, <2>1, MessageAt
  <2>3. ~ (found' < a)
    <3> SUFFICES ASSUME found' < a PROVE FALSE  OBVIOUS
    <3>1. End(messages[found']) <= messages[a].from
      BY <1>1, <1>3, <2>1 DEF StreamInv
    <3>2. /\ End(messages[found']) \in Nat
          /\ HeadEnd(messages[found']) <= End(messages[found'])
      BY <1>1, <2>1, MessageAt
    <3> QED  BY <1>2, <1>5, <2>1, <2>2, <3>1, <3>2
  <2>4. ~ (found' > a)
    <3> SUFFICES ASSUME found' > a PROVE FALSE  OBVIOUS
    <3>1. HeadEnd(messages[a]) + 4 <= HeadEnd(messages[found'])
      BY <1>1, <1>3, <2>1, HeadsInOrder
    <3>2. HeadEnd(messages[a]) <= taken + n  BY <1>2, <1>5, <2>1, <2>2, <3>1
    <3>3. found' <= a  BY <1>6, <2>1, <3>2
    <3> QED  BY <1>3, <2>1, <3>3
  <2>5. found' = a  BY <1>3, <2>1, <2>3, <2>4
  <2> QED  BY <1>1, <1>3, <1>8, <2>5
<1> QED  BY <1>7, <1>8

\* Both sides are in step.
InOrder ==
  /\ base = NextStart
  /\ phase = "headers" /\ answered < Len(messages) =>
       taken < HeadEnd(messages[answered + 1])
  /\ Received => found = answered + 1
  /\ phase \in {"binary", "file", "have"} =>
       taken = HeadEnd(messages[found]) + held
  /\ phase \in {"binary", "file"} => length = messages[found].body
  /\ phase = "have" =>
       /\ size = messages[found].body
       /\ held = size \/ (hungUp /\ taken = sent)

LEMMA OrderClient == ASSUME RInv, ClientNext PROVE OrderInv'
<1>1. /\ TypeOK /\ StreamInv /\ CountInv /\ Len(messages) \in Nat
      /\ answered \in 0 .. Len(messages) /\ found \in 0 .. Len(messages)
      /\ Streamed \in Nat /\ taken \in Nat /\ sent \in Nat /\ taken <= sent
  BY StreamLength, EndsInStream DEF RInv, TypeOK
<1>2. /\ UNCHANGED <<taken, base, phase, found, length, size, ptr, held,
                     answered, slip, fault>>
      /\ Len(messages') \in Nat /\ Len(messages) <= Len(messages')
      /\ \A k \in 1 .. Len(messages) : messages'[k] = messages[k]
      /\ hungUp => hungUp' /\ sent' = sent
      /\ Len(messages') # Len(messages) => sent = Streamed
  BY ClientFrame DEF bodyVars
<1> SUFFICES ASSUME ~slip PROVE OrderInv'  BY <1>2 DEF OrderInv
<1>3. CASE hungUp /\ taken = sent /\ phase \in {"headers", "closed"}
  BY <1>2, <1>3 DEF OrderInv
<1>4. CASE InOrder
  <2>1. NextStart' = NextStart
    BY <1>1, <1>2 DEF NextStart, End
  <2>2. ASSUME Received
        PROVE  /\ messages'[found] = messages[found]
               /\ HeadEnd(messages'[found]) = HeadEnd(messages[found])
    <3>1. found \in 1 .. Len(messages)  BY <1>1, <2>2 DEF CountInv
    <3> QED  BY <1>2, <3>1
  <2>3. ASSUME phase = "headers", answered < Len(messages')
        PROVE  taken < HeadEnd(messages'[answered + 1])
    <3>1. CASE answered < Len(messages)
      <4>1. answered + 1 \in 1 .. Len(messages)  BY <1>1, <3>1
      <4>2. messages'[answered + 1] = messages[answered + 1]  BY <1>2, <4>1
      <4> QED  BY <1>4, <2>3, <3>1, <4>2 DEF InOrder
    <3>2. CASE answered >= Len(messages)
      <4>1. answered = Len(messages) /\ Len(messages') # Len(messages)
        BY <1>1, <2>3, <3>2
      <4>2. taken <= Streamed  BY <1>1 DEF TypeOK
      <4>3. PICK head \in HeadSizes, body \in BodySizes, expect \in BOOLEAN :
              ClientBegin(head, body, expect)
        BY <4>1 DEF ClientNext, ClientSend, ClientHangUp
      <4>4. messages'[answered + 1] = [from |-> Streamed, head |-> head,
                                       body |-> body, expect |-> expect]
        BY <1>1, <4>1, <4>3, Begins
      <4>5. HeadEnd(messages'[answered + 1]) = Streamed + head  BY <4>4 DEF HeadEnd
      <4>6. head \in Nat /\ head >= 4  BY RecvAssumption
      <4> QED  BY <1>1, <4>2, <4>5, <4>6
    <3> QED  BY <1>1, <3>1, <3>2
  <2>4. Received' <=> Received  BY <1>2 DEF Received
  <2>5. ASSUME phase \in {"binary", "file", "have"} PROVE Received
    BY <2>5 DEF Received
  <2>6. InOrder'
    <3>1. base' = NextStart'  BY <1>2, <1>4, <2>1 DEF InOrder
    <3>2. phase' = "headers" /\ answered' < Len(messages') =>
            taken' < HeadEnd(messages'[answered' + 1])
      BY <1>2, <2>3
    <3>3. Received' => found' = answered' + 1  BY <1>2, <1>4, <2>4 DEF InOrder
    <3>4. phase' \in {"binary", "file", "have"} =>
            taken' = HeadEnd(messages'[found']) + held'
      BY <1>2, <1>4, <2>2, <2>5 DEF InOrder
    <3>5. phase' \in {"binary", "file"} => length' = messages'[found'].body
      BY <1>2, <1>4, <2>2, <2>5 DEF InOrder
    <3>6. phase' = "have" =>
            /\ size' = messages'[found'].body
            /\ held' = size' \/ (hungUp' /\ taken' = sent')
      BY <1>2, <1>4, <2>2, <2>5 DEF InOrder
    <3> QED  BY <3>1, <3>2, <3>3, <3>4, <3>5, <3>6 DEF InOrder, HeadEnd
  <2> QED  BY <2>6 DEF OrderInv, InOrder
<1> QED  BY <1>3, <1>4 DEF RInv, OrderInv, InOrder

LEMMA OrderServer == ASSUME RInv, ServerNext PROVE OrderInv'
<1>1. /\ TypeOK /\ StreamInv /\ CountInv /\ BufferInv /\ OrderInv
      /\ Len(messages) \in Nat
      /\ answered \in 0 .. Len(messages) /\ found \in 0 .. Len(messages)
      /\ taken \in Nat /\ base \in Nat /\ sent \in Nat /\ taken <= sent
      /\ size \in Nat /\ length \in Nat /\ held \in Nat
      /\ hungUp \in BOOLEAN /\ slip \in BOOLEAN
  BY StreamLength, EndsInStream DEF RInv, TypeOK
<1>2. UNCHANGED <<messages, sent, hungUp>>  BY ServerFrame DEF clientVars
<1>3. slip => slip'
  BY <1>1 DEF ServerNext, RecvHeaders, RecvTiny, RecvBody, RecvHeadersFails, Parse,
     ParseFails, RecvBodyStops, CopyFaults, Handle, BodyAbsent, BodyThere, BodyToFile,
     BodyNoFile, BodyToBuffer, bodyVars
<1> SUFFICES ASSUME ~slip' PROVE OrderInv'  BY DEF OrderInv
<1>4. ~slip  BY <1>3
<1>5. \/ hungUp /\ taken = sent /\ phase \in {"headers", "closed"}
      \/ InOrder
  BY <1>1, <1>4 DEF OrderInv, InOrder
<1>6. ASSUME InOrder' PROVE OrderInv'  BY <1>6 DEF OrderInv, InOrder
<1>7. CASE hungUp /\ taken = sent /\ phase \in {"headers", "closed"}
  <2>1. Waiting = 0  BY <1>1, <1>7 DEF Waiting
  <2>2. RecvHeadersFails
    <3>1. 1 .. Waiting = {}  BY <2>1
    <3>2. ~ Parse /\ ~ ParseFails /\ ~ RecvBodyStops /\ ~ CopyFaults /\ ~ Handle
      BY <1>7 DEF Parse, ParseFails, RecvBodyStops, CopyFaults, Handle
    <3> QED  BY <3>1, <3>2 DEF ServerNext
  <2> QED  BY <1>2, <1>7, <2>2 DEF RecvHeadersFails, OrderInv
<1>8. CASE InOrder
  <2>1. ASSUME answered' = answered PROVE NextStart' = NextStart
    BY <1>2, <2>1 DEF NextStart, End
  <2>0. ASSUME UNCHANGED <<base, answered, found>>, found = answered + 1,
               phase' \in {"binary", "file", "have"},
               taken' = HeadEnd(messages[found]) + held',
               phase' \in {"binary", "file"} => length' = messages[found].body,
               phase' = "have" =>
                 /\ size' = messages[found].body
                 /\ held' = size' \/ (hungUp /\ taken' = sent)
        PROVE  InOrder'
    <3>1. base' = NextStart'  BY <1>8, <2>0, <2>1 DEF InOrder
    <3>2. phase' # "headers"  BY <2>0
    <3>3. found' = answered' + 1  BY <2>0
    <3> QED  BY <1>2, <2>0, <3>1, <3>2, <3>3 DEF InOrder, HeadEnd
  <2>2. ASSUME NEW n \in 1 .. Waiting, RecvHeaders(n) PROVE InOrder'
    <3>1. /\ phase = "headers" /\ UNCHANGED <<base, answered, held, length>>
          /\ \/ Seen(ScanStart, taken + n) = {} /\ UNCHANGED <<phase, found, size>>
             \/ Seen(ScanStart, taken + n) # {} /\ phase' = "parse"
      BY <2>2, Searched DEF RecvHeaders
    <3>2. /\ Seen(ScanStart, taken + n) = {} => taken' < HeadEnd(messages[answered + 1])
          /\ Seen(ScanStart, taken + n) # {} => found' = answered + 1
      BY <1>8, <2>2, <3>1, NextFound DEF InOrder
    <3> QED  BY <1>2, <1>8, <2>1, <3>1, <3>2 DEF InOrder, Received, HeadEnd
  <2>3. ASSUME NEW n \in 1 .. Waiting, RecvTiny(n) PROVE InOrder'
    <3>1. /\ phase = "headers" /\ taken = base /\ n <= 2 /\ taken' = taken + n
          /\ UNCHANGED <<base, phase, found, answered>>
      BY <2>3 DEF RecvTiny
    <3>2. n \in Nat  BY <1>1 DEF Waiting
    <3>3. ASSUME answered < Len(messages)
          PROVE  taken' < HeadEnd(messages[answered + 1])
      <4>1. answered + 1 \in 1 .. Len(messages)  BY <1>1, <3>3
      <4>2. messages[answered + 1].from = base
        BY <1>1, <1>8, <3>3, NextStarts DEF InOrder
      <4>3. /\ base + 4 <= HeadEnd(messages[answered + 1])
            /\ HeadEnd(messages[answered + 1]) \in Nat
        BY <1>1, <4>1, <4>2, MessageAt
      <4> QED  BY <1>1, <3>1, <3>2, <4>3
    <3> QED  BY <1>2, <1>8, <2>1, <3>1, <3>3 DEF InOrder, Received, HeadEnd
  <2>4. ASSUME NEW n \in 1 .. Waiting, RecvBody(n) PROVE InOrder'
    <3>1. n \in Nat  BY <1>1 DEF Waiting
    <3>2. /\ phase \in {"binary", "file"} /\ taken' = taken + n /\ held' = held + n
          /\ UNCHANGED <<base, found, length, answered>>
          /\ \/ UNCHANGED phase
             \/ held + n = length /\ phase' = "have" /\ size' = length
      BY <2>4 DEF RecvBody
    <3>3. found \in 1 .. Len(messages)
      BY <1>1, <3>2 DEF CountInv, Received
    <3>4. HeadEnd(messages[found]) \in Nat  BY <1>1, <3>3, MessageAt
    <3>5. taken' = HeadEnd(messages[found]) + held'
      BY <1>1, <1>8, <3>1, <3>2, <3>4 DEF InOrder
    <3> QED  BY <1>2, <1>8, <2>1, <3>2, <3>5 DEF InOrder, Received, HeadEnd
  <2>5. CASE RecvHeadersFails \/ ParseFails \/ CopyFaults
    <3>1. phase' \in {"closed", "crashed"} /\ UNCHANGED <<base, answered>>
      BY <2>5 DEF RecvHeadersFails, ParseFails, CopyFaults
    <3> QED  BY <1>6, <1>8, <2>1, <3>1 DEF InOrder, Received
  <2>6. CASE Parse
    <3>1. /\ phase = "parse" /\ found \in 1 .. Len(messages)
          /\ UNCHANGED <<taken, base, found, answered>> /\ length' \in Nat
          /\ (InStep => length' = messages[found].body)
          /\ \/ BodyAbsent(length') \/ BodyThere(length') \/ BodyToFile(length')
             \/ BodyNoFile(length') \/ BodyToBuffer(length')
      BY <2>6, Parses
    <3>2. found = answered + 1  BY <1>8, <3>1 DEF InOrder, Received
    <3>3. messages[found].from = NextStart
      BY <1>1, <3>1, <3>2, NextStarts
    <3>4. length' = messages[found].body
      BY <1>8, <3>1, <3>3 DEF InStep, InOrder
    <3>5. /\ HeadEnd(messages[found]) \in Nat
          /\ size = taken - HeadEnd(messages[found])
      BY <1>1, <3>1, MessageAt DEF BufferInv
    <3>6. taken = HeadEnd(messages[found]) + size  BY <1>1, <3>5
    <3>7. CASE BodyAbsent(length')
      <4>1. length' = 0 /\ phase' = "have" /\ held' = size /\ size' = size
        BY <3>7 DEF BodyAbsent
      <4>2. ~ Dropped(0)  BY <3>7 DEF BodyAbsent
      <4>3. size = 0  BY <1>1, <4>2 DEF Dropped
      <4> QED  BY <1>6, <2>0, <3>1, <3>2, <3>4, <3>6, <4>1, <4>3
    <3>8. CASE BodyThere(length')
      <4>1. phase' = "have" /\ size' = length' /\ held' = length' /\ size >= length'
        BY <3>8 DEF BodyThere
      <4>2. ~ Dropped(length')  BY <3>8 DEF BodyThere
      <4>3. size = length'  BY <1>1, <3>1, <4>1, <4>2 DEF Dropped
      <4> QED  BY <1>6, <2>0, <3>1, <3>2, <3>4, <3>6, <4>1, <4>3
    <3>9. CASE BodyToFile(length') \/ BodyToBuffer(length')
      <4>1. phase' \in {"file", "binary"} /\ held' = size
        BY <3>9 DEF BodyToFile, BodyToBuffer
      <4> QED  BY <1>6, <2>0, <3>1, <3>2, <3>4, <3>6, <4>1
    <3>10. ~ BodyNoFile(length')  BY DEF BodyNoFile
    <3> QED  BY <3>1, <3>7, <3>8, <3>9, <3>10
  <2>7. CASE RecvBodyStops
    <3>1. /\ phase \in {"binary", "file"} /\ phase' = "have" /\ size' = length
          /\ hungUp /\ Waiting = 0
          /\ UNCHANGED <<taken, base, found, length, held, answered>>
      BY <1>1, <1>4, <2>7 DEF RecvBodyStops, Nothing
    <3>2. taken = sent  BY <1>1, <3>1 DEF Waiting
    <3>3. /\ found = answered + 1 /\ length = messages[found].body
          /\ taken = HeadEnd(messages[found]) + held
      BY <1>8, <3>1 DEF InOrder, Received
    <3> QED  BY <1>6, <2>0, <3>1, <3>2, <3>3
  <2>8. CASE Handle
    <3>1. /\ phase = "have" /\ phase' \in {"headers", "closed"}
          /\ answered' = answered + 1 /\ base' = taken /\ taken' = taken
      BY <2>8 DEF Handle
    <3>2. CASE hungUp /\ taken = sent
      BY <1>2, <3>1, <3>2 DEF OrderInv
    <3>3. CASE held = size
      <4>1. /\ found = answered + 1 /\ size = messages[found].body
            /\ taken = HeadEnd(messages[found]) + held
        BY <1>8, <3>1 DEF InOrder, Received
      <4>2. taken = End(messages[answered + 1])
        BY <3>3, <4>1 DEF HeadEnd, End
      <4>3. base' = NextStart'
        BY <1>1, <1>2, <3>1, <4>2 DEF NextStart, End
      <4>4. ASSUME answered' < Len(messages)
            PROVE  taken' < HeadEnd(messages[answered' + 1])
        <5>1. /\ answered + 1 \in 1 .. Len(messages) - 1
              /\ answered + 2 \in 1 .. Len(messages)
              /\ answered' + 1 = answered + 2
          BY <1>1, <3>1, <4>4
        <5>2. messages[answered + 2].from = taken
          <6>1. messages[answered + 1 + 1].from = End(messages[answered + 1])
            BY <1>1, <5>1 DEF StreamInv
          <6>2. answered + 1 + 1 = answered + 2  BY <1>1
          <6> QED  BY <4>2, <6>1, <6>2
        <5>3. /\ taken + 4 <= HeadEnd(messages[answered + 2])
              /\ HeadEnd(messages[answered + 2]) \in Nat
          BY <1>1, <5>1, <5>2, MessageAt
        <5> QED  BY <1>1, <3>1, <5>1, <5>3
      <4>5. InOrder'
        BY <1>2, <3>1, <4>3, <4>4 DEF InOrder, Received, HeadEnd
      <4> QED  BY <1>6, <4>5
    <3> QED  BY <1>8, <3>1, <3>2, <3>3 DEF InOrder
  <2> QED
    BY <1>6, <2>2, <2>3, <2>4, <2>5, <2>6, <2>7, <2>8 DEF ServerNext
<1> QED  BY <1>5, <1>7, <1>8

-----------------------------------------------------------------------------
(* The invariant and what follows from it *)

LEMMA RecvInit == Init => RInv
<1> SUFFICES ASSUME Init PROVE RInv  OBVIOUS
<1> USE DEF Init
<1>1. Len(messages) = 0 /\ DOMAIN messages = {} /\ Streamed = 0
  BY DEF Streamed
<1>2. TypeOK
  <2>1. /\ \A k \in DOMAIN messages :
             messages[k] \in [from : Nat, head : HeadSizes, body : BodySizes,
                              expect : BOOLEAN]
        /\ Len(messages) <= MaxMessages
    BY <1>1, RecvAssumption
  <2>2. sent \in 0 .. Streamed /\ taken \in 0 .. sent /\ base \in 0 .. taken
    BY <1>1
  <2>3. /\ continued \in 0 .. Len(messages) /\ answered \in 0 .. Len(messages)
        /\ found \in 0 .. Len(messages)
    BY <1>1
  <2>4. phase \in Phases /\ ptr \in {"null", "header", "body"}  BY DEF Phases
  <2> QED  BY <2>1, <2>2, <2>3, <2>4 DEF TypeOK
<1>3. StreamInv  BY <1>1, RecvAssumption DEF StreamInv
<1>4. CountInv  BY DEF CountInv, Received
<1>5. BufferInv
  BY RecvAssumption DEF BufferInv, BuffersSuffice
<1>6. OrderInv  BY <1>1 DEF OrderInv, NextStart, Received
<1> QED  BY <1>2, <1>3, <1>4, <1>5, <1>6 DEF RInv

LEMMA RecvStutter == RInv /\ UNCHANGED vars => RInv'
BY DEF RInv, vars, TypeOK, StreamInv, CountInv, BufferInv, OrderInv, Streamed,
   Received, BuffersSuffice, NextStart, HeadEnd, End

THEOREM RecvInvariance == Spec => []RInv
<1>1. RInv /\ Next => RInv'
  <2> SUFFICES ASSUME RInv, Next PROVE RInv'  OBVIOUS
  <2>1. OrderInv'  BY OrderClient, OrderServer DEF Next
  <2> QED  BY <2>1, StreamStep, TypeStep, CountStep, BufferStep DEF RInv
<1> QED  BY <1>1, RecvInit, RecvStutter, PTL DEF Spec

\* The types of http_recv_request's variables and of the stream.
THEOREM RecvTypeCorrect == Spec => []TypeOK
<1>1. RInv => TypeOK  BY DEF RInv
<1> QED  BY <1>1, RecvInvariance, PTL

\* The requests handed on are the messages of the client, in their order and
\* with all of their bytes (http_recv_headers, http_recv_body).
THEOREM FramedHolds == Spec => []Framed
<1>1. RInv => Framed
  <2> SUFFICES ASSUME RInv, phase = "have", ~slip PROVE Framed  BY DEF Framed
  <2>1. InOrder  BY DEF RInv, OrderInv, InOrder
  <2> DEFINE m == messages[answered + 1]
  <2>2. found = answered + 1 /\ base = NextStart  BY <2>1 DEF InOrder, Received
  <2>3. size = m.body /\ (held = size \/ hungUp) /\ taken = HeadEnd(m) + held
    BY <2>1, <2>2 DEF InOrder
  <2>4. answered + 1 \in 1 .. Len(messages)
    BY <2>2, StreamLength DEF RInv, TypeOK, CountInv, Received
  <2>5. m.from = NextStart
    BY <2>4, NextStarts, StreamLength DEF RInv, TypeOK
  <2>6. held = m.body => taken = End(m)  BY <2>3 DEF HeadEnd, End
  <2>7. held = m.body \/ hungUp  BY <2>3
  <2> HIDE DEF m
  <2>8. base = m.from /\ size = m.body  BY <2>2, <2>3, <2>5
  <2> QED  BY <2>2, <2>6, <2>7, <2>8 DEF Framed, m
<1> QED  BY <1>1, RecvInvariance, PTL

\* The header with what came along fits into headerbuf, a body that is not
\* redirected to a file into bodybuf (http_recv_headers, http_recv_body).
THEOREM BuffersSufficeHolds == Spec => []BuffersSuffice
<1>1. RInv => BuffersSuffice  BY DEF RInv, BufferInv
<1> QED  BY <1>1, RecvInvariance, PTL

\* A body is handed on where its bytes are, or as a size without a ptr if it is in
\* a file (http_recv_body, http_recv_binary, http_recv_file).
THEOREM BodyInMemoryHolds == Spec => BodyInMemory
<1> DEFINE A == phase # "have" /\ phase' = "have" =>
                  IF phase = "file" THEN size' > 0 /\ ptr' = "null"
                  ELSE \/ size' = 0
                       \/ /\ phase = "parse" /\ ptr' = "header"
                          /\ size' <= taken - HeadEnd(messages[found])
                       \/ ptr' = "body" /\ size' <= BufferSize
<1>1. RInv /\ [Next]_vars => [A]_vars
  <2> SUFFICES ASSUME RInv, Next, phase # "have", phase' = "have" PROVE A  BY DEF vars
  <2>1. /\ TypeOK /\ BufferInv  BY DEF RInv
  <2>2. /\ size \in Nat /\ length \in Nat /\ taken \in Int /\ BufferSize \in Nat \ {0}
    BY <2>1, EndsInStream, RecvAssumption DEF TypeOK, RInv
  <2>3. CASE ClientNext  BY <2>3, ClientFrame
  <2>4. CASE Parse
    <3>1. /\ phase = "parse" /\ length' \in Nat
          /\ \/ BodyAbsent(length') \/ BodyThere(length') \/ BodyToFile(length')
             \/ BodyNoFile(length') \/ BodyToBuffer(length')
      BY <2>4, Parses
    <3>2. /\ size = taken - HeadEnd(messages[found])
          /\ ptr = IF size = 0 THEN "null" ELSE "header"
      BY <2>1, <3>1 DEF BufferInv
    <3>3. size' <= size /\ size' \in Nat /\ (size' = 0 \/ size # 0) /\ ptr' = ptr
      BY <2>2, <3>1 DEF BodyAbsent, BodyThere, BodyToFile, BodyNoFile, BodyToBuffer
    <3> QED  BY <2>2, <3>1, <3>2, <3>3
  <2>5. CASE RecvBodyStops \/ \E n \in 1 .. Waiting : RecvBody(n)
    <3>1. /\ phase \in {"binary", "file"} /\ size' = length /\ ptr' = ptr
      BY <2>5 DEF RecvBodyStops, RecvBody
    <3>2. phase = "binary" => ptr = "body" /\ length <= BufferSize
      BY <2>1 DEF BufferInv, BuffersSuffice
    <3>3. phase = "file" => ptr = "null" /\ length > 0
      BY <2>1, <2>2 DEF BufferInv, GoesToFile
    <3> QED  BY <3>1, <3>2, <3>3
  <2>6. CASE \/ \E n \in 1 .. Waiting : RecvHeaders(n) \/ RecvTiny(n)
             \/ RecvHeadersFails \/ ParseFails \/ CopyFaults \/ Handle
    <3>1. \A n \in 1 .. Waiting : RecvHeaders(n) => phase' # "have"
      BY DEF RecvHeaders
    <3>2. \A n \in 1 .. Waiting : RecvTiny(n) => phase' # "have"
      BY DEF RecvTiny
    <3> QED
      BY <2>6, <3>1, <3>2 DEF RecvHeadersFails, ParseFails, CopyFaults, Handle
  <2> QED  BY <2>3, <2>4, <2>5, <2>6 DEF Next, ServerNext
<1> QED  BY <1>1, RecvInvariance, PTL DEF Spec, BodyInMemory

===============================================================================
