---------------------------- MODULE HttpSendProofs ----------------------------
(***************************************************************************)
(* What a peer gets, what the sender reports and what the head announces,  *)
(* for blocks, heads, bodies and kernel buffers of every size.             *)
(***************************************************************************)
EXTENDS HttpSend, SequenceTheorems, TLAPS

TypeOK ==
  /\ kind \in Kinds /\ status \in Statuses /\ blocking \in BOOLEAN
  /\ pc \in {"start", "send", "wait", "next", "done"}
  /\ body \in Nat /\ from \in Nat /\ len \in Nat /\ put \in Nat /\ sent \in Int
  /\ eof \in BOOLEAN /\ cut \in BOOLEAN /\ changed \in BOOLEAN
  /\ wire \in Seq(Nat) /\ held \in Int

\* The last byte of the message that may be on the wire.
Reach == IF pc \in {"send", "wait"} THEN from + put ELSE from + len

\* Where the wire ends relative to the block that is being sent.
WireInv ==
  /\ \A i \in 1 .. Len(wire) : wire[i] <= Reach
  /\ Ascending(wire)
  /\ ~cut => Len(wire) = Reach
  /\ blocking \/ ~cut => Prefix(wire)
  /\ blocking /\ cut => peer = "gone"
  /\ put <= len
  /\ pc # "send" \/ ~blocking => put = 0
  /\ pc = "wait" => ~blocking

\* Nothing is sent of a message that is refused, or has not been begun.
BeginInv ==
  /\ pc = "start" => /\ from = 0 /\ len = 0 /\ sent = 0 /\ eof = FALSE
                     /\ wire = <<>> /\ ~cut /\ ~changed
  /\ Refused => /\ pc \in {"start", "done"} /\ wire = <<>>
                /\ pc = "done" => sent = -1

\* The count and the place of the block, once the message has been begun.
CountInv ==
  pc # "start" /\ ~Refused =>
    /\ sent \in Nat
    /\ kind = "file" => sent + put = Len(wire)
    /\ kind # "file" => sent + put >= Len(wire)
    /\ ~changed => /\ from + len <= HeadSize + body
                   /\ eof \/ pc = "done" => from + len = HeadSize + body
                   /\ declared = body \/ (body = 0 /\ kind # "file")

SInv == TypeOK /\ WireInv /\ BeginInv /\ CountInv

-----------------------------------------------------------------------------

LEMMA MinOfTwo ==
  ASSUME NEW a \in Int, NEW b \in Int
  PROVE  Min({a, b}) \in {a, b} /\ Min({a, b}) <= a /\ Min({a, b}) <= b
<1>1. \E x \in {a, b} : \A y \in {a, b} : x =< y
  <2>1. CASE a <= b  BY <2>1
  <2>2. CASE ~(a <= b)  BY <2>2
  <2> QED  BY <2>1, <2>2
<1> QED  BY <1>1 DEF Min

LEMMA Extended ==
  ASSUME NEW w \in Seq(Nat), NEW b \in Nat, NEW n \in Nat,
         NEW v, v = w \o [i \in 1 .. n |-> b + i]
  PROVE  /\ v \in Seq(Nat) /\ Len(v) = Len(w) + n
         /\ \A i \in 1 .. Len(w) : v[i] = w[i]
         /\ \A i \in Len(w) + 1 .. Len(w) + n : v[i] = b + (i - Len(w))
<1> DEFINE more == [i \in 1 .. n |-> b + i]
<1>1. more \in Seq(Nat) /\ Len(more) = n  OBVIOUS
<1>2. \A i \in 1 .. n : more[i] = b + i  OBVIOUS
<1> HIDE DEF more
<1>3. /\ w \o more \in Seq(Nat) /\ Len(w \o more) = Len(w) + Len(more)
      /\ \A i \in 1 .. Len(w) + Len(more) :
           (w \o more)[i] = IF i <= Len(w) THEN w[i] ELSE more[i - Len(w)]
  BY <1>1, ConcatProperties
<1>4. v = w \o more  BY DEF more
<1> QED  BY <1>1, <1>2, <1>3, <1>4

\* What the wire holds after the kernel has taken n bytes more.
LEMMA TakeWire ==
  ASSUME TypeOK, WireInv, pc = "send", NEW n \in Nat, Take(n)
  PROVE  /\ wire' \in Seq(Nat) /\ Len(wire') = Len(wire) + n
         /\ \A i \in 1 .. Len(wire') : wire'[i] <= from + put + n
         /\ Ascending(wire')
         /\ Prefix(wire) /\ Len(wire) = from + put => Prefix(wire')
         /\ held' \in Int
<1>1. from + put \in Nat /\ wire \in Seq(Nat) /\ held \in Int  BY DEF TypeOK
<1>2. wire' = wire \o [i \in 1 .. n |-> from + put + i]  BY DEF Take
<1> DEFINE b == from + put
<1>3. /\ wire' \in Seq(Nat) /\ Len(wire') = Len(wire) + n
      /\ \A i \in 1 .. Len(wire) : wire'[i] = wire[i]
      /\ \A i \in Len(wire) + 1 .. Len(wire) + n : wire'[i] = b + (i - Len(wire))
  BY <1>1, <1>2, Extended
<1>4. Len(wire) \in Nat /\ \A i \in 1 .. Len(wire) : wire[i] \in Nat
  BY <1>1
<1>5. \A i \in 1 .. Len(wire) : wire'[i] = wire[i] /\ wire[i] <= b
  BY <1>3 DEF WireInv, Reach
<1>6. \A i \in Len(wire) + 1 .. Len(wire) + n : wire'[i] = b + (i - Len(wire))
  BY <1>3
<1>0. b \in Nat  BY <1>1
<1> HIDE DEF b
<1>7. \A i \in 1 .. Len(wire') : wire'[i] <= b + n
  <2> TAKE i \in 1 .. Len(wire')
  <2>1. CASE i <= Len(wire)  BY <2>1, <1>0, <1>3, <1>4, <1>5
  <2>2. CASE i > Len(wire)   BY <2>2, <1>0, <1>3, <1>4, <1>6
  <2> QED  BY <2>1, <2>2, <1>3, <1>4
<1>8. Ascending(wire')
  <2> SUFFICES ASSUME NEW i \in 1 .. Len(wire') - 1 PROVE wire'[i] < wire'[i + 1]
    BY DEF Ascending
  <2>1. CASE i < Len(wire)  BY <2>1, <1>4, <1>5 DEF WireInv, Ascending
  <2>2. CASE i = Len(wire)
    <3>1. wire'[i] <= b  BY <2>2, <1>3, <1>4, <1>5
    <3>2. wire'[i + 1] = b + 1  BY <2>2, <1>3, <1>4, <1>6
    <3>3. wire'[i] \in Nat  BY <2>2, <1>3, <1>4
    <3> QED  BY <3>1, <3>2, <3>3, <1>0
  <2>3. CASE i > Len(wire)
    <3>1. wire'[i] = b + (i - Len(wire)) /\ wire'[i + 1] = b + (i + 1 - Len(wire))
      <4>1. i \in Len(wire) + 1 .. Len(wire) + n /\ i + 1 \in Len(wire) + 1 .. Len(wire) + n
        BY <2>3, <1>3, <1>4
      <4> QED  BY <4>1, <1>6
    <3> QED  BY <3>1, <1>0, <1>4
  <2> QED  BY <2>1, <2>2, <2>3, <1>3, <1>4
<1>9. ASSUME Prefix(wire), Len(wire) = b PROVE Prefix(wire')
  <2> SUFFICES ASSUME NEW i \in 1 .. Len(wire') PROVE wire'[i] = i
    BY <1>3 DEF Prefix
  <2>1. CASE i <= Len(wire)  BY <2>1, <1>4, <1>5, <1>9 DEF Prefix
  <2>2. CASE i > Len(wire)   BY <2>2, <1>3, <1>4, <1>6, <1>9
  <2> QED  BY <2>1, <2>2, <1>3, <1>4
<1>10. held' \in Int  BY <1>1 DEF Take
<1> QED  BY <1>3, <1>7, <1>8, <1>9, <1>10 DEF b

LEMMA CopyStep == ASSUME SInv, Copy PROVE SInv'
<1>1. PICK n \in 1 .. Min({Free, len - put}) : Take(n) /\ put' = put + n
  BY DEF Copy
<1>2. Min({Free, len - put}) <= len - put /\ Min({Free, len - put}) \in Int
  <2>1. Free \in Int /\ len - put \in Int
    BY SendAssumption DEF SInv, TypeOK, Free
  <2> QED  BY <2>1, MinOfTwo
<1>3. n \in Nat \ {0} /\ put + n <= len
  BY <1>2 DEF SInv, TypeOK
<1>4. /\ pc = "send" /\ blocking /\ peer # "gone" /\ ~Refused
      /\ UNCHANGED <<kind, status, blocking, body, declared, pc, from, len, sent, eof, peer,
                     cut, changed>>
  BY DEF Copy, SInv, BeginInv, message
<1>5. ~cut /\ Prefix(wire) /\ Len(wire) = from + put
  BY <1>4 DEF SInv, WireInv, Reach
<1>6. /\ wire' \in Seq(Nat) /\ Len(wire') = Len(wire) + n
      /\ \A i \in 1 .. Len(wire') : wire'[i] <= from + put + n
      /\ Ascending(wire') /\ Prefix(wire') /\ held' \in Int
  BY <1>1, <1>3, <1>4, <1>5, TakeWire DEF SInv
<1>7. TypeOK'  BY <1>1, <1>3, <1>4, <1>6 DEF SInv, TypeOK
<1>8. WireInv'
  <2>1. Reach' = from + put + n  BY <1>1, <1>4 DEF Reach, SInv, TypeOK
  <2> QED  BY <2>1, <1>1, <1>3, <1>4, <1>5, <1>6 DEF SInv, TypeOK, WireInv
<1>9. BeginInv'  BY <1>4 DEF SInv, BeginInv, Refused
<1>10. CountInv'
  <2>1. /\ sent \in Nat
        /\ kind = "file" => sent + put = Len(wire)
        /\ kind # "file" => sent + put >= Len(wire)
    BY <1>4 DEF SInv, CountInv
  <2>2. put \in Nat /\ n \in Nat /\ Len(wire) \in Nat  BY <1>3 DEF SInv, TypeOK
  <2>3. /\ kind = "file" => sent' + put' = Len(wire')
        /\ kind # "file" => sent' + put' >= Len(wire')
    <3>1. sent' = sent /\ put' = put + n /\ Len(wire') = Len(wire) + n
      BY <1>1, <1>4, <1>6
    <3> QED  BY <3>1, <2>1, <2>2
  <2> QED  BY <2>1, <2>3, <1>4 DEF SInv, CountInv, Refused
<1> QED  BY <1>7, <1>8, <1>9, <1>10 DEF SInv

\* A call of socket_send that returns, with the block on the wire or a part.
LEMMA ReturnStep ==
  ASSUME SInv, pc \in {"send", "wait"}, NEW n \in Nat, n <= len, Return(n),
         UNCHANGED <<kind, status, blocking, body, declared, from, len, eof, peer, changed>>,
         wire' \in Seq(Nat), held' \in Int, Ascending(wire'),
         \A i \in 1 .. Len(wire') : wire'[i] <= from + len,
         ~cut /\ n = len => Len(wire') = from + len,
         blocking \/ ~cut => Prefix(wire'),
         blocking /\ n < len => peer = "gone",
         kind = "file" => sent + n = Len(wire'),
         kind # "file" => sent + n >= Len(wire')
  PROVE  SInv'
<1>1. ~Refused  BY DEF SInv, BeginInv
<1>2. /\ pc' = "next" /\ put' = 0 /\ cut' = (cut \/ n < len)
      /\ sent' = sent + Counted(n)
  BY DEF Return
<1>3. len \in Nat /\ from \in Nat /\ body \in Nat  BY DEF SInv, TypeOK
<1>4. /\ sent \in Nat
      /\ ~changed => /\ from + len <= HeadSize + body
                     /\ eof => from + len = HeadSize + body
                     /\ declared = body \/ (body = 0 /\ kind # "file")
  BY <1>1 DEF SInv, CountInv
<1>5. /\ Counted(n) \in Nat /\ Counted(n) >= n
      /\ kind = "file" => Counted(n) = n
  BY <1>3 DEF Counted
<1>6. TypeOK'
  <2>1. sent' \in Int  BY <1>2, <1>4, <1>5
  <2>2. put' \in Nat /\ cut' \in BOOLEAN  BY <1>2
  <2> QED  BY <1>2, <2>1, <2>2 DEF SInv, TypeOK
<1>7. WireInv'
  <2>1. Reach' = from + len  BY <1>2 DEF Reach
  <2>2. ~cut' => ~cut /\ n = len
    <3>1. ~cut' => ~cut /\ ~(n < len)  BY <1>2, Zenon
    <3>2. ~(n < len) => n = len  BY <1>3
    <3> QED  BY <3>1, <3>2
  <2>3. blocking' /\ cut' => peer' = "gone"  BY <1>2 DEF SInv, WireInv
  <2> QED  BY <1>2, <1>3, <2>1, <2>2, <2>3 DEF WireInv, SInv
<1>8. BeginInv'  BY <1>1, <1>2 DEF BeginInv, Refused
<1>9. CountInv'
  <2>1. sent' \in Nat  BY <1>2, <1>4, <1>5
  <2>2. Len(wire') \in Nat  OBVIOUS
  <2>3. kind = "file" => sent' + put' = Len(wire')
    BY <1>2, <1>4, <1>5, <2>2
  <2>4. kind # "file" => sent' + put' >= Len(wire')
    BY <1>2, <1>4, <1>5, <2>2
  <2> QED  BY <1>2, <1>4, <2>1, <2>3, <2>4 DEF CountInv
<1> QED  BY <1>6, <1>7, <1>8, <1>9 DEF SInv

\* What holds of the wire while a message is being sent.
LEMMA Sending ==
  ASSUME SInv, pc \in {"send", "wait"}
  PROVE  /\ ~Refused
         /\ sent \in Nat /\ put \in Nat /\ len \in Nat /\ from \in Nat /\ put <= len
         /\ wire \in Seq(Nat) /\ Ascending(wire)
         /\ \A i \in 1 .. Len(wire) : wire[i] \in Nat /\ wire[i] <= from + put
         /\ ~cut => Len(wire) = from + put
         /\ kind = "file" => sent + put = Len(wire)
         /\ kind # "file" => sent + put >= Len(wire)
<1>1. ~Refused  BY DEF SInv, BeginInv
<1>2. Reach = from + put  BY DEF Reach
<1>3. \A i \in 1 .. Len(wire) : wire[i] \in Nat  BY DEF SInv, TypeOK
<1> QED  BY <1>1, <1>2, <1>3 DEF SInv, TypeOK, WireInv, CountInv

\* A call that puts nothing more: all is there, the time is over, or the peer
\* has gone.
LEMMA NothingMore ==
  ASSUME SInv, pc \in {"send", "wait"}, Return(put),
         UNCHANGED <<kind, status, blocking, body, declared, from, len, eof, network, changed>>,
         blocking /\ put < len => peer = "gone"
  PROVE  SInv'
<1>1. UNCHANGED <<wire, held, peer>>  BY DEF network
<1>2. \A i \in 1 .. Len(wire') : wire'[i] <= from + len
  <2> SUFFICES ASSUME NEW i \in 1 .. Len(wire) PROVE wire[i] <= from + len  BY <1>1
  <2> QED  BY Sending
<1>3. /\ wire' \in Seq(Nat) /\ Ascending(wire')
      /\ blocking \/ ~cut => Prefix(wire')
      /\ held' \in Int
  BY <1>1 DEF SInv, TypeOK, WireInv, Ascending, Prefix
<1>4. /\ put \in Nat /\ put <= len
      /\ ~cut /\ put = len => Len(wire') = from + len
  BY <1>1, Sending
<1>5. kind = "file" => sent + put = Len(wire')  BY <1>1, Sending
<1>6. kind # "file" => sent + put >= Len(wire')  BY <1>1, Sending
<1> QED  BY <1>1, <1>2, <1>3, <1>4, <1>5, <1>6, ReturnStep

LEMMA CopiedStep == ASSUME SInv, Copied PROVE SInv'
<1>1. Return(put) /\ pc = "send" /\ put = len  BY DEF Copied
<1>2. UNCHANGED <<kind, status, blocking, body, declared, from, len, eof, network, changed>>
  BY DEF Copied, message
<1>3. put \in Nat  BY DEF SInv, TypeOK
<1> QED  BY <1>1, <1>2, <1>3, NothingMore

LEMMA TimesOutStep == ASSUME SInv, TimesOut PROVE SInv'
<1>1. put = 0 /\ ~blocking  BY DEF SInv, WireInv, TimesOut
<1>2. Return(put) /\ pc = "wait"  BY <1>1 DEF TimesOut
<1>3. UNCHANGED <<kind, status, blocking, body, declared, from, len, eof, network, changed>>
  BY DEF TimesOut, message
<1> QED  BY <1>1, <1>2, <1>3, NothingMore

LEMMA BrokenStep == ASSUME SInv, Broken PROVE SInv'
<1>1. Return(put) /\ pc = "send" /\ peer = "gone"  BY DEF Broken
<1>2. UNCHANGED <<kind, status, blocking, body, declared, from, len, eof, network, changed>>
  BY DEF Broken, message
<1> QED  BY <1>1, <1>2, NothingMore

LEMMA TakePartStep == ASSUME SInv, TakePart PROVE SInv'
<1>1. PICK n \in 1 .. Min({Free, len}) : Take(n) /\ Return(n)
  BY DEF TakePart
<1>2. /\ pc = "send" /\ ~blocking
      /\ UNCHANGED <<kind, status, blocking, body, declared, from, len, eof, peer, changed>>
  BY DEF TakePart, message
<1>3. put = 0  BY <1>2 DEF SInv, WireInv
<1>4. Min({Free, len}) <= len /\ Min({Free, len}) \in Int
  <2>1. Free \in Int /\ len \in Int  BY SendAssumption DEF SInv, TypeOK, Free
  <2> QED  BY <2>1, MinOfTwo
<1>5. n \in Nat /\ n <= len  BY <1>4 DEF SInv, TypeOK
<1>6. /\ wire' \in Seq(Nat) /\ Len(wire') = Len(wire) + n
      /\ \A i \in 1 .. Len(wire') : wire'[i] <= from + put + n
      /\ Ascending(wire') /\ held' \in Int
      /\ Prefix(wire) /\ Len(wire) = from + put => Prefix(wire')
  BY <1>1, <1>2, <1>5, TakeWire DEF SInv
<1>7. /\ sent \in Nat /\ len \in Nat /\ from \in Nat /\ Len(wire) \in Nat
      /\ ~cut => Len(wire) = from
  BY <1>2, <1>3, Sending
<1>8. \A i \in 1 .. Len(wire') : wire'[i] <= from + len
  <2> SUFFICES ASSUME NEW i \in 1 .. Len(wire') PROVE wire'[i] <= from + len  OBVIOUS
  <2>1. wire'[i] <= from + n /\ wire'[i] \in Nat  BY <1>3, <1>6, <1>7
  <2> QED  BY <2>1, <1>5, <1>7
<1>9. blocking \/ ~cut => Prefix(wire')
  BY <1>2, <1>3, <1>6, <1>7 DEF SInv, WireInv
<1>10. ~cut /\ n = len => Len(wire') = from + len  BY <1>6, <1>7
<1>11. kind = "file" => sent + n = Len(wire')
  <2>1. kind = "file" => sent + 0 = Len(wire)  BY <1>2, <1>3, Sending
  <2>2. sent + 0 = Len(wire) => sent + n = Len(wire')
    <3>1. Len(wire') = Len(wire) + n  BY <1>6
    <3> QED  BY <3>1, <1>5, <1>7
  <2> QED  BY <2>1, <2>2, Zenon
<1>12. kind # "file" => sent + n >= Len(wire')
  <2>1. kind # "file" => sent + 0 >= Len(wire)  BY <1>2, <1>3, Sending
  <2>2. sent + 0 >= Len(wire) => sent + n >= Len(wire')  BY <1>5, <1>6, <1>7
  <2> QED  BY <2>1, <2>2, Zenon
<1> QED  BY <1>1, <1>2, <1>5, <1>6, <1>8, <1>9, <1>10, <1>11, <1>12, ReturnStep

-----------------------------------------------------------------------------
(* The other steps *)

LEMMA InitInv == Init => SInv
<1> SUFFICES ASSUME Init PROVE SInv  OBVIOUS
<1>1. TypeOK
  <2>1. body \in Nat  BY SendAssumption DEF Init
  <2>2. wire \in Seq(Nat) /\ held \in Int  BY DEF Init
  <2> QED  BY <2>1, <2>2 DEF Init, TypeOK
<1>2. WireInv
  <2>1. wire = <<>> /\ Len(wire) = 0  BY DEF Init
  <2> QED  BY <2>1 DEF Init, WireInv, Reach, Ascending, Prefix
<1>3. BeginInv  BY DEF Init, BeginInv
<1>4. CountInv  BY DEF Init, CountInv
<1> QED  BY <1>1, <1>2, <1>3, <1>4 DEF SInv

LEMMA RefuseStep == ASSUME SInv, Refuse PROVE SInv'
<1>1. /\ pc = "start" /\ Refused /\ pc' = "done" /\ sent' = -1
      /\ UNCHANGED <<kind, status, blocking, body, declared, from, len, put, eof, peer, held, wire,
                     cut, changed>>
  BY DEF Refuse, message, network
<1>2. put = 0 /\ from + put = from + len  BY <1>1 DEF SInv, WireInv, BeginInv
<1>3. TypeOK'  BY <1>1 DEF SInv, TypeOK
<1>4. WireInv'
  BY <1>1, <1>2 DEF SInv, WireInv, Reach, Ascending, Prefix
<1>5. BeginInv' /\ CountInv'
  BY <1>1 DEF SInv, BeginInv, CountInv, Refused
<1> QED  BY <1>3, <1>4, <1>5 DEF SInv

LEMMA StartStep == ASSUME SInv, Start PROVE SInv'
<1>1. /\ pc = "start" /\ ~Refused /\ pc' = "send" /\ from' = 0 /\ len' = HeadSize /\ put' = 0
      /\ body' = FilledBody /\ declared' = LengthOf(FilledBody)
      /\ UNCHANGED <<kind, status, blocking, sent, eof, peer, held, wire, cut, changed>>
  BY DEF Start, message, network
<1>2. /\ from = 0 /\ len = 0 /\ sent = 0 /\ eof = FALSE /\ wire = <<>> /\ ~cut /\ ~changed
  BY <1>1 DEF SInv, BeginInv
<1>3. FilledBody \in Nat  BY SendAssumption DEF FilledBody, SInv, TypeOK
<1>4. TypeOK'  BY <1>1, <1>3, SendAssumption DEF SInv, TypeOK
<1>5. WireInv'
  <2>1. Reach' = 0 /\ Len(wire') = 0  BY <1>1, <1>2 DEF Reach
  <2> QED  BY <2>1, <1>1, <1>2, SendAssumption DEF WireInv, Ascending, Prefix
<1>6. BeginInv'  BY <1>1 DEF BeginInv, Refused
<1>7. CountInv'
  <2>1. declared' = body' \/ (body' = 0 /\ kind' # "file")
    BY <1>1, <1>3 DEF LengthOf
  <2>2. from' + len' <= HeadSize + body'  BY <1>1, <1>3, SendAssumption
  <2>3. sent' = 0 /\ put' = 0 /\ Len(wire') = 0 /\ eof' = FALSE  BY <1>1, <1>2
  <2> QED  BY <2>1, <2>2, <2>3, <1>1 DEF CountInv
<1> QED  BY <1>4, <1>5, <1>6, <1>7 DEF SInv

LEMMA WaitStep == ASSUME SInv, Wait \/ Writable PROVE SInv'
<1>1. /\ pc \in {"send", "wait"} /\ pc' \in {"send", "wait"}
      /\ pc' = "wait" => ~blocking
      /\ UNCHANGED <<kind, status, blocking, body, declared, from, len, put, sent, eof, peer,
                     held, wire, cut, changed>>
  BY DEF Wait, WouldBlock, Writable, message, network
<1>2. put = 0 /\ ~blocking
  BY DEF Wait, WouldBlock, Writable, SInv, WireInv
<1>3. Reach' = Reach  BY <1>1 DEF Reach
<1>4. TypeOK'  BY <1>1 DEF SInv, TypeOK
<1>5. WireInv'  BY <1>1, <1>2, <1>3 DEF SInv, WireInv, Ascending, Prefix
<1>6. BeginInv'  BY <1>1 DEF SInv, BeginInv, Refused
<1>7. CountInv'  BY <1>1 DEF SInv, CountInv, Refused
<1> QED  BY <1>4, <1>5, <1>6, <1>7 DEF SInv

LEMMA NextBlockStep == ASSUME SInv, NextBlock PROVE SInv'
<1>1. /\ pc = "next" /\ pc' = "send" /\ Left > 0 /\ ~eof
      /\ from' = from + len /\ len' = Min({Block, Left})
      /\ eof' = (kind = "file" /\ Left < Block)
      /\ UNCHANGED <<kind, status, blocking, body, declared, put, sent, peer, held, wire, cut,
                     changed>>
  BY DEF NextBlock, NextFrom, message, network
<1>2. /\ put = 0 /\ ~Refused /\ from \in Nat /\ len \in Nat /\ body \in Nat
  BY <1>1 DEF SInv, TypeOK, WireInv, BeginInv
<1>3. /\ Left \in Nat /\ Left = HeadSize + body - (from + len)
  BY <1>1, <1>2, SendAssumption DEF Left
<1>4. /\ len' \in Nat /\ len' <= Left
      /\ Left < Block => len' = Left
  <2>1. /\ Min({Block, Left}) \in {Block, Left} /\ Min({Block, Left}) <= Block
        /\ Min({Block, Left}) <= Left
    BY <1>3, SendAssumption, MinOfTwo
  <2> QED  BY <2>1, <1>1, <1>3, SendAssumption
<1>5. TypeOK'
  <2>1. from' \in Nat /\ eof' \in BOOLEAN  BY <1>1, <1>2
  <2> QED  BY <2>1, <1>1, <1>4 DEF SInv, TypeOK
<1>6. WireInv'
  <2>1. Reach' = Reach  BY <1>1, <1>2 DEF Reach
  <2> QED  BY <2>1, <1>1, <1>2, <1>4 DEF SInv, WireInv, Ascending, Prefix
<1>7. BeginInv'  BY <1>1, <1>2 DEF BeginInv, Refused
<1>8. CountInv'
  <2>1. from' + len' <= HeadSize + body'
    BY <1>1, <1>2, <1>3, <1>4, SendAssumption
  <2>2. eof' => from' + len' = HeadSize + body'
    <3>1. eof' => Left < Block  BY <1>1, Zenon
    <3>2. Left < Block => from' + len' = HeadSize + body'
      BY <1>1, <1>2, <1>3, <1>4, SendAssumption
    <3> QED  BY <3>1, <3>2, Zenon
  <2> QED  BY <2>1, <2>2, <1>1, <1>2 DEF SInv, CountInv
<1> QED  BY <1>5, <1>6, <1>7, <1>8 DEF SInv

LEMMA FinishStep == ASSUME SInv, Finish PROVE SInv'
<1>1. /\ pc = "next" /\ pc' = "done" /\ (eof \/ Left <= 0)
      /\ UNCHANGED <<kind, status, blocking, body, declared, from, len, put, sent, eof, peer,
                     held, wire, cut, changed>>
  BY DEF Finish, message, network
<1>2. ~Refused /\ from \in Nat /\ len \in Nat /\ body \in Nat
  BY <1>1 DEF SInv, TypeOK, BeginInv
<1>3. TypeOK'  BY <1>1 DEF SInv, TypeOK
<1>4. WireInv'
  <2>1. Reach' = Reach  BY <1>1 DEF Reach
  <2> QED  BY <2>1, <1>1 DEF SInv, WireInv, Ascending, Prefix
<1>5. BeginInv'  BY <1>1, <1>2 DEF BeginInv, Refused
<1>6. CountInv'
  <2>1. ~changed => from + len = HeadSize + body
    <3>1. ~changed => /\ from + len <= HeadSize + body
                      /\ eof => from + len = HeadSize + body
      BY <1>1, <1>2 DEF SInv, CountInv
    <3>2. Left <= 0 => HeadSize + body <= from + len
      BY <1>2, SendAssumption DEF Left
    <3> QED  BY <3>1, <3>2, <1>1, <1>2, SendAssumption
  <2> QED  BY <2>1, <1>1, <1>2 DEF SInv, CountInv
<1> QED  BY <1>3, <1>4, <1>5, <1>6 DEF SInv

LEMMA PeerStep == ASSUME SInv, PeerReads \/ PeerStalls \/ PeerGoes PROVE SInv'
<1>1. /\ UNCHANGED <<kind, status, blocking, body, declared, pc, from, len, put, sent, eof, wire,
                     cut, changed>>
      /\ peer = "gone" => peer' = "gone"
  BY DEF PeerReads, PeerStalls, PeerGoes, message, sender
<1>2. held' \in Int
  BY DEF PeerReads, PeerStalls, PeerGoes, SInv, TypeOK
<1>3. TypeOK'  BY <1>1, <1>2 DEF SInv, TypeOK
<1>4. WireInv'
  <2>1. Reach' = Reach  BY <1>1 DEF Reach
  <2> QED  BY <2>1, <1>1 DEF SInv, WireInv, Ascending, Prefix
<1>5. BeginInv' /\ CountInv'  BY <1>1 DEF SInv, BeginInv, CountInv, Refused
<1> QED  BY <1>3, <1>4, <1>5 DEF SInv

LEMMA FileStep == ASSUME SInv, FileChanges PROVE SInv'
<1>1. /\ kind = "file" /\ pc \in {"send", "wait", "next"} /\ changed'
      /\ UNCHANGED <<kind, status, blocking, declared, pc, from, len, put, sent, eof, peer,
                     held, wire, cut>>
  BY DEF FileChanges, message, sender, network
<1>2. body' \in Nat /\ changed' \in BOOLEAN  BY SendAssumption DEF FileChanges
<1>3. TypeOK'  BY <1>1, <1>2 DEF SInv, TypeOK
<1>4. WireInv'
  <2>1. Reach' = Reach  BY <1>1 DEF Reach
  <2> QED  BY <2>1, <1>1 DEF SInv, WireInv, Ascending, Prefix
<1>5. BeginInv' /\ CountInv'
  BY <1>1 DEF SInv, BeginInv, CountInv, Refused
<1> QED  BY <1>3, <1>4, <1>5 DEF SInv

\* The inductive invariant, whatever the peer and the file do.
THEOREM SendInvariance == Spec => []SInv
<1>1. ASSUME SInv, [Next]_vars PROVE SInv'
  <2>1. CASE Next
    <3>1. CASE Sender
      BY <1>1, <3>1, RefuseStep, StartStep, CopyStep, CopiedStep, TakePartStep, WaitStep,
         TimesOutStep, BrokenStep, NextBlockStep, FinishStep DEF Sender
    <3> QED  BY <1>1, <2>1, <3>1, PeerStep, FileStep DEF Next
  <2>2. CASE UNCHANGED vars
    <3>1. UNCHANGED <<kind, status, blocking, body, declared, pc, from, len, put, sent, eof, peer,
                     held, wire, cut, changed>>
      BY <2>2 DEF vars, message, sender, network
    <3> QED
      BY <1>1, <3>1 DEF SInv, TypeOK, WireInv, BeginInv, CountInv, Reach, Refused, Ascending,
                        Prefix
  <2> QED  BY <1>1, <2>1, <2>2
<1> QED  BY <1>1, InitInv, PTL DEF Spec

\* The bytes come in order, without a gap on a socket that blocks, and all of
\* them to a peer that stays (socket_send, http_send_binary, http_send_file).
THEOREM InOrderHolds == Spec => []InOrder
<1>1. ASSUME SInv PROVE InOrder
  <2>1. Ascending(wire) /\ (blocking \/ ~cut => Prefix(wire))
    BY <1>1 DEF SInv, WireInv
  <2>2. ASSUME pc = "done", ~Refused, ~changed, blocking, peer # "gone"
        PROVE  Len(wire) = HeadSize + body
    <3>1. ~cut /\ Reach = from + len  BY <1>1, <2>2 DEF SInv, WireInv, Reach
    <3>2. from + len = HeadSize + body  BY <1>1, <2>2 DEF SInv, CountInv
    <3> QED  BY <1>1, <3>1, <3>2 DEF SInv, WireInv
  <2> QED  BY <2>1, <2>2 DEF InOrder
<1> QED  BY <1>1, SendInvariance, PTL

\* The count that http_send_request and http_send_response return covers the
\* bytes that were put.
THEOREM CountHolds == Spec => []CountCovers
<1>1. ASSUME SInv PROVE CountCovers
  <2> SUFFICES ASSUME pc = "done"
               PROVE  /\ (sent = -1) = Refused
                      /\ Refused => wire = <<>>
                      /\ kind = "file" => Refused \/ sent = Len(wire)
                      /\ kind # "file" => sent >= Len(wire) \/ Refused
    BY DEF CountCovers
  <2>1. CASE Refused  BY <1>1, <2>1 DEF SInv, BeginInv
  <2>2. CASE ~Refused
    <3>1. put = 0  BY <1>1 DEF SInv, WireInv
    <3>2. /\ sent \in Nat
          /\ kind = "file" => sent + put = Len(wire)
          /\ kind # "file" => sent + put >= Len(wire)
      BY <1>1, <2>2 DEF SInv, CountInv
    <3>3. sent # -1 /\ sent + put = sent  BY <3>1, <3>2
    <3>4. (sent = -1) = Refused  BY <2>2, <3>3 DEF Refused
    <3>5. kind = "file" => sent = Len(wire)  BY <3>2, <3>3
    <3>6. kind # "file" => sent >= Len(wire)  BY <3>2, <3>3
    <3> QED  BY <2>2, <3>4, <3>5, <3>6
  <2> QED  BY <2>1, <2>2
<1> QED  BY <1>1, SendInvariance, PTL

\* The head announces the length of the body that follows it (http_send_request,
\* http_send_response and _get_file_size).
THEOREM LengthHolds == Spec => []LengthTold
<1>1. ASSUME SInv PROVE LengthTold
  <2> SUFFICES ASSUME pc = "done", ~Refused, ~cut, ~changed
               PROVE  \/ declared = Len(wire) - HeadSize
                      \/ Len(wire) = HeadSize /\ kind # "file"
    BY DEF LengthTold
  <2>1. Len(wire) = from + len  BY <1>1 DEF SInv, WireInv, Reach
  <2>2. /\ from + len = HeadSize + body
        /\ declared = body \/ (body = 0 /\ kind # "file")
    BY <1>1 DEF SInv, CountInv
  <2>3. body \in Nat /\ HeadSize \in Nat  BY <1>1, SendAssumption DEF SInv, TypeOK
  <2> QED  BY <2>1, <2>2, <2>3
<1> QED  BY <1>1, SendInvariance, PTL
===============================================================================
