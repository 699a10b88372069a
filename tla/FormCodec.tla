------------------------------ MODULE FormCodec ------------------------------
(***************************************************************************)
(* Forms: http_urlencode writes the pairs of a map into a buffer that it   *)
(* doubles, http_urldecode reads a text into a map.  A text is a sequence  *)
(* of bytes; one process encodes and then decodes what it has written, or  *)
(* decodes what a client has sent.                                         *)
(***************************************************************************)
EXTENDS Integers, Sequences, SequencesExt, FiniteSetsExt

CONSTANTS
  Null,         \* NULL, and the result of http_unquote that fails
  InitialSize,  \* encoded_maxsize at first, 1000
  Forms,        \* BOUND: the maps, as sequences of pairs
  Received      \* BOUND: the texts of clients

Texts == Seq(0 .. 255)

ASSUME SizeAssumption == InitialSize \in Nat \ {0}

\* Keys and values are texts or NULL, and NULL is no text.  No two pairs of a map
\* have the same key: http_map_set replaces the value of a key that is there.
ASSUME FormsAssumption ==
  /\ Null \notin Texts /\ Received \subseteq Texts
  /\ Forms \subseteq Seq((Texts \cup {Null}) \X (Texts \cup {Null}))
  /\ \A f \in Forms : \A m, n \in DOMAIN f : f[m][1] = f[n][1] => m = n

Space == 32    Percent == 37    Amp == 38    Plus == 43    Eq == 61

VARIABLES
  form,      \* the pairs of m
  pc,        \* what is being done
  i,         \* iter: the pair
  size,      \* encoded_size
  maxsize,   \* encoded_maxsize
  text,      \* the bytes of encoded_buf, or those received
  over,      \* a byte was written behind the end of encoded_buf
  s, p,      \* indices in the text: the piece starts at s, p is looked at
  key,       \* key, NULL or a text
  dict,      \* the map http_urldecode fills
  buffers,   \* buffers of http_unquote that nobody has freed
  failed     \* HISTORY: calls of http_unquote that gave up

encoder == <<i, size, maxsize, over>>
decoder == <<s, p, key, dict, buffers, failed>>
vars    == <<form, pc, text, encoder, decoder>>

-----------------------------------------------------------------------------
(* One byte *)

\* always_safe_buf
Safe == 48 .. 57 \cup 65 .. 90 \cup 97 .. 122 \cup {95, 46, 45}

\* A char of the build is signed, and so is the shift.
High(c) == (IF c > 127 THEN c - 256 ELSE c) \div 16
Low(c)  == c % 16

\* _to_hex
ToHex(d) == IF d \in 0 .. 9 THEN d + 48 ELSE d - 10 + 65

\* MUTANT: the plus sign passes.
QuotedButPlus(c) ==
  IF c \in Safe \cup {Plus} THEN <<c>> ELSE <<Percent, ToHex(High(c)), ToHex(Low(c))>>

Quoted(c) ==
  IF c \in Safe THEN <<c>> ELSE <<Percent, ToHex(High(c)), ToHex(Low(c))>>

Quote(b) == FlattenSeq([n \in DOMAIN b |-> Quoted(b[n])])

\* What http_quote returns: the bytes written, the terminator included.
QuotedSize(b) == Len(b) + 2 * Cardinality({n \in DOMAIN b : b[n] \notin Safe}) + 1

\* _parse_hex of two bytes: zero when one of them is no digit.
Digit(c) ==
  CASE c \in 48 .. 57  -> c - 48
    [] c \in 65 .. 70  -> c - 55
    [] c \in 97 .. 102 -> c - 87
    [] OTHER           -> -1

ParseHex(a, b) ==
  IF Digit(a) < 0 \/ Digit(b) < 0 THEN 0 ELSE Digit(a) * 16 + Digit(b)

\* http_unquote: Null when fewer than two bytes follow a percent sign.
Unquote(b) ==
  LET rest[n \in 1 .. Len(b) + 1] ==
        IF n > Len(b) THEN <<>>
        ELSE IF b[n] = Percent /\ n + 2 > Len(b) THEN Null
        ELSE LET tail == rest[IF b[n] = Percent THEN n + 3 ELSE n + 1]
             IN IF tail = Null THEN Null
                ELSE <<IF b[n] = Percent THEN ParseHex(b[n + 1], b[n + 2])
                       ELSE IF b[n] = Plus THEN Space ELSE b[n]>> \o tail
  IN rest[1]

\* What strlen and strdup see of a buffer.
CString(b) ==
  LET ends == {n \in DOMAIN b : b[n] = 0}
  IN IF ends = {} THEN b ELSE SubSeq(b, 1, Min(ends) - 1)

-----------------------------------------------------------------------------
Init ==
  /\ \/ form \in Forms /\ text = <<>> /\ pc = "key"
     \/ form = <<>> /\ text \in Received /\ pc = "decode"
  /\ i = 1 /\ size = 0 /\ maxsize = InitialSize /\ over = FALSE
  /\ s = 1 /\ p = 1 /\ key = Null /\ dict = <<>> /\ buffers = 0 /\ failed = 0

(* http_urlencode *)

\* MUTANT: no room is kept for the byte behind the pair.
GrownLate(len) == IF size + len > maxsize THEN 2 * maxsize ELSE maxsize

\* The buffer is doubled, once.
Grown(len) == IF size + len >= maxsize THEN 2 * maxsize ELSE maxsize

\* A quoted key or value, the sign behind it and a terminator are written.
Write(b, sign) ==
  LET len == QuotedSize(b)
  IN /\ maxsize' = Grown(len)
     /\ over' = (over \/ size + len + 1 > maxsize')
     /\ size' = size + len
     /\ text' = text \o Quote(b) \o <<sign>>

Empty(b) == b = Null \/ b = <<>>

\* A pair without a key is left out.
SkipPair ==
  /\ pc = "key" /\ i <= Len(form) /\ Empty(form[i][1])
  /\ i' = i + 1
  /\ UNCHANGED <<form, pc, text, size, maxsize, over, decoder>>

WriteKey ==
  /\ pc = "key" /\ i <= Len(form) /\ ~over /\ ~Empty(form[i][1])
  /\ Write(form[i][1], Eq)
  /\ pc' = "value"
  /\ UNCHANGED <<form, i, decoder>>

\* A pair without a value ends with its equals sign.
SkipValue ==
  /\ pc = "value" /\ Empty(form[i][2])
  /\ pc' = "key" /\ i' = i + 1
  /\ UNCHANGED <<form, text, size, maxsize, over, decoder>>

\* The second http_free(k) that follows, which ends the process, is in Connections
\* only: here the text is encoded to its end.
WriteValue ==
  /\ pc = "value" /\ ~over /\ ~Empty(form[i][2])
  /\ Write(form[i][2], Amp)
  /\ pc' = "key" /\ i' = i + 1
  /\ UNCHANGED <<form, decoder>>

\* The text goes to the other side, which decodes it.
Transmit ==
  /\ pc = "key" /\ i > Len(form) /\ ~over
  /\ pc' = "decode"
  /\ UNCHANGED <<form, text, encoder, decoder>>

-----------------------------------------------------------------------------
(* http_urldecode *)

Piece == SubSeq(text, s, p - 1)

\* The map d with the value v of key k.
With(d, k, v) == [x \in DOMAIN d \cup {k} |-> IF x = k THEN v ELSE d[x]]

\* http_map_set: nothing without a key; the last value of a key stays.
Put(d, k, v) ==
  IF k = Null THEN d ELSE With(d, CString(k), IF v = Null THEN Null ELSE CString(v))

Held(b) == IF b = Null THEN 0 ELSE 1

\* A buffer is lost by a call of http_unquote that fails.
Lost(b) == IF b = Null THEN 1 ELSE 0

\* MUTANT: a key without a value is forgotten at the next equals sign.
ForgetsAtEquals ==
  /\ pc = "decode" /\ p <= Len(text) /\ text[p] = Eq
  /\ key' = Unquote(Piece)
  /\ buffers' = buffers - Held(key) + 1
  /\ failed' = failed + Lost(key')
  /\ p' = p + 1 /\ s' = p + 1
  /\ UNCHANGED <<form, pc, text, encoder, dict>>

\* '=': a key that had none gets an empty value, the piece is the next key.
AtEquals ==
  /\ pc = "decode" /\ p <= Len(text) /\ text[p] = Eq
  /\ dict' = Put(dict, key, <<>>)
  /\ key' = Unquote(Piece)
  /\ buffers' = buffers - Held(key) + 1
  /\ failed' = failed + Lost(key')
  /\ p' = p + 1 /\ s' = p + 1
  /\ UNCHANGED <<form, pc, text, encoder>>

\* The end of a pair: its piece is the value of the key, or a key alone.  The
\* buffers of both are freed, but not that of a call that failed.
EndPair ==
  LET last == Unquote(Piece)
  IN /\ dict' = IF s = p THEN Put(dict, key, <<>>)
                ELSE IF key = Null THEN Put(dict, last, <<>>)
                ELSE Put(dict, key, last)
     /\ failed' = failed + (IF s < p THEN Lost(last) ELSE 0)
     /\ buffers' = buffers - Held(key) + (IF s < p THEN Lost(last) ELSE 0)
     /\ key' = Null

AtAmp ==
  /\ pc = "decode" /\ p <= Len(text) /\ text[p] = Amp
  /\ EndPair
  /\ p' = p + 1 /\ s' = p + 1
  /\ UNCHANGED <<form, pc, text, encoder>>

AtOther ==
  /\ pc = "decode" /\ p <= Len(text) /\ text[p] \notin {Eq, Amp}
  /\ p' = p + 1
  /\ UNCHANGED <<form, pc, text, encoder, s, key, dict, buffers, failed>>

AtEnd ==
  /\ pc = "decode" /\ p > Len(text)
  /\ EndPair
  /\ pc' = "done"
  /\ UNCHANGED <<form, text, encoder, s, p>>

Next ==
  \/ SkipPair \/ WriteKey \/ SkipValue \/ WriteValue \/ Transmit
  \/ AtEquals \/ AtAmp \/ AtOther \/ AtEnd

Spec == Init /\ [][Next]_vars

-----------------------------------------------------------------------------
(* Properties *)

\* Every key and value of a form, as it is quoted, is shorter than the buffer.
Short(f) == \A n \in DOMAIN f : \A m \in 1 .. 2 :
  f[n][m] # Null => QuotedSize(f[n][m]) <= InitialSize

\* http_urlencode doubles its buffer at most once before it writes: that is
\* enough when no single key or value is as long as the first buffer, 1000.
WritesFit == Short(form) => ~over /\ size < maxsize

Plain(b) == b # Null /\ \A n \in DOMAIN b : b[n] \in 1 .. 127

Sent(f) ==
  LET valued == [n \in DOMAIN f |->
                   <<f[n][1], IF f[n][2] = Null THEN <<>> ELSE f[n][2]>>]
  IN {valued[n] : n \in {m \in DOMAIN f : ~Empty(f[m][1])}}

\* What http_urlencode writes of a form of ASCII text, http_urldecode reads
\* again: every key with its value, no value becoming an empty one.  The count
\* it returns is the length of the text.
RoundTrip ==
  pc = "done" /\ form # <<>>
      /\ (\A n \in DOMAIN form : \A m \in 1 .. 2 : Empty(form[n][m]) \/ Plain(form[n][m]))
    => /\ {<<k, dict[k]>> : k \in DOMAIN dict} = Sent(form)
       /\ size = Len(text)

\* A part of b ends at a sign or with b, and starts behind the end before it.
PartEnds(b) == {n \in 1 .. Len(b) : b[n] \in {Eq, Amp}} \cup {Len(b) + 1}

PartStart(b, e) == 1 + Max({0} \cup {n \in PartEnds(b) : n < e})

WordAt(b, e) == CString(Unquote(SubSeq(b, PartStart(b, e), e - 1)))

SignAt(b, n, c) == n \in 1 .. Len(b) /\ b[n] = c

\* The parts that are keys: one before an equals sign, and one that is not
\* empty and stands behind none.
KeyEnds(b) ==
  {e \in PartEnds(b) : \/ SignAt(b, e, Eq)
                       \/ PartStart(b, e) < e /\ ~SignAt(b, PartStart(b, e) - 1, Eq)}

\* The value of a key before an equals sign is the next part, but for one that
\* is a key itself.
ValueBehind(b, e) ==
  LET next == Min({n \in PartEnds(b) : n > e})
  IN IF SignAt(b, e, Eq) /\ ~SignAt(b, next, Eq) THEN WordAt(b, next) ELSE <<>>

\* The keys that end in es, each with the value behind the last of its places.
Pairing(b, es) ==
  [w \in {WordAt(b, e) : e \in es} |->
     ValueBehind(b, Max({e \in es : WordAt(b, e) = w}))]

\* The one loop of http_urldecode over the bytes, with its two pointers, reads
\* the pairs that the signs of the text tell apart.  The buffers of keys and
\* values are freed on every path, but for those of the calls of http_unquote
\* that give up, which are lost.
DecodesPieces ==
  pc = "done" => /\ failed = 0 => dict = Pairing(text, KeyEnds(text))
                 /\ buffers = failed
===============================================================================
