-------------------------------- MODULE MCText --------------------------------
(***************************************************************************)
(* FormCodec, PathNames and HttpParse on short texts: each behaviour is of *)
(* one kind, and the variables of the other two stay as they are.          *)
(***************************************************************************)
EXTENDS FormCodec, PathNames, HttpParse

CONSTANTS a, b

-----------------------------------------------------------------------------
(* Forms *)

\* A letter, signs that are quoted, a byte behind ASCII, and a text whose
\* quotation is longer than the buffer.
Quotable == {<<65>>, <<Amp, Eq>>, <<Plus>>, <<Percent, 66>>, <<200>>, <<Amp, Amp, Amp>>}

MCForms ==
  {<<<<k1, v1>>, <<k2, v2>>>> :
     k1 \in Quotable, k2 \in {<<>>, <<68>>, <<68, Space>>},
     v1 \in Quotable \cup {Null}, v2 \in Quotable \cup {<<>>}}

MCReceived == UNION {[1 .. n -> {65, 48, Percent, Amp, Eq, Plus}] : n \in 0 .. 5}

-----------------------------------------------------------------------------
(* Paths *)

MCNames == {a, b}

UpTo(cells, n) == UNION {[1 .. m -> cells] : m \in 0 .. n}

\* Between two words of a path there is a separator.
Paths(separators, words, n) ==
  {t \in UpTo(separators \cup words, n) :
     \A m \in 1 .. Len(t) - 1 : t[m] \in separators \/ t[m + 1] \in separators}

MCNormArgs == Paths({Sep}, {Up, Here, a}, 6) \cup Paths({Sep, Backslash}, {Up, Drive}, 3)

MCJoinArgs == UNION {[1 .. n -> Paths({Sep}, {a, b}, 3)] : n \in 1 .. 3}

NoPath ==
  /\ op = "none" /\ args = <<>> /\ stage = "none" /\ nth = 1 /\ buf = <<>> /\ used = 0
  /\ norm = <<>> /\ prev = 1 /\ ahead = 1 /\ stack = <<>> /\ token = 1 /\ result = Nul

-----------------------------------------------------------------------------
(* Heads *)

MCWords     == {a, b}
MCRequests  == {<<a, Blank, Slash, Blank, HTTP, Slash, V11>>}
MCResponses == {<<HTTP, Slash, V10, Blank, Status, Blank, a, Blank, b>>}

\* Also with a blank inside a value, around it, and with nothing else.
MCValues == {NULL, <<>>, <<Blank>>, <<a>>, <<b, Blank, Colon, a>>, <<Blank, b, Blank>>}

MCDictionaries ==
  {<<>>} \cup {<<<<<<a>>, v>>, <<<<b, Slash, a>>, w>>, <<<<Blank, "METHOD">>, x>>>> :
                 v \in MCValues, w \in MCValues, x \in {NULL, <<a>>}}

\* First lines, right and wrong, and the empty one.
FirstLines ==
  MCRequests \cup MCResponses \cup UpTo({a, Blank, Slash, HTTP}, 4)
  \cup {<<Blank, a, Blank, HTTP, Slash, V11, Blank, HTTP, Slash, V10>>,
        <<a, HTTP, Slash, V11, Status, Blank, Blank, b>>,
        <<a, Blank, Slash, Blank, a>>, <<HTTP, Slash, V11, Blank, Status>>,
        <<HTTP, Slash, a, Blank, Status>>}

OtherLines ==
  {<<Blank, "METHOD", Colon, a>>, <<a, Colon, HTTP, Slash, V10>>}
  \cup UpTo({a, Blank, Colon}, 3)

MCBehind == {<<>>, <<HTTP, Slash, V11>>}

MCHeads ==
  {first \o <<CRLF>> \o (IF line = <<>> THEN line ELSE Append(line, CRLF)) \o <<CRLF>> :
     first \in FirstLines, line \in OtherLines}

NoHead ==
  /\ type = "none" /\ head = <<>> /\ headsize = 0 /\ linebuf = 1 /\ cell = 1
  /\ lineno = 0 /\ hdr = <<>> /\ ret = NULL /\ built = NULL

-----------------------------------------------------------------------------
(* One of the three *)

VARIABLE kind

NoForm ==
  /\ form = <<>> /\ text = <<>> /\ pc = "none"
  /\ i = 1 /\ size = 0 /\ maxsize = InitialSize /\ over = FALSE
  /\ s = 1 /\ p = 1 /\ key = Null /\ dict = <<>> /\ buffers = 0 /\ failed = 0

MCInit ==
  \/ kind = "form" /\ Init /\ NoPath /\ NoHead
  \/ kind = "path" /\ NoForm /\ PathInit /\ NoHead
  \/ kind = "head" /\ NoForm /\ NoPath /\ ParseInit

MCNext ==
  /\ kind' = kind
  /\ \/ kind = "form" /\ Next /\ UNCHANGED <<pathVars, headVars>>
     \/ kind = "path" /\ PathNext /\ UNCHANGED <<vars, headVars>>
     \/ kind = "head" /\ ParseNext /\ UNCHANGED <<vars, pathVars>>

MCSpec == MCInit /\ [][MCNext]_<<kind, vars, pathVars, headVars>>
===============================================================================
