------------------------------- MODULE HttpParse -------------------------------
(***************************************************************************)
(* The head of a message, from text to dictionary: _http_parse_lines and   *)
(* the parsers of its lines, over heads that http_send_request and         *)
(* http_send_response have built, and over others.  A text is a sequence   *)
(* of cells, each a separator or a word.                                   *)
(***************************************************************************)
EXTENDS Integers, Sequences, SequencesExt, FiniteSetsExt

CONSTANTS
  CRLF, Blank, Colon, Slash,  \* "\r\n", ' ', ':' and '/'
  HTTP, V10, V11,             \* the words "HTTP", "1.0" and "1.1"
  Status,                     \* a word of digits
  Words,                      \* BOUND: words that begin with a letter
  NULL,
  Requests, Responses,        \* BOUND: first lines this library builds
  Dictionaries,               \* BOUND: the headers it sends
  Heads, Behind               \* BOUND: heads of others, and bytes of a body

Letters == Words \cup {HTTP, "METHOD", "URL", "VERSION", "STATUS", "MESSAGE"}
Digits  == {Status, V10, V11}

\* The keys of what is not a header; each begins with a blank.
METHOD  == <<Blank, "METHOD">>
URL     == <<Blank, "URL">>
VERSION == <<Blank, "VERSION">>
STATUS  == <<Blank, "STATUS">>
MESSAGE == <<Blank, "MESSAGE">>

VARIABLES
  type,     \* _PARSE_REQUEST or _PARSE_RESPONSE
  head,     \* the header buffer, with what it holds of a body
  headsize, \* ct->header->size
  linebuf,  \* where the line begins
  cell,     \* p, the cell looked at
  lineno,
  hdr,      \* the dictionary
  ret,      \* NULL while the loop runs, then what is returned
  built     \* HISTORY: the headers of which this library made the text, or NULL

headVars == <<type, head, headsize, linebuf, cell, lineno, hdr, ret, built>>

-----------------------------------------------------------------------------
(* What the other side sends *)

\* iter.k[0] == ' '
Internal(k) == k # <<>> /\ k[1] = Blank

\* The loop of http_send_request and http_send_response over the dictionary:
\* a header without a value, and what is not a header, is left out.
HeaderLine(h) ==
  IF h[2] = NULL \/ Internal(h[1]) THEN <<>>
  ELSE h[1] \o <<Colon, Blank>> \o h[2] \o <<CRLF>>

Built(first, headers) ==
  first \o <<CRLF>> \o FlattenSeq([n \in DOMAIN headers |-> HeaderLine(headers[n])])
  \o <<CRLF>>

\* Separators differ and are no letters, and a head has an end of a line, the
\* one http_recv_headers has found.
HasEnd(t, length) == length \in Nat /\ \E n \in 1 .. length : t[n] = CRLF

HeadAssumption ==
  /\ {Blank, Colon} \cap Letters = {} /\ Blank # Slash /\ NULL \notin BOOLEAN
  /\ \A first \in Requests \cup Responses, headers \in Dictionaries :
       HasEnd(Built(first, headers), Len(Built(first, headers)))
  /\ \A given \in Heads, behind \in Behind : HasEnd(given \o behind, Len(given))

ASSUME HeadsHaveEnds == HeadAssumption

Cells == Letters \cup Digits \cup {CRLF, Blank, Colon, Slash}

OneLine(t) == t \in Seq(Cells) /\ \A n \in DOMAIN t : t[n] # CRLF

\* "%s %s %s": method, url and version, or version, status and message.
RequestText(t) ==
  LET n == Len(t) - 3
  IN /\ OneLine(t) /\ n > 3
     /\ t[1] \in Letters /\ t[2] = Blank /\ t[3] = Slash
     /\ t[n] = Blank /\ \A m \in 3 .. n - 1 : t[m] # Blank
     /\ t[n + 1] = HTTP /\ t[n + 2] = Slash /\ t[n + 3] \in {V10, V11}

ResponseText(t) ==
  /\ OneLine(t) /\ Len(t) > 6
  /\ t[1] = HTTP /\ t[2] = Slash /\ t[3] \in {V10, V11} /\ t[4] = Blank
  /\ t[5] = Status /\ t[6] = Blank

\* The name of a header, or of an internal one.
Name(t) ==
  /\ OneLine(t) /\ t # <<>> /\ t[1] \in Letters \cup {Blank} /\ t[Len(t)] # Blank
  /\ \A n \in DOMAIN t : t[n] # Colon

\* What is sent are headers: neither http_header nor start_response checks what
\* an application gives them.  A dictionary has a name once.
ASSUME SentAssumption ==
  /\ CRLF \notin {Blank, Colon} /\ Blank \notin Digits
  /\ \A first \in Requests : RequestText(first)
  /\ \A first \in Responses : ResponseText(first)
  /\ \A headers \in Dictionaries :
       /\ headers \in Seq(Seq(Cells) \X (Seq(Cells) \cup {NULL}))
       /\ \A n \in DOMAIN headers :
            Name(headers[n][1]) /\ (headers[n][2] # NULL => OneLine(headers[n][2]))
       /\ \A m, n \in DOMAIN headers : headers[m][1] = headers[n][1] => m = n

ParseInit ==
  /\ type \in {"request", "response"}
  /\ \/ \E first \in IF type = "request" THEN Requests ELSE Responses :
           \E headers \in Dictionaries :
             /\ built = headers
             /\ head = Built(first, headers) /\ headsize = Len(head)
     \/ \E given \in Heads, behind \in Behind :
          /\ built = NULL
          /\ head = given \o behind /\ headsize = Len(given)
  /\ linebuf = 1 /\ cell = 1 /\ lineno = 0 /\ hdr = <<>> /\ ret = NULL

-----------------------------------------------------------------------------
(* http_string.c: 0 is the NULL of these functions, also as an argument. *)

Find(cells, from, to) ==
  LET hits == {n \in from .. to - 1 : head[n] \in cells}
  IN IF from = 0 \/ hits = {} THEN 0 ELSE Min(hits)

\* MUTANT: http_rfind_nwhite looks for a blank.
TrimmedToBlank(from, to) ==
  LET solid == {n \in from .. to - 1 : head[n] # Blank}
  IN IF solid = {} THEN NULL
     ELSE SubSeq(head, Min(solid),
                 Min({n \in Min(solid) .. to : n = to \/ head[n] = Blank}) - 1)

\* http_find_nwhite and http_rfind_nwhite
Trimmed(from, to) ==
  LET solid == {n \in from .. to - 1 : head[n] # Blank}
  IN IF solid = {} THEN NULL ELSE SubSeq(head, Min(solid), Max(solid))

\* strstr(s, "HTTP/"), which looks behind the line and the head, too.
FindVersion(from) ==
  LET hits == {n \in from .. Len(head) - 1 : head[n] = HTTP /\ head[n + 1] = Slash}
  IN IF from = 0 \/ hits = {} THEN 0 ELSE Min(hits)

Known(v) == v # 0 /\ v + 2 <= Len(head) /\ head[v + 2] \in {V10, V11}

\* s = p + 1, and s >= pend is an error.
After(n, to) == IF n = 0 \/ n + 1 >= to THEN 0 ELSE n + 1

\* http_map_set, when the place of the value was found.
Set(d, found, key, value) ==
  IF found THEN [k \in DOMAIN d \cup {key} |-> IF k = key THEN value ELSE d[k]] ELSE d

-----------------------------------------------------------------------------
(* The lines; each parser gives the new dictionary and its result. *)

\* MUTANT: the version is not asked for.
VersionUnchecked(d) ==
  LET m == Find(Letters, linebuf, cell)         m1 == Find({Blank}, m, cell)
      u == Find({Slash}, After(m1, cell), cell)    u1 == Find({Blank}, u, cell)
      d1 == Set(d, m1 # 0, METHOD, SubSeq(head, m, m1 - 1))
  IN [dict |-> Set(d1, u1 # 0, URL, SubSeq(head, u, u1 - 1)), ok |-> u1 # 0]

\* _http_parse_request_line: method, url and version, as far as they are found.
RequestLine(d) ==
  LET m  == Find(Letters, linebuf, cell)
      m1 == Find({Blank}, m, cell)
      u  == Find({Slash}, After(m1, cell), cell)
      u1 == Find({Blank}, u, cell)
      v  == FindVersion(After(u1, cell))
      d1 == Set(d, m1 # 0, METHOD, SubSeq(head, m, m1 - 1))
      d2 == Set(d1, u1 # 0, URL, SubSeq(head, u, u1 - 1))
  IN [dict |-> Set(d2, Known(v), VERSION, <<HTTP, Slash, head[v + 2]>>), ok |-> Known(v)]

\* _http_parse_response_line; the version is stored without "HTTP/".
ResponseLine(d) ==
  LET v  == FindVersion(Find(Letters, linebuf, cell))
      s  == IF Known(v) THEN Find(Digits, v + 3, cell) ELSE 0
      s1 == Find({Blank}, s, cell)
      d1 == Set(d, Known(v), VERSION, <<head[v + 2]>>)
      d2 == Set(d1, s1 # 0, STATUS, SubSeq(head, s, s1 - 1))
      w  == After(s1, cell)
  IN [dict |-> Set(d2, w # 0, MESSAGE, SubSeq(head, w, cell - 1)), ok |-> w # 0]

\* MUTANT: a key begins where its line does.
KeyFromStart(d) ==
  LET c == Find({Colon}, linebuf, cell)
  IN [dict |-> Set(d, c # 0, SubSeq(head, linebuf, c - 1), Trimmed(c + 1, cell)),
      ok   |-> c # 0]

\* _http_parse_header: the key begins with the first letter of the line; a
\* value of blanks alone is NULL.
Header(d) ==
  LET k == Find(Letters, linebuf, cell)
      c == Find({Colon}, k, cell)
  IN [dict |-> Set(d, c # 0, Trimmed(k, c), Trimmed(c + 1, cell)), ok |-> c # 0]

\* _http_parse_lines
Parsed ==
  IF lineno > 0 THEN Header(hdr)
  ELSE IF type = "request" THEN RequestLine(hdr) ELSE ResponseLine(hdr)

Cell ==
  /\ ret = NULL /\ cell <= headsize /\ head[cell] # CRLF
  /\ cell' = cell + 1
  /\ UNCHANGED <<type, head, headsize, linebuf, lineno, hdr, ret, built>>

Line ==
  /\ ret = NULL /\ cell <= headsize /\ head[cell] = CRLF /\ linebuf < cell
  /\ hdr' = Parsed.dict
  /\ IF Parsed.ok
     THEN cell' = cell + 1 /\ linebuf' = cell + 1 /\ lineno' = lineno + 1 /\ ret' = ret
     ELSE ret' = FALSE /\ UNCHANGED <<cell, linebuf, lineno>>
  /\ UNCHANGED <<type, head, headsize, built>>

\* An empty line, or the end of the head.
End ==
  /\ ret = NULL /\ (cell > headsize \/ (head[cell] = CRLF /\ linebuf = cell))
  /\ ret' = TRUE
  /\ UNCHANGED <<type, head, headsize, linebuf, cell, lineno, hdr, built>>

ParseNext == Cell \/ Line \/ End

ParseSpec == ParseInit /\ [][ParseNext]_headVars

-----------------------------------------------------------------------------
(* Properties *)

FirstKeys == IF type = "request" THEN {METHOD, URL, VERSION} ELSE {VERSION, STATUS, MESSAGE}

\* A head that is accepted has given every entry http_send_request, the WSGI
\* layer or a client take from the dictionary without asking; a head that
\* begins with an empty line is accepted and gives none.  The version may come
\* from any later line or from the body, but the url is a path of the first.
Complete ==
  ret = TRUE /\ head[1] # CRLF =>
    /\ FirstKeys \subseteq DOMAIN hdr
    /\ type = "request" => hdr[URL][1] = Slash

\* A header cannot replace what the first line has given, nor a name under
\* which the library keeps something of its own: no key of a header begins with
\* a blank.
HeadersApart ==
  [][lineno > 0 => \A name \in DOMAIN hdr' :
       Internal(name) => name \in DOMAIN hdr /\ hdr'[name] = hdr[name]]_headVars

\* A value as the other side reads it: without blanks around it, and NULL when
\* nothing is left.
Bare(v) ==
  LET solid == {n \in DOMAIN v : v[n] # Blank}
  IN IF solid = {} THEN NULL ELSE SubSeq(v, Min(solid), Max(solid))

\* The headers this library sends are the ones it reads: each with its value,
\* but for an empty value, which arrives as NULL and is not sent on again.
HeadersArrive ==
  ret # NULL /\ built # NULL =>
    /\ ret = TRUE
    /\ {<<key, hdr[key]>> : key \in DOMAIN hdr \ FirstKeys}
         = {<<built[n][1], Bare(built[n][2])>> :
              n \in {m \in DOMAIN built : built[m][2] # NULL /\ ~Internal(built[m][1])}}
===============================================================================
