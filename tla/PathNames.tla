------------------------------ MODULE PathNames ------------------------------
(***************************************************************************)
(* os.path of the script library: join, normpath and abspath, on Linux.    *)
(* A path is a sequence of cells, each a separator or a word of the path;  *)
(* the buffer of join is an array of cells behind which NUL cells stand.   *)
(***************************************************************************)
EXTENDS Integers, Sequences, SequencesExt, FiniteSetsExt

CONSTANTS
  Sep, Backslash, Up, Here, Nul,    \* '/', '\', "..", "." and '\0'
  Drive,                            \* a word like "C:"
  Names,                            \* BOUND: other words
  JoinArgs,                         \* BOUND: the arguments of join
  NormArgs                          \* BOUND: the paths of normpath and abspath

Separators == {Sep, Backslash}
Components == {Up, Here, Drive} \cup Names

\* No '\0' stands in a path.
ASSUME PathAssumption ==
  /\ Nul \notin Separators \cup Components
  /\ JoinArgs \subseteq Seq(Seq(Separators \cup Components))

\* A word of a path ends at a separator.
ASSUME WordsAssumption ==
  /\ Separators \cap Components = {} /\ Up # Here /\ Names # {}
  /\ \A path \in NormArgs :
       /\ path \in Seq(Separators \cup Components)
       /\ \A n \in 1 .. Len(path) - 1 : path[n] \in Separators \/ path[n + 1] \in Separators

VARIABLES
  op,         \* the function a script has called
  args,       \* its arguments
  stage,      \* where it is
  nth,        \* i, the argument of join that is next
  buf, used,  \* buf, and the length join keeps of it
  norm,       \* s, the path that is brought to normal form
  prev, ahead, \* prev and p, indices in it
  stack,      \* the tokens of norm
  token,      \* i, the token looked at
  result      \* what is returned

joining     == <<nth, buf, used>>
normalising == <<norm, prev, ahead, stack, token>>
pathVars    == <<op, args, stage, joining, normalising, result>>

\* A byte behind each argument, and n + 1 more.
Total(as) == Len(FlattenSeq(as)) + Len(as) + Len(as) + 1

\* _ospath_abspath: a name that needs no work directory before it.
Rooted(path) == path # <<>> /\ path[1] \in Separators \cup {Drive}

Cwd == <<Sep, CHOOSE n \in Names : TRUE>>

CallJoin(as) ==
  /\ args = as /\ stage = "join" /\ norm = <<>>
  /\ buf = [n \in 1 .. Total(as) |-> Nul]

CallNorm(path) == args = <<path>> /\ stage = "scan" /\ norm = path /\ buf = <<>>

PathInit ==
  /\ op \in {"join", "normpath", "abspath"}
  /\ CASE op = "join"     -> \E as \in JoinArgs : CallJoin(as)
       [] op = "normpath" -> \E path \in NormArgs : CallNorm(path)
       [] op = "abspath"  -> \E path \in NormArgs :
                               IF Rooted(path) THEN CallNorm(path)
                               ELSE CallJoin(<<Cwd, path>>)
  /\ nth = 1 /\ used = 0
  /\ prev = 1 /\ ahead = 1 /\ stack = <<>> /\ token = 1
  /\ result = Nul

-----------------------------------------------------------------------------
(* _ospath_join *)

\* memcpy(buf + at, a, n)
Copied(b, at, a) ==
  [n \in DOMAIN b |-> IF n - at \in DOMAIN a THEN a[n - at] ELSE b[n]]

Arg == args[nth]

JoinSkip ==
  /\ stage = "join" /\ nth <= Len(args) /\ Arg = <<>>
  /\ nth' = nth + 1
  /\ UNCHANGED <<op, args, stage, buf, used, normalising, result>>

\* "first variable"
JoinFirst ==
  /\ stage = "join" /\ nth <= Len(args) /\ Arg # <<>> /\ used = 0
  /\ buf' = Copied(buf, 0, Arg) /\ used' = Len(Arg)
  /\ nth' = nth + 1
  /\ UNCHANGED <<op, args, stage, normalising, result>>

\* "overwrite previous variables": they keep their length, and their end.
JoinOver ==
  /\ stage = "join" /\ nth <= Len(args) /\ Arg # <<>> /\ used > 0
  /\ Arg[1] \in Separators
  /\ buf' = Copied(buf, 0, Arg) /\ used' = used + Len(Arg)
  /\ nth' = nth + 1
  /\ UNCHANGED <<op, args, stage, normalising, result>>

\* MUTANT: a separator is put in also behind one.
GapAlways == <<Sep>>

\* The separator before an argument that is appended.
Gap == IF buf[used] \in Separators THEN <<>> ELSE <<Sep>>

JoinAppend ==
  /\ stage = "join" /\ nth <= Len(args) /\ Arg # <<>> /\ used > 0
  /\ Arg[1] \notin Separators
  /\ buf' = Copied(buf, used, Gap \o Arg) /\ used' = used + Len(Gap \o Arg)
  /\ nth' = nth + 1
  /\ UNCHANGED <<op, args, stage, normalising, result>>

\* duk_push_string takes what stands before the first NUL.
UpToNul(b) ==
  LET ends == {n \in DOMAIN b : b[n] = Nul}
  IN IF ends = {} THEN b ELSE SubSeq(b, 1, Min(ends) - 1)

\* The name is returned, or goes on to normpath.
Joined ==
  /\ stage = "join" /\ nth > Len(args)
  /\ IF op = "join" THEN stage' = "done" /\ result' = UpToNul(buf) /\ norm' = norm
                    ELSE stage' = "scan" /\ result' = result /\ norm' = UpToNul(buf)
  /\ UNCHANGED <<op, args, joining, prev, ahead, stack, token>>

-----------------------------------------------------------------------------
(* _helper_path_normpath *)

\* A separator ends a token, unless it stands at the token's beginning: then it
\* becomes a part of it.
Scan ==
  /\ stage = "scan" /\ ahead <= Len(norm)
  /\ IF norm[ahead] \in Separators /\ prev < ahead
     THEN stack' = Append(stack, SubSeq(norm, prev, ahead - 1)) /\ prev' = ahead + 1
     ELSE UNCHANGED <<stack, prev>>
  /\ ahead' = ahead + 1
  /\ UNCHANGED <<op, args, stage, joining, norm, token, result>>

\* MUTANT: the last token is forgotten when it is a single cell.
LastNotSingle == IF prev < ahead - 1 THEN Append(stack, SubSeq(norm, prev, ahead - 1)) ELSE stack

LastToken == IF prev < ahead THEN Append(stack, SubSeq(norm, prev, ahead - 1)) ELSE stack

Scanned ==
  /\ stage = "scan" /\ ahead > Len(norm)
  /\ stack' = LastToken
  /\ stage' = "resolve" /\ token' = 1
  /\ UNCHANGED <<op, args, joining, norm, prev, ahead, result>>

\* ".." goes, and the token before it.
UpGoes ==
  /\ stack[token] = <<Up>>
  /\ IF token > 1 THEN stack' = RemoveAt(RemoveAt(stack, token), token - 1) /\ token' = token - 1
              ELSE stack' = RemoveAt(stack, token) /\ token' = token

HereGoes == stack[token] = <<Here>> /\ stack' = RemoveAt(stack, token) /\ token' = token

TokenStays == stack[token] \notin {<<Up>>, <<Here>>} /\ stack' = stack /\ token' = token + 1

Resolve ==
  /\ stage = "resolve" /\ token <= Len(stack)
  /\ UpGoes \/ HereGoes \/ TokenStays
  /\ UNCHANGED <<op, args, stage, joining, norm, prev, ahead, result>>

\* The tokens, with a separator between two of them.
Emitted ==
  FlattenSeq([n \in DOMAIN stack |->
                IF n < Len(stack) THEN Append(stack[n], Sep) ELSE stack[n]])

Emit ==
  /\ stage = "resolve" /\ token > Len(stack)
  /\ result' = Emitted
  /\ stage' = "done"
  /\ UNCHANGED <<op, args, joining, normalising>>

PathNext ==
  \/ JoinSkip \/ JoinFirst \/ JoinOver \/ JoinAppend \/ Joined
  \/ Scan \/ Scanned \/ Resolve \/ Emit

PathSpec == PathInit /\ [][PathNext]_pathVars

-----------------------------------------------------------------------------
(* Properties *)

\* Where the cells of a path behind the first m lead, from some directory: the
\* names below it; ".." stays there.
Track(path, m) ==
  LET at[n \in m .. Len(path)] ==
        IF n = m THEN <<>>
        ELSE IF path[n] \in Separators \cup {Here} THEN at[n - 1]
        ELSE IF path[n] = Up THEN Front(at[n - 1])
        ELSE Append(at[n - 1], path[n])
  IN at

Place(path) == Track(path, 0)[Len(path)]

\* No two separators stand side by side.
Single(path) ==
  \A n \in 1 .. Len(path) - 1 : path[n] \notin Separators \/ path[n + 1] \notin Separators

FromRoot(path) == path # <<>> /\ path[1] \in Separators

\* A path starts behind its first word when it begins with a separator.
Start(path) == IF ~FromRoot(path) THEN 0 ELSE IF Len(path) = 1 THEN 1 ELSE 2

\* It never leads above at it starts.
Below(path) ==
  \A n \in Start(path) + 1 .. Len(path) : path[n] = Up => Track(path, Start(path))[n - 1] # <<>>

\* What normpath and abspath do to a path: it leads to the same place, and a
\* path from the root stays one, as long as it never leads back to at it
\* starts and beyond; abspath, too, returns a relative name for one that does
\* (dukpylib.c:354, _helper_path_normpath).
SamePlace ==
  LET given == IF buf = <<>> THEN args[1] ELSE UpToNul(buf)
  IN stage = "done" /\ op # "join" /\ Single(given) =>
       /\ Below(given) => Place(result) = Place(given)
       /\ FromRoot(given) => (FromRoot(result) <=> Below(given))
       /\ ~FromRoot(given) => ~FromRoot(result)

\* What stands between the arguments before the nth and the nth.
Between(as, n) ==
  LET before == {m \in 1 .. n - 1 : as[m] # <<>>}
  IN IF as[n] = <<>> \/ before = {} \/ Last(as[Max(before)]) \in Separators
     THEN <<>> ELSE <<Sep>>

\* The arguments that are not empty, one separator between two of them.
JoinReference(as) == FlattenSeq([n \in DOMAIN as |-> Between(as, n) \o as[n]])

\* join stays inside its buffer, though it counts what it overwrites; it joins
\* arguments that do not begin with a separator, and what it returns begins
\* with the last argument that does (dukpylib.c:1586, _ospath_join).
JoinRight ==
  /\ op = "join" => used < Len(buf)
  /\ stage = "done" /\ op = "join" =>
       LET over == {n \in 2 .. Len(args) : FromRoot(args[n])}
       IN IF over = {} THEN result = JoinReference(args)
          ELSE IsPrefix(args[Max(over)], result)
===============================================================================
