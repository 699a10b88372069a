--------------------------- MODULE ConnectionsProofs ---------------------------
(***************************************************************************)
(* Proofs about Connections and ServerMemory.  The table of allocations is *)
(* exact for any number of addresses and entries, whatever it is asked to  *)
(* do.  In the server of duk_server.c every block has one owner after each *)
(* step of a thread, for any number of connections.                        *)
(***************************************************************************)
EXTENDS Connections, ServerMemory, TLAPS

USE TableAssumption

\* An entry for every block, a block for every entry, and no two for one.
Exact ==
  /\ \A p \in Blocks : Find(p) # {} => p \in inUse
  /\ died # "full" => \A p \in inUse : Find(p) # {}
  /\ \A i, j \in Indices : entry[i] = entry[j] /\ entry[i] # NULL => i = j

TableInv == TableTypeOK /\ Exact

\* What the search finds is an entry that holds what it looks for.
LEMMA FirstFound ==
  ASSUME NEW p, Find(p) # {} PROVE First(p) \in Indices /\ entry[First(p)] = p
<1>1. First(p) \in Find(p) BY DEF First
<1>2. QED BY <1>1 DEF Find

\* A block that is new is in no entry yet, and goes into an empty one.
LEMMA MallocInv ==
  ASSUME TableInv, NEW p, Malloc(p) PROVE TableInv'
<1> USE DEF TableInv, TableTypeOK
<1> p \in Blocks BY DEF Malloc
<1>1. CASE Find(NULL) = {}
  <2>1. entry' = entry /\ inUse' = inUse \cup {p} /\ died' = "full"
    BY <1>1 DEF Malloc
  <2>2. \A q : Find(q)' = Find(q) BY <2>1 DEF Find
  <2>3. QED BY <2>1, <2>2 DEF Exact
<1>2. CASE Find(NULL) # {}
  <2>1. entry' = [entry EXCEPT ![First(NULL)] = p] /\ inUse' = inUse \cup {p}
        /\ died' = died /\ p \notin inUse
    BY <1>2 DEF Malloc
  <2>2. First(NULL) \in Indices /\ entry[First(NULL)] = NULL BY <1>2, FirstFound
  <2>3. Find(p) = {} BY <2>1 DEF Exact
  <2>4. Find(p)' = {First(NULL)} BY <2>1, <2>2, <2>3 DEF Find
  <2>5. \A q \in Blocks : q # p => Find(q)' = Find(q) BY <2>1, <2>2 DEF Find
  <2>6. \A i \in Indices : entry'[i] = p => i = First(NULL)
    BY <2>1, <2>2, <2>3 DEF Find
  <2>7. \A i \in Indices : i # First(NULL) => entry'[i] = entry[i] BY <2>1
  <2>8. TableTypeOK' BY <2>1, <2>2
  <2>9. \A i, j \in Indices : entry'[i] = entry'[j] /\ entry'[i] # NULL => i = j
    <3>1. TAKE i, j \in Indices
    <3>2. HAVE entry'[i] = entry'[j] /\ entry'[i] # NULL
    <3>3. CASE entry'[i] = p BY <2>6, <3>2, <3>3
    <3>4. CASE entry'[i] # p
      <4>1. i # First(NULL) /\ j # First(NULL) BY <2>1, <2>2, <3>2, <3>4
      <4>2. QED BY <2>7, <3>2, <4>1 DEF Exact
    <3>5. QED BY <3>3, <3>4
  <2>10. QED BY <2>1, <2>4, <2>5, <2>8, <2>9 DEF Exact
<1>3. QED BY <1>1, <1>2

\* The entry that is emptied is the only one of its block.
LEMMA FreeInv ==
  ASSUME TableInv, NEW p, Free(p) PROVE TableInv'
<1> USE DEF TableInv, TableTypeOK
<1>1. CASE p = NULL
  BY <1>1 DEF Free, tableVars, Exact, Find
<1>2. CASE p # NULL /\ Find(p) = {}
  BY <1>2 DEF Free, Exit, Exact, Find, Runs
<1>3. CASE p # NULL /\ Find(p) # {}
  <2>1. entry' = [entry EXCEPT ![First(p)] = NULL] /\ inUse' = inUse \ {p}
        /\ died' = died
    BY <1>3 DEF Free
  <2>2. First(p) \in Indices /\ entry[First(p)] = p BY <1>3, FirstFound
  <2>3. \A i \in Indices : i # First(p) => entry'[i] = entry[i] /\ entry[i] # p
    BY <1>3, <2>1, <2>2 DEF Exact
  <2>4. entry'[First(p)] = NULL BY <2>1, <2>2
  <2>5. Find(p)' = {} BY <1>3, <2>3, <2>4 DEF Find
  <2>6. \A q \in Blocks : q # p => Find(q)' = Find(q)
    BY <2>2, <2>3, <2>4 DEF Find
  <2>7. TableTypeOK' BY <2>1, <2>2
  <2>8. \A i, j \in Indices : entry'[i] = entry'[j] /\ entry'[i] # NULL => i = j
    BY <2>3, <2>4 DEF Exact
  <2>9. QED BY <2>1, <2>5, <2>6, <2>7, <2>8 DEF Exact
<1>4. QED BY <1>1, <1>2, <1>3

\* The block moves, and its entry with it.
LEMMA ReallocInv ==
  ASSUME TableInv, NEW p, NEW q, Realloc(p, q) PROVE TableInv'
<1> USE DEF TableInv, TableTypeOK
<1>1. CASE Find(p) = {}
  BY <1>1 DEF Realloc, Exit, Exact, Find, Runs
<1>2. CASE Find(p) # {}
  <2>1. entry' = [entry EXCEPT ![First(p)] = q]
        /\ inUse' = (inUse \ {p}) \cup ({q} \ {NULL}) /\ died' = died
        /\ (q \notin inUse \/ q = p) /\ q \in Blocks \cup {NULL}
    <3>1. First(p) \in Indices /\ entry[First(p)] = p BY <1>2, FirstFound
    <3>2. QED BY <1>2, <3>1 DEF Realloc
  <2>2. First(p) \in Indices /\ entry[First(p)] = p BY <1>2, FirstFound
  <2>3. \A i \in Indices : i # First(p) =>
          /\ entry'[i] = entry[i]
          /\ q # NULL => entry[i] # q
          /\ p # NULL => entry[i] # p
    BY <1>2, <2>1, <2>2 DEF Exact, Find
  <2>4. entry'[First(p)] = q BY <2>1, <2>2
  <2>5. q # NULL => Find(q)' = {First(p)} BY <2>2, <2>3, <2>4 DEF Find
  <2>6. p # q /\ p # NULL => Find(p)' = {} BY <2>3, <2>4 DEF Find
  <2>7. \A r \in Blocks : r # p /\ r # q => Find(r)' = Find(r)
    BY <2>2, <2>3, <2>4 DEF Find
  <2>8. TableTypeOK' BY <2>1, <2>2
  <2>9. \A i, j \in Indices : entry'[i] = entry'[j] /\ entry'[i] # NULL => i = j
    BY <2>3, <2>4 DEF Exact
  <2>10. \A r \in Blocks : Find(r)' # {} => r \in inUse'
    BY <2>1, <2>2, <2>5, <2>6, <2>7 DEF Exact
  <2>11. died' # "full" => \A r \in inUse' : Find(r)' # {}
    BY <2>1, <2>2, <2>5, <2>7, <2>8 DEF Exact
  <2>12. QED BY <2>8, <2>9, <2>10, <2>11 DEF Exact
<1>3. QED BY <1>1, <1>2

LEMMA TableStep == TableInv /\ [Next]_tableVars => TableInv'
<1> SUFFICES ASSUME TableInv, [Next]_tableVars PROVE TableInv' OBVIOUS
<1>1. CASE Next BY <1>1, MallocInv, FreeInv, ReallocInv DEF Next
<1>2. CASE UNCHANGED tableVars
  BY <1>2 DEF tableVars, TableInv, TableTypeOK, Exact, Find
<1>3. QED BY <1>1, <1>2

LEMMA TableStart == Init => TableInv
BY DEF Init, TableInv, TableTypeOK, Exact, Find

\* The table is exact whatever it is asked to allocate, move and free.
THEOREM TableHolds == Spec => []TableExact
<1>1. Spec => []TableInv BY TableStart, TableStep, PTL DEF Spec
<1>2. TableInv => TableExact BY DEF TableInv, TableTypeOK, Exact, TableExact, Find
<1>3. QED BY <1>1, <1>2, PTL

-----------------------------------------------------------------------------
(* What the programs do to the table, they do through its functions. *)

LEMMA ConnTableStep == [ConnNext]_vars => [Next]_tableVars
<1>1. SUFFICES ASSUME [ConnNext]_vars PROVE [Next]_tableVars OBVIOUS
<1>2. CASE UNCHANGED vars BY <1>2 DEF vars
<1>3. CASE DoMalloc BY <1>3 DEF DoMalloc, Next
<1>4. CASE DoRealloc BY <1>4 DEF DoRealloc, Next
<1>5. CASE DoFree BY <1>5 DEF DoFree, Next
<1>6. CASE DoClear BY <1>6 DEF DoClear, Next
<1>7. CASE DoOpen \/ DoFail \/ DoTry \/ DoClose \/ DoDrop
  BY <1>7 DEF DoOpen, DoFail, DoTry, DoClose, DoDrop, tableVars
<1>8. CASE SimpleServer BY <1>8 DEF SimpleServer, Calls, tableVars
<1>9. CASE SimpleClient BY <1>9 DEF SimpleClient, Calls, tableVars
<1>10. QED
  BY <1>1, <1>2, <1>3, <1>4, <1>5, <1>6, <1>7, <1>8, <1>9 DEF ConnNext

\* The table of allocations is exact under all that the programs of one thread
\* do with servers, connections, contents and forms, for any choice of malloc.
THEOREM ConnectionsTableExact == ConnSpec => []TableExact
<1>1. ConnInit => Init BY DEF ConnInit
<1>2. QED BY <1>1, ConnTableStep, TableHolds, PTL DEF ConnSpec, Spec

-----------------------------------------------------------------------------
(* The server: what its threads agree on *)

USE ServerAssumption DEF Main, Accepter, Fastcgi, Threads

Answers == {Null} \cup {Response(f) : f \in Frontends} \cup {Error(f) : f \in Frontends}

Labels ==
  {"none", "start", "opening", "built", "starting", "serving", "joining", "deleted",
   "done", "begin", "spawning", "top", "accepting", "idle", "ending", "putting",
   "decoding", "running", "responding", "writing", "accepted", "lost", "receiving",
   "closing", "parsed", "ready", "asked", "served", "answered", "reply", "sending",
   "sent", "last", "replied"}

ServerTypeOK ==
  /\ at \in [Threads -> Labels]
  /\ reqs \in [Frontends -> Nat]
  /\ res \in [Frontends -> Answers]

Working == {"putting", "decoding", "running", "responding", "writing"}

\* One frontend at a time is inside, and fastcgi works for one that waits; the
\* answer, the cell and res lead to what belongs to the frontend that they are
\* for; a thread begins when the one that creates it has what it needs.
Agree ==
  /\ \A f, g \in Frontends : Inside(f) /\ Inside(g) => f = g
  /\ at[Fastcgi] \in Working <=> \E f \in Frontends : at[f] = "served"
  /\ \A f \in Frontends :
       /\ at[f] = "served" /\ at[Fastcgi] = "writing" => answer \in {Null, Response(f)}
       /\ at[f] = "answered" => cell \in {Null, Response(f)}
       /\ at[f] \notin {"reply", "sending", "sent"} => res[f] = Null
       /\ at[f] = "reply" => res[f] \in {Null, Response(f)}
       /\ at[f] \in {"sending", "sent"} => res[f] \in {Response(f), Error(f)}
  /\ at[Main] \in {"start", "opening", "built", "starting"} => at[Accepter] = "none"
  /\ at[Accepter] \in {"none", "begin", "spawning"} => at[Fastcgi] = "none"
  /\ \A t \in {Main, Accepter, Fastcgi} : at[t] # "lost"

ServerInv ==
  /\ outcome # "unknown"
  /\ Lives => ServerTypeOK /\ Agree /\ BlocksHeld /\ SocketsOpen /\ lost \subseteq Losses

-----------------------------------------------------------------------------
(* Whose a block is, its name says *)

LEMMA PartOf ==
  ASSUME NEW t, NEW object, NEW fields, NEW b \in Part(t, object, fields)
  PROVE  b[1] = t /\ b[2] = object /\ b[3] \in fields
BY DEF Part

LEMMA MainBlocks ==
  /\ \A b \in Wsgi \cup Chains \cup Args : b[1] = Main /\ b[2] = "wsgi"
  /\ \A b \in Wsgi : b[3] = "h"
  /\ \A b \in Chains \cup Args : b[3] # "h"
  /\ \A b \in Listener : b[1] = Main /\ b[2] = "srv"
  /\ \A b \in Mpm : b[1] = Main /\ b[2] = "mpm"
BY PartOf DEF Wsgi, Chains, Args, Listener, Mpm

LEMMA ThreadBlocks ==
  /\ \A t \in Threads : \A b \in Cfg(t) : b[1] = t /\ b[2] = "cfg"
  /\ \A b \in Heap : b[1] = Fastcgi /\ b[2] = "heap"
BY PartOf DEF Cfg, Heap

LEMMA FrontendBlocks ==
  ASSUME NEW f \in Frontends
  PROVE  /\ \A b \in NewConnection(f) : b[1] = f /\ b[2] = "conn" /\ b[3] # "host"
         /\ \A b \in Host(f) : b[1] = f /\ b[2] = "conn" /\ b[3] = "host"
         /\ \A b \in Form(f) : b[1] = f /\ b[2] = "form"
         /\ \A b \in Buffer(f) : b[1] = f /\ b[2] = "send"
         /\ \A b \in Escape(f) : b[1] = f
BY PartOf DEF NewConnection, Host, Form, Buffer, Escape

LEMMA ContentBlocks ==
  ASSUME NEW f \in Frontends
  PROVE  /\ Content(Null) = {}
         /\ Content(Request(f)) = NewContent(Request(f)) \cup Pairs(Request(f))
         /\ \A b \in Content(Request(f)) : b[1] = f /\ b[2] = "request"
         /\ \A b \in Content(Response(f)) : b[1] = f /\ b[2] = "response"
         /\ \A b \in Content(Error(f)) : b[1] = f /\ b[2] = "error"
BY PartOf DEF Content, NewContent, Pairs, Request, Response, Error

LEMMA Apart ==
  ASSUME Agree
  PROVE  /\ \A b \in MainOwns :
              b[1] = Main \/ (at[Main] = "starting" /\ b[1] = Accepter)
         /\ \A b \in AccepterOwns :
              \/ b[1] = Accepter /\ at[Accepter] # "none"
              \/ b[1] = Fastcgi /\ at[Accepter] = "spawning"
         /\ \A b \in FastcgiOwns : b[1] = Fastcgi /\ at[Fastcgi] # "none"
         /\ \A f \in Frontends : \A b \in Owns(f) : b[1] = f
<1>1. \A b \in MainOwns : b[1] = Main \/ (at[Main] = "starting" /\ b[1] = Accepter)
  BY MainBlocks, ThreadBlocks DEF MainOwns, When
<1>2. \A b \in AccepterOwns :
        \/ b[1] = Accepter /\ at[Accepter] # "none"
        \/ b[1] = Fastcgi /\ at[Accepter] = "spawning"
  BY ThreadBlocks DEF AccepterOwns, When
<1>3. \A b \in FastcgiOwns : b[1] = Fastcgi /\ at[Fastcgi] # "none"
  BY ThreadBlocks DEF FastcgiOwns
<1>4. ASSUME NEW f \in Frontends, NEW b \in Owns(f) PROVE b[1] = f
  <2>1. Content(res[f]) \subseteq Content(Response(f)) \cup Content(Error(f))
    BY ContentBlocks DEF Agree
  <2>2. AnswerOf(f) \subseteq Content(Response(f)) \cup Content(Error(f))
    BY <2>1, ContentBlocks DEF Agree, AnswerOf
  <2>3. \A d \in NewContent(Request(f)) : d[1] = f
    BY PartOf DEF NewContent, Request
  <2>4. QED
    BY <1>4, <2>2, <2>3, FrontendBlocks, ContentBlocks, ThreadBlocks
    DEF Owns, When, Connection
<1>5. QED BY <1>1, <1>2, <1>3, <1>4

\* What a frontend has changes with where it is, with its res, and with fastcgi
\* and the cell while they are at its request.
LEMMA OwnsSame ==
  ASSUME NEW g \in Frontends, at'[g] = at[g], res'[g] = res[g],
         at[g] # "served" \/ (at'[Fastcgi] = at[Fastcgi] /\ answer' = answer),
         at[g] # "answered" \/ cell' = cell
  PROVE  Owns(g)' = Owns(g)
BY DEF Owns, When, AnswerOf

\* All that f does not have.
Rest(f) == MainOwns \cup AccepterOwns \cup FastcgiOwns
           \cup UNION {Owns(g) : g \in Frontends \ {f}}

\* A step that gives and takes only what is f's.
LEMMA OneChanges ==
  ASSUME NEW f \in Frontends, Agree, BlocksHeld,
         held' = (held \ Owns(f)) \cup Owns(f)',
         MainOwns' = MainOwns, AccepterOwns' = AccepterOwns,
         FastcgiOwns' = FastcgiOwns,
         \A g \in Frontends \ {f} : Owns(g)' = Owns(g)
  PROVE  BlocksHeld'
<1>1. Owned = Rest(f) \cup Owns(f) BY DEF Owned, Rest
<1>2. Owned' = Rest(f) \cup Owns(f)' BY DEF Owned, Rest
<1>3. ASSUME NEW b \in Rest(f), b \in Owns(f) PROVE FALSE
  BY <1>3, Apart DEF Rest
<1>4. QED BY <1>1, <1>2, <1>3 DEF BlocksHeld

\* A step of f for itself, when it is inside or the cell stays.
LEMMA OwnStep ==
  ASSUME NEW f \in Frontends, Agree, BlocksHeld,
         \A t \in Threads \ {f} : at'[t] = at[t],
         \A g \in Frontends \ {f} : res'[g] = res[g],
         answer' = answer, cell' = cell \/ Inside(f),
         held' = (held \ Owns(f)) \cup Owns(f)'
  PROVE  BlocksHeld'
<1>1. MainOwns' = MainOwns /\ AccepterOwns' = AccepterOwns
      /\ FastcgiOwns' = FastcgiOwns
  BY DEF MainOwns, AccepterOwns, FastcgiOwns, When
<1>2. ASSUME NEW g \in Frontends \ {f} PROVE Owns(g)' = Owns(g)
  <2>1. at[g] # "answered" \/ cell' = cell BY DEF Agree, Inside
  <2>2. QED BY <2>1, OwnsSame
<1>3. QED BY <1>1, <1>2, OneChanges

\* The same, by what is taken and what is given.
LEMMA SetStep ==
  ASSUME NEW H, NEW O, NEW G, NEW T, O \subseteq H, G \subseteq O
  PROVE  (H \ G) \cup T = (H \ O) \cup ((O \ G) \cup T)
OBVIOUS

\* What a frontend's own steps take, free and lose is its own.
LEMMA FrontendHeld ==
  ASSUME NEW f \in Frontends, ServerInv, Lives, Frontend(f), ~Wild(f)
  PROVE  BlocksHeld' /\ lost' \subseteq Losses /\ outcome' = outcome
<1> USE FrontendBlocks, ContentBlocks, ThreadBlocks
    DEF ServerInv, Go, Take, Give, Lose, Keep, Work, Connection
<1>1. Owns(f) \subseteq held BY DEF BlocksHeld, Owned
<1>  DEFINE Changes(G, T) ==
        /\ held' = (held \ G) \cup T
        /\ Owns(f)' = (Owns(f) \ G) \cup T
        /\ G \subseteq Owns(f)
        /\ lost' \subseteq Losses /\ outcome' = outcome
<1>2. held' = (held \ Owns(f)) \cup Owns(f)' => BlocksHeld'
  <2>1. \A t \in Threads \ {f} : at'[t] = at[t]
    BY DEF Frontend, FeReceives, FeHangsUp, FeParses, FeRefuses, FeReady, FeAsks,
           FeLockFails, FeWaitFails, FeTakes, FeReplies, FeSends, FeSent, FeDeletes,
           FeEnds, ServerTypeOK
  <2>2. /\ \A g \in Frontends \ {f} : res'[g] = res[g]
        /\ answer' = answer /\ (cell' = cell \/ Inside(f))
    BY DEF Frontend, FeReceives, FeHangsUp, FeParses, FeRefuses, FeReady, FeAsks,
           FeLockFails, FeWaitFails, FeTakes, FeReplies, FeSends, FeSent, FeDeletes,
           FeEnds, ServerTypeOK, Inside
  <2>3. QED BY <2>1, <2>2, OwnStep
<1>3. CASE FeReceives(f)
  <2>1. Changes({}, NewContent(Request(f)))
    BY <1>1, <1>3 DEF FeReceives, Owns, When, AnswerOf, Agree, ServerTypeOK, Losses
  <2>2. held' = (held \ Owns(f)) \cup Owns(f)' BY ONLY <1>1, <2>1, SetStep
  <2>3. QED BY <1>2, <2>1, <2>2
<1>4. CASE FeHangsUp(f)
  <2>1. Changes(NewContent(Request(f)), {})
    BY <1>1, <1>4 DEF FeHangsUp, Owns, When, AnswerOf, Agree, ServerTypeOK, Losses
  <2>2. held' = (held \ Owns(f)) \cup Owns(f)' BY ONLY <1>1, <2>1, SetStep
  <2>3. QED BY <1>2, <2>1, <2>2
<1>5. CASE FeParses(f)
  <2>1. Changes({}, Pairs(Request(f)))
    BY <1>1, <1>5 DEF FeParses, Owns, When, AnswerOf, Agree, ServerTypeOK, Losses
  <2>2. held' = (held \ Owns(f)) \cup Owns(f)' BY ONLY <1>1, <2>1, SetStep
  <2>3. QED BY <1>2, <2>1, <2>2
<1>6. CASE FeRefuses(f)
  <2>1. Changes(Content(Request(f)), {})
    BY <1>1, <1>6 DEF FeRefuses, Owns, When, AnswerOf, Agree, ServerTypeOK, Losses
  <2>2. held' = (held \ Owns(f)) \cup Owns(f)' BY ONLY <1>1, <2>1, SetStep
  <2>3. QED BY <1>2, <2>1, <2>2
<1>7. CASE FeReady(f)
  <2>1. Changes({}, {})
    BY <1>1, <1>7 DEF FeReady, Owns, When, AnswerOf, Agree, ServerTypeOK, Losses
  <2>2. held' = (held \ Owns(f)) \cup Owns(f)' BY ONLY <1>1, <2>1, SetStep
  <2>3. QED BY <1>2, <2>1, <2>2
<1>8. CASE FeAsks(f)
  <2>1. Changes({}, {})
    BY <1>1, <1>8 DEF FeAsks, Owns, When, AnswerOf, Agree, ServerTypeOK, Losses
  <2>2. held' = (held \ Owns(f)) \cup Owns(f)' BY ONLY <1>1, <2>1, SetStep
  <2>3. QED BY <1>2, <2>1, <2>2
<1>9. CASE FeLockFails(f)
  <2>1. Changes({}, {})
    BY <1>1, <1>9 DEF FeLockFails, Owns, When, AnswerOf, Agree, ServerTypeOK, Losses
  <2>2. held' = (held \ Owns(f)) \cup Owns(f)' BY ONLY <1>1, <2>1, SetStep
  <2>3. QED BY <1>2, <2>1, <2>2
<1>10. CASE FeWaitFails(f)
  <2>1. Changes(IF at[f] = "asked" THEN {} ELSE Content(cell), {})
    BY <1>1, <1>10 DEF FeWaitFails, Owns, When, AnswerOf, Agree, ServerTypeOK, Losses
  <2>2. held' = (held \ Owns(f)) \cup Owns(f)' BY ONLY <1>1, <2>1, SetStep
  <2>3. QED BY <1>2, <2>1, <2>2
<1>11. CASE FeTakes(f)
  <2>1. Changes(IF res'[f] = cell THEN {} ELSE Content(cell), {})
    BY <1>1, <1>11 DEF FeTakes, Owns, When, AnswerOf, Agree, ServerTypeOK, Losses
  <2>2. held' = (held \ Owns(f)) \cup Owns(f)' BY ONLY <1>1, <2>1, SetStep
  <2>3. QED BY <1>2, <2>1, <2>2
<1>12. CASE FeReplies(f)
  <2>1. Changes({}, IF res[f] = Null THEN Content(Error(f)) ELSE {})
    BY <1>1, <1>12 DEF FeReplies, Owns, When, AnswerOf, Agree, ServerTypeOK, Losses
  <2>2. held' = (held \ Owns(f)) \cup Owns(f)' BY ONLY <1>1, <2>1, SetStep
  <2>3. QED BY <1>2, <2>1, <2>2
<1>13. CASE FeSends(f)
  <2>1. Changes({}, Buffer(f))
    BY <1>1, <1>13 DEF FeSends, Owns, When, AnswerOf, Agree, ServerTypeOK, Losses
  <2>2. held' = (held \ Owns(f)) \cup Owns(f)' BY ONLY <1>1, <2>1, SetStep
  <2>3. QED BY <1>2, <2>1, <2>2
<1>14. CASE FeSent(f)
  <2>1. Changes(Buffer(f) \cup Content(res[f]), {})
    BY <1>1, <1>14 DEF FeSent, Owns, When, AnswerOf, Agree, ServerTypeOK, Losses
  <2>2. held' = (held \ Owns(f)) \cup Owns(f)' BY ONLY <1>1, <2>1, SetStep
  <2>3. QED BY <1>2, <2>1, <2>2
<1>15. CASE FeDeletes(f)
  <2>1. Changes(Content(Request(f)), {})
    BY <1>1, <1>15 DEF FeDeletes, Owns, When, AnswerOf, Agree, ServerTypeOK, Losses
  <2>2. held' = (held \ Owns(f)) \cup Owns(f)' BY ONLY <1>1, <2>1, SetStep
  <2>3. QED BY <1>2, <2>1, <2>2
<1>16. CASE FeEnds(f)
  <2>1. Changes(Connection(f) \cup Cfg(f), {})
    BY <1>1, <1>16 DEF FeEnds, Owns, When, AnswerOf, Agree, ServerTypeOK, Losses
  <2>2. held' = (held \ Owns(f)) \cup Owns(f)' BY ONLY <1>1, <2>1, SetStep
  <2>3. QED BY <1>2, <2>1, <2>2
<1>17. QED BY <1>3, <1>4, <1>5, <1>6, <1>7, <1>8, <1>9, <1>10, <1>11, <1>12,
              <1>13, <1>14, <1>15, <1>16 DEF Frontend

\* The types, and what the threads agree on, after a frontend's own step.
LEMMA FrontendTypes ==
  ASSUME NEW f \in Frontends, ServerTypeOK, Agree, Frontend(f), ~Wild(f)
  PROVE  ServerTypeOK'
<1> USE DEF ServerTypeOK, Labels, Go, Work
<1>1. CASE FeReceives(f) BY <1>1 DEF FeReceives, Answers
<1>2. CASE FeHangsUp(f) BY <1>2 DEF FeHangsUp, Answers
<1>3. CASE FeParses(f) BY <1>3 DEF FeParses, Answers
<1>4. CASE FeRefuses(f) BY <1>4 DEF FeRefuses, Answers
<1>5. CASE FeReady(f) BY <1>5 DEF FeReady, Answers
<1>6. CASE FeAsks(f) BY <1>6 DEF FeAsks, Answers
<1>7. CASE FeLockFails(f) BY <1>7 DEF FeLockFails, Answers
<1>8. CASE FeWaitFails(f) BY <1>8 DEF FeWaitFails, Answers
<1>9. CASE FeTakes(f) BY <1>9 DEF FeTakes, Answers, Agree
<1>10. CASE FeReplies(f) BY <1>10 DEF FeReplies, Answers
<1>11. CASE FeSends(f) BY <1>11 DEF FeSends, Answers
<1>12. CASE FeSent(f) BY <1>12 DEF FeSent, Answers
<1>13. CASE FeDeletes(f) BY <1>13 DEF FeDeletes, Answers
<1>14. CASE FeEnds(f) BY <1>14 DEF FeEnds, Answers
<1>15. QED BY <1>1, <1>2, <1>3, <1>4, <1>5, <1>6, <1>7, <1>8, <1>9, <1>10,
              <1>11, <1>12, <1>13, <1>14 DEF Frontend

LEMMA FrontendAgree ==
  ASSUME NEW f \in Frontends, ServerInv, Lives, Frontend(f), ~Wild(f)
  PROVE  Agree' /\ SocketsOpen'
<1> USE DEF ServerInv, ServerTypeOK, Go, Agree, Inside, Working, SocketsOpen,
            HasSocket, Work
<1>1. CASE FeReceives(f)
  <2>1. Agree' BY <1>1 DEF FeReceives
  <2>2. SocketsOpen' BY <1>1 DEF FeReceives
  <2>3. QED BY <2>1, <2>2
<1>2. CASE FeHangsUp(f)
  <2>1. Agree' BY <1>2 DEF FeHangsUp
  <2>2. SocketsOpen' BY <1>2 DEF FeHangsUp
  <2>3. QED BY <2>1, <2>2
<1>3. CASE FeParses(f)
  <2>1. Agree' BY <1>3 DEF FeParses
  <2>2. SocketsOpen' BY <1>3 DEF FeParses
  <2>3. QED BY <2>1, <2>2
<1>4. CASE FeRefuses(f)
  <2>1. Agree' BY <1>4 DEF FeRefuses
  <2>2. SocketsOpen' BY <1>4 DEF FeRefuses
  <2>3. QED BY <2>1, <2>2
<1>5. CASE FeReady(f)
  <2>1. Agree' BY <1>5 DEF FeReady
  <2>2. SocketsOpen' BY <1>5 DEF FeReady
  <2>3. QED BY <2>1, <2>2
<1>6. CASE FeAsks(f)
  <2>1. Agree' BY <1>6 DEF FeAsks
  <2>2. SocketsOpen' BY <1>6 DEF FeAsks
  <2>3. QED BY <2>1, <2>2
<1>7. CASE FeLockFails(f)
  <2>1. Agree' BY <1>7 DEF FeLockFails
  <2>2. SocketsOpen' BY <1>7 DEF FeLockFails
  <2>3. QED BY <2>1, <2>2
<1>8. CASE FeWaitFails(f)
  <2>1. Agree' BY <1>8 DEF FeWaitFails
  <2>2. SocketsOpen' BY <1>8 DEF FeWaitFails
  <2>3. QED BY <2>1, <2>2
<1>9. CASE FeTakes(f)
  <2>1. Agree' BY <1>9 DEF FeTakes
  <2>2. SocketsOpen' BY <1>9 DEF FeTakes
  <2>3. QED BY <2>1, <2>2
<1>10. CASE FeReplies(f)
  <2>1. Agree' BY <1>10 DEF FeReplies
  <2>2. SocketsOpen' BY <1>10 DEF FeReplies
  <2>3. QED BY <2>1, <2>2
<1>11. CASE FeSends(f)
  <2>1. Agree' BY <1>11 DEF FeSends
  <2>2. SocketsOpen' BY <1>11 DEF FeSends
  <2>3. QED BY <2>1, <2>2
<1>12. CASE FeSent(f)
  <2>1. Agree' BY <1>12 DEF FeSent
  <2>2. SocketsOpen' BY <1>12 DEF FeSent
  <2>3. QED BY <2>1, <2>2
<1>13. CASE FeDeletes(f)
  <2>1. Agree' BY <1>13 DEF FeDeletes
  <2>2. SocketsOpen' BY <1>13 DEF FeDeletes
  <2>3. QED BY <2>1, <2>2
<1>14. CASE FeEnds(f)
  <2>1. Agree' BY <1>14 DEF FeEnds
  <2>2. SocketsOpen' BY <1>14 DEF FeEnds
  <2>3. QED BY <2>1, <2>2
<1>15. QED BY <1>1, <1>2, <1>3, <1>4, <1>5, <1>6, <1>7, <1>8, <1>9, <1>10,
              <1>11, <1>12, <1>13, <1>14 DEF Frontend

\* What fastcgi and the accepter take, free and lose in the steps they make for f
\* is f's.
LEMMA HandOverHeld ==
  ASSUME NEW f \in Frontends, ServerInv, Lives,
         FastcgiFor(f) \/ AcceptFrom(f), ~Detach
  PROVE  BlocksHeld' /\ lost' \subseteq Losses /\ outcome' = outcome
<1> USE FrontendBlocks, ContentBlocks, ThreadBlocks
    DEF ServerInv, Go, GoBoth, Serves, Take, Give, Lose, Keep, Work, Connection
<1>1. Owns(f) \subseteq held BY DEF BlocksHeld, Owned
<1>  DEFINE Changes(G, T) ==
        /\ held' = (held \ G) \cup T
        /\ Owns(f)' = (Owns(f) \ G) \cup T
        /\ G \subseteq Owns(f)
        /\ lost' \subseteq Losses /\ outcome' = outcome
<1>2. held' = (held \ Owns(f)) \cup Owns(f)' => BlocksHeld'
  <2>1. \A g \in Frontends \ {f} : at'[g] = at[g] /\ res'[g] = res[g] /\ at'[Main] = at[Main]
    BY DEF FastcgiFor, FcFired, FcDecode, FcDecoded, FcNoForm, FcFails, FcResponds,
           FcForgets, FcFills, FcWrites, AcceptFrom, AcAccepts, AcRefused, AcConnected,
           AcStarts, ServerTypeOK
  <2>2. MainOwns' = MainOwns /\ AccepterOwns' = AccepterOwns
        /\ FastcgiOwns' = FastcgiOwns
    BY DEF FastcgiFor, FcFired, FcDecode, FcDecoded, FcNoForm, FcFails, FcResponds,
           FcForgets, FcFills, FcWrites, AcceptFrom, AcAccepts, AcRefused, AcConnected,
           AcStarts, ServerTypeOK, MainOwns, AccepterOwns, FastcgiOwns, When
  <2>3. \A g \in Frontends \ {f} :
          /\ at[g] # "served" \/ (at'[Fastcgi] = at[Fastcgi] /\ answer' = answer)
          /\ at[g] # "answered" \/ cell' = cell
    BY DEF FastcgiFor, FcFired, FcDecode, FcDecoded, FcNoForm, FcFails, FcResponds,
           FcForgets, FcFills, FcWrites, AcceptFrom, AcAccepts, AcRefused, AcConnected,
           AcStarts, ServerTypeOK, Agree, Inside, Working
  <2>4. \A g \in Frontends \ {f} : Owns(g)' = Owns(g)
    BY <2>1, <2>3, OwnsSame
  <2>5. QED BY <2>2, <2>4, OneChanges
<1>3. CASE FcFired(f)
  <2>1. Changes({}, {})
    BY <1>1, <1>3 DEF FcFired, Owns, When, AnswerOf, Agree, ServerTypeOK, Losses, Working
  <2>2. held' = (held \ Owns(f)) \cup Owns(f)' BY ONLY <1>1, <2>1, SetStep
  <2>3. QED BY <1>2, <2>1, <2>2
<1>4. CASE FcDecode(f)
  <2>1. Changes({}, Form(f))
    BY <1>1, <1>4 DEF FcDecode, Owns, When, AnswerOf, Agree, ServerTypeOK, Losses, Working
  <2>2. held' = (held \ Owns(f)) \cup Owns(f)' BY ONLY <1>1, <2>1, SetStep
  <2>3. QED BY <1>2, <2>1, <2>2
<1>5. CASE FcDecoded(f)
  <2>1. Changes(Form(f), {})
    BY <1>1, <1>5 DEF FcDecoded, Owns, When, AnswerOf, Agree, ServerTypeOK, Losses, Working
  <2>2. held' = (held \ Owns(f)) \cup Owns(f)' BY ONLY <1>1, <2>1, SetStep
  <2>3. QED BY <1>2, <2>1, <2>2
<1>6. CASE FcNoForm(f)
  <2>1. Changes({}, {})
    BY <1>1, <1>6 DEF FcNoForm, Owns, When, AnswerOf, Agree, ServerTypeOK, Losses, Working
  <2>2. held' = (held \ Owns(f)) \cup Owns(f)' BY ONLY <1>1, <2>1, SetStep
  <2>3. QED BY <1>2, <2>1, <2>2
<1>7. CASE FcFails(f)
  <2>1. Changes({}, {})
    BY <1>1, <1>7 DEF FcFails, Owns, When, AnswerOf, Agree, ServerTypeOK, Losses, Working
  <2>2. held' = (held \ Owns(f)) \cup Owns(f)' BY ONLY <1>1, <2>1, SetStep
  <2>3. QED BY <1>2, <2>1, <2>2
<1>8. CASE FcResponds(f)
  <2>1. Changes({}, Content(Response(f)))
    BY <1>1, <1>8 DEF FcResponds, Owns, When, AnswerOf, Agree, ServerTypeOK, Losses, Working
  <2>2. held' = (held \ Owns(f)) \cup Owns(f)' BY ONLY <1>1, <2>1, SetStep
  <2>3. QED BY <1>2, <2>1, <2>2
<1>9. CASE FcForgets(f)
  <2>1. Changes(Content(Response(f)), {})
    BY <1>1, <1>9 DEF FcForgets, Owns, When, AnswerOf, Agree, ServerTypeOK, Losses, Working
  <2>2. held' = (held \ Owns(f)) \cup Owns(f)' BY ONLY <1>1, <2>1, SetStep
  <2>3. QED BY <1>2, <2>1, <2>2
<1>10. CASE FcFills(f)
  <2>1. Changes({}, {})
    BY <1>1, <1>10 DEF FcFills, Owns, When, AnswerOf, Agree, ServerTypeOK, Losses, Working
  <2>2. held' = (held \ Owns(f)) \cup Owns(f)' BY ONLY <1>1, <2>1, SetStep
  <2>3. QED BY <1>2, <2>1, <2>2
<1>11. CASE FcWrites(f)
  <2>1. Changes({}, {})
    BY <1>1, <1>11 DEF FcWrites, Owns, When, AnswerOf, Agree, ServerTypeOK, Losses, Working
  <2>2. held' = (held \ Owns(f)) \cup Owns(f)' BY ONLY <1>1, <2>1, SetStep
  <2>3. QED BY <1>2, <2>1, <2>2
<1>12. CASE AcAccepts(f)
  <2>1. Changes({}, NewConnection(f))
    BY <1>1, <1>12 DEF AcAccepts, Owns, When, AnswerOf, Agree, ServerTypeOK, Losses, Working
  <2>2. held' = (held \ Owns(f)) \cup Owns(f)' BY ONLY <1>1, <2>1, SetStep
  <2>3. QED BY <1>2, <2>1, <2>2
<1>13. CASE AcRefused(f)
  <2>1. Changes(NewConnection(f), {})
    BY <1>1, <1>13 DEF AcRefused, Owns, When, AnswerOf, Agree, ServerTypeOK, Losses, Working
  <2>2. held' = (held \ Owns(f)) \cup Owns(f)' BY ONLY <1>1, <2>1, SetStep
  <2>3. QED BY <1>2, <2>1, <2>2
<1>14. CASE AcConnected(f)
  <2>1. Changes({}, Host(f) \cup Cfg(f))
    BY <1>1, <1>14 DEF AcConnected, Owns, When, AnswerOf, Agree, ServerTypeOK, Losses, Working
  <2>2. held' = (held \ Owns(f)) \cup Owns(f)' BY ONLY <1>1, <2>1, SetStep
  <2>3. QED BY <1>2, <2>1, <2>2
<1>15. CASE AcStarts(f)
  <2>1. Changes(IF at'[f] = "begin" THEN {} ELSE Connection(f) \cup Cfg(f), {})
    BY <1>1, <1>15 DEF AcStarts, Owns, When, AnswerOf, Agree, ServerTypeOK, Losses, Working
  <2>2. held' = (held \ Owns(f)) \cup Owns(f)' BY ONLY <1>1, <2>1, SetStep
  <2>3. QED BY <1>2, <2>1, <2>2
<1>16. QED BY <1>3, <1>4, <1>5, <1>6, <1>7, <1>8, <1>9, <1>10, <1>11, <1>12,
              <1>13, <1>14, <1>15 DEF FastcgiFor, AcceptFrom

LEMMA HandOverAgree ==
  ASSUME NEW f \in Frontends, ServerInv, Lives,
         FastcgiFor(f) \/ AcceptFrom(f), ~Detach
  PROVE  ServerTypeOK' /\ Agree' /\ SocketsOpen'
<1> USE DEF ServerInv, Go, GoBoth, Serves, Work
<1>1. CASE FcFired(f)
  <2>1. ServerTypeOK' BY <1>1 DEF FcFired, ServerTypeOK, Labels, Answers
  <2>2. Agree' BY <1>1 DEF FcFired, ServerTypeOK, Agree, Inside, Working
  <2>3. SocketsOpen' BY <1>1 DEF FcFired, ServerTypeOK, SocketsOpen, HasSocket
  <2>4. QED BY <2>1, <2>2, <2>3
<1>2. CASE FcDecode(f)
  <2>1. ServerTypeOK' BY <1>2 DEF FcDecode, ServerTypeOK, Labels, Answers
  <2>2. Agree' BY <1>2 DEF FcDecode, ServerTypeOK, Agree, Inside, Working
  <2>3. SocketsOpen' BY <1>2 DEF FcDecode, ServerTypeOK, SocketsOpen, HasSocket
  <2>4. QED BY <2>1, <2>2, <2>3
<1>3. CASE FcDecoded(f)
  <2>1. ServerTypeOK' BY <1>3 DEF FcDecoded, ServerTypeOK, Labels, Answers
  <2>2. Agree' BY <1>3 DEF FcDecoded, ServerTypeOK, Agree, Inside, Working
  <2>3. SocketsOpen' BY <1>3 DEF FcDecoded, ServerTypeOK, SocketsOpen, HasSocket
  <2>4. QED BY <2>1, <2>2, <2>3
<1>4. CASE FcNoForm(f)
  <2>1. ServerTypeOK' BY <1>4 DEF FcNoForm, ServerTypeOK, Labels, Answers
  <2>2. Agree' BY <1>4 DEF FcNoForm, ServerTypeOK, Agree, Inside, Working
  <2>3. SocketsOpen' BY <1>4 DEF FcNoForm, ServerTypeOK, SocketsOpen, HasSocket
  <2>4. QED BY <2>1, <2>2, <2>3
<1>5. CASE FcFails(f)
  <2>1. ServerTypeOK' BY <1>5 DEF FcFails, ServerTypeOK, Labels, Answers
  <2>2. Agree' BY <1>5 DEF FcFails, ServerTypeOK, Agree, Inside, Working
  <2>3. SocketsOpen' BY <1>5 DEF FcFails, ServerTypeOK, SocketsOpen, HasSocket
  <2>4. QED BY <2>1, <2>2, <2>3
<1>6. CASE FcResponds(f)
  <2>1. ServerTypeOK' BY <1>6 DEF FcResponds, ServerTypeOK, Labels, Answers
  <2>2. Agree' BY <1>6 DEF FcResponds, ServerTypeOK, Agree, Inside, Working
  <2>3. SocketsOpen' BY <1>6 DEF FcResponds, ServerTypeOK, SocketsOpen, HasSocket
  <2>4. QED BY <2>1, <2>2, <2>3
<1>7. CASE FcForgets(f)
  <2>1. ServerTypeOK' BY <1>7 DEF FcForgets, ServerTypeOK, Labels, Answers
  <2>2. Agree' BY <1>7 DEF FcForgets, ServerTypeOK, Agree, Inside, Working
  <2>3. SocketsOpen' BY <1>7 DEF FcForgets, ServerTypeOK, SocketsOpen, HasSocket
  <2>4. QED BY <2>1, <2>2, <2>3
<1>8. CASE FcFills(f)
  <2>1. ServerTypeOK' BY <1>8 DEF FcFills, ServerTypeOK, Labels, Answers
  <2>2. Agree' BY <1>8 DEF FcFills, ServerTypeOK, Agree, Inside, Working
  <2>3. SocketsOpen' BY <1>8 DEF FcFills, ServerTypeOK, SocketsOpen, HasSocket
  <2>4. QED BY <2>1, <2>2, <2>3
<1>9. CASE FcWrites(f)
  <2>1. ServerTypeOK' BY <1>9 DEF FcWrites, ServerTypeOK, Labels, Answers
  <2>2. Agree' BY <1>9 DEF FcWrites, ServerTypeOK, Agree, Inside, Working
  <2>3. SocketsOpen' BY <1>9 DEF FcWrites, ServerTypeOK, SocketsOpen, HasSocket
  <2>4. QED BY <2>1, <2>2, <2>3
<1>10. CASE AcAccepts(f)
  <2>1. ServerTypeOK' BY <1>10 DEF AcAccepts, ServerTypeOK, Labels, Answers
  <2>2. Agree' BY <1>10 DEF AcAccepts, ServerTypeOK, Agree, Inside, Working
  <2>3. SocketsOpen' BY <1>10 DEF AcAccepts, ServerTypeOK, SocketsOpen, HasSocket
  <2>4. QED BY <2>1, <2>2, <2>3
<1>11. CASE AcRefused(f)
  <2>1. ServerTypeOK' BY <1>11 DEF AcRefused, ServerTypeOK, Labels, Answers
  <2>2. Agree' BY <1>11 DEF AcRefused, ServerTypeOK, Agree, Inside, Working
  <2>3. SocketsOpen' BY <1>11 DEF AcRefused, ServerTypeOK, SocketsOpen, HasSocket
  <2>4. QED BY <2>1, <2>2, <2>3
<1>12. CASE AcConnected(f)
  <2>1. ServerTypeOK' BY <1>12 DEF AcConnected, ServerTypeOK, Labels, Answers
  <2>2. Agree' BY <1>12 DEF AcConnected, ServerTypeOK, Agree, Inside, Working
  <2>3. SocketsOpen' BY <1>12 DEF AcConnected, ServerTypeOK, SocketsOpen, HasSocket
  <2>4. QED BY <2>1, <2>2, <2>3
<1>13. CASE AcStarts(f)
  <2>1. ServerTypeOK' BY <1>13 DEF AcStarts, ServerTypeOK, Labels, Answers
  <2>2. Agree' BY <1>13 DEF AcStarts, ServerTypeOK, Agree, Inside, Working
  <2>3. SocketsOpen' BY <1>13 DEF AcStarts, ServerTypeOK, SocketsOpen, HasSocket
  <2>4. QED BY <2>1, <2>2, <2>3
<1>14. QED BY <1>1, <1>2, <1>3, <1>4, <1>5, <1>6, <1>7, <1>8, <1>9, <1>10,
              <1>11, <1>12, <1>13 DEF FastcgiFor, AcceptFrom

\* What main, the accepter and fastcgi have for themselves.
Mine == MainOwns \cup AccepterOwns \cup FastcgiOwns

LoneSteps == MainSteps \/ AcBegin \/ AcSpawns \/ AcEnds
             \/ FcInitialize \/ FcFinalize \/ FcEnds

LEMMA LoneHeld ==
  ASSUME ServerInv, Lives, LoneSteps, ~Detach
  PROVE  BlocksHeld' /\ lost' \subseteq Losses /\ outcome' = outcome
<1> USE MainBlocks, ThreadBlocks
    DEF ServerInv, Go, GoBoth, Take, Give, Lose, Keep, Work
<1>1. Mine \subseteq held BY DEF BlocksHeld, Owned, Mine
<1>  DEFINE Changes(G, T) ==
        /\ held' = (held \ G) \cup T
        /\ Mine' = (Mine \ G) \cup T
        /\ G \subseteq Mine
        /\ lost' \subseteq Losses /\ outcome' = outcome
<1>2. held' = (held \ Mine) \cup Mine' => BlocksHeld'
  <2>1. ASSUME NEW f \in Frontends PROVE Owns(f)' = Owns(f)
    <3>1. at'[f] = at[f] /\ res' = res /\ cell' = cell /\ answer' = answer
      BY DEF LoneSteps, MainSteps, MainCreate, MainRefused, MainListens, MainSetsUp,
             MainStarts, MainCloses, MainDeletes, MainEnds, AcBegin, AcSpawns, AcEnds,
             FcInitialize, FcFinalize, FcEnds, ServerTypeOK
    <3>2. at[f] # "served" \/ at'[Fastcgi] = at[Fastcgi]
      BY DEF LoneSteps, MainSteps, MainCreate, MainRefused, MainListens, MainSetsUp,
             MainStarts, MainCloses, MainDeletes, MainEnds, AcBegin, AcSpawns, AcEnds,
             FcInitialize, FcFinalize, FcEnds, ServerTypeOK, Agree, Working
    <3>3. QED BY <3>1, <3>2, OwnsSame
  <2>2. UNION {Owns(f)' : f \in Frontends} = UNION {Owns(f) : f \in Frontends}
    BY <2>1
  <2>3. Owned = Mine \cup UNION {Owns(f) : f \in Frontends} BY DEF Owned, Mine
  <2>4. Owned' = Mine' \cup UNION {Owns(f) : f \in Frontends}
    BY <2>2 DEF Owned, Mine
  <2>5. ASSUME NEW b \in Mine, b \in UNION {Owns(f) : f \in Frontends} PROVE FALSE
    BY <2>5, Apart DEF Mine
  <2>6. QED BY <2>3, <2>4, <2>5 DEF BlocksHeld
<1>3. CASE MainCreate
  <2>1. Changes({}, Wsgi \cup Listener)
    BY <1>1, <1>3 DEF MainCreate, Mine, MainOwns, AccepterOwns, FastcgiOwns, When, Agree,
       ServerTypeOK, Losses, Working
  <2>2. held' = (held \ Mine) \cup Mine' BY ONLY <1>1, <2>1, SetStep
  <2>3. QED BY <1>2, <2>1, <2>2
<1>4. CASE MainRefused
  <2>1. Changes(Listener \cup Wsgi, {})
    BY <1>1, <1>4 DEF MainRefused, Mine, MainOwns, AccepterOwns, FastcgiOwns, When, Agree,
       ServerTypeOK, Losses, Working
  <2>2. held' = (held \ Mine) \cup Mine' BY ONLY <1>1, <2>1, SetStep
  <2>3. QED BY <1>2, <2>1, <2>2
<1>5. CASE MainListens
  <2>1. Changes({}, Mpm)
    BY <1>1, <1>5 DEF MainListens, Mine, MainOwns, AccepterOwns, FastcgiOwns, When, Agree,
       ServerTypeOK, Losses, Working
  <2>2. held' = (held \ Mine) \cup Mine' BY ONLY <1>1, <2>1, SetStep
  <2>3. QED BY <1>2, <2>1, <2>2
<1>6. CASE MainSetsUp
  <2>1. Changes({}, Chains \cup Args \cup Cfg(Accepter))
    BY <1>1, <1>6 DEF MainSetsUp, Mine, MainOwns, AccepterOwns, FastcgiOwns, When, Agree,
       ServerTypeOK, Losses, Working
  <2>2. held' = (held \ Mine) \cup Mine' BY ONLY <1>1, <2>1, SetStep
  <2>3. QED BY <1>2, <2>1, <2>2
<1>7. CASE MainStarts
  <2>1. Changes(IF at'[Accepter] = "begin" THEN {} ELSE Cfg(Accepter), {})
    BY <1>1, <1>7 DEF MainStarts, Mine, MainOwns, AccepterOwns, FastcgiOwns, When, Agree,
       ServerTypeOK, Losses, Working
  <2>2. held' = (held \ Mine) \cup Mine' BY ONLY <1>1, <2>1, SetStep
  <2>3. QED BY <1>2, <2>1, <2>2
<1>8. CASE MainCloses
  <2>1. Changes({}, {})
    BY <1>1, <1>8 DEF MainCloses, Mine, MainOwns, AccepterOwns, FastcgiOwns, When, Agree,
       ServerTypeOK, Losses, Working
  <2>2. held' = (held \ Mine) \cup Mine' BY ONLY <1>1, <2>1, SetStep
  <2>3. QED BY <1>2, <2>1, <2>2
<1>9. CASE MainDeletes
  <2>1. Changes(Mpm \cup Listener, {})
    BY <1>1, <1>9 DEF MainDeletes, Mine, MainOwns, AccepterOwns, FastcgiOwns, When, Agree,
       ServerTypeOK, Losses, Working
  <2>2. held' = (held \ Mine) \cup Mine' BY ONLY <1>1, <2>1, SetStep
  <2>3. QED BY <1>2, <2>1, <2>2
<1>10. CASE MainEnds
  <2>1. Changes(Args \cup Chains \cup Wsgi, {})
    BY <1>1, <1>10 DEF MainEnds, Mine, MainOwns, AccepterOwns, FastcgiOwns, When, Agree,
       ServerTypeOK, Losses, Working
  <2>2. held' = (held \ Mine) \cup Mine' BY ONLY <1>1, <2>1, SetStep
  <2>3. QED BY <1>2, <2>1, <2>2
<1>11. CASE AcBegin
  <2>1. Changes({}, Cfg(Fastcgi))
    BY <1>1, <1>11 DEF AcBegin, Mine, MainOwns, AccepterOwns, FastcgiOwns, When, Agree,
       ServerTypeOK, Losses, Working
  <2>2. held' = (held \ Mine) \cup Mine' BY ONLY <1>1, <2>1, SetStep
  <2>3. QED BY <1>2, <2>1, <2>2
<1>12. CASE AcSpawns
  <2>1. Changes(IF at'[Fastcgi] = "top" THEN {} ELSE Cfg(Fastcgi), {})
    BY <1>1, <1>12 DEF AcSpawns, Mine, MainOwns, AccepterOwns, FastcgiOwns, When, Agree,
       ServerTypeOK, Losses, Working
  <2>2. held' = (held \ Mine) \cup Mine' BY ONLY <1>1, <2>1, SetStep
  <2>3. QED BY <1>2, <2>1, <2>2
<1>13. CASE AcEnds
  <2>1. Changes(Cfg(Accepter), {})
    BY <1>1, <1>13 DEF AcEnds, Mine, MainOwns, AccepterOwns, FastcgiOwns, When, Agree,
       ServerTypeOK, Losses, Working
  <2>2. held' = (held \ Mine) \cup Mine' BY ONLY <1>1, <2>1, SetStep
  <2>3. QED BY <1>2, <2>1, <2>2
<1>14. CASE FcInitialize
  <2>1. Changes({}, Heap)
    BY <1>1, <1>14 DEF FcInitialize, Mine, MainOwns, AccepterOwns, FastcgiOwns, When, Agree,
       ServerTypeOK, Losses, Working
  <2>2. held' = (held \ Mine) \cup Mine' BY ONLY <1>1, <2>1, SetStep
  <2>3. QED BY <1>2, <2>1, <2>2
<1>15. CASE FcFinalize
  <2>1. Changes(Heap, {})
    BY <1>1, <1>15 DEF FcFinalize, Mine, MainOwns, AccepterOwns, FastcgiOwns, When, Agree,
       ServerTypeOK, Losses, Working
  <2>2. held' = (held \ Mine) \cup Mine' BY ONLY <1>1, <2>1, SetStep
  <2>3. QED BY <1>2, <2>1, <2>2
<1>16. CASE FcEnds
  <2>1. Changes(Cfg(Fastcgi), {})
    BY <1>1, <1>16 DEF FcEnds, Mine, MainOwns, AccepterOwns, FastcgiOwns, When, Agree,
       ServerTypeOK, Losses, Working
  <2>2. held' = (held \ Mine) \cup Mine' BY ONLY <1>1, <2>1, SetStep
  <2>3. QED BY <1>2, <2>1, <2>2
<1>17. QED BY <1>3, <1>4, <1>5, <1>6, <1>7, <1>8, <1>9, <1>10, <1>11, <1>12, <1>13, <1>14, <1>15, <1>16
            DEF LoneSteps, MainSteps

LEMMA LoneAgree ==
  ASSUME ServerInv, Lives, LoneSteps, ~Detach
  PROVE  ServerTypeOK' /\ Agree' /\ SocketsOpen'
<1> USE DEF ServerInv, Go, GoBoth, Work
<1>1. CASE MainCreate
  <2>1. ServerTypeOK' BY <1>1 DEF MainCreate, ServerTypeOK, Labels, Answers
  <2>2. Agree' BY <1>1 DEF MainCreate, ServerTypeOK, Agree, Inside, Working
  <2>3. SocketsOpen' BY <1>1 DEF MainCreate, ServerTypeOK, SocketsOpen, HasSocket
  <2>4. QED BY <2>1, <2>2, <2>3
<1>2. CASE MainRefused
  <2>1. ServerTypeOK' BY <1>2 DEF MainRefused, ServerTypeOK, Labels, Answers
  <2>2. Agree' BY <1>2 DEF MainRefused, ServerTypeOK, Agree, Inside, Working
  <2>3. SocketsOpen' BY <1>2 DEF MainRefused, ServerTypeOK, SocketsOpen, HasSocket
  <2>4. QED BY <2>1, <2>2, <2>3
<1>3. CASE MainListens
  <2>1. ServerTypeOK' BY <1>3 DEF MainListens, ServerTypeOK, Labels, Answers
  <2>2. Agree' BY <1>3 DEF MainListens, ServerTypeOK, Agree, Inside, Working
  <2>3. SocketsOpen' BY <1>3 DEF MainListens, ServerTypeOK, SocketsOpen, HasSocket
  <2>4. QED BY <2>1, <2>2, <2>3
<1>4. CASE MainSetsUp
  <2>1. ServerTypeOK' BY <1>4 DEF MainSetsUp, ServerTypeOK, Labels, Answers
  <2>2. Agree' BY <1>4 DEF MainSetsUp, ServerTypeOK, Agree, Inside, Working
  <2>3. SocketsOpen' BY <1>4 DEF MainSetsUp, ServerTypeOK, SocketsOpen, HasSocket
  <2>4. QED BY <2>1, <2>2, <2>3
<1>5. CASE MainStarts
  <2>1. ServerTypeOK' BY <1>5 DEF MainStarts, ServerTypeOK, Labels, Answers
  <2>2. Agree' BY <1>5 DEF MainStarts, ServerTypeOK, Agree, Inside, Working
  <2>3. SocketsOpen' BY <1>5 DEF MainStarts, ServerTypeOK, SocketsOpen, HasSocket
  <2>4. QED BY <2>1, <2>2, <2>3
<1>6. CASE MainCloses
  <2>1. ServerTypeOK' BY <1>6 DEF MainCloses, ServerTypeOK, Labels, Answers
  <2>2. Agree' BY <1>6 DEF MainCloses, ServerTypeOK, Agree, Inside, Working
  <2>3. SocketsOpen' BY <1>6 DEF MainCloses, ServerTypeOK, SocketsOpen, HasSocket
  <2>4. QED BY <2>1, <2>2, <2>3
<1>7. CASE MainDeletes
  <2>1. ServerTypeOK' BY <1>7 DEF MainDeletes, ServerTypeOK, Labels, Answers
  <2>2. Agree' BY <1>7 DEF MainDeletes, ServerTypeOK, Agree, Inside, Working
  <2>3. SocketsOpen' BY <1>7 DEF MainDeletes, ServerTypeOK, SocketsOpen, HasSocket
  <2>4. QED BY <2>1, <2>2, <2>3
<1>8. CASE MainEnds
  <2>1. ServerTypeOK' BY <1>8 DEF MainEnds, ServerTypeOK, Labels, Answers
  <2>2. Agree' BY <1>8 DEF MainEnds, ServerTypeOK, Agree, Inside, Working
  <2>3. SocketsOpen' BY <1>8 DEF MainEnds, ServerTypeOK, SocketsOpen, HasSocket
  <2>4. QED BY <2>1, <2>2, <2>3
<1>9. CASE AcBegin
  <2>1. ServerTypeOK' BY <1>9 DEF AcBegin, ServerTypeOK, Labels, Answers
  <2>2. Agree' BY <1>9 DEF AcBegin, ServerTypeOK, Agree, Inside, Working
  <2>3. SocketsOpen' BY <1>9 DEF AcBegin, ServerTypeOK, SocketsOpen, HasSocket
  <2>4. QED BY <2>1, <2>2, <2>3
<1>10. CASE AcSpawns
  <2>1. ServerTypeOK' BY <1>10 DEF AcSpawns, ServerTypeOK, Labels, Answers
  <2>2. Agree' BY <1>10 DEF AcSpawns, ServerTypeOK, Agree, Inside, Working
  <2>3. SocketsOpen' BY <1>10 DEF AcSpawns, ServerTypeOK, SocketsOpen, HasSocket
  <2>4. QED BY <2>1, <2>2, <2>3
<1>11. CASE AcEnds
  <2>1. ServerTypeOK' BY <1>11 DEF AcEnds, ServerTypeOK, Labels, Answers
  <2>2. Agree' BY <1>11 DEF AcEnds, ServerTypeOK, Agree, Inside, Working
  <2>3. SocketsOpen' BY <1>11 DEF AcEnds, ServerTypeOK, SocketsOpen, HasSocket
  <2>4. QED BY <2>1, <2>2, <2>3
<1>12. CASE FcInitialize
  <2>1. ServerTypeOK' BY <1>12 DEF FcInitialize, ServerTypeOK, Labels, Answers
  <2>2. Agree' BY <1>12 DEF FcInitialize, ServerTypeOK, Agree, Inside, Working
  <2>3. SocketsOpen' BY <1>12 DEF FcInitialize, ServerTypeOK, SocketsOpen, HasSocket
  <2>4. QED BY <2>1, <2>2, <2>3
<1>13. CASE FcFinalize
  <2>1. ServerTypeOK' BY <1>13 DEF FcFinalize, ServerTypeOK, Labels, Answers
  <2>2. Agree' BY <1>13 DEF FcFinalize, ServerTypeOK, Agree, Inside, Working
  <2>3. SocketsOpen' BY <1>13 DEF FcFinalize, ServerTypeOK, SocketsOpen, HasSocket
  <2>4. QED BY <2>1, <2>2, <2>3
<1>14. CASE FcEnds
  <2>1. ServerTypeOK' BY <1>14 DEF FcEnds, ServerTypeOK, Labels, Answers
  <2>2. Agree' BY <1>14 DEF FcEnds, ServerTypeOK, Agree, Inside, Working
  <2>3. SocketsOpen' BY <1>14 DEF FcEnds, ServerTypeOK, SocketsOpen, HasSocket
  <2>4. QED BY <2>1, <2>2, <2>3
<1>15. QED BY <1>1, <1>2, <1>3, <1>4, <1>5, <1>6, <1>7, <1>8, <1>9, <1>10,
              <1>11, <1>12, <1>13, <1>14 DEF LoneSteps, MainSteps

-----------------------------------------------------------------------------
(* The server: its invariant *)

LEMMA ServerStart == ServerInit => ServerInv
BY DEF ServerInit, ServerInv, ServerTypeOK, Labels, Answers, Agree, Inside, Working,
       BlocksHeld, Owned, MainOwns, AccepterOwns, FastcgiOwns, Owns, When, AnswerOf,
       Content, SocketsOpen, HasSocket, Losses

LEMMA ServerStep == ServerInv /\ [ServerNext]_serverVars => ServerInv'
<1> SUFFICES ASSUME ServerInv, [ServerNext]_serverVars PROVE ServerInv'
  OBVIOUS
<1>1. CASE UNCHANGED serverVars
  BY <1>1
  DEF serverVars, ServerInv, Lives, ServerTypeOK, Agree, Inside, BlocksHeld, Owned,
      MainOwns, AccepterOwns, FastcgiOwns, Owns, When, AnswerOf, SocketsOpen, HasSocket
<1>2. CASE Full \/ Detach \/ \E f \in Frontends : Wild(f)
  BY <1>2 DEF Full, Detach, Wild, Dies, ServerInv, Lives
<1>3. ASSUME NEW f \in Frontends, Frontend(f), ~Wild(f) PROVE ServerInv'
  <2>1. Lives
    BY <1>3 DEF Frontend, FeReceives, FeHangsUp, FeParses, FeRefuses, FeReady, FeAsks,
                FeLockFails, FeWaitFails, FeTakes, FeReplies, FeSends, FeSent,
                FeDeletes, FeEnds, Go
  <2>2. ServerTypeOK /\ Agree BY <2>1 DEF ServerInv
  <2>3. QED BY <1>3, <2>1, <2>2, FrontendTypes, FrontendAgree, FrontendHeld DEF ServerInv, Losses
<1>4. ASSUME NEW f \in Frontends, FastcgiFor(f) \/ AcceptFrom(f), ~Detach
      PROVE  ServerInv'
  <2>1. Lives
    BY <1>4 DEF FastcgiFor, FcFired, FcDecode, FcDecoded, FcNoForm, FcFails, FcResponds,
           FcForgets, FcFills, FcWrites, AcceptFrom, AcAccepts, AcRefused, AcConnected,
           AcStarts, Serves, Go, GoBoth
  <2>2. QED BY <1>4, <2>1, HandOverAgree, HandOverHeld DEF ServerInv, Losses
<1>5. ASSUME LoneSteps, ~Detach PROVE ServerInv'
  <2>1. Lives
    BY <1>5 DEF LoneSteps, MainSteps, MainCreate, MainRefused, MainListens, MainSetsUp,
             MainStarts, MainCloses, MainDeletes, MainEnds, AcBegin, AcSpawns, AcEnds,
             FcInitialize, FcFinalize, FcEnds, Go, GoBoth
  <2>2. QED BY <1>5, <2>1, LoneAgree, LoneHeld DEF ServerInv, Losses
<1>6. QED BY <1>1, <1>2, <1>3, <1>4, <1>5 DEF ServerNext, LoneSteps

\* The threads of the server agree on whose turn it is and on what the cells lead
\* to, and each block in the table has its owner, for any number of connections.
THEOREM ServerInvariance == ServerSpec => []ServerInv
BY ServerStart, ServerStep, PTL DEF ServerSpec

\* Whichever threads are not created, requests refused, scripts failing, answers
\* late and the table full, all blocks have one owner but the losses, and nothing
\* is freed twice, for any number of connections and requests.
THEOREM AccountedHolds == ServerSpec => []Accounted
<1>1. ServerInv => Accounted BY DEF ServerInv, Accounted
<1>2. QED BY <1>1, ServerInvariance, PTL

AllEnded == Lives /\ \A t \in Threads : at[t] \in {"none", "done", "lost"}

\* When every thread has ended, nothing is held any more, and the sockets that are
\* open are those of connections no thread was created for.
THEOREM NothingLeft ==
  ServerSpec => [](AllEnded => held = {} /\ \A t \in sockets : at[t] = "lost")
<1>1. ServerInv /\ AllEnded => held = {} /\ \A t \in sockets : at[t] = "lost"
  <2>1. SUFFICES ASSUME ServerInv, AllEnded
                 PROVE  held = {} /\ \A t \in sockets : at[t] = "lost"
    OBVIOUS
  <2>2. ASSUME NEW f \in Frontends PROVE Owns(f) = {}
    BY <2>1 DEF ServerInv, AllEnded, Agree, Owns, When, AnswerOf, Content
  <2>3. MainOwns = {} /\ AccepterOwns = {} /\ FastcgiOwns = {}
    <3>1. at[Main] # "starting" /\ at[Fastcgi] \in {"none", "done", "lost"}
      BY <2>1 DEF AllEnded
    <3>2. at[Fastcgi] # "lost" BY <2>1 DEF ServerInv, AllEnded, Agree
    <3>3. QED BY <2>1, <3>1, <3>2 DEF AllEnded, MainOwns, AccepterOwns, FastcgiOwns, When
  <2>4. held = {} BY <2>1, <2>2, <2>3 DEF ServerInv, AllEnded, BlocksHeld, Owned
  <2>5. \A t \in sockets : at[t] = "lost"
    BY <2>1 DEF ServerInv, AllEnded, SocketsOpen, HasSocket
  <2>6. QED BY <2>4, <2>5
<1>2. QED BY <1>1, ServerInvariance, PTL
=============================================================================
