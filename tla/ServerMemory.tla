----------------------------- MODULE ServerMemory -----------------------------
(***************************************************************************)
(* What the threads of duk_server.c take from the table of allocations and *)
(* give back: main (wsgi_server.c, http_mpm_create, http_mpm_close), the   *)
(* accepter, fastcgi with its interpreter, and one frontend for each       *)
(* connection.  A block is <<whose, object, field>>: its address, and the  *)
(* entry it is in, are MemoryTable's concern.  A step takes or frees what  *)
(* a function does between two points where a call may fail or another     *)
(* thread may get hold of something; http_realloc changes the address of a *)
(* block and nothing here.  The handshake is HttpMpm's, in outline.        *)
(***************************************************************************)
EXTENDS Naturals

CONSTANTS
  Frontends,  \* BOUND: the connections accepted during the life of the server
  MaxReqs,    \* BOUND: heads received on a connection
  Null        \* the NULL pointer

Main     == "main"
Accepter == "accepter"
Fastcgi  == "fastcgi"

ASSUME ServerAssumption ==
  /\ MaxReqs \in Nat
  /\ Frontends \cap {Main, Accepter, Fastcgi} = {}
  /\ Null \notin Frontends \X {"request"}

Threads == {Main, Accepter, Fastcgi} \cup Frontends

VARIABLES
  at,       \* thread -> where it is
  reqs,     \* frontend -> heads received so far
  res,      \* frontend -> its res
  answer,   \* what process_cb has returned to fastcgi
  cell,     \* interwork_res: the cell *(cfg->res)
  held,     \* blocks in the table that a pointer leads to
  lost,     \* HISTORY: blocks in the table that no pointer leads to any more
  sockets,  \* sockets that are open: main's, and one of each connection
  outcome   \* "runs", or how the process has ended

serverVars == <<at, reqs, res, answer, cell, held, lost, sockets, outcome>>

-----------------------------------------------------------------------------
(* The blocks of each object *)

Part(t, object, fields) == {t} \X {object} \X fields

\* wsgi_create, wsgi_add_*_chain and wsgi_start
Wsgi   == Part(Main, "wsgi", {"h"})
Chains == Part(Main, "wsgi", {"init_chain", "fini_chain"})
Args   == Part(Main, "wsgi", {"args", "args[i]"})

\* httpd_create
Listener == Part(Main, "srv", {"srv", "host", "handle"})

\* http_mpm_create
Mpm == Part(Main, "mpm", {"h", "event_break_accepter", "event_break_fastcgi",
                          "event_accepter_exit", "event_fastcgi_exit",
                          "mutex_fastcgi", "event_fire", "event_done"})

\* The http_mpm_handle_t each thread is given.
Cfg(t) == Part(t, "cfg", {"cfg"})

\* httpd_accept: conn->host comes last.
NewConnection(f) == Part(f, "conn", {"conn", "handle"})
Host(f)          == Part(f, "conn", {"host"})
Connection(f)    == NewConnection(f) \cup Host(f)

\* duk_create_heap: what the interpreter has at any time is one block here.
Heap == Part(Fastcgi, "heap", {"heap"})

\* The contents of a request, a response and the "Fastcgi Error".
Request(f)  == <<f, "request">>
Response(f) == <<f, "response">>
Error(f)    == <<f, "error">>

\* http_content_new, the keys and values http_map_set adds to the dictionary,
\* and what http_content_delete frees.
NewContent(c) == Part(c[1], c[2], {"ct", "headerbuf", "headerbuf.buf", "header",
                                   "body", "bodybuf", "bodybuf.buf", "dict",
                                   "dict.values"})
Pairs(c)   == Part(c[1], c[2], {"pairs"})
Content(c) == IF c = Null THEN {} ELSE NewContent(c) \cup Pairs(c)

\* The map of http_urldecode, and what http_unquote forgets of a cut escape.
Form(f)   == Part(f, "form", {"m", "values", "pairs"})
Escape(f) == Part(f, "form", {"bufout"})

\* The block http_send_response builds the header in.
Buffer(f) == Part(f, "send", {"buffer"})

-----------------------------------------------------------------------------
ServerInit ==
  /\ at = [t \in Threads |-> IF t = Main THEN "start" ELSE "none"]
  /\ reqs = [f \in Frontends |-> 0]
  /\ res = [f \in Frontends |-> Null]
  /\ answer = Null /\ cell = Null
  /\ held = {} /\ lost = {}
  /\ sockets = {}
  /\ outcome = "runs"

Lives == outcome = "runs"

Go(t, from, to) == Lives /\ at[t] = from /\ at' = [at EXCEPT ![t] = to]

\* One step of two threads: t hands u something.
GoBoth(t, from, to, u, uFrom, uTo) ==
  /\ Lives /\ at[t] = from /\ at[u] = uFrom
  /\ at' = [at EXCEPT ![t] = to, ![u] = uTo]

Keep == UNCHANGED <<held, lost, outcome>>

Take(blocks) == held' = held \cup blocks /\ UNCHANGED <<lost, outcome>>

\* http_free ends the process when it is given what is not in the table.
Give(blocks) ==
  IF blocks \subseteq held
  THEN held' = held \ blocks /\ UNCHANGED <<lost, outcome>>
  ELSE outcome' = "unknown" /\ UNCHANGED <<held, lost>>

\* The last pointer to them is overwritten or goes out of scope.
Lose(blocks) ==
  held' = held \ blocks /\ lost' = lost \cup blocks /\ UNCHANGED outcome

\* The process ends where t is.
Dies(how) ==
  outcome' = how /\ UNCHANGED <<at, reqs, res, answer, cell, held, lost, sockets>>

\* Any http_malloc may find the table full: how much the interpreter takes of
\* it has no bound.
Full == Lives /\ Dies("full")

\* pthread_create fails, and the thread id that is detached is garbage.
Detach == Dies("detach")

Work == UNCHANGED <<reqs, res, answer, cell, sockets>>

-----------------------------------------------------------------------------
(* Main *)

\* wsgi_create up to the socket, which is opened, bound and told to listen,
\* or all is freed.
MainCreate == Go(Main, "start", "opening") /\ Take(Wsgi \cup Listener) /\ Work

MainRefused == Go(Main, "opening", "done") /\ Give(Listener \cup Wsgi) /\ Work

MainListens ==
  /\ Go(Main, "opening", "built")
  /\ Take(Mpm)
  /\ sockets' = sockets \cup {Main}
  /\ UNCHANGED <<reqs, res, answer, cell>>

\* server of duk_server.c adds its chains and calls wsgi_start.
MainSetsUp ==
  /\ Go(Main, "built", "starting")
  /\ Take(Chains \cup Args \cup Cfg(Accepter))
  /\ Work

MainStarts ==
  \/ GoBoth(Main, "starting", "serving", Accepter, "none", "begin") /\ Keep /\ Work
  \/ Go(Main, "starting", "serving") /\ Lose(Cfg(Accepter)) /\ Work
  \/ Lives /\ at[Main] = "starting" /\ Detach

\* http_mpm_close: the break events are set.
MainCloses == Go(Main, "serving", "joining") /\ Keep /\ Work

Closing == at[Main] \in {"joining", "deleted", "done"}

\* Accepter and fastcgi have ended; events, mutex, listener and handle go.
MainDeletes ==
  /\ Go(Main, "joining", "deleted")
  /\ at[Accepter] = "done" /\ at[Fastcgi] = "done"
  /\ Give(Mpm \cup Listener)
  /\ sockets' = sockets \ {Main}
  /\ UNCHANGED <<reqs, res, answer, cell>>

Deleted == at[Main] \in {"deleted", "done"}

\* The rest of wsgi_close.
MainEnds == Go(Main, "deleted", "done") /\ Give(Args \cup Chains \cup Wsgi) /\ Work

-----------------------------------------------------------------------------
(* _worker_accepter *)

AcBegin == Go(Accepter, "begin", "spawning") /\ Take(Cfg(Fastcgi)) /\ Work

AcSpawns ==
  \/ GoBoth(Accepter, "spawning", "top", Fastcgi, "none", "top") /\ Keep /\ Work
  \/ Go(Accepter, "spawning", "top") /\ Lose(Cfg(Fastcgi)) /\ Work
  \/ Lives /\ at[Accepter] = "spawning" /\ Detach

AcAccepts(f) ==
  /\ GoBoth(Accepter, "top", "accepting", f, "none", "accepting")
  /\ Take(NewConnection(f))
  /\ Work

\* socket_accept fails or times out.
AcRefused(f) ==
  /\ GoBoth(Accepter, "accepting", "top", f, "accepting", "none")
  /\ Give(NewConnection(f))
  /\ Work

AcConnected(f) ==
  /\ GoBoth(Accepter, "accepting", "starting", f, "accepting", "accepted")
  /\ Take(Host(f) \cup Cfg(f))
  /\ sockets' = sockets \cup {f}
  /\ UNCHANGED <<reqs, res, answer, cell>>

\* Without a thread for it nobody has the connection any more.
AcStarts(f) ==
  \/ /\ GoBoth(Accepter, "starting", "top", f, "accepted", "begin")
     /\ Keep /\ Work
  \/ /\ GoBoth(Accepter, "starting", "top", f, "accepted", "lost")
     /\ Lose(Connection(f) \cup Cfg(f)) /\ Work
  \/ /\ Lives /\ at[Accepter] = "starting" /\ at[f] = "accepted"
     /\ Detach

AcEnds ==
  /\ Closing
  /\ Go(Accepter, "top", "done")
  /\ Give(Cfg(Accepter))
  /\ Work

-----------------------------------------------------------------------------
(* _worker_fastcgi, and wsgi_server.c as it calls it *)

FcInitialize == Go(Fastcgi, "top", "idle") /\ Take(Heap) /\ Work

\* The interpreter has had its rounds, or a break ends the loop.
FcFinalize ==
  /\ Go(Fastcgi, "idle", "top") \/ (Closing /\ Go(Fastcgi, "idle", "ending"))
  /\ Give(Heap)
  /\ Work

FcEnds ==
  /\ Closing
  /\ Go(Fastcgi, "top", "done") \/ Go(Fastcgi, "ending", "done")
  /\ Give(Cfg(Fastcgi))
  /\ Work

\* The request of a frontend that has fired.
FcFired(f) ==
  /\ GoBoth(Fastcgi, "idle", "putting", f, "asked", "served")
  /\ Keep /\ Work

Serves(f, from, to) == at[f] = "served" /\ Go(Fastcgi, from, to)

\* _put_request: the map of a form is used up in it.
FcDecode(f) ==
  /\ Serves(f, "putting", "decoding")
  /\ \/ Take(Form(f))
     \/ held' = held \cup Form(f) /\ lost' = lost \cup Escape(f) /\ UNCHANGED outcome
  /\ Work

FcDecoded(f) == Serves(f, "decoding", "running") /\ Give(Form(f)) /\ Work

FcNoForm(f) == Serves(f, "putting", "running") /\ Keep /\ Work

\* The script fails, or has never called start_response.
FcFails(f) ==
  /\ Serves(f, "running", "writing")
  /\ answer' = Null
  /\ Keep /\ UNCHANGED <<reqs, res, cell, sockets>>

\* http_content_new and http_start_response in _get_response.
FcResponds(f) ==
  Serves(f, "running", "responding") /\ Take(Content(Response(f))) /\ Work

\* The headers are no object: NULL is returned, and the content forgotten.
FcForgets(f) ==
  /\ Serves(f, "responding", "writing")
  /\ answer' = Null
  /\ Lose(Content(Response(f)))
  /\ UNCHANGED <<reqs, res, cell, sockets>>

FcFills(f) ==
  /\ Serves(f, "responding", "writing")
  /\ answer' = Response(f)
  /\ Keep /\ UNCHANGED <<reqs, res, cell, sockets>>

\* MUTANT: fastcgi deletes the request it has processed.
FcWritesDeletes(f) ==
  /\ GoBoth(Fastcgi, "writing", "idle", f, "served", "answered")
  /\ cell' = answer
  /\ Give(Content(Request(f))) /\ UNCHANGED <<reqs, res, answer, sockets>>

FcWrites(f) ==
  /\ GoBoth(Fastcgi, "writing", "idle", f, "served", "answered")
  /\ cell' = answer
  /\ Keep /\ UNCHANGED <<reqs, res, answer, sockets>>

-----------------------------------------------------------------------------
(* _worker_frontend *)

FeReceives(f) ==
  Go(f, "begin", "receiving") /\ Take(NewContent(Request(f))) /\ Work

\* http_recv_headers fails, as it does when the client has nothing more to send.
FeHangsUp(f) ==
  Go(f, "receiving", "closing") /\ Give(NewContent(Request(f))) /\ Work

\* http_parse_request_headers has put pairs into the dictionary, and may have
\* refused the head after some of them.
FeParses(f) ==
  /\ reqs[f] < MaxReqs
  /\ Go(f, "receiving", "parsed")
  /\ Take(Pairs(Request(f)))
  /\ reqs' = [reqs EXCEPT ![f] = @ + 1]
  /\ UNCHANGED <<res, answer, cell, sockets>>

FeRefuses(f) == Go(f, "parsed", "closing") /\ Give(Content(Request(f))) /\ Work

\* REMOTE_ADDR and REMOTE_PORT are pairs like the others.
FeReady(f) == Go(f, "parsed", "ready") /\ Keep /\ Work

\* A frontend that has the mutex.
Inside(f) == at[f] \in {"asked", "served", "answered"}

FeAsks(f) ==
  /\ \A g \in Frontends : ~Inside(g)
  /\ Go(f, "ready", "asked")
  /\ Keep /\ Work

\* The mutex is deleted.
FeLockFails(f) == Deleted /\ Go(f, "ready", "reply") /\ Keep /\ Work

\* The event is deleted: what the cell may hold by then nobody comes for.
FeWaitFails(f) ==
  /\ Deleted
  /\ \/ Go(f, "asked", "reply") /\ Keep /\ UNCHANGED cell
     \/ Go(f, "answered", "reply") /\ Lose(Content(cell)) /\ cell' = Null
  /\ UNCHANGED <<reqs, res, answer, sockets>>

\* The answer is read and the cell emptied.  When the accepter has ended the
\* cell may read as NULL.
FeTakes(f) ==
  /\ Go(f, "answered", "reply")
  /\ cell' = Null
  /\ \/ res' = [res EXCEPT ![f] = cell] /\ Keep
     \/ /\ at[Accepter] = "done"
        /\ res' = [res EXCEPT ![f] = Null] /\ Lose(Content(cell))
  /\ UNCHANGED <<reqs, answer, sockets>>

\* When the accepter has ended, the cells may lead anywhere.
Wild(f) ==
  Lives /\ at[Accepter] = "done" /\ Inside(f) /\ Dies("fault")

\* An answer of NULL is replaced by the "Fastcgi Error", which ends the loop.
FeReplies(f) ==
  /\ Go(f, "reply", "sending")
  /\ IF res[f] = Null
     THEN res' = [res EXCEPT ![f] = Error(f)] /\ Take(Content(Error(f)))
     ELSE UNCHANGED res /\ Keep
  /\ UNCHANGED <<reqs, answer, cell, sockets>>

\* http_send_response takes its buffer; Content-Length is a pair.
FeSends(f) == Go(f, "sending", "sent") /\ Take(Buffer(f)) /\ Work

FeSent(f) ==
  /\ Go(f, "sent", IF res[f] = Error(f) THEN "last" ELSE "replied")
  /\ Give(Buffer(f) \cup Content(res[f]))
  /\ res' = [res EXCEPT ![f] = Null]
  /\ UNCHANGED <<reqs, answer, cell, sockets>>

\* The request is deleted; after an error, and for HTTP/1.0, it was the last.
FeDeletes(f) ==
  /\ \/ Go(f, "replied", "begin")
     \/ Go(f, "replied", "closing")
     \/ Go(f, "last", "closing")
  /\ Give(Content(Request(f)))
  /\ Work

\* httpd_close and http_free(cfg)
FeEnds(f) ==
  /\ Go(f, "closing", "done")
  /\ Give(Connection(f) \cup Cfg(f))
  /\ sockets' = sockets \ {f}
  /\ UNCHANGED <<reqs, res, answer, cell>>

-----------------------------------------------------------------------------
MainSteps == MainCreate \/ MainRefused \/ MainListens \/ MainSetsUp
             \/ MainStarts \/ MainCloses \/ MainDeletes \/ MainEnds

AcceptFrom(f) == AcAccepts(f) \/ AcRefused(f) \/ AcConnected(f) \/ AcStarts(f)

FastcgiFor(f) == FcFired(f) \/ FcDecode(f) \/ FcDecoded(f) \/ FcNoForm(f)
                 \/ FcFails(f) \/ FcResponds(f) \/ FcForgets(f) \/ FcFills(f)
                 \/ FcWrites(f)

Frontend(f) == FeReceives(f) \/ FeHangsUp(f) \/ FeParses(f) \/ FeRefuses(f)
               \/ FeReady(f) \/ FeAsks(f) \/ FeLockFails(f) \/ FeWaitFails(f)
               \/ FeTakes(f) \/ Wild(f) \/ FeReplies(f) \/ FeSends(f)
               \/ FeSent(f) \/ FeDeletes(f) \/ FeEnds(f)

ServerNext ==
  \/ MainSteps \/ Full
  \/ AcBegin \/ AcSpawns \/ AcEnds
  \/ FcInitialize \/ FcFinalize \/ FcEnds
  \/ \E f \in Frontends : AcceptFrom(f) \/ FastcgiFor(f) \/ Frontend(f)

ServerSpec == ServerInit /\ [][ServerNext]_serverVars

-----------------------------------------------------------------------------
(* Whose the blocks are, at each point of each thread *)

When(t, labels, blocks) == IF at[t] \in labels THEN blocks ELSE {}

MainOwns ==
  When(Main, {"opening", "built", "starting", "serving", "joining", "deleted"}, Wsgi)
  \cup When(Main, {"opening", "built", "starting", "serving", "joining"}, Listener)
  \cup When(Main, {"built", "starting", "serving", "joining"}, Mpm)
  \cup When(Main, {"starting", "serving", "joining", "deleted"}, Chains \cup Args)
  \cup When(Main, {"starting"}, Cfg(Accepter))

AccepterOwns ==
  When(Accepter, {"begin", "spawning", "top", "accepting", "starting"}, Cfg(Accepter))
  \cup When(Accepter, {"spawning"}, Cfg(Fastcgi))

FastcgiOwns ==
  (IF at[Fastcgi] \in {"none", "done"} THEN {} ELSE Cfg(Fastcgi))
  \cup (IF at[Fastcgi] \in {"none", "top", "ending", "done"} THEN {} ELSE Heap)

\* While f is being served, by fastcgi on its behalf; then in the cell; then f.
AnswerOf(f) ==
  CASE at[f] = "served" /\ at[Fastcgi] = "responding" -> Content(Response(f))
    [] at[f] = "served" /\ at[Fastcgi] = "writing"    -> Content(answer)
    [] at[f] = "answered"                             -> Content(cell)
    [] OTHER                                          -> Content(res[f])

Owns(f) ==
  When(f, {"accepting"}, NewConnection(f))
  \cup When(f, {"receiving"}, NewContent(Request(f)))
  \cup When(f, {"sent"}, Buffer(f))
  \cup (IF at[f] \in {"none", "accepting", "lost", "done"} THEN {}
        ELSE Connection(f) \cup Cfg(f))
  \cup When(f, {"parsed", "ready", "asked", "served", "answered", "reply", "sending",
                "sent", "replied", "last"}, Content(Request(f)))
  \cup (IF at[f] = "served" /\ at[Fastcgi] = "decoding" THEN Form(f) ELSE {})
  \cup AnswerOf(f)

HasSocket(t) ==
  \/ t = Main /\ at[t] \in {"built", "starting", "serving", "joining"}
  \/ t \in Frontends /\ at[t] \notin {"none", "accepting", "done"}

\* What is lost when a thread is not created, when a response has no headers or
\* an answer comes when its frontend no longer waits, and when an escape is cut
\* short.
Losses ==
  Cfg(Accepter) \cup Cfg(Fastcgi)
  \cup UNION {Connection(f) \cup Cfg(f) \cup Content(Response(f)) \cup Escape(f) :
                 f \in Frontends}

Owned == MainOwns \cup AccepterOwns \cup FastcgiOwns
         \cup UNION {Owns(f) : f \in Frontends}

BlocksHeld  == held = Owned
SocketsOpen == sockets = {t \in Threads : HasSocket(t)}

\* Every block in the table has one owner, the thread that is going to free it,
\* exactly once ("created by", "delete by": http_mpm.c:66-77), but for the losses
\* above; http_free never ends the process, and each socket is main's, a
\* connection's, or lost with it.  So when all threads have ended nothing is left
\* of what they took but the losses.  How much may be in the table is not said:
\* it may be full at any time.
Accounted ==
  /\ outcome # "unknown"
  /\ Lives => BlocksHeld /\ SocketsOpen /\ lost \subseteq Losses
=============================================================================
