------------------------------- MODULE HttpMpm -------------------------------
(***************************************************************************)
(* The threads of libhttpd/http_mpm.c and the synchronisation objects they *)
(* share.                                                                  *)
(*                                                                         *)
(*   main       calls http_mpm_set_process, http_mpm_start and, once,      *)
(*              http_mpm_close                                             *)
(*   accepter   owns the two interwork cells (they are variables on its    *)
(*              STACK), starts the fastcgi thread and one frontend for     *)
(*              every connection                                           *)
(*   frontend   one per connection: receives a request, hands it to        *)
(*              fastcgi through the cells, sends the response              *)
(*   fastcgi    runs the interpreter: initialize_cb, up to MaxRequests     *)
(*              rounds of (poll, process_cb), finialize_cb, and again      *)
(*                                                                         *)
(* Every label of a program counter names the next thing its thread does.  *)
(* A frontend is identified with its connection.                           *)
(***************************************************************************)
EXTENDS Naturals, FiniteSets

CONSTANTS
  Frontends,      \* the connections accepted during the life of the server
  MaxReqs,        \* BOUND: requests a client sends on one connection
  MaxRequests,    \* HTTP_MPM_MAX_REQUESTS
  AutoReset,      \* TRUE: Windows auto-reset events, FALSE: Linux semaphores
  SpawnMayFail,   \* TRUE: pthread_create may fail for lack of resources
  Null,           \* the NULL pointer, and no owner of the mutex
  Junk,           \* a pointer read from memory that was overwritten
  Error500        \* the "Fastcgi Error" response a frontend makes itself

\* The k-th request of a connection; a response is named by its request.
Requests == Frontends \X (1 .. MaxReqs)

ASSUME MpmAssumption ==
  /\ MaxReqs \in Nat
  /\ MaxRequests \in Nat \ {0}
  /\ AutoReset \in BOOLEAN
  /\ SpawnMayFail \in BOOLEAN
  /\ Null \notin Frontends
  /\ Requests \cap {Null, Junk, Error500} = {}
  /\ Null # Junk /\ Null # Error500 /\ Junk # Error500

Events == { "break_accepter", "break_fastcgi", "accepter_exit",
            "fastcgi_exit", "fire", "done" }

Handles == Events \cup {"mutex"}

VARIABLES
  mpc,        \* main thread
  alive,      \* handles not yet deleted by http_mpm_close
  intact,     \* handles whose memory, freed or not, still reads as a handle
  sem,        \* event -> its count (0 or 1 for an auto-reset event)
  mutex,      \* owner of mutex_fastcgi
  apc,        \* accepter thread
  slotReq,    \* interwork_req: the cell *(cfg->req)
  slotRes,    \* interwork_res: the cell *(cfg->res)
  fpc,        \* fastcgi thread
  fbreak,     \* its fastcgi_break
  nr,         \* its nr_request
  creq,       \* its req
  cres,       \* its res
  heap,       \* the interpreter exists: initialize_cb ran, finialize_cb not
  processed,  \* HISTORY: requests process_cb has finished
  pc,         \* frontend -> where it is
  req,        \* frontend -> the request it holds
  res,        \* frontend -> the response it holds
  reqNo,      \* frontend -> requests received so far
  sent,       \* HISTORY: frontend -> the last response it sent
  fault       \* how the process died, if it did: see Dies, MainStart

mainVars    == <<mpc, alive, intact>>
cellVars    == <<slotReq, slotRes>>
fastcgiVars == <<fpc, fbreak, nr, creq, cres, heap, processed>>
frontVars   == <<pc, req, res, reqNo, sent>>

vars == <<mpc, alive, intact, sem, mutex, apc, slotReq, slotRes, fpc, fbreak,
          nr, creq, cres, heap, processed, pc, req, res, reqNo, sent, fault>>

MainLabels     == { "new", "ready", "running", "breakAccepter", "breakFastcgi",
                    "joinAccepter", "joinFastcgi", "delete", "closed" }
AccepterLabels == { "none", "spawn", "check", "accept", "exit", "ending",
                    "ended" }
FastcgiLabels  == { "none", "top", "init", "check", "poll", "read", "process",
                    "write", "signal", "fini", "exit", "ended" }
FrontLabels    == { "none", "recv", "lock", "put", "fire", "wait", "take",
                    "give", "reply", "close", "ended", "orphan" }

\* A frontend between http_mutex_take and http_mutex_give.
Inside == {"put", "fire", "wait", "take", "give"}

\* fastcgi between taking the fire event and setting the done event.
Busy == {"read", "process", "write", "signal"}

\* http_mpm_close has begun.
Closing == mpc \notin {"new", "ready", "running"}

\* A process that died does nothing any more.
Running == fault = "none"

Init ==
  /\ mpc = "new"
  /\ alive = Handles
  /\ intact = Handles
  /\ sem = [e \in Events |-> 0]
  /\ mutex = Null
  /\ apc = "none"
  /\ slotReq = Null /\ slotRes = Null
  /\ fpc = "none" /\ fbreak = FALSE /\ nr = 0
  /\ creq = Null /\ cres = Null
  /\ heap = FALSE
  /\ processed = {}
  /\ pc = [f \in Frontends |-> "none"]
  /\ req = [f \in Frontends |-> Null]
  /\ res = [f \in Frontends |-> Null]
  /\ reqNo = [f \in Frontends |-> 0]
  /\ sent = [f \in Frontends |-> Null]
  /\ fault = "none"

-----------------------------------------------------------------------------
(***************************************************************************)
(* Synchronisation (http_sys_linux.c, http_sys_w32.c).  Every call checks  *)
(* the type word of the handle, which of a deleted handle is read from     *)
(* freed memory: until that memory is reused the call works as before,     *)
(* from then on it fails at once.                                          *)
(***************************************************************************)

\* http_event_set: sem_post, or SetEvent.
Set(e) ==
  IF e \in intact
  THEN sem' = [sem EXCEPT ![e] = IF AutoReset THEN 1 ELSE @ + 1]
  ELSE UNCHANGED sem

\* http_event_wait, trywait and waittimeout that succeed.
Take(e) ==
  /\ e \in intact
  /\ sem[e] > 0
  /\ sem' = [sem EXCEPT ![e] = @ - 1]

\* http_event_trywait or waittimeout that fails.
Miss(e) ==
  /\ sem[e] = 0 \/ e \notin intact
  /\ UNCHANGED sem

\* The allocator overwrites a deleted handle.  Only the handles the frontends
\* use matter: nobody uses the others once they are deleted.
Reuse(h) ==
  /\ Running
  /\ h \in (intact \ alive) \cap {"mutex", "fire", "done"}
  /\ intact' = intact \ {h}
  /\ UNCHANGED <<mpc, alive, sem, mutex, apc, cellVars, fastcgiVars,
                 frontVars, fault>>

-----------------------------------------------------------------------------
(* The main thread. *)

Main(from, to) == Running /\ mpc = from /\ mpc' = to

\* http_mpm_set_process (the other two setters do not enable anything).
MainSetProcess ==
  /\ Main("new", "ready")
  /\ UNCHANGED <<alive, intact, sem, mutex, apc, cellVars, fastcgiVars,
                 frontVars, fault>>

\* http_mpm_start; without process_cb it returns HTTP_FALSE and does nothing.
\* When the thread is not created the code detaches an uninitialised tid.
MainStart ==
  /\ Main("ready", "running")
  /\ \/ apc' = "spawn" /\ UNCHANGED fault
     \/ SpawnMayFail /\ UNCHANGED apc /\ fault' \in {"none", "detach"}
  /\ UNCHANGED <<alive, intact, sem, mutex, cellVars, fastcgiVars, frontVars>>

\* http_mpm_close may be called whatever was done with the handle before.
MainClose ==
  /\ Running
  /\ mpc \in {"new", "ready", "running"}
  /\ mpc' = "breakAccepter"
  /\ UNCHANGED <<alive, intact, sem, mutex, apc, cellVars, fastcgiVars,
                 frontVars, fault>>

MainBreakAccepter ==
  /\ Main("breakAccepter", "breakFastcgi")
  /\ Set("break_accepter")
  /\ UNCHANGED <<alive, intact, mutex, apc, cellVars, fastcgiVars, frontVars,
                 fault>>

MainBreakFastcgi ==
  /\ Main("breakFastcgi", "joinAccepter")
  /\ Set("break_fastcgi")
  /\ UNCHANGED <<alive, intact, mutex, apc, cellVars, fastcgiVars, frontVars,
                 fault>>

MainJoinAccepter ==
  /\ Main("joinAccepter", "joinFastcgi")
  /\ Take("accepter_exit")
  /\ UNCHANGED <<alive, intact, mutex, apc, cellVars, fastcgiVars, frontVars,
                 fault>>

\* MUTANT: http_mpm_close does not wait for fastcgi.
MainJoinSkipped ==
  /\ Main("joinFastcgi", "delete")
  /\ UNCHANGED <<alive, intact, sem, mutex, apc, cellVars, fastcgiVars,
                 frontVars, fault>>

MainJoinFastcgi ==
  /\ Main("joinFastcgi", "delete")
  /\ Take("fastcgi_exit")
  /\ UNCHANGED <<alive, intact, mutex, apc, cellVars, fastcgiVars, frontVars,
                 fault>>

DeleteRank == [break_accepter |-> 1, break_fastcgi |-> 2, accepter_exit |-> 3,
               fastcgi_exit |-> 4, mutex |-> 5, fire |-> 6, done |-> 7]

\* One http_event_delete or http_mutex_delete; after the last one
\* httpd_destroy and http_free end http_mpm_close.
MainDelete(h) ==
  /\ Running
  /\ mpc = "delete"
  /\ h \in alive
  /\ \A g \in alive : DeleteRank[h] <= DeleteRank[g]
  /\ alive' = alive \ {h}
  /\ mpc' = IF h = "done" THEN "closed" ELSE "delete"
  /\ UNCHANGED <<intact, sem, mutex, apc, cellVars, fastcgiVars, frontVars,
                 fault>>

-----------------------------------------------------------------------------
(* _worker_accepter *)

Accepter(from, to) == Running /\ apc = from /\ apc' = to

\* Start the fastcgi thread on the cells of this stack frame.
AcSpawn ==
  /\ Accepter("spawn", "check")
  /\ \/ fpc' = "top" /\ UNCHANGED fault
     \/ SpawnMayFail /\ UNCHANGED fpc /\ fault' \in {"none", "detach"}
  /\ UNCHANGED <<mainVars, sem, mutex, cellVars, fbreak, nr, creq, cres, heap,
                 processed, frontVars>>

AcBreak ==
  /\ Accepter("check", "exit")
  /\ Take("break_accepter")
  /\ UNCHANGED <<mainVars, mutex, cellVars, fastcgiVars, frontVars, fault>>

AcNoBreak ==
  /\ Accepter("check", "accept")
  /\ Miss("break_accepter")
  /\ UNCHANGED <<mainVars, mutex, cellVars, fastcgiVars, frontVars, fault>>

\* httpd_accept returns NULL after HTTP_ACCEPT_TIMEOUT.
AcTimeout ==
  /\ Accepter("accept", "check")
  /\ UNCHANGED <<mainVars, sem, mutex, cellVars, fastcgiVars, frontVars,
                 fault>>

\* A connection; when its thread is not created nobody owns it any more.
AcConnection(f) ==
  /\ Accepter("accept", "check")
  /\ pc[f] = "none"
  /\ \/ pc' = [pc EXCEPT ![f] = "recv"] /\ UNCHANGED fault
     \/ /\ SpawnMayFail
        /\ pc' = [pc EXCEPT ![f] = "orphan"]
        /\ fault' \in {"none", "detach"}
  /\ UNCHANGED <<mainVars, sem, mutex, cellVars, fastcgiVars, req, res, reqNo,
                 sent>>

AcExit ==
  /\ Accepter("exit", "ending")
  /\ Set("accepter_exit")
  /\ UNCHANGED <<mainVars, mutex, cellVars, fastcgiVars, frontVars, fault>>

\* http_end_thread: the stack frame that holds the cells is gone.  What the
\* cells read as from now on is whatever the memory holds.
AcEnd ==
  /\ Accepter("ending", "ended")
  /\ slotReq' \in {slotReq, Null, Junk}
  /\ slotRes' \in {slotRes, Null, Junk}
  /\ UNCHANGED <<mainVars, sem, mutex, fastcgiVars, frontVars, fault>>

-----------------------------------------------------------------------------
(* _worker_fastcgi *)

Fastcgi(from, to) == Running /\ fpc = from /\ fpc' = to

FcBreakAtTop ==
  /\ Fastcgi("top", "exit")
  /\ Take("break_fastcgi")
  /\ UNCHANGED <<mainVars, mutex, apc, cellVars, fbreak, nr, creq, cres, heap,
                 processed, frontVars, fault>>

FcNoBreakAtTop ==
  /\ Fastcgi("top", "init")
  /\ Miss("break_fastcgi")
  /\ UNCHANGED <<mainVars, mutex, apc, cellVars, fbreak, nr, creq, cres, heap,
                 processed, frontVars, fault>>

FcInitialize ==
  /\ Fastcgi("init", "check")
  /\ heap' = TRUE
  /\ nr' = 0
  /\ UNCHANGED <<mainVars, sem, mutex, apc, cellVars, fbreak, creq, cres,
                 processed, frontVars, fault>>

\* The for loop is over: the interpreter is restarted.
FcExhausted ==
  /\ Fastcgi("check", "fini")
  /\ nr = MaxRequests
  /\ UNCHANGED <<mainVars, sem, mutex, apc, cellVars, fbreak, nr, creq, cres,
                 heap, processed, frontVars, fault>>

\* MUTANT: the break is noticed but fastcgi_break is not set.
FcBreakForgets ==
  /\ Fastcgi("check", "fini")
  /\ nr < MaxRequests
  /\ Take("break_fastcgi")
  /\ UNCHANGED <<mainVars, mutex, apc, cellVars, fbreak, nr, creq, cres, heap,
                 processed, frontVars, fault>>

FcBreak ==
  /\ Fastcgi("check", "fini")
  /\ nr < MaxRequests
  /\ Take("break_fastcgi")
  /\ fbreak' = TRUE
  /\ UNCHANGED <<mainVars, mutex, apc, cellVars, nr, creq, cres, heap,
                 processed, frontVars, fault>>

FcNoBreak ==
  /\ Fastcgi("check", "poll")
  /\ nr < MaxRequests
  /\ Miss("break_fastcgi")
  /\ UNCHANGED <<mainVars, mutex, apc, cellVars, fbreak, nr, creq, cres, heap,
                 processed, frontVars, fault>>

\* MUTANT: the continue after the timeout is missing.
FcTimeoutFalls ==
  /\ Fastcgi("poll", "read")
  /\ Miss("fire")
  /\ UNCHANGED <<mainVars, mutex, apc, cellVars, fbreak, nr, creq, cres, heap,
                 processed, frontVars, fault>>

\* http_event_waittimeout(event_fire, 100 ms): the round counts either way.
FcTimeout ==
  /\ Fastcgi("poll", "check")
  /\ Miss("fire")
  /\ nr' = nr + 1
  /\ UNCHANGED <<mainVars, mutex, apc, cellVars, fbreak, creq, cres, heap,
                 processed, frontVars, fault>>

FcFired ==
  /\ Fastcgi("poll", "read")
  /\ Take("fire")
  /\ UNCHANGED <<mainVars, mutex, apc, cellVars, fbreak, nr, creq, cres, heap,
                 processed, frontVars, fault>>

FcRead ==
  /\ Fastcgi("read", "process")
  /\ creq' = slotReq
  /\ UNCHANGED <<mainVars, sem, mutex, apc, cellVars, fbreak, nr, cres, heap,
                 processed, frontVars, fault>>

\* process_cb: the response to the request, or NULL when the script failed.
FcProcess ==
  /\ Fastcgi("process", "write")
  /\ creq \in Requests
  /\ cres' \in {creq, Null}
  /\ processed' = processed \cup {creq}
  /\ UNCHANGED <<mainVars, sem, mutex, apc, cellVars, fbreak, nr, creq, heap,
                 frontVars, fault>>

FcWrite ==
  /\ Fastcgi("write", "signal")
  /\ slotRes' = cres
  /\ UNCHANGED <<mainVars, sem, mutex, apc, slotReq, fbreak, nr, creq, cres,
                 heap, processed, frontVars, fault>>

\* MUTANT: fastcgi announces only responses, not the lack of one.
FcSignalUnlessNull ==
  /\ Fastcgi("signal", "check")
  /\ IF cres = Null THEN UNCHANGED sem ELSE Set("done")
  /\ nr' = nr + 1
  /\ UNCHANGED <<mainVars, mutex, apc, cellVars, fbreak, creq, cres, heap,
                 processed, frontVars, fault>>

FcSignal ==
  /\ Fastcgi("signal", "check")
  /\ Set("done")
  /\ nr' = nr + 1
  /\ UNCHANGED <<mainVars, mutex, apc, cellVars, fbreak, creq, cres, heap,
                 processed, frontVars, fault>>

FcFinalize ==
  /\ \/ fbreak /\ Fastcgi("fini", "exit")
     \/ ~fbreak /\ Fastcgi("fini", "top")
  /\ heap' = FALSE
  /\ UNCHANGED <<mainVars, sem, mutex, apc, cellVars, fbreak, nr, creq, cres,
                 processed, frontVars, fault>>

FcExit ==
  /\ Fastcgi("exit", "ended")
  /\ Set("fastcgi_exit")
  /\ UNCHANGED <<mainVars, mutex, apc, cellVars, fbreak, nr, creq, cres, heap,
                 processed, frontVars, fault>>

-----------------------------------------------------------------------------
(* _worker_frontend *)

Frontend(f, from, to) ==
  /\ Running
  /\ pc[f] = from
  /\ pc' = [pc EXCEPT ![f] = to]

\* http_recv_request returns a request.
FeRequest(f) ==
  /\ Frontend(f, "recv", "lock")
  /\ reqNo[f] < MaxReqs
  /\ reqNo' = [reqNo EXCEPT ![f] = @ + 1]
  /\ req' = [req EXCEPT ![f] = <<f, reqNo[f] + 1>>]
  /\ UNCHANGED <<mainVars, sem, mutex, apc, cellVars, fastcgiVars, res, sent,
                 fault>>

\* It returns NULL: the peer closed, timed out or sent no request.
FeNoRequest(f) ==
  /\ Frontend(f, "recv", "close")
  /\ UNCHANGED <<mainVars, sem, mutex, apc, cellVars, fastcgiVars, req, res,
                 reqNo, sent, fault>>

\* MUTANT: no mutual exclusion of the frontends.
FeLockFree(f) ==
  /\ Frontend(f, "lock", "put")
  /\ mutex' = f
  /\ UNCHANGED <<mainVars, sem, apc, cellVars, fastcgiVars, req, res, reqNo,
                 sent, fault>>

FeLock(f) ==
  /\ Frontend(f, "lock", "put")
  /\ "mutex" \in intact
  /\ mutex = Null
  /\ mutex' = f
  /\ UNCHANGED <<mainVars, sem, apc, cellVars, fastcgiVars, req, res, reqNo,
                 sent, fault>>

\* "_worker_frontend mutex timeout!": only a deleted mutex gets here.
FeLockFails(f) ==
  /\ Frontend(f, "lock", "reply")
  /\ "mutex" \notin intact
  /\ UNCHANGED <<mainVars, sem, mutex, apc, cellVars, fastcgiVars, req, res,
                 reqNo, sent, fault>>

FePut(f) ==
  /\ Frontend(f, "put", "fire")
  /\ slotReq' = req[f]
  /\ UNCHANGED <<mainVars, sem, mutex, apc, slotRes, fastcgiVars, req, res,
                 reqNo, sent, fault>>

FeFire(f) ==
  /\ Frontend(f, "fire", "wait")
  /\ Set("fire")
  /\ UNCHANGED <<mainVars, mutex, apc, cellVars, fastcgiVars, req, res, reqNo,
                 sent, fault>>

\* MUTANT: the answer is taken without waiting for it.
FeDoneEarly(f) ==
  /\ Frontend(f, "wait", "take")
  /\ UNCHANGED <<mainVars, sem, mutex, apc, cellVars, fastcgiVars, req, res,
                 reqNo, sent, fault>>

FeDone(f) ==
  /\ Frontend(f, "wait", "take")
  /\ Take("done")
  /\ UNCHANGED <<mainVars, mutex, apc, cellVars, fastcgiVars, req, res, reqNo,
                 sent, fault>>

\* Of a deleted event; a thread blocked on it before may also never return.
FeDoneFails(f) ==
  /\ Frontend(f, "wait", "give")
  /\ "done" \notin intact
  /\ UNCHANGED <<mainVars, sem, mutex, apc, cellVars, fastcgiVars, req, res,
                 reqNo, sent, fault>>

\* res = *(cfg->res); *(cfg->res) = NULL, both under the mutex.
FeTake(f) ==
  /\ Frontend(f, "take", "give")
  /\ res' = [res EXCEPT ![f] = slotRes]
  /\ slotRes' = Null
  /\ UNCHANGED <<mainVars, sem, mutex, apc, slotReq, fastcgiVars, req, reqNo,
                 sent, fault>>

FeGive(f) ==
  /\ Frontend(f, "give", "reply")
  /\ mutex' = IF "mutex" \in intact THEN Null ELSE mutex
  /\ UNCHANGED <<mainVars, sem, apc, cellVars, fastcgiVars, req, res, reqNo,
                 sent, fault>>

\* MUTANT: the connection stays open after an error.
FeReplyStaysOpen(f) ==
  /\ Running
  /\ pc[f] = "reply"
  /\ res[f] # Junk
  /\ sent' = [sent EXCEPT ![f] = IF res[f] = Null THEN Error500 ELSE res[f]]
  /\ pc' = [pc EXCEPT ![f] = "recv"]
  /\ res' = [res EXCEPT ![f] = Null]
  /\ req' = [req EXCEPT ![f] = Null]
  /\ UNCHANGED <<mainVars, sem, mutex, apc, cellVars, fastcgiVars, reqNo, fault>>

\* The rest of the loop body: send the response, or the error response, which
\* ends the connection as HTTP/1.0 does, and delete it and the request.
FeReply(f) ==
  /\ Running
  /\ pc[f] = "reply"
  /\ res[f] # Junk
  /\ sent' = [sent EXCEPT ![f] = IF res[f] = Null THEN Error500 ELSE res[f]]
  /\ \E next \in IF res[f] = Null THEN {"close"} ELSE {"recv", "close"} :
       pc' = [pc EXCEPT ![f] = next]
  /\ res' = [res EXCEPT ![f] = Null]
  /\ req' = [req EXCEPT ![f] = Null]
  /\ UNCHANGED <<mainVars, sem, mutex, apc, cellVars, fastcgiVars, reqNo,
                 fault>>

FeClose(f) ==
  /\ Frontend(f, "close", "ended")
  /\ UNCHANGED <<mainVars, sem, mutex, apc, cellVars, fastcgiVars, req, res,
                 reqNo, sent, fault>>

-----------------------------------------------------------------------------
(* The process dies of a pointer that is not one. *)

Dies == Running /\ fault' = "cell"

\* process_cb reads the request through what fastcgi found in the cell.
FcWild ==
  /\ Dies
  /\ fpc = "process" /\ creq \notin Requests
  /\ UNCHANGED <<mainVars, sem, mutex, apc, cellVars, fastcgiVars, frontVars>>

\* http_send_response reads the response.
FeWild(f) ==
  /\ Dies
  /\ pc[f] = "reply" /\ res[f] = Junk
  /\ UNCHANGED <<mainVars, sem, mutex, apc, cellVars, fastcgiVars, frontVars>>

\* The stack the cells were on may be unmapped when a thread touches them.
StackUnmapped ==
  /\ Dies
  /\ apc = "ended"
  /\ \/ fpc \in {"read", "write"}
     \/ \E f \in Frontends : pc[f] \in {"put", "take"}
  /\ UNCHANGED <<mainVars, sem, mutex, apc, cellVars, fastcgiVars, frontVars>>

MainNext ==
  \/ MainSetProcess \/ MainStart \/ MainClose \/ MainBreakAccepter
  \/ MainBreakFastcgi \/ MainJoinAccepter \/ MainJoinFastcgi
  \/ \E h \in Handles : MainDelete(h) \/ Reuse(h)

AccepterNext ==
  \/ AcSpawn \/ AcBreak \/ AcNoBreak \/ AcTimeout \/ AcExit \/ AcEnd
  \/ \E f \in Frontends : AcConnection(f)

FastcgiNext ==
  \/ FcBreakAtTop \/ FcNoBreakAtTop \/ FcInitialize \/ FcExhausted \/ FcBreak
  \/ FcNoBreak \/ FcTimeout \/ FcFired \/ FcRead \/ FcProcess \/ FcWrite
  \/ FcSignal \/ FcFinalize \/ FcExit \/ FcWild

FrontendNext(f) ==
  \/ FeRequest(f) \/ FeNoRequest(f) \/ FeLock(f) \/ FeLockFails(f) \/ FePut(f)
  \/ FeFire(f) \/ FeDone(f) \/ FeDoneFails(f) \/ FeTake(f) \/ FeGive(f)
  \/ FeReply(f) \/ FeClose(f) \/ FeWild(f)

Next ==
  \/ MainNext
  \/ AccepterNext
  \/ FastcgiNext
  \/ \E f \in Frontends : FrontendNext(f)
  \/ StackUnmapped

Spec == Init /\ [][Next]_vars

\* Fairness.  main keeps going once it closes, the accepter and fastcgi are
\* never starved and process_cb returns, a frontend runs whenever it is not
\* blocked.  Nothing is assumed of clients.  A call on a handle that was
\* deleted and overwritten is taken to return, blocked or not.
MainSteps ==
  \/ MainBreakAccepter \/ MainBreakFastcgi \/ MainJoinAccepter
  \/ MainJoinFastcgi \/ \E h \in Handles : MainDelete(h)

FrontendSteps(f) ==
  \/ FeLock(f) \/ FeLockFails(f) \/ FePut(f) \/ FeFire(f) \/ FeDone(f)
  \/ FeDoneFails(f) \/ FeTake(f) \/ FeGive(f) \/ FeReply(f) \/ FeClose(f)
  \/ FeWild(f)

FairSpec ==
  /\ Spec
  /\ WF_vars(MainSteps)
  /\ WF_vars(AccepterNext)
  /\ WF_vars(FastcgiNext)
  /\ \A f \in Frontends : WF_vars(FrontendSteps(f))

-----------------------------------------------------------------------------
Pointers == Requests \cup {Null, Junk}

\* Every variable has its type.
TypeOK ==
  /\ mpc \in MainLabels
  /\ alive \subseteq intact /\ intact \subseteq Handles
  /\ sem \in [Events -> Nat]
  /\ mutex \in Frontends \cup {Null}
  /\ apc \in AccepterLabels
  /\ slotReq \in Pointers /\ slotRes \in Pointers
  /\ fpc \in FastcgiLabels
  /\ fbreak \in BOOLEAN
  /\ nr \in 0 .. MaxRequests
  /\ creq \in Pointers /\ cres \in Requests \cup {Null}
  /\ heap \in BOOLEAN
  /\ processed \subseteq Requests
  /\ pc \in [Frontends -> FrontLabels]
  /\ req \in [Frontends -> Requests \cup {Null}]
  /\ res \in [Frontends -> Pointers]
  /\ reqNo \in [Frontends -> 0 .. MaxReqs]
  /\ sent \in [Frontends -> Requests \cup {Null, Error500}]
  /\ fault \in {"none", "cell", "detach"}

\* The response a frontend takes from the shared cell answers the request it
\* put there: no client ever sees the answer to another client's request, or
\* to an earlier one of its own.
NoCrossDelivery ==
  \A f \in Frontends : res[f] \in Requests => res[f] = req[f]

\* The request process_cb works on is still owned by the frontend that
\* received it: it is not deleted under the interpreter (line 195 against 122).
RequestHeld ==
  fpc = "process" /\ creq \in Requests => req[creq[1]] = creq

\* A frontend that waits for its answer has exactly one wake-up under way: its
\* fire event, fastcgi at work on it, or its done event.  None is lost and
\* none is left over for the next frontend.
OneWakeup ==
  \A f \in Frontends :
    pc[f] = "wait" /\ alive = Handles =>
      sem["fire"] + sem["done"] + (IF fpc \in Busy THEN 1 ELSE 0) = 1

\* An event is never set twice before it is taken.  This is what makes the
\* counting semaphores of http_sys_linux.c and the auto-reset events of
\* http_sys_w32.c behave alike.
EventsBinary == \A e \in alive \cap Events : sem[e] <= 1

\* http_mpm_close deletes no handle before the accepter and fastcgi are
\* through with it, and the interpreter is finalised by then.
QuietAtDelete ==
  alive # Handles => apc \in {"ending", "ended"} /\ fpc = "ended" /\ ~heap

\* The cells are good for as long as the accepter runs: only what happens
\* after its stack is gone can make a thread use a wild pointer.
NoCrashWhileServing == fault = "cell" => apc = "ended"

\* http_mpm_close of a started server returns, or the process died on the way
\* (see NoCrashWhileServing): no thread it joins waits for ever.
CloseReturns ==
  mpc = "breakAccepter" /\ apc # "none" ~> mpc = "closed" \/ ~Running

\* A frontend that fired gets its answer, unless the server is being closed.
AnswerArrives ==
  \A f \in Frontends : pc[f] = "wait" ~> pc[f] # "wait" \/ Closing

-----------------------------------------------------------------------------
(***************************************************************************)
(* The inductive invariant: who has been joined, whose turn the handshake  *)
(* is, and what the cells hold at each point of it.                        *)
(***************************************************************************)

AccepterOver == apc \in {"ending", "ended"}

\* Joining: an exit event comes from a thread that is over, and handles are
\* deleted only after both were taken, "done" after "fire".
JoinInv ==
  /\ mpc \notin {"delete", "closed"} => alive = Handles
  /\ mpc \in {"delete", "closed"} => AccepterOver /\ fpc = "ended"
  /\ mpc = "joinFastcgi" \/ sem["accepter_exit"] > 0 => AccepterOver
  /\ sem["fastcgi_exit"] > 0 => fpc = "ended"
  /\ "fire" \in alive => "done" \in alive
  /\ mpc \in {"new", "ready"} => apc = "none"
  /\ apc \in {"none", "spawn"} => fpc = "none"

\* fastcgi has an interpreter only between its two callbacks, and polls for
\* another request only when the round is not over.
RoundInv ==
  /\ fpc \in {"none", "top", "init", "exit", "ended"} => ~heap
  /\ fpc \in {"poll"} \cup Busy => nr < MaxRequests

\* Each of these events is set once in the life of the server.
OnceInv ==
  /\ \A e \in Events \ {"fire", "done"} : sem[e] <= 1
  /\ ~Closing \/ mpc = "breakAccepter" => sem["break_accepter"] = 0
  /\ ~Closing \/ mpc \in {"breakAccepter", "breakFastcgi"}
       => sem["break_fastcgi"] = 0

Busyness == IF fpc \in Busy THEN 1 ELSE 0
Tokens   == sem["fire"] + sem["done"] + Busyness

\* The turn: frontends exclude each other, the turn is passed on as a single
\* token while a frontend waits, and there is no token while none does.
TurnInv ==
  /\ \A f \in Frontends : pc[f] \in Inside => mutex = f
  /\ "done" \in intact =>
       /\ Tokens <= 1
       /\ Tokens = 1 => mutex \in Frontends /\ pc[mutex] = "wait"
  /\ \A f \in Frontends : pc[f] = "wait" /\ alive = Handles => Tokens = 1

\* What a cell may read as besides what was put there.
Wild == IF apc = "ended" THEN {Null, Junk} ELSE {}

\* The request a frontend holds is the last one it received.
HoldInv ==
  \A f \in Frontends :
    IF pc[f] \in Inside \cup {"lock", "reply"}
    THEN req[f] \in Requests /\ req[f] = <<f, reqNo[f]>>
    ELSE req[f] = Null

\* The cells and their copies belong to the frontend whose turn it is.
CellInv ==
  /\ \A f \in Frontends :
       /\ pc[f] \in {"fire", "wait"} => slotReq \in {req[f]} \cup Wild
       /\ pc[f] = "take" => slotRes \in {req[f], Null} \cup Wild
       /\ IF pc[f] \in {"give", "reply"}
          THEN res[f] \in {req[f], Null} \cup Wild
          ELSE res[f] = Null
  /\ fpc = "process" => creq \in {req[mutex]} \cup Wild
  /\ fpc = "write" => cres \in {req[mutex], Null}
  /\ fpc = "signal" \/ ("done" \in intact /\ sem["done"] = 1)
       => slotRes \in {req[mutex], Null} \cup Wild

IInv ==
  /\ TypeOK /\ JoinInv /\ RoundInv /\ OnceInv /\ TurnInv /\ HoldInv /\ CellInv
  /\ NoCrashWhileServing

-----------------------------------------------------------------------------
(* Refinement of RequestService. *)

PhaseOf(f) ==
  CASE pc[f] = "none" -> "absent"
    [] pc[f] = "recv" -> "open"
    [] pc[f] \in {"close", "ended", "orphan"} -> "closed"
    [] OTHER -> IF fpc = "process" /\ creq = req[f] THEN "executing"
                ELSE IF req[f] \in processed THEN "executed"
                ELSE "pending"

phaseBar == [f \in Frontends |-> PhaseOf(f)]

Service ==
  INSTANCE RequestService
    WITH Clients <- Frontends, MaxAsks <- MaxReqs, None <- Null,
         Error <- Error500, phase <- phaseBar, asked <- reqNo, reply <- sent

\* What connects the responses to the interpreter: a request is finished by it
\* once, after it was fired, and only then does a response to it exist.
ExecInv ==
  /\ \A f \in Frontends : \A k \in 1 .. MaxReqs :
       <<f, k>> \in processed => k <= reqNo[f]
  /\ \A f \in Frontends :
       pc[f] \in {"lock", "put", "fire"} => req[f] \notin processed
  /\ fpc \in {"read", "process"} \/ ("done" \in intact /\ sem["fire"] = 1)
       => req[mutex] \notin processed
  /\ cres \in Requests => cres \in processed
  /\ slotRes \in Requests => slotRes \in processed
  /\ \A f \in Frontends : res[f] \in Requests => res[f] \in processed

\* The threads keep the promise of RequestService to every client.
ServiceSpec == Service!Spec

=============================================================================
