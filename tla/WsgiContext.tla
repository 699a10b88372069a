----------------------------- MODULE WsgiContext -----------------------------
(***************************************************************************)
(* What the fastcgi thread keeps in one interpreter from request to        *)
(* request: wsgi_server.c (the callbacks of http_mpm and start_response)   *)
(* and include() of dukpylib.c.                                            *)
(*                                                                         *)
(* Every request evaluates include(__file__) and then                      *)
(* application(environ, start_response).  The script decides what it       *)
(* includes, what it calls and what it throws or catches; all of that is   *)
(* left open here.  A path is identified with the file it resolves to.     *)
(* A value a script leaves in a global variable is named by the request    *)
(* during which it was put there.  The fields _put_request gives environ   *)
(* are left out, its copy of the body with them: HttpRecv's CopyFaults.    *)
(***************************************************************************)
EXTENDS Naturals, Sequences

CONSTANTS
  Files,        \* the scripts
  Script,       \* argv[0], the script the server was started with
  MaxRequests,  \* HTTP_MPM_MAX_REQUESTS
  MaxDepth,     \* BOUND: files that are being included at a time
  MaxTraces     \* BOUND: length of traces

ASSUME WsgiAssumption ==
  /\ Script \in Files
  /\ MaxRequests \in Nat /\ MaxDepth \in Nat /\ MaxTraces \in Nat

VARIABLES
  phase,    \* what _wsgi_process is at
  reqs,     \* requests this interpreter has been given; names the current one
  file,     \* global.__file__
  traces,   \* global.Modules.traces
  frames,   \* the files whose evaluation include() is waiting for
  app,      \* global.application has been defined
  status,   \* the request that set global.__http_response_status__, 0: none
  headers,  \* global.__http_response_headers__: [by |-> request, is |-> kind]
  stack,    \* values left on the value stack of the interpreter
  response, \* the last result of _wsgi_process
  threw     \* HISTORY: something was thrown in this interpreter

vars == << phase, reqs, file, traces, frames, app, status, headers, stack,
           response, threw >>

scriptVars == <<file, traces, frames>>
resultVars == <<stack, response>>

Phases == {"none", "idle", "include", "ready", "call"}
Kinds  == {"undefined", "object", "globals", "other"}

NoHeaders  == [by |-> 0, is |-> "undefined"]
NoResponse == [status |-> 0, headers |-> 0]

Init ==
  /\ phase = "none" /\ reqs = 0
  /\ file = Script /\ traces = <<>> /\ frames = <<>>
  /\ app = FALSE
  /\ status = 0 /\ headers = NoHeaders
  /\ stack = 0 /\ response = NoResponse
  /\ threw = FALSE

\* _wsgi_initialize: a new heap with the library, and __file__ from argv.
Initialize ==
  /\ phase = "none" /\ phase' = "idle"
  /\ reqs' = 0
  /\ file' = Script /\ traces' = <<>> /\ frames' = <<>>
  /\ app' = FALSE
  /\ status' = 0 /\ headers' = NoHeaders
  /\ stack' = 0 /\ threw' = FALSE
  /\ UNCHANGED response

\* _wsgi_finalize: duk_destroy_heap.
Finalize ==
  /\ phase = "idle" /\ phase' = "none"
  /\ UNCHANGED <<reqs, scriptVars, app, status, headers, resultVars, threw>>

-----------------------------------------------------------------------------
(* include() *)

\* MUTANT: __file__ is remembered after it was replaced.
EnterLate(f) ==
  /\ Len(frames) < MaxDepth /\ Len(traces) < MaxTraces
  /\ traces' = Append(traces, f)
  /\ file' = f
  /\ frames' = Append(frames, f)

\* Remember __file__ in traces, set it to the included file, evaluate that.
Enter(f) ==
  /\ Len(frames) < MaxDepth /\ Len(traces) < MaxTraces
  /\ traces' = Append(traces, file)
  /\ file' = f
  /\ frames' = Append(frames, f)

\* The file was evaluated: __file__ is taken back from traces.
Leave ==
  /\ frames # <<>>
  /\ file' = traces[Len(traces)]
  /\ traces' = SubSeq(traces, 1, Len(traces) - 1)
  /\ frames' = SubSeq(frames, 1, Len(frames) - 1)

\* A script that is being evaluated, or application(), includes a file.
Include(f) ==
  /\ phase \in {"include", "call"}
  /\ Enter(f)
  /\ UNCHANGED <<phase, reqs, app, status, headers, resultVars, threw>>

\* An include returns.  The first one makes _wsgi_process go on.
Return ==
  /\ phase \in {"include", "call"}
  /\ Leave
  /\ phase' = IF phase = "include" /\ Len(frames) = 1 THEN "ready" ELSE phase
  /\ UNCHANGED <<reqs, app, status, headers, resultVars, threw>>

\* MUTANT: when an evaluation fails all of traces is dropped, not its last entry.
CatchHalf ==
  /\ phase \in {"include", "call"}
  /\ Len(frames) > (IF phase = "include" THEN 1 ELSE 0)
  /\ frames' = SubSeq(frames, 1, Len(frames) - 1)
  /\ traces' = <<>>
  /\ threw' = TRUE
  /\ UNCHANGED <<phase, reqs, file, app, status, headers, resultVars>>

\* The evaluation of an included file throws (duk_peval_file # 0, the error is
\* thrown on) and the script that included it catches that: the include is
\* over, but neither __file__ nor traces are put back.
Catch ==
  /\ phase \in {"include", "call"}
  /\ Len(frames) > (IF phase = "include" THEN 1 ELSE 0)
  /\ frames' = SubSeq(frames, 1, Len(frames) - 1)
  /\ threw' = TRUE
  /\ UNCHANGED <<phase, reqs, file, traces, app, status, headers, resultVars>>

-----------------------------------------------------------------------------
(* _wsgi_process *)

\* _put_request replaces environ; then include(__file__) is evaluated.
Begin ==
  /\ phase = "idle" /\ phase' = "include"
  /\ reqs < MaxRequests
  /\ reqs' = reqs + 1
  /\ Enter(file)
  /\ UNCHANGED <<app, status, headers, resultVars, threw>>

\* A script defines application.
Define ==
  /\ phase \in {"include", "call"}
  /\ app' = TRUE
  /\ UNCHANGED <<phase, reqs, scriptVars, status, headers, resultVars, threw>>

\* The request fails: the error is popped again, what include(__file__) left
\* on the stack stays there when it was application() that failed.
Fail ==
  /\ phase' = "idle"
  /\ frames' = <<>>
  /\ threw' = TRUE
  /\ response' = NoResponse
  /\ stack' = IF phase = "include" THEN stack ELSE stack + 1
  /\ UNCHANGED <<reqs, file, traces, app, status, headers>>

\* Nobody catches what a script throws.
Throw ==
  /\ phase \in {"include", "call"}
  /\ Fail

\* The second evaluation: application(environ, start_response).
Call ==
  /\ phase = "ready" /\ phase' = "call"
  /\ app
  /\ UNCHANGED <<reqs, scriptVars, app, status, headers, resultVars, threw>>

CallUndefined ==
  /\ phase = "ready"
  /\ ~app
  /\ Fail

\* MUTANT: the object check looks at the argument, and throws when the status
\* has been set; the script catches that.
StartResponseChecked ==
  /\ phase \in {"include", "call"}
  /\ status' = reqs
  /\ \E kind \in {"object", "other"} :
       headers' = IF kind = "object" THEN [by |-> reqs, is |-> kind]
                                     ELSE headers
  /\ UNCHANGED <<phase, reqs, scriptVars, app, resultVars, threw>>

\* start_response(status, headers).  The number is checked.  The object check
\* looks at the global object it has just pushed, so that it never fails, and
\* with the status alone argument 1 IS that global object.  (Without a number
\* it throws: Throw, or a script that goes on without any of this.)  The kind
\* "other" is any value that is not an object.
StartResponse ==
  /\ phase \in {"include", "call"}
  /\ status' = reqs
  /\ \E kind \in Kinds \ {"undefined"} :
       headers' = [by |-> reqs, is |-> kind]
  /\ UNCHANGED <<phase, reqs, scriptVars, app, resultVars, threw>>

\* MUTANT: an early return of _get_response leaves more on the stack.
RespondLeaky ==
  /\ phase = "call" /\ phase' = "idle"
  /\ frames = <<>>
  /\ response' = NoResponse
  /\ stack' = stack + 4
  /\ UNCHANGED <<reqs, scriptVars, app, status, headers, threw>>

\* application() returns, _get_response builds the response from the globals.
\* Its early returns leave its own values on the stack (and the second
\* one forgets the response it has allocated).
Respond ==
  /\ phase = "call" /\ phase' = "idle"
  /\ frames = <<>>
  /\ \/ /\ status = 0
        /\ response' = NoResponse
        /\ stack' = stack + 3
     \/ /\ status # 0 /\ headers.is \in {"undefined", "other"}
        /\ response' = NoResponse
        /\ stack' = stack + 3
     \/ /\ status # 0 /\ headers.is \in {"object", "globals"}
        /\ response' = [status |-> status, headers |-> headers.by]
        /\ stack' = stack + 1
  /\ UNCHANGED <<reqs, scriptVars, app, status, headers, threw>>

Next ==
  \/ Initialize \/ Finalize \/ Begin \/ Return \/ Catch \/ Define \/ Throw
  \/ Call \/ CallUndefined \/ StartResponse \/ Respond
  \/ \E f \in Files : Include(f)

Spec == Init /\ [][Next]_vars

-----------------------------------------------------------------------------
(* Properties *)

\* The types.
TypeOK ==
  /\ phase \in Phases
  /\ reqs \in 0..MaxRequests
  /\ file \in Files /\ traces \in Seq(Files) /\ frames \in Seq(Files)
  /\ app \in BOOLEAN
  /\ status \in 0..MaxRequests
  /\ headers \in [by : 0..MaxRequests, is : Kinds]
  /\ stack \in Nat
  /\ response \in [status : 0..MaxRequests, headers : 0..MaxRequests]
  /\ threw \in BOOLEAN

\* However includes nest, fail and are caught, traces holds an entry for every
\* include() that has yet to return: its pop never meets an empty array, which
\* would make __file__ undefined.
TracesNeverShort == Len(traces) >= Len(frames)

\* Until something is thrown, traces and __file__ are the chain of scripts from
\* argv[0] to the one being evaluated; with nothing left to evaluate, __file__
\* is argv[0] again and the next request starts there.
Nested == ~threw => Append(traces, file) = <<Script>> \o frames

\* What a request leaves on the value stack is at most three values, so that
\* the restart after MaxRequests bounds the stack of an interpreter.
StackBounded == stack <= 3 * reqs

\* A response is never a mixture: its status and its headers were given by the
\* same request, even when a script catches what start_response throws.
OneCall == response.status = response.headers

\* Between two evaluations no include() is active; the first one is.
Between ==
  /\ phase \in {"none", "idle", "ready"} => frames = <<>>
  /\ phase = "include" => frames # <<>>

\* Status and headers are set together; nothing can come between them.
SetTogether == status = headers.by

\* The request under way has left nothing on the stack yet.
Unspent ==
  phase \in {"include", "ready", "call"} => stack + 3 <= 3 * reqs

\* The inductive invariant: what the properties above rest on.
IInv ==
  /\ TypeOK /\ Between /\ TracesNeverShort /\ Nested
  /\ StackBounded /\ Unspent /\ SetTogether /\ OneCall

\* VIOLATED: "restore '__file__'" (dukpylib.c:1133).  Between two requests
\* __file__ is the script of the server.
FileRestored == phase = "idle" => file = Script

\* VIOLATED: "forgot call start_response?" (wsgi_server.c:223).  A response has
\* a status that its own request has set.
StatusOfThisRequest ==
  [][response' # response => response'.status \in {0, reqs}]_vars
=============================================================================
