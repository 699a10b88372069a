------------------------------ MODULE Subprocess ------------------------------
(***************************************************************************)
(* Child processes of a script: psopen, pswait and psclose                 *)
(* (subprocess_linux.c) with the objects dukpylib.c builds around them,    *)
(* and the descriptor table they share with the other threads of the       *)
(* server.                                                                 *)
(*                                                                         *)
(* An object is named by its process.  Its stdin and stdout objects keep   *)
(* the NUMBERS of the descriptors, whatever becomes of these.  Nothing is  *)
(* close-on-exec: a child inherits every descriptor that is open (the      *)
(* connections among them are left out: nobody waits for their end here).  *)
(***************************************************************************)
EXTENDS Naturals, FiniteSets

CONSTANTS
  MaxProcs,     \* BOUND: subprocess objects of the script
  MaxSockets,   \* BOUND: connections of the frontend threads at a time
  MaxFd,        \* BOUND: the descriptors left of the process's limit
  PipeSize,     \* bytes a pipe holds
  NoFd          \* -1

Fds   == 1 .. MaxFd
Procs == 1 .. MaxProcs  \* numbered in the order they are opened
NoOne == 0

ASSUME SubprocessAssumption ==
  /\ MaxFd \in Nat /\ PipeSize \in Nat \ {0}
  /\ NoFd \notin Fds
  /\ MaxSockets \in Nat /\ MaxProcs \in Nat

VARIABLES
  fd,     \* the descriptor table of the server: number -> end
  holds,  \* process -> ends of pipes it has inherited
  child,  \* process -> what the kernel knows of it
  inn,    \* process -> bytes in the pipe to its stdin
  out,    \* process -> bytes in the pipe from its stdout
  ps,     \* process -> subprocess_t, with the state of its object
  op,     \* the call the script is in; n counts the signals psclose sends
  tmp,    \* the local variables of psopen
  stray   \* HISTORY: <<p, how>>: p has used an end that is not its own

vars == <<fd, holds, child, inn, out, ps, op, tmp, stray>>
kernelVars == <<holds, child, inn, out>>

\* "live": pid > 0; "waited": pid = 0; "freed": __handler__ is undefined
States == {"none", "failed", "live", "waited", "freed"}
Calls  == {"idle", "pipe", "fork", "ends", "write", "read", "wait", "kill"}

In(p)     == <<p, "in">>          \* ends: the child reads In, the script InW
InW(p)    == <<p, "in_w">>
Out(p)    == <<p, "out">>
OutW(p)   == <<p, "out_w">>
Socket    == <<NoOne, "socket">>
Unused    == <<NoOne, "unused">>

PipeEnds == {In(p) : p \in Procs} \cup {InW(p) : p \in Procs}
            \cup {Out(p) : p \in Procs} \cup {OutW(p) : p \in Procs}

Ends == PipeEnds \cup {Socket}

Idle   == [do |-> "idle", of |-> NoOne, n |-> 0]
NoTmp  == [inR |-> NoFd, inW |-> NoFd, outR |-> NoFd, outW |-> NoFd]
NoProc == [state |-> "none", in |-> NoFd, out |-> NoFd]

Init ==
  /\ fd = [d \in Fds |-> Unused]
  /\ holds = [p \in Procs |-> {}]
  /\ child = [p \in Procs |-> "none"]
  /\ inn = [p \in Procs |-> 0] /\ out = [p \in Procs |-> 0]
  /\ ps = [p \in Procs |-> NoProc]
  /\ op = Idle /\ tmp = NoTmp
  /\ stray = {}

-----------------------------------------------------------------------------
(* Descriptors.  The kernel gives out the lowest free number. *)

Free == {d \in Fds : fd[d] = Unused}
Lowest(ds) == CHOOSE d \in ds : \A e \in ds : d <= e
First  == Lowest(Free)
Second == Lowest(Free \ {First})
Third  == Lowest(Free \ {First, Second})

\* close() of some numbers; closing -1 or a free number has no effect.
CloseAll(ds) == fd' = [d \in Fds |-> IF d \in ds THEN Unused ELSE fd[d]]

\* Object p uses the given numbers: whose are they?
Uses(p, how, ds) ==
  stray' = IF \E d \in ds \cap Fds : fd[d] # Unused /\ fd[d][1] # p
           THEN stray \cup {<<p, how>>} ELSE stray

\* Somebody has the end open, here or in a child.
Held(e) == (\E d \in Fds : fd[d] = e) \/ (\E q \in Procs : e \in holds[q])

\* What dup returns after pipe: there may be no third number.
Dup == IF Cardinality(Free) >= 3 THEN Third ELSE NoFd

\* pipe(), dup() of the end the child is to have, close() of the original.
\* The result of dup is not checked.  No other thread comes in between, here.
CreatePipe(at, kept, given) ==
  /\ Cardinality(Free) >= 2
  /\ fd' = [d \in Fds |-> CASE d = at -> kept [] d = Dup -> given
                             [] OTHER -> fd[d]]

\* The other threads accept and close connections.
SocketOpen ==
  /\ Cardinality({d \in Fds : fd[d] = Socket}) < MaxSockets
  /\ Free # {}
  /\ fd' = [fd EXCEPT ![First] = Socket]
  /\ UNCHANGED <<kernelVars, ps, op, tmp, stray>>

SocketClose(d) ==
  /\ fd[d] = Socket
  /\ CloseAll({d})
  /\ UNCHANGED <<kernelVars, ps, op, tmp, stray>>

-----------------------------------------------------------------------------
(* psopen *)

Begin(do, p, n) == op = Idle /\ op' = [do |-> do, of |-> p, n |-> n]
At(do, p)       == op.do = do /\ op.of = p
Goto(do)        == op' = [op EXCEPT !.do = do]
Done            == op' = Idle

\* psopen closes what it has opened and returns NULL; _ps_open throws.
Fails(p, ds) ==
  /\ CloseAll(ds)
  /\ Done /\ tmp' = NoTmp
  /\ ps' = [ps EXCEPT ![p].state = "failed"]

IsNext(p) == \A q \in Procs : ps[q].state = "none" <=> q >= p

OpenFails(p) ==
  /\ op = Idle /\ IsNext(p)
  /\ Cardinality(Free) < 2
  /\ Fails(p, {})
  /\ UNCHANGED <<kernelVars, stray>>

\* _create_pipe_stdin
Open(p) ==
  /\ Begin("pipe", p, 0)
  /\ IsNext(p)
  /\ CreatePipe(Second, InW(p), In(p))
  /\ tmp' = [NoTmp EXCEPT !.inR = Dup, !.inW = Second]
  /\ UNCHANGED <<kernelVars, ps, stray>>

\* MUTANT: the first pipe is forgotten when the second one fails.
OpenOutForgets(p) ==
  /\ At("pipe", p)
  /\ Cardinality(Free) < 2
  /\ Fails(p, {})
  /\ UNCHANGED <<kernelVars, stray>>

OpenOutFails(p) ==
  /\ At("pipe", p)
  /\ Cardinality(Free) < 2
  /\ Fails(p, {tmp.inR, tmp.inW})
  /\ UNCHANGED <<kernelVars, stray>>

\* _create_pipe_stdout
OpenOut(p) ==
  /\ At("pipe", p) /\ Goto("fork")
  /\ CreatePipe(First, Out(p), OutW(p))
  /\ tmp' = [tmp EXCEPT !.outR = First, !.outW = Dup]
  /\ UNCHANGED <<kernelVars, ps, stray>>

\* vfork; the child exits at once when an end it should have is missing.
Fork(p) ==
  /\ At("fork", p) /\ Goto("ends")
  /\ IF NoFd \in {tmp.inR, tmp.outW}
     THEN child' = [child EXCEPT ![p] = "zombie"] /\ UNCHANGED holds
     ELSE /\ child' = [child EXCEPT ![p] = "running"]
          /\ holds' = [holds EXCEPT ![p] = {fd[d] : d \in Fds} \cap PipeEnds]
  /\ UNCHANGED <<fd, inn, out, ps, tmp, stray>>

ForkFails(p) ==
  /\ At("fork", p)
  /\ Fails(p, {tmp.inR, tmp.inW, tmp.outR, tmp.outW})
  /\ UNCHANGED <<kernelVars, stray>>

\* MUTANT: the server keeps the end its child writes to.
CloseOneEnd(p) ==
  /\ At("ends", p) /\ Done /\ tmp' = NoTmp
  /\ CloseAll({tmp.inR})
  /\ ps' = [ps EXCEPT ![p] = [state |-> "live", in |-> tmp.inW,
                              out |-> tmp.outR]]
  /\ UNCHANGED <<kernelVars, stray>>

\* The ends of the child are closed; _ps_open builds the objects.
CloseEnds(p) ==
  /\ At("ends", p) /\ Done /\ tmp' = NoTmp
  /\ CloseAll({tmp.inR, tmp.outW})
  /\ ps' = [ps EXCEPT ![p] = [state |-> "live", in |-> tmp.inW,
                              out |-> tmp.outR]]
  /\ UNCHANGED <<kernelVars, stray>>

-----------------------------------------------------------------------------
(* stdin.write and stdout.read.  They use the number they were given, also   *)
(* after wait and close.                                                     *)

HasNumbers(p) == ps[p].state \in {"live", "waited", "freed"}

Write(p) ==
  /\ HasNumbers(p)
  /\ Begin("write", p, 0)
  /\ UNCHANGED <<fd, kernelVars, ps, tmp, stray>>

\* A byte goes into the pipe, of whomever it is, and it may be the last one.
WriteByte(p, q) ==
  /\ At("write", p) /\ fd[ps[p].in] = InW(q)
  /\ Held(In(q)) /\ inn[q] < PipeSize
  /\ inn' = [inn EXCEPT ![q] = @ + 1]
  /\ Done \/ UNCHANGED op
  /\ Uses(p, "write", {ps[p].in})
  /\ UNCHANGED <<fd, holds, child, out, ps, tmp>>

\* The bytes go to the client of a connection.
WriteSocket(p) ==
  /\ At("write", p) /\ Done
  /\ fd[ps[p].in] = Socket
  /\ Uses(p, "write", {ps[p].in})
  /\ UNCHANGED <<fd, kernelVars, ps, tmp>>

\* EBADF, or nobody can read the pipe (the server ignores SIGPIPE): "native
\* write fail".
WriteFails(p) ==
  /\ At("write", p) /\ Done
  /\ \/ fd[ps[p].in] = Unused
     \/ \E q \in Procs : \/ fd[ps[p].in] \in {Out(q), In(q)}
                         \/ fd[ps[p].in] = InW(q) /\ ~Held(In(q))
  /\ UNCHANGED <<fd, kernelVars, ps, tmp, stray>>

Read(p) ==
  /\ HasNumbers(p)
  /\ Begin("read", p, 0)
  /\ UNCHANGED <<fd, kernelVars, ps, tmp, stray>>

\* Some of what is there, or null at the end of the output.
ReadBytes(p, q) ==
  /\ At("read", p) /\ fd[ps[p].out] = Out(q)
  /\ \/ \E n \in 1 .. out[q] : out' = [out EXCEPT ![q] = @ - n]
     \/ out[q] = 0 /\ ~Held(OutW(q)) /\ UNCHANGED out
  /\ Done
  /\ Uses(p, "read", {ps[p].out})
  /\ UNCHANGED <<fd, holds, child, inn, ps, tmp>>

\* Bytes a client has sent, when there are any.
ReadSocket(p) ==
  /\ At("read", p) /\ Done
  /\ fd[ps[p].out] = Socket
  /\ Uses(p, "read", {ps[p].out})
  /\ UNCHANGED <<fd, kernelVars, ps, tmp>>

ReadFails(p) ==
  /\ At("read", p) /\ Done
  /\ fd[ps[p].out] \in {InW(q) : q \in Procs} \cup {Unused}
  /\ UNCHANGED <<fd, kernelVars, ps, tmp, stray>>

-----------------------------------------------------------------------------
(* pswait and psclose *)

Wait(p) ==
  /\ ps[p].state = "live"
  /\ Begin("wait", p, 0)
  /\ UNCHANGED <<fd, kernelVars, ps, tmp, stray>>

\* MUTANT: pid is not reset.
ReapKeepsPid(p) ==
  /\ At("wait", p) /\ Done
  /\ child[p] \in {"zombie", "reaped"}
  /\ child' = [child EXCEPT ![p] = "reaped"]
  /\ CloseAll({ps[p].in, ps[p].out})
  /\ Uses(p, "close", {ps[p].in, ps[p].out})
  /\ UNCHANGED <<holds, inn, out, ps, tmp>>

\* waitpid returns when the child has ended; only then are its pipes closed.
Reap(p) ==
  /\ At("wait", p) /\ Done
  /\ child[p] = "zombie"
  /\ child' = [child EXCEPT ![p] = "reaped"]
  /\ ps' = [ps EXCEPT ![p].state = "waited"]
  /\ CloseAll({ps[p].in, ps[p].out})
  /\ Uses(p, "close", {ps[p].in, ps[p].out})
  /\ UNCHANGED <<holds, inn, out, tmp>>

\* close(), or the finalizer of the object, before wait.
Close(p) ==
  /\ ps[p].state = "live"
  /\ Begin("kill", p, 1)
  /\ CloseAll({ps[p].in, ps[p].out})
  /\ Uses(p, "close", {ps[p].in, ps[p].out})
  /\ UNCHANGED <<kernelVars, ps, tmp>>

\* After wait there is nothing to do but to free the handle.
CloseWaited(p) ==
  /\ op = Idle
  /\ ps[p].state = "waited"
  /\ ps' = [ps EXCEPT ![p].state = "freed"]
  /\ UNCHANGED <<fd, kernelVars, op, tmp, stray>>

\* SIGINT, SIGTERM, SIGABRT and SIGKILL; a child may survive all but the last.
Signals == 4

\* A child has forked nobody who would keep its ends.
Dies(p) ==
  /\ child[p] = "running"
  /\ child' = [child EXCEPT ![p] = "zombie"]
  /\ holds' = [holds EXCEPT ![p] = {}]

\* kill(pid, 0) fails only when somebody has waited for the child.
Kill(p) ==
  /\ At("kill", p)
  /\ \/ Dies(p)
     \/ child[p] # "running" /\ UNCHANGED <<child, holds>>
     \/ op.n < Signals /\ UNCHANGED <<child, holds>>
  /\ IF op.n = Signals \/ child[p] = "reaped"
     THEN Done /\ ps' = [ps EXCEPT ![p].state = "freed"]
     ELSE op' = [op EXCEPT !.n = @ + 1] /\ UNCHANGED ps
  /\ UNCHANGED <<fd, inn, out, tmp, stray>>

-----------------------------------------------------------------------------
(* The children (external). *)

ChildRead(p) ==
  /\ child[p] = "running" /\ inn[p] > 0
  /\ inn' = [inn EXCEPT ![p] = @ - 1]
  /\ UNCHANGED <<fd, holds, child, out, ps, op, tmp, stray>>

ChildWrite(p) ==
  /\ child[p] = "running" /\ out[p] < PipeSize
  /\ out' = [out EXCEPT ![p] = @ + 1]
  /\ UNCHANGED <<fd, holds, child, inn, ps, op, tmp, stray>>

ChildExit(p) ==
  /\ Dies(p)
  /\ UNCHANGED <<fd, inn, out, ps, op, tmp, stray>>

-----------------------------------------------------------------------------
\* What the script has begun, and the library goes on with.
Call(p) ==
  \/ OpenOut(p) \/ OpenOutFails(p) \/ Fork(p) \/ ForkFails(p) \/ CloseEnds(p)
  \/ WriteSocket(p) \/ WriteFails(p) \/ ReadSocket(p) \/ ReadFails(p)
  \/ Reap(p) \/ Kill(p)
  \/ \E q \in Procs : WriteByte(p, q) \/ ReadBytes(p, q)

Script(p) ==
  \/ OpenFails(p) \/ Open(p) \/ Write(p) \/ Read(p) \/ Wait(p) \/ Close(p)
  \/ CloseWaited(p)

Next ==
  \/ \E p \in Procs :
       Call(p) \/ Script(p) \/ ChildRead(p) \/ ChildWrite(p) \/ ChildExit(p)
  \/ SocketOpen
  \/ \E d \in Fds : SocketClose(d)

Spec == Init /\ [][Next]_vars

\* Fairness: the fastcgi thread runs.  Nothing is assumed of scripts, children
\* and clients.
FairSpec == Spec /\ WF_vars(\E p \in Procs : Call(p))

-----------------------------------------------------------------------------
\* The types.
TypeOK ==
  /\ fd \in [Fds -> Ends \cup {Unused}]
  /\ holds \in [Procs -> SUBSET PipeEnds]
  /\ child \in [Procs -> {"none", "running", "zombie", "reaped"}]
  /\ inn \in [Procs -> 0 .. PipeSize] /\ out \in [Procs -> 0 .. PipeSize]
  /\ ps \in [Procs -> [state : States, in : Fds \cup {NoFd},
                       out : Fds \cup {NoFd}]]
  /\ op \in [do : Calls, of : Procs \cup {NoOne}, n : 0 .. Signals]
  /\ tmp \in [{"inR", "inW", "outR", "outW"} -> Fds \cup {NoFd}]
  /\ stray \subseteq Procs \X {"write", "read", "close"}

Live(p) == ps[p].state = "live" /\ ~At("kill", p)

\* Whatever fails in between, and whatever else is open: the pipes the server
\* has open are those of the objects that have been neither waited for nor
\* closed, each end once.
PipesAccounted ==
  op.do \notin {"pipe", "fork", "ends"} =>
    \A d \in Fds, p \in Procs :
      /\ fd[d] = InW(p) <=> Live(p) /\ d = ps[p].in
      /\ fd[d] = Out(p) <=> Live(p) /\ d = ps[p].out
      /\ fd[d] \notin {In(p), OutW(p)}

\* The numbers are closed once, never again when they may be somebody else's;
\* and a script that keeps to objects it has not waited for and not closed
\* reaches its own children only: no other child, and no client of the server.
OnlyOwnUsed ==
  \A p \in Procs :
    /\ <<p, "close">> \notin stray
    /\ ps[p].state \notin {"waited", "freed"} =>
         <<p, "write">> \notin stray /\ <<p, "read">> \notin stray

\* A script that reads the output of a child that has ended gets it, or null:
\* nobody else, and no other child, holds the end that is written to.
ReadReturns ==
  \A p \in Procs :
    (At("read", p) /\ ps[p].state = "live" /\ child[p] # "running")
      ~> ~At("read", p)
=============================================================================
