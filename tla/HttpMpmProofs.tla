---------------------------- MODULE HttpMpmProofs ----------------------------
(***************************************************************************)
(* IInv of HttpMpm is an inductive invariant, for every number of          *)
(* connections and requests, for both kinds of events, and with thread     *)
(* creation failing or not; the safety invariants of HttpMpm follow.  And  *)
(* HttpMpm implements RequestService: every step of a thread is a step of  *)
(* the service to one client, or changes nothing the clients can see.      *)
(***************************************************************************)
EXTENDS HttpMpm, TLAPS

USE DEF Running, Dies, Main, Accepter, Fastcgi, Frontend,
        mainVars, cellVars, fastcgiVars, frontVars

LEMMA TypeStep == ASSUME IInv, Next PROVE TypeOK'
<1> USE MpmAssumption
<1> USE DEF Set, Take, Miss, Events, Handles, Pointers,
            MainLabels, AccepterLabels, FastcgiLabels, FrontLabels
<1> TypeOK /\ RoundInv BY DEF IInv
<1> USE DEF TypeOK
<1>1. CASE MainNext
  <2>1. CASE MainSetProcess BY <2>1 DEF MainSetProcess
  <2>2. CASE MainStart BY <2>2 DEF MainStart
  <2>3. CASE MainClose BY <2>3 DEF MainClose
  <2>4. CASE MainBreakAccepter BY <2>4 DEF MainBreakAccepter
  <2>5. CASE MainBreakFastcgi BY <2>5 DEF MainBreakFastcgi
  <2>6. CASE MainJoinAccepter BY <2>6 DEF MainJoinAccepter
  <2>7. CASE MainJoinFastcgi BY <2>7 DEF MainJoinFastcgi
  <2>8. ASSUME NEW h \in Handles, MainDelete(h) PROVE TypeOK'
    <3>1. mpc' \in MainLabels BY <2>8 DEF MainDelete
    <3>2. QED BY <2>8, <3>1 DEF MainDelete
  <2>9. ASSUME NEW h \in Handles, Reuse(h) PROVE TypeOK' BY <2>9 DEF Reuse
  <2>10. QED
        BY <1>1, <2>1, <2>2, <2>3, <2>4, <2>5, <2>6, <2>7, <2>8, <2>9
           DEF MainNext
<1>2. CASE AccepterNext
  <2>1. CASE AcSpawn BY <2>1 DEF AcSpawn
  <2>2. CASE AcBreak BY <2>2 DEF AcBreak
  <2>3. CASE AcNoBreak BY <2>3 DEF AcNoBreak
  <2>4. CASE AcTimeout BY <2>4 DEF AcTimeout
  <2>5. CASE AcExit BY <2>5 DEF AcExit
  <2>6. CASE AcEnd BY <2>6 DEF AcEnd
  <2>7. ASSUME NEW f \in Frontends, AcConnection(f) PROVE TypeOK'
        BY <2>7 DEF AcConnection
  <2>8. QED
        BY <1>2, <2>1, <2>2, <2>3, <2>4, <2>5, <2>6, <2>7 DEF AccepterNext
<1>3. CASE FastcgiNext
  <2>1. CASE FcBreakAtTop BY <2>1 DEF FcBreakAtTop
  <2>2. CASE FcNoBreakAtTop BY <2>2 DEF FcNoBreakAtTop
  <2>3. CASE FcInitialize BY <2>3 DEF FcInitialize
  <2>4. CASE FcExhausted BY <2>4 DEF FcExhausted
  <2>5. CASE FcBreak BY <2>5 DEF FcBreak
  <2>6. CASE FcNoBreak BY <2>6 DEF FcNoBreak
  <2>7. CASE FcTimeout BY <2>7 DEF FcTimeout, RoundInv
  <2>8. CASE FcFired BY <2>8 DEF FcFired
  <2>9. CASE FcRead BY <2>9 DEF FcRead
  <2>10. CASE FcProcess BY <2>10 DEF FcProcess
  <2>11. CASE FcWrite BY <2>11 DEF FcWrite
  <2>12. CASE FcSignal BY <2>12 DEF FcSignal, RoundInv, Busy
  <2>13. CASE FcFinalize
    <3>1. fpc' \in FastcgiLabels BY <2>13 DEF FcFinalize
    <3>2. /\ UNCHANGED <<mainVars, sem, mutex, apc, cellVars, fbreak, nr, creq,
                         cres, processed, frontVars, fault>>
          /\ heap' \in BOOLEAN
      BY <2>13 DEF FcFinalize
    <3>3. QED BY <3>1, <3>2
  <2>14. CASE FcExit BY <2>14 DEF FcExit
  <2>15. CASE FcWild BY <2>15 DEF FcWild
  <2>16. QED
        BY <1>3, <2>1, <2>2, <2>3, <2>4, <2>5, <2>6, <2>7, <2>8, <2>9, <2>10,
        <2>11, <2>12, <2>13, <2>14, <2>15
           DEF FastcgiNext
<1>4. ASSUME NEW f \in Frontends, FrontendNext(f) PROVE TypeOK'
  <2>1. CASE FeRequest(f) BY <2>1 DEF FeRequest, Requests
  <2>2. CASE FeNoRequest(f) BY <2>2 DEF FeNoRequest
  <2>3. CASE FeLock(f) BY <2>3 DEF FeLock
  <2>4. CASE FeLockFails(f) BY <2>4 DEF FeLockFails
  <2>5. CASE FePut(f) BY <2>5 DEF FePut
  <2>6. CASE FeFire(f) BY <2>6 DEF FeFire
  <2>7. CASE FeDone(f) BY <2>7 DEF FeDone
  <2>8. CASE FeDoneFails(f) BY <2>8 DEF FeDoneFails
  <2>9. CASE FeTake(f) BY <2>9 DEF FeTake
  <2>10. CASE FeGive(f) BY <2>10 DEF FeGive
  <2>11. CASE FeReply(f) BY <2>11 DEF FeReply
  <2>12. CASE FeClose(f) BY <2>12 DEF FeClose
  <2>13. CASE FeWild(f) BY <2>13 DEF FeWild
  <2>14. QED
        BY <1>4, <2>1, <2>2, <2>3, <2>4, <2>5, <2>6, <2>7, <2>8, <2>9, <2>10,
        <2>11, <2>12, <2>13
           DEF FrontendNext
<1>5. CASE StackUnmapped BY <1>5 DEF StackUnmapped
<1>6. QED BY <1>1, <1>2, <1>3, <1>4, <1>5 DEF Next

-----------------------------------------------------------------------------
(* What the steps of one thread leave alone. *)

LEMMA MainFrame ==
  ASSUME TypeOK, JoinInv, MainNext
  PROVE  /\ UNCHANGED <<mutex, cellVars, fastcgiVars, frontVars>>
         /\ alive' \subseteq alive /\ intact' \subseteq intact
         /\ sem'["fire"] = sem["fire"] /\ sem'["done"] = sem["done"]
         /\ apc' = apc \/ (apc = "none" /\ apc' = "spawn")
BY DEF MainNext, MainSetProcess, MainStart, MainClose, MainBreakAccepter,
       MainBreakFastcgi, MainJoinAccepter, MainJoinFastcgi, MainDelete, Reuse,
       Set, Take, TypeOK, Events, JoinInv

LEMMA AccepterFrame ==
  ASSUME TypeOK, AccepterNext
  PROVE  /\ UNCHANGED <<mainVars, mutex, fbreak, nr, creq, cres, heap,
                        processed, req, res, reqNo, sent>>
         /\ \A e \in Events \ {"break_accepter", "accepter_exit"} :
              sem'[e] = sem[e]
BY DEF AccepterNext, AcSpawn, AcBreak, AcNoBreak, AcTimeout, AcConnection,
       AcExit, AcEnd, Set, Take, Miss, TypeOK, Events

LEMMA FastcgiFrame ==
  ASSUME TypeOK, FastcgiNext
  PROVE  /\ UNCHANGED <<mainVars, mutex, apc, slotReq, frontVars>>
         /\ \A e \in {"break_accepter", "accepter_exit"} : sem'[e] = sem[e]
BY DEF FastcgiNext, FcBreakAtTop, FcNoBreakAtTop, FcInitialize, FcExhausted,
       FcBreak, FcNoBreak, FcTimeout, FcFired, FcRead, FcProcess, FcWrite,
       FcSignal, FcFinalize, FcExit, FcWild, Set, Take, Miss, TypeOK, Events

LEMMA FrontendFrame ==
  ASSUME TypeOK, NEW f \in Frontends, FrontendNext(f)
  PROVE  /\ UNCHANGED <<mainVars, apc, fastcgiVars>>
         /\ \A e \in Events \ {"fire", "done"} : sem'[e] = sem[e]
         /\ \A g \in Frontends \ {f} :
              /\ pc'[g] = pc[g] /\ req'[g] = req[g]
              /\ res'[g] = res[g] /\ reqNo'[g] = reqNo[g]
BY DEF FrontendNext, FeRequest, FeNoRequest, FeLock, FeLockFails, FePut,
       FeFire, FeDone, FeDoneFails, FeTake, FeGive, FeReply, FeClose, FeWild,
       Set, Take, TypeOK, Events

-----------------------------------------------------------------------------
(* Joining, rounds and the events that are set once. *)

LEMMA JoinStep == ASSUME IInv, Next PROVE JoinInv'
<1> TypeOK /\ JoinInv BY DEF IInv
<1> USE DEF JoinInv, AccepterOver
<1>1. CASE MainNext
  <2>1. CASE MainSetProcess BY <2>1 DEF MainSetProcess
  <2>2. CASE MainStart BY <2>2 DEF MainStart
  <2>3. CASE MainClose BY <2>3 DEF MainClose
  <2>4. CASE MainBreakAccepter
    BY <2>4 DEF MainBreakAccepter, Set, TypeOK, Events
  <2>5. CASE MainBreakFastcgi
    BY <2>5 DEF MainBreakFastcgi, Set, TypeOK, Events
  <2>6. CASE MainJoinAccepter
    BY <2>6 DEF MainJoinAccepter, Take, TypeOK, Events
  <2>7. CASE MainJoinFastcgi
    BY <2>7 DEF MainJoinFastcgi, Take, TypeOK, Events
  <2>8. ASSUME NEW h \in Handles, MainDelete(h) PROVE JoinInv'
    <3>1. h = "done" => "fire" \notin alive
      BY <2>8 DEF MainDelete, DeleteRank
    <3>2. QED BY <2>8, <3>1 DEF MainDelete
  <2>9. ASSUME NEW h \in Handles, Reuse(h) PROVE JoinInv' BY <2>9 DEF Reuse
  <2>10. QED
    BY <1>1, <2>1, <2>2, <2>3, <2>4, <2>5, <2>6, <2>7, <2>8, <2>9 DEF MainNext
<1>2. CASE AccepterNext
  BY <1>2, AccepterFrame
  DEF AccepterNext, AcSpawn, AcBreak, AcNoBreak, AcTimeout, AcConnection,
      AcExit, AcEnd, Set, Take, Miss, TypeOK, Events
<1>3. CASE FastcgiNext
  BY <1>3, FastcgiFrame
  DEF FastcgiNext, FcBreakAtTop, FcNoBreakAtTop, FcInitialize, FcExhausted,
      FcBreak, FcNoBreak, FcTimeout, FcFired, FcRead, FcProcess, FcWrite,
      FcSignal, FcFinalize, FcExit, FcWild, Set, Take, Miss, TypeOK, Events
<1>4. ASSUME NEW f \in Frontends, FrontendNext(f) PROVE JoinInv'
  BY <1>4, FrontendFrame DEF Events
<1>5. CASE StackUnmapped BY <1>5 DEF StackUnmapped
<1>6. QED BY <1>1, <1>2, <1>3, <1>4, <1>5 DEF Next

LEMMA RoundStep == ASSUME IInv, Next PROVE RoundInv'
<1> TypeOK /\ JoinInv /\ RoundInv BY DEF IInv
<1> USE DEF RoundInv, Busy
<1>1. CASE MainNext BY <1>1, MainFrame
<1>2. CASE AccepterNext
  <2>1. CASE AcSpawn BY <2>1 DEF AcSpawn, JoinInv
  <2>2. CASE AcBreak \/ AcNoBreak \/ AcTimeout \/ AcExit \/ AcEnd
    BY <2>2 DEF AcBreak, AcNoBreak, AcTimeout, AcExit, AcEnd
  <2>3. ASSUME NEW f \in Frontends, AcConnection(f) PROVE RoundInv'
    BY <2>3 DEF AcConnection
  <2>4. QED BY <1>2, <2>1, <2>2, <2>3 DEF AccepterNext
<1>3. CASE FastcgiNext
  <2>1. CASE FcBreakAtTop \/ FcNoBreakAtTop
    BY <2>1 DEF FcBreakAtTop, FcNoBreakAtTop
  <2>2. CASE FcInitialize BY <2>2 DEF FcInitialize
  <2>3. CASE FcExhausted \/ FcBreak \/ FcNoBreak
    BY <2>3 DEF FcExhausted, FcBreak, FcNoBreak
  <2>4. CASE FcTimeout \/ FcFired BY <2>4 DEF FcTimeout, FcFired
  <2>5. CASE FcRead \/ FcProcess \/ FcWrite \/ FcSignal
    BY <2>5 DEF FcRead, FcProcess, FcWrite, FcSignal
  <2>6. CASE FcFinalize BY <2>6 DEF FcFinalize
  <2>7. CASE FcExit \/ FcWild BY <2>7 DEF FcExit, FcWild
  <2>8. QED
    BY <1>3, <2>1, <2>2, <2>3, <2>4, <2>5, <2>6, <2>7 DEF FastcgiNext
<1>4. ASSUME NEW f \in Frontends, FrontendNext(f) PROVE RoundInv'
  BY <1>4, FrontendFrame
<1>5. CASE StackUnmapped BY <1>5 DEF StackUnmapped
<1>6. QED BY <1>1, <1>2, <1>3, <1>4, <1>5 DEF Next

LEMMA OnceStep == ASSUME IInv, Next PROVE OnceInv'
<1> TypeOK /\ JoinInv /\ OnceInv BY DEF IInv
<1> USE DEF OnceInv, Closing
<1>1. CASE MainNext
  <2>1. CASE MainSetProcess \/ MainStart \/ MainClose
    BY <2>1 DEF MainSetProcess, MainStart, MainClose
  <2>2. CASE MainBreakAccepter
    BY <2>2, MpmAssumption DEF MainBreakAccepter, Set, TypeOK, Events
  <2>3. CASE MainBreakFastcgi
    BY <2>3, MpmAssumption DEF MainBreakFastcgi, Set, TypeOK, Events
  <2>4. CASE MainJoinAccepter
    BY <2>4 DEF MainJoinAccepter, Take, TypeOK, Events
  <2>5. CASE MainJoinFastcgi
    BY <2>5 DEF MainJoinFastcgi, Take, TypeOK, Events
  <2>6. ASSUME NEW h \in Handles, MainDelete(h) PROVE OnceInv'
    BY <2>6 DEF MainDelete
  <2>7. ASSUME NEW h \in Handles, Reuse(h) PROVE OnceInv' BY <2>7 DEF Reuse
  <2>8. QED
    BY <1>1, <2>1, <2>2, <2>3, <2>4, <2>5, <2>6, <2>7 DEF MainNext
<1>2. CASE AccepterNext
  <2>1. CASE AcExit
    <3>1. sem["accepter_exit"] = 0
      BY <2>1 DEF AcExit, JoinInv, AccepterOver, TypeOK, Events
    <3>2. QED BY <2>1, <3>1, MpmAssumption DEF AcExit, Set, TypeOK, Events
  <2>2. CASE AcBreak BY <2>2 DEF AcBreak, Take, TypeOK, Events
  <2>3. CASE AcSpawn \/ AcNoBreak \/ AcTimeout \/ AcEnd
    BY <2>3 DEF AcSpawn, AcNoBreak, AcTimeout, AcEnd, Miss
  <2>4. ASSUME NEW f \in Frontends, AcConnection(f) PROVE OnceInv'
    BY <2>4 DEF AcConnection
  <2>5. QED BY <1>2, <2>1, <2>2, <2>3, <2>4 DEF AccepterNext
<1>3. CASE FastcgiNext
  <2>1. CASE FcExit
    <3>1. sem["fastcgi_exit"] = 0
      BY <2>1 DEF FcExit, JoinInv, TypeOK, Events
    <3>2. QED BY <2>1, <3>1, MpmAssumption DEF FcExit, Set, TypeOK, Events
  <2>2. CASE FcBreakAtTop \/ FcBreak \/ FcFired
    BY <2>2 DEF FcBreakAtTop, FcBreak, FcFired, Take, TypeOK, Events
  <2>3. CASE FcSignal BY <2>3 DEF FcSignal, Set, TypeOK, Events
  <2>4. CASE FcNoBreakAtTop \/ FcInitialize \/ FcExhausted \/ FcNoBreak
    BY <2>4 DEF FcNoBreakAtTop, FcInitialize, FcExhausted, FcNoBreak, Miss
  <2>5. CASE FcTimeout \/ FcRead \/ FcProcess \/ FcWrite \/ FcFinalize \/ FcWild
    BY <2>5 DEF FcTimeout, FcRead, FcProcess, FcWrite, FcFinalize, FcWild, Miss
  <2>6. QED BY <1>3, <2>1, <2>2, <2>3, <2>4, <2>5 DEF FastcgiNext
<1>4. ASSUME NEW f \in Frontends, FrontendNext(f) PROVE OnceInv'
  BY <1>4, FrontendFrame DEF Events
<1>5. CASE StackUnmapped BY <1>5 DEF StackUnmapped
<1>6. QED BY <1>1, <1>2, <1>3, <1>4, <1>5 DEF Next

-----------------------------------------------------------------------------
(* The turn. *)

LEMMA TurnStep == ASSUME IInv, Next PROVE TurnInv'
<1> TypeOK /\ JoinInv /\ TurnInv BY DEF IInv
<1> USE MpmAssumption
<1> USE DEF TurnInv, Tokens, Busyness, Busy, Inside
<1>1. CASE MainNext BY <1>1, MainFrame DEF TypeOK, Events
<1>2. CASE AccepterNext
  <2>1. sem'["fire"] = sem["fire"] /\ sem'["done"] = sem["done"]
    BY <1>2, AccepterFrame DEF Events
  <2>2. CASE AcSpawn BY <2>1, <2>2 DEF AcSpawn, JoinInv
  <2>3. CASE AcBreak \/ AcNoBreak \/ AcTimeout \/ AcExit \/ AcEnd
    BY <2>1, <2>3 DEF AcBreak, AcNoBreak, AcTimeout, AcExit, AcEnd
  <2>4. ASSUME NEW f \in Frontends, AcConnection(f) PROVE TurnInv'
    BY <2>1, <2>4 DEF AcConnection, TypeOK
  <2>5. QED BY <1>2, <2>2, <2>3, <2>4 DEF AccepterNext
<1>3. CASE FastcgiNext
  \* fastcgi runs only while no handle has been deleted.
  <2>1. fpc # "ended" /\ alive = Handles /\ Handles \subseteq intact
    BY <1>3 DEF FastcgiNext, FcBreakAtTop, FcNoBreakAtTop, FcInitialize,
       FcExhausted, FcBreak, FcNoBreak, FcTimeout, FcFired, FcRead, FcProcess,
       FcWrite, FcSignal, FcFinalize, FcExit, FcWild, JoinInv, TypeOK
  <2>2. UNCHANGED <<mainVars, mutex, frontVars>> BY <1>3, FastcgiFrame
  <2>3. Tokens' = Tokens
    <3>1. CASE FcFired BY <3>1 DEF FcFired, Take, TypeOK, Events
    <3>2. CASE FcSignal
      <4>1. sem["done"] = 0 /\ sem["fire"] = 0
        BY <2>1, <3>2 DEF FcSignal, TypeOK, Events, Handles
      <4>2. QED BY <2>1, <3>2, <4>1 DEF FcSignal, Set, TypeOK, Events, Handles
    <3>3. CASE FcBreakAtTop \/ FcBreak
      BY <3>3 DEF FcBreakAtTop, FcBreak, Take, TypeOK, Events
    <3>4. CASE FcExit BY <3>4 DEF FcExit, Set, TypeOK, Events
    <3>5. CASE FcNoBreakAtTop \/ FcInitialize \/ FcExhausted \/ FcNoBreak
      BY <3>5 DEF FcNoBreakAtTop, FcInitialize, FcExhausted, FcNoBreak, Miss
    <3>6. CASE FcTimeout \/ FcRead \/ FcProcess \/ FcWrite \/ FcFinalize
      BY <3>6 DEF FcTimeout, FcRead, FcProcess, FcWrite, FcFinalize, Miss
    <3>7. CASE FcWild BY <3>7 DEF FcWild
    <3>8. QED
      BY <1>3, <3>1, <3>2, <3>3, <3>4, <3>5, <3>6, <3>7 DEF FastcgiNext
  <2>4. QED BY <2>2, <2>3
<1>4. ASSUME NEW f \in Frontends, FrontendNext(f) PROVE TurnInv'
  <2> USE DEF TypeOK, Events, Handles
  <2>1. CASE FeLock(f) BY <2>1 DEF FeLock
  <2>2. CASE FePut(f) BY <2>2 DEF FePut
  <2>3. CASE FeFire(f)
    <3>1. mutex = f /\ pc[mutex] = "fire" BY <2>3 DEF FeFire
    <3>2. "done" \in intact =>
            sem["fire"] = 0 /\ sem["done"] = 0 /\ fpc \notin Busy
      BY <3>1
    <3>3. QED BY <2>3, <3>1, <3>2 DEF FeFire, Set
  <2>4. CASE FeDone(f)
    <3>1. mutex = f /\ sem["done"] = 1 /\ sem["fire"] = 0 /\ fpc \notin Busy
      BY <2>4 DEF FeDone, Take
    <3>2. QED BY <2>4, <3>1 DEF FeDone, Take
  <2>5. CASE FeDoneFails(f) BY <2>5 DEF FeDoneFails
  <2>6. CASE FeTake(f) BY <2>6 DEF FeTake
  <2>7. CASE FeGive(f) BY <2>7 DEF FeGive
  <2>8. CASE FeReply(f) BY <2>8 DEF FeReply
  <2>9. CASE FeRequest(f) \/ FeNoRequest(f)
    BY <2>9 DEF FeRequest, FeNoRequest
  <2>10. CASE FeLockFails(f) \/ FeClose(f) \/ FeWild(f)
    BY <2>10 DEF FeLockFails, FeClose, FeWild
  <2>11. QED
    BY <1>4, <2>1, <2>2, <2>3, <2>4, <2>5, <2>6, <2>7, <2>8, <2>9, <2>10
    DEF FrontendNext
<1>5. CASE StackUnmapped BY <1>5 DEF StackUnmapped
<1>6. QED BY <1>1, <1>2, <1>3, <1>4, <1>5 DEF Next

-----------------------------------------------------------------------------
(* What frontends and cells hold. *)

LEMMA HoldStep == ASSUME IInv, Next PROVE HoldInv'
<1> TypeOK /\ JoinInv /\ HoldInv BY DEF IInv
<1> USE DEF HoldInv, Inside
<1>1. CASE MainNext BY <1>1, MainFrame
<1>2. CASE AccepterNext
  <2>1. ASSUME NEW f \in Frontends, AcConnection(f) PROVE HoldInv'
    BY <2>1 DEF AcConnection, TypeOK
  <2>2. CASE AcSpawn \/ AcBreak \/ AcNoBreak \/ AcTimeout \/ AcExit \/ AcEnd
    BY <2>2 DEF AcSpawn, AcBreak, AcNoBreak, AcTimeout, AcExit, AcEnd
  <2>3. QED BY <1>2, <2>1, <2>2 DEF AccepterNext
<1>3. CASE FastcgiNext BY <1>3, FastcgiFrame
<1>4. ASSUME NEW f \in Frontends, FrontendNext(f) PROVE HoldInv'
  <2>1. CASE FeRequest(f)
    <3>1. <<f, reqNo[f] + 1>> \in Requests
      BY <2>1, MpmAssumption DEF FeRequest, TypeOK, Requests
    <3>2. QED BY <2>1, <3>1 DEF FeRequest, TypeOK
  <2>2. CASE FeReply(f) BY <2>2 DEF FeReply, TypeOK
  <2>3. CASE FeNoRequest(f) \/ FeClose(f) \/ FeWild(f)
    BY <2>3 DEF FeNoRequest, FeClose, FeWild, TypeOK
  <2>4. CASE FeLock(f) \/ FeLockFails(f) \/ FePut(f) \/ FeFire(f)
    BY <2>4 DEF FeLock, FeLockFails, FePut, FeFire, TypeOK
  <2>5. CASE FeDone(f) \/ FeDoneFails(f) \/ FeTake(f) \/ FeGive(f)
    BY <2>5 DEF FeDone, FeDoneFails, FeTake, FeGive, TypeOK
  <2>6. QED BY <1>4, <2>1, <2>2, <2>3, <2>4, <2>5 DEF FrontendNext
<1>5. CASE StackUnmapped BY <1>5 DEF StackUnmapped
<1>6. QED BY <1>1, <1>2, <1>3, <1>4, <1>5 DEF Next

\* While fastcgi is at work on a request, or its answer is announced, the
\* frontend whose turn it is waits.
LEMMA Waiting ==
  ASSUME IInv, fpc \in Busy \/ ("done" \in intact /\ sem["done"] = 1)
  PROVE  mutex \in Frontends /\ pc[mutex] = "wait"
BY DEF IInv, TypeOK, JoinInv, TurnInv, Tokens, Busyness, Busy, Events, Handles

\* Only one frontend is between http_mutex_take and http_mutex_give.
LEMMA OneInside ==
  ASSUME TurnInv, NEW f \in Frontends, NEW g \in Frontends,
         pc[f] \in Inside, pc[g] \in Inside
  PROVE  f = g
BY DEF TurnInv

LEMMA CellStep == ASSUME IInv, Next PROVE CellInv'
<1> TypeOK /\ JoinInv /\ TurnInv /\ HoldInv /\ CellInv BY DEF IInv
<1> USE DEF CellInv, Wild
<1>1. CASE MainNext BY <1>1, MainFrame
<1>2. CASE AccepterNext
  <2>1. CASE AcSpawn BY <2>1 DEF AcSpawn, JoinInv
  <2>2. CASE AcBreak \/ AcNoBreak \/ AcTimeout
    BY <2>2, AccepterFrame DEF AcBreak, AcNoBreak, AcTimeout, AccepterNext,
       Events
  <2>3. CASE AcExit BY <1>2, <2>3, AccepterFrame DEF AcExit, Events
  <2>4. CASE AcEnd BY <2>4 DEF AcEnd
  <2>5. ASSUME NEW f \in Frontends, AcConnection(f) PROVE CellInv'
    BY <2>5 DEF AcConnection, TypeOK
  <2>6. QED BY <1>2, <2>1, <2>2, <2>3, <2>4, <2>5 DEF AccepterNext
<1>3. CASE FastcgiNext
  <2> USE <1>3, FastcgiFrame, Waiting
  <2>1. CASE FcRead BY <2>1 DEF FcRead, Busy
  <2>2. CASE FcProcess BY <2>2, MpmAssumption DEF FcProcess, Busy
  <2>3. CASE FcWrite
    <3>1. mutex \in Frontends /\ pc[mutex] = "wait" BY <2>3 DEF FcWrite, Busy
    <3>2. \A f \in Frontends : pc[f] # "take" BY <3>1 DEF TurnInv, Inside
    <3>3. QED BY <2>3, <3>1, <3>2 DEF FcWrite
  <2>4. CASE FcSignal BY <2>4 DEF FcSignal, Busy, Set, TypeOK, Events
  <2>5. CASE FcFired BY <2>5 DEF FcFired, Take, TypeOK, Events
  <2>6. CASE FcBreakAtTop \/ FcBreak
    BY <2>6 DEF FcBreakAtTop, FcBreak, Take, TypeOK, Events
  <2>7. CASE FcNoBreakAtTop \/ FcInitialize \/ FcExhausted \/ FcNoBreak
    BY <2>7 DEF FcNoBreakAtTop, FcInitialize, FcExhausted, FcNoBreak, Miss
  <2>8. CASE FcTimeout \/ FcFinalize \/ FcWild
    BY <2>8 DEF FcTimeout, FcFinalize, FcWild, Miss
  <2>9. CASE FcExit BY <2>9 DEF FcExit, Set, TypeOK, Events
  <2>10. QED
    BY <2>1, <2>2, <2>3, <2>4, <2>5, <2>6, <2>7, <2>8, <2>9 DEF FastcgiNext
<1>4. ASSUME NEW f \in Frontends, FrontendNext(f) PROVE CellInv'
  <2> USE <1>4, FrontendFrame, Waiting, OneInside DEF Inside, Busy
  <2>1. CASE FeRequest(f) \/ FeNoRequest(f)
    BY <2>1 DEF FeRequest, FeNoRequest, TypeOK
  <2>2. CASE FeLock(f) BY <2>2, MpmAssumption DEF FeLock, TypeOK
  <2>3. CASE FeLockFails(f) BY <2>3 DEF FeLockFails, TypeOK
  <2>4. CASE FePut(f) BY <2>4 DEF FePut, TypeOK
  <2>5. CASE FeFire(f) BY <2>5 DEF FeFire, Set, TypeOK, Events
  <2>6. CASE FeDone(f)
    <3>1. mutex = f /\ pc' = [pc EXCEPT ![f] = "take"]
      BY <2>6 DEF FeDone, TurnInv
    <3>2. sem["done"] = 1 /\ fpc \notin Busy
      BY <2>6 DEF FeDone, Take, TypeOK, Events, TurnInv, Tokens, Busyness
    <3>3. slotRes \in {req[f], Null} \cup Wild
      BY <2>6, <3>1, <3>2 DEF FeDone, Take
    <3>4. QED BY <2>6, <3>1, <3>2, <3>3 DEF FeDone, Take, TypeOK, Events
  <2>7. CASE FeDoneFails(f) BY <2>7 DEF FeDoneFails, TypeOK
  <2>8. CASE FeTake(f) BY <2>8 DEF FeTake, TypeOK
  <2>9. CASE FeGive(f) BY <2>9 DEF FeGive, TypeOK, TurnInv
  <2>10. CASE FeReply(f) BY <2>10 DEF FeReply, TypeOK
  <2>11. CASE FeClose(f) \/ FeWild(f) BY <2>11 DEF FeClose, FeWild, TypeOK
  <2>12. QED
    BY <2>1, <2>2, <2>3, <2>4, <2>5, <2>6, <2>7, <2>8, <2>9, <2>10, <2>11
    DEF FrontendNext
<1>5. CASE StackUnmapped BY <1>5 DEF StackUnmapped
<1>6. QED BY <1>1, <1>2, <1>3, <1>4, <1>5 DEF Next

-----------------------------------------------------------------------------
(* The invariant, and what follows from it. *)

LEMMA CrashStep == ASSUME IInv, Next PROVE NoCrashWhileServing'
<1> TypeOK /\ JoinInv /\ HoldInv /\ CellInv /\ NoCrashWhileServing
  BY DEF IInv
<1> USE DEF NoCrashWhileServing
<1>1. CASE MainNext
  BY <1>1 DEF MainNext, MainSetProcess, MainStart, MainClose,
     MainBreakAccepter, MainBreakFastcgi, MainJoinAccepter, MainJoinFastcgi,
     MainDelete, Reuse
<1>2. CASE AccepterNext
  BY <1>2 DEF AccepterNext, AcSpawn, AcBreak, AcNoBreak, AcTimeout,
     AcConnection, AcExit, AcEnd
<1>3. CASE FastcgiNext
  <2>1. CASE FcWild
    <3>1. mutex \in Frontends /\ pc[mutex] = "wait"
      BY <2>1, Waiting DEF FcWild, Busy
    <3>2. req[mutex] \in Requests BY <3>1 DEF HoldInv, Inside
    <3>3. creq \in Wild BY <2>1, <3>2 DEF FcWild, CellInv
    <3>4. QED BY <2>1, <3>3 DEF Wild, FcWild
  <2>2. fpc' # fpc /\ ~FcWild => fault' = fault
    BY <1>3 DEF FastcgiNext, FcBreakAtTop, FcNoBreakAtTop, FcInitialize,
       FcExhausted, FcBreak, FcNoBreak, FcTimeout, FcFired, FcRead, FcProcess,
       FcWrite, FcSignal, FcFinalize, FcExit
  <2>3. ~FcWild => fpc' # fpc
    BY <1>3 DEF FastcgiNext, FcBreakAtTop, FcNoBreakAtTop, FcInitialize,
       FcExhausted, FcBreak, FcNoBreak, FcTimeout, FcFired, FcRead, FcProcess,
       FcWrite, FcSignal, FcFinalize, FcExit
  <2>4. QED BY <1>3, <2>1, <2>2, <2>3, FastcgiFrame
<1>4. ASSUME NEW f \in Frontends, FrontendNext(f) PROVE NoCrashWhileServing'
  <2>1. CASE FeWild(f)
    <3>1. res[f] \in {req[f], Null} \cup Wild
      BY <2>1 DEF FeWild, CellInv
    <3>2. req[f] \in Requests
      BY <2>1 DEF FeWild, HoldInv
    <3>3. res[f] \in Wild BY <2>1, <3>1, <3>2, MpmAssumption DEF FeWild
    <3>4. QED BY <2>1, <3>3 DEF Wild, FeWild
  <2>2. CASE ~FeWild(f)
    BY <1>4, <2>2 DEF FrontendNext, FeRequest, FeNoRequest, FeLock,
       FeLockFails, FePut, FeFire, FeDone, FeDoneFails, FeTake, FeGive,
       FeReply, FeClose
  <2>3. QED BY <2>1, <2>2
<1>5. CASE StackUnmapped BY <1>5 DEF StackUnmapped
<1>6. QED BY <1>1, <1>2, <1>3, <1>4, <1>5 DEF Next

LEMMA InitInv == Init => IInv
<1> SUFFICES ASSUME Init PROVE IInv OBVIOUS
<1> USE MpmAssumption DEF Init
<1>1. TypeOK
  <2>1. heap \in BOOLEAN /\ fbreak \in BOOLEAN OBVIOUS
  <2>2. QED BY <2>1 DEF TypeOK, MainLabels, AccepterLabels, FastcgiLabels,
                           FrontLabels, Events, Handles, Pointers
<1>2. JoinInv /\ OnceInv
  BY DEF JoinInv, OnceInv, Closing, AccepterOver, Events, Handles
<1>3. RoundInv BY DEF RoundInv, Busy
<1>4. TurnInv
  BY DEF TurnInv, Tokens, Busyness, Busy, Inside, Events, Handles
<1>5. HoldInv /\ CellInv BY DEF HoldInv, CellInv, Wild, Inside, Events
<1>6. NoCrashWhileServing BY DEF NoCrashWhileServing
<1>7. QED BY <1>1, <1>2, <1>3, <1>4, <1>5, <1>6 DEF IInv

LEMMA StutterInv == IInv /\ UNCHANGED vars => IInv'
BY DEF IInv, vars, TypeOK, JoinInv, RoundInv, OnceInv, TurnInv, HoldInv,
   CellInv, NoCrashWhileServing, Tokens, Busyness, Wild, AccepterOver, Closing

\* IInv holds in every state the server can reach: the types, the joining of
\* the threads, the turn of the frontends and the contents of the cells.
THEOREM Invariance == Spec => []IInv
<1>1. IInv /\ [Next]_vars => IInv'
  BY TypeStep, JoinStep, RoundStep, OnceStep, TurnStep, HoldStep, CellStep,
     CrashStep, StutterInv DEF IInv
<1>2. QED BY InitInv, <1>1, PTL DEF Spec

\* Every variable keeps its type; nr_request never exceeds the limit.
THEOREM TypeCorrect == Spec => []TypeOK
<1>1. IInv => TypeOK BY DEF IInv
<1>2. QED BY Invariance, <1>1, PTL

\* No frontend ever takes another request's response from the shared cell
\* (lines 163-172 of http_mpm.c).
THEOREM NoCrossDeliveryHolds == Spec => []NoCrossDelivery
<1>1. IInv => NoCrossDelivery
  BY MpmAssumption DEF IInv, NoCrossDelivery, CellInv, Wild
<1>2. QED BY Invariance, <1>1, PTL

\* process_cb never works on a request whose frontend has deleted it.
THEOREM RequestHeldHolds == Spec => []RequestHeld
<1>1. ASSUME IInv PROVE RequestHeld
  <2>1. SUFFICES ASSUME fpc = "process", creq \in Requests
                 PROVE  req[creq[1]] = creq
    BY DEF RequestHeld
  <2>2. mutex \in Frontends /\ pc[mutex] = "wait"
    BY <1>1, <2>1, Waiting DEF Busy
  <2>3. creq = req[mutex]
    BY <1>1, <2>1, MpmAssumption DEF IInv, CellInv, Wild
  <2>4. req[mutex] = <<mutex, reqNo[mutex]>>
    BY <1>1, <2>2 DEF IInv, HoldInv, Inside
  <2>5. QED BY <2>3, <2>4
<1>2. QED BY Invariance, <1>1, PTL

\* The handshake loses no wake-up and leaves none over: a frontend that waits
\* has exactly one under way (lines 165-167 and 117-125).
THEOREM OneWakeupHolds == Spec => []OneWakeup
<1>1. IInv => OneWakeup
  BY DEF IInv, TurnInv, OneWakeup, Tokens, Busyness
<1>2. QED BY Invariance, <1>1, PTL

\* No event is ever set twice before it is taken, so that semaphores and
\* auto-reset events are interchangeable.
THEOREM EventsBinaryHolds == Spec => []EventsBinary
<1>1. ASSUME IInv PROVE EventsBinary
  <2>1. \A e \in Events \ {"fire", "done"} : sem[e] <= 1
    BY <1>1 DEF IInv, OnceInv
  <2>2. "done" \in alive => sem["fire"] <= 1 /\ sem["done"] <= 1
    BY <1>1 DEF IInv, TypeOK, TurnInv, Tokens, Busyness, Events
  <2>3. "fire" \in alive => "done" \in alive BY <1>1 DEF IInv, JoinInv
  <2>4. QED BY <2>1, <2>2, <2>3 DEF EventsBinary
<1>2. QED BY Invariance, <1>1, PTL

\* http_mpm_close deletes nothing under the accepter or fastcgi.
THEOREM QuietAtDeleteHolds == Spec => []QuietAtDelete
<1>1. IInv => QuietAtDelete
  BY DEF IInv, QuietAtDelete, JoinInv, RoundInv, AccepterOver
<1>2. QED BY Invariance, <1>1, PTL

\* The threads use no wild pointer while the accepter's stack exists.
THEOREM NoCrashHolds == Spec => []NoCrashWhileServing
<1>1. IInv => NoCrashWhileServing BY DEF IInv
<1>2. QED BY Invariance, <1>1, PTL

-----------------------------------------------------------------------------
(* The refinement *)

\* Requests of different frontends differ, and none is one of the pointers.
LEMMA RequestsDiffer ==
  ASSUME HoldInv, NEW f \in Frontends, NEW g \in Frontends,
         f # g, req[g] \in Requests
  PROVE  req[f] # req[g]
BY MpmAssumption DEF HoldInv, Requests

LEMMA ExecStep == ASSUME IInv, ExecInv, Next PROVE ExecInv'
<1> TypeOK /\ JoinInv /\ TurnInv /\ HoldInv /\ CellInv BY DEF IInv
<1> USE MpmAssumption
<1> USE DEF ExecInv
<1>1. CASE MainNext BY <1>1, MainFrame
<1>2. CASE AccepterNext
  <2>1. ASSUME NEW f \in Frontends, AcConnection(f) PROVE ExecInv'
    BY <2>1 DEF AcConnection, TypeOK
  <2>2. CASE AcSpawn BY <2>2 DEF AcSpawn
  <2>3. CASE AcEnd BY <2>3 DEF AcEnd
  <2>4. CASE AcBreak \/ AcNoBreak \/ AcTimeout \/ AcExit
    BY <1>2, <2>4, AccepterFrame DEF AcBreak, AcNoBreak, AcTimeout, AcExit,
       Events
  <2>5. QED BY <1>2, <2>1, <2>2, <2>3, <2>4 DEF AccepterNext
<1>3. CASE FastcgiNext
  <2>1. fpc # "ended" /\ Handles \subseteq intact
    BY <1>3 DEF FastcgiNext, FcBreakAtTop, FcNoBreakAtTop, FcInitialize,
       FcExhausted, FcBreak, FcNoBreak, FcTimeout, FcFired, FcRead, FcProcess,
       FcWrite, FcSignal, FcFinalize, FcExit, FcWild, JoinInv, TypeOK
  <2>2. UNCHANGED <<mainVars, mutex, frontVars>> BY <1>3, FastcgiFrame
  <2>3. CASE FcFired
    <3>1. sem["fire"] = 1
      BY <2>1, <2>3 DEF FcFired, Take, TypeOK, Events, Handles, TurnInv,
         Tokens, Busyness
    <3>2. QED BY <2>1, <2>3, <3>1 DEF FcFired, Take, TypeOK, Events, Handles
  <2>4. CASE FcRead BY <2>4 DEF FcRead
  <2>5. CASE FcProcess
    <3>1. mutex \in Frontends /\ pc[mutex] = "wait" /\ sem["fire"] = 0
      BY <2>1, <2>5, Waiting DEF FcProcess, Busy, TypeOK, Events, Handles,
         TurnInv, Tokens, Busyness
    <3>2. creq = req[mutex] BY <2>5 DEF FcProcess, CellInv, Wild
    <3>3. req[mutex] = <<mutex, reqNo[mutex]>> /\ reqNo[mutex] \in 0 .. MaxReqs
      BY <3>1 DEF HoldInv, Inside, TypeOK
    <3>4. \A f \in Frontends : pc[f] \in {"lock", "put", "fire"} => req[f] # creq
      BY <2>5, <3>1, <3>2, RequestsDiffer DEF FcProcess
    <3>5. \A f \in Frontends : \A k \in 1 .. MaxReqs :
            <<f, k>> = creq => k <= reqNo[f]
      BY <3>2, <3>3
    <3>6. QED BY <2>2, <2>5, <3>1, <3>4, <3>5 DEF FcProcess
  <2>6. CASE FcWrite BY <2>6 DEF FcWrite
  <2>7. CASE FcBreakAtTop \/ FcBreak
    BY <2>7 DEF FcBreakAtTop, FcBreak, Take, TypeOK, Events
  <2>8. CASE FcSignal \/ FcExit
    BY <2>8 DEF FcSignal, FcExit, Set, TypeOK, Events
  <2>9. CASE FcNoBreakAtTop \/ FcInitialize \/ FcExhausted \/ FcNoBreak
    BY <2>9 DEF FcNoBreakAtTop, FcInitialize, FcExhausted, FcNoBreak, Miss
  <2>10. CASE FcTimeout \/ FcFinalize \/ FcWild
    BY <2>10 DEF FcTimeout, FcFinalize, FcWild, Miss
  <2>11. QED
    BY <1>3, <2>3, <2>4, <2>5, <2>6, <2>7, <2>8, <2>9, <2>10 DEF FastcgiNext
<1>4. ASSUME NEW f \in Frontends, FrontendNext(f) PROVE ExecInv'
  <2> USE <1>4, FrontendFrame, Waiting DEF Inside
  <2>1. CASE FeRequest(f)
    <3>1. <<f, reqNo[f] + 1>> \notin processed
      BY <2>1 DEF FeRequest, TypeOK
    <3>2. fpc \in Busy \/ ("done" \in intact /\ sem["fire"] = 1) => mutex # f
      BY <2>1 DEF FeRequest, TypeOK, TurnInv, Tokens, Busyness, Events
    <3>3. QED BY <2>1, <3>1, <3>2 DEF FeRequest, TypeOK, Busy
  <2>2. CASE FeLock(f) BY <2>2 DEF FeLock, TypeOK, Busy, TurnInv, Tokens,
                                   Busyness, Events
  <2>3. CASE FeFire(f) BY <2>3 DEF FeFire, Set, TypeOK, Events, TurnInv
  <2>4. CASE FeDone(f) BY <2>4 DEF FeDone, Take, TypeOK, Events
  <2>5. CASE FeTake(f) BY <2>5 DEF FeTake, TypeOK
  <2>6. CASE FeGive(f) BY <2>6 DEF FeGive, TypeOK, Busy, TurnInv, Tokens,
                                   Busyness, Events
  <2>7. CASE FeReply(f) BY <2>7 DEF FeReply, TypeOK
  <2>8. CASE FePut(f) \/ FeDoneFails(f) \/ FeLockFails(f)
    BY <2>8 DEF FePut, FeDoneFails, FeLockFails, TypeOK
  <2>9. CASE FeNoRequest(f) \/ FeClose(f) \/ FeWild(f)
    BY <2>9 DEF FeNoRequest, FeClose, FeWild, TypeOK
  <2>10. QED
    BY <2>1, <2>2, <2>3, <2>4, <2>5, <2>6, <2>7, <2>8, <2>9 DEF FrontendNext
<1>5. CASE StackUnmapped BY <1>5 DEF StackUnmapped
<1>6. QED BY <1>1, <1>2, <1>3, <1>4, <1>5 DEF Next

-----------------------------------------------------------------------------
(* The steps the clients of the service can see. *)

\* A step that keeps what PhaseOf looks at keeps every phase.
LEMMA SamePhase ==
  ASSUME UNCHANGED <<pc, req, processed, creq>>,
         fpc' = fpc \/ (fpc # "process" /\ fpc' # "process")
  PROVE  phaseBar' = phaseBar
BY DEF phaseBar, PhaseOf

Visible == <<phaseBar, reqNo, sent>>

LEMMA MainVisible == ASSUME IInv, MainNext PROVE UNCHANGED Visible
BY MainFrame, SamePhase DEF IInv, Visible

LEMMA AccepterVisible ==
  ASSUME IInv, AccepterNext PROVE Service!Next \/ UNCHANGED Visible
<1> TypeOK /\ JoinInv BY DEF IInv
<1>1. ASSUME NEW f \in Frontends, AcConnection(f) PROVE Service!Next
  <2>1. PICK l \in {"recv", "orphan"} : pc' = [pc EXCEPT ![f] = l]
    BY <1>1 DEF AcConnection
  <2>2. /\ pc[f] = "none"
        /\ UNCHANGED <<fpc, creq, processed, req, reqNo, sent>>
    BY <1>1 DEF AcConnection
  <2>3. phaseBar[f] = "absent" BY <2>2 DEF phaseBar, PhaseOf
  <2>4. phaseBar' = [phaseBar EXCEPT
          ![f] = IF l = "recv" THEN "open" ELSE "closed"]
    BY <2>1, <2>2 DEF phaseBar, PhaseOf, TypeOK
  <2>5. Service!Connect(f) \/ Service!Abandon(f)
    BY <2>1, <2>2, <2>3, <2>4
    DEF Service!Connect, Service!Abandon, Service!Move
  <2>6. QED BY <2>5 DEF Service!Next
<1>2. CASE AcSpawn \/ AcBreak \/ AcNoBreak \/ AcTimeout \/ AcExit \/ AcEnd
  <2>1. UNCHANGED <<pc, req, reqNo, sent, processed, creq>>
    BY <1>2 DEF AcSpawn, AcBreak, AcNoBreak, AcTimeout, AcExit, AcEnd
  <2>2. fpc' = fpc \/ (fpc # "process" /\ fpc' # "process")
    BY <1>2 DEF AcSpawn, AcBreak, AcNoBreak, AcTimeout, AcExit, AcEnd, JoinInv
  <2>3. QED BY <2>1, <2>2, SamePhase DEF Visible
<1>3. QED BY <1>1, <1>2 DEF AccepterNext

LEMMA FastcgiVisible ==
  ASSUME IInv, ExecInv, FastcgiNext PROVE Service!Next \/ UNCHANGED Visible
<1> TypeOK /\ TurnInv /\ HoldInv /\ CellInv BY DEF IInv
<1> USE MpmAssumption
<1>0. UNCHANGED frontVars BY FastcgiFrame
<1>1. CASE FcRead
  <2>1. mutex \in Frontends /\ pc[mutex] = "wait"
    BY <1>1, Waiting DEF FcRead, Busy
  <2>2. /\ fpc = "read" /\ fpc' = "process" /\ creq' = slotReq
        /\ UNCHANGED <<pc, req, reqNo, sent, processed>>
    BY <1>1 DEF FcRead
  <2>3. req[mutex] \in Requests /\ req[mutex] \notin processed
    BY <2>1, <2>2 DEF HoldInv, Inside, ExecInv
  <2>4. CASE slotReq = req[mutex]
    <3>1. \A g \in Frontends \ {mutex} : req[g] # slotReq
      BY <2>1, <2>3, <2>4, RequestsDiffer
    <3>2. phaseBar' = [phaseBar EXCEPT ![mutex] = "executing"]
      BY <2>1, <2>2, <2>4, <3>1 DEF phaseBar, PhaseOf
    <3>3. phaseBar[mutex] = "pending"
      BY <2>1, <2>2, <2>3 DEF phaseBar, PhaseOf
    <3>4. \A g \in Frontends : phaseBar[g] # "executing"
      BY <2>2 DEF phaseBar, PhaseOf
    <3>5. Service!Execute(mutex)
      BY <2>2, <3>2, <3>3, <3>4 DEF Service!Execute, Service!Move
    <3>6. QED BY <2>1, <3>5 DEF Service!Next
  <2>5. CASE slotReq # req[mutex]
    <3>1. slotReq \in {Null, Junk}
      BY <2>1, <2>5 DEF CellInv, Wild
    <3>2. \A g \in Frontends :
            pc[g] \in Inside \cup {"lock", "reply"} => req[g] # slotReq
      BY <3>1 DEF HoldInv
    <3>3. \A g \in Frontends : PhaseOf(g)' = PhaseOf(g)
      <4> SUFFICES ASSUME NEW g \in Frontends PROVE PhaseOf(g)' = PhaseOf(g)
        OBVIOUS
      <4>1. CASE pc[g] \in Inside \cup {"lock", "reply"}
        BY <2>2, <3>2, <4>1 DEF PhaseOf
      <4>2. CASE pc[g] \in {"none", "recv", "close", "ended", "orphan"}
        BY <2>2, <4>2 DEF PhaseOf
      <4>3. QED BY <4>1, <4>2 DEF TypeOK, FrontLabels, Inside
    <3>4. QED BY <2>2, <3>3 DEF Visible, phaseBar
  <2>6. QED BY <2>4, <2>5
<1>2. CASE FcProcess
  <2>1. mutex \in Frontends /\ pc[mutex] = "wait"
    BY <1>2, Waiting DEF FcProcess, Busy
  <2>2. /\ fpc = "process" /\ fpc' = "write" /\ creq = req[mutex]
        /\ processed' = processed \cup {creq}
        /\ UNCHANGED <<pc, req, reqNo, sent, creq>>
    BY <1>2 DEF FcProcess, CellInv, Wild
  <2>3. req[mutex] \in Requests BY <1>2, <2>2 DEF FcProcess
  <2>4. \A g \in Frontends \ {mutex} : req[g] # creq
    BY <2>1, <2>2, <2>3, RequestsDiffer
  <2>5. phaseBar[mutex] = "executing" BY <2>1, <2>2 DEF phaseBar, PhaseOf
  <2>6. phaseBar' = [phaseBar EXCEPT ![mutex] = "executed"]
    BY <2>1, <2>2, <2>4 DEF phaseBar, PhaseOf
  <2>7. Service!Finish(mutex)
    BY <2>2, <2>5, <2>6 DEF Service!Finish, Service!Move
  <2>8. QED BY <2>1, <2>7 DEF Service!Next
<1>3. CASE ~FcRead /\ ~FcProcess
  <2>1. UNCHANGED <<processed, creq>>
    BY <1>3 DEF FastcgiNext, FcBreakAtTop, FcNoBreakAtTop, FcInitialize,
       FcExhausted, FcBreak, FcNoBreak, FcTimeout, FcFired, FcWrite, FcSignal,
       FcFinalize, FcExit, FcWild
  <2>2. fpc' = fpc \/ (fpc # "process" /\ fpc' # "process")
    BY <1>3 DEF FastcgiNext, FcBreakAtTop, FcNoBreakAtTop, FcInitialize,
       FcExhausted, FcBreak, FcNoBreak, FcTimeout, FcFired, FcWrite, FcSignal,
       FcFinalize, FcExit, FcWild
  <2>3. QED BY <1>0, <2>1, <2>2, SamePhase DEF Visible
<1>4. QED BY <1>1, <1>2, <1>3

\* A frontend that is not waiting has no request in the interpreter.
LEMMA NotExecuting ==
  ASSUME IInv, NEW f \in Frontends, pc[f] # "wait", req[f] \in Requests
  PROVE  ~(fpc = "process" /\ creq = req[f])
<1> SUFFICES ASSUME fpc = "process" PROVE creq # req[f] OBVIOUS
<1>1. mutex \in Frontends /\ pc[mutex] = "wait" BY Waiting DEF Busy
<1>2. creq \in {req[mutex], Null, Junk} BY DEF IInv, CellInv, Wild
<1>3. QED BY <1>1, <1>2, RequestsDiffer, MpmAssumption DEF IInv

\* Frontends that do not move keep their phases.
LEMMA OthersKeep ==
  ASSUME TypeOK, NEW f \in Frontends, FrontendNext(f)
  PROVE  \A g \in Frontends \ {f} : PhaseOf(g)' = PhaseOf(g)
BY FrontendFrame DEF PhaseOf

LEMMA FrontendVisible ==
  ASSUME IInv, ExecInv, NEW f \in Frontends, FrontendNext(f)
  PROVE  Service!Next \/ UNCHANGED Visible
<1> TypeOK /\ TurnInv /\ HoldInv /\ CellInv BY DEF IInv
<1> USE MpmAssumption
<1> DEFINE Becomes(p) == phaseBar' = [phaseBar EXCEPT ![f] = p]
<1>0. ASSUME NEW p, PhaseOf(f)' = p PROVE Becomes(p)
  BY <1>0, OthersKeep DEF phaseBar
<1>1. CASE FeRequest(f)
  <2>1. /\ pc[f] = "recv" /\ pc'[f] = "lock"
        /\ req'[f] = <<f, reqNo[f] + 1>>
        /\ reqNo[f] < MaxReqs
        /\ reqNo' = [reqNo EXCEPT ![f] = @ + 1]
        /\ UNCHANGED <<fpc, creq, processed, sent>>
    BY <1>1 DEF FeRequest, TypeOK
  <2>2. req'[f] \in Requests /\ req'[f] \notin processed
    BY <2>1 DEF TypeOK, Requests, ExecInv
  <2>3. ~(fpc = "process" /\ creq = req'[f])
    <3> SUFFICES ASSUME fpc = "process" PROVE creq # req'[f] OBVIOUS
    <3>1. mutex \in Frontends /\ pc[mutex] = "wait" BY Waiting DEF Busy
    <3>2. creq \in {req[mutex], Null, Junk} BY DEF CellInv, Wild
    <3>3. req[mutex] = <<mutex, reqNo[mutex]>> /\ mutex # f
      BY <2>1, <3>1 DEF HoldInv, Inside
    <3>4. QED BY <2>1, <2>2, <3>2, <3>3
  <2>4. Becomes("pending") BY <1>0, <2>1, <2>2, <2>3 DEF PhaseOf
  <2>5. phaseBar[f] = "open" BY <2>1 DEF phaseBar, PhaseOf
  <2>6. Service!Ask(f) BY <2>1, <2>4, <2>5 DEF Service!Ask, Service!Move
  <2>7. QED BY <2>6 DEF Service!Next
<1>2. CASE FeReply(f)
  <2>1. PICK l \in IF res[f] = Null THEN {"close"} ELSE {"recv", "close"} :
          pc' = [pc EXCEPT ![f] = l]
    BY <1>2 DEF FeReply
  <2>2. /\ pc[f] = "reply" /\ res[f] # Junk
        /\ sent' = [sent EXCEPT
                      ![f] = IF res[f] = Null THEN Error500 ELSE res[f]]
        /\ UNCHANGED <<fpc, creq, processed, reqNo>>
    BY <1>2 DEF FeReply
  <2>3. req[f] \in Requests /\ req[f] = <<f, reqNo[f]>>
    BY <2>2 DEF HoldInv
  <2>4. res[f] \in {req[f], Null} BY <2>2 DEF CellInv, Wild
  <2>5. phaseBar[f] = IF req[f] \in processed THEN "executed" ELSE "pending"
    BY <2>2, <2>3, NotExecuting DEF phaseBar, PhaseOf
  <2>6. Becomes(IF l = "recv" THEN "open" ELSE "closed")
    BY <1>0, <2>1 DEF PhaseOf, TypeOK
  <2>7. CASE res[f] = Null
    <3>1. Service!Refuse(f)
      BY <2>1, <2>2, <2>5, <2>6, <2>7 DEF Service!Refuse, Service!Move
    <3>2. QED BY <3>1 DEF Service!Next
  <2>8. CASE res[f] = req[f]
    <3>1. req[f] \in processed BY <2>3, <2>8 DEF ExecInv
    <3>2. res[f] # Null BY <2>3, <2>8
    <3>3. Service!Answer(f)
      BY <2>1, <2>2, <2>3, <2>5, <2>6, <2>8, <3>1, <3>2
      DEF Service!Answer, Service!Move
    <3>4. QED BY <3>3 DEF Service!Next
  <2>9. QED BY <2>4, <2>7, <2>8
<1>3. CASE FeNoRequest(f)
  <2>1. /\ pc[f] = "recv" /\ pc'[f] = "close"
        /\ UNCHANGED <<reqNo, sent>>
    BY <1>3 DEF FeNoRequest, TypeOK
  <2>2. Becomes("closed") BY <1>0, <2>1 DEF PhaseOf
  <2>3. phaseBar[f] = "open" BY <2>1 DEF phaseBar, PhaseOf
  <2>4. Service!Disconnect(f)
    BY <2>1, <2>2, <2>3 DEF Service!Disconnect, Service!Move
  <2>5. QED BY <2>4 DEF Service!Next
<1>4. CASE ~FeRequest(f) /\ ~FeReply(f) /\ ~FeNoRequest(f)
  <2>1. UNCHANGED <<req, reqNo, sent, fpc, creq, processed>>
    BY <1>4 DEF FrontendNext, FeLock, FeLockFails, FePut, FeFire, FeDone,
       FeDoneFails, FeTake, FeGive, FeClose, FeWild
  <2>2. \/ pc'[f] = pc[f]
        \/ {pc[f], pc'[f]} \subseteq Inside \cup {"lock", "reply"}
        \/ pc[f] = "close" /\ pc'[f] = "ended"
    BY <1>4 DEF FrontendNext, FeLock, FeLockFails, FePut, FeFire, FeDone,
       FeDoneFails, FeTake, FeGive, FeClose, FeWild, Inside, TypeOK
  <2>3. PhaseOf(f)' = PhaseOf(f) BY <2>1, <2>2 DEF PhaseOf, Inside
  <2>4. phaseBar' = phaseBar BY <2>3, OthersKeep DEF phaseBar
  <2>5. QED BY <2>1, <2>4 DEF Visible
<1>5. QED BY <1>1, <1>2, <1>3, <1>4

\* HttpMpm implements RequestService, for every number of connections and
\* requests: requests are executed one at a time and once each, a client gets
\* the result of its own request after it was executed, or an error that ends
\* its connection (_worker_frontend, _worker_fastcgi, _worker_accepter).
THEOREM Refinement == Spec => ServiceSpec
<1>1. Init => ExecInv
  BY MpmAssumption DEF Init, ExecInv, Events
<1>2. Init => Service!Init
  BY DEF Init, Service!Init, phaseBar, PhaseOf
<1>3. IInv /\ ExecInv /\ [Next]_vars => ExecInv'
  <2>1. IInv /\ ExecInv /\ UNCHANGED vars => ExecInv' BY DEF ExecInv, vars
  <2>2. QED BY <2>1, ExecStep
<1>4. IInv /\ ExecInv /\ [Next]_vars => [Service!Next]_(Service!vars)
  <2> SUFFICES ASSUME IInv, ExecInv, [Next]_vars
               PROVE  Service!Next \/ UNCHANGED Visible
    BY DEF Visible, Service!vars
  <2>1. CASE MainNext BY <2>1, MainVisible
  <2>2. CASE AccepterNext BY <2>2, AccepterVisible
  <2>3. CASE FastcgiNext BY <2>3, FastcgiVisible
  <2>4. ASSUME NEW f \in Frontends, FrontendNext(f)
        PROVE  Service!Next \/ UNCHANGED Visible
    BY <2>4, FrontendVisible
  <2>5. CASE StackUnmapped
    BY <2>5, SamePhase DEF StackUnmapped, Visible
  <2>6. CASE UNCHANGED vars BY <2>6, SamePhase DEF vars, Visible
  <2>7. QED BY <2>1, <2>2, <2>3, <2>4, <2>5, <2>6 DEF Next
<1>5. QED
  BY Invariance, <1>1, <1>2, <1>3, <1>4, PTL
  DEF Spec, ServiceSpec, Service!Spec
===============================================================================
