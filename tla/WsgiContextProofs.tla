-------------------------- MODULE WsgiContextProofs --------------------------
(***************************************************************************)
(* IInv of WsgiContext is an inductive invariant, for any number of        *)
(* scripts, requests and nested includes.                                  *)
(***************************************************************************)
EXTENDS WsgiContext, SequenceTheorems, TLAPS

USE WsgiAssumption DEF scriptVars, resultVars

-----------------------------------------------------------------------------
(* Sequences *)

\* A sequence that is not empty is its front and its last element.
LEMMA FrontLast ==
  ASSUME NEW S, NEW s \in Seq(S), s # <<>>
  PROVE  /\ SubSeq(s, 1, Len(s) - 1) \in Seq(S)
         /\ s[Len(s)] \in S
         /\ Len(SubSeq(s, 1, Len(s) - 1)) = Len(s) - 1
         /\ s = Append(SubSeq(s, 1, Len(s) - 1), s[Len(s)])
<1>1. Len(s) \in Nat /\ Len(s) # 0 BY EmptySeq
<1>2. \A i \in 1..Len(s) : s[i] \in S BY ElementOfSeq
<1> DEFINE t == SubSeq(s, 1, Len(s) - 1)
<1>3. t \in Seq(S) /\ Len(t) = Len(s) - 1 /\ \A i \in 1..Len(t) : t[i] = s[i]
  <2>1. \A i \in 1..(Len(s) - 1) : s[i] \in S BY <1>1, <1>2
  <2>2. /\ t \in Seq(S)
        /\ Len(t) = IF 1 <= Len(s) - 1 THEN Len(s) - 1 - 1 + 1 ELSE 0
        /\ \A i \in 1..(Len(s) - 1 - 1 + 1) : t[i] = s[1 + i - 1]
    <3> 1 \in Int /\ Len(s) - 1 \in Int BY <1>1
    <3> HIDE DEF t
    <3>1. QED BY <2>1, SubSeqProperties DEF t
  <2> HIDE DEF t
  <2>3. Len(t) = Len(s) - 1
    <3>1. CASE Len(s) = 1 BY <2>2, <3>1
    <3>2. CASE Len(s) > 1
      <4>1. 1 <= Len(s) - 1 BY <1>1, <3>2
      <4>2. Len(s) - 1 - 1 + 1 = Len(s) - 1 BY <1>1
      <4>3. Len(t) = Len(s) - 1 - 1 + 1 BY <2>2, <4>1
      <4>4. QED BY <4>2, <4>3
    <3>3. \A n \in Nat : n # 0 => n = 1 \/ n > 1 OBVIOUS
    <3>4. QED BY <1>1, <3>1, <3>2, <3>3
  <2>4. \A i \in 1..(Len(s) - 1) : t[i] = s[i] BY <1>1, <2>2
  <2>5. QED BY <2>2, <2>3, <2>4
<1> HIDE DEF t
<1>4. s[Len(s)] \in S BY <1>1, <1>2
<1> DEFINE u == Append(t, s[Len(s)])
<1>5. /\ u \in Seq(S) /\ Len(u) = Len(t) + 1
      /\ \A i \in 1..Len(t) : u[i] = t[i]
      /\ u[Len(t) + 1] = s[Len(s)]
  BY <1>3, <1>4, AppendProperties
<1> HIDE DEF u
<1>6. Len(s) = Len(u) /\ \A i \in 1..Len(s) : s[i] = u[i]
  BY <1>1, <1>3, <1>5
<1>7. s = u BY <1>5, <1>6, SeqEqual
<1>8. QED BY <1>3, <1>4, <1>7 DEF t, u

\* A sequence in front is not affected by what is appended.
LEMMA ConcatAppend ==
  ASSUME NEW S, NEW s \in Seq(S), NEW t \in Seq(S), NEW e \in S
  PROVE  s \o Append(t, e) = Append(s \o t, e)
<1>1. s \o t \in Seq(S) BY ConcatProperties
<1>2. <<e>> \in Seq(S) OBVIOUS
<1>3. Append(t, e) = t \o <<e>> BY AppendIsConcat
<1>4. Append(s \o t, e) = (s \o t) \o <<e>> BY <1>1, AppendIsConcat
<1>5. QED BY <1>2, <1>3, <1>4, ConcatAssociative

-----------------------------------------------------------------------------
(* include() *)

\* Entering and leaving an include keeps __file__ and traces the chain of the
\* scripts being evaluated, and never lets traces get behind.
LEMMA EnterKeeps ==
  ASSUME TypeOK, TracesNeverShort, Nested, NEW f \in Files, Enter(f),
         threw' = threw
  PROVE  /\ file' \in Files /\ traces' \in Seq(Files) /\ frames' \in Seq(Files)
         /\ frames' # <<>>
         /\ TracesNeverShort' /\ Nested'
<1> USE DEF Enter
<1>1. /\ file \in Files /\ traces \in Seq(Files) /\ frames \in Seq(Files)
  BY DEF TypeOK
<1>2. /\ frames' \in Seq(Files) /\ frames' # <<>>
      /\ Len(frames') = Len(frames) + 1
  BY <1>1, AppendProperties
<1>3. traces' \in Seq(Files) /\ Len(traces') = Len(traces) + 1
  BY <1>1, AppendProperties
<1>4. TracesNeverShort'
  <2>1. Len(traces) \in Nat /\ Len(frames) \in Nat BY <1>1, LenProperties
  <2>2. QED BY <2>1, <1>2, <1>3 DEF TracesNeverShort
<1>5. Nested'
  <2>1. SUFFICES ASSUME ~threw
                 PROVE  Append(traces', f) = <<Script>> \o frames'
    BY DEF Nested
  <2>2. Append(traces, file) = <<Script>> \o frames BY <2>1 DEF Nested
  <2>3. <<Script>> \in Seq(Files) OBVIOUS
  <2>4. <<Script>> \o Append(frames, f) = Append(<<Script>> \o frames, f)
    BY <1>1, <2>3, ConcatAppend
  <2>5. QED BY <2>2, <2>4
<1>6. QED BY <1>2, <1>3, <1>4, <1>5

LEMMA LeaveKeeps ==
  ASSUME TypeOK, TracesNeverShort, Nested, Leave, threw' = threw
  PROVE  /\ file' \in Files /\ traces' \in Seq(Files) /\ frames' \in Seq(Files)
         /\ Len(frames') = Len(frames) - 1
         /\ TracesNeverShort' /\ Nested'
<1> USE DEF Leave
<1>1. /\ file \in Files /\ traces \in Seq(Files) /\ frames \in Seq(Files)
  BY DEF TypeOK
<1>2. /\ frames' \in Seq(Files)
      /\ frames[Len(frames)] \in Files
      /\ Len(frames') = Len(frames) - 1
      /\ frames = Append(frames', frames[Len(frames)])
  BY <1>1, FrontLast
<1>3. traces # <<>>
  <2>1. Len(frames) \in Nat \ {0} BY <1>1, EmptySeq
  <2>2. Len(traces) > 0 BY <2>1, <1>1, LenProperties DEF TracesNeverShort
  <2>3. QED BY <2>2, EmptySeq
<1>4. /\ traces' \in Seq(Files)
      /\ file' \in Files
      /\ Len(traces') = Len(traces) - 1
      /\ traces = Append(traces', file')
  BY <1>1, <1>3, FrontLast
<1>5. TracesNeverShort'
  <2>1. Len(traces) \in Nat /\ Len(frames) \in Nat BY <1>1, LenProperties
  <2>2. QED BY <2>1, <1>2, <1>4 DEF TracesNeverShort
<1>6. Nested'
  <2>1. SUFFICES ASSUME ~threw
                 PROVE  Append(traces', file') = <<Script>> \o frames'
    BY DEF Nested
  <2>2. <<Script>> \in Seq(Files) OBVIOUS
  <2>3. <<Script>> \o frames = Append(<<Script>> \o frames',
                                     frames[Len(frames)])
    BY <1>2, <2>2, ConcatAppend
  <2>4. <<Script>> \o frames' \in Seq(Files)
    BY <1>2, <2>2, ConcatProperties
  <2>5. Append(traces, file) = <<Script>> \o frames BY <2>1 DEF Nested
  <2>6. traces = <<Script>> \o frames'
    BY <1>1, <1>2, <2>3, <2>4, <2>5, AppendInjective
  <2>7. QED BY <1>4, <2>6
<1>7. QED BY <1>2, <1>4, <1>5, <1>6

\* Dropping frames keeps traces long enough.
LEMMA ShorterFrames ==
  ASSUME TypeOK, TracesNeverShort, UNCHANGED <<file, traces>>, threw' = TRUE,
         frames' \in Seq(Files), Len(frames') <= Len(frames)
  PROVE  TracesNeverShort' /\ Nested'
<1>1. /\ Len(traces) \in Nat /\ Len(frames) \in Nat /\ Len(frames') \in Nat
  BY LenProperties DEF TypeOK
<1>2. QED BY <1>1 DEF TracesNeverShort, Nested

-----------------------------------------------------------------------------
(* The inductive invariant *)

LEMMA InitInv == Init => IInv
<1> SUFFICES ASSUME Init PROVE IInv OBVIOUS
<1> USE DEF Init
<1> <<>> \in Seq(Files) OBVIOUS
<1>1. TypeOK
  <2>1. NoHeaders \in [by : 0..MaxRequests, is : Kinds]
    BY DEF NoHeaders, Kinds
  <2>2. NoResponse \in [status : 0..MaxRequests, headers : 0..MaxRequests]
    BY DEF NoResponse
  <2>3. phase \in Phases BY DEF Phases
  <2>4. file \in Files /\ traces \in Seq(Files) /\ frames \in Seq(Files) OBVIOUS
  <2>5. reqs \in 0..MaxRequests /\ status \in 0..MaxRequests /\ stack \in Nat OBVIOUS
  <2>6. QED BY <2>1, <2>2, <2>3, <2>4, <2>5 DEF TypeOK
<1>2. TracesNeverShort BY DEF TracesNeverShort
<1>3. Nested
  <2>1. <<Script>> \in Seq(Files) OBVIOUS
  <2>2. <<Script>> \o <<>> = <<Script>> BY <2>1, ConcatEmptySeq
  <2>3. QED BY <2>2 DEF Nested
<1>4. Between /\ StackBounded /\ Unspent /\ SetTogether /\ OneCall
  BY DEF Between, StackBounded, Unspent, SetTogether, OneCall, NoHeaders, NoResponse
<1>5. QED BY <1>1, <1>2, <1>3, <1>4 DEF IInv

\* What the steps outside include() leave alone.
LEMMA SameScripts ==
  ASSUME IInv, UNCHANGED <<file, traces, frames, threw>>
  PROVE  TracesNeverShort' /\ Nested'
BY DEF IInv, TracesNeverShort, Nested

LEMMA StepInv == ASSUME IInv, Next PROVE IInv'
<1> USE DEF Phases, Kinds, NoHeaders, NoResponse, Between, StackBounded,
            SetTogether, OneCall, Unspent
<1>0. /\ TypeOK /\ Between /\ TracesNeverShort /\ Nested
      /\ StackBounded /\ Unspent /\ SetTogether /\ OneCall
  BY DEF IInv
<1> <<>> \in Seq(Files) /\ Len(<<>>) = 0 BY EmptySeq
<1>1. CASE Initialize
  <2> USE DEF Initialize
  <2>1. TypeOK'
    <3>1. NoHeaders \in [by : 0..MaxRequests, is : Kinds] OBVIOUS
    <3>2. headers' \in [by : 0..MaxRequests, is : Kinds]
      BY <1>1, <3>1
    <3>3. phase' \in Phases BY <1>1
    <3>4. QED BY <1>0, <1>1, <3>2, <3>3 DEF TypeOK
  <2>2. TracesNeverShort' BY <1>1 DEF TracesNeverShort
  <2>3. Nested'
    <3>1. <<Script>> \in Seq(Files) OBVIOUS
    <3>2. <<Script>> \o <<>> = <<Script>> BY <3>1, ConcatEmptySeq
    <3>3. QED BY <1>1, <3>2 DEF Nested
  <2>4. QED BY <1>0, <1>1, <2>1, <2>2, <2>3 DEF IInv
<1>2. CASE Finalize
  <2>1. TypeOK' BY <1>0, <1>2 DEF Finalize, TypeOK
  <2>2. QED BY <1>0, <1>2, <2>1, SameScripts DEF Finalize, IInv
<1>3. CASE Begin
  <2> USE DEF Begin
  <2>1. file \in Files BY <1>0 DEF TypeOK
  <2>2. /\ file' \in Files /\ traces' \in Seq(Files) /\ frames' \in Seq(Files)
        /\ frames' # <<>> /\ TracesNeverShort' /\ Nested'
    BY <1>0, <1>3, <2>1, EnterKeeps
  <2>3. TypeOK' BY <1>0, <1>3, <2>2 DEF TypeOK
  <2>4. StackBounded' /\ Unspent' BY <1>0, <1>3 DEF TypeOK
  <2>5. QED BY <1>0, <1>3, <2>2, <2>3, <2>4 DEF IInv
<1>4. ASSUME NEW f \in Files, Include(f) PROVE IInv'
  <2> USE DEF Include
  <2>1. /\ file' \in Files /\ traces' \in Seq(Files) /\ frames' \in Seq(Files)
        /\ frames' # <<>> /\ TracesNeverShort' /\ Nested'
    BY <1>0, <1>4, EnterKeeps
  <2>2. TypeOK' BY <1>0, <1>4, <2>1 DEF TypeOK
  <2>3. QED BY <1>0, <1>4, <2>1, <2>2 DEF IInv
<1>5. CASE Return
  <2> USE DEF Return
  <2>1. /\ file' \in Files /\ traces' \in Seq(Files) /\ frames' \in Seq(Files)
        /\ Len(frames') = Len(frames) - 1
        /\ TracesNeverShort' /\ Nested'
    BY <1>0, <1>5, LeaveKeeps
  <2>2. TypeOK' BY <1>0, <1>5, <2>1 DEF TypeOK
  <2>3. Between'
    <3>1. Len(frames) \in Nat BY <1>0, LenProperties DEF TypeOK
    <3>2. frames' = <<>> <=> Len(frames) = 1 BY <2>1, <3>1, EmptySeq
    <3>3. QED BY <1>5, <3>2
  <2>4. QED BY <1>0, <1>5, <2>1, <2>2, <2>3 DEF IInv
<1>6. CASE Catch
  <2> USE DEF Catch
  <2>1. frames \in Seq(Files) /\ frames # <<>> /\ Len(frames) \in Nat
    <3>1. frames \in Seq(Files) BY <1>0 DEF TypeOK
    <3>2. Len(frames) \in Nat BY <3>1, LenProperties
    <3>3. Len(frames) > 0 BY <1>6, <3>2
    <3>4. QED BY <3>1, <3>2, <3>3, EmptySeq
  <2>2. frames' \in Seq(Files) /\ Len(frames') = Len(frames) - 1
    BY <1>6, <2>1, FrontLast
  <2>3. TracesNeverShort' /\ Nested' BY <1>0, <1>6, <2>1, <2>2, ShorterFrames
  <2>4. TypeOK' BY <1>0, <1>6, <2>2 DEF TypeOK
  <2>5. Between'
    <3>1. phase = "include" => Len(frames') > 0 BY <1>6, <2>1, <2>2
    <3>2. phase = "include" => frames' # <<>> BY <3>1
    <3>3. phase' = phase /\ phase \in {"include", "call"} BY <1>6
    <3>4. QED BY <3>2, <3>3
  <2>6. QED BY <1>0, <1>6, <2>3, <2>4, <2>5 DEF IInv
<1>7. CASE Define
  <2>1. TypeOK' BY <1>0, <1>7 DEF Define, TypeOK
  <2>2. QED BY <1>0, <1>7, <2>1, SameScripts DEF Define, IInv
<1>8. CASE Throw \/ CallUndefined
  <2>1. Fail BY <1>8 DEF Throw, CallUndefined
  <2> USE DEF Fail
  <2>2. phase \in {"include", "ready", "call"}
    BY <1>8 DEF Throw, CallUndefined
  <2>3. TypeOK' BY <1>0, <2>1 DEF TypeOK
  <2>4. reqs \in Nat /\ stack \in Nat BY <1>0 DEF TypeOK
  <2>5. StackBounded' BY <1>0, <2>1, <2>2, <2>4
  <2>6. TracesNeverShort' /\ Nested'
    <3>1. Len(frames) \in Nat BY <1>0, LenProperties DEF TypeOK
    <3>2. frames' \in Seq(Files) /\ Len(frames') <= Len(frames)
      BY <2>1, <3>1, EmptySeq
    <3>3. QED BY <1>0, <2>1, <3>2, ShorterFrames
  <2>7. QED BY <1>0, <2>1, <2>3, <2>5, <2>6 DEF IInv
<1>9. CASE Call
  <2>1. TypeOK' BY <1>0, <1>9 DEF Call, TypeOK
  <2>2. QED BY <1>0, <1>9, <2>1, SameScripts DEF Call, IInv
<1>10. CASE StartResponse
  <2>1. TypeOK' BY <1>0, <1>10 DEF StartResponse, TypeOK
  <2>2. SetTogether' BY <1>10 DEF StartResponse
  <2>3. QED BY <1>0, <1>10, <2>1, <2>2, SameScripts DEF StartResponse, IInv
<1>11. CASE Respond
  <2> USE DEF Respond
  <2>1. TypeOK'
    <3>1. stack' \in Nat BY <1>0, <1>11 DEF TypeOK
    <3>2. NoResponse \in [status : 0..MaxRequests, headers : 0..MaxRequests]
      BY DEF NoResponse
    <3>3. response' \in [status : 0..MaxRequests, headers : 0..MaxRequests]
      BY <1>0, <1>11, <3>2 DEF TypeOK
    <3>4. phase' \in Phases BY <1>11
    <3>6. QED BY <1>0, <1>11, <3>1, <3>3, <3>4 DEF TypeOK
  <2>2. reqs \in Nat /\ stack \in Nat BY <1>0 DEF TypeOK
  <2>3. StackBounded' BY <1>0, <1>11, <2>2
  <2>4. OneCall' BY <1>0, <1>11
  <2>5. TracesNeverShort' /\ Nested' BY <1>11, SameScripts
  <2>6. QED BY <1>0, <1>11, <2>1, <2>3, <2>4, <2>5 DEF IInv
<1>12. QED
  BY <1>1, <1>2, <1>3, <1>4, <1>5, <1>6, <1>7, <1>8, <1>9, <1>10, <1>11
     DEF Next

LEMMA StutterInv == IInv /\ UNCHANGED vars => IInv'
BY DEF IInv, vars, TypeOK, Between, TracesNeverShort, Nested, StackBounded,
   Unspent, SetTogether, OneCall

-----------------------------------------------------------------------------
(* Theorems *)

\* IInv holds whatever the scripts of an interpreter include, throw and catch.
THEOREM WsgiInvariance == Spec => []IInv
<1>1. IInv /\ [Next]_vars => IInv' BY StepInv, StutterInv
<1>2. QED BY InitInv, <1>1, PTL DEF Spec

\* The pop in include() (dukpylib.c:1141) never meets an empty array.
THEOREM TracesHolds == Spec => []TracesNeverShort
<1>1. IInv => TracesNeverShort BY DEF IInv
<1>2. QED BY WsgiInvariance, <1>1, PTL

\* Until something is thrown, include() restores __file__ exactly.
THEOREM NestedHolds == Spec => []Nested
<1>1. IInv => Nested BY DEF IInv
<1>2. QED BY WsgiInvariance, <1>1, PTL

\* A request leaves at most three values on the stack of the interpreter.
THEOREM StackHolds == Spec => []StackBounded
<1>1. IInv => StackBounded BY DEF IInv
<1>2. QED BY WsgiInvariance, <1>1, PTL

\* No response mixes the status and the headers of two requests.
THEOREM OneCallHolds == Spec => []OneCall
<1>1. IInv => OneCall BY DEF IInv
<1>2. QED BY WsgiInvariance, <1>1, PTL
=============================================================================
