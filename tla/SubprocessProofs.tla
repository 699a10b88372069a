--------------------------- MODULE SubprocessProofs ---------------------------
(***************************************************************************)
(* SInv is an inductive invariant of Subprocess, for every number of       *)
(* objects, connections and descriptors and every size of a pipe; that the *)
(* pipes are accounted for, and that scripts reach their own children      *)
(* only, follow.                                                           *)
(***************************************************************************)
EXTENDS Subprocess, WellFoundedInduction, FiniteSetTheorems, TLAPS

\* psopen is at work on p.
Opening(p) == op.do \in {"pipe", "fork", "ends"} /\ op.of = p

\* Every end of p the server has open is one of an object that has been neither
\* waited for nor closed, or of the locals of psopen; and these are open.
Accounted(p) ==
  \A d \in Fds :
    /\ fd[d] = InW(p) <=> (Live(p) /\ d = ps[p].in) \/ (Opening(p) /\ d = tmp.inW)
    /\ fd[d] = Out(p) <=> (Live(p) /\ d = ps[p].out) \/ (Opening(p) /\ d = tmp.outR)
    /\ fd[d] = In(p) <=> Opening(p) /\ d = tmp.inR
    /\ fd[d] = OutW(p) <=> Opening(p) /\ d = tmp.outW

\* Which object a call may be about, and which numbers it finds there.
CallInv ==
  /\ op.do \in {"pipe", "fork", "ends"} =>
       op.of \in Procs /\ ps[op.of].state = "none" /\ tmp.inW \in Fds
  /\ op.do = "pipe" => tmp.outR = NoFd /\ tmp.outW = NoFd
  /\ op.do \in {"fork", "ends"} => tmp.outR \in Fds
  /\ op.do \in {"wait", "kill"} => op.of \in Procs /\ ps[op.of].state = "live"
  /\ op.do \in {"write", "read"} => op.of \in Procs /\ HasNumbers(op.of)
  /\ \A p \in Procs : HasNumbers(p) => ps[p].in \in Fds /\ ps[p].out \in Fds

FdInv == \A p \in Procs : Accounted(p)

SInv == TypeOK /\ CallInv /\ FdInv /\ OnlyOwnUsed

-----------------------------------------------------------------------------
(* Ends and numbers *)

Own(p) == {InW(p), Out(p), In(p), OutW(p)}

\* The ends of an object are different from each other, from those of other
\* objects, and from what is no end of a pipe.
LEMMA EndsDiffer ==
  ASSUME NEW p \in Procs
  PROVE  /\ InW(p) # Out(p) /\ InW(p) # In(p) /\ InW(p) # OutW(p)
         /\ Out(p) # In(p) /\ Out(p) # OutW(p) /\ In(p) # OutW(p)
         /\ Socket \notin Own(p) /\ Unused \notin Own(p)
         /\ \A q \in Procs : q # p => Own(p) \cap Own(q) = {}
         /\ \A e \in Own(p) : e[1] = p
BY SubprocessAssumption DEF InW, Out, In, OutW, Own, Socket, Unused, NoOne, Procs

LEMMA LeastOfNat ==
  ASSUME NEW T, T \subseteq Nat, T # {}
  PROVE  \E x \in T : \A y \in T : x <= y
<1> DEFINE R == OpToRel(<, Nat)
<1>1. IsWellFoundedOn(R, Nat)  BY NatLessThanWellFounded
<1>2. \A x \in Nat, y \in Nat : y < x => <<y, x>> \in R  BY DEF OpToRel
<1> HIDE DEF R
<1>3. PICK x \in T : \A y \in T : ~ (<<y, x>> \in R)  BY <1>1, WFMin
<1>4. ASSUME NEW y \in T PROVE x <= y
  <2>1. x \in Nat /\ y \in Nat /\ ~ (y < x)  BY <1>2, <1>3
  <2> QED  BY <2>1
<1> QED  BY <1>4

\* The kernel gives out one of the free numbers.
LEMMA LowestIn ==
  ASSUME NEW ds \in SUBSET Fds, ds # {}
  PROVE  Lowest(ds) \in ds
<1>1. ds \subseteq Nat  BY DEF Fds
<1>2. \E d \in ds : \A e \in ds : d <= e  BY <1>1, LeastOfNat
<1> QED  BY <1>2 DEF Lowest

LEMMA FreeFinite == IsFiniteSet(Free) /\ Free \subseteq Fds
<1>1. IsFiniteSet(Fds)  BY SubprocessAssumption, FS_Interval DEF Fds
<1> QED  BY <1>1, FS_Subset DEF Free

\* pipe() gives two different numbers, and dup() a third one or none.
LEMMA Numbers ==
  ASSUME Cardinality(Free) >= 2
  PROVE  /\ First \in Free /\ Second \in Free /\ First # Second
         /\ Dup \in (Free \ {First, Second}) \cup {NoFd}
<1>1. IsFiniteSet(Free) /\ Free \subseteq Fds /\ Cardinality(Free) \in Nat
  BY FreeFinite, FS_CardinalityType
<1>2. Free # {}  BY <1>1, FS_EmptySet
<1>3. First \in Free  BY <1>1, <1>2, LowestIn DEF First
<1>4. /\ IsFiniteSet(Free \ {First})
      /\ Cardinality(Free \ {First}) = Cardinality(Free) - 1
  BY <1>1, <1>3, FS_RemoveElement
<1>5. Free \ {First} # {}  BY <1>1, <1>4, FS_EmptySet
<1>6. Second \in Free \ {First}  BY <1>1, <1>5, LowestIn DEF Second
<1>7. CASE Cardinality(Free) >= 3
  <2>1. Cardinality((Free \ {First}) \ {Second}) = Cardinality(Free) - 2
    <3>1. Cardinality((Free \ {First}) \ {Second}) = Cardinality(Free \ {First}) - 1
      BY <1>4, <1>6, FS_RemoveElement
    <3> QED  BY <1>1, <1>4, <3>1
  <2>2. (Free \ {First}) \ {Second} = Free \ {First, Second}  OBVIOUS
  <2>3. Free \ {First, Second} # {}  BY <1>1, <1>7, <2>1, <2>2, FS_EmptySet
  <2>4. Third \in Free \ {First, Second}  BY <1>1, <2>3, LowestIn DEF Third
  <2> QED  BY <1>3, <1>6, <1>7, <2>4 DEF Dup
<1>8. CASE ~ (Cardinality(Free) >= 3)  BY <1>3, <1>6, <1>8 DEF Dup
<1> QED  BY <1>7, <1>8

\* A step that moves only ends of others keeps the account of an object.
LEMMA AccountKept ==
  ASSUME NEW q \in Procs, Accounted(q),
         \A d \in Fds : fd'[d] = fd[d] \/ (fd[d] \notin Own(q) /\ fd'[d] \notin Own(q)),
         Live(q)' <=> Live(q), Live(q) => ps'[q] = ps[q],
         Opening(q)' <=> Opening(q), Opening(q) => tmp' = tmp
  PROVE  Accounted(q)'
<1> SUFFICES ASSUME NEW d \in Fds
             PROVE  /\ fd'[d] = InW(q) <=> (Live(q)' /\ d = ps'[q].in)
                                           \/ (Opening(q)' /\ d = tmp'.inW)
                    /\ fd'[d] = Out(q) <=> (Live(q)' /\ d = ps'[q].out)
                                           \/ (Opening(q)' /\ d = tmp'.outR)
                    /\ fd'[d] = In(q) <=> Opening(q)' /\ d = tmp'.inR
                    /\ fd'[d] = OutW(q) <=> Opening(q)' /\ d = tmp'.outW
  BY DEF Accounted, InW, Out, In, OutW, Fds
<1>1. /\ fd[d] = InW(q) <=> (Live(q) /\ d = ps[q].in) \/ (Opening(q) /\ d = tmp.inW)
      /\ fd[d] = Out(q) <=> (Live(q) /\ d = ps[q].out) \/ (Opening(q) /\ d = tmp.outR)
      /\ fd[d] = In(q) <=> Opening(q) /\ d = tmp.inR
      /\ fd[d] = OutW(q) <=> Opening(q) /\ d = tmp.outW
  BY DEF Accounted
<1>2. \A e \in Own(q) : fd'[d] = e <=> fd[d] = e  OBVIOUS
<1>3. /\ fd'[d] = InW(q) <=> fd[d] = InW(q)
      /\ fd'[d] = Out(q) <=> fd[d] = Out(q)
      /\ fd'[d] = In(q) <=> fd[d] = In(q)
      /\ fd'[d] = OutW(q) <=> fd[d] = OutW(q)
  BY <1>2 DEF Own
<1> QED  BY <1>1, <1>3

-----------------------------------------------------------------------------
(* The types and the calls *)

LEMMA CloseAllType ==
  ASSUME TypeOK, NEW ds, CloseAll(ds)
  PROVE  fd' \in [Fds -> Ends \cup {Unused}]
BY DEF CloseAll, TypeOK

LEMMA CreatePipeType ==
  ASSUME TypeOK, NEW at, NEW kept \in PipeEnds, NEW given \in PipeEnds,
         CreatePipe(at, kept, given)
  PROVE  fd' \in [Fds -> Ends \cup {Unused}]
<1>1. fd' = [d \in Fds |-> CASE d = at -> kept [] d = Dup -> given [] OTHER -> fd[d]]
  BY DEF CreatePipe
<1>2. \A d \in Fds : fd[d] \in Ends \cup {Unused}  BY DEF TypeOK
<1>3. kept \in Ends /\ given \in Ends  BY DEF Ends
<1> HIDE DEF Dup
<1> QED  BY <1>1, <1>2, <1>3

LEMMA UsesType ==
  ASSUME TypeOK, NEW p \in Procs, NEW how \in {"write", "read", "close"}, NEW ds,
         Uses(p, how, ds)
  PROVE  stray' \subseteq Procs \X {"write", "read", "close"}
BY DEF Uses, TypeOK

LEMMA FailsType ==
  ASSUME TypeOK, NEW p \in Procs, NEW ds, Fails(p, ds)
  PROVE  /\ fd' \in [Fds -> Ends \cup {Unused}]
         /\ ps' \in [Procs -> [state : States, in : Fds \cup {NoFd},
                               out : Fds \cup {NoFd}]]
         /\ op' = Idle /\ tmp' = NoTmp
<1>1. fd' \in [Fds -> Ends \cup {Unused}]  BY CloseAllType DEF Fails
<1> QED  BY <1>1 DEF Fails, Done, TypeOK, States

LEMMA IdleType ==
  /\ Idle \in [do : Calls, of : Procs \cup {NoOne}, n : 0 .. Signals]
  /\ NoTmp \in [{"inR", "inW", "outR", "outW"} -> Fds \cup {NoFd}]
BY DEF Idle, NoTmp, Calls, Signals

LEMMA BeginType ==
  ASSUME NEW do \in Calls, NEW p \in Procs, NEW n \in 0 .. Signals, Begin(do, p, n)
  PROVE  op' \in [do : Calls, of : Procs \cup {NoOne}, n : 0 .. Signals]
BY DEF Begin

\* The numbers a pipe gets go into the locals.
LEMMA NumbersType ==
  ASSUME Cardinality(Free) >= 2
  PROVE  First \in Fds /\ Second \in Fds /\ Dup \in Fds \cup {NoFd}
BY Numbers, FreeFinite

LEMMA TypeStep == ASSUME SInv, Next PROVE TypeOK'
<1> USE DEF kernelVars
<1>1. TypeOK  BY DEF SInv
<1>2. ASSUME NEW p \in Procs, OpenFails(p) PROVE TypeOK'
  <2>1. Fails(p, {}) /\ UNCHANGED <<holds, child, inn, out, stray>>
    BY <1>2 DEF OpenFails
  <2> QED  BY <1>1, <2>1, FailsType, IdleType DEF TypeOK
<1>3. ASSUME NEW p \in Procs, OpenOutFails(p) PROVE TypeOK'
  <2>1. Fails(p, {tmp.inR, tmp.inW}) /\ UNCHANGED <<holds, child, inn, out, stray>>
    BY <1>3 DEF OpenOutFails
  <2> QED  BY <1>1, <2>1, FailsType, IdleType DEF TypeOK
<1>4. ASSUME NEW p \in Procs, ForkFails(p) PROVE TypeOK'
  <2>1. /\ Fails(p, {tmp.inR, tmp.inW, tmp.outR, tmp.outW})
        /\ UNCHANGED <<holds, child, inn, out, stray>>
    BY <1>4 DEF ForkFails
  <2> QED  BY <1>1, <2>1, FailsType, IdleType DEF TypeOK
<1>5. ASSUME NEW p \in Procs, Open(p) PROVE TypeOK'
  <2>1. /\ Begin("pipe", p, 0) /\ CreatePipe(Second, InW(p), In(p))
        /\ tmp' = [NoTmp EXCEPT !.inR = Dup, !.inW = Second]
        /\ UNCHANGED <<holds, child, inn, out, ps, stray>>
    BY <1>5 DEF Open
  <2>2. InW(p) \in PipeEnds /\ In(p) \in PipeEnds  BY DEF PipeEnds
  <2>3. fd' \in [Fds -> Ends \cup {Unused}]  BY <1>1, <2>1, <2>2, CreatePipeType
  <2>4. op' \in [do : Calls, of : Procs \cup {NoOne}, n : 0 .. Signals]
    BY <2>1, BeginType DEF Calls, Signals
  <2>5. Second \in Fds /\ Dup \in Fds \cup {NoFd}
    BY <2>1, NumbersType DEF CreatePipe
  <2>6. tmp' \in [{"inR", "inW", "outR", "outW"} -> Fds \cup {NoFd}]
    BY <2>1, <2>5, IdleType
  <2> QED  BY <1>1, <2>1, <2>3, <2>4, <2>6 DEF TypeOK
<1>6. ASSUME NEW p \in Procs, OpenOut(p) PROVE TypeOK'
  <2>1. /\ op' = [op EXCEPT !.do = "fork"] /\ CreatePipe(First, Out(p), OutW(p))
        /\ tmp' = [tmp EXCEPT !.outR = First, !.outW = Dup]
        /\ UNCHANGED <<holds, child, inn, out, ps, stray>>
    BY <1>6 DEF OpenOut, Goto
  <2>2. Out(p) \in PipeEnds /\ OutW(p) \in PipeEnds  BY DEF PipeEnds
  <2>3. fd' \in [Fds -> Ends \cup {Unused}]  BY <1>1, <2>1, <2>2, CreatePipeType
  <2>4. op' \in [do : Calls, of : Procs \cup {NoOne}, n : 0 .. Signals]
    BY <1>1, <2>1 DEF TypeOK, Calls
  <2>5. First \in Fds /\ Dup \in Fds \cup {NoFd}
    BY <2>1, NumbersType DEF CreatePipe
  <2>6. tmp' \in [{"inR", "inW", "outR", "outW"} -> Fds \cup {NoFd}]
    BY <1>1, <2>1, <2>5 DEF TypeOK
  <2> QED  BY <1>1, <2>1, <2>3, <2>4, <2>6 DEF TypeOK
<1>7. ASSUME NEW p \in Procs, Fork(p) PROVE TypeOK'
  <2>1. /\ op' = [op EXCEPT !.do = "ends"] /\ UNCHANGED <<fd, inn, out, ps, tmp, stray>>
        /\ \/ child' = [child EXCEPT ![p] = "zombie"] /\ UNCHANGED holds
           \/ /\ child' = [child EXCEPT ![p] = "running"]
              /\ holds' = [holds EXCEPT ![p] = {fd[d] : d \in Fds} \cap PipeEnds]
    BY <1>7 DEF Fork, Goto
  <2>2. op' \in [do : Calls, of : Procs \cup {NoOne}, n : 0 .. Signals]
    BY <1>1, <2>1 DEF TypeOK, Calls
  <2>3. /\ child' \in [Procs -> {"none", "running", "zombie", "reaped"}]
        /\ holds' \in [Procs -> SUBSET PipeEnds]
    <3> DEFINE H == {fd[d] : d \in Fds} \cap PipeEnds
    <3>1. H \subseteq PipeEnds  OBVIOUS
    <3> HIDE DEF H
    <3>2. \/ child' = [child EXCEPT ![p] = "zombie"] /\ UNCHANGED holds
          \/ /\ child' = [child EXCEPT ![p] = "running"]
             /\ holds' = [holds EXCEPT ![p] = H]
      BY <2>1 DEF H
    <3> QED  BY <1>1, <3>1, <3>2 DEF TypeOK
  <2> QED  BY <1>1, <2>1, <2>2, <2>3 DEF TypeOK
<1>8. ASSUME NEW p \in Procs, CloseEnds(p) PROVE TypeOK'
  <2>1. /\ op' = Idle /\ tmp' = NoTmp /\ CloseAll({tmp.inR, tmp.outW})
        /\ ps' = [ps EXCEPT ![p] = [state |-> "live", in |-> tmp.inW, out |-> tmp.outR]]
        /\ UNCHANGED <<holds, child, inn, out, stray>>
    BY <1>8 DEF CloseEnds, Done
  <2>2. fd' \in [Fds -> Ends \cup {Unused}]  BY <1>1, <2>1, CloseAllType
  <2>3. ps' \in [Procs -> [state : States, in : Fds \cup {NoFd},
                           out : Fds \cup {NoFd}]]
    BY <1>1, <2>1 DEF TypeOK, States
  <2> QED  BY <1>1, <2>1, <2>2, <2>3, IdleType DEF TypeOK
<1>9. ASSUME NEW p \in Procs,
             Write(p) \/ Read(p) \/ Wait(p)
      PROVE  TypeOK'
  <2>1. /\ \E do \in {"write", "read", "wait"} : Begin(do, p, 0)
        /\ UNCHANGED <<fd, holds, child, inn, out, ps, tmp, stray>>
    BY <1>9 DEF Write, Read, Wait
  <2>2. op' \in [do : Calls, of : Procs \cup {NoOne}, n : 0 .. Signals]
    BY <2>1, BeginType DEF Calls, Signals
  <2> QED  BY <1>1, <2>1, <2>2 DEF TypeOK
<1>10. ASSUME NEW p \in Procs,
              WriteSocket(p) \/ WriteFails(p) \/ ReadSocket(p) \/ ReadFails(p)
       PROVE  TypeOK'
  <2>1. /\ op' = Idle /\ UNCHANGED <<fd, holds, child, inn, out, ps, tmp>>
        /\ stray' \subseteq Procs \X {"write", "read", "close"}
    BY <1>1, <1>10, UsesType DEF WriteSocket, WriteFails, ReadSocket, ReadFails, Done,
       TypeOK
  <2> QED  BY <1>1, <2>1, IdleType DEF TypeOK
<1>11. ASSUME NEW p \in Procs, NEW q \in Procs, WriteByte(p, q) PROVE TypeOK'
  <2>1. /\ op' = Idle \/ op' = op
        /\ inn' = [inn EXCEPT ![q] = @ + 1] /\ inn[q] < PipeSize
        /\ UNCHANGED <<fd, holds, child, out, ps, tmp>>
        /\ stray' \subseteq Procs \X {"write", "read", "close"}
    BY <1>1, <1>11, UsesType DEF WriteByte, Done
  <2>2. inn' \in [Procs -> 0 .. PipeSize]
    BY <1>1, <2>1, SubprocessAssumption DEF TypeOK
  <2> QED  BY <1>1, <2>1, <2>2, IdleType DEF TypeOK
<1>12. ASSUME NEW p \in Procs, NEW q \in Procs, ReadBytes(p, q) PROVE TypeOK'
  <2>1. /\ op' = Idle
        /\ \/ \E n \in 1 .. out[q] : out' = [out EXCEPT ![q] = @ - n]
           \/ UNCHANGED out
        /\ UNCHANGED <<fd, holds, child, inn, ps, tmp>>
        /\ stray' \subseteq Procs \X {"write", "read", "close"}
    BY <1>1, <1>12, UsesType DEF ReadBytes, Done
  <2>2. out' \in [Procs -> 0 .. PipeSize]
    BY <1>1, <2>1, SubprocessAssumption DEF TypeOK
  <2> QED  BY <1>1, <2>1, <2>2, IdleType DEF TypeOK
<1>13. ASSUME NEW p \in Procs, Reap(p) PROVE TypeOK'
  <2>1. /\ op' = Idle /\ CloseAll({ps[p].in, ps[p].out})
        /\ child' = [child EXCEPT ![p] = "reaped"]
        /\ ps' = [ps EXCEPT ![p].state = "waited"]
        /\ UNCHANGED <<holds, inn, out, tmp>>
        /\ stray' \subseteq Procs \X {"write", "read", "close"}
    BY <1>1, <1>13, UsesType DEF Reap, Done
  <2>2. fd' \in [Fds -> Ends \cup {Unused}]  BY <1>1, <2>1, CloseAllType
  <2>3. /\ child' \in [Procs -> {"none", "running", "zombie", "reaped"}]
        /\ ps' \in [Procs -> [state : States, in : Fds \cup {NoFd},
                              out : Fds \cup {NoFd}]]
    BY <1>1, <2>1 DEF TypeOK, States
  <2> QED  BY <1>1, <2>1, <2>2, <2>3, IdleType DEF TypeOK
<1>14. ASSUME NEW p \in Procs, Close(p) PROVE TypeOK'
  <2>1. /\ Begin("kill", p, 1) /\ CloseAll({ps[p].in, ps[p].out})
        /\ UNCHANGED <<holds, child, inn, out, ps, tmp>>
        /\ stray' \subseteq Procs \X {"write", "read", "close"}
    BY <1>1, <1>14, UsesType DEF Close
  <2>2. fd' \in [Fds -> Ends \cup {Unused}]  BY <1>1, <2>1, CloseAllType
  <2>3. op' \in [do : Calls, of : Procs \cup {NoOne}, n : 0 .. Signals]
    BY <2>1, BeginType DEF Calls, Signals
  <2> QED  BY <1>1, <2>1, <2>2, <2>3 DEF TypeOK
<1>15. ASSUME NEW p \in Procs, CloseWaited(p) PROVE TypeOK'
  <2>1. ps' \in [Procs -> [state : States, in : Fds \cup {NoFd},
                           out : Fds \cup {NoFd}]]
    BY <1>1, <1>15 DEF CloseWaited, TypeOK, States
  <2> QED  BY <1>1, <1>15, <2>1 DEF CloseWaited, TypeOK
<1>16. ASSUME NEW p \in Procs, Dies(p)
       PROVE  /\ child' \in [Procs -> {"none", "running", "zombie", "reaped"}]
              /\ holds' \in [Procs -> SUBSET PipeEnds]
  BY <1>1, <1>16 DEF Dies, TypeOK
<1>17. ASSUME NEW p \in Procs, Kill(p) PROVE TypeOK'
  <2>1. /\ child' \in [Procs -> {"none", "running", "zombie", "reaped"}]
        /\ holds' \in [Procs -> SUBSET PipeEnds]
    BY <1>1, <1>16, <1>17 DEF Kill, TypeOK
  <2>2. /\ UNCHANGED <<fd, inn, out, tmp, stray>>
        /\ \/ op' = Idle /\ ps' = [ps EXCEPT ![p].state = "freed"]
           \/ /\ op.n # Signals
              /\ op' = [op EXCEPT !.n = @ + 1] /\ UNCHANGED ps
    BY <1>17 DEF Kill, Done
  <2>3. /\ op' \in [do : Calls, of : Procs \cup {NoOne}, n : 0 .. Signals]
        /\ ps' \in [Procs -> [state : States, in : Fds \cup {NoFd},
                              out : Fds \cup {NoFd}]]
    <3>1. CASE op' = Idle /\ ps' = [ps EXCEPT ![p].state = "freed"]
      BY <1>1, <3>1, IdleType DEF TypeOK, States
    <3>2. CASE op.n # Signals /\ op' = [op EXCEPT !.n = @ + 1] /\ UNCHANGED ps
      BY <1>1, <3>2 DEF TypeOK, Signals
    <3> QED  BY <2>2, <3>1, <3>2
  <2> QED  BY <1>1, <2>1, <2>2, <2>3 DEF TypeOK
<1>18. ASSUME NEW p \in Procs, ChildRead(p) \/ ChildWrite(p) \/ ChildExit(p)
       PROVE  TypeOK'
  <2>1. /\ inn' \in [Procs -> 0 .. PipeSize] /\ out' \in [Procs -> 0 .. PipeSize]
    <3>1. /\ inn \in [Procs -> 0 .. PipeSize] /\ out \in [Procs -> 0 .. PipeSize]
          /\ PipeSize \in Nat
      BY <1>1, SubprocessAssumption DEF TypeOK
    <3>2. \/ UNCHANGED <<inn, out>>
          \/ inn[p] > 0 /\ inn' = [inn EXCEPT ![p] = @ - 1] /\ UNCHANGED out
          \/ out[p] < PipeSize /\ out' = [out EXCEPT ![p] = @ + 1] /\ UNCHANGED inn
      BY <1>18 DEF ChildRead, ChildWrite, ChildExit
    <3>3. inn[p] \in 0 .. PipeSize /\ out[p] \in 0 .. PipeSize  BY <3>1
    <3>4. CASE inn[p] > 0 /\ inn' = [inn EXCEPT ![p] = @ - 1] /\ UNCHANGED out
      <4>1. inn[p] - 1 \in 0 .. PipeSize  BY <3>1, <3>3, <3>4
      <4> QED  BY <3>1, <3>4, <4>1
    <3>5. CASE out[p] < PipeSize /\ out' = [out EXCEPT ![p] = @ + 1] /\ UNCHANGED inn
      <4>1. out[p] + 1 \in 0 .. PipeSize  BY <3>1, <3>3, <3>5
      <4> QED  BY <3>1, <3>5, <4>1
    <3> QED  BY <3>1, <3>2, <3>4, <3>5
  <2>2. /\ child' \in [Procs -> {"none", "running", "zombie", "reaped"}]
        /\ holds' \in [Procs -> SUBSET PipeEnds]
    BY <1>1, <1>16, <1>18 DEF ChildRead, ChildWrite, ChildExit, TypeOK
  <2>3. UNCHANGED <<fd, ps, op, tmp, stray>>
    BY <1>18 DEF ChildRead, ChildWrite, ChildExit
  <2> QED  BY <1>1, <2>1, <2>2, <2>3 DEF TypeOK
<1>19. CASE SocketOpen
  <2>1. fd' \in [Fds -> Ends \cup {Unused}]
    BY <1>1, <1>19 DEF SocketOpen, TypeOK, Ends
  <2> QED  BY <1>1, <1>19, <2>1 DEF SocketOpen, TypeOK
<1>20. ASSUME NEW d \in Fds, SocketClose(d) PROVE TypeOK'
  <2>1. fd' \in [Fds -> Ends \cup {Unused}]
    BY <1>1, <1>20, CloseAllType DEF SocketClose
  <2> QED  BY <1>1, <1>20, <2>1 DEF SocketClose, TypeOK
<1> QED
  BY <1>2, <1>3, <1>4, <1>5, <1>6, <1>7, <1>8, <1>9, <1>10, <1>11, <1>12, <1>13,
     <1>14, <1>15, <1>17, <1>18, <1>19, <1>20 DEF Next, Call, Script

LEMMA CallStep == ASSUME SInv, Next PROVE CallInv'
<1>1. TypeOK /\ CallInv  BY DEF SInv
<1>2. ps \in [Procs -> [state : States, in : Fds \cup {NoFd}, out : Fds \cup {NoFd}]]
  BY <1>1 DEF TypeOK
<1> USE DEF CallInv, HasNumbers
<1>3. ASSUME NEW p \in Procs, OpenFails(p) PROVE CallInv'
  <2>1. op' = Idle /\ ps' = [ps EXCEPT ![p].state = "failed"]
    BY <1>3 DEF OpenFails, Fails, Done
  <2> QED  BY <1>1, <1>2, <2>1 DEF Idle
<1>4. ASSUME NEW p \in Procs, OpenOutFails(p) \/ ForkFails(p) PROVE CallInv'
  <2>1. op' = Idle /\ ps' = [ps EXCEPT ![p].state = "failed"]
    BY <1>4 DEF OpenOutFails, ForkFails, Fails, Done
  <2> QED  BY <1>1, <1>2, <2>1 DEF Idle
<1>5. ASSUME NEW p \in Procs, Open(p) PROVE CallInv'
  <2>1. /\ op' = [do |-> "pipe", of |-> p, n |-> 0] /\ ps' = ps
        /\ tmp' = [NoTmp EXCEPT !.inR = Dup, !.inW = Second]
        /\ Cardinality(Free) >= 2
    BY <1>5 DEF Open, Begin, CreatePipe
  <2>2. ps[p].state = "none"  BY <1>5 DEF Open, IsNext, Procs
  <2>3. Second \in Fds  BY <2>1, NumbersType
  <2>4. tmp'.inW = Second /\ tmp'.outR = NoFd /\ tmp'.outW = NoFd
    BY <2>1 DEF NoTmp
  <2> QED  BY <1>1, <2>1, <2>2, <2>3, <2>4
<1>6. ASSUME NEW p \in Procs, OpenOut(p) PROVE CallInv'
  <2>1. /\ op.do = "pipe" /\ op' = [op EXCEPT !.do = "fork"] /\ ps' = ps
        /\ tmp' = [tmp EXCEPT !.outR = First, !.outW = Dup]
        /\ Cardinality(Free) >= 2
    BY <1>6 DEF OpenOut, At, Goto, CreatePipe
  <2>2. First \in Fds  BY <2>1, NumbersType
  <2>3. tmp'.inW = tmp.inW /\ tmp'.outR = First  BY <1>1, <2>1 DEF TypeOK
  <2>4. op'.do = "fork" /\ op'.of = op.of  BY <1>1, <2>1 DEF TypeOK
  <2> QED  BY <1>1, <2>1, <2>2, <2>3, <2>4
<1>7. ASSUME NEW p \in Procs, Fork(p) PROVE CallInv'
  <2>1. op.do = "fork" /\ op' = [op EXCEPT !.do = "ends"] /\ ps' = ps /\ tmp' = tmp
    BY <1>7 DEF Fork, At, Goto
  <2>2. op'.do = "ends" /\ op'.of = op.of  BY <1>1, <2>1 DEF TypeOK
  <2> QED  BY <1>1, <2>1, <2>2
<1>8. ASSUME NEW p \in Procs, CloseEnds(p) PROVE CallInv'
  <2>1. /\ op.do = "ends" /\ op' = Idle
        /\ ps' = [ps EXCEPT ![p] = [state |-> "live", in |-> tmp.inW, out |-> tmp.outR]]
    BY <1>8 DEF CloseEnds, At, Done
  <2>2. tmp.inW \in Fds /\ tmp.outR \in Fds  BY <1>1, <2>1
  <2> QED  BY <1>1, <1>2, <2>1, <2>2 DEF Idle
<1>9. ASSUME NEW p \in Procs, Write(p) \/ Read(p) \/ Wait(p) PROVE CallInv'
  <2>1. UNCHANGED <<ps, tmp>>  BY <1>9 DEF Write, Read, Wait
  <2>2. \/ op' = [do |-> "write", of |-> p, n |-> 0] /\ HasNumbers(p)
        \/ op' = [do |-> "read", of |-> p, n |-> 0] /\ HasNumbers(p)
        \/ op' = [do |-> "wait", of |-> p, n |-> 0] /\ ps[p].state = "live"
    BY <1>9 DEF Write, Read, Wait, Begin
  <2> QED  BY <1>1, <2>1, <2>2
<1>10. ASSUME NEW p \in Procs, Close(p) PROVE CallInv'
  <2>1. /\ UNCHANGED <<ps, tmp>> /\ ps[p].state = "live"
        /\ op' = [do |-> "kill", of |-> p, n |-> 1]
    BY <1>10 DEF Close, Begin
  <2> QED  BY <1>1, <2>1
<1>11. ASSUME op' = Idle \/ op' = op, UNCHANGED <<ps, tmp>> PROVE CallInv'
  BY <1>1, <1>11 DEF Idle
<1>12. ASSUME NEW p \in Procs,
              WriteSocket(p) \/ WriteFails(p) \/ ReadSocket(p) \/ ReadFails(p)
       PROVE  CallInv'
  BY <1>11, <1>12 DEF WriteSocket, WriteFails, ReadSocket, ReadFails, Done, kernelVars
<1>13. ASSUME NEW p \in Procs, NEW q \in Procs, WriteByte(p, q) \/ ReadBytes(p, q)
       PROVE  CallInv'
  BY <1>11, <1>13 DEF WriteByte, ReadBytes, Done
<1>14. ASSUME NEW p \in Procs, Reap(p) PROVE CallInv'
  <2>1. op' = Idle /\ ps' = [ps EXCEPT ![p].state = "waited"] /\ HasNumbers(p)
    BY <1>1, <1>14 DEF Reap, Done, At
  <2> QED  BY <1>1, <1>2, <2>1 DEF Idle
<1>15. ASSUME NEW p \in Procs, CloseWaited(p) PROVE CallInv'
  <2>1. op' = op /\ op = Idle /\ ps' = [ps EXCEPT ![p].state = "freed"] /\ HasNumbers(p)
    BY <1>15 DEF CloseWaited
  <2> QED  BY <1>1, <1>2, <2>1 DEF Idle
<1>16. ASSUME NEW p \in Procs, Kill(p) PROVE CallInv'
  <2>1. /\ op.do = "kill" /\ op.of = p /\ tmp' = tmp
        /\ \/ op' = Idle /\ ps' = [ps EXCEPT ![p].state = "freed"]
           \/ op' = [op EXCEPT !.n = @ + 1] /\ UNCHANGED ps
    BY <1>16 DEF Kill, At, Done
  <2>2. CASE op' = Idle /\ ps' = [ps EXCEPT ![p].state = "freed"]
    BY <1>1, <1>2, <2>1, <2>2 DEF Idle
  <2>3. CASE op' = [op EXCEPT !.n = @ + 1] /\ UNCHANGED ps
    <3>1. op'.do = op.do /\ op'.of = op.of  BY <1>1, <2>3 DEF TypeOK
    <3> QED  BY <1>1, <2>1, <2>3, <3>1
  <2> QED  BY <2>1, <2>2, <2>3
<1>17. ASSUME NEW p \in Procs, ChildRead(p) \/ ChildWrite(p) \/ ChildExit(p)
       PROVE  CallInv'
  BY <1>11, <1>17 DEF ChildRead, ChildWrite, ChildExit
<1>18. CASE SocketOpen \/ \E d \in Fds : SocketClose(d)
  BY <1>11, <1>18 DEF SocketOpen, SocketClose
<1> QED
  BY <1>3, <1>4, <1>5, <1>6, <1>7, <1>8, <1>9, <1>10, <1>12, <1>13, <1>14, <1>15,
     <1>16, <1>17, <1>18 DEF Next, Call, Script

-----------------------------------------------------------------------------
(* The descriptors *)

\* close() of numbers that an object has no ends at.
LEMMA CloseOthers ==
  ASSUME NEW q \in Procs, NEW ds, CloseAll(ds),
         \A d \in Fds : d \in ds => fd[d] \notin Own(q)
  PROVE  \A d \in Fds : fd'[d] = fd[d] \/ (fd[d] \notin Own(q) /\ fd'[d] \notin Own(q))
<1>1. Unused \notin Own(q)  BY EndsDiffer
<1> QED  BY <1>1 DEF CloseAll

\* An object without a live process has no ends.
LEMMA NoEnds ==
  ASSUME NEW q \in Procs, Accounted(q), ~ Live(q), ~ Opening(q)
  PROVE  \A d \in Fds : fd[d] \notin Own(q)
BY DEF Accounted, Own

\* All ends of an object are closed when it goes.
LEMMA AccountClosed ==
  ASSUME NEW q \in Procs, ~ Live(q)', ~ Opening(q)',
         \A d \in Fds : fd'[d] \notin Own(q)
  PROVE  Accounted(q)'
<1>1. \A d \in Fds : /\ fd'[d] # InW(q) /\ fd'[d] # Out(q)
                     /\ fd'[d] # In(q) /\ fd'[d] # OutW(q)
  BY DEF Own
<1> QED  BY <1>1 DEF Accounted, InW, Out, In, OutW, Fds, Procs

\* The numbers of an object hold its ends, or nothing of it.
LEMMA NumbersOwn ==
  ASSUME NEW p \in Procs, Accounted(p), NEW d \in Fds,
         \/ Live(p) /\ d \in {ps[p].in, ps[p].out}
         \/ Opening(p) /\ d \in {tmp.inR, tmp.inW, tmp.outR, tmp.outW}
  PROVE  fd[d] \in Own(p)
BY DEF Accounted, Own

\* Nothing is opened or closed, and nobody's state changes so that it matters.
LEMMA FdsUnchanged ==
  ASSUME FdInv, fd' = fd,
         \A q \in Procs : /\ Live(q)' <=> Live(q)
                          /\ Live(q) => ps'[q] = ps[q]
                          /\ Opening(q)' <=> Opening(q)
                          /\ Opening(q) => tmp' = tmp
  PROVE  FdInv'
<1>1. \A q \in Procs : Accounted(q)'  BY AccountKept DEF FdInv
<1> QED  BY <1>1 DEF FdInv

\* psopen gives up: the ends of p are closed, all of them, and no others.
LEMMA FdFails ==
  ASSUME SInv, NEW p \in Procs, NEW ds, Fails(p, ds), ~ Live(p),
         \A d \in Fds : d \in ds => fd[d] \in Own(p),
         \A d \in Fds : fd[d] \in Own(p) => d \in ds,
         op = Idle \/ Opening(p)
  PROVE  FdInv'
<1>1. TypeOK /\ FdInv  BY DEF SInv
<1>2. /\ CloseAll(ds) /\ op' = Idle /\ ps' = [ps EXCEPT ![p].state = "failed"]
  BY DEF Fails, Done
<1>3. ASSUME NEW q \in Procs, q # p PROVE Accounted(q)'
  <2>1. \A d \in Fds : d \in ds => fd[d] \notin Own(q)
    BY <1>3, EndsDiffer
  <2>2. ps'[q] = ps[q]  BY <1>1, <1>2, <1>3 DEF TypeOK
  <2>3. /\ Live(q)' <=> Live(q)
        /\ ~ Opening(q) /\ ~ Opening(q)'
    BY <1>2, <1>3, <2>2 DEF Live, At, Opening, Idle
  <2> QED  BY <1>1, <1>2, <2>1, <2>2, <2>3, CloseOthers, AccountKept DEF FdInv
<1>4. Accounted(p)'
  <2>1. ps'[p].state = "failed"  BY <1>1, <1>2 DEF TypeOK
  <2>2. ~ Live(p)' /\ ~ Opening(p)'  BY <1>2, <2>1 DEF Live, Opening, Idle
  <2>3. \A d \in Fds : fd'[d] \notin Own(p)
    BY <1>2, EndsDiffer DEF CloseAll
  <2> QED  BY <2>2, <2>3, AccountClosed
<1> QED  BY <1>3, <1>4 DEF FdInv

\* A pipe for p: two numbers that were free hold two ends of p now.
LEMMA FdPipe ==
  ASSUME SInv, NEW p \in Procs, NEW at \in {First, Second},
         NEW kept \in Own(p), NEW given \in Own(p), CreatePipe(at, kept, given)
  PROVE  /\ at \in Fds /\ fd[at] = Unused /\ at # Dup
         /\ Dup # NoFd => Dup \in Fds /\ fd[Dup] = Unused
         /\ \A d \in Fds : fd'[d] = IF d = at THEN kept ELSE IF d = Dup THEN given ELSE fd[d]
         /\ \A q \in Procs : q # p =>
              \A d \in Fds : fd'[d] = fd[d] \/ (fd[d] \notin Own(q) /\ fd'[d] \notin Own(q))
<1>1. /\ First \in Free /\ Second \in Free /\ First # Second
      /\ Dup \in (Free \ {First, Second}) \cup {NoFd}
  BY Numbers DEF CreatePipe
<1>2. NoFd \notin Fds  BY SubprocessAssumption
<1>3. \A d \in Free : d \in Fds /\ fd[d] = Unused  BY DEF Free
<1>4. fd' = [d \in Fds |-> CASE d = at -> kept [] d = Dup -> given [] OTHER -> fd[d]]
  BY DEF CreatePipe
<1> HIDE DEF Dup, First, Second
<1>5. at \in Fds /\ fd[at] = Unused /\ at # Dup
  BY <1>1, <1>2, <1>3
<1>6. Dup # NoFd => Dup \in Fds /\ fd[Dup] = Unused  BY <1>1, <1>3
<1>7. \A d \in Fds : fd'[d] = IF d = at THEN kept ELSE IF d = Dup THEN given ELSE fd[d]
  <2> SUFFICES ASSUME NEW d \in Fds
               PROVE  fd'[d] = IF d = at THEN kept ELSE IF d = Dup THEN given ELSE fd[d]
    OBVIOUS
  <2>1. fd'[d] = CASE d = at -> kept [] d = Dup -> given [] OTHER -> fd[d]
    BY <1>4
  <2>2. CASE d = at  BY <1>5, <2>1, <2>2
  <2>3. CASE d # at /\ d = Dup  BY <2>1, <2>3
  <2>4. CASE d # at /\ d # Dup  BY <2>1, <2>4
  <2> QED  BY <2>2, <2>3, <2>4
<1>8. ASSUME NEW q \in Procs, q # p, NEW d \in Fds
      PROVE  fd'[d] = fd[d] \/ (fd[d] \notin Own(q) /\ fd'[d] \notin Own(q))
  <2>1. Unused \notin Own(q) /\ kept \notin Own(q) /\ given \notin Own(q)
    BY <1>8, EndsDiffer
  <2>2. CASE d = at  BY <1>5, <1>7, <2>1, <2>2
  <2>3. CASE d # at /\ d = Dup
    <3>1. fd[d] = Unused  BY <1>2, <1>6, <2>3
    <3> QED  BY <1>7, <2>1, <2>3, <3>1
  <2>4. CASE d # at /\ d # Dup  BY <1>7, <2>4
  <2> QED  BY <2>2, <2>3, <2>4
<1> QED  BY <1>5, <1>6, <1>7, <1>8

LEMMA FdStep == ASSUME SInv, Next PROVE FdInv'
<1>1. TypeOK /\ CallInv /\ FdInv  BY DEF SInv
<1>2. ps \in [Procs -> [state : States, in : Fds \cup {NoFd}, out : Fds \cup {NoFd}]]
  BY <1>1 DEF TypeOK
<1>3. \A p \in Procs : Accounted(p)  BY <1>1 DEF FdInv
<1>4. ASSUME NEW p \in Procs, OpenFails(p) PROVE FdInv'
  <2>1. /\ op = Idle /\ ps[p].state = "none" /\ Fails(p, {})
    BY <1>4 DEF OpenFails, IsNext, Procs
  <2>2. ~ Live(p) /\ ~ Opening(p)  BY <2>1 DEF Live, Opening, Idle
  <2>3. \A d \in Fds : fd[d] \notin Own(p)  BY <1>3, <2>2, NoEnds
  <2> QED  BY <2>1, <2>2, <2>3, FdFails
<1>5. ASSUME NEW p \in Procs, OpenOutFails(p) PROVE FdInv'
  <2> DEFINE ds == {tmp.inR, tmp.inW}
  <2>1. /\ Opening(p) /\ op.do = "pipe" /\ Fails(p, ds)
    BY <1>5 DEF OpenOutFails, At, Opening
  <2>2. ~ Live(p) /\ tmp.outR = NoFd /\ tmp.outW = NoFd
    BY <1>1, <2>1 DEF CallInv, Live, Opening
  <2>3. \A d \in Fds : d \in ds => fd[d] \in Own(p)
    BY <1>3, <2>1, NumbersOwn
  <2>4. \A d \in Fds : fd[d] \in Own(p) => d \in ds
    BY <1>3, <2>2, SubprocessAssumption DEF Accounted, Own
  <2> QED  BY <2>1, <2>2, <2>3, <2>4, FdFails
<1>6. ASSUME NEW p \in Procs, ForkFails(p) PROVE FdInv'
  <2> DEFINE ds == {tmp.inR, tmp.inW, tmp.outR, tmp.outW}
  <2>1. Opening(p) /\ Fails(p, ds)  BY <1>6 DEF ForkFails, At, Opening
  <2>2. ~ Live(p)  BY <1>1, <2>1 DEF CallInv, Live, Opening
  <2>3. \A d \in Fds : d \in ds => fd[d] \in Own(p)
    BY <1>3, <2>1, NumbersOwn
  <2>4. \A d \in Fds : fd[d] \in Own(p) => d \in ds
    BY <1>3, <2>2 DEF Accounted, Own
  <2> QED  BY <2>1, <2>2, <2>3, <2>4, FdFails
<1>7. ASSUME NEW p \in Procs, Open(p) PROVE FdInv'
  <2>1. /\ op = Idle /\ op' = [do |-> "pipe", of |-> p, n |-> 0] /\ ps' = ps
        /\ CreatePipe(Second, InW(p), In(p))
        /\ tmp' = [NoTmp EXCEPT !.inR = Dup, !.inW = Second]
        /\ ps[p].state = "none"
    BY <1>7 DEF Open, Begin, IsNext, Procs
  <2>2. /\ tmp'.inR = Dup /\ tmp'.inW = Second
        /\ tmp'.outR = NoFd /\ tmp'.outW = NoFd
    BY <2>1 DEF NoTmp
  <2>3. InW(p) \in Own(p) /\ In(p) \in Own(p)  BY DEF Own
  <2>4. /\ Second \in Fds /\ Second # Dup
        /\ \A d \in Fds : fd'[d] = IF d = Second THEN InW(p)
                                   ELSE IF d = Dup THEN In(p) ELSE fd[d]
        /\ \A q \in Procs : q # p =>
             \A d \in Fds : fd'[d] = fd[d] \/ (fd[d] \notin Own(q) /\ fd'[d] \notin Own(q))
    BY <2>1, <2>3, FdPipe
  <2>5. ASSUME NEW q \in Procs, q # p PROVE Accounted(q)'
    <3>1. /\ Live(q)' <=> Live(q)
          /\ ~ Opening(q) /\ ~ Opening(q)'
      BY <2>1, <2>5 DEF Live, At, Opening, Idle
    <3> QED  BY <1>3, <2>1, <2>4, <2>5, <3>1, AccountKept
  <2>6. Accounted(p)'
    <3>1. ~ Live(p) /\ ~ Opening(p) /\ ~ Live(p)' /\ Opening(p)'
      BY <2>1 DEF Live, Opening, Idle
    <3>2. \A d \in Fds : fd[d] \notin Own(p)  BY <1>3, <3>1, NoEnds
    <3> HIDE DEF Second, Dup
    <3>3. ASSUME NEW d \in Fds
          PROVE  /\ fd'[d] = InW(p) <=> d = tmp'.inW
                 /\ fd'[d] = In(p) <=> d = tmp'.inR
                 /\ fd'[d] # Out(p) /\ d # tmp'.outR
                 /\ fd'[d] # OutW(p) /\ d # tmp'.outW
      <4>1. /\ fd[d] # InW(p) /\ fd[d] # In(p) /\ fd[d] # Out(p) /\ fd[d] # OutW(p)
        BY <3>2 DEF Own
      <4>2. d # NoFd  BY SubprocessAssumption
      <4> QED  BY <2>2, <2>4, <4>1, <4>2, EndsDiffer
    <3> QED  BY <3>1, <3>3 DEF Accounted, InW, In, Out, OutW, Fds
  <2> QED  BY <2>5, <2>6 DEF FdInv
<1>8. ASSUME NEW p \in Procs, OpenOut(p) PROVE FdInv'
  <2>1. /\ Opening(p) /\ op.do = "pipe" /\ op' = [op EXCEPT !.do = "fork"] /\ ps' = ps
        /\ CreatePipe(First, Out(p), OutW(p))
        /\ tmp' = [tmp EXCEPT !.outR = First, !.outW = Dup]
    BY <1>8 DEF OpenOut, At, Goto, Opening
  <2>2. /\ tmp'.inR = tmp.inR /\ tmp'.inW = tmp.inW
        /\ tmp'.outR = First /\ tmp'.outW = Dup
    BY <1>1, <2>1 DEF TypeOK
  <2>3. tmp.outR = NoFd /\ tmp.outW = NoFd /\ ps[p].state = "none"
    BY <1>1, <2>1 DEF CallInv, Opening
  <2>4. Out(p) \in Own(p) /\ OutW(p) \in Own(p)  BY DEF Own
  <2>5. /\ First \in Fds /\ First # Dup /\ fd[First] = Unused
        /\ Dup # NoFd => Dup \in Fds /\ fd[Dup] = Unused
        /\ \A d \in Fds : fd'[d] = IF d = First THEN Out(p)
                                   ELSE IF d = Dup THEN OutW(p) ELSE fd[d]
        /\ \A q \in Procs : q # p =>
             \A d \in Fds : fd'[d] = fd[d] \/ (fd[d] \notin Own(q) /\ fd'[d] \notin Own(q))
    BY <2>1, <2>4, FdPipe
  <2>6. op'.do = "fork" /\ op'.of = op.of  BY <1>1, <2>1 DEF TypeOK
  <2>7. ASSUME NEW q \in Procs, q # p PROVE Accounted(q)'
    <3>1. /\ Live(q)' <=> Live(q)
          /\ ~ Opening(q) /\ ~ Opening(q)'
      BY <2>1, <2>6, <2>7 DEF Live, At, Opening
    <3> QED  BY <1>3, <2>1, <2>5, <2>7, <3>1, AccountKept
  <2>8. Accounted(p)'
    <3>1. ~ Live(p) /\ ~ Live(p)' /\ Opening(p)'
      BY <2>1, <2>3, <2>6 DEF Live, Opening
    <3> HIDE DEF First, Dup
    <3>2. ASSUME NEW d \in Fds
          PROVE  /\ fd'[d] = InW(p) <=> d = tmp'.inW
                 /\ fd'[d] = In(p) <=> d = tmp'.inR
                 /\ fd'[d] = Out(p) <=> d = tmp'.outR
                 /\ fd'[d] = OutW(p) <=> d = tmp'.outW
      <4>1. d # NoFd  BY SubprocessAssumption
      <4>2. /\ fd[d] = InW(p) <=> d = tmp.inW
            /\ fd[d] = In(p) <=> d = tmp.inR
            /\ fd[d] # Out(p) /\ fd[d] # OutW(p)
        BY <1>3, <2>1, <2>3, <3>1, <4>1 DEF Accounted
      <4>3. Unused # InW(p) /\ Unused # In(p)  BY EndsDiffer DEF Own
      <4>4. CASE d = First  BY <2>2, <2>5, <4>2, <4>3, <4>4, EndsDiffer
      <4>5. CASE d = Dup  BY <2>2, <2>5, <4>1, <4>2, <4>3, <4>5, EndsDiffer
      <4>6. CASE d # First /\ d # Dup  BY <2>2, <2>5, <4>2, <4>6
      <4> QED  BY <4>4, <4>5, <4>6
    <3> QED  BY <3>1, <3>2 DEF Accounted, InW, In, Out, OutW, Fds
  <2> QED  BY <2>7, <2>8 DEF FdInv
<1>9. ASSUME NEW p \in Procs, Fork(p) PROVE FdInv'
  <2>1. /\ op.do = "fork" /\ op' = [op EXCEPT !.do = "ends"] /\ UNCHANGED <<fd, ps, tmp>>
    BY <1>9 DEF Fork, At, Goto
  <2>2. op'.do = "ends" /\ op'.of = op.of  BY <1>1, <2>1 DEF TypeOK
  <2>3. \A q \in Procs : (Live(q)' <=> Live(q)) /\ (Opening(q)' <=> Opening(q))
    BY <2>1, <2>2 DEF Live, At, Opening
  <2> QED  BY <1>1, <2>1, <2>3, FdsUnchanged
<1>10. ASSUME NEW p \in Procs, CloseEnds(p) PROVE FdInv'
  <2>1. /\ op.do = "ends" /\ op.of = p /\ op' = Idle
        /\ CloseAll({tmp.inR, tmp.outW})
        /\ ps' = [ps EXCEPT ![p] = [state |-> "live", in |-> tmp.inW, out |-> tmp.outR]]
    BY <1>10 DEF CloseEnds, At, Done
  <2>2. /\ Opening(p) /\ ~ Live(p) /\ tmp.inW \in Fds /\ tmp.outR \in Fds
    BY <1>1, <2>1 DEF CallInv, Opening, Live
  <2>3. ASSUME NEW q \in Procs, q # p PROVE Accounted(q)'
    <3>1. \A d \in Fds : d \in {tmp.inR, tmp.outW} => fd[d] \notin Own(q)
      BY <1>3, <2>2, <2>3, NumbersOwn, EndsDiffer
    <3>2. ps'[q] = ps[q]  BY <1>2, <2>1, <2>3
    <3>3. /\ Live(q)' <=> Live(q)
          /\ ~ Opening(q) /\ ~ Opening(q)'
      BY <2>1, <2>3, <3>2 DEF Live, At, Opening, Idle
    <3> QED  BY <1>3, <2>1, <3>1, <3>2, <3>3, CloseOthers, AccountKept
  <2>4. Accounted(p)'
    <3>1. ps'[p].state = "live" /\ ps'[p].in = tmp.inW /\ ps'[p].out = tmp.outR
      BY <1>2, <2>1
    <3>2. Live(p)' /\ ~ Opening(p)'  BY <2>1, <3>1 DEF Live, At, Opening, Idle
    <3>3. ASSUME NEW d \in Fds
          PROVE  /\ fd'[d] = InW(p) <=> d = ps'[p].in
                 /\ fd'[d] = Out(p) <=> d = ps'[p].out
                 /\ fd'[d] # In(p) /\ fd'[d] # OutW(p)
      <4>1. /\ fd[d] = InW(p) <=> d = tmp.inW
            /\ fd[d] = Out(p) <=> d = tmp.outR
            /\ fd[d] = In(p) <=> d = tmp.inR
            /\ fd[d] = OutW(p) <=> d = tmp.outW
        BY <1>3, <2>2 DEF Accounted
      <4>2. Unused # InW(p) /\ Unused # Out(p) /\ Unused # In(p) /\ Unused # OutW(p)
        BY EndsDiffer DEF Own
      <4>3. fd'[d] = IF d \in {tmp.inR, tmp.outW} THEN Unused ELSE fd[d]
        BY <2>1 DEF CloseAll
      <4> QED  BY <3>1, <4>1, <4>2, <4>3, EndsDiffer
    <3> QED  BY <3>2, <3>3 DEF Accounted, InW, In, Out, OutW, Fds
  <2> QED  BY <2>3, <2>4 DEF FdInv
<1>11. ASSUME NEW p \in Procs, Write(p) \/ Read(p) \/ Wait(p) PROVE FdInv'
  <2>1. UNCHANGED <<fd, ps, tmp>> /\ op = Idle  BY <1>11 DEF Write, Read, Wait, Begin
  <2>2. op'.do \in {"write", "read", "wait"}  BY <1>11 DEF Write, Read, Wait, Begin
  <2>3. \A q \in Procs : (Live(q)' <=> Live(q)) /\ (Opening(q)' <=> Opening(q))
    BY <2>1, <2>2 DEF Live, At, Opening, Idle
  <2> QED  BY <1>1, <2>1, <2>3, FdsUnchanged
<1>12. ASSUME op' = Idle \/ op' = op, op.do \in {"write", "read"} \/ op' = op,
              UNCHANGED <<fd, ps, tmp>>
       PROVE  FdInv'
  <2>1. \A q \in Procs : (Live(q)' <=> Live(q)) /\ (Opening(q)' <=> Opening(q))
    BY <1>12 DEF Live, At, Opening, Idle
  <2> QED  BY <1>1, <1>12, <2>1, FdsUnchanged
<1>13. ASSUME NEW p \in Procs,
              WriteSocket(p) \/ WriteFails(p) \/ ReadSocket(p) \/ ReadFails(p)
       PROVE  FdInv'
  BY <1>12, <1>13 DEF WriteSocket, WriteFails, ReadSocket, ReadFails, Done, At, kernelVars
<1>14. ASSUME NEW p \in Procs, NEW q \in Procs, WriteByte(p, q) \/ ReadBytes(p, q)
       PROVE  FdInv'
  BY <1>12, <1>14 DEF WriteByte, ReadBytes, Done, At
<1>15. ASSUME NEW p \in Procs, NEW q \in Procs, q # p, Live(p), ~ Opening(p),
              CloseAll({ps[p].in, ps[p].out}), ps'[q] = ps[q],
              Live(q)' <=> Live(q), ~ Opening(q), ~ Opening(q)'
       PROVE  Accounted(q)'
  <2>1. \A d \in Fds : d \in {ps[p].in, ps[p].out} => fd[d] \notin Own(q)
    BY <1>3, <1>15, NumbersOwn, EndsDiffer
  <2> QED  BY <1>3, <1>15, <2>1, CloseOthers, AccountKept
<1>16. ASSUME NEW p \in Procs, Live(p), ~ Opening(p), CloseAll({ps[p].in, ps[p].out}),
              ~ Live(p)', ~ Opening(p)'
       PROVE  Accounted(p)'
  <2>1. \A d \in Fds : fd[d] \in Own(p) => d \in {ps[p].in, ps[p].out}
    BY <1>3, <1>16 DEF Accounted, Own
  <2>2. \A d \in Fds : fd'[d] \notin Own(p)
    BY <1>16, <2>1, EndsDiffer DEF CloseAll
  <2> QED  BY <1>16, <2>2, AccountClosed
<1>17. ASSUME NEW p \in Procs, Reap(p) PROVE FdInv'
  <2>1. /\ op.do = "wait" /\ op.of = p /\ op' = Idle
        /\ CloseAll({ps[p].in, ps[p].out}) /\ ps' = [ps EXCEPT ![p].state = "waited"]
    BY <1>17 DEF Reap, At, Done
  <2>2. Live(p) /\ ps'[p].state = "waited" /\ ~ Opening(p)
    BY <1>1, <1>2, <2>1 DEF CallInv, Live, At, Opening
  <2>3. ~ Live(p)' /\ ~ Opening(p)'  BY <2>1, <2>2 DEF Live, Opening, Idle
  <2>4. ASSUME NEW q \in Procs, q # p
        PROVE  /\ ps'[q] = ps[q]
               /\ Live(q)' <=> Live(q)
               /\ ~ Opening(q) /\ ~ Opening(q)'
    <3>1. ps'[q] = ps[q]  BY <1>2, <2>1, <2>4
    <3> QED  BY <2>1, <2>4, <3>1 DEF Live, At, Opening, Idle
  <2> QED  BY <1>15, <1>16, <2>1, <2>2, <2>3, <2>4 DEF FdInv
<1>18. ASSUME NEW p \in Procs, Close(p) PROVE FdInv'
  <2>1. /\ op = Idle /\ op' = [do |-> "kill", of |-> p, n |-> 1] /\ ps' = ps
        /\ CloseAll({ps[p].in, ps[p].out}) /\ ps[p].state = "live"
    BY <1>18 DEF Close, Begin
  <2>2. Live(p) /\ ~ Opening(p) /\ ~ Live(p)' /\ ~ Opening(p)'
    BY <2>1 DEF Live, At, Opening, Idle
  <2>3. \A q \in Procs : q # p => /\ Live(q)' <=> Live(q)
                                  /\ ~ Opening(q) /\ ~ Opening(q)'
    BY <2>1 DEF Live, At, Opening, Idle
  <2> QED  BY <1>15, <1>16, <2>1, <2>2, <2>3 DEF FdInv
<1>19. ASSUME NEW p \in Procs, CloseWaited(p) PROVE FdInv'
  <2>1. /\ op' = op /\ fd' = fd /\ tmp' = tmp /\ ps[p].state = "waited"
        /\ ps' = [ps EXCEPT ![p].state = "freed"]
    BY <1>19 DEF CloseWaited
  <2>2. ps'[p].state = "freed" /\ \A q \in Procs : q # p => ps'[q] = ps[q]
    BY <1>2, <2>1
  <2>3. \A q \in Procs : /\ Live(q)' <=> Live(q)
                         /\ Live(q) => ps'[q] = ps[q]
                         /\ Opening(q)' <=> Opening(q)
    BY <2>1, <2>2 DEF Live, At, Opening
  <2> QED  BY <1>1, <2>1, <2>3, FdsUnchanged
<1>20. ASSUME NEW p \in Procs, Kill(p) PROVE FdInv'
  <2>1. /\ op.do = "kill" /\ op.of = p /\ fd' = fd /\ tmp' = tmp
        /\ \/ op' = Idle /\ ps' = [ps EXCEPT ![p].state = "freed"]
           \/ op' = [op EXCEPT !.n = @ + 1] /\ UNCHANGED ps
    BY <1>20 DEF Kill, At, Done
  <2>2. CASE op' = Idle /\ ps' = [ps EXCEPT ![p].state = "freed"]
    <3>1. ps'[p].state = "freed" /\ \A q \in Procs : q # p => ps'[q] = ps[q]
      BY <1>2, <2>2
    <3>2. \A q \in Procs : /\ Live(q)' <=> Live(q)
                           /\ Live(q) => ps'[q] = ps[q]
                           /\ Opening(q)' <=> Opening(q)
      BY <2>1, <2>2, <3>1 DEF Live, At, Opening, Idle
    <3> QED  BY <1>1, <2>1, <3>2, FdsUnchanged
  <2>3. CASE op' = [op EXCEPT !.n = @ + 1] /\ UNCHANGED ps
    <3>1. op'.do = op.do /\ op'.of = op.of  BY <1>1, <2>3 DEF TypeOK
    <3>2. \A q \in Procs : (Live(q)' <=> Live(q)) /\ (Opening(q)' <=> Opening(q))
      BY <2>3, <3>1 DEF Live, At, Opening
    <3> QED  BY <1>1, <2>1, <2>3, <3>2, FdsUnchanged
  <2> QED  BY <2>1, <2>2, <2>3
<1>21. ASSUME NEW p \in Procs, ChildRead(p) \/ ChildWrite(p) \/ ChildExit(p)
       PROVE  FdInv'
  BY <1>12, <1>21 DEF ChildRead, ChildWrite, ChildExit
<1>22. ASSUME op' = op, ps' = ps, tmp' = tmp,
              \A q \in Procs, d \in Fds :
                fd'[d] = fd[d] \/ (fd[d] \notin Own(q) /\ fd'[d] \notin Own(q))
       PROVE  FdInv'
  <2>1. \A q \in Procs : (Live(q)' <=> Live(q)) /\ (Opening(q)' <=> Opening(q))
    BY <1>22 DEF Live, At, Opening
  <2>2. \A q \in Procs : Accounted(q)'  BY <1>3, <1>22, <2>1, AccountKept
  <2> QED  BY <2>2 DEF FdInv
<1>23. CASE SocketOpen
  <2>1. /\ UNCHANGED <<op, ps, tmp>> /\ fd' = [fd EXCEPT ![First] = Socket] /\ Free # {}
    BY <1>23 DEF SocketOpen
  <2>2. First \in Free  BY <2>1, FreeFinite, LowestIn DEF First
  <2>3. fd[First] = Unused  BY <2>2 DEF Free
  <2> HIDE DEF First
  <2>4. \A d \in Fds : fd'[d] = IF d = First THEN Socket ELSE fd[d]
    BY <1>1, <2>1 DEF TypeOK
  <2>5. \A q \in Procs : Unused \notin Own(q) /\ Socket \notin Own(q)  BY EndsDiffer
  <2> QED  BY <1>22, <2>1, <2>3, <2>4, <2>5
<1>24. ASSUME NEW c \in Fds, SocketClose(c) PROVE FdInv'
  <2>1. UNCHANGED <<op, ps, tmp>> /\ fd[c] = Socket /\ CloseAll({c})
    BY <1>24 DEF SocketClose
  <2>2. \A q \in Procs : Socket \notin Own(q)  BY EndsDiffer
  <2>3. \A q \in Procs, d \in Fds :
          fd'[d] = fd[d] \/ (fd[d] \notin Own(q) /\ fd'[d] \notin Own(q))
    BY <2>1, <2>2, CloseOthers
  <2> QED  BY <1>22, <2>1, <2>3
<1> QED
  BY <1>4, <1>5, <1>6, <1>7, <1>8, <1>9, <1>10, <1>11, <1>13, <1>14, <1>17, <1>18,
     <1>19, <1>20, <1>21, <1>23, <1>24 DEF Next, Call, Script

-----------------------------------------------------------------------------
(* Whose numbers are used *)

\* An object that uses numbers of its own ends strays nowhere.
LEMMA UsesOwn ==
  ASSUME NEW p \in Procs, NEW how, NEW ds, Uses(p, how, ds),
         \A d \in ds \cap Fds : fd[d] \in Own(p)
  PROVE  stray' = stray
<1>1. \A d \in ds \cap Fds : fd[d][1] = p  BY EndsDiffer
<1> QED  BY <1>1 DEF Uses

\* Objects are waited for and closed once: these states are not left.
LEMMA UsedKept ==
  ASSUME OnlyOwnUsed, stray' = stray,
         \A q \in Procs : ps[q].state \in {"waited", "freed"}
                            => ps'[q].state \in {"waited", "freed"}
  PROVE  OnlyOwnUsed'
BY DEF OnlyOwnUsed, Procs

\* A write or a read of an object in use is one of an end of its own; of one
\* waited for or closed it may be any.
LEMMA UsedByCall ==
  ASSUME SInv, NEW p \in Procs, NEW how \in {"write", "read"}, op.do = how,
         op.of = p, NEW d, d = IF how = "write" THEN ps[p].in ELSE ps[p].out,
         Uses(p, how, {d}), ps' = ps
  PROVE  OnlyOwnUsed'
<1>1. OnlyOwnUsed  BY DEF SInv
<1>2. CASE ps[p].state = "live"
  <2>1. Live(p) /\ Accounted(p) /\ d \in Fds
    BY <1>2 DEF SInv, FdInv, CallInv, HasNumbers, Live, At
  <2>2. fd[d] \in Own(p)  BY <2>1 DEF Accounted, Own
  <2>3. stray' = stray  BY <2>2, UsesOwn
  <2> QED  BY <1>1, <2>3, UsedKept
<1>3. CASE ps[p].state # "live"
  <2>1. ps[p].state \in {"waited", "freed"}
    BY <1>3 DEF SInv, CallInv, HasNumbers
  <2>2. stray' \subseteq stray \cup {<<p, how>>}  BY DEF Uses
  <2> QED  BY <1>1, <2>1, <2>2 DEF OnlyOwnUsed, Procs
<1> QED  BY <1>2, <1>3

\* Both numbers of an object in use are those of its ends.
LEMMA UsedByClose ==
  ASSUME SInv, NEW p \in Procs, Live(p), Uses(p, "close", {ps[p].in, ps[p].out})
  PROVE  stray' = stray
<1>1. Accounted(p)  BY DEF SInv, FdInv
<1>2. \A d \in {ps[p].in, ps[p].out} \cap Fds : fd[d] \in Own(p)
  BY <1>1 DEF Accounted, Own
<1> QED  BY <1>2, UsesOwn

LEMMA UsedStep == ASSUME SInv, Next PROVE OnlyOwnUsed'
<1>1. OnlyOwnUsed /\ CallInv  BY DEF SInv
<1>2. ps \in [Procs -> [state : States, in : Fds \cup {NoFd}, out : Fds \cup {NoFd}]]
  BY DEF SInv, TypeOK
<1>3. ASSUME NEW p \in Procs,
             ps[p].state = "none", stray' = stray,
             ps' = [ps EXCEPT ![p].state = "failed"]
      PROVE  OnlyOwnUsed'
  <2>1. \A q \in Procs : q # p => ps'[q] = ps[q]  BY <1>2, <1>3
  <2> QED  BY <1>1, <1>3, <2>1, UsedKept
<1>4. ASSUME NEW p \in Procs, OpenFails(p) PROVE OnlyOwnUsed'
  <2>1. ps[p].state = "none"  BY <1>4 DEF OpenFails, IsNext, Procs
  <2> QED  BY <1>3, <1>4, <2>1 DEF OpenFails, Fails
<1>5. ASSUME NEW p \in Procs, OpenOutFails(p) \/ ForkFails(p) PROVE OnlyOwnUsed'
  <2>1. ps[p].state = "none"  BY <1>1, <1>5 DEF CallInv, OpenOutFails, ForkFails, At
  <2> QED  BY <1>3, <1>5, <2>1 DEF OpenOutFails, ForkFails, Fails
<1>6. ASSUME NEW p \in Procs, CloseEnds(p) PROVE OnlyOwnUsed'
  <2>1. ps[p].state = "none"  BY <1>1, <1>6 DEF CallInv, CloseEnds, At
  <2>2. /\ stray' = stray
        /\ ps' = [ps EXCEPT ![p] = [state |-> "live", in |-> tmp.inW,
                                    out |-> tmp.outR]]
    BY <1>6 DEF CloseEnds
  <2>3. \A q \in Procs : q # p => ps'[q] = ps[q]  BY <1>2, <2>2
  <2> QED  BY <1>1, <2>1, <2>2, <2>3, UsedKept
<1>7. ASSUME stray' = stray, ps' = ps PROVE OnlyOwnUsed'
  BY <1>1, <1>7, UsedKept
<1>8. ASSUME NEW p \in Procs,
             Open(p) \/ OpenOut(p) \/ Fork(p) \/ Write(p) \/ Read(p) \/ Wait(p)
             \/ WriteFails(p) \/ ReadFails(p)
      PROVE  OnlyOwnUsed'
  BY <1>7, <1>8 DEF Open, OpenOut, Fork, Write, Read, Wait, WriteFails, ReadFails
<1>9. ASSUME NEW p \in Procs, ChildRead(p) \/ ChildWrite(p) \/ ChildExit(p)
      PROVE  OnlyOwnUsed'
  BY <1>7, <1>9 DEF ChildRead, ChildWrite, ChildExit
<1>10. CASE SocketOpen  BY <1>7, <1>10 DEF SocketOpen
<1>11. ASSUME NEW d \in Fds, SocketClose(d) PROVE OnlyOwnUsed'
  BY <1>7, <1>11 DEF SocketClose
<1>12. ASSUME NEW p \in Procs,
              WriteSocket(p) \/ \E q \in Procs : WriteByte(p, q)
       PROVE  OnlyOwnUsed'
  <2>1. /\ op.do = "write" /\ op.of = p /\ ps' = ps
        /\ Uses(p, "write", {ps[p].in})
    BY <1>12 DEF WriteSocket, WriteByte, At
  <2> QED  BY <2>1, UsedByCall
<1>13. ASSUME NEW p \in Procs,
              ReadSocket(p) \/ \E q \in Procs : ReadBytes(p, q)
       PROVE  OnlyOwnUsed'
  <2>1. /\ op.do = "read" /\ op.of = p /\ ps' = ps
        /\ Uses(p, "read", {ps[p].out})
    BY <1>13 DEF ReadSocket, ReadBytes, At
  <2> QED  BY <2>1, UsedByCall
<1>14. ASSUME NEW p \in Procs, Reap(p) PROVE OnlyOwnUsed'
  <2>1. /\ op.do = "wait" /\ op.of = p /\ ps' = [ps EXCEPT ![p].state = "waited"]
        /\ Uses(p, "close", {ps[p].in, ps[p].out})
    BY <1>14 DEF Reap, At
  <2>2. Live(p)  BY <1>1, <2>1 DEF CallInv, Live, At
  <2>3. stray' = stray  BY <2>1, <2>2, UsedByClose
  <2>4. ps'[p].state = "waited" /\ \A q \in Procs : q # p => ps'[q] = ps[q]
    BY <1>2, <2>1
  <2> QED  BY <1>1, <2>3, <2>4, UsedKept
<1>15. ASSUME NEW p \in Procs, Close(p) PROVE OnlyOwnUsed'
  <2>1. /\ op = Idle /\ ps[p].state = "live" /\ ps' = ps
        /\ Uses(p, "close", {ps[p].in, ps[p].out})
    BY <1>15 DEF Close, Begin
  <2>2. Live(p)  BY <2>1 DEF Live, At, Idle
  <2>3. stray' = stray  BY <2>1, <2>2, UsedByClose
  <2> QED  BY <1>7, <2>1, <2>3
<1>16. ASSUME NEW p \in Procs, stray' = stray,
              ps' = ps \/ ps' = [ps EXCEPT ![p].state = "freed"]
       PROVE  OnlyOwnUsed'
  <2>1. CASE ps' = [ps EXCEPT ![p].state = "freed"]
    <3>1. ps'[p].state = "freed" /\ \A q \in Procs : q # p => ps'[q] = ps[q]
      BY <1>2, <2>1
    <3> QED  BY <1>1, <1>16, <3>1, UsedKept
  <2> QED  BY <1>7, <1>16, <2>1
<1>17. ASSUME NEW p \in Procs, CloseWaited(p) \/ Kill(p) PROVE OnlyOwnUsed'
  BY <1>16, <1>17 DEF CloseWaited, Kill
<1> QED
  BY <1>4, <1>5, <1>6, <1>8, <1>9, <1>10, <1>11, <1>12, <1>13, <1>14, <1>15, <1>17
  DEF Next, Call, Script

-----------------------------------------------------------------------------
(* The theorems *)

LEMMA SubInit == ASSUME Init PROVE SInv
<1>1. fd = [d \in Fds |-> Unused] /\ op = Idle /\ tmp = NoTmp /\ stray = {}
  BY DEF Init
<1>2. \A p \in Procs : ps[p] = NoProc  BY DEF Init
<1>3. TypeOK
  <2>1. PipeSize \in Nat  BY SubprocessAssumption
  <2>2. ps \in [Procs -> [state : States, in : Fds \cup {NoFd},
                          out : Fds \cup {NoFd}]]
    BY DEF Init, NoProc, States
  <2>3. /\ op \in [do : Calls, of : Procs \cup {NoOne}, n : 0 .. Signals]
        /\ tmp \in [{"inR", "inW", "outR", "outW"} -> Fds \cup {NoFd}]
    BY <1>1, IdleType
  <2>4. /\ inn \in [Procs -> 0 .. PipeSize] /\ out \in [Procs -> 0 .. PipeSize]
        /\ holds \in [Procs -> SUBSET PipeEnds]
        /\ child \in [Procs -> {"none", "running", "zombie", "reaped"}]
        /\ fd \in [Fds -> Ends \cup {Unused}]
    BY <2>1 DEF Init
  <2> QED  BY <1>1, <2>2, <2>3, <2>4 DEF TypeOK
<1>4. \A p \in Procs : ps[p].state = "none"  BY <1>2 DEF NoProc
<1>5. CallInv  BY <1>1, <1>4 DEF CallInv, HasNumbers, Idle
<1>6. FdInv
  <2>1. \A p \in Procs : ~ Live(p) /\ ~ Opening(p)
    BY <1>1, <1>4 DEF Live, Opening, Idle
  <2>2. \A p \in Procs, d \in Fds : fd[d] \notin Own(p)  BY <1>1, EndsDiffer
  <2> QED  BY <2>1, <2>2 DEF FdInv, Accounted, Own
<1>7. OnlyOwnUsed  BY <1>1 DEF OnlyOwnUsed
<1> QED  BY <1>3, <1>5, <1>6, <1>7 DEF SInv

LEMMA SubStutter == SInv /\ UNCHANGED vars => SInv'
BY DEF SInv, vars, TypeOK, CallInv, HasNumbers, FdInv, Accounted, Live, Opening, At,
   OnlyOwnUsed

THEOREM SubprocessInvariance == Spec => []SInv
<1>1. SInv /\ Next => SInv'
  BY TypeStep, CallStep, FdStep, UsedStep DEF SInv
<1> QED  BY <1>1, SubInit, SubStutter, PTL DEF Spec

\* The types of the descriptor table, the objects and the call.
THEOREM SubprocessTypeCorrect == Spec => []TypeOK
<1>1. SInv => TypeOK  BY DEF SInv
<1> QED  BY <1>1, SubprocessInvariance, PTL

\* Whatever fails in psopen, and whatever other threads and objects have open
\* (psopen, pswait and psclose): the server has open exactly the ends InW and Out
\* of the objects in use, under the numbers their stdin and stdout have.
THEOREM PipesAccountedHolds == Spec => []PipesAccounted
<1>1. SInv => PipesAccounted
  BY DEF SInv, FdInv, Accounted, Opening, PipesAccounted
<1> QED  BY <1>1, SubprocessInvariance, PTL

\* pswait and psclose close no number that has become somebody else's, and
\* write and read of an object in use reach its own child.
THEOREM OnlyOwnUsedHolds == Spec => []OnlyOwnUsed
<1>1. SInv => OnlyOwnUsed  BY DEF SInv
<1> QED  BY <1>1, SubprocessInvariance, PTL

===============================================================================
