-------------------------- MODULE DashboardProofs --------------------------
(* Theorems about Dashboard, for any number of requests and any bounds. *)
EXTENDS Dashboard, SequenceTheorems, TLAPS

(***************************************************************************)
(* The ring.                                                               *)
(***************************************************************************)

\* Cutting the front keeps the last point and the bound.
LEMMA CutFacts ==
  ASSUME NEW q \in Seq(Point), NEW x \in Point
  PROVE  LET r == CutFront(Append(q, x))
         IN  r \in Seq(Point) /\ Len(r) \in 1..MaxMetrics /\ r[Len(r)] = x
<1> USE DashboardAssumption
<1> DEFINE a == Append(q, x)
<1>1. a \in Seq(Point) /\ Len(a) = Len(q) + 1 /\ a[Len(a)] = x /\ Len(q) \in Nat
  OBVIOUS
<1>2. CASE Len(a) > MaxMetrics
  <2> DEFINE m == Len(a) - MaxMetrics + 1
  <2>1. m \in 1..Len(a) /\ CutFront(a) = SubSeq(a, m, Len(a))
    BY <1>1, <1>2 DEF CutFront
  <2>2. \A i \in m..Len(a) : a[i] \in Point
    BY <1>1, <2>1
  <2>3. Len(a) - m + 1 = MaxMetrics /\ m <= Len(a) /\ m + MaxMetrics - 1 = Len(a)
        /\ m \in Int /\ Len(a) \in Int
    BY <1>1, <2>1
  <2> HIDE DEF a, m
  <2>4. /\ SubSeq(a, m, Len(a)) \in Seq(Point)
        /\ Len(SubSeq(a, m, Len(a))) = MaxMetrics
        /\ \A i \in 1..MaxMetrics : SubSeq(a, m, Len(a))[i] = a[m + i - 1]
    BY <2>2, <2>3, SubSeqProperties
  <2>5. CutFront(a)[MaxMetrics] = x
    BY <1>1, <2>1, <2>3, <2>4
  <2>6. QED
    BY <2>1, <2>4, <2>5 DEF a
<1>3. CASE ~(Len(a) > MaxMetrics)
  BY <1>1, <1>3 DEF CutFront
<1>4. QED
  BY <1>2, <1>3

(***************************************************************************)
(* Typing.                                                                 *)
(***************************************************************************)
LEMMA InitTypeOK == Init => TypeOK
<1> SUFFICES ASSUME Init PROVE TypeOK
  OBVIOUS
<1> USE DashboardAssumption DEF Init, TypeOK
<1>1. Nothing \in Interval /\ "tun" \in Server /\ "idle" \in Step /\ metrics \in Seq(Point)
  BY DEF Nothing, Interval, Server, Step
<1>2. QED
  BY <1>1

\* A counter only grows, and stays in range: the bound is on the total.
LEMMA BytesAdded ==
  ASSUME TypeOK, NEW s \in Server, AddBytes(s)
  PROVE  /\ bytes' \in [Server -> 0..MaxBytes]
         /\ \A t \in Server : bytes[t] <= bytes'[t]
<1>1. /\ bytes \in [Server -> 0..MaxBytes] /\ MaxBytes \in Nat
      /\ bytes["tun"] \in 0..MaxBytes /\ bytes["socks"] \in 0..MaxBytes
  BY DashboardAssumption DEF TypeOK, Server
<1>2. PICK n \in 1..(MaxBytes - Total) : bytes' = [bytes EXCEPT ![s] = @ + n]
  BY DEF AddBytes
<1>3. bytes[s] <= Total /\ Total \in Nat
  BY <1>1 DEF Total, Server
<1>4. bytes[s] \in Nat /\ n \in Nat /\ bytes[s] + n \in 0..MaxBytes /\ bytes[s] <= bytes[s] + n
  BY <1>1, <1>2, <1>3
<1>5. QED
  BY <1>1, <1>2, <1>4

LEMMA TypeStep == TypeOK /\ [Next]_vars => TypeOK'
<1> SUFFICES ASSUME TypeOK, [Next]_vars PROVE TypeOK'
  OBVIOUS
<1> USE DashboardAssumption DEF TypeOK, Goto, counters, locals, history
<1>0. /\ "tun" \in Server /\ "socks" \in Server /\ Nothing \in Interval /\ Total \in Nat
      /\ {"idle", "last", "load", "publish", "setIn", "setTime", "read", "append", "done"} \subseteq Step
  <2>1. "tun" \in Server /\ "socks" \in Server
    BY DEF Server
  <2>2. Nothing \in Interval
    BY DEF Nothing, Interval
  <2>3. Total \in Nat
    BY <2>1 DEF Total
  <2>4. QED
    BY <2>1, <2>2, <2>3 DEF Step
<1>1. CASE Tick
  <2>1. clock' \in 0..MaxClock /\ ticks' \in 0..1
    BY <1>1 DEF Tick
  <2>2. QED
    BY <1>1, <2>1 DEF Tick
<1>2. ASSUME NEW s \in Server, AddBytes(s) PROVE TypeOK'
  <2>1. bytes' \in [Server -> 0..MaxBytes]
    BY <1>2, BytesAdded
  <2>2. QED
    BY <1>2, <2>1 DEF AddBytes
<1>3. ASSUME NEW c \in Callers, Begin(c) PROVE TypeOK'
  <2>1. ticks' \in 0..1
    BY <1>3 DEF Begin
  <2>2. pc' \in [Callers -> Step] /\ srv' \in [Callers -> Server]
    BY <1>0, <1>3 DEF Begin
  <2>3. sum' \in [Callers -> Nat] /\ low' \in [Callers -> Nat]
    BY <1>0, <1>3 DEF Begin
  <2>4. UNCHANGED <<clock, bytes, counters, now, elapsed, in, metrics, met, raced, reported>>
    BY <1>3 DEF Begin
  <2>5. QED
    BY <2>1, <2>2, <2>3, <2>4
<1>4. ASSUME NEW c \in Callers, ReadLast(c) PROVE TypeOK'
  <2>1. now' \in [Callers -> 0..MaxClock] /\ elapsed' \in [Callers -> Int]
    BY <1>4 DEF ReadLast
  <2>2. pc' \in [Callers -> Step]
    BY <1>0, <1>4 DEF ReadLast
  <2>3. met' \subseteq Callers /\ raced' \subseteq Server
    <3>1. Others(c) \subseteq Callers /\ srv[c] \in Server
      BY DEF Others
    <3>2. \/ met' = met /\ raced' = raced
          \/ met' = met \cup Others(c) \cup {c} /\ raced' = raced \cup {srv[c]}
      BY <1>4 DEF ReadLast, NoteOverlap
    <3>3. QED
      BY <3>1, <3>2
  <2>4. reported' \in [Server -> Interval]
    BY <1>0, <1>4 DEF ReadLast, NoteOverlap
  <2>5. UNCHANGED <<clock, ticks, bytes, lastIn, lastTime, rate, srv, in, sum, metrics, low>>
    BY <1>4 DEF ReadLast
  <2>6. QED
    BY <2>1, <2>2, <2>3, <2>4, <2>5
<1>5. ASSUME NEW c \in Callers, LoadBytes(c) PROVE TypeOK'
  BY <1>0, <1>5 DEF LoadBytes
<1>6. ASSUME NEW c \in Callers, Publish(c) PROVE TypeOK'
  <2> DEFINE s == srv[c]
             diff == in[c] - lastIn[s]
  <2>1. s \in Server /\ diff \in Int /\ elapsed[c] \in Int
    OBVIOUS
  <2>2. [bytes |-> reported[s].bytes + diff, ticks |-> reported[s].ticks + elapsed[c]] \in Interval
    <3>1. reported[s] \in Interval
      BY <2>1
    <3>2. reported[s].bytes \in Int /\ reported[s].ticks \in Int
      BY ONLY <3>1 DEF Interval
    <3> HIDE DEF s, diff
    <3>3. QED
      BY ONLY <2>1, <3>2 DEF Interval
  <2>3. rate' \in [Server -> Int] /\ reported' \in [Server -> Interval]
    BY <1>6, <2>1, <2>2 DEF Publish
  <2>4. pc' \in [Callers -> Step]
    BY <1>0, <1>6 DEF Publish
  <2>5. UNCHANGED <<clock, ticks, bytes, lastIn, lastTime, srv, now, elapsed, in, sum, metrics, met,
                   raced, low>>
    BY <1>6 DEF Publish
  <2>6. QED
    BY <2>3, <2>4, <2>5
<1>7. ASSUME NEW c \in Callers, SetLastIn(c) \/ SetLastTime(c) PROVE TypeOK'
  <2>1. lastIn' \in [Server -> 0..MaxBytes] /\ lastTime' \in [Server -> 0..MaxClock]
    BY <1>7 DEF SetLastIn, SetLastTime, Loaded
  <2>2. pc' \in [Callers -> Step]
    BY <1>0, <1>7 DEF SetLastIn, SetLastTime
  <2>3. QED
    BY <1>7, <2>1, <2>2 DEF SetLastIn, SetLastTime
<1>8. ASSUME NEW c \in Callers, ReadTotals(c) PROVE TypeOK'
  <2>1. bytes[srv[c]] \in Nat /\ sum' \in [Callers -> Nat]
    BY <1>8 DEF ReadTotals, BytesRead
  <2>2. pc' \in [Callers -> Step] /\ srv' \in [Callers -> Server]
    BY <1>0, <1>8 DEF ReadTotals
  <2>3. now' \in [Callers -> 0..MaxClock] /\ elapsed' \in [Callers -> Int] /\ in' \in [Callers -> 0..MaxBytes]
    BY <1>8 DEF ReadTotals
  <2>4. met' \subseteq Callers
    BY <1>8 DEF ReadTotals
  <2>5. QED
    BY <1>8, <2>1, <2>2, <2>3, <2>4 DEF ReadTotals
<1>9. CASE AppendPoint
  <2>1. [t |-> clock \div 2, bytes |-> sum[Collector]] \in Point
    BY DEF Point, Callers
  <2>2. metrics' \in Seq(Point)
    BY <1>9, <2>1, CutFacts DEF AppendPoint
  <2>3. QED
    BY <1>0, <1>9, <2>2 DEF AppendPoint
<1>10. CASE UNCHANGED vars
  BY <1>10 DEF vars
<1>11. QED
  BY <1>1, <1>2, <1>3, <1>4, <1>5, <1>6, <1>7, <1>8, <1>9, <1>10 DEF Next, CallerStep

\* The statistics and their readers are type correct: no counter leaves its
\* range and no local is used before it is assigned.
THEOREM TypeCorrect == Spec => []TypeOK
BY InitTypeOK, TypeStep, PTL DEF Spec

(***************************************************************************)
(* The rates.  Two updates of one server at the same time are both marked  *)
(* (Marked).  So an unmarked update has lastIn to itself, which can then   *)
(* not be more than what it loads (Signed), and, if no update of a server  *)
(* was ever marked, each one continues where the last one stopped (Chain). *)
(***************************************************************************)
Marked ==
  \A s \in Server : \A c, e \in Callers :
    c # e /\ Updating(c, s) /\ Updating(e, s) => c \in met /\ s \in raced

Below ==
  /\ \A s \in Server : lastIn[s] <= bytes[s]
  /\ \A c \in Callers : pc[c] \in {"publish", "setIn"} => in[c] <= bytes[srv[c]]

Signed ==
  \A c \in Callers : pc[c] = "publish" /\ c \notin met => lastIn[srv[c]] <= in[c]

SoFar(s) == [bytes |-> lastIn[s], ticks |-> lastTime[s]]
ChainAt(s) ==
  /\ (\A c \in Callers : ~Updating(c, s)) => reported[s] = SoFar(s)
  /\ \A c \in Callers : srv[c] = s =>
       /\ pc[c] \in {"load", "publish"} =>
            reported[s] = SoFar(s) /\ elapsed[c] = now[c] - lastTime[s]
       /\ pc[c] = "setIn" => reported[s] = [bytes |-> in[c], ticks |-> now[c]]
       /\ pc[c] = "setTime" => reported[s] = [bytes |-> lastIn[s], ticks |-> now[c]]
Chain == \A s \in Server : s \notin raced => ChainAt(s)

RateInv == Marked /\ Below /\ Signed /\ Chain

LEMMA InitRateInv == Init => RateInv
BY DEF Init, RateInv, Marked, Below, Signed, Chain, ChainAt, SoFar, Updating, Update, Nothing

\* The locals of a caller that does not move.
Same(e) ==
  /\ UNCHANGED <<pc[e], srv[e], now[e], elapsed[e], in[e]>>
  /\ e \in met' <=> e \in met

\* A caller that is outside its update before and after a step disturbs nothing.
LEMMA RateQuiet ==
  ASSUME RateInv, NEW c \in Callers, \A e \in Callers \ {c} : Same(e),
         pc[c] \notin Update, pc'[c] \notin Update,
         UNCHANGED <<bytes, lastIn, lastTime, raced, reported>>
  PROVE  RateInv'
<1>1. \A e \in Callers, s \in Server : Updating(e, s)' <=> Updating(e, s)
  BY DEF Updating, Same
<1>2. Marked'
  BY <1>1 DEF RateInv, Marked, Same, Updating
<1>3. Below'
  BY DEF RateInv, Below, Update, Same
<1>4. Signed'
  BY DEF RateInv, Signed, Update, Same
<1>5. ASSUME NEW s \in Server, ChainAt(s) PROVE ChainAt(s)'
  BY <1>1, <1>5 DEF ChainAt, SoFar, Update, Same
<1>6. QED
  BY <1>2, <1>3, <1>4, <1>5 DEF RateInv, Chain

\* What one caller does to one server leaves the other server's chain alone.
LEMMA ChainElsewhere ==
  ASSUME NEW c \in Callers, NEW s \in Server, srv[c] # s, srv'[c] # s,
         \A e \in Callers \ {c} : Same(e), ChainAt(s),
         UNCHANGED <<lastIn[s], lastTime[s], reported[s]>>
  PROVE  ChainAt(s)'
<1>1. \A e \in Callers : Updating(e, s)' <=> Updating(e, s)
  BY DEF Updating, Same
<1>2. QED
  BY <1>1 DEF ChainAt, SoFar, Same

\* Nobody else updates the server of an update that is not marked.
LEMMA Alone ==
  ASSUME Marked, NEW c \in Callers, NEW e \in Callers, c # e,
         srv[c] \in Server, srv[e] = srv[c], pc[c] \in Update, pc[e] \in Update
  PROVE  c \in met /\ e \in met /\ srv[c] \in raced
BY DEF Marked, Updating

LEMMA RateStep == TypeOK /\ RateInv /\ [Next]_vars => RateInv'
<1> SUFFICES ASSUME TypeOK, RateInv, [Next]_vars PROVE RateInv'
  OBVIOUS
<1> USE DEF Goto, counters, locals, history
<1>1. CASE UNCHANGED <<counters, locals, history>> /\ \A s \in Server : bytes[s] <= bytes'[s]
  <2>1. \A c \in Callers, s \in Server : Updating(c, s)' <=> Updating(c, s)
    BY <1>1 DEF Updating
  <2>2. Marked' /\ Signed' /\ Chain'
    BY <1>1, <2>1 DEF RateInv, Marked, Signed, Chain, ChainAt, SoFar
  <2>3. Below'
    <3>1. \A s \in Server : bytes[s] \in Int /\ bytes'[s] \in Int /\ lastIn[s] \in Int
      <4>1. TypeOK'
        BY TypeStep
      <4>2. QED
        BY <4>1 DEF TypeOK
    <3>2. \A c \in Callers : srv[c] \in Server /\ in[c] \in Int
      BY DEF TypeOK
    <3>3. UNCHANGED <<pc, in, srv, lastIn>>
      BY <1>1
    <3>4. Below
      BY DEF RateInv
    <3>5. QED
      BY <1>1, <3>1, <3>2, <3>3, <3>4 DEF Below
  <2>4. QED
    BY <2>2, <2>3 DEF RateInv
<1>2. ASSUME NEW s \in Server, AddBytes(s) PROVE RateInv'
  <2>1. \A t \in Server : bytes[t] <= bytes'[t]
    BY <1>2, BytesAdded
  <2>2. QED
    BY <1>1, <1>2, <2>1 DEF AddBytes
<1>3. ASSUME NEW c \in Callers, Begin(c) PROVE RateInv'
  <2>1. (\A e \in Callers \ {c} : Same(e)) /\ pc[c] \notin Update /\ pc'[c] \notin Update
    BY <1>3 DEF Begin, Same, TypeOK, Update
  <2>2. QED
    BY <1>3, <2>1, RateQuiet DEF Begin
<1>4. ASSUME NEW c \in Callers, ReadTotals(c) PROVE RateInv'
  <2>1. pc' = [pc EXCEPT ![c] = pc'[c]] /\ pc'[c] \in {"last", "append", "done"}
    BY <1>4 DEF ReadTotals, TypeOK
  <2>2. (\A e \in Callers \ {c} : Same(e)) /\ pc[c] \notin Update /\ pc'[c] \notin Update
    BY <1>4, <2>1 DEF ReadTotals, Same, TypeOK, Update
  <2>3. QED
    BY <1>4, <2>2, RateQuiet DEF ReadTotals
<1>5. CASE AppendPoint
  <2> DEFINE c == Collector
  <2>1. c \in Callers /\ (\A e \in Callers \ {c} : Same(e)) /\ pc[c] \notin Update /\ pc'[c] \notin Update
    BY <1>5 DEF AppendPoint, Same, TypeOK, Update, Callers
  <2>2. QED
    BY <1>5, <2>1, RateQuiet DEF AppendPoint
<1>6. ASSUME NEW c \in Callers, ReadLast(c) PROVE RateInv'
  <2> DEFINE s == srv[c]
  <2>0. s \in Server /\ srv' = srv /\ pc[c] = "last" /\ UNCHANGED <<bytes, lastIn, lastTime, in>>
    BY <1>6 DEF ReadLast, TypeOK
  <2>1. CASE elapsed'[c] < 1
    <3>1. ~(elapsed'[c] >= 1)
      BY <1>6, <2>1 DEF ReadLast, TypeOK
    <3>2. UNCHANGED <<met, raced, reported>> /\ pc' = [pc EXCEPT ![c] = "read"]
      BY <1>6, <3>1 DEF ReadLast
    <3>3. (\A e \in Callers \ {c} : Same(e)) /\ pc[c] \notin Update /\ pc'[c] \notin Update
      BY <1>6, <3>2 DEF ReadLast, Same, TypeOK, Update
    <3>4. QED
      BY <2>0, <3>2, <3>3, RateQuiet
  <2>2. CASE ~(elapsed'[c] < 1)
    <3>1. elapsed'[c] >= 1 /\ elapsed'[c] = now'[c] - lastTime[s]
      BY <1>6, <2>2 DEF ReadLast, TypeOK
    <3>2. NoteOverlap(c) /\ pc' = [pc EXCEPT ![c] = "load"]
      BY <1>6, <3>1 DEF ReadLast
    <3>3. \A e \in Callers \ {c} : UNCHANGED <<pc[e], srv[e], now[e], elapsed[e], in[e]>>
      BY <1>6, <3>2 DEF ReadLast, TypeOK
    <3>4. /\ pc'[c] = "load" /\ met \subseteq met' /\ raced \subseteq raced'
          /\ \A t \in Server : t # s => reported'[t] = reported[t] /\ (t \in raced' <=> t \in raced)
          /\ Others(c) # {} => Others(c) \cup {c} \subseteq met' /\ s \in raced'
          /\ Others(c) = {} => reported' = reported /\ met' = met /\ raced' = raced
      BY <2>0, <3>2 DEF NoteOverlap, TypeOK
    <3>5. \A e \in Callers : e \in Others(c) <=> e # c /\ Updating(e, s)
      BY DEF Others
    <3>6. \A e \in Callers, t \in Server : e # c => (Updating(e, t)' <=> Updating(e, t))
      BY <3>3 DEF Updating
    <3>7. Marked'
      <4> SUFFICES ASSUME NEW t \in Server, NEW d \in Callers, NEW e \in Callers, d # e,
                          Updating(d, t)', Updating(e, t)'
                   PROVE  d \in met' /\ t \in raced'
        BY DEF Marked
      <4>1. CASE d = c
        BY <2>0, <3>4, <3>5, <3>6, <4>1 DEF Updating
      <4>2. CASE e = c
        BY <2>0, <3>4, <3>5, <3>6, <4>2 DEF Updating
      <4>3. CASE d # c /\ e # c
        BY <3>4, <3>6, <4>3 DEF RateInv, Marked
      <4>4. QED
        BY <4>1, <4>2, <4>3
    <3>8. Below'
      BY <2>0, <3>3, <3>4 DEF RateInv, Below
    <3>9. Signed'
      BY <2>0, <3>3, <3>4 DEF RateInv, Signed
    <3>10. ASSUME NEW t \in Server, t \notin raced' PROVE ChainAt(t)'
      <4>1. ChainAt(t)
        BY <3>4, <3>10 DEF RateInv, Chain
      <4>2. CASE t = s
        <5>1. Others(c) = {} /\ reported' = reported
          BY <3>4, <3>10, <4>2
        <5>2. \A e \in Callers : ~Updating(e, s)
          BY <2>0, <3>5, <5>1 DEF Updating, Update
        <5>3. reported[s] = SoFar(s)
          BY <4>1, <4>2, <5>2 DEF ChainAt
        <5>4. \A e \in Callers : e # c /\ srv'[e] = s => pc'[e] \notin Update
          BY <2>0, <3>3, <5>2 DEF Updating
        <5>5. Updating(c, s)'
          BY <2>0, <3>4 DEF Updating, Update
        <5>6. QED
          BY <2>0, <3>1, <3>4, <4>2, <5>1, <5>3, <5>4, <5>5 DEF ChainAt, SoFar, Update
      <4>3. CASE t # s
        <5>1. \A e \in Callers : Updating(e, t)' <=> Updating(e, t)
          BY <2>0, <3>6, <4>3 DEF Updating
        <5>2. QED
          BY <2>0, <3>3, <3>4, <4>1, <4>3, <5>1 DEF ChainAt, SoFar
      <4>4. QED
        BY <4>2, <4>3
    <3>11. QED
      BY <3>7, <3>8, <3>9, <3>10 DEF RateInv, Chain
  <2>3. QED
    BY <2>1, <2>2
<1>7. ASSUME NEW c \in Callers, LoadBytes(c) PROVE RateInv'
  <2> DEFINE s == srv[c]
  <2>1. /\ s \in Server /\ pc[c] = "load" /\ pc'[c] = "publish" /\ in'[c] = bytes[s]
        /\ UNCHANGED <<bytes, lastIn, lastTime, reported, met, raced, srv, now, elapsed>>
        /\ \A e \in Callers \ {c} : Same(e)
    BY <1>7 DEF LoadBytes, TypeOK, Same
  <2>2. \A e \in Callers, t \in Server : Updating(e, t)' <=> Updating(e, t)
    BY <2>1 DEF Updating, Update, Same
  <2>3. Marked'
    BY <2>1, <2>2 DEF RateInv, Marked
  <2>4. Below'
    <3>1. \A e \in Callers \ {c} : pc'[e] \in {"publish", "setIn"} => in'[e] <= bytes'[srv'[e]]
      BY <2>1 DEF RateInv, Below, Same
    <3>2. in'[c] <= bytes'[srv'[c]]
      BY <2>1 DEF TypeOK
    <3>3. \A t \in Server : lastIn'[t] <= bytes'[t]
      BY <2>1 DEF RateInv, Below
    <3>4. QED
      BY <3>1, <3>2, <3>3 DEF Below
  <2>5. Signed'
    <3>1. Signed /\ Below /\ bytes[s] \in Int /\ lastIn[s] \in Int
      BY <2>1 DEF RateInv, TypeOK
    <3>2. QED
      BY <2>1, <3>1 DEF Below, Signed, Same
  <2>6. ASSUME NEW t \in Server, ChainAt(t) PROVE ChainAt(t)'
    <3>1. SoFar(t)' = SoFar(t) /\ reported'[t] = reported[t]
      BY <2>1 DEF SoFar
    <3>2. ASSUME NEW e \in Callers, srv[e] = t, e # c
          PROVE  UNCHANGED <<pc[e], srv[e], now[e], elapsed[e], in[e]>>
      BY <2>1, <3>2 DEF Same
    <3>3. QED
      BY <2>1, <2>2, <2>6, <3>1, <3>2 DEF ChainAt
  <2>7. QED
    BY <2>1, <2>3, <2>4, <2>5, <2>6 DEF RateInv, Chain
<1>8. ASSUME NEW c \in Callers, Publish(c) PROVE RateInv'
  <2> DEFINE s == srv[c]
  <2>1. /\ s \in Server /\ pc[c] = "publish" /\ pc'[c] = "setIn"
        /\ UNCHANGED <<bytes, lastIn, lastTime, met, raced, srv, now, elapsed, in>>
        /\ \A e \in Callers \ {c} : Same(e)
    BY <1>8 DEF Publish, TypeOK, Same
  <2>2. \A e \in Callers, t \in Server : Updating(e, t)' <=> Updating(e, t)
    BY <2>1 DEF Updating, Update, Same
  <2>3. Marked'
    BY <2>1, <2>2 DEF RateInv, Marked
  <2>4. Below'
    BY <2>1 DEF RateInv, Below, Same
  <2>5. Signed'
    BY <2>1 DEF RateInv, Signed, Same
  <2>6. ASSUME NEW t \in Server, t \notin raced', ChainAt(t) PROVE ChainAt(t)'
    <3>1. CASE t # s
      <4>1. reported'[t] = reported[t]
        BY <1>8, <2>1, <3>1 DEF Publish, TypeOK
      <4>2. QED
        BY <2>1, <2>6, <3>1, <4>1, ChainElsewhere
    <3>2. CASE t = s
      <4>1. reported[s] = SoFar(s) /\ elapsed[c] = now[c] - lastTime[s]
        BY <2>1, <2>6, <3>2 DEF ChainAt
      <4>2. reported'[s] = [bytes |-> reported[s].bytes + (in[c] - lastIn[s]), ticks |-> reported[s].ticks + elapsed[c]]
        BY <1>8, <2>1, <2>6, <3>2 DEF Publish, TypeOK
      <4>3. lastIn[s] \in Int /\ lastTime[s] \in Int /\ in[c] \in Int /\ now[c] \in Int
        BY <2>1 DEF TypeOK
      <4>4. reported'[s] = [bytes |-> in[c], ticks |-> now[c]]
        BY <4>1, <4>2, <4>3 DEF SoFar
      <4>5. \A e \in Callers : e # c /\ srv'[e] = s => pc'[e] \notin Update
        BY <2>1, <2>6, <3>2, Alone DEF RateInv, Same, Update
      <4>6. Updating(c, s)'
        BY <2>1 DEF Updating, Update
      <4>7. QED
        BY <2>1, <3>2, <4>4, <4>5, <4>6 DEF ChainAt, Update
    <3>3. QED
      BY <3>1, <3>2
  <2>7. QED
    BY <2>1, <2>3, <2>4, <2>5, <2>6 DEF RateInv, Chain
<1>9. ASSUME NEW c \in Callers, SetLastIn(c) PROVE RateInv'
  <2> DEFINE s == srv[c]
  <2>1. /\ s \in Server /\ pc[c] = "setIn" /\ pc'[c] = "setTime" /\ lastIn' = [lastIn EXCEPT ![s] = in[c]]
        /\ UNCHANGED <<bytes, lastTime, reported, met, raced, srv, now, elapsed, in>>
        /\ \A e \in Callers \ {c} : Same(e)
    BY <1>9 DEF SetLastIn, Loaded, TypeOK, Same
  <2>2. \A e \in Callers, t \in Server : Updating(e, t)' <=> Updating(e, t)
    BY <2>1 DEF Updating, Update, Same
  <2>3. Marked'
    BY <2>1, <2>2 DEF RateInv, Marked
  <2>4. Below'
    <3>1. in[c] <= bytes[s]
      BY <2>1 DEF RateInv, Below
    <3>2. \A t \in Server : lastIn'[t] = IF t = s THEN in[c] ELSE lastIn[t]
      BY <2>1 DEF TypeOK
    <3>3. \A t \in Server : lastIn'[t] <= bytes'[t]
      BY <2>1, <3>1, <3>2 DEF RateInv, Below
    <3>4. \A e \in Callers : pc'[e] \in {"publish", "setIn"} => in'[e] <= bytes'[srv'[e]]
      BY <2>1 DEF RateInv, Below, Same
    <3>5. QED
      BY <3>3, <3>4 DEF Below
  <2>5. Signed'
    <3> SUFFICES ASSUME NEW e \in Callers, pc'[e] = "publish", e \notin met'
                 PROVE  lastIn'[srv'[e]] <= in'[e]
      BY DEF Signed
    <3>1. e # c /\ pc[e] = "publish" /\ e \notin met
      BY <2>1 DEF Same
    <3>2. srv[e] # s
      BY <2>1, <3>1, Alone DEF RateInv, Update
    <3>3. QED
      BY <2>1, <3>1, <3>2 DEF RateInv, Signed, Same, TypeOK
  <2>6. ASSUME NEW t \in Server, t \notin raced', ChainAt(t) PROVE ChainAt(t)'
    <3>1. CASE t # s
      BY <2>1, <2>6, <3>1, ChainElsewhere DEF TypeOK
    <3>2. CASE t = s
      <4>1. reported'[s] = [bytes |-> in[c], ticks |-> now[c]] /\ lastIn'[s] = in[c]
        BY <2>1, <2>6, <3>2 DEF ChainAt, TypeOK
      <4>2. \A e \in Callers : e # c /\ srv'[e] = s => pc'[e] \notin Update
        BY <2>1, <2>6, <3>2, Alone DEF RateInv, Same, Update
      <4>3. Updating(c, s)'
        BY <2>1 DEF Updating, Update
      <4>4. QED
        BY <2>1, <3>2, <4>1, <4>2, <4>3 DEF ChainAt, Update
    <3>3. QED
      BY <3>1, <3>2
  <2>7. QED
    BY <2>1, <2>3, <2>4, <2>5, <2>6 DEF RateInv, Chain
<1>10. ASSUME NEW c \in Callers, SetLastTime(c) PROVE RateInv'
  <2> DEFINE s == srv[c]
  <2>1. /\ s \in Server /\ pc[c] = "setTime" /\ pc'[c] = "read" /\ lastTime' = [lastTime EXCEPT ![s] = now[c]]
        /\ UNCHANGED <<bytes, lastIn, reported, met, raced, srv, now, elapsed, in>>
        /\ \A e \in Callers \ {c} : Same(e)
    BY <1>10 DEF SetLastTime, TypeOK, Same
  <2>2. \A e \in Callers, t \in Server : Updating(e, t)' => Updating(e, t)
    BY <2>1 DEF Updating, Update, Same
  <2>3. Marked'
    BY <2>1, <2>2 DEF RateInv, Marked
  <2>4. Below'
    BY <2>1 DEF RateInv, Below, Same
  <2>5. Signed'
    BY <2>1 DEF RateInv, Signed, Same
  <2>6. ASSUME NEW t \in Server, t \notin raced', ChainAt(t) PROVE ChainAt(t)'
    <3>1. CASE t # s
      BY <2>1, <2>6, <3>1, ChainElsewhere DEF TypeOK
    <3>2. CASE t = s
      <4>1. reported'[s] = [bytes |-> lastIn'[s], ticks |-> now[c]] /\ lastTime'[s] = now[c]
        BY <2>1, <2>6, <3>2 DEF ChainAt, TypeOK
      <4>2. \A e \in Callers : srv'[e] = s => pc'[e] \notin Update
        BY <2>1, <2>6, <3>2, Alone DEF RateInv, Same, Update
      <4>3. QED
        BY <2>1, <3>2, <4>1, <4>2 DEF ChainAt, SoFar, Update
    <3>3. QED
      BY <3>1, <3>2
  <2>7. QED
    BY <2>1, <2>3, <2>4, <2>5, <2>6 DEF RateInv, Chain
<1>11. CASE Tick \/ UNCHANGED vars
  <2>1. \A s \in Server : bytes[s] <= bytes'[s]
    BY <1>11 DEF Tick, vars, TypeOK
  <2>2. QED
    BY <1>1, <1>11, <2>1 DEF Tick, vars
<1>12. QED
  BY <1>2, <1>3, <1>4, <1>5, <1>6, <1>7, <1>8, <1>9, <1>10, <1>11 DEF Next, CallerStep

LEMMA RateHolds == Spec => [](TypeOK /\ RateInv)
BY InitTypeOK, TypeStep, InitRateInv, RateStep, PTL DEF Spec

\* Each byte and each tick is in exactly one published rate as long as no two
\* updates of a server have overlapped, for any number of requests.
THEOREM RatesPartition == Spec => []ExactUnlessRaced
<1>1. RateInv => ExactUnlessRaced
  BY DEF RateInv, Chain, ChainAt, SoFar, ExactUnlessRaced
<1>2. QED
  BY <1>1, RateHolds, PTL

\* A rate below zero is only ever published by an update that was overlapped.
THEOREM SignExplained == Spec => NegativeOnlyByOverlap
<1>1. TypeOK /\ RateInv /\ [Next]_vars =>
        \A s \in Server : rate'[s] < 0 /\ rate'[s] # rate[s] =>
          \E c \in Callers : srv[c] = s /\ pc[c] = "publish" /\ c \in met
  <2> SUFFICES ASSUME TypeOK, RateInv, [Next]_vars, NEW s \in Server, rate'[s] < 0, rate'[s] # rate[s]
               PROVE  \E c \in Callers : srv[c] = s /\ pc[c] = "publish" /\ c \in met
    OBVIOUS
  <2>1. PICK c \in Callers : Publish(c)
    BY DEF Next, CallerStep, Tick, AddBytes, Begin, ReadLast, LoadBytes, SetLastIn, SetLastTime,
      ReadTotals, AppendPoint, counters, vars
  <2>2. srv[c] = s /\ pc[c] = "publish" /\ rate'[s] = in[c] - lastIn[s]
    BY <2>1 DEF Publish, TypeOK
  <2>3. c \in met
    BY <2>2 DEF RateInv, Signed, TypeOK
  <2>4. QED
    BY <2>2, <2>3
<1>2. QED
  BY <1>1, RateHolds, PTL DEF Spec, NegativeOnlyByOverlap

(***************************************************************************)
(* The totals.  Between the two calls of GetStats the sum holds what the   *)
(* tunnel had counted; the counters only grow, by any amount in a step.    *)
(* The last point of the ring was summed before the collector began again, *)
(* so it is no more than the true total at that moment, which low holds.   *)
(***************************************************************************)
InCall(c) == pc[c] \in Update \cup {"last", "read"}

Bracket == \A c \in Callers :
  /\ InCall(c) /\ srv[c] = "tun" => sum[c] = 0 /\ low[c] <= Total
  /\ InCall(c) /\ srv[c] = "socks" => sum[c] <= bytes["tun"] /\ low[c] <= sum[c] + bytes["socks"]
  /\ pc[c] \in {"append", "done"} => low[c] <= sum[c] /\ sum[c] <= Total

Latest == metrics[Len(metrics)]
RingInv == Len(metrics) <= MaxMetrics /\ (metrics # <<>> =>
  /\ Latest.t <= clock \div 2 /\ Latest.bytes <= Total
  /\ InCall(Collector) \/ pc[Collector] = "append" => Latest.bytes <= low[Collector])

\* With the counters the total grows.
LEMMA CountersGrow ==
  ASSUME TypeOK, NEW s \in Server, AddBytes(s)
  PROVE  /\ \A t \in Server : bytes[t] \in Nat /\ bytes'[t] \in Nat /\ bytes[t] <= bytes'[t]
         /\ Total \in Nat /\ Total' \in Nat /\ Total <= Total'
<1>1. bytes \in [Server -> 0..MaxBytes] /\ MaxBytes \in Nat /\ "tun" \in Server /\ "socks" \in Server
  BY DashboardAssumption DEF TypeOK, Server
<1>2. bytes' \in [Server -> 0..MaxBytes] /\ \A t \in Server : bytes[t] <= bytes'[t]
  BY BytesAdded
<1>3. \A t \in Server : bytes[t] \in Nat /\ bytes'[t] \in Nat /\ bytes[t] <= bytes'[t]
  BY <1>1, <1>2
<1>4. QED
  BY <1>1, <1>3 DEF Total

LEMMA BracketStep == TypeOK /\ Bracket /\ [Next]_vars => Bracket'
<1> SUFFICES ASSUME TypeOK, Bracket, [Next]_vars PROVE Bracket'
  OBVIOUS
<1> USE DEF Goto, counters, locals, history
<1>0. "tun" \in Server /\ "socks" \in Server /\ bytes["tun"] \in Nat /\ bytes["socks"] \in Nat
  BY DEF TypeOK, Server
<1>1. CASE UNCHANGED <<bytes, pc, srv, sum, low>>
  BY <1>1 DEF Bracket, InCall, Total
<1>2. ASSUME NEW s \in Server, AddBytes(s) PROVE Bracket'
  <2>1. bytes["tun"] <= bytes'["tun"] /\ bytes["socks"] <= bytes'["socks"]
        /\ bytes'["tun"] \in Nat /\ bytes'["socks"] \in Nat
    BY <1>0, <1>2, CountersGrow
  <2>2. UNCHANGED <<pc, srv, sum, low>> /\ \A c \in Callers : sum[c] \in Nat /\ low[c] \in Nat
    BY <1>2 DEF AddBytes, TypeOK
  <2>3. Total \in Nat /\ Total' \in Nat /\ Total <= Total'
    BY <1>2, CountersGrow
  <2>4. \A c \in Callers : InCall(c)' <=> InCall(c)
    BY <2>2 DEF InCall
  <2>5. QED
    BY <1>0, <2>1, <2>2, <2>3, <2>4 DEF Bracket
<1>3. ASSUME NEW c \in Callers, Begin(c) PROVE Bracket'
  <2>1. pc'[c] = "last" /\ srv'[c] = "tun" /\ sum'[c] = 0 /\ low'[c] = Total /\ bytes' = bytes
    BY <1>3 DEF Begin, TypeOK
  <2>2. \A e \in Callers \ {c} : UNCHANGED <<pc[e], srv[e], sum[e], low[e]>>
    BY <1>3 DEF Begin
  <2>3. Total' = Total /\ Total \in Nat
    BY <1>0, <2>1 DEF Total
  <2>4. QED
    BY <2>1, <2>2, <2>3 DEF Bracket, InCall, Update
<1>4. ASSUME NEW c \in Callers,
             ReadLast(c) \/ LoadBytes(c) \/ Publish(c) \/ SetLastIn(c) \/ SetLastTime(c)
      PROVE  Bracket'
  <2>1. InCall(c) /\ pc' = [pc EXCEPT ![c] = pc'[c]] /\ pc'[c] \in Update \cup {"read"}
        /\ UNCHANGED <<bytes, srv, sum, low>>
    <3>1. pc[c] \in Update \cup {"last"} /\ UNCHANGED <<bytes, srv, sum, low>>
      BY <1>4 DEF ReadLast, LoadBytes, Publish, SetLastIn, SetLastTime, Update
    <3>2. \E s \in Update \cup {"read"} : pc' = [pc EXCEPT ![c] = s]
      BY <1>4 DEF ReadLast, LoadBytes, Publish, SetLastIn, SetLastTime, Update
    <3>3. QED
      BY <3>1, <3>2 DEF InCall, TypeOK
  <2>2. pc' \in [Callers -> Step] /\ Total' = Total
    <3>1. pc'[c] \in Step
      BY <2>1 DEF Step, Update
    <3>2. QED
      BY <2>1, <3>1 DEF TypeOK, Total
  <2>3. \A e \in Callers : InCall(e)' => InCall(e)
    BY <2>1, <2>2 DEF InCall, TypeOK
  <2>4. \A e \in Callers : pc'[e] \in {"append", "done"} => pc[e] \in {"append", "done"}
    BY <2>1, <2>2 DEF Update, TypeOK
  <2>5. QED
    BY <2>1, <2>2, <2>3, <2>4 DEF Bracket
<1>5. ASSUME NEW c \in Callers, ReadTotals(c) PROVE Bracket'
  <2>1. InCall(c) /\ UNCHANGED <<bytes, low>> /\ srv'[c] = "socks"
        /\ sum'[c] = sum[c] + bytes[srv[c]]
        /\ \A e \in Callers \ {c} : UNCHANGED <<pc[e], srv[e], sum[e]>>
    BY <1>5 DEF ReadTotals, BytesRead, InCall, TypeOK
  <2>2. CASE srv[c] = "tun"
    <3>1. pc'[c] = "last"
      BY <1>5, <2>2 DEF ReadTotals, TypeOK
    <3>2. sum'[c] = bytes["tun"] /\ low[c] <= Total
      BY <1>0, <2>1, <2>2 DEF Bracket
    <3>3. low[c] <= sum'[c] + bytes["socks"] /\ Total' = Total
      BY <2>1, <3>2 DEF Total
    <3>4. QED
      BY <1>0, <2>1, <3>1, <3>2, <3>3 DEF Bracket, InCall, Update
  <2>3. CASE srv[c] = "socks"
    <3>1. pc'[c] \in {"append", "done"}
      BY <1>5, <2>3 DEF ReadTotals, TypeOK
    <3>2. low[c] <= sum'[c] /\ sum'[c] <= Total
      <4>1. sum[c] \in Nat /\ sum[c] <= bytes["tun"] /\ low[c] <= sum[c] + bytes["socks"]
        BY <2>1, <2>3 DEF Bracket, TypeOK
      <4>2. QED
        BY <1>0, <2>1, <2>3, <4>1 DEF Total
    <3>3. Total' = Total
      BY <2>1 DEF Total
    <3>4. QED
      BY <1>0, <2>1, <3>1, <3>2, <3>3 DEF Bracket, InCall, Update
  <2>4. QED
    BY <2>2, <2>3 DEF TypeOK, Server
<1>6. CASE AppendPoint
  BY <1>6 DEF AppendPoint, Bracket, InCall, Total, Update, TypeOK, Callers
<1>7. QED
  BY <1>1, <1>2, <1>3, <1>4, <1>5, <1>6 DEF Next, CallerStep, Tick, vars

LEMMA LatestTyped == TypeOK /\ metrics # <<>> => Latest \in Point
<1> SUFFICES ASSUME metrics \in Seq(Point), metrics # <<>> PROVE Latest \in Point
  BY DEF TypeOK
<1>1. Len(metrics) \in 1..Len(metrics)
  OBVIOUS
<1>2. QED
  BY <1>1 DEF Latest

LEMMA RingStep == TypeOK /\ Bracket /\ RingInv /\ [Next]_vars => RingInv'
<1> SUFFICES ASSUME TypeOK, Bracket, RingInv, [Next]_vars PROVE RingInv'
  OBVIOUS
<1> USE DEF Goto, counters, locals, history
<1>0. Collector \in Callers /\ Total \in Nat /\ clock \in Nat
  BY DEF Callers, Total, TypeOK, Server
<1>1. CASE AppendPoint
  <2> DEFINE x == [t |-> clock \div 2, bytes |-> sum[Collector]]
  <2>1. x \in Point /\ metrics \in Seq(Point)
    BY <1>0 DEF Point, TypeOK
  <2>2. metrics' = CutFront(Append(metrics, x)) /\ UNCHANGED <<clock, bytes>> /\ pc'[Collector] = "idle"
    BY <1>0, <1>1 DEF AppendPoint, TypeOK
  <2> HIDE DEF x
  <2>3. Len(metrics') <= MaxMetrics /\ Latest' = x
    <3>1. /\ CutFront(Append(metrics, x)) \in Seq(Point)
          /\ Len(CutFront(Append(metrics, x))) \in 1..MaxMetrics
          /\ CutFront(Append(metrics, x))[Len(CutFront(Append(metrics, x)))] = x
      BY <2>1, CutFacts
    <3>2. QED
      BY <2>2, <3>1, DashboardAssumption DEF Latest
  <2>4. x.t = clock \div 2 /\ x.bytes <= Total
    BY <1>0, <1>1 DEF x, AppendPoint, Bracket
  <2>5. Total' = Total /\ clock' = clock /\ ~InCall(Collector)' /\ pc'[Collector] # "append"
    BY <2>2 DEF Total, InCall, Update
  <2>6. clock \div 2 \in Nat /\ x.bytes \in Int
    BY <1>0, <2>1 DEF Point
  <2>7. (Latest').t <= clock' \div 2 /\ (Latest').bytes <= Total'
    BY <2>3, <2>4, <2>5, <2>6
  <2>8. QED
    BY <2>3, <2>5, <2>7 DEF RingInv
<1>2. CASE Tick
  <2>1. clock \div 2 <= clock' \div 2 /\ clock \div 2 \in Nat /\ clock' \div 2 \in Nat
    BY <1>0, <1>2 DEF Tick
  <2>2. metrics # <<>> => Latest.t \in Nat
    BY LatestTyped DEF Point
  <2>3. metrics' = metrics /\ UNCHANGED <<bytes, pc, low>>
    BY <1>2 DEF Tick
  <2>4. QED
    BY <2>1, <2>2, <2>3 DEF RingInv, Latest, Total, InCall
<1>3. ASSUME NEW s \in Server, AddBytes(s) PROVE RingInv'
  <2>1. Total <= Total' /\ Total' \in Nat
    BY <1>3, CountersGrow
  <2>2. metrics # <<>> => Latest.bytes \in Nat
    BY LatestTyped DEF Point
  <2>3. UNCHANGED <<metrics, clock, pc, low>>
    BY <1>3 DEF AddBytes
  <2>4. QED
    BY <1>0, <2>1, <2>2, <2>3 DEF RingInv, Latest, InCall
<1>4. ASSUME NEW c \in Callers, Begin(c) PROVE RingInv'
  <2>1. UNCHANGED <<metrics, clock, bytes>> /\ low' = [low EXCEPT ![c] = Total]
        /\ \A e \in Callers \ {c} : pc'[e] = pc[e]
    BY <1>4 DEF Begin, TypeOK
  <2>2. InCall(Collector)' \/ pc'[Collector] = "append" =>
          low'[Collector] = Total \/ (low'[Collector] = low[Collector] /\ (InCall(Collector) \/ pc[Collector] = "append"))
    BY <1>0, <2>1 DEF InCall, TypeOK
  <2>3. QED
    BY <2>1, <2>2 DEF RingInv, Latest, Total
<1>5. ASSUME NEW c \in Callers,
             ReadLast(c) \/ LoadBytes(c) \/ Publish(c) \/ SetLastIn(c) \/ SetLastTime(c) \/ ReadTotals(c)
      PROVE  RingInv'
  <2>1. UNCHANGED <<metrics, clock, bytes, low>> /\ InCall(c) /\ \A e \in Callers \ {c} : pc'[e] = pc[e]
    BY <1>5 DEF ReadLast, LoadBytes, Publish, SetLastIn, SetLastTime, ReadTotals, InCall, Update, TypeOK
  <2>2. InCall(Collector)' \/ pc'[Collector] = "append" => InCall(Collector) \/ pc[Collector] = "append"
    BY <1>0, <2>1 DEF InCall
  <2>3. QED
    BY <2>1, <2>2 DEF RingInv, Latest, Total
<1>6. CASE UNCHANGED vars
  BY <1>6 DEF vars, RingInv, Latest, Total, InCall
<1>7. QED
  BY <1>1, <1>2, <1>3, <1>4, <1>5, <1>6 DEF Next, CallerStep

LEMMA TotalsHold == Spec => [](TypeOK /\ Bracket /\ RingInv)
<1>1. Init => Bracket /\ RingInv
  BY DashboardAssumption DEF Init, Bracket, RingInv, InCall, Update
<1>2. QED
  BY <1>1, InitTypeOK, TypeStep, BracketStep, RingStep, PTL DEF Spec

\* A total on the dashboard is no less than what was true when its call began
\* and no more than what is true when it ends, however much is added between
\* the reads of the two servers.
THEOREM TotalsBetween == Spec => []TotalsBracketed
<1>1. Bracket => TotalsBracketed
  BY DEF Bracket, TotalsBracketed
<1>2. QED
  BY <1>1, TotalsHold, PTL

\* The ring keeps its bound, and its points go back neither in time nor in
\* bytes.
THEOREM RingInOrder == Spec => MetricsOrdered
<1>1. TypeOK /\ Bracket /\ RingInv /\ [Next]_vars =>
        (metrics' # metrics =>
           LET new == metrics'[Len(metrics')]
           IN  /\ Len(metrics') <= MaxMetrics
               /\ metrics # <<>> => LET old == metrics[Len(metrics)]
                                    IN  old.t <= new.t /\ old.bytes <= new.bytes)
  <2> SUFFICES ASSUME TypeOK, Bracket, RingInv, [Next]_vars, metrics' # metrics
               PROVE  /\ Len(metrics') <= MaxMetrics
                      /\ metrics # <<>> => Latest.t <= (Latest').t /\ Latest.bytes <= (Latest').bytes
    BY DEF Latest
  <2>1. AppendPoint
    BY DEF Next, CallerStep, Tick, AddBytes, Begin, ReadLast, LoadBytes, Publish, SetLastIn,
      SetLastTime, ReadTotals, vars
  <2>2. Collector \in Callers /\ pc[Collector] = "append"
    BY <2>1 DEF AppendPoint, Callers
  <2> DEFINE x == [t |-> clock \div 2, bytes |-> sum[Collector]]
  <2>3. x \in Point /\ metrics \in Seq(Point) /\ metrics' = CutFront(Append(metrics, x))
    BY <2>1, <2>2 DEF AppendPoint, Point, TypeOK
  <2>4. Latest' = x
    BY <2>3, CutFacts DEF Latest
  <2>5. metrics # <<>> => Latest.t <= clock \div 2 /\ Latest.bytes <= low[Collector]
    BY <2>2 DEF RingInv
  <2>6. low[Collector] <= sum[Collector] /\ low[Collector] \in Nat /\ sum[Collector] \in Nat
    BY <2>2 DEF Bracket, TypeOK
  <2>7. metrics # <<>> => Latest.bytes \in Nat
    BY LatestTyped DEF Point
  <2>8. Len(metrics') <= MaxMetrics
    BY <2>3, CutFacts, DashboardAssumption
  <2>9. QED
    BY <2>4, <2>5, <2>6, <2>7, <2>8
<1>2. QED
  BY <1>1, TotalsHold, PTL DEF Spec, MetricsOrdered
============================================================================
