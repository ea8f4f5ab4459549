---------------------------- MODULE RelayProofs ----------------------------
(***************************************************************************)
(* Proofs about Relay, for any number of chunks and any window: what is    *)
(* given is what was sent, the end comes after all of it, and a direction  *)
(* ends only for a reason of its own.                                      *)
(***************************************************************************)
EXTENDS Relay, SequenceTheorems, TLAPS

USE RelayAssumption

Given(x) == got[Other(x)] \o inbox[Other(x)]

FirstN(m) == [n \in 1..m |-> n]

Chunk == 1..MaxChunks

Closed == {"closing", "done"}

\* A goroutine holds at most the chunk it has read last.
Progress ==
  \A x \in Side :
    /\ next[x] <= sent[x] /\ moved[x] <= next[x]
    /\ pc[x] = "read" => moved[x] = next[x]
    /\ pc[x] = "write" => next[x] = moved[x] + 1

\* Why a goroutine has stopped copying.
Reason ==
  \A x \in Side : pc[x] \in Closed =>
    \/ end[x] = "reset" \/ end[Other(x)] = "reset"
    \/ end[x] = "eof" /\ moved[x] = sent[x]

Delivered == \A x \in Side : Given(x) = FirstN(moved[x])

Finished ==
  /\ \A x \in Side : fin[Other(x)] => pc[x] = "done"
  /\ returned => \A x \in Side : pc[x] = "done" /\ bytes[x] = moved[x]

RelayInv == TypeOK /\ Progress /\ Reason /\ Delivered /\ Finished

----------------------------------------------------------------------------
\* Each side has the other for its other.
LEMMA OtherSide == \A x \in Side : Other(x) \in Side /\ Other(x) # x /\ Other(Other(x)) = x
BY DEF Side, Other

\* The next chunk, behind all that were written, continues the count.
LEMMA GivenNext ==
  ASSUME NEW g \in Seq(Chunk), NEW i \in Seq(Chunk), NEW m \in Nat, m + 1 \in Chunk,
         g \o i = FirstN(m)
  PROVE  g \o Append(i, m + 1) = FirstN(m + 1)
<1> DEFINE t == g \o Append(i, m + 1)
<1>1. Len(g) + Len(i) = m
  <2>1. Len(g \o i) = Len(g) + Len(i)  OBVIOUS
  <2>2. DOMAIN (g \o i) = 1..(Len(g) + Len(i))  BY <2>1
  <2>3. DOMAIN FirstN(m) = 1..m  BY DEF FirstN
  <2>4. 1..(Len(g) + Len(i)) = 1..m  BY <2>2, <2>3
  <2> QED BY <2>4
<1>2. t \in Seq(Chunk) /\ Len(t) = m + 1  BY <1>1
<1>3. ASSUME NEW n \in 1..(m + 1) PROVE t[n] = n
  <2>1. CASE n = m + 1  BY <2>1, <1>1
  <2>2. CASE n # m + 1
    <3>1. n \in 1..m  BY <2>2
    <3>2. (g \o i)[n] = n  BY <3>1 DEF FirstN
    <3>3. t[n] = (g \o i)[n]  BY <3>1, <1>1
    <3> QED BY <3>2, <3>3
  <2> QED BY <2>1, <2>2
<1> HIDE DEF t
<1>4. t \in [1..(m + 1) -> Chunk]  BY <1>2, LenProperties
<1>5. t = [n \in 1..(m + 1) |-> n]  BY <1>3, <1>4
<1> QED BY <1>5 DEF FirstN, t

\* A side that takes a chunk has been given the same.
LEMMA GivenTaken ==
  ASSUME NEW g \in Seq(Chunk), NEW i \in Seq(Chunk), i # <<>>
  PROVE  Append(g, Head(i)) \o Tail(i) = g \o i
<1> DEFINE t == Append(g, Head(i)) \o Tail(i)  u == g \o i
<1>1. t \in Seq(Chunk) /\ u \in Seq(Chunk) /\ Len(t) = Len(u)  OBVIOUS
<1>2. ASSUME NEW n \in 1..Len(u) PROVE t[n] = u[n]
  <2>1. CASE n <= Len(g)  BY <2>1
  <2>2. CASE n = Len(g) + 1  BY <2>2
  <2>3. CASE n > Len(g) + 1  BY <2>3
  <2> QED BY <2>1, <2>2, <2>3
<1> QED BY <1>1, <1>2


\* Nothing is on its way at first.
LEMMA InitRelay == Init => RelayInv
<1> SUFFICES ASSUME Init PROVE RelayInv  OBVIOUS
<1>1. TypeOK
  <2>1. <<>> \in Seq(1..MaxChunks) /\ Len(<<>>) <= Window  OBVIOUS
  <2>2. FALSE \in BOOLEAN /\ 0 \in 0..MaxChunks  OBVIOUS
  <2> QED BY <2>1, <2>2 DEF Init, TypeOK
<1>2. Progress /\ Reason /\ Finished
  BY OtherSide DEF Init, Progress, Reason, Finished, Closed, Ended, Side
<1>3. Delivered
  <2>1. \A x \in Side : Given(x) = <<>> \o <<>> /\ moved[x] = 0
    BY OtherSide DEF Init, Given
  <2>2. <<>> \o <<>> = FirstN(0)  BY DEF FirstN
  <2> QED BY <2>1, <2>2 DEF Delivered
<1> QED BY <1>1, <1>2, <1>3 DEF RelayInv

\* Only Write gives a side a chunk, and then the next one.
LEMMA DeliveredStep == RelayInv /\ [Next]_vars => Delivered'
<1> SUFFICES ASSUME RelayInv, [Next]_vars PROVE Delivered'  OBVIOUS
<1>1. \A x \in Side : got[x] \in Seq(Chunk) /\ inbox[x] \in Seq(Chunk) /\ moved[x] \in Nat
  BY DEF RelayInv, TypeOK, Chunk
<1>2. \A x \in Side : Given(x) = FirstN(moved[x])  BY DEF RelayInv, Delivered
<1>3. CASE UNCHANGED <<got, inbox, moved>>  BY <1>2, <1>3 DEF Delivered, Given, FirstN
<1>4. ASSUME NEW y \in Side, Take(y) PROVE Delivered'
  <2>1. Append(got[y], Head(inbox[y])) \o Tail(inbox[y]) = got[y] \o inbox[y]
    BY <1>1, <1>4, GivenTaken DEF Take
  <2>2. \A x \in Side : Given(x)' = Given(x)
    BY <1>1, <1>4, <2>1, OtherSide DEF Take, Given, TypeOK, RelayInv
  <2>3. moved' = moved  BY <1>4 DEF Take, copies
  <2> QED BY <1>2, <2>2, <2>3 DEF Delivered, FirstN
<1>5. ASSUME NEW x \in Side, Write(x) PROVE Delivered'
  <2>1. next[x] = moved[x] + 1 /\ next[x] \in Chunk
    BY <1>5, <1>1 DEF Write, RelayInv, Progress, TypeOK, Chunk
  <2>2. got[Other(x)] \o Append(inbox[Other(x)], next[x]) = FirstN(moved[x] + 1)
    <3> DEFINE g == got[Other(x)]  i == inbox[Other(x)]  m == moved[x]
    <3>1. g \in Seq(Chunk) /\ i \in Seq(Chunk) /\ m \in Nat /\ m + 1 \in Chunk
      BY <1>1, <2>1, OtherSide
    <3>2. g \o i = FirstN(m)  BY <1>2 DEF Given
    <3> HIDE DEF g, i, m
    <3>3. g \o Append(i, m + 1) = FirstN(m + 1)  BY ONLY <3>1, <3>2, GivenNext
    <3> QED BY <2>1, <3>3 DEF g, i, m
  <2>3. \A z \in Side : Given(z)' = IF z = x THEN FirstN(moved[x] + 1) ELSE Given(z)
    BY <1>5, <2>2, OtherSide DEF Write, Given, RelayInv, TypeOK, peers
  <2>4. \A z \in Side : moved'[z] = IF z = x THEN moved[x] + 1 ELSE moved[z]
    BY <1>5 DEF Write, RelayInv, TypeOK
  <2> QED BY <1>2, <2>3, <2>4 DEF Delivered, FirstN
<1>6. CASE UNCHANGED vars  BY <1>3, <1>6 DEF vars, peers, copies
<1>7. ASSUME NEW x \in Side, Read(x) \/ ReadEnds(x) \/ WriteFails(x) \/ CloseWrite(x)
      PROVE Delivered'
  BY <1>3, <1>7 DEF Read, ReadEnds, WriteFails, CloseWrite, peers
<1>8. ASSUME NEW x \in Side, Send(x) \/ End(x, "eof") \/ End(x, "reset") PROVE Delivered'
  BY <1>3, <1>8 DEF Send, End, copies
<1>9. CASE Return  BY <1>3, <1>9 DEF Return, peers, copies
<1> QED BY <1>4, <1>5, <1>6, <1>7, <1>8, <1>9 DEF Next, CopyStep, AllOver

\* Steps keep the types: a chunk is one of those sent, and a write finds room.
LEMMA TypeStep == RelayInv /\ [Next]_vars => TypeOK'
<1> SUFFICES ASSUME RelayInv, [Next]_vars PROVE TypeOK'  OBVIOUS
<1> USE DEF RelayInv, TypeOK
<1>1. ASSUME NEW x \in Side, Send(x) \/ End(x, "eof") \/ End(x, "reset") PROVE TypeOK'
  <2>1. \/ sent' = [sent EXCEPT ![x] = @ + 1] /\ sent[x] < MaxChunks /\ end' = end
        \/ \E how \in {"eof", "reset"} : end' = [end EXCEPT ![x] = how] /\ sent' = sent
    BY <1>1 DEF Send, End
  <2>2. UNCHANGED <<got, inbox, fin, pc, next, moved, returned, bytes>>
    BY <1>1 DEF Send, End, copies
  <2>3. sent' \in [Side -> 0..MaxChunks]
    <3>1. sent[x] < MaxChunks => sent[x] + 1 \in 0..MaxChunks  OBVIOUS
    <3> QED BY <2>1, <3>1
  <2>4. end' \in [Side -> {"open", "eof", "reset"}]  BY <2>1
  <2> QED BY <2>2, <2>3, <2>4
<1>2. ASSUME NEW y \in Side, Take(y) PROVE TypeOK'
  <2>1. inbox[y] \in Seq(1..MaxChunks) /\ inbox[y] # <<>> /\ Len(inbox[y]) <= Window  BY <1>2 DEF Take
  <2>2. Head(inbox[y]) \in 1..MaxChunks /\ Tail(inbox[y]) \in Seq(1..MaxChunks)
        /\ Len(Tail(inbox[y])) <= Window
    BY <2>1
  <2>3. inbox' \in [Side -> Seq(1..MaxChunks)] /\ \A z \in Side : Len(inbox'[z]) <= Window
    BY <1>2, <2>2 DEF Take
  <2>4. got' \in [Side -> Seq(1..MaxChunks)]
    <3>1. Append(got[y], Head(inbox[y])) \in Seq(1..MaxChunks)  BY <2>2
    <3> QED BY <1>2, <3>1 DEF Take
  <2> QED BY <1>2, <2>3, <2>4 DEF Take, copies
<1>3. ASSUME NEW x \in Side, Write(x) PROVE TypeOK'
  <2>1. Other(x) \in Side /\ next[x] \in 1..MaxChunks /\ moved[x] + 1 \in 0..MaxChunks
    BY <1>3, OtherSide DEF Write, Progress
  <2>2. Len(inbox[Other(x)]) < Window  BY <1>3, <2>1 DEF Write, Room
  <2>3. Append(inbox[Other(x)], next[x]) \in Seq(1..MaxChunks)
        /\ Len(Append(inbox[Other(x)], next[x])) <= Window
    BY <2>1, <2>2
  <2>4. inbox' \in [Side -> Seq(1..MaxChunks)] /\ \A z \in Side : Len(inbox'[z]) <= Window
    BY <1>3, <2>1, <2>3 DEF Write
  <2>5. moved' \in [Side -> 0..MaxChunks] /\ pc' \in [Side -> {"read", "write", "closing", "done"}]
    BY <1>3, <2>1 DEF Write, Goto
  <2>6. UNCHANGED <<sent, end, got, fin, next, returned, bytes>>  BY <1>3 DEF Write, peers
  <2> QED BY <2>4, <2>5, <2>6
<1>4. ASSUME NEW x \in Side, Read(x) PROVE TypeOK'
  <2>1. next' \in [Side -> 0..MaxChunks] /\ pc' \in [Side -> {"read", "write", "closing", "done"}]
    BY <1>4 DEF Read, Goto
  <2> QED BY <1>4, <2>1 DEF Read, peers
<1>5. ASSUME NEW x \in Side, ReadEnds(x) \/ WriteFails(x) \/ CloseWrite(x) PROVE TypeOK'
  BY <1>5, OtherSide DEF ReadEnds, WriteFails, CloseWrite, Goto, peers
<1>6. CASE Return  BY <1>6 DEF Return, peers, copies
<1>7. CASE UNCHANGED vars  BY <1>7 DEF vars, peers, copies
<1> QED BY <1>1, <1>2, <1>3, <1>4, <1>5, <1>6, <1>7 DEF Next, CopyStep, AllOver

\* No step closes a direction without a reason, or returns before both are done.
LEMMA ControlStep == RelayInv /\ [Next]_vars => Progress' /\ Reason' /\ Finished'
<1> SUFFICES ASSUME RelayInv, [Next]_vars PROVE Progress' /\ Reason' /\ Finished'  OBVIOUS
<1> USE OtherSide DEF RelayInv, TypeOK, Progress, Reason, Finished, Closed
<1>1. ASSUME NEW x \in Side, Send(x) PROVE Progress' /\ Reason' /\ Finished'
  BY <1>1 DEF Send, Ended, copies
<1>2. ASSUME NEW x \in Side, End(x, "eof") \/ End(x, "reset") PROVE Progress' /\ Reason' /\ Finished'
  <2>1. UNCHANGED <<sent, fin, pc, next, moved, returned, bytes>>  BY <1>2 DEF End, copies
  <2>2. Progress' /\ Finished'  BY <2>1
  <2>3. end[x] # "reset"  BY <1>2 DEF End
  <2>4. \A z \in Side : z # x => end'[z] = end[z]  BY <1>2 DEF End
  <2>5. end[x] = "eof" => end'[x] = "reset"  BY <1>2 DEF End
  <2>6. ASSUME NEW z \in Side, pc[z] \in Closed
        PROVE  \/ end'[z] = "reset" \/ end'[Other(z)] = "reset"
               \/ end'[z] = "eof" /\ moved[z] = sent[z]
    <3>1. CASE end[z] = "reset"  BY <3>1, <2>3, <2>4
    <3>2. CASE end[Other(z)] = "reset"  BY <3>2, <2>3, <2>4
    <3>3. CASE end[z] = "eof" /\ moved[z] = sent[z]  BY <3>3, <2>4, <2>5
    <3> QED BY <2>6, <3>1, <3>2, <3>3
  <2> QED BY <2>1, <2>2, <2>6
<1>3. ASSUME NEW x \in Side, Take(x) PROVE Progress' /\ Reason' /\ Finished'
  <2>1. UNCHANGED <<sent, end, fin, pc, next, moved, returned, bytes>>  BY <1>3 DEF Take, copies
  <2> QED BY <2>1
<1>4. ASSUME NEW x \in Side, Read(x) PROVE Progress' /\ Reason' /\ Finished'
  BY <1>4 DEF Read, Goto, peers
<1>5. ASSUME NEW x \in Side, Write(x) PROVE Progress' /\ Reason' /\ Finished'
  <2>1. UNCHANGED <<sent, end, fin, next, returned, bytes>>  BY <1>5 DEF Write, peers
  <2>2. pc[x] = "write" /\ pc' = [pc EXCEPT ![x] = "read"] /\ moved' = [moved EXCEPT ![x] = @ + 1]
    BY <1>5 DEF Write, Goto
  <2>3. Progress'  BY <2>1, <2>2
  <2>4. Reason'  BY <2>1, <2>2
  <2>5. Finished'  BY <2>1, <2>2
  <2> QED BY <2>3, <2>4, <2>5
<1>6. ASSUME NEW x \in Side, ReadEnds(x) PROVE Progress' /\ Reason' /\ Finished'
  BY <1>6 DEF ReadEnds, Goto, peers
<1>7. ASSUME NEW x \in Side, WriteFails(x) PROVE Progress' /\ Reason' /\ Finished'
  BY <1>7 DEF WriteFails, Goto, peers
<1>7a. ASSUME NEW x \in Side, CloseWrite(x) PROVE Progress' /\ Reason' /\ Finished'
  <2>1. UNCHANGED <<sent, end, next, moved, returned, bytes>>  BY <1>7a DEF CloseWrite, peers
  <2>2. pc[x] = "closing" /\ pc' = [pc EXCEPT ![x] = "done"]  BY <1>7a DEF CloseWrite, Goto
  <2>3. fin' = [fin EXCEPT ![Other(x)] = TRUE]  BY <1>7a DEF CloseWrite
  <2>4. Progress' /\ Reason'  BY <2>1, <2>2
  <2>5. \A z \in Side : fin'[Other(z)] => z = x \/ fin[Other(z)]  BY <2>3
  <2> QED BY <2>1, <2>2, <2>4, <2>5
<1>8. CASE Return  BY <1>8 DEF Return, peers, copies
<1>9. CASE UNCHANGED vars  BY <1>9 DEF vars, peers, copies
<1> QED BY <1>1, <1>2, <1>3, <1>4, <1>5, <1>6, <1>7, <1>7a, <1>8, <1>9 DEF Next, CopyStep, AllOver

----------------------------------------------------------------------------
\* Every state of Relay satisfies the strengthening.
THEOREM RelayInvariant == Spec => []RelayInv
<1>1. RelayInv /\ [Next]_vars => RelayInv'
  BY TypeStep, ControlStep, DeliveredStep DEF RelayInv
<1> QED BY <1>1, InitRelay, PTL DEF Spec

\* The variables of Relay hold values of their Go types, and no side is given
\* more than its window holds.
THEOREM TypeCorrect == Spec => []TypeOK
BY RelayInvariant, PTL DEF RelayInv

\* io.CopyBuffer gives the destination what the source sent, in order and each
\* chunk once, and relayWithStats adds the chunks that were written.
THEOREM Order == Spec => []InOrder
<1>1. RelayInv => InOrder
  <2> SUFFICES ASSUME RelayInv, NEW x \in Side
               PROVE  /\ Given(x) = FirstN(moved[x]) /\ moved[x] <= sent[x]
                      /\ returned => bytes[x] = moved[x]
    BY DEF InOrder, Given, FirstN
  <2>1. Given(x) = FirstN(moved[x])  BY DEF RelayInv, Delivered
  <2>2. moved[x] <= next[x] /\ next[x] <= sent[x]  BY DEF RelayInv, Progress
  <2>3. moved[x] <= sent[x]  BY <2>2 DEF RelayInv, TypeOK
  <2> QED BY <2>1, <2>3 DEF RelayInv, Finished
<1> QED BY <1>1, RelayInvariant, PTL

\* closeWrite tells a side that the stream has ended only after all of it.
THEOREM EndLast == Spec => []EndAfterAll
<1>1. RelayInv => EndAfterAll
  BY OtherSide DEF RelayInv, EndAfterAll, Reason, Finished, Closed, TypeOK
<1> QED BY <1>1, RelayInvariant, PTL

\* A direction of Relay ends by its own source or destination, never because
\* the other direction has ended.
THEOREM Independent == Spec => []DirectionsIndependent
<1>1. RelayInv => DirectionsIndependent
  BY OtherSide DEF RelayInv, DirectionsIndependent, Reason, Closed, Ended, TypeOK
<1> QED BY <1>1, RelayInvariant, PTL
============================================================================
