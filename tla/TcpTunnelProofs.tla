------------------------- MODULE TcpTunnelProofs -------------------------
(***************************************************************************)
(* Theorems about TcpTunnel, and about FirstRead, which is TcpTunnel with  *)
(* the pool's buffers, for any connections, limit, buffers and first       *)
(* reads.                                                                  *)
(***************************************************************************)
EXTENDS FirstRead, ConnServiceProofs, SequenceTheorems

ProtoTypeOK == proto \in [Conns -> Protocol \cup {"none"}]

TunnelInv == ServiceInv /\ ProtoTypeOK

\* The steps of handleTCP and its handlers stay within the service.
LEMMA HandlerIsHandled ==
  ASSUME TunnelInv, NEW c \in Conns,
         ReadFails(c) \/ Negotiated(c) \/ DialFails(c) \/ DialSucceeds(c) \/ Reply(c)
           \/ \E p \in Protocol : Detect(c, p)
  PROVE  Handled(c)
<1> USE DEF TunnelInv, ServiceInv, ServiceTypeOK, Handled, Goto, sockets, counters, InService, Handshake
<1>1. CASE ReadFails(c)
  BY <1>1 DEF ReadFails, Return, Tidy, NothingLeftOpen
<1>2. CASE Negotiated(c)
  BY <1>2 DEF Negotiated, Tidy, NothingLeftOpen
<1>3. CASE DialFails(c)
  <2>1. stage[c] = "dialing" /\ target[c] = FALSE
    BY <1>3 DEF DialFails, Tidy, NothingLeftOpen
  <2>2. stage' = [stage EXCEPT ![c] = "release"] /\ failed' \in Nat
        /\ UNCHANGED <<sockets, slots, active, total, rejected>>
    BY <1>3, <2>1 DEF DialFails, Return
  <2>3. QED
    BY <2>1, <2>2
<1>4. CASE DialSucceeds(c)
  <2>1. PICK s \in {"replying", "relaying"} : stage' = [stage EXCEPT ![c] = s]
    BY <1>4 DEF DialSucceeds, Dial
  <2>2. stage[c] = "dialing" /\ target' = [target EXCEPT ![c] = TRUE]
        /\ UNCHANGED <<client, slots, counters>>
    BY <1>4 DEF DialSucceeds, Dial
  <2>3. stage'[c] = s
    BY <2>1
  <2>4. QED
    BY <2>1, <2>2, <2>3
<1>5. CASE Reply(c)
  <2>1. stage[c] = "replying" /\ UNCHANGED <<sockets, slots, counters>>
    BY <1>5 DEF Reply
  <2>2. PICK s \in {"relaying", "closeTarget", "release"} :
          stage' = [stage EXCEPT ![c] = s] /\ (s = "release" => ~target[c])
    BY <1>5 DEF Reply, Return
  <2>3. stage'[c] = s
    BY <2>2
  <2>4. QED
    BY <2>1, <2>2, <2>3
<1>6. ASSUME NEW p \in Protocol, Detect(c, p) PROVE Handled(c)
  <2>1. stage[c] = "reading" /\ target[c] = FALSE
    BY <1>6 DEF Detect, Tidy, NothingLeftOpen
  <2>2. Return(c) \/ Goto(c, "negotiating") \/ Goto(c, "dialing")
    BY <1>6 DEF Detect
  <2>3. \E s \in {"negotiating", "dialing", "release"} : stage' = [stage EXCEPT ![c] = s]
    BY <2>1, <2>2 DEF Return
  <2>4. failed' \in Nat /\ UNCHANGED <<sockets, slots, active, total, rejected>>
    BY <1>6 DEF Detect
  <2>5. QED
    BY <2>1, <2>3, <2>4
<1>7. QED
  BY <1>1, <1>2, <1>3, <1>4, <1>5, <1>6

\* What each step does to the variable of its own.
LEMMA ProtoStep == ProtoTypeOK /\ [Next]_vars => ProtoTypeOK'
BY DEF ProtoTypeOK, Next, Leave, Detect, ReadFails, Negotiated, DialStep, DialFails, DialSucceeds, vars

LEMMA TunnelStep == TunnelInv /\ [Next]_vars => TunnelInv' /\ [Limited!Next]_Phase
<1> SUFFICES ASSUME TunnelInv, [Next]_vars PROVE ServiceInv' /\ [Limited!Next]_Phase
  BY ProtoStep DEF TunnelInv
<1> USE DEF TunnelInv
<1>1. ASSUME NEW c \in Conns, Accept(c) \/ LoopStep(c) PROVE ServiceInv' /\ [Limited!Next]_Phase
  BY <1>1, LoopPreserves
<1>2. ASSUME NEW c \in Conns, LeaveStep(c) PROVE ServiceInv' /\ [Limited!Next]_Phase
  BY <1>2, LeavePreserves
<1>3. ASSUME NEW c \in Conns, RelayReturns(c) PROVE ServiceInv' /\ [Limited!Next]_Phase
  BY <1>3, RelayReturnsIsHandled, HandledStep
<1>4. ASSUME NEW c \in Conns,
             ReadFails(c) \/ Negotiated(c) \/ DialStep(c) \/ \E p \in Protocol : Detect(c, p)
      PROVE  ServiceInv' /\ [Limited!Next]_Phase
  <2>1. Handled(c)
    BY <1>4, HandlerIsHandled DEF DialStep
  <2>2. QED
    BY <2>1, HandledStep
<1>5. CASE UNCHANGED vars
  BY <1>5, IdlePreserves DEF vars
<1>6. QED
  BY <1>1, <1>2, <1>3, <1>4, <1>5 DEF Next, Leave

LEMMA TunnelInit == Init => TunnelInv /\ Limited!Init
BY InitService DEF Init, TunnelInv, ProtoTypeOK

LEMMA TunnelHolds == Spec => []TunnelInv
BY TunnelInit, TunnelStep, PTL DEF Spec

\* The variables of the tunnel server hold values of their Go types, and
\* connSem never holds more than its capacity.
THEOREM TypeCorrect == Spec => []TypeOK
<1>1. TunnelInv => TypeOK
  BY DEF TunnelInv, ServiceInv, ProtoTypeOK, TypeOK
<1>2. QED
  BY <1>1, TunnelHolds, PTL

\* The semaphore and the four counters agree with the goroutines on every way
\* into and out of the tunnel's handlers.
THEOREM AccountingExact == Spec => []Accounting
<1>1. TunnelInv => Accounting
  BY DEF TunnelInv, ServiceInv
<1>2. QED
  BY <1>1, TunnelHolds, PTL

\* No way out of a handler leaves a socket of the tunnel open.
THEOREM SocketsClosed == Spec => []NothingLeftOpen
<1>1. TunnelInv => NothingLeftOpen
  BY DEF TunnelInv, ServiceInv, Tidy
<1>2. QED
  BY <1>1, TunnelHolds, PTL

\* The tunnel server implements LimitedService: startTCP serves at most
\* MaxConns connections at a time and rejects one only while it serves that
\* many.
THEOREM LimitKept == Spec => KeepsLimit
BY TunnelInit, TunnelStep, TunnelHolds, PTL DEF Spec, KeepsLimit, Limited!Spec

(***************************************************************************)
(* FirstRead: the pool's buffers change nothing of what TcpTunnel          *)
(* promises, and what they still hold of an earlier connection leads to no *)
(* dial.                                                                   *)
(***************************************************************************)
Texts0 == Texts \cup {<<>>}

ContentOK == content \in [Buffers -> {q \in Seq(Cell) : Len(q) = BufLen}]

BufTypeOK ==
  /\ ContentOK /\ out \subseteq Buffers
  /\ buf \in [Conns -> Buffers \cup {NoBuffer}] /\ first \in [Conns -> Texts0]

\* The buffers out of the pool are those in use, each by one connection.
Owned ==
  /\ out = {buf[c] : c \in Conns} \ {NoBuffer}
  /\ \A c, d \in Conns : buf[c] = buf[d] /\ buf[c] # NoBuffer => c = d

\* The front of a buffer is what its connection has read.
OwnFront ==
  \A c \in Conns : first[c] # <<>> =>
    buf[c] # NoBuffer /\ StartsWith(content[buf[c]], first[c])

\* From the switch to the end of the relay.
Switched == {"negotiating", "dialing", "replying", "relaying", "closeTarget"}

\* After the switch a handler has what it read, and goes on with it only if it
\* has taken it for what it is.
Classified ==
  \A c \in Conns :
    /\ stage[c] \in Switched => first[c] # <<>> /\ proto[c] = Kind(first[c])
    /\ stage[c] = "negotiating" => Len(first[c]) >= 2
    /\ stage[c] = "reading" => proto[c] = "none"
    /\ stage[c] \notin Switched \cup {"reading", "release"} => proto[c] = "none" /\ buf[c] = NoBuffer

ReadInv == TunnelInv /\ BufTypeOK /\ Owned /\ OwnFront /\ DetectionRight /\ Classified

USE FirstReadAssumption

----------------------------------------------------------------------------
(* The switch *)

\* A test for two cells.
LEMMA StartsWithTwo ==
  ASSUME NEW q, NEW a, NEW b
  PROVE  StartsWith(q, <<a, b>>) <=> Len(q) >= 2 /\ q[1] = a /\ q[2] = b
<1>1. Len(<<a, b>>) = 2 /\ <<a, b>>[1] = a /\ <<a, b>>[2] = b
  OBVIOUS
<1> DEFINE w == <<a, b>>
<1> HIDE DEF w
<1>2. 1..2 = {1, 2}
  OBVIOUS
<1>3. StartsWith(q, w) <=> Len(q) >= 2 /\ q[1] = a /\ q[2] = b
  BY <1>1, <1>2 DEF StartsWith, w
<1>4. QED
  BY <1>3 DEF w

\* A buffer is a sequence of its length.
LEMMA BufferIsSeq ==
  ASSUME NEW q \in [1..BufLen -> Cell] PROVE q \in Seq(Cell) /\ Len(q) = BufLen
<1>1. q \in Seq(Cell)
  <2>1. 4 \in Nat /\ q \in [1..4 -> Cell]
    BY DEF BufLen
  <2>2. q \in UNION {[1..n -> Cell] : n \in Nat}
    BY <2>1
  <2>3. QED
    BY <2>2, SeqDef
<1>2. DOMAIN q = 1..Len(q) /\ Len(q) \in Nat
  BY <1>1, LenProperties
<1>3. QED
  BY <1>1, <1>2 DEF BufLen

\* The switch has no other cases.
LEMMA ClassifyProtocol ==
  ASSUME NEW q, NEW n PROVE Classify(q, n) \in Protocol
BY DEF Classify, Protocol

\* What is behind two cells or more does not count.
LEMMA ClassifySame ==
  ASSUME NEW t \in Texts, NEW q \in Seq(Cell), Len(q) = BufLen, StartsWith(q, t), Len(t) >= 2
  PROVE  Classify(q, Len(t)) = Kind(t)
<1>1. Len(t) \in 2..BufLen /\ \A i \in 1..Len(t) : q[i] = t[i]
  BY DEF StartsWith, BufLen
<1>2. q[1] = t[1] /\ q[2] = t[2] /\ (Len(t) >= 3 => q[3] = t[3])
  BY <1>1 DEF BufLen
<1>3. Len(<<"CO", "NN", "EC">>) = 3 /\ Len(<<"GE", "T ">>) = 2 /\ Len(<<"PO", "ST">>) = 2
  OBVIOUS
<1>4. IsConnect(q, Len(t)) <=> IsConnect(t, Len(t))
  <2>1. Len(t) >= 3 => (StartsWith(q, <<"CO", "NN", "EC">>) <=> StartsWith(t, <<"CO", "NN", "EC">>))
    BY <1>1, <1>2, <1>3 DEF StartsWith, BufLen
  <2>2. QED
    BY <2>1 DEF IsConnect
<1>5. IsHTTP(q, Len(t)) <=> IsHTTP(t, Len(t))
  <2>1. StartsWith(q, <<"GE", "T ">>) <=> StartsWith(t, <<"GE", "T ">>)
    <3>1. /\ StartsWith(q, <<"GE", "T ">>) <=> Len(q) >= 2 /\ q[1] = "GE" /\ q[2] = "T "
          /\ StartsWith(t, <<"GE", "T ">>) <=> Len(t) >= 2 /\ t[1] = "GE" /\ t[2] = "T "
      BY StartsWithTwo, Zenon
    <3>2. Len(q) >= 2 /\ Len(t) >= 2
      BY DEF BufLen
    <3>3. QED
      BY <1>2, <3>1, <3>2
  <2>2. StartsWith(q, <<"PO", "ST">>) <=> StartsWith(t, <<"PO", "ST">>)
    <3>1. /\ StartsWith(q, <<"PO", "ST">>) <=> Len(q) >= 2 /\ q[1] = "PO" /\ q[2] = "ST"
          /\ StartsWith(t, <<"PO", "ST">>) <=> Len(t) >= 2 /\ t[1] = "PO" /\ t[2] = "ST"
      BY StartsWithTwo, Zenon
    <3>2. Len(q) >= 2 /\ Len(t) >= 2
      BY DEF BufLen
    <3>3. QED
      BY <1>2, <3>1, <3>2
  <2>3. QED
    BY <2>1, <2>2 DEF IsHTTP
<1>6. QED
  BY <1>2, <1>4, <1>5 DEF Kind, Classify

\* One cell: only a protocol that is named by its first cell is found there.
LEMMA ClassifyShort ==
  ASSUME NEW t \in Texts, NEW q \in Seq(Cell), Len(q) = BufLen, StartsWith(q, t), Len(t) < 2
  PROVE  /\ Classify(q, Len(t)) # "connect"
         /\ Classify(q, Len(t)) = "raw" => Kind(t) = "raw"
<1>1. Len(t) = 1 /\ q[1] = t[1]
  BY DEF StartsWith, BufLen
<1>2. ~IsConnect(q, Len(t)) /\ ~IsConnect(t, Len(t))
  BY <1>1 DEF IsConnect
<1>3. Len(<<"GE", "T ">>) = 2 /\ Len(<<"PO", "ST">>) = 2
  OBVIOUS
<1>4. ~IsHTTP(t, Len(t))
  BY <1>1, <1>3 DEF IsHTTP, StartsWith
<1>5. QED
  BY <1>1, <1>2, <1>4 DEF Classify, Kind

----------------------------------------------------------------------------
(* The buffers change nothing of TcpTunnel *)

\* Every step is one of TcpTunnel, or changes only buffers.
LEMMA StepsOfTunnel == [ReadNext]_allVars => [Next]_vars
<1> SUFFICES ASSUME [ReadNext]_allVars PROVE [Next]_vars
  OBVIOUS
<1>1. ASSUME NEW c \in Conns, Service(c) \/ Handle(c) \/ LeaveAfterPut(c) PROVE Next
  BY <1>1 DEF Service, Handle, LeaveAfterPut, Next
<1>2. ASSUME NEW c \in Conns, FirstReadFails(c) PROVE Next
  BY <1>2 DEF FirstReadFails, Next
<1>3. ASSUME NEW c \in Conns, DetectFirst(c) PROVE Next
  BY <1>3, ClassifyProtocol DEF DetectFirst, Next
<1>4. ASSUME NEW c \in Conns, GetSmall(c) \/ PutSmall(c) \/ \E t \in Texts : ReadFirst(c, t)
      PROVE  UNCHANGED vars
  BY <1>4 DEF GetSmall, PutSmall, ReadFirst
<1>5. CASE AllOver /\ UNCHANGED allVars
  BY <1>5 DEF allVars
<1>6. CASE UNCHANGED allVars
  BY <1>6 DEF allVars
<1>7. QED
  BY <1>1, <1>2, <1>3, <1>4, <1>5, <1>6 DEF ReadNext

----------------------------------------------------------------------------
(* The invariant *)

\* Nobody has a buffer at first.
LEMMA ReadInitInv == ReadInit => ReadInv
<1> SUFFICES ASSUME ReadInit PROVE ReadInv
  OBVIOUS
<1>1. TunnelInv
  BY TunnelInit DEF ReadInit
<1>2. BufTypeOK
  <2>1. Fresh \in Seq(Cell) /\ Len(Fresh) = BufLen
    BY BufferIsSeq DEF Fresh, Cell
  <2>2. QED
    BY <2>1 DEF ReadInit, BufTypeOK, ContentOK, Texts0
<1>3. Owned /\ OwnFront
  BY DEF ReadInit, Owned, OwnFront
<1>4. DetectionRight /\ Classified
  BY DEF ReadInit, Init, ServiceInit, DetectionRight, Classified, Switched
<1>5. QED
  BY <1>1, <1>2, <1>3, <1>4 DEF ReadInv

\* Steps that leave the buffers alone.
LEMMA BuffersKept ==
  ASSUME BufTypeOK, Owned, OwnFront, UNCHANGED readVars
  PROVE  BufTypeOK' /\ Owned' /\ OwnFront'
BY DEF readVars, BufTypeOK, ContentOK, Owned, OwnFront

\* The buffer that GetSmall returns is not in use.
LEMMA GetKeeps ==
  ASSUME ReadInv, NEW c \in Conns, GetSmall(c)
  PROVE  BufTypeOK' /\ Owned' /\ OwnFront' /\ DetectionRight' /\ Classified'
<1>1. PICK b \in Buffers \ out :
        /\ buf' = [buf EXCEPT ![c] = b] /\ out' = out \cup {b}
        /\ content' \in {content, [content EXCEPT ![b] = Fresh]}
  BY DEF GetSmall
<1>2. stage[c] = "reading" /\ UNCHANGED <<stage, proto, first>>
  BY DEF GetSmall, vars, serviceVars
<1>3. Fresh \in Seq(Cell) /\ Len(Fresh) = BufLen
  BY BufferIsSeq DEF Fresh, Cell
<1>4. BufTypeOK'
  BY <1>1, <1>2, <1>3 DEF ReadInv, BufTypeOK, ContentOK
<1>5. \A d \in Conns : d # c => buf'[d] = buf[d] /\ buf'[d] # b
  BY <1>1, FirstReadAssumption DEF ReadInv, BufTypeOK, Owned
<1>6. Owned'
  <2>1. buf'[c] = b /\ b # NoBuffer
    BY <1>1, FirstReadAssumption DEF ReadInv, BufTypeOK
  <2>2. buf[c] = NoBuffer /\ out = {buf[d] : d \in Conns} \ {NoBuffer}
    BY DEF GetSmall, ReadInv, Owned
  <2>3. out' = {buf'[d] : d \in Conns} \ {NoBuffer}
    <3>1. ASSUME NEW x \in out' PROVE x \in {buf'[d] : d \in Conns} \ {NoBuffer}
      BY <1>1, <1>5, <2>1, <2>2, <3>1
    <3>2. ASSUME NEW d \in Conns, buf'[d] # NoBuffer PROVE buf'[d] \in out'
      BY <1>1, <1>5, <2>1, <2>2, <3>2
    <3>3. QED
      BY <3>1, <3>2
  <2>4. \A d, e \in Conns : buf'[d] = buf'[e] /\ buf'[d] # NoBuffer => d = e
    BY <1>5, <2>1 DEF ReadInv, Owned
  <2>5. QED
    BY <2>3, <2>4 DEF Owned
<1>7. OwnFront'
  <2>1. first[c] = <<>>
    BY DEF GetSmall, ReadInv, OwnFront
  <2>2. \A d \in Conns : d # c /\ buf[d] # NoBuffer => content'[buf[d]] = content[buf[d]]
    BY <1>1, <1>5 DEF ReadInv, BufTypeOK, ContentOK
  <2>3. QED
    BY <1>2, <1>5, <2>1, <2>2 DEF ReadInv, OwnFront
<1>8. DetectionRight'
  BY <1>2 DEF ReadInv, DetectionRight
<1>9. Classified'
  BY <1>2, <1>5 DEF ReadInv, Classified, Switched
<1>10. QED
  BY <1>4, <1>6, <1>7, <1>8, <1>9

\* A read puts what it returns at the front of the handler's own buffer.
LEMMA ReadKeeps ==
  ASSUME ReadInv, NEW c \in Conns, NEW t \in Texts, ReadFirst(c, t)
  PROVE  BufTypeOK' /\ Owned' /\ OwnFront' /\ DetectionRight' /\ Classified'
<1> DEFINE q == [i \in 1..BufLen |-> IF i <= Len(t) THEN t[i] ELSE content[buf[c]][i]]
<1>1. /\ stage[c] = "reading" /\ proto[c] = "none" /\ buf[c] # NoBuffer /\ buf[c] \in Buffers
      /\ UNCHANGED <<stage, proto, out, buf>>
      /\ first' = [first EXCEPT ![c] = t]
      /\ content' = [content EXCEPT ![buf[c]] = q]
  BY DEF ReadFirst, vars, serviceVars, ReadInv, BufTypeOK, Classified
<1>2. q \in Seq(Cell) /\ Len(q) = BufLen
  <2>1. content[buf[c]] \in Seq(Cell) /\ Len(content[buf[c]]) = BufLen
    BY <1>1 DEF ReadInv, BufTypeOK, ContentOK
  <2>2. \A i \in 1..BufLen : q[i] \in Cell
    BY <2>1 DEF BufLen
  <2>3. q \in [1..BufLen -> Cell]
    BY <2>2
  <2> HIDE DEF q
  <2>4. QED
    BY <2>3, BufferIsSeq
<1>3. StartsWith(q, t)
  BY <1>2 DEF StartsWith, BufLen
<1> HIDE DEF q
<1>4. BufTypeOK'
  BY <1>1, <1>2 DEF ReadInv, BufTypeOK, ContentOK, Texts0
<1>5. Owned'
  BY <1>1 DEF ReadInv, Owned
<1>6. OwnFront'
  <2>1. content'[buf[c]] = q /\ first'[c] = t
    BY <1>1 DEF ReadInv, BufTypeOK, ContentOK
  <2>2. \A d \in Conns : d # c =>
          first'[d] = first[d] /\ (buf[d] # NoBuffer => content'[buf[d]] = content[buf[d]])
    BY <1>1 DEF ReadInv, BufTypeOK, ContentOK, Owned
  <2>3. QED
    BY <1>1, <1>3, <2>1, <2>2 DEF ReadInv, OwnFront
<1>7. \A d \in Conns : d # c => first'[d] = first[d]
  BY <1>1 DEF ReadInv, BufTypeOK
<1>8. DetectionRight'
  BY <1>1, <1>7 DEF ReadInv, DetectionRight
<1>9. Classified'
  BY <1>1, <1>7 DEF ReadInv, Classified, Switched
<1>10. QED
  BY <1>4, <1>5, <1>6, <1>8, <1>9

\* PutSmall comes when the handler looks at its buffer no more.
LEMMA PutKeeps ==
  ASSUME ReadInv, NEW c \in Conns, PutSmall(c)
  PROVE  BufTypeOK' /\ Owned' /\ OwnFront' /\ DetectionRight' /\ Classified'
<1>1. /\ stage[c] = "release" /\ buf[c] # NoBuffer /\ UNCHANGED <<stage, proto, content>>
      /\ buf' = [buf EXCEPT ![c] = NoBuffer] /\ first' = [first EXCEPT ![c] = <<>>]
      /\ out' = out \ {buf[c]}
  BY DEF PutSmall, vars, serviceVars
<1>2. BufTypeOK'
  BY <1>1 DEF ReadInv, BufTypeOK, ContentOK, Texts0
<1>3. \A d \in Conns : IF d = c THEN buf'[d] = NoBuffer /\ first'[d] = <<>>
                       ELSE buf'[d] = buf[d] /\ first'[d] = first[d]
  BY <1>1 DEF ReadInv, BufTypeOK
<1>4. Owned'
  BY <1>1, <1>3 DEF ReadInv, Owned
<1>5. OwnFront'
  BY <1>1, <1>3 DEF ReadInv, OwnFront
<1>6. DetectionRight'
  <2>1. Len(<<>>) = 0
    OBVIOUS
  <2>2. QED
    BY <1>1, <1>3, <2>1 DEF ReadInv, DetectionRight
<1>7. Classified'
  BY <1>1, <1>3 DEF ReadInv, Classified, Switched
<1>8. QED
  BY <1>2, <1>4, <1>5, <1>6, <1>7

\* A step of the handler that touches no buffer and does not switch.
LEMMA HandlerKeeps ==
  ASSUME ReadInv, UNCHANGED readVars, NEW c \in Conns, NEW s \in Stage,
         stage' = [stage EXCEPT ![c] = s],
         \/ /\ proto' = proto
            /\ \/ stage[c] \in Switched /\ s \in (Switched \ {"negotiating"}) \cup {"release"}
               \/ stage[c] = "reading" /\ s = "release"
               \/ stage[c] \notin Switched \cup {"reading", "release"} /\ s \notin Switched \cup {"release"}
         \/ /\ stage[c] = "release" /\ buf[c] = NoBuffer /\ s = "closeClient"
            /\ proto' = [proto EXCEPT ![c] = "none"]
  PROVE  DetectionRight' /\ Classified'
<1>1. proto \in [Conns -> Protocol \cup {"none"}] /\ stage \in [Conns -> Stage]
  BY DEF ReadInv, TunnelInv, ProtoTypeOK, ServiceInv, ServiceTypeOK
<1>2. \A d \in Conns : stage'[d] = (IF d = c THEN s ELSE stage[d]) /\ proto'[d] \in {proto[d], "none"}
  BY <1>1
<1>3. \A d \in Conns : d # c => proto'[d] = proto[d]
  BY <1>1
<1>4. buf' = buf /\ first' = first
  BY DEF readVars
<1>5. DetectionRight'
  BY <1>2, <1>4 DEF ReadInv, DetectionRight
<1>6. ASSUME NEW d \in Conns
      PROVE  /\ stage'[d] \in Switched => first[d] # <<>> /\ proto'[d] = Kind(first[d])
             /\ stage'[d] = "negotiating" => Len(first[d]) >= 2
             /\ stage'[d] = "reading" => proto'[d] = "none"
             /\ stage'[d] \notin Switched \cup {"reading", "release"} => proto'[d] = "none" /\ buf[d] = NoBuffer
  <2>1. CASE d # c
    BY <1>2, <1>3, <2>1 DEF ReadInv, Classified
  <2>2. CASE d = c
    <3>1. stage'[d] = s
      BY <1>2, <2>2
    <3>2. CASE proto' = proto /\ stage[c] \in Switched /\ s \in (Switched \ {"negotiating"}) \cup {"release"}
      BY <3>1, <3>2, <2>2 DEF ReadInv, Classified, Switched
    <3>2a. CASE stage[c] = "reading" /\ s = "release"
      BY <3>1, <3>2a, <2>2 DEF Switched
    <3>2b. CASE proto' = proto /\ stage[c] \notin Switched \cup {"reading", "release"} /\ s \notin Switched \cup {"release"}
      BY <3>1, <3>2b, <2>2 DEF ReadInv, Classified, Switched
    <3>3. CASE stage[c] = "release" /\ buf[c] = NoBuffer /\ s = "closeClient" /\ proto' = [proto EXCEPT ![c] = "none"]
      BY <1>1, <3>1, <3>3, <2>2 DEF Switched
    <3>4. QED
      BY <3>2, <3>2a, <3>2b, <3>3
  <2>3. QED
    BY <2>1, <2>2
<1>7. QED
  BY <1>4, <1>5, <1>6 DEF Classified

\* The switch: a handler that goes on has taken its client for what it is.
LEMMA DetectKeeps ==
  ASSUME ReadInv, NEW c \in Conns, DetectFirst(c)
  PROVE  DetectionRight' /\ Classified'
<1> DEFINE t == first[c]
           q == content[buf[c]]
           p == Classify(q, Len(t))
<1>1. /\ stage[c] = "reading" /\ t \in Texts /\ t # <<>> /\ q \in Seq(Cell) /\ Len(q) = BufLen
      /\ StartsWith(q, t) /\ p \in Protocol
  <2>1. stage[c] = "reading" /\ t # <<>>
    BY DEF DetectFirst, Detect
  <2>2. t \in Texts /\ buf[c] \in Buffers /\ StartsWith(q, t)
    BY <2>1 DEF ReadInv, BufTypeOK, Texts0, OwnFront
  <2>3. q \in Seq(Cell) /\ Len(q) = BufLen
    BY <2>2 DEF ReadInv, BufTypeOK, ContentOK
  <2>4. QED
    BY <2>1, <2>2, <2>3, ClassifyProtocol
<1>2. stage \in [Conns -> Stage] /\ proto \in [Conns -> Protocol \cup {"none"}] /\ target[c] = FALSE
  BY <1>1 DEF ReadInv, TunnelInv, ProtoTypeOK, ServiceInv, ServiceTypeOK, Tidy, NothingLeftOpen
<1>3. UNCHANGED <<buf, first>> /\ proto' = [proto EXCEPT ![c] = p]
  BY DEF DetectFirst, Detect, Keep, readVars
<1>4. PICK s \in {"negotiating", "dialing", "release"} :
        /\ stage' = [stage EXCEPT ![c] = s]
        /\ p = "unknown" => s = "release"
        /\ s = "negotiating" <=> (p = "socks" /\ s # "release")
        /\ p \in {"connect", "http"} => (s = "dialing" <=> HostFound(c))
        /\ p = "socks" /\ Len(t) < 2 => s = "release"
  <2> HIDE DEF p, t
  <2>1. Detect(c, p)
    BY DEF DetectFirst, p, t
  <2>2. /\ p \in {"connect", "http"} => (stage'[c] = "dialing" <=> HostFound(c))
        /\ p = "socks" /\ Len(t) < 2 => stage'[c] = "release"
    BY DEF DetectFirst, p, t
  <2>3. \E s \in {"negotiating", "dialing", "release"} :
          /\ stage' = [stage EXCEPT ![c] = s]
          /\ p = "unknown" => s = "release"
          /\ s = "negotiating" <=> (p = "socks" /\ s # "release")
    BY <1>1, <1>2, <2>1 DEF Detect, Return, Goto, Protocol
  <2>4. QED
    BY <1>2, <2>2, <2>3
<1>5. \A d \in Conns : d # c => stage'[d] = stage[d] /\ proto'[d] = proto[d]
  BY <1>2, <1>3, <1>4
<1>6. stage'[c] = s /\ proto'[c] = p
  BY <1>2, <1>3, <1>4
<1>7. Len(t) >= 2 => p = Kind(t)
  BY <1>1, ClassifySame
<1>8. s # "release" => p = Kind(t)
  <2> SUFFICES ASSUME s # "release", ~(Len(t) >= 2) PROVE p = Kind(t)
    BY <1>7
  <2>1. Len(t) < 2 /\ Len(t) \in Nat
    BY <1>1 DEF BufLen
  <2>2. ~HostFound(c)
    BY <2>1 DEF HostFound, HasHost
  <2>3. p = "raw"
    BY <1>1, <1>4, <2>1, <2>2 DEF Protocol
  <2>4. QED
    BY <1>1, <2>1, <2>3, ClassifyShort
<1> HIDE DEF p, t, q
<1>9. DetectionRight'
  BY <1>3, <1>5, <1>6, <1>7 DEF ReadInv, DetectionRight, t
<1>10. Classified'
  <2>1. s = "negotiating" => Len(t) >= 2
    BY <1>1, <1>4 DEF BufLen
  <2>2. QED
    BY <1>1, <1>3, <1>4, <1>5, <1>6, <1>8, <2>1 DEF ReadInv, Classified, Switched, t
<1>11. QED
  BY <1>9, <1>10

\* Every step of the server with its buffers.
LEMMA ReadStep == ReadInv /\ [ReadNext]_allVars => ReadInv'
<1> SUFFICES ASSUME ReadInv, [ReadNext]_allVars
             PROVE  ReadInv'
  OBVIOUS
<1> DEFINE Goal == BufTypeOK' /\ Owned' /\ OwnFront' /\ DetectionRight' /\ Classified'
<1>1. stage \in [Conns -> Stage] /\ proto \in [Conns -> Protocol \cup {"none"}]
  BY DEF ReadInv, TunnelInv, ProtoTypeOK, ServiceInv, ServiceTypeOK
<1>2. UNCHANGED readVars => BufTypeOK' /\ Owned' /\ OwnFront'
  BY BuffersKept DEF ReadInv
<1>3. ASSUME NEW c \in Conns, Service(c) PROVE Goal
  <2>1. UNCHANGED <<proto, readVars>>
    BY <1>3 DEF Service
  <2>2. \E s \in Stage :
          /\ stage' = [stage EXCEPT ![c] = s]
          /\ \/ stage[c] = "relaying" /\ s \in {"closeTarget", "release"}
             \/ stage[c] \in {"new", "pending", "admitted"} /\ s \in {"pending", "admitted", "rejected", "reading"}
    BY <1>3 DEF Service, Accept, LoopStep, Admit, Reject, Count, RelayReturns, Return, Goto,
       Stage, Loop, Handshake, Leaving, Over
  <2>3. DetectionRight' /\ Classified'
    BY <2>1, <2>2, HandlerKeeps DEF Switched
  <2>4. QED
    BY <1>2, <2>1, <2>3
<1>4. ASSUME NEW c \in Conns, Handle(c) \/ FirstReadFails(c) PROVE Goal
  <2>1. UNCHANGED <<proto, readVars>>
    BY <1>4 DEF Handle, Negotiated, DialStep, DialFails, DialSucceeds, FirstReadFails, ReadFails
  <2>2. \E s \in Stage :
          /\ stage' = [stage EXCEPT ![c] = s]
          /\ \/ /\ stage[c] \in {"negotiating", "dialing", "replying"}
                /\ s \in {"dialing", "replying", "relaying", "closeTarget", "release"}
             \/ stage[c] = "reading" /\ s = "release"
    <3> DEFINE Later == {"dialing", "replying", "relaying", "closeTarget", "release"}
    <3>1. CASE Handle(c)
      <4>1. stage[c] \in {"negotiating", "dialing", "replying"}
        BY <3>1 DEF Handle, Negotiated, DialStep, DialFails, DialSucceeds, Dial, Reply
      <4>2. \E s \in Later : Goto(c, s)
        BY <3>1 DEF Handle, Negotiated, DialStep, DialFails, DialSucceeds, Dial, Reply, Return
      <4>3. Later \subseteq Stage
        BY DEF Stage, Handshake, Leaving
      <4>4. QED
        BY <4>1, <4>2, <4>3 DEF Goto
    <3>2. CASE FirstReadFails(c)
      <4>1. target[c] = FALSE
        BY <3>2 DEF FirstReadFails, ReadFails, ReadInv, TunnelInv, ServiceInv, ServiceTypeOK, Tidy, NothingLeftOpen
      <4>2. QED
        BY <3>2, <4>1 DEF FirstReadFails, ReadFails, Return, Goto, Stage, Leaving
    <3>3. QED
      BY <1>4, <3>1, <3>2
  <2>3. DetectionRight' /\ Classified'
    BY <2>1, <2>2, HandlerKeeps DEF Switched
  <2>4. QED
    BY <1>2, <2>1, <2>3
<1>5. ASSUME NEW c \in Conns, LeaveAfterPut(c) PROVE Goal
  <2>1. UNCHANGED readVars /\ (stage[c] = "release" => buf[c] = NoBuffer)
    BY <1>5 DEF LeaveAfterPut
  <2>2. \E s \in Stage :
          /\ stage' = [stage EXCEPT ![c] = s]
          /\ \/ /\ proto' = proto
                /\ \/ stage[c] = "closeTarget" /\ s = "release"
                   \/ stage[c] \in {"closeClient", "uncount"} /\ s \in {"uncount", "done"}
             \/ stage[c] = "release" /\ s = "closeClient" /\ proto' = [proto EXCEPT ![c] = "none"]
    BY <1>5 DEF LeaveAfterPut, Leave, LeaveStep, CloseTarget, Release, CloseClient, Uncount, Goto,
       Stage, Leaving, Over
  <2>3. DetectionRight' /\ Classified'
    BY <2>1, <2>2, HandlerKeeps DEF Switched
  <2>4. QED
    BY <1>2, <2>1, <2>3
<1>6. ASSUME NEW c \in Conns, DetectFirst(c) PROVE Goal
  BY <1>2, <1>6, DetectKeeps DEF DetectFirst, Keep
<1>7. ASSUME NEW c \in Conns, GetSmall(c) PROVE Goal
  BY <1>7, GetKeeps
<1>8. ASSUME NEW c \in Conns, PutSmall(c) PROVE Goal
  BY <1>8, PutKeeps
<1>9. ASSUME NEW c \in Conns, NEW t \in Texts, ReadFirst(c, t) PROVE Goal
  BY <1>9, ReadKeeps
<1>10. ASSUME UNCHANGED allVars PROVE Goal
  <2>1. UNCHANGED <<stage, proto, readVars>> /\ UNCHANGED <<buf, first>>
    BY <1>10 DEF allVars, vars, serviceVars, readVars
  <2>2. DetectionRight' /\ Classified'
    BY <2>1 DEF ReadInv, DetectionRight, Classified
  <2>3. QED
    BY <1>2, <2>1, <2>2
<1>11. Goal
  BY <1>3, <1>4, <1>5, <1>6, <1>7, <1>8, <1>9, <1>10 DEF ReadNext
<1>12. TunnelInv'
  BY StepsOfTunnel, TunnelStep DEF ReadInv
<1>13. QED
  BY <1>11, <1>12 DEF ReadInv

----------------------------------------------------------------------------
\* The invariant holds throughout.
LEMMA ReadHolds == ReadSpec => []ReadInv
BY ReadInitInv, ReadStep, PTL DEF ReadSpec

\* Buffers, and what is read into them, keep their types.
THEOREM ReadTypeCorrect == ReadSpec => []ReadTypeOK
<1>1. ReadInv => ReadTypeOK
  BY DEF ReadInv, TunnelInv, ServiceInv, ProtoTypeOK, TypeOK, BufTypeOK, ContentOK, Texts0, ReadTypeOK
<1>2. QED
  BY <1>1, ReadHolds, PTL

\* From 4 bytes on handleTCP takes a client for what its own bytes say.
THEOREM DetectedRight == ReadSpec => []DetectionRight
<1>1. ReadInv => DetectionRight
  BY DEF ReadInv
<1>2. QED
  BY <1>1, ReadHolds, PTL

\* The bytes of an earlier connection never lead to a dial.
THEOREM StaleHarmless == ReadSpec => []StaleNeverDials
<1>1. ReadInv => StaleNeverDials
  <2> SUFFICES ASSUME ReadInv, NEW c \in Conns, stage[c] = "dialing" \/ target[c]
               PROVE  proto[c] = Kind(first[c]) /\ Len(first[c]) >= 1
    BY DEF StaleNeverDials
  <2>1. stage[c] \in Switched
    BY DEF ReadInv, TunnelInv, ServiceInv, Tidy, NothingLeftOpen, Switched
  <2>2. first[c] # <<>> /\ proto[c] = Kind(first[c])
    BY <2>1 DEF ReadInv, Classified
  <2>3. first[c] \in Texts
    BY <2>2 DEF ReadInv, BufTypeOK, Texts0
  <2>4. QED
    BY <2>2, <2>3 DEF BufLen
<1>2. QED
  BY <1>1, ReadHolds, PTL

\* While the target is dialled, nobody else writes into the handler's buffer.
THEOREM OwnBytesForwarded == ReadSpec => []ForwardsOwnBytes
<1>1. ReadInv => ForwardsOwnBytes
  BY DEF ReadInv, Classified, Switched, OwnFront, ForwardsOwnBytes
<1>2. QED
  BY <1>1, ReadHolds, PTL

\* With the buffers, no way out of a handler leaves a socket open.
THEOREM SocketsClosedWithBuffers == ReadSpec => []NothingLeftOpen
<1>1. ReadInv => NothingLeftOpen
  BY DEF ReadInv, TunnelInv, ServiceInv, Tidy
<1>2. QED
  BY <1>1, ReadHolds, PTL

\* Every buffer comes back to the pool, once, and not before its handler is done
\* with it: handlers never share one and never need more than there are slots.
THEOREM BuffersComeBack == ReadSpec => []BuffersOwned
<1>1. ReadInv => BuffersOwned
  <2> SUFFICES ASSUME ReadInv, NEW c \in Conns
               PROVE  /\ stage[c] \in {"negotiating", "dialing", "replying", "relaying"} => buf[c] # NoBuffer
                      /\ buf[c] # NoBuffer => c \in Holding
    BY DEF ReadInv, Owned, BuffersOwned
  <2>1. stage[c] \in Switched => buf[c] # NoBuffer
    BY DEF ReadInv, Classified, OwnFront
  <2>2. buf[c] # NoBuffer => stage[c] \in Switched \cup {"reading", "release"}
    BY DEF ReadInv, Classified
  <2>3. QED
    BY <2>1, <2>2 DEF Switched, Holding, Handshake
<1>2. QED
  BY <1>1, ReadHolds, PTL
============================================================================
