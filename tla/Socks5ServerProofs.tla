------------------------ MODULE Socks5ServerProofs ------------------------
(* Theorems about Socks5Server, for any connections, limit and log size. *)
EXTENDS Socks5Server, ConnServiceProofs

Entry == Conns \X {"connected", "failed"}

LogTypeOK == connLog \in Seq(Entry)

HistoryTypeOK == counted \subseteq Conns /\ relayed \subseteq Conns

ServerInv == ServiceInv /\ LogTypeOK /\ HistoryTypeOK

\* The steps of handle stay within the service.
LEMMA HandlerIsHandled ==
  ASSUME ServerInv, NEW c \in Conns,
         HandshakeFails(c) \/ Proceed(c) \/ DialStep(c) \/ RelayEnds(c)
  PROVE  Handled(c)
<1> USE DEF ServerInv, ServiceInv, ServiceTypeOK, Handled, Goto, sockets, counters, InService, Handshake
<1>1. CASE HandshakeFails(c)
  <2>1. stage[c] \in {"reading", "negotiating"} /\ target[c] = FALSE
    BY <1>1 DEF HandshakeFails, Tidy, NothingLeftOpen
  <2>2. stage' = [stage EXCEPT ![c] = "release"] /\ failed' \in Nat
        /\ UNCHANGED <<sockets, slots, active, total, rejected>>
    BY <1>1, <2>1 DEF HandshakeFails, Return, CountFailure
  <2>3. QED
    BY <2>1, <2>2
<1>2. CASE Proceed(c)
  <2>1. stage[c] \in {"reading", "negotiating"} /\ target[c] = FALSE
    BY <1>2 DEF Proceed, Tidy, NothingLeftOpen
  <2>2. \E s \in {"negotiating", "dialing"} : stage' = [stage EXCEPT ![c] = s]
    BY <1>2 DEF Proceed
  <2>3. UNCHANGED <<sockets, slots, counters>>
    BY <1>2 DEF Proceed
  <2>4. QED
    BY <2>1, <2>2, <2>3
<1>3. CASE DialFails(c)
  <2>1. stage[c] = "dialing" /\ target[c] = FALSE
    BY <1>3 DEF DialFails, Tidy, NothingLeftOpen
  <2>2. stage' = [stage EXCEPT ![c] = "release"] /\ failed' \in Nat
        /\ UNCHANGED <<sockets, slots, active, total, rejected>>
    BY <1>3, <2>1 DEF DialFails, Return, CountFailure
  <2>3. QED
    BY <2>1, <2>2
<1>4. CASE DialWorks(c)
  <2>1. stage[c] = "dialing" /\ stage' = [stage EXCEPT ![c] = "replying"]
        /\ target' = [target EXCEPT ![c] = TRUE] /\ UNCHANGED <<client, slots, counters>>
    BY <1>4 DEF DialWorks, Dial
  <2>2. stage'[c] = "replying"
    BY <2>1
  <2>3. QED
    BY <2>1, <2>2
<1>5. CASE ReplyStep(c)
  <2>1. stage[c] = "replying" /\ UNCHANGED <<sockets, slots, counters>>
    BY <1>5 DEF ReplyStep, Reply
  <2>2. PICK s \in {"relaying", "closeTarget", "release"} :
          stage' = [stage EXCEPT ![c] = s] /\ (s = "release" => ~target[c])
    BY <1>5 DEF ReplyStep, Reply, Return
  <2>3. stage'[c] = s
    BY <2>2
  <2>4. QED
    BY <2>1, <2>2, <2>3
<1>6. CASE RelayEnds(c)
  BY <1>6, RelayReturnsIsHandled DEF RelayEnds
<1>7. QED
  BY <1>1, <1>2, <1>3, <1>4, <1>5, <1>6 DEF DialStep

\* Cutting the log leaves a sequence of entries.
LEMMA LogTyped ==
  ASSUME LogTypeOK, NEW c \in Conns, NEW status \in {"connected", "failed"}, AddConnLog(c, status)
  PROVE  LogTypeOK'
<1> DEFINE longer == Append(connLog, <<c, status>>)
           excess == Len(longer) - LogSize
<1>1. longer \in Seq(Entry) /\ Len(longer) \in Nat
  BY DEF LogTypeOK, Entry
<1>2. excess > 0 => SubSeq(longer, excess + 1, Len(longer)) \in Seq(Entry)
  BY <1>1, LogAssumption
<1>3. QED
  BY <1>1, <1>2 DEF AddConnLog, LogTypeOK

LEMMA LogStep == LogTypeOK /\ [Next]_vars => LogTypeOK'
<1> SUFFICES ASSUME LogTypeOK, [Next]_vars PROVE LogTypeOK'
  OBVIOUS
<1>1. ASSUME NEW c \in Conns, AddConnLog(c, "failed") \/ AddConnLog(c, "connected") PROVE LogTypeOK'
  BY <1>1, LogTyped
<1>2. CASE UNCHANGED connLog
  BY <1>2 DEF LogTypeOK
<1>3. QED
  BY <1>1, <1>2 DEF Next, AcceptStep, HandshakeFails, Proceed, DialStep, DialFails, DialWorks,
     ReplyStep, RelayEnds, DeferStep, vars

LEMMA HistoryStep == HistoryTypeOK /\ [Next]_vars => HistoryTypeOK'
BY DEF HistoryTypeOK, Next, AcceptStep, HandshakeFails, CountFailure, Proceed, DialStep, DialFails,
   DialWorks, ReplyStep, RelayEnds, DeferStep, vars, history

Past == Leaving \cup {"done"}

Longer(c, status) == Append(connLog, <<c, status>>)

\* The log is the end of the longer one: entry i was entry i + e, and e is at
\* most the length by which the bound is exceeded.
LEMMA LogCut ==
  ASSUME LogTypeOK, Len(connLog) <= LogSize, NEW c \in Conns,
         NEW status \in {"connected", "failed"}, AddConnLog(c, status)
  PROVE  \E e \in Nat :
           /\ Len(connLog') = Len(connLog) + 1 - e
           /\ Len(connLog') <= LogSize
           /\ \A i \in 1..Len(connLog') : connLog'[i] = Longer(c, status)[i + e]
<1> DEFINE longer == Longer(c, status)
           excess == Len(longer) - LogSize
<1>1. longer \in Seq(Entry) /\ Len(longer) = Len(connLog) + 1 /\ Len(connLog) \in Nat
  BY DEF LogTypeOK, Entry, Longer
<1>2. CASE excess > 0
  <2>1. connLog' = SubSeq(longer, excess + 1, Len(longer))
    BY <1>2 DEF AddConnLog, Longer
  <2>2. excess = 1 /\ Len(longer) = LogSize + 1
    BY <1>1, <1>2, LogAssumption
  <2> HIDE DEF longer, excess
  <2>3. Len(connLog') = LogSize
    BY <1>1, <2>1, <2>2, LogAssumption
  <2>4. \A i \in 1..LogSize : connLog'[i] = longer[i + 1]
    BY <1>1, <2>1, <2>2, LogAssumption
  <2>5. Len(connLog') = Len(connLog) + 1 - 1 /\ Len(connLog') <= LogSize
    BY <1>1, <2>2, <2>3, LogAssumption
  <2>6. \A i \in 1..Len(connLog') : connLog'[i] = Longer(c, status)[i + 1]
    BY <2>3, <2>4 DEF longer
  <2>7. QED
    BY <2>5, <2>6
<1>3. CASE ~(excess > 0)
  <2>1. connLog' = longer
    BY <1>3 DEF AddConnLog, Longer
  <2>2. Len(longer) <= LogSize
    BY <1>1, <1>3, LogAssumption
  <2> HIDE DEF longer
  <2>3. \A i \in 1..Len(connLog') : connLog'[i] = longer[i + 0]
    BY <2>1, <1>1
  <2>4. QED
    BY <1>1, <2>1, <2>2, <2>3 DEF longer
<1>4. QED
  BY <1>2, <1>3

Unique == \A i, j \in 1..Len(connLog) : connLog[i][1] = connLog[j][1] => i = j

\* What LogFaithful says of an entry.
EntryTrue(entry) ==
  /\ stage[entry[1]] \in Past
  /\ entry[2] = "failed" => entry[1] \in counted \ relayed
  /\ entry[2] # "failed" => entry[1] \in relayed \ counted

AllTrue == \A i \in 1..Len(connLog) : EntryTrue(connLog[i])

\* The history follows the stages: only a handler on its way out has counted
\* its connection, only one that reached the relay is relayed, and none is both.
HistoryTrue ==
  /\ IsFiniteSet(counted) /\ failed = Cardinality(counted)
  /\ \A c \in Conns :
       /\ c \in counted => stage[c] \in Past
       /\ c \in relayed => stage[c] \in Past \cup {"relaying"}
       /\ stage[c] = "relaying" => c \in relayed

\* LogFaithful, with what it needs of the types and of the handlers.
LogInv ==
  /\ LogTypeOK /\ Len(connLog) <= LogSize /\ Unique /\ AllTrue
  /\ HistoryTrue

\* A connection that is over, or leaving, stays so, and so does its history.
StaysPast ==
  \A d \in Conns : stage[d] \in Past =>
    /\ stage'[d] \in Past
    /\ d \in counted <=> d \in counted'
    /\ d \in relayed <=> d \in relayed'

\* The entry of a connection that was not over before is the only one of it.
LEMMA EntryAdded ==
  ASSUME LogInv, StaysPast, NEW c \in Conns, NEW status \in {"connected", "failed"},
         AddConnLog(c, status), stage[c] \notin Past, EntryTrue(<<c, status>>)'
  PROVE  LogTypeOK' /\ Len(connLog') <= LogSize /\ Unique' /\ AllTrue'
<1>1. LogTypeOK' /\ connLog \in Seq(Entry) /\ Len(connLog) \in Nat
  BY LogTyped DEF LogInv, LogTypeOK
<1>2. PICK e \in Nat :
        /\ Len(connLog') = Len(connLog) + 1 - e
        /\ Len(connLog') <= LogSize
        /\ \A i \in 1..Len(connLog') : connLog'[i] = Longer(c, status)[i + e]
  BY LogCut DEF LogInv
<1> DEFINE n == Len(connLog)  k == Len(connLog')
<1>3. \A i \in 1..(n + 1) : Longer(c, status)[i] = IF i = n + 1 THEN <<c, status>> ELSE connLog[i]
  BY <1>1 DEF Longer
<1>4. \A i \in 1..k : i + e \in 1..(n + 1)
  BY <1>1, <1>2
<1>4a. ASSUME NEW i \in 1..k, i + e # n + 1 PROVE i + e \in 1..n
  <2>1. i + e \in 1..(n + 1)
    BY <1>4
  <2>2. QED
    BY <2>1, <1>4a, <1>1
<1>5. \A i \in 1..k : connLog'[i] = IF i + e = n + 1 THEN <<c, status>> ELSE connLog[i + e]
  BY <1>2, <1>3, <1>4
<1>6. \A i \in 1..n : connLog[i] \in Entry /\ connLog[i][1] \in Conns /\ connLog[i][1] # c
  BY <1>1 DEF LogInv, AllTrue, EntryTrue, Entry
<1>7. ASSUME NEW i \in 1..k PROVE EntryTrue(connLog[i])'
  <2>1. CASE i + e = n + 1
    <3>1. connLog'[i] = <<c, status>>
      BY <2>1, <1>5
    <3>2. QED
      BY <3>1 DEF EntryTrue
  <2>2. CASE i + e # n + 1
    <3>1. i + e \in 1..n
      BY <1>4a, <2>2
    <3>2. connLog'[i] = connLog[i + e]
      BY <1>5, <2>2
    <3>3. EntryTrue(connLog[i + e]) /\ connLog[i + e][1] \in Conns
      BY <3>1, <1>6 DEF LogInv, AllTrue
    <3>4. QED
      BY <3>2, <3>3 DEF EntryTrue, StaysPast
  <2>3. QED
    BY <2>1, <2>2
<1>8. ASSUME NEW i \in 1..k, NEW j \in 1..k, connLog'[i][1] = connLog'[j][1] PROVE i = j
  <2>1. CASE i + e = n + 1 /\ j + e = n + 1
    BY <2>1, <1>1, <1>2
  <2>2. CASE i + e # n + 1 /\ j + e # n + 1
    <3>1. i + e \in 1..n /\ j + e \in 1..n
      BY <1>4a, <2>2
    <3>2. connLog[i + e][1] = connLog[j + e][1]
      BY <1>5, <1>8, <2>2
    <3>3. i + e = j + e
      BY <3>1, <3>2 DEF LogInv, Unique
    <3>4. QED
      BY <3>3, <1>2
  <2>3. CASE i + e = n + 1 /\ j + e # n + 1
    <3>1. j + e \in 1..n
      BY <1>4a, <2>3
    <3>2. QED
      BY <3>1, <1>5, <1>6, <1>8, <2>3
  <2>4. CASE i + e # n + 1 /\ j + e = n + 1
    <3>1. i + e \in 1..n
      BY <1>4a, <2>4
    <3>2. QED
      BY <3>1, <1>5, <1>6, <1>8, <2>4
  <2>5. QED
    BY <2>1, <2>2, <2>3, <2>4
<1>9. QED
  BY <1>1, <1>2, <1>7, <1>8 DEF Unique, AllTrue

\* A handler that counts its connection was not on its way out.
LEMMA FailureCounted ==
  ASSUME HistoryTypeOK, HistoryTrue, NEW c \in Conns, stage[c] \notin Past, CountFailure(c)
  PROVE  IsFiniteSet(counted') /\ failed' = Cardinality(counted')
<1>1. c \notin counted
  BY DEF HistoryTrue
<1>2. QED
  BY <1>1, FS_AddElement DEF HistoryTrue, CountFailure

\* The steps of the loop and of the handlers never lead back out of Past, and
\* keep the history true.
LEMMA HistoryKept ==
  ASSUME ServerInv, HistoryTrue, [Next]_vars
  PROVE  StaysPast /\ HistoryTrue'
<1>1. stage \in [Conns -> Stage] /\ counted \subseteq Conns /\ relayed \subseteq Conns
  BY DEF ServerInv, ServiceInv, ServiceTypeOK, HistoryTypeOK
<1> USE DEF Past, Stage, Loop, Handshake, Leaving, Over, Goto, Return, history, counters
<1>2. CASE UNCHANGED vars
  BY <1>2 DEF StaysPast, HistoryTrue, vars, serviceVars
<1>3. ASSUME NEW c \in Conns, NEW s \in Stage, stage' = [stage EXCEPT ![c] = s],
             s # "relaying", stage[c] \in Past \cup {"relaying"} => s \in Past,
             UNCHANGED <<failed, history>>
      PROVE  StaysPast /\ HistoryTrue'
  BY <1>1, <1>3 DEF StaysPast, HistoryTrue
<1>4. ASSUME NEW c \in Conns, NEW s \in Past, stage' = [stage EXCEPT ![c] = s],
             stage[c] \in Handshake, CountFailure(c), UNCHANGED relayed
      PROVE  StaysPast /\ HistoryTrue'
  <2>1. stage[c] \notin Past /\ stage'[c] \in Past
    BY <1>1, <1>4
  <2>2. IsFiniteSet(counted') /\ failed' = Cardinality(counted')
    BY <1>1, <1>4, <2>1, FailureCounted DEF HistoryTypeOK
  <2>3. StaysPast
    BY <1>1, <1>4, <2>1 DEF StaysPast, CountFailure
  <2>4. QED
    BY <1>1, <1>4, <2>2, <2>3 DEF HistoryTrue, CountFailure
<1>5. ASSUME NEW c \in Conns, AcceptStep(c) PROVE StaysPast /\ HistoryTrue'
  BY <1>1, <1>3, <1>5 DEF AcceptStep, Accept, LoopStep, Admit, Reject, Count
<1>6. ASSUME NEW c \in Conns, HandshakeFails(c) PROVE StaysPast /\ HistoryTrue'
  <2>1. PICK s \in Past : s # "relaying" /\ stage' = [stage EXCEPT ![c] = s]
    BY <1>6 DEF HandshakeFails
  <2>2. stage[c] \in {"reading", "negotiating"} /\ UNCHANGED relayed
    BY <1>6 DEF HandshakeFails
  <2>3. CASE CountFailure(c)
    BY <1>4, <2>1, <2>2, <2>3
  <2>4. CASE UNCHANGED <<failed, counted>>
    BY <1>3, <2>1, <2>2, <2>4
  <2>5. QED
    BY <1>6, <2>3, <2>4 DEF HandshakeFails
<1>7. ASSUME NEW c \in Conns, Proceed(c) \/ DialWorks(c) PROVE StaysPast /\ HistoryTrue'
  BY <1>1, <1>3, <1>7 DEF Proceed, DialWorks, Dial
<1>8. ASSUME NEW c \in Conns, DialFails(c) PROVE StaysPast /\ HistoryTrue'
  <2>1. PICK s \in Past : stage' = [stage EXCEPT ![c] = s]
    BY <1>8 DEF DialFails
  <2>2. stage[c] \in Handshake /\ CountFailure(c) /\ UNCHANGED relayed
    BY <1>8 DEF DialFails
  <2>3. QED
    BY <1>4, <2>1, <2>2
<1>9. ASSUME NEW c \in Conns, ReplyStep(c) PROVE StaysPast /\ HistoryTrue'
  <2>1. stage[c] = "replying" /\ UNCHANGED <<failed, counted>>
    BY <1>9 DEF ReplyStep, Reply
  <2>2. CASE stage'[c] = "relaying"
    <3>1. stage' = [stage EXCEPT ![c] = "relaying"] /\ relayed' = relayed \cup {c}
      BY <1>1, <1>9, <2>2 DEF ReplyStep, Reply
    <3>2. QED
      BY <1>1, <2>1, <3>1 DEF StaysPast, HistoryTrue
  <2>3. CASE stage'[c] # "relaying"
    <3>1. PICK s \in Past : stage' = [stage EXCEPT ![c] = s]
      BY <1>1, <1>9, <2>3 DEF ReplyStep, Reply
    <3>2. UNCHANGED history
      BY <1>9, <2>3 DEF ReplyStep
    <3>3. QED
      BY <1>3, <2>1, <3>1, <3>2
  <2>4. QED
    BY <2>2, <2>3
<1>10. ASSUME NEW c \in Conns, RelayEnds(c) PROVE StaysPast /\ HistoryTrue'
  BY <1>1, <1>3, <1>10 DEF RelayEnds, RelayReturns
<1>11. ASSUME NEW c \in Conns, DeferStep(c) PROVE StaysPast /\ HistoryTrue'
  BY <1>1, <1>3, <1>11 DEF DeferStep, LeaveStep, CloseTarget, Release, CloseClient, Uncount
<1>12. QED
  BY <1>2, <1>5, <1>6, <1>7, <1>8, <1>9, <1>10, <1>11 DEF Next, DialStep

\* Each entry is true when it is added, and stays true.
LEMMA LogKept == ServerInv /\ LogInv /\ [Next]_vars => LogInv'
<1> SUFFICES ASSUME ServerInv, LogInv, [Next]_vars PROVE LogInv'
  OBVIOUS
<1>1. StaysPast /\ HistoryTrue'
  BY HistoryKept DEF LogInv
<1>2. ASSUME UNCHANGED connLog PROVE LogInv'
  <2>1. LogTypeOK' /\ Len(connLog') <= LogSize /\ Unique'
    BY <1>2 DEF LogInv, LogTypeOK, Unique
  <2>2. \A i \in 1..Len(connLog) : connLog[i][1] \in Conns
    BY DEF LogInv, LogTypeOK, Entry
  <2>3. AllTrue'
    BY <1>1, <1>2, <2>2 DEF LogInv, AllTrue, EntryTrue, StaysPast
  <2>4. QED
    BY <1>1, <2>1, <2>3 DEF LogInv
<1>3. stage \in [Conns -> Stage]
  BY DEF ServerInv, ServiceInv, ServiceTypeOK
<1>4. ASSUME NEW c \in Conns, DialFails(c) PROVE LogInv'
  <2>1. AddConnLog(c, "failed") /\ stage[c] = "dialing" /\ stage'[c] \in Past
    BY <1>3, <1>4 DEF DialFails, Return, Goto, Past, Leaving
  <2>2. stage[c] \notin Past /\ c \notin relayed /\ c \in counted' /\ relayed' = relayed
    BY <1>4, <2>1 DEF DialFails, CountFailure, Past, Leaving, LogInv, HistoryTrue
  <2>3. EntryTrue(<<c, "failed">>)'
    BY <2>1, <2>2 DEF EntryTrue
  <2>4. QED
    BY <1>1, <2>1, <2>2, <2>3, EntryAdded DEF LogInv
<1>5. ASSUME NEW c \in Conns, RelayEnds(c) PROVE LogInv'
  <2>1. AddConnLog(c, "connected") /\ stage[c] = "relaying" /\ stage'[c] \in Past
    BY <1>3, <1>5 DEF RelayEnds, RelayReturns, Return, Goto, Past, Leaving
  <2>2. stage[c] \notin Past /\ c \in relayed' /\ c \notin counted'
    BY <1>5, <2>1 DEF RelayEnds, history, Past, Leaving, LogInv, HistoryTrue
  <2>3. EntryTrue(<<c, "connected">>)'
    BY <2>1, <2>2 DEF EntryTrue
  <2>4. QED
    BY <1>1, <2>1, <2>2, <2>3, EntryAdded DEF LogInv
<1>6. QED
  BY <1>2, <1>4, <1>5 DEF Next, AcceptStep, HandshakeFails, Proceed, DialStep, DialWorks, ReplyStep,
     DeferStep, vars

LEMMA ServerStep == ServerInv /\ [Next]_vars => ServerInv' /\ [Limited!Next]_Phase
<1> SUFFICES ASSUME ServerInv, [Next]_vars PROVE ServiceInv' /\ [Limited!Next]_Phase
  BY LogStep, HistoryStep DEF ServerInv
<1> USE DEF ServerInv
<1>1. ASSUME NEW c \in Conns, AcceptStep(c) PROVE ServiceInv' /\ [Limited!Next]_Phase
  BY <1>1, LoopPreserves DEF AcceptStep
<1>2. ASSUME NEW c \in Conns, DeferStep(c) PROVE ServiceInv' /\ [Limited!Next]_Phase
  BY <1>2, LeavePreserves DEF DeferStep
<1>3. ASSUME NEW c \in Conns, HandshakeFails(c) \/ Proceed(c) \/ DialStep(c) \/ RelayEnds(c)
      PROVE  ServiceInv' /\ [Limited!Next]_Phase
  BY <1>3, HandlerIsHandled, HandledStep
<1>4. CASE UNCHANGED vars
  BY <1>4, IdlePreserves DEF vars
<1>5. QED
  BY <1>1, <1>2, <1>3, <1>4 DEF Next

LEMMA ServerInit == Init => ServerInv /\ Limited!Init
BY InitService DEF Init, ServerInv, LogTypeOK, HistoryTypeOK

LEMMA ServerHolds == Spec => []ServerInv
BY ServerInit, ServerStep, PTL DEF Spec

\* The variables of the SOCKS5 server hold values of their Go types; every
\* element of the log is an entry.
THEOREM TypeCorrect == Spec => []TypeOK
<1>1. ServerInv => TypeOK
  BY DEF ServerInv, ServiceInv, LogTypeOK, HistoryTypeOK, Entry, TypeOK
<1>2. QED
  BY <1>1, ServerHolds, PTL

\* The log and ConnsFailed tell the same story: one entry of a connection at
\* most, none before its outcome is known, "failed" only of one that was counted
\* once and never relayed, "connected" only of one that was relayed.
THEOREM LogTrue == Spec => []LogFaithful
<1>1. Init => LogInv
  <2> SUFFICES ASSUME Init PROVE LogInv
    OBVIOUS
  <2>1. LogTypeOK /\ Len(connLog) = 0
    BY ServerInit DEF ServerInv, Init
  <2>2. HistoryTrue
    BY FS_EmptySet DEF HistoryTrue, Init, ServiceInit
  <2>3. QED
    BY <2>1, <2>2, LogAssumption DEF LogInv, Unique, AllTrue
<1>2. LogInv => LogFaithful
  BY DEF LogInv, LogFaithful, Unique, AllTrue, EntryTrue, Past, HistoryTrue
<1>3. QED
  BY <1>1, <1>2, ServerHolds, LogKept, PTL DEF Spec

\* The semaphore and the counters agree with the goroutines on every way into
\* and out of handle.
THEOREM AccountingExact == Spec => []Accounting
<1>1. ServerInv => Accounting
  BY DEF ServerInv, ServiceInv
<1>2. QED
  BY <1>1, ServerHolds, PTL

\* No way out of handle leaves a socket open.
THEOREM SocketsClosed == Spec => []NothingLeftOpen
<1>1. ServerInv => NothingLeftOpen
  BY DEF ServerInv, ServiceInv, Tidy
<1>2. QED
  BY <1>1, ServerHolds, PTL

\* The SOCKS5 server implements LimitedService.
THEOREM LimitKept == Spec => KeepsLimit
BY ServerInit, ServerStep, ServerHolds, PTL DEF Spec, KeepsLimit, Limited!Spec
============================================================================
