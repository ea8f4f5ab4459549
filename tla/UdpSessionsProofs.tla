------------------------ MODULE UdpSessionsProofs ------------------------
(* Theorems about UdpSessions, for any sessions, addresses and timeouts. *)
EXTENDS UdpSessions, FiniteSetTheorems, TLAPS

(***************************************************************************)
(* The types.  The clock of a session stays in range only because time     *)
(* does not pass a handler by (Punctual), each stage with its own limit.   *)
(***************************************************************************)
ClockBound ==
  /\ \A s \in Sessions : hpc[s] = "none" => clock[s] = 0
  /\ \A s \in Sessions : hpc[s] \in {"dialled", "arming", "failed"} => clock[s] <= MaxLag
  /\ mpc = "dialled" => hpc[msess] = "dialled"

TypeInv == TypeOK /\ ClockBound

LEMMA InitTypeInv == Init => TypeInv
BY UdpAssumption DEF Init, TypeInv, TypeOK, ClockBound, LoopState, HandlerState

LEMMA TypeInvStep == TypeInv /\ [Next]_vars => TypeInv'
<1> SUFFICES ASSUME TypeInv, [Next]_vars PROVE TypeInv'
  OBVIOUS
<1> USE UdpAssumption DEF TypeInv
<1>1. ASSUME NEW a \in Addrs, Receive(a) PROVE TypeInv'
  BY <1>1 DEF Receive, TypeOK, ClockBound, LoopState, sessVars
<1>2. CASE Forward
  BY <1>2 DEF Forward, TypeOK, ClockBound, LoopState
<1>3. CASE DialFails
  BY <1>3 DEF DialFails, TypeOK, ClockBound, LoopState, sessVars
<1>4. ASSUME NEW s \in Sessions, Dial(s) PROVE TypeInv'
  <2>1. maddr \in Addrs /\ mpc' = "dialled" /\ msess' = s /\ maddr' = maddr /\ table' = table
    BY <1>4 DEF Dial, TypeOK
  <2>2. hpc' \in [Sessions -> HandlerState] /\ addr' \in [Sessions -> Addrs \cup {NoSess}]
        /\ open' \in [Sessions -> BOOLEAN] /\ active' \in Int
    BY <1>4, <2>1 DEF Dial, TypeOK, HandlerState
  <2>3. idle' = idle /\ clock' = clock /\ swept' = swept
    BY <1>4 DEF Dial
  <2>4. TypeOK'
    BY <2>1, <2>2, <2>3 DEF TypeOK, LoopState
  <2>5. QED
    BY <1>4, <2>4 DEF Dial, ClockBound, TypeOK
<1>5. CASE Insert
  BY <1>5 DEF Insert, TypeOK, ClockBound, LoopState, HandlerState
<1>6. ASSUME NEW s \in Sessions, Arm(s) PROVE TypeInv'
  BY <1>6 DEF Arm, TypeOK, ClockBound, HandlerState, loop
<1>7. ASSUME NEW s \in Sessions, Reply(s) PROVE TypeInv'
  BY <1>7 DEF Reply, TypeOK, ClockBound, HandlerState, loop
<1>8. ASSUME NEW s \in Sessions, ReadEnds(s) PROVE TypeInv'
  <2>1. Overdue(s) \in 0..MaxLag
    BY DEF Overdue, TypeOK
  <2>2. QED
    BY <1>8, <2>1 DEF ReadEnds, TypeOK, ClockBound, HandlerState, loop
<1>9. ASSUME NEW s \in Sessions, Unmap(s) PROVE TypeInv'
  BY <1>9 DEF Unmap, DeleteKey, TypeOK, ClockBound, HandlerState, loop
<1>10. ASSUME NEW s \in Sessions, Finish(s) PROVE TypeInv'
  BY <1>10 DEF Finish, CountDown, TypeOK, ClockBound, HandlerState, loop
<1>11. CASE Sweep
  <2>1. /\ table' \in [Addrs -> Sessions \cup {NoSess}] /\ open' \in [Sessions -> BOOLEAN]
        /\ swept' \subseteq Sessions
    BY <1>11 DEF Sweep, EndExpired, Expired, TypeOK
  <2>2. active' \in Int
    <3>1. Cardinality(Expired) \in Nat
      BY FS_Subset, FS_CardinalityType DEF Expired
    <3>2. QED
      BY <1>11, <3>1 DEF Sweep, EndExpired, TypeOK
  <2>3. QED
    BY <1>11, <2>1, <2>2 DEF Sweep, TypeOK, ClockBound, loop
<1>12. CASE Tick
  BY <1>12 DEF Tick, Punctual, Aging, TypeOK, ClockBound, HandlerState, loop
<1>13. CASE UNCHANGED vars
  BY <1>13 DEF vars, loop, sessVars, TypeOK, ClockBound
<1>14. QED
  BY <1>1, <1>2, <1>3, <1>4, <1>5, <1>6, <1>7, <1>8, <1>9, <1>10, <1>11, <1>12, <1>13
  DEF Next, LoopStep, HandlerStep, ReadTimesOut, ReadClosed, ReadRefused

LEMMA TypeInvHolds == Spec => []TypeInv
BY InitTypeInv, TypeInvStep, PTL DEF Spec

\* Every variable keeps its type: the receive loop always has a session when
\* it uses one, and idle times and clocks stay below the limits they are
\* compared with.
THEOREM TypeCorrect == Spec => []TypeOK
<1>1. TypeInv => TypeOK
  BY DEF TypeInv
<1>2. QED
  BY <1>1, TypeInvHolds, PTL

(***************************************************************************)
(* The map, with no assumption on time.                                    *)
(***************************************************************************)
\* The session between Dial and Insert belongs to the receive loop alone.
DialledOwned ==
  /\ mpc = "dialled" => addr[msess] = maddr /\ open[msess]
  /\ \A s \in Sessions : hpc[s] = "dialled" => mpc = "dialled" /\ msess = s

MapInv == MapEntryOpen /\ InsertNeverReplaces /\ DialledOwned

LEMMA MapInvStep == TypeInv /\ MapInv /\ [Next]_vars => MapInv'
<1> SUFFICES ASSUME TypeInv, MapInv, [Next]_vars PROVE MapInv'
  OBVIOUS
<1> USE UdpAssumption DEF TypeInv, MapInv
<1>1. ASSUME NEW a \in Addrs, Receive(a) PROVE MapInv'
  BY <1>1 DEF Receive, TypeOK, MapEntryOpen, InsertNeverReplaces, DialledOwned, sessVars
<1>2. CASE Forward \/ DialFails
  BY <1>2 DEF Forward, DialFails, TypeOK, MapEntryOpen, InsertNeverReplaces, DialledOwned, sessVars
<1>3. ASSUME NEW s \in Sessions, Dial(s) PROVE MapInv'
  <2>1. \A a \in Addrs : table[a] # s
    BY <1>3 DEF Dial, MapEntryOpen, TypeOK
  <2>2. MapEntryOpen'
    BY <1>3, <2>1 DEF Dial, MapEntryOpen, TypeOK
  <2>3. DialledOwned'
    BY <1>3 DEF Dial, DialledOwned, TypeOK
  <2>4. QED
    BY <1>3, <2>2, <2>3 DEF Dial, InsertNeverReplaces
<1>4. CASE Insert
  <2>1. msess \in Sessions /\ maddr \in Addrs /\ hpc[msess] = "dialled" /\ msess # NoSess
    BY <1>4 DEF Insert, TypeOK, ClockBound
  <2>2. MapEntryOpen'
    BY <1>4, <2>1 DEF Insert, MapEntryOpen, DialledOwned, TypeOK
  <2>3. DialledOwned'
    BY <1>4, <2>1 DEF Insert, DialledOwned, TypeOK
  <2>4. QED
    BY <1>4, <2>2, <2>3 DEF Insert, InsertNeverReplaces
<1>5. ASSUME NEW s \in Sessions, Arm(s) \/ Reply(s) \/ ReadEnds(s) PROVE MapInv'
  <2>1. /\ hpc[s] \in {"arming", "reading", "failed"} /\ hpc'[s] \in {"arming", "reading", "failed"}
        /\ \A t \in Sessions : t # s => hpc'[t] = hpc[t]
        /\ UNCHANGED <<table, loop, addr, open>>
    BY <1>5 DEF Arm, Reply, ReadEnds, TypeOK
  <2>2. MapEntryOpen'
    BY <2>1 DEF MapEntryOpen, TypeOK
  <2>3. QED
    BY <2>1, <2>2 DEF InsertNeverReplaces, DialledOwned, loop
<1>6. ASSUME NEW s \in Sessions, Unmap(s) PROVE MapInv'
  <2>1. table' = [table EXCEPT ![addr[s]] = NoSess] /\ UNCHANGED <<loop, addr, open>>
        /\ hpc' = [hpc EXCEPT ![s] = "unmapped"] /\ hpc[s] = "failed"
    BY <1>6 DEF Unmap, DeleteKey
  <2>2. \A a \in Addrs : table'[a] # NoSess => a # addr[s] /\ table'[a] = table[a]
    BY <2>1 DEF TypeOK
  <2>3. \A a \in Addrs : table'[a] # NoSess => table[a] # s
    BY <2>2 DEF MapEntryOpen
  <2>4. MapEntryOpen'
    BY <2>1, <2>2, <2>3 DEF MapEntryOpen, TypeOK
  <2>5. InsertNeverReplaces'
    BY <2>1, <2>2 DEF InsertNeverReplaces, loop, TypeOK
  <2>6. QED
    BY <2>1, <2>4, <2>5 DEF DialledOwned, loop, TypeOK, ClockBound
<1>7. ASSUME NEW s \in Sessions, Finish(s) PROVE MapInv'
  <2>1. \A a \in Addrs : table[a] # s
    BY <1>7 DEF Finish, MapEntryOpen, TypeOK
  <2>2. MapEntryOpen'
    BY <1>7, <2>1 DEF Finish, MapEntryOpen, TypeOK, loop
  <2>3. DialledOwned'
    BY <1>7 DEF Finish, DialledOwned, TypeOK, ClockBound, loop
  <2>4. QED
    BY <1>7, <2>2, <2>3 DEF Finish, InsertNeverReplaces, loop
<1>8. CASE Sweep
  <2>1. UNCHANGED <<loop, hpc, addr>>
    BY <1>8 DEF Sweep
  <2>2. \A a \in Addrs : table'[a] # NoSess => a \notin Expired /\ table'[a] = table[a]
    BY <1>8 DEF Sweep
  <2>3. \A s \in Sessions : open[s] /\ (\A b \in Expired : table[b] # s) => open'[s]
    BY <1>8 DEF Sweep, EndExpired
  <2>4. \A a, b \in Addrs : table[a] = table[b] /\ table[a] # NoSess => a = b
    BY DEF MapEntryOpen
  <2>5. MapEntryOpen'
    BY <2>1, <2>2, <2>3, <2>4 DEF MapEntryOpen, TypeOK, Expired
  <2>6. InsertNeverReplaces'
    BY <2>1, <2>2 DEF InsertNeverReplaces, loop, TypeOK
  <2>7. mpc = "dialled" => open'[msess]
    BY <2>3 DEF DialledOwned, MapEntryOpen, Expired, TypeOK, ClockBound
  <2>8. QED
    BY <2>1, <2>5, <2>6, <2>7 DEF DialledOwned, loop
<1>9. CASE UNCHANGED <<table, loop, hpc, addr, open>>
  BY <1>9 DEF MapEntryOpen, InsertNeverReplaces, DialledOwned, loop
<1>10. QED
  BY <1>1, <1>2, <1>3, <1>4, <1>5, <1>6, <1>7, <1>8, <1>9
  DEF Next, LoopStep, HandlerStep, ReadTimesOut, ReadClosed, ReadRefused, Tick, vars, sessVars

LEMMA MapInvHolds == Spec => []MapInv
<1>1. Init => MapInv
  BY DEF Init, MapInv, MapEntryOpen, InsertNeverReplaces, DialledOwned
<1>2. QED
  BY <1>1, TypeInvHolds, MapInvStep, PTL DEF Spec

\* The session a packet is forwarded on was open when the map was read, and
\* belongs to the packet's address: whatever the scheduling of handlers and
\* cleanup, neither closes a socket that the map still leads to.
THEOREM MapSafe == Spec => []MapEntryOpen
<1>1. MapInv => MapEntryOpen
  BY DEF MapInv
<1>2. QED
  BY <1>1, MapInvHolds, PTL

\* The lookup and the insertion are two critical sections, and still no
\* insertion overwrites a session.
THEOREM InsertSafe == Spec => []InsertNeverReplaces
<1>1. MapInv => InsertNeverReplaces
  BY DEF MapInv
<1>2. QED
  BY <1>1, MapInvHolds, PTL

(***************************************************************************)
(* The counter and the readers, however late the goroutines are.  A        *)
(* session is counted down by its handler and, if it is still in the map,  *)
(* by the cleanup; a handler deletes its key whether or not the entry is   *)
(* its own.  What is left true is said with the history of the sweeps.     *)
(***************************************************************************)
Counted == {s \in Sessions : open[s]}
Twice   == {s \in swept : hpc[s] = "done"}

\* The handler of a session that was swept has deleted these keys.
TakenKeys == {addr[u] : u \in {v \in swept : hpc[v] \in {"unmapped", "done"}}}

Lives == {"arming", "reading", "failed"}

LateInv ==
  /\ \A s \in Sessions : open[s] <=> hpc[s] \notin {"none", "done"} /\ s \notin swept
  /\ \A s \in swept : hpc[s] \notin {"none", "dialled"}
  /\ \A s \in Sessions : hpc[s] \in Lives /\ s \notin swept =>
        table[addr[s]] = s \/ addr[s] \in TakenKeys
  /\ active = Cardinality(Counted) - Cardinality(Twice)

\* A session that was dialled has a client's address.
Placed == \A s \in Sessions : hpc[s] # "none" => addr[s] \in Addrs

LEMMA PlacedHolds == Spec => []Placed
<1>1. Init => Placed
  BY DEF Init, Placed
<1>2. TypeInv /\ Placed /\ [Next]_vars => Placed'
  BY DEF Next, LoopStep, HandlerStep, ReadTimesOut, ReadClosed, ReadRefused, ReadEnds, Receive,
    Forward, DialFails, Dial, Insert, Arm, Reply, Unmap, Finish, Sweep, Tick, vars, sessVars,
    TypeInv, TypeOK, ClockBound, Placed
<1>3. QED
  BY <1>1, <1>2, TypeInvHolds, PTL DEF Spec

\* The map leads to each session from one address only, so a sweep closes as
\* many sockets as it counts down.
LEMMA EachOnce ==
  ASSUME TypeInv, MapInv
  PROVE  Cardinality({table[a] : a \in Expired}) = Cardinality(Expired)
<1> DEFINE f == [a \in Expired |-> table[a]]
<1> DEFINE ended == {table[a] : a \in Expired}
<1>1. \A a, b \in Expired : table[a] = table[b] => a = b
  BY DEF Expired, MapInv, MapEntryOpen
<1>2. f \in Bijection(Expired, ended)
  BY <1>1 DEF Bijection, Injection, Surjection, IsInjective
<1>3. IsFiniteSet(Expired)
  BY UdpAssumption, FS_Subset DEF Expired
<1>4. ExistsBijection(Expired, ended)
  BY <1>2 DEF ExistsBijection
<1>5. QED
  BY <1>3, <1>4, FS_Bijection

LEMMA CountedFinite ==
  ASSUME TypeInv
  PROVE  /\ IsFiniteSet(Counted) /\ Cardinality(Counted) \in Nat
         /\ IsFiniteSet(Twice) /\ Cardinality(Twice) \in Nat
<1>1. Counted \subseteq Sessions /\ Twice \subseteq Sessions
  BY DEF Counted, Twice, TypeInv, TypeOK
<1>2. QED
  BY <1>1, UdpAssumption, FS_Subset, FS_CardinalityType

\* A step that leaves sockets, counter and history alone, and moves handlers
\* between stages in which the session lives.
LEMMA LateKept ==
  ASSUME TypeInv, LateInv, UNCHANGED <<table, addr, open, active, swept>>,
         \A s \in Sessions : hpc'[s] # hpc[s] => hpc[s] \in Lives /\ hpc'[s] \in Lives
  PROVE  LateInv'
<1>1. Counted' = Counted
  BY DEF Counted
<1>2. Twice' = Twice
  BY DEF Twice, Lives, TypeInv, TypeOK
<1>3. TakenKeys' = TakenKeys
  BY DEF TakenKeys, Lives, TypeInv, TypeOK
<1>4. \A s \in Sessions : open'[s] <=> hpc'[s] \notin {"none", "done"} /\ s \notin swept'
  BY DEF LateInv, Lives
<1>5. \A s \in swept' : hpc'[s] \notin {"none", "dialled"}
  BY DEF LateInv, Lives, TypeInv, TypeOK
<1>6. \A s \in Sessions : hpc'[s] \in Lives /\ s \notin swept' =>
         table'[addr'[s]] = s \/ addr'[s] \in TakenKeys'
  BY <1>3 DEF LateInv
<1>7. QED
  BY <1>1, <1>2, <1>4, <1>5, <1>6 DEF LateInv

LEMMA LateInvStep == TypeInv /\ MapInv /\ Placed /\ LateInv /\ [Next]_vars => LateInv'
<1> SUFFICES ASSUME TypeInv, MapInv, Placed, LateInv, [Next]_vars PROVE LateInv'
  OBVIOUS
<1> USE UdpAssumption DEF TypeInv
<1>0. \A s \in swept : s \in Sessions
  BY DEF TypeOK
<1>1. ASSUME NEW s \in Sessions, Dial(s) PROVE LateInv'
  <2>1. /\ hpc[s] = "none" /\ s \notin swept /\ ~open[s]
        /\ hpc' = [hpc EXCEPT ![s] = "dialled"] /\ addr' = [addr EXCEPT ![s] = maddr]
        /\ open' = [open EXCEPT ![s] = TRUE] /\ active' = active + 1
        /\ UNCHANGED <<table, swept>>
    BY <1>1 DEF Dial, LateInv
  <2>2. Cardinality(Counted') = Cardinality(Counted) + 1
    <3>1. s \notin Counted /\ Counted' = Counted \cup {s}
      BY <2>1 DEF Counted, TypeOK
    <3>2. QED
      BY <3>1, CountedFinite, FS_AddElement
  <2>3. Twice' = Twice
    BY <1>0, <2>1 DEF Twice, TypeOK
  <2>4. \A t \in Sessions : t # s => hpc'[t] = hpc[t] /\ addr'[t] = addr[t] /\ open'[t] = open[t]
    BY <2>1 DEF TypeOK
  <2>5. hpc'[s] = "dialled" /\ open'[s]
    BY <2>1 DEF TypeOK
  <2>6. TakenKeys \subseteq TakenKeys'
    BY <1>0, <2>1, <2>4 DEF TakenKeys
  <2>7. \A t \in Sessions : hpc'[t] \in Lives /\ t \notin swept' =>
           table'[addr'[t]] = t \/ addr'[t] \in TakenKeys'
    BY <2>1, <2>4, <2>5, <2>6 DEF LateInv, Lives
  <2>8. active' = Cardinality(Counted') - Cardinality(Twice')
    BY <2>1, <2>2, <2>3, CountedFinite DEF LateInv
  <2>9. (\A t \in Sessions : open'[t] <=> hpc'[t] \notin {"none", "done"} /\ t \notin swept')
        /\ \A t \in swept' : hpc'[t] \notin {"none", "dialled"}
    BY <1>0, <2>1, <2>4, <2>5 DEF LateInv
  <2>10. QED
    BY <2>7, <2>8, <2>9 DEF LateInv
<1>2. CASE Insert
  <2>1. /\ table' = [table EXCEPT ![maddr] = msess] /\ hpc' = [hpc EXCEPT ![msess] = "arming"]
        /\ maddr \in Addrs /\ msess \in Sessions /\ hpc[msess] = "dialled"
        /\ addr[msess] = maddr /\ table[maddr] = NoSess /\ UNCHANGED <<addr, open, active, swept>>
    BY <1>2 DEF Insert, TypeOK, ClockBound, MapInv, DialledOwned, InsertNeverReplaces
  <2>2. \A t \in Sessions : t # msess => hpc'[t] = hpc[t]
    BY <2>1 DEF TypeOK
  <2>3. msess \notin swept /\ hpc'[msess] = "arming"
    BY <2>1 DEF LateInv, TypeOK
  <2>4. Counted' = Counted /\ Twice' = Twice
    BY <1>0, <2>1, <2>2, <2>3 DEF Counted, Twice
  <2>5. TakenKeys \subseteq TakenKeys'
    BY <1>0, <2>1, <2>2, <2>3 DEF TakenKeys
  <2>6. ASSUME NEW t \in Sessions, hpc'[t] \in Lives, t \notin swept'
        PROVE  table'[addr'[t]] = t \/ addr'[t] \in TakenKeys'
    <3>1. CASE t = msess
      BY <2>1, <3>1 DEF TypeOK
    <3>2. CASE t # msess /\ addr[t] \in TakenKeys
      BY <2>1, <2>5, <3>2
    <3>3. CASE t # msess /\ table[addr[t]] = t
      <4>1. addr[t] # maddr
        BY <2>1, <3>3
      <4>2. addr[t] \in Addrs
        BY <2>1, <2>2, <2>6, <3>3 DEF Lives, Placed
      <4>3. QED
        BY <2>1, <3>3, <4>1, <4>2 DEF TypeOK
    <3>4. QED
      BY <2>1, <2>2, <2>6, <3>1, <3>2, <3>3 DEF LateInv
  <2>7. (\A t \in Sessions : open'[t] <=> hpc'[t] \notin {"none", "done"} /\ t \notin swept')
        /\ \A t \in swept' : hpc'[t] \notin {"none", "dialled"}
    BY <1>0, <2>1, <2>2, <2>3 DEF LateInv
  <2>8. QED
    BY <2>1, <2>4, <2>6, <2>7 DEF LateInv
<1>3. ASSUME NEW s \in Sessions, Arm(s) \/ Reply(s) \/ ReadEnds(s) PROVE LateInv'
  <2>1. /\ hpc[s] \in Lives /\ hpc'[s] \in Lives
        /\ \A t \in Sessions : t # s => hpc'[t] = hpc[t]
        /\ UNCHANGED <<table, addr, open, active, swept>>
    BY <1>3 DEF Arm, Reply, ReadEnds, Lives, TypeOK
  <2>2. QED
    BY <2>1, LateKept
<1>4. ASSUME NEW s \in Sessions, Unmap(s) PROVE LateInv'
  <2>1. /\ table' = [table EXCEPT ![addr[s]] = NoSess] /\ hpc' = [hpc EXCEPT ![s] = "unmapped"]
        /\ hpc[s] = "failed" /\ UNCHANGED <<addr, open, active, swept>>
    BY <1>4 DEF Unmap, DeleteKey
  <2>2. hpc'[s] = "unmapped" /\ \A t \in Sessions : t # s => hpc'[t] = hpc[t]
    BY <2>1 DEF TypeOK
  <2>3. Counted' = Counted /\ Twice' = Twice
    BY <1>0, <2>1, <2>2 DEF Counted, Twice
  <2>4. TakenKeys \subseteq TakenKeys'
    BY <1>0, <2>1, <2>2 DEF TakenKeys
  <2>5. s \in swept => addr'[s] \in TakenKeys'
    BY <2>1, <2>2 DEF TakenKeys
  <2>6. ASSUME NEW t \in Sessions, hpc'[t] \in Lives, t \notin swept'
        PROVE  table'[addr'[t]] = t \/ addr'[t] \in TakenKeys'
    <3>1. t # s /\ hpc[t] \in Lives /\ t \notin swept
      BY <2>1, <2>2, <2>6 DEF Lives
    <3>2. CASE addr[t] # addr[s]
      BY <2>1, <2>4, <3>1, <3>2 DEF LateInv, Lives, Placed, TypeOK
    <3>3. CASE addr[t] = addr[s]
      <4>1. addr[t] \in TakenKeys \/ table[addr[s]] # s
        BY <3>1, <3>3 DEF LateInv
      <4>2. addr'[s] \in TakenKeys'
        BY <2>1, <2>4, <2>5, <3>3, <4>1 DEF LateInv, Lives
      <4>3. QED
        BY <2>1, <3>3, <4>2
    <3>4. QED
      BY <3>2, <3>3
  <2>7. (\A t \in Sessions : open'[t] <=> hpc'[t] \notin {"none", "done"} /\ t \notin swept')
        /\ \A t \in swept' : hpc'[t] \notin {"none", "dialled"}
    BY <1>0, <2>1, <2>2 DEF LateInv
  <2>8. QED
    BY <2>1, <2>3, <2>6, <2>7 DEF LateInv
<1>5. ASSUME NEW s \in Sessions, Finish(s) PROVE LateInv'
  <2>1. /\ hpc[s] = "unmapped" /\ hpc' = [hpc EXCEPT ![s] = "done"]
        /\ open' = [open EXCEPT ![s] = FALSE] /\ active' = active - 1
        /\ UNCHANGED <<table, addr, swept>>
    BY <1>5 DEF Finish, CountDown, loop
  <2>2. \A t \in Sessions : t # s => hpc'[t] = hpc[t] /\ open'[t] = open[t]
    BY <2>1 DEF TypeOK
  <2>3. hpc'[s] = "done" /\ ~open'[s]
    BY <2>1 DEF TypeOK
  <2>4. Cardinality(Counted') - Cardinality(Twice')
          = Cardinality(Counted) - Cardinality(Twice) - 1
    <3>1. CASE s \in swept
      <4>1. Counted' = Counted /\ s \notin Twice /\ Twice' = Twice \cup {s}
        BY <1>0, <2>1, <2>2, <2>3, <3>1 DEF Counted, Twice, LateInv
      <4>2. Cardinality(Twice') = Cardinality(Twice) + 1
        BY <4>1, CountedFinite, FS_AddElement
      <4>3. QED
        BY <4>1, <4>2, CountedFinite
    <3>2. CASE s \notin swept
      <4>1. s \in Counted /\ Counted' = Counted \ {s} /\ Twice' = Twice
        BY <1>0, <2>1, <2>2, <2>3, <3>2 DEF Counted, Twice, LateInv
      <4>2. Cardinality(Counted') = Cardinality(Counted) - 1
        BY <4>1, CountedFinite, FS_RemoveElement
      <4>3. QED
        BY <4>1, <4>2, CountedFinite
    <3>3. QED
      BY <3>1, <3>2
  <2>5. TakenKeys \subseteq TakenKeys'
    BY <1>0, <2>1, <2>2, <2>3 DEF TakenKeys
  <2>6. \A t \in Sessions : hpc'[t] \in Lives /\ t \notin swept' =>
           table'[addr'[t]] = t \/ addr'[t] \in TakenKeys'
    BY <2>1, <2>2, <2>3, <2>5 DEF LateInv, Lives
  <2>7. (\A t \in Sessions : open'[t] <=> hpc'[t] \notin {"none", "done"} /\ t \notin swept')
        /\ \A t \in swept' : hpc'[t] \notin {"none", "dialled"}
    BY <1>0, <2>1, <2>2, <2>3 DEF LateInv
  <2>8. active' = Cardinality(Counted') - Cardinality(Twice')
    BY <2>1, <2>4 DEF LateInv
  <2>9. QED
    BY <2>6, <2>7, <2>8 DEF LateInv
<1>6. CASE Sweep
  <2> DEFINE ended == {table[a] : a \in Expired}
  <2>1. /\ UNCHANGED <<hpc, addr>> /\ swept' = swept \cup ended
        /\ open' = [t \in Sessions |-> open[t] /\ t \notin ended]
        /\ table' = [a \in Addrs |-> IF a \in Expired THEN NoSess ELSE table[a]]
        /\ active' = active - Cardinality(Expired)
    BY <1>6 DEF Sweep, EndExpired
  <2>2. \A t \in ended : t \in Sessions /\ open[t] /\ hpc[t] \in Lives
    BY DEF Expired, MapInv, MapEntryOpen, TypeOK, Lives
  <2>3. \A t \in Sessions : open'[t] <=> open[t] /\ t \notin ended
    BY <2>1
  <2>4. Twice' = Twice
    BY <2>1, <2>2 DEF Twice, Lives
  <2>5. Cardinality(Counted') = Cardinality(Counted) - Cardinality(Expired)
    <3>1. Counted = Counted' \cup ended /\ Counted' \cap ended = {}
      BY <2>2, <2>3 DEF Counted
    <3>2. IsFiniteSet(Counted') /\ IsFiniteSet(ended)
      BY <3>1, CountedFinite, FS_Subset
    <3>3. Cardinality(Counted) = Cardinality(Counted') + Cardinality(ended)
      <4>1. Cardinality(Counted' \cap ended) = 0
        BY <3>1, FS_EmptySet
      <4>2. Cardinality(Counted') \in Nat /\ Cardinality(ended) \in Nat
        BY <3>2, FS_CardinalityType
      <4>3. Cardinality(Counted' \cup ended)
              = Cardinality(Counted') + Cardinality(ended) - Cardinality(Counted' \cap ended)
        BY <3>2, FS_Union
      <4>4. Cardinality(Counted) = Cardinality(Counted' \cup ended)
        BY <3>1
      <4>5. QED
        BY <4>1, <4>2, <4>3, <4>4
    <3>4. Cardinality(ended) = Cardinality(Expired)
      BY EachOnce
    <3>5. Cardinality(Counted') \in Nat /\ Cardinality(ended) \in Nat
      BY <3>2, FS_CardinalityType
    <3>6. QED
      BY <3>3, <3>4, <3>5
  <2>6. TakenKeys \subseteq TakenKeys'
    BY <2>1 DEF TakenKeys
  <2>7. ASSUME NEW t \in Sessions, hpc'[t] \in Lives, t \notin swept'
        PROVE  table'[addr'[t]] = t \/ addr'[t] \in TakenKeys'
    <3>1. t \notin swept /\ t \notin ended /\ hpc[t] \in Lives /\ addr'[t] = addr[t]
      BY <2>1, <2>7
    <3>2. CASE addr[t] \in TakenKeys
      BY <2>6, <3>1, <3>2
    <3>3. CASE table[addr[t]] = t /\ addr[t] \in Addrs
      <4>1. addr[t] \notin Expired
        BY <3>1, <3>3
      <4>2. QED
        BY <2>1, <3>1, <3>3, <4>1
    <3>4. addr[t] \in Addrs
      BY <3>1 DEF Lives, Placed
    <3>5. QED
      BY <3>1, <3>2, <3>3, <3>4 DEF LateInv
  <2>8. (\A t \in Sessions : open'[t] <=> hpc'[t] \notin {"none", "done"} /\ t \notin swept')
        /\ \A t \in swept' : hpc'[t] \notin {"none", "dialled"}
    BY <2>1, <2>2, <2>3 DEF LateInv, Lives
  <2>9. active' = Cardinality(Counted') - Cardinality(Twice')
    <3>1. Cardinality(Counted') \in Int /\ Cardinality(Expired) \in Int
      BY FS_Subset, FS_CardinalityType, EachOnce DEF Expired, Counted
    <3>2. QED
      BY <2>1, <2>4, <2>5, <3>1, CountedFinite DEF LateInv
  <2>10. QED
    BY <2>7, <2>8, <2>9 DEF LateInv
<1>7. CASE UNCHANGED <<table, hpc, addr, open, active, swept>>
  BY <1>7, LateKept
<1>8. QED
  BY <1>1, <1>2, <1>3, <1>4, <1>5, <1>6, <1>7
  DEF Next, LoopStep, HandlerStep, ReadTimesOut, ReadClosed, ReadRefused, Receive, Forward,
    DialFails, Tick, vars, sessVars

LEMMA LateInvHolds == Spec => []LateInv
<1>1. Init => LateInv
  <2> SUFFICES ASSUME Init PROVE LateInv
    OBVIOUS
  <2>1. Counted = {} /\ Twice = {}
    BY DEF Init, Counted, Twice
  <2>2. Cardinality(Counted) = 0 /\ Cardinality(Twice) = 0
    BY <2>1, FS_EmptySet
  <2>3. QED
    BY <2>2 DEF Init, LateInv, Lives
<1>2. QED
  BY <1>1, TypeInvHolds, MapInvHolds, PlacedHolds, LateInvStep, PTL DEF Spec

\* What the counter says, for any delays: it is too low by one for every session
\* that was swept and whose handler has come back, and by nothing else.
THEOREM CountDrifts == Spec => []ActiveDrift
<1>1. LateInv => ActiveDrift
  BY DEF LateInv, ActiveDrift, Counted, Twice
<1>2. QED
  BY <1>1, LateInvHolds, PTL

\* For any delays, the late handler of a swept session is the only way to two
\* sockets that read for one client.
THEOREM SecondReaderExplained == Spec => []OneReaderUnlessSwept
<1>1. LateInv => OneReaderUnlessSwept
  BY DEF LateInv, OneReaderUnlessSwept, Readers, TakenKeys, Lives
<1>2. QED
  BY <1>1, LateInvHolds, PTL

(***************************************************************************)
(* With the daemon's limits and goroutines that are not late, no session   *)
(* is swept at all: the read deadline comes first, if the delays of two    *)
(* goroutines do not use up the minute between the two limits.             *)
(***************************************************************************)
Prompt == ReadTimeout + 2 * MaxLag <= IdleLimit

\* How long a session can have been idle, by the stage of its handler.
IdleBound == \A s \in Sessions :
  /\ hpc[s] = "none" => idle[s] = 0
  /\ hpc[s] \in {"dialled", "arming"} => idle[s] <= clock[s]
  /\ hpc[s] = "reading" => idle[s] <= clock[s] + MaxLag
  /\ hpc[s] = "failed" => idle[s] <= clock[s] + ReadTimeout + MaxLag

LEMMA IdleBoundStep == TypeInv /\ IdleBound /\ [Next]_vars => IdleBound'
<1> SUFFICES ASSUME TypeInv, IdleBound, [Next]_vars PROVE IdleBound'
  OBVIOUS
<1> USE UdpAssumption DEF TypeInv
<1>1. CASE Forward
  BY <1>1 DEF Forward, IdleBound, TypeOK
<1>2. ASSUME NEW s \in Sessions, Dial(s) PROVE IdleBound'
  BY <1>2 DEF Dial, IdleBound, TypeOK
<1>3. CASE Insert
  BY <1>3 DEF Insert, IdleBound, TypeOK, ClockBound
<1>4. ASSUME NEW s \in Sessions, Arm(s) PROVE IdleBound'
  <2>1. idle[s] <= clock[s] /\ clock[s] <= MaxLag
    BY <1>4 DEF Arm, IdleBound, ClockBound
  <2>2. QED
    BY <1>4, <2>1 DEF Arm, IdleBound, TypeOK
<1>5. ASSUME NEW s \in Sessions, Reply(s) PROVE IdleBound'
  BY <1>5 DEF Reply, IdleBound, TypeOK
<1>6. ASSUME NEW s \in Sessions, ReadEnds(s) PROVE IdleBound'
  <2>1. idle[s] <= Overdue(s) + ReadTimeout + MaxLag
    BY <1>6 DEF ReadEnds, Overdue, IdleBound, TypeOK
  <2>2. QED
    BY <1>6, <2>1 DEF ReadEnds, IdleBound, TypeOK
<1>7. ASSUME NEW s \in Sessions, Unmap(s) \/ Finish(s) PROVE IdleBound'
  BY <1>7 DEF Unmap, Finish, IdleBound, TypeOK
<1>8. CASE Tick
  <2>1. ASSUME NEW s \in Sessions
        PROVE  /\ Aging(s) => clock'[s] = clock[s] + 1 /\ idle'[s] <= idle[s] + 1
               /\ ~Aging(s) => clock'[s] = clock[s] /\ idle'[s] = idle[s]
               /\ idle'[s] \in Int /\ hpc'[s] = hpc[s]
    BY <1>8 DEF Tick, TypeOK
  <2>2. QED
    BY <2>1 DEF IdleBound, Aging, TypeOK
<1>9. CASE UNCHANGED <<hpc, idle, clock>>
  BY <1>9 DEF IdleBound
<1>10. QED
  BY <1>1, <1>2, <1>3, <1>4, <1>5, <1>6, <1>7, <1>8, <1>9
  DEF Next, LoopStep, HandlerStep, ReadTimesOut, ReadClosed, ReadRefused, Receive, DialFails, Sweep,
    vars, sessVars

LEMMA IdleBoundHolds == Spec => []IdleBound
<1>1. Init => IdleBound
  BY DEF Init, IdleBound
<1>2. QED
  BY <1>1, TypeInvHolds, IdleBoundStep, PTL DEF Spec

\* Under prompt scheduling the cleanup never finds a session to expire.
LEMMA NothingExpires ==
  ASSUME Prompt, TypeInv, MapInv, IdleBound
  PROVE  Expired = {}
<1> SUFFICES ASSUME NEW a \in Addrs, table[a] # NoSess, idle[table[a]] > IdleLimit PROVE FALSE
  BY DEF Expired
<1>1. table[a] \in Sessions /\ hpc[table[a]] \in {"arming", "reading", "failed"}
  BY DEF TypeInv, TypeOK, MapInv, MapEntryOpen
<1>2. idle[table[a]] <= ReadTimeout + 2 * MaxLag
  BY <1>1, UdpAssumption DEF IdleBound, TypeInv, TypeOK, ClockBound
<1>3. QED
  BY <1>1, <1>2, UdpAssumption DEF Prompt, TypeInv, TypeOK

LEMMA NothingSwept == ASSUME Prompt PROVE Spec => [](swept = {})
<1>1. Init => swept = {}
  BY DEF Init
<1>2. TypeInv /\ MapInv /\ IdleBound /\ swept = {} /\ [Next]_vars => (swept = {})'
  <2> SUFFICES ASSUME TypeInv, MapInv, IdleBound, swept = {}, [Next]_vars PROVE swept' = {}
    OBVIOUS
  <2>1. ~Sweep
    BY NothingExpires DEF Sweep
  <2>2. QED
    BY <2>1 DEF Next, LoopStep, HandlerStep, ReadTimesOut, ReadClosed, ReadRefused, ReadEnds, Receive,
      Forward, DialFails, Dial, Insert, Arm, Reply, Unmap, Finish, Tick, vars
<1>3. QED
  BY <1>1, <1>2, TypeInvHolds, MapInvHolds, IdleBoundHolds, PTL DEF Spec

ActiveExact      == active = Cardinality({s \in Sessions : open[s]})
OneReaderPerAddr == \A s, t \in Readers : addr[s] = addr[t] => s = t

\* With the daemon's limits (2 and 3 minutes) and goroutines that run within
\* half a minute, ConnsActive is exact, and a client has one socket that reads.
THEOREM SoundWhenPrompt == ASSUME Prompt PROVE Spec => [](ActiveExact /\ OneReaderPerAddr)
<1>1. ActiveDrift /\ OneReaderUnlessSwept /\ TypeInv /\ swept = {} => ActiveExact /\ OneReaderPerAddr
  <2> SUFFICES ASSUME ActiveDrift, OneReaderUnlessSwept, TypeInv, swept = {}
               PROVE  ActiveExact /\ OneReaderPerAddr
    OBVIOUS
  <2>1. {s \in swept : hpc[s] = "done"} = {}
    OBVIOUS
  <2>2. Cardinality({s \in swept : hpc[s] = "done"}) = 0
    BY <2>1, FS_EmptySet
  <2>3. Cardinality({s \in Sessions : open[s]}) \in Nat
    BY CountedFinite DEF Counted
  <2>4. QED
    BY <2>2, <2>3 DEF ActiveDrift, ActiveExact, OneReaderUnlessSwept, OneReaderPerAddr
<1>2. QED
  BY <1>1, CountDrifts, SecondReaderExplained, TypeInvHolds, NothingSwept, PTL
============================================================================
