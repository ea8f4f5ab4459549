------------------------ MODULE ConnServiceProofs ------------------------
(***************************************************************************)
(* What every step of ConnService preserves, for any set of connections    *)
(* and any limit.  TcpTunnelProofs and Socks5ServerProofs use these lemmas *)
(* for their own handlers.                                                 *)
(***************************************************************************)
EXTENDS ConnService, FiniteSetTheorems, TLAPS

\* The stages in which a handler runs and holds its slot.
InService == Handshake \cup {"relaying", "closeTarget", "release"}

\* NothingLeftOpen, and where the client's socket is closed.
Tidy ==
  /\ NothingLeftOpen
  /\ \A c \in Conns : stage[c] = "uncount" => ~client[c]

ServiceInv == ServiceTypeOK /\ Accounting /\ Tidy

\* What a step between two stages in service does to the shared state.
Handled(c) ==
  /\ stage[c] \in Handshake \cup {"relaying"}
  /\ \E s \in InService : stage' = [stage EXCEPT ![c] = s]
  /\ target' \in {target, [target EXCEPT ![c] = TRUE]}
  /\ target'[c] => stage'[c] \in {"replying", "relaying", "closeTarget"}
  /\ failed' \in Nat
  /\ UNCHANGED <<client, slots, active, total, rejected>>

LEMMA FiniteSubsets ==
  ASSUME NEW S, S \subseteq Conns PROVE IsFiniteSet(S) /\ Cardinality(S) \in Nat
BY ServiceAssumption, FS_Subset, FS_CardinalityType

\* The sets the counters are compared with are empty at first.
LEMMA InitService == ServiceInit => ServiceInv /\ Limited!Init
<1> SUFFICES ASSUME ServiceInit PROVE ServiceInv /\ Limited!Init
  OBVIOUS
<1> USE ServiceAssumption DEF ServiceInit
<1>1. Holding = {} /\ Handling = {} /\ Finished = {} /\ Refused = {}
  BY DEF Holding, Handling, Finished, Refused, Handshake, Leaving
<1>2. Accounting
  BY <1>1, FS_EmptySet DEF Accounting
<1>3. ServiceTypeOK /\ Tidy
  BY DEF ServiceTypeOK, Stage, Tidy, NothingLeftOpen, Over
<1>4. Limited!Init
  BY DEF Limited!Init, Phase
<1>5. QED
  BY <1>2, <1>3, <1>4 DEF ServiceInv

\* The instance's Cardinality is that of FiniteSets.
LEMMA LimitedCardinality == \A S : Limited!Cardinality(S) = Cardinality(S)
BY DEF Limited!Cardinality, Cardinality

LEMMA ServedIsHolding == ServiceTypeOK => Limited!Served = Holding
<1> SUFFICES ASSUME ServiceTypeOK, NEW c \in Conns PROVE Phase[c] = "served" <=> c \in Holding
  BY DEF Limited!Served, Holding
<1>1. c \in Holding => stage[c] \notin {"new", "pending", "rejected"}
  BY DEF Holding, Handshake
<1>2. QED
  BY <1>1 DEF Phase

\* To compare Phase' with an update of Phase, one connection at a time.
LEMMA PhaseIsFunction ==
  ASSUME NEW c \in Conns, NEW p, Phase'[c] = p, \A d \in Conns : d # c => Phase'[d] = Phase[d]
  PROVE  Phase' = [Phase EXCEPT ![c] = p]
BY DEF Phase

LEMMA HandledStep ==
  ASSUME ServiceInv, NEW c \in Conns, Handled(c)
  PROVE  ServiceInv' /\ UNCHANGED Phase
<1> USE ServiceAssumption DEF ServiceInv
<1>1. PICK s \in InService : stage' = [stage EXCEPT ![c] = s]
  BY DEF Handled
<1>2. stage' \in [Conns -> Stage] /\ stage'[c] = s /\ stage[c] \in InService
  BY <1>1 DEF Handled, ServiceTypeOK, InService, Stage, Handshake, Leaving
<1>3. \A d \in Conns : d # c => stage'[d] = stage[d] /\ target'[d] = target[d]
  BY <1>1 DEF Handled, ServiceTypeOK
<1>4. Holding' = Holding /\ Handling' = Handling /\ Finished' = Finished /\ Refused' = Refused
  BY <1>2, <1>3 DEF Holding, Handling, Finished, Refused, InService, Handshake, Leaving
<1>5. Accounting'
  BY <1>4 DEF Handled, Accounting
<1>6. Tidy'
  BY <1>2, <1>3 DEF Handled, Tidy, NothingLeftOpen, InService, Handshake, Over
<1>7. ServiceTypeOK'
  BY <1>2 DEF Handled, ServiceTypeOK
<1>8. Phase' = Phase
  BY <1>2, <1>3, <1>4 DEF Phase, InService, Handshake
<1>9. QED
  BY <1>5, <1>6, <1>7, <1>8

\* The accept loop and the deferred calls: each step that changes a counter
\* moves one connection into or out of the set it counts.
LEMMA LoopPreserves ==
  ASSUME ServiceInv, NEW c \in Conns, Accept(c) \/ LoopStep(c)
  PROVE  ServiceInv' /\ [Limited!Next]_Phase
<1> USE ServiceAssumption DEF ServiceInv
<1>1. CASE Accept(c)
  <2>1. \A d \in Conns : d # c => stage'[d] = stage[d] /\ client'[d] = client[d]
    BY <1>1 DEF Accept, Goto, ServiceTypeOK
  <2>2. stage'[c] = "pending" /\ stage[c] = "new"
    BY <1>1 DEF Accept, Goto, ServiceTypeOK
  <2>3. Holding' = Holding /\ Handling' = Handling /\ Finished' = Finished /\ Refused' = Refused
    BY <2>1, <2>2 DEF Holding, Handling, Finished, Refused, Handshake, Leaving
  <2>4. Accounting'
    BY <1>1, <2>3 DEF Accept, counters, Accounting
  <2>5. ServiceTypeOK' /\ Tidy'
    BY <1>1, <2>1, <2>2 DEF Accept, Goto, counters, ServiceTypeOK, Stage, Loop, Tidy, NothingLeftOpen, Over
  <2>6. Phase' = Phase
    BY <2>1, <2>2, <2>3 DEF Phase
  <2>7. QED
    BY <2>4, <2>5, <2>6
<1>2. CASE Admit(c)
  <2>1. stage' = [stage EXCEPT ![c] = "admitted"] /\ stage[c] = "pending" /\ slots < MaxConns
        /\ slots' = slots + 1 /\ UNCHANGED <<sockets, counters>>
    BY <1>2 DEF Admit, Goto
  <2>2. Holding' = Holding \cup {c} /\ c \notin Holding
        /\ Handling' = Handling /\ Finished' = Finished /\ Refused' = Refused
    BY <2>1 DEF Holding, Handling, Finished, Refused, Handshake, Leaving, ServiceTypeOK
  <2>3. Cardinality(Holding') = Cardinality(Holding) + 1
    BY <2>2, FiniteSubsets, FS_AddElement DEF Holding
  <2>4. Accounting'
    BY <2>1, <2>2, <2>3 DEF counters, Accounting
  <2>5. ServiceTypeOK' /\ Tidy'
    BY <2>1 DEF sockets, counters, ServiceTypeOK, Stage, Loop, Tidy, NothingLeftOpen, Over
  <2>6. Limited!Serve(c)
    <3>1. Phase[c] = "new" /\ Phase'[c] = "served"
      BY <2>1, <2>2 DEF Phase, ServiceTypeOK
    <3>2. \A d \in Conns : d # c => Phase'[d] = Phase[d]
      BY <2>1, <2>2 DEF Phase, ServiceTypeOK
    <3>3. Phase' = [Phase EXCEPT ![c] = "served"]
      BY <3>1, <3>2, PhaseIsFunction
    <3>4. Cardinality(Limited!Served) < MaxConns
      BY <2>1, ServedIsHolding DEF Accounting
    <3>5. QED
      BY <3>1, <3>3, <3>4, LimitedCardinality DEF Limited!Serve
  <2>7. QED
    BY <2>4, <2>5, <2>6 DEF Limited!Next
<1>3. CASE Reject(c)
  <2>1. stage' = [stage EXCEPT ![c] = "rejected"] /\ stage[c] = "pending" /\ slots = MaxConns
        /\ rejected' = rejected + 1 /\ client' = [client EXCEPT ![c] = FALSE]
        /\ UNCHANGED <<target, slots, active, total, failed>>
    BY <1>3 DEF Reject, Goto
  <2>2. Holding' = Holding /\ Handling' = Handling /\ Finished' = Finished
        /\ Refused' = Refused \cup {c} /\ c \notin Refused
    BY <2>1 DEF Holding, Handling, Finished, Refused, Handshake, Leaving, ServiceTypeOK
  <2>3. Cardinality(Refused') = Cardinality(Refused) + 1
    BY <2>2, FiniteSubsets, FS_AddElement DEF Refused
  <2>4. Accounting'
    BY <2>1, <2>2, <2>3 DEF Accounting
  <2>5. ServiceTypeOK' /\ Tidy'
    BY <2>1 DEF ServiceTypeOK, Stage, Over, Tidy, NothingLeftOpen
  <2>6. Limited!Refuse(c)
    <3>1. Phase[c] = "new" /\ Phase'[c] = "refused"
      BY <2>1, <2>2 DEF Phase, ServiceTypeOK
    <3>2. \A d \in Conns : d # c => Phase'[d] = Phase[d]
      BY <2>1, <2>2 DEF Phase, ServiceTypeOK
    <3>3. Phase' = [Phase EXCEPT ![c] = "refused"]
      BY <3>1, <3>2, PhaseIsFunction
    <3>4. Cardinality(Limited!Served) = MaxConns
      BY <2>1, ServedIsHolding DEF Accounting
    <3>5. QED
      BY <3>1, <3>3, <3>4, LimitedCardinality DEF Limited!Refuse
  <2>7. QED
    BY <2>4, <2>5, <2>6 DEF Limited!Next
<1>4. CASE Count(c)
  <2>1. stage' = [stage EXCEPT ![c] = "reading"] /\ stage[c] = "admitted"
        /\ active' = active + 1 /\ total' = total + 1
        /\ UNCHANGED <<sockets, slots, rejected, failed>>
    BY <1>4 DEF Count, Goto
  <2>2. Holding' = Holding /\ Finished' = Finished /\ Refused' = Refused
        /\ Handling' = Handling \cup {c} /\ c \notin Handling /\ c \notin Finished
    BY <2>1 DEF Holding, Handling, Finished, Refused, Handshake, Leaving, ServiceTypeOK
  <2>3. Cardinality(Handling') = Cardinality(Handling) + 1
    BY <2>2, FiniteSubsets, FS_AddElement DEF Handling
  <2>4. Cardinality(Handling' \cup Finished') = Cardinality(Handling \cup Finished) + 1
    <3>1. Handling' \cup Finished' = (Handling \cup Finished) \cup {c} /\ c \notin Handling \cup Finished
      BY <2>2
    <3>2. QED
      BY <3>1, FiniteSubsets, FS_AddElement DEF Handling, Finished
  <2>5. Accounting'
    BY <2>1, <2>2, <2>3, <2>4 DEF Accounting
  <2>6. ServiceTypeOK' /\ Tidy'
    BY <2>1 DEF sockets, ServiceTypeOK, Stage, Handshake, Over, Tidy, NothingLeftOpen
  <2>7. Phase' = Phase
    BY <2>1, <2>2 DEF Phase, ServiceTypeOK
  <2>8. QED
    BY <2>5, <2>6, <2>7
<1>5. QED
  BY <1>1, <1>2, <1>3, <1>4 DEF LoopStep

LEMMA RelayReturnsIsHandled ==
  ASSUME ServiceInv, NEW c \in Conns, RelayReturns(c)
  PROVE  Handled(c)
BY DEF RelayReturns, Return, Goto, sockets, counters, Handled, InService,
       ServiceInv, ServiceTypeOK, Stage

\* The deferred calls, each on its own.
LEMMA LeavePreserves ==
  ASSUME ServiceInv, NEW c \in Conns, LeaveStep(c)
  PROVE  ServiceInv' /\ [Limited!Next]_Phase
<1> USE ServiceAssumption DEF ServiceInv
<1>1. CASE CloseTarget(c)
  <2>1. stage' = [stage EXCEPT ![c] = "release"] /\ stage[c] = "closeTarget"
        /\ target' = [target EXCEPT ![c] = FALSE] /\ UNCHANGED <<client, slots, counters>>
    BY <1>1 DEF CloseTarget, Goto
  <2>2. Holding' = Holding /\ Handling' = Handling /\ Finished' = Finished /\ Refused' = Refused
    BY <2>1 DEF Holding, Handling, Finished, Refused, Handshake, Leaving, ServiceTypeOK
  <2>3. Accounting'
    BY <2>1, <2>2 DEF counters, Accounting
  <2>4. ServiceTypeOK' /\ Tidy'
    BY <2>1 DEF counters, ServiceTypeOK, Stage, Leaving, Over, Tidy, NothingLeftOpen
  <2>5. Phase' = Phase
    BY <2>1, <2>2 DEF Phase, ServiceTypeOK
  <2>6. QED
    BY <2>3, <2>4, <2>5
<1>2. CASE Release(c)
  <2>1. stage' = [stage EXCEPT ![c] = "closeClient"] /\ stage[c] = "release"
        /\ slots' = slots - 1 /\ UNCHANGED <<sockets, counters>>
    BY <1>2 DEF Release, Goto
  <2>2. Holding' = Holding \ {c} /\ c \in Holding
        /\ Handling' = Handling /\ Finished' = Finished /\ Refused' = Refused
    BY <2>1 DEF Holding, Handling, Finished, Refused, Handshake, Leaving, ServiceTypeOK
  <2>3. Cardinality(Holding') = Cardinality(Holding) - 1 /\ Cardinality(Holding') \in Nat
    BY <2>2, FiniteSubsets, FS_RemoveElement DEF Holding
  <2>4. Accounting'
    BY <2>1, <2>2, <2>3 DEF counters, Accounting
  <2>5. slots' \in 0..MaxConns
    BY <2>1, <2>2, <2>3 DEF Accounting, ServiceTypeOK
  <2>6. ServiceTypeOK' /\ Tidy'
    BY <2>1, <2>5 DEF sockets, counters, ServiceTypeOK, Stage, Leaving, Over, Tidy, NothingLeftOpen
  <2>7. Limited!Leave(c)
    <3>1. Phase[c] = "served" /\ Phase'[c] = "gone"
      BY <2>1, <2>2 DEF Phase, ServiceTypeOK
    <3>2. \A d \in Conns : d # c => Phase'[d] = Phase[d]
      BY <2>1, <2>2 DEF Phase, ServiceTypeOK
    <3>3. QED
      BY <3>1, <3>2, PhaseIsFunction DEF Limited!Leave
  <2>8. QED
    BY <2>4, <2>6, <2>7 DEF Limited!Next
<1>3. CASE CloseClient(c)
  <2>1. stage' = [stage EXCEPT ![c] = "uncount"] /\ stage[c] = "closeClient"
        /\ client' = [client EXCEPT ![c] = FALSE] /\ UNCHANGED <<target, slots, counters>>
    BY <1>3 DEF CloseClient, Goto
  <2>2. Holding' = Holding /\ Handling' = Handling /\ Finished' = Finished /\ Refused' = Refused
    BY <2>1 DEF Holding, Handling, Finished, Refused, Handshake, Leaving, ServiceTypeOK
  <2>3. Accounting'
    BY <2>1, <2>2 DEF counters, Accounting
  <2>4. ServiceTypeOK' /\ Tidy'
    BY <2>1 DEF counters, ServiceTypeOK, Stage, Leaving, Over, Tidy, NothingLeftOpen
  <2>5. Phase' = Phase
    BY <2>1, <2>2 DEF Phase, ServiceTypeOK
  <2>6. QED
    BY <2>3, <2>4, <2>5
<1>4. CASE Uncount(c)
  <2>1. stage' = [stage EXCEPT ![c] = "done"] /\ stage[c] = "uncount"
        /\ active' = active - 1 /\ UNCHANGED <<sockets, slots, total, rejected, failed>>
    BY <1>4 DEF Uncount, Goto
  <2>2. Handling' = Handling \ {c} /\ c \in Handling /\ Finished' = Finished \cup {c}
        /\ Holding' = Holding /\ Refused' = Refused
    BY <2>1 DEF Holding, Handling, Finished, Refused, Handshake, Leaving, ServiceTypeOK
  <2>3. Cardinality(Handling') = Cardinality(Handling) - 1
    BY <2>2, FiniteSubsets, FS_RemoveElement DEF Handling
  <2>4. Handling' \cup Finished' = Handling \cup Finished
    BY <2>2
  <2>5. Accounting'
    BY <2>1, <2>2, <2>3, <2>4 DEF Accounting
  <2>6. ServiceTypeOK' /\ Tidy'
    BY <2>1 DEF sockets, ServiceTypeOK, Stage, Over, Tidy, NothingLeftOpen
  <2>7. Phase' = Phase
    BY <2>1, <2>2 DEF Phase, ServiceTypeOK
  <2>8. QED
    BY <2>5, <2>6, <2>7
<1>5. QED
  BY <1>1, <1>2, <1>3, <1>4 DEF LeaveStep

\* A step that touches none of the variables.
LEMMA IdlePreserves ==
  ASSUME ServiceInv, UNCHANGED serviceVars
  PROVE  ServiceInv' /\ UNCHANGED Phase
<1> USE DEF serviceVars, sockets, counters
<1>1. Holding' = Holding /\ Handling' = Handling /\ Finished' = Finished /\ Refused' = Refused
  BY DEF Holding, Handling, Finished, Refused
<1>2. UNCHANGED Phase
  BY <1>1 DEF Phase
<1>3. ServiceInv'
  BY <1>1 DEF ServiceInv, ServiceTypeOK, Accounting, Tidy, NothingLeftOpen
<1>4. QED
  BY <1>2, <1>3
============================================================================
