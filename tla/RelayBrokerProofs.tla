------------------------ MODULE RelayBrokerProofs ------------------------
(***************************************************************************)
(* Theorems about the relay, alone (RelayBroker) and with the phone side   *)
(* (RelayTunnel), for any sets of connections and any bounds.              *)
(***************************************************************************)
EXTENDS RelayTunnel, TLAPS

(***************************************************************************)
(* Typing.  TypeOK is not inductive by itself: LookupCtrl reads            *)
(* ctrl[phone[w]] and NotifyPhone sends wkey[w], which have a value only   *)
(* because of the points the goroutine has passed before.                  *)
(***************************************************************************)
Pending == {"queued", "looked", "waiting", "withdraw", "expiring"}

Assigned ==
  /\ \A w \in Waiters : wpc[w] \in {"picked", "queued"} => phone[w] \in PhoneId
  /\ \A w \in Waiters : wpc[w] \in Pending => wkey[w] \in Key
  /\ \A w \in Waiters : wpc[w] = "looked" => sc[w] \in Phones
  /\ \A d \in Datas : dpc[d] = "lookup" => dkey[d] \in Key

TypeInv == TypeOK /\ Assigned

LEMMA KeyFacts ==
  /\ \A i \in PhoneId : PKey(i) \in Key
  /\ \A n \in 1..MaxCid : CKey(n) \in Key
  /\ \A m, n : CKey(m) = CKey(n) => m = n
  /\ \A k \in Key : k # NoKey
BY DEF Key, PKey, CKey, NoKey, PhoneId

\* The initial values have their types and nothing is assigned yet.
LEMMA InitTypeInv == Init => TypeInv
BY BrokerAssumption DEF Init, TypeInv, TypeOK, Assigned, PhoneId, NoId, Waiters,
  WaiterState, PhoneState, DataState, Pending

LEMMA TypeInvStep == TypeInv /\ [Next]_vars => TypeInv'
<1> SUFFICES ASSUME TypeInv, [Next]_vars PROVE TypeInv'
  OBVIOUS
<1> USE BrokerAssumption DEF TypeInv
<1>1. ASSUME NEW p \in Phones, Register(p) PROVE TypeInv'
  BY <1>1 DEF Register, TypeOK, Assigned, PhoneId, PhoneState, waiting, clients, datas
<1>2. ASSUME NEW p \in Phones, Announce(p) PROVE TypeInv'
  BY <1>2 DEF Announce, TypeOK, Assigned, PhoneState, Line, registry, waiting, clients, datas
<1>3. ASSUME NEW p \in Phones, ControlLost(p) PROVE TypeInv'
  BY <1>3 DEF ControlLost, TypeOK, Assigned, PhoneState, registry, waiting, clients, datas
<1>4. ASSUME NEW p \in Phones, Unregister(p) PROVE TypeInv'
  <2>1. lastPhone' \in 0..MaxId
    BY <1>4 DEF Unregister, ClosePhone, ForgetPhone, TypeOK, NoId
  <2>2. ctrl' \in [PhoneId -> Phones \cup {NoConn}]
    BY <1>4 DEF Unregister, ClosePhone, ForgetPhone, TypeOK
  <2>3. QED
    BY <1>4, <2>1, <2>2 DEF Unregister, ClosePhone, TypeOK, Assigned, PhoneState, waiting, clients, datas
<1>5. ASSUME NEW p \in Phones, PhoneGone(p) \/ ClosePhone(p) PROVE TypeInv'
  BY <1>5 DEF PhoneGone, ClosePhone, PhoneState, TypeOK, Assigned, registry, waiting, clients, datas
<1>6. ASSUME NEW c \in Clients, Handshake(c) PROVE TypeInv'
  <2>1. /\ c \in Waiters
        /\ wpc' = [wpc EXCEPT ![c] = "parsed"] \/ wpc' = [wpc EXCEPT ![c] = "closed"]
        /\ UNCHANGED <<registry, waiting, phone, wkey, sc, dataCh, link, phones, datas>>
    BY <1>6 DEF Handshake, Goto, Waiters
  <2>2. TypeOK'
    BY <2>1 DEF TypeOK, WaiterState, registry, waiting, phones, datas
  <2>3. Assigned'
    BY <2>1 DEF TypeOK, Assigned, Pending, datas
  <2>4. QED
    BY <2>2, <2>3
<1>7. ASSUME NEW c \in Clients, PickPhone(c) PROVE TypeInv'
  BY <1>7 DEF PickPhone, Goto, TypeOK, Assigned, Pending, PhoneId, NoId, WaiterState, Waiters,
    registry, waiting, phones, datas
<1>8. ASSUME NEW c \in Clients, Enqueue(c) PROVE TypeInv'
  <2>1. connCID' \in 1..MaxCid /\ CKey(connCID') \in Key /\ c \in Waiters
    BY <1>8, KeyFacts DEF Enqueue, TypeOK, Waiters
  <2>2. /\ wkey' = [wkey EXCEPT ![c] = CKey(connCID')] /\ wait' = [wait EXCEPT ![CKey(connCID')] = c]
        /\ wpc[c] = "picked" /\ wpc' = [wpc EXCEPT ![c] = "queued"]
        /\ UNCHANGED <<registry, phone, sc, dataCh, link, phones, datas>>
    BY <1>8 DEF Enqueue, Goto
  <2>3. TypeOK'
    BY <2>1, <2>2 DEF TypeOK, WaiterState, registry, phones, datas
  <2>4. Assigned'
    BY <2>1, <2>2 DEF TypeOK, Assigned, Pending, datas
  <2>5. QED
    BY <2>3, <2>4
<1>9. ASSUME NEW c \in Clients, Forget(c) PROVE TypeInv'
  BY <1>9 DEF Forget, DeleteEntry, Goto, TypeOK, Assigned, Pending, WaiterState, Waiters,
    registry, phones, datas
<1>10. ASSUME NEW l \in Legacy, NEW i \in PhoneId, Connect(l, i) PROVE TypeInv'
  <2>1. PKey(i) \in Key
    BY KeyFacts
  <2>2. QED
    BY <1>10, <2>1 DEF Connect, Goto, TypeOK, Assigned, Pending, PhoneId, WaiterState, Waiters,
      registry, phones, datas
<1>11. ASSUME NEW w \in Waiters, LookupCtrl(w) PROVE TypeInv'
  BY <1>11 DEF LookupCtrl, Goto, TypeOK, Assigned, Pending, WaiterState, registry, waiting, phones, datas
<1>12. ASSUME NEW w \in Waiters, NotifyPhone(w) PROVE TypeInv'
  <2>1. sc[w] \in Phones /\ wkey[w] \in Line
    BY <1>12 DEF NotifyPhone, Assigned, Pending, Line
  <2>2. sent' \in [Phones -> Seq(Line)]
    <3>1. Append(sent[sc[w]], wkey[w]) \in Seq(Line)
      BY <2>1 DEF TypeOK
    <3>2. QED
      BY <1>12, <2>1, <3>1 DEF NotifyPhone, TypeOK
  <2>3. wpc' = [wpc EXCEPT ![w] = "waiting"] \/ wpc' = [wpc EXCEPT ![w] = "withdraw"]
    BY <1>12 DEF NotifyPhone, Goto
  <2>4. wpc' \in [Waiters -> WaiterState]
    BY <2>3 DEF TypeOK, WaiterState
  <2>5. Assigned'
    BY <1>12, <2>3 DEF NotifyPhone, TypeOK, Assigned, Pending, datas
  <2>6. QED
    BY <1>12, <2>2, <2>4, <2>5 DEF NotifyPhone, TypeOK, registry, waiting, datas
<1>13. ASSUME NEW w \in Waiters, ReceiveData(w) PROVE TypeInv'
  BY <1>13 DEF ReceiveData, Goto, TypeOK, Assigned, Pending, WaiterState, registry, waiting, phones, datas
<1>14. ASSUME NEW w \in Waiters, Timeout(w) PROVE TypeInv'
  BY <1>14 DEF Timeout, Goto, TypeOK, Assigned, Pending, WaiterState, registry, waiting, phones, datas
<1>15. ASSUME NEW w \in Waiters, PipeEnds(w) PROVE TypeInv'
  <2>1. wpc' = [wpc EXCEPT ![w] = "closed"]
        /\ UNCHANGED <<registry, waiting, phone, wkey, sc, dataCh, link, phones, datas>>
    BY <1>15 DEF PipeEnds, Goto
  <2>2. TypeOK'
    BY <2>1 DEF TypeOK, WaiterState, registry, waiting, phones, datas
  <2>3. Assigned'
    BY <2>1 DEF TypeOK, Assigned, Pending, datas
  <2>4. QED
    BY <2>2, <2>3
<1>16. ASSUME NEW d \in Datas, NEW k \in Key, DataArrives(d, k) PROVE TypeInv'
  BY <1>16 DEF DataArrives, TypeOK, Assigned, DataState, registry, waiting, clients, phones
<1>17. ASSUME NEW d \in Datas, TakeEntry(d) PROVE TypeInv'
  <2>1. dkey[d] \in Key /\ dest' = [dest EXCEPT ![d] = wait[dkey[d]]]
    BY <1>17 DEF TakeEntry, EntryFor, Assigned
  <2>2. /\ wait' = wait \/ wait' = [wait EXCEPT ![dkey[d]] = NoConn]
        /\ dpc' = [dpc EXCEPT ![d] = "deliver"] \/ dpc' = [dpc EXCEPT ![d] = "returning"]
        /\ UNCHANGED <<registry, connCID, clients, phones, dkey>>
    BY <1>17 DEF TakeEntry, DeleteEntry
  <2>3. wait' \in [Key -> Waiters \cup {NoConn}] /\ dest' \in [Datas -> Waiters \cup {NoConn}]
    BY <2>1, <2>2 DEF TypeOK
  <2>4. TypeOK'
    BY <2>2, <2>3 DEF TypeOK, DataState, registry, clients, phones
  <2>5. Assigned'
    BY <2>2 DEF TypeOK, Assigned, clients
  <2>6. QED
    BY <2>4, <2>5
<1>18. ASSUME NEW d \in Datas, Deliver(d) PROVE TypeInv'
  <2>1. /\ dataCh' = [dataCh EXCEPT ![dest[d]] = d] /\ dpc' = [dpc EXCEPT ![d] = "returning"]
        /\ UNCHANGED <<registry, waiting, wpc, phone, wkey, sc, link, phones, dkey, dest>>
    BY <1>18 DEF Deliver
  <2>2. TypeOK'
    BY <2>1 DEF TypeOK, DataState, registry, waiting, phones
  <2>3. Assigned'
    BY <2>1 DEF TypeOK, Assigned
  <2>4. QED
    BY <2>2, <2>3
<1>19. ASSUME NEW d \in Datas, CloseData(d) PROVE TypeInv'
  BY <1>19 DEF CloseData, TypeOK, Assigned, DataState, registry, waiting, clients, phones
<1>20. CASE UNCHANGED vars
  BY <1>20 DEF TypeOK, Assigned, vars, registry, waiting, clients, phones, datas
<1>21. QED
  BY <1>1, <1>2, <1>3, <1>4, <1>5, <1>6, <1>7, <1>8, <1>9, <1>10, <1>11, <1>12, <1>13, <1>14,
     <1>15, <1>16, <1>17, <1>18, <1>19, <1>20
  DEF Next, PhoneStep, PhoneLeaves, ClientStep, WaiterStep, DataStep, AllServed

LEMMA TypeInvHolds == Spec => []TypeInv
BY InitTypeInv, TypeInvStep, PTL DEF Spec

\* Every variable keeps its type: no handler indexes the registry with an id
\* it does not have or writes a key it was not given.
THEOREM TypeCorrect == Spec => []TypeOK
<1>1. TypeInv => TypeOK
  BY DEF TypeInv
<1>2. QED
  BY <1>1, TypeInvHolds, PTL

(***************************************************************************)
(* The registry of phones.                                                 *)
(***************************************************************************)
RegistryInv == LastPhoneRegistered /\ RegistryLive

LEMMA RegistryStep == TypeInv /\ RegistryInv /\ [Next]_vars => RegistryInv'
<1> SUFFICES ASSUME TypeInv, RegistryInv, [Next]_vars PROVE RegistryInv'
  OBVIOUS
<1> USE BrokerAssumption DEF RegistryInv
<1>1. ASSUME NEW p \in Phones, Register(p) PROVE RegistryInv'
  <2>1. nextID' \in PhoneId /\ nextID' = nextID + 1
    BY <1>1 DEF Register, TypeInv, TypeOK, PhoneId
  <2>2. ctrl'[nextID'] = p /\ p # NoConn
    BY <1>1, <2>1 DEF Register, TypeInv, TypeOK
  <2>3. LastPhoneRegistered'
    BY <1>1, <2>2 DEF Register, LastPhoneRegistered
  <2>4. ASSUME NEW i \in PhoneId, ctrl'[i] # NoConn
        PROVE  pid'[ctrl'[i]] = i /\ ppc'[ctrl'[i]] \in {"announce", "serving", "unregister"}
    <3>1. CASE i = nextID'
      BY <1>1, <2>2, <3>1 DEF Register, TypeInv, TypeOK
    <3>2. CASE i # nextID'
      <4>1. ctrl'[i] = ctrl[i] /\ ctrl[i] # NoConn /\ ctrl[i] \in Phones
        BY <1>1, <2>4, <3>2 DEF Register, TypeInv, TypeOK
      <4>2. ctrl[i] # p
        BY <1>1, <4>1 DEF Register, RegistryLive
      <4>3. QED
        BY <1>1, <4>1, <4>2 DEF Register, RegistryLive, TypeInv, TypeOK
    <3>3. QED
      BY <3>1, <3>2
  <2>5. QED
    BY <2>3, <2>4 DEF RegistryLive
<1>2. ASSUME NEW p \in Phones, Announce(p) \/ ControlLost(p) \/ ClosePhone(p) \/ PhoneGone(p)
      PROVE  RegistryInv'
  <2>1. UNCHANGED <<registry, pid>>
    BY <1>2 DEF Announce, ControlLost, ClosePhone, PhoneGone
  <2>2. ASSUME NEW q \in Phones, ppc[q] \in {"announce", "serving", "unregister"}
        PROVE  ppc'[q] \in {"announce", "serving", "unregister"}
    BY <1>2, <2>2 DEF Announce, ControlLost, ClosePhone, PhoneGone, TypeInv, TypeOK
  <2>3. QED
    BY <2>1, <2>2 DEF LastPhoneRegistered, RegistryLive, registry, TypeInv, TypeOK
<1>3. ASSUME NEW p \in Phones, Unregister(p) PROVE RegistryInv'
  <2>1. LastPhoneRegistered'
    BY <1>3 DEF Unregister, ClosePhone, ForgetPhone, LastPhoneRegistered, TypeInv, TypeOK, PhoneId, NoId
  <2>2. ASSUME NEW i \in PhoneId, ctrl'[i] # NoConn
        PROVE  pid'[ctrl'[i]] = i /\ ppc'[ctrl'[i]] \in {"announce", "serving", "unregister"}
    <3>1. ctrl'[i] = ctrl[i] /\ i # pid[p] /\ ctrl[i] \in Phones
      BY <1>3, <2>2 DEF Unregister, ClosePhone, ForgetPhone, TypeInv, TypeOK
    <3>2. ctrl[i] # p
      BY <2>2, <3>1 DEF RegistryLive
    <3>3. QED
      BY <1>3, <2>2, <3>1, <3>2 DEF Unregister, ClosePhone, RegistryLive, TypeInv, TypeOK
  <2>3. QED
    BY <2>1, <2>2 DEF RegistryLive
<1>4. CASE UNCHANGED <<registry, phones>>
  BY <1>4 DEF registry, phones, LastPhoneRegistered, RegistryLive
<1>5. ASSUME NEW w \in Waiters, NotifyPhone(w) PROVE RegistryInv'
  BY <1>5 DEF NotifyPhone, registry, LastPhoneRegistered, RegistryLive
<1>6. QED
  BY <1>1, <1>2, <1>3, <1>4, <1>5
  DEF Next, PhoneStep, PhoneLeaves, ClientStep, WaiterStep, DataStep, AllServed, Handshake, PickPhone, Enqueue,
    Connect, LookupCtrl, ReceiveData, Timeout, Forget, PipeEnds, DataArrives, TakeEntry, Deliver,
    CloseData, vars

LEMMA RegistryHolds == Spec => []RegistryInv
<1>1. Init => RegistryInv
  BY DEF Init, RegistryInv, LastPhoneRegistered, RegistryLive
<1>2. QED
  BY <1>1, TypeInvHolds, RegistryStep, PTL DEF Spec

\* lastPhone is never left naming a phone that the registry has dropped.
THEOREM LastPhoneSafe == Spec => []LastPhoneRegistered
<1>1. RegistryInv => LastPhoneRegistered
  BY DEF RegistryInv
<1>2. QED
  BY <1>1, RegistryHolds, PTL

\* A lookup in the registry never yields a connection the relay has closed or
\* one registered under another id.
THEOREM RegistrySafe == Spec => []RegistryLive
<1>1. RegistryInv => RegistryLive
  BY DEF RegistryInv
<1>2. QED
  BY <1>1, RegistryHolds, PTL

(***************************************************************************)
(* Matching data connections with clients.  The three properties are not   *)
(* inductive: that a second data connection finds no entry needs that a    *)
(* client which has been matched has left the wait map (MatchedGone), and  *)
(* that it cannot come back needs that an entry names its client's own key *)
(* (EntryOwned) and that a matched client is past its enqueueing.          *)
(***************************************************************************)
Fresh == {"idle", "parsed", "picked"}

EntryOwned ==
  \A k \in Key, w \in Waiters : wait[k] = w =>
    /\ k = wkey[w]
    /\ wpc[w] \notin Fresh
    /\ w \in Clients => wpc[w] \in Pending

MatchedGone ==
  \A d \in Datas : dest[d] # NoConn =>
    /\ \A k \in Key : wait[k] # dest[d]
    /\ dkey[d] = wkey[dest[d]]
    /\ wpc[dest[d]] \notin Fresh

Unmatched == \A d \in Datas :
  /\ dpc[d] \in {"idle", "lookup"} => dest[d] = NoConn
  /\ dpc[d] = "deliver" => dest[d] # NoConn

\* A connection in a channel or already received came from its matching.
HandedOn ==
  \A w \in Waiters, d \in Datas : dataCh[w] = d \/ link[w] = d =>
    dest[d] = w /\ dpc[d] \in {"returning", "closed"}

MatchInv == EntryOwned /\ MatchedGone /\ Unmatched /\ HandedOn /\ OneDataPerWaiter

LEMMA InitMatchInv == Init => MatchInv
BY BrokerAssumption DEF Init, MatchInv, EntryOwned, MatchedGone, Unmatched, HandedOn,
  OneDataPerWaiter, Waiters

LEMMA MatchInvStep == TypeInv /\ MatchInv /\ [Next]_vars => MatchInv'
<1> SUFFICES ASSUME TypeInv, MatchInv, [Next]_vars PROVE MatchInv'
  OBVIOUS
<1> USE BrokerAssumption DEF MatchInv, TypeInv
<1>1. ASSUME NEW c \in Clients, Handshake(c) \/ PickPhone(c) PROVE MatchInv'
  <2>1. c \in Waiters /\ wpc[c] \in Fresh
    BY <1>1 DEF Handshake, PickPhone, Fresh, Waiters
  <2>2. UNCHANGED <<wait, wkey, dataCh, link, dpc, dkey, dest>>
    BY <1>1 DEF Handshake, PickPhone, waiting, datas
  <2>3. \A w \in Waiters : w # c => wpc'[w] = wpc[w]
    BY <1>1, <2>1 DEF Handshake, PickPhone, Goto, TypeOK
  <2>4. (\A k \in Key : wait[k] # c) /\ (\A d \in Datas : dest[d] # NoConn => dest[d] # c)
    BY <2>1 DEF EntryOwned, MatchedGone
  <2>5. EntryOwned'
    BY <2>2, <2>3, <2>4 DEF EntryOwned
  <2>6. MatchedGone'
    BY <2>2, <2>3, <2>4 DEF MatchedGone, TypeOK
  <2>7. QED
    BY <2>2, <2>5, <2>6 DEF Unmatched, HandedOn, OneDataPerWaiter
<1>2. ASSUME NEW c \in Clients, Enqueue(c) PROVE MatchInv'
  <2> DEFINE n == CKey(connCID')
  <2>1. c \in Waiters /\ wpc[c] \in Fresh /\ n \in Key
    BY <1>2, KeyFacts DEF Enqueue, Fresh, Waiters, TypeOK
  <2>2. /\ wait' = [wait EXCEPT ![n] = c] /\ wkey' = [wkey EXCEPT ![c] = n]
        /\ wpc' = [wpc EXCEPT ![c] = "queued"]
        /\ UNCHANGED <<dataCh, link, dpc, dkey, dest>>
    BY <1>2 DEF Enqueue, Goto, datas
  <2> HIDE DEF n
  <2>3. ASSUME NEW k \in Key, NEW w \in Waiters, wait'[k] = w
        PROVE  k = wkey'[w] /\ wpc'[w] \notin Fresh /\ (w \in Clients => wpc'[w] \in Pending)
    <3>1. CASE k = n
      BY <2>1, <2>2, <2>3, <3>1 DEF Fresh, Pending, TypeOK
    <3>2. CASE k # n
      <4>1. wait[k] = w /\ w # c
        BY <2>1, <2>2, <2>3, <3>2 DEF EntryOwned, TypeOK
      <4>2. wkey'[w] = wkey[w] /\ wpc'[w] = wpc[w]
        BY <2>1, <2>2, <4>1 DEF TypeOK
      <4>3. QED
        BY <4>1, <4>2 DEF EntryOwned
    <3>3. QED
      BY <3>1, <3>2
  <2>4. MatchedGone'
    BY <2>1, <2>2 DEF MatchedGone, TypeOK
  <2>5. QED
    BY <2>2, <2>3, <2>4 DEF EntryOwned, Unmatched, HandedOn, OneDataPerWaiter
<1>3. ASSUME NEW l \in Legacy, NEW i \in PhoneId, Connect(l, i) PROVE MatchInv'
  <2> DEFINE n == PKey(i)
  <2>1. l \in Waiters /\ l \notin Clients /\ wpc[l] \in Fresh /\ n \in Key
    BY <1>3, KeyFacts DEF Connect, Fresh, Waiters
  <2>2. /\ wait' = [wait EXCEPT ![n] = l] /\ wkey' = [wkey EXCEPT ![l] = n]
        /\ wpc' = [wpc EXCEPT ![l] = "queued"]
        /\ UNCHANGED <<dataCh, link, dpc, dkey, dest>>
    BY <1>3 DEF Connect, Goto, datas
  <2> HIDE DEF n
  <2>3. ASSUME NEW k \in Key, NEW w \in Waiters, wait'[k] = w
        PROVE  k = wkey'[w] /\ wpc'[w] \notin Fresh /\ (w \in Clients => wpc'[w] \in Pending)
    <3>1. CASE k = n
      BY <2>1, <2>2, <2>3, <3>1 DEF Fresh, Pending, TypeOK
    <3>2. CASE k # n
      <4>1. wait[k] = w /\ w # l
        BY <2>1, <2>2, <2>3, <3>2 DEF EntryOwned, TypeOK
      <4>2. wkey'[w] = wkey[w] /\ wpc'[w] = wpc[w]
        BY <2>1, <2>2, <4>1 DEF TypeOK
      <4>3. QED
        BY <4>1, <4>2 DEF EntryOwned
    <3>3. QED
      BY <3>1, <3>2
  <2>4. MatchedGone'
    BY <2>1, <2>2 DEF MatchedGone, TypeOK
  <2>5. QED
    BY <2>2, <2>3, <2>4 DEF EntryOwned, Unmatched, HandedOn, OneDataPerWaiter
<1>4. ASSUME NEW w \in Waiters, LookupCtrl(w) \/ NotifyPhone(w) \/ Timeout(w) PROVE MatchInv'
  <2>1. UNCHANGED <<wait, wkey, dataCh, link, dpc, dkey, dest>>
    BY <1>4 DEF LookupCtrl, NotifyPhone, Timeout, waiting, datas
  <2>2. /\ wpc'[w] \notin Fresh /\ (w \in Clients => wpc'[w] \in Pending)
        /\ \A v \in Waiters : v # w => wpc'[v] = wpc[v]
    BY <1>4 DEF LookupCtrl, NotifyPhone, Timeout, Goto, Fresh, Pending, TypeOK
  <2>3. EntryOwned'
    BY <2>1, <2>2 DEF EntryOwned
  <2>4. MatchedGone'
    BY <2>1, <2>2 DEF MatchedGone, TypeOK
  <2>5. QED
    BY <2>1, <2>3, <2>4 DEF Unmatched, HandedOn, OneDataPerWaiter
<1>5. ASSUME NEW w \in Waiters, ReceiveData(w) PROVE MatchInv'
  <2>1. dataCh[w] \in Datas /\ dest[dataCh[w]] = w /\ w # NoConn
    BY <1>5 DEF ReceiveData, HandedOn, TypeOK, Waiters
  <2>2. \A k \in Key : wait[k] # w
    BY <2>1 DEF MatchedGone
  <2>3. UNCHANGED <<wait, wkey, dpc, dkey, dest>> /\ wpc' = [wpc EXCEPT ![w] = "piping"]
    BY <1>5 DEF ReceiveData, Goto, waiting, datas
  <2>4. EntryOwned' /\ MatchedGone'
    BY <2>2, <2>3 DEF EntryOwned, MatchedGone, TypeOK, Fresh
  <2>5. HandedOn'
    BY <1>5, <2>3 DEF ReceiveData, HandedOn, TypeOK
  <2>6. QED
    BY <2>3, <2>4, <2>5 DEF Unmatched, OneDataPerWaiter
<1>6. ASSUME NEW c \in Clients, Forget(c) PROVE MatchInv'
  <2>1. c \in Waiters /\ wkey[c] \in Key
    BY <1>6 DEF Forget, Waiters, Assigned, Pending
  <2>2. /\ wait' = [wait EXCEPT ![wkey[c]] = NoConn]
        /\ UNCHANGED <<wkey, dataCh, link, dpc, dkey, dest>>
        /\ wpc'[c] \notin Fresh
        /\ \A v \in Waiters : v # c => wpc'[v] = wpc[v]
    BY <1>6, <2>1 DEF Forget, DeleteEntry, Goto, Fresh, TypeOK, datas
  <2>3. EntryOwned'
    <3> SUFFICES ASSUME NEW k \in Key, NEW w \in Waiters, wait'[k] = w
                 PROVE  k = wkey'[w] /\ wpc'[w] \notin Fresh /\ (w \in Clients => wpc'[w] \in Pending)
      BY DEF EntryOwned
    <3>1. k # wkey[c] /\ wait[k] = w
      BY <2>1, <2>2 DEF TypeOK, Waiters
    <3>2. w # c
      BY <3>1 DEF EntryOwned
    <3>3. QED
      BY <2>2, <3>1, <3>2 DEF EntryOwned
  <2>4. MatchedGone'
    BY <2>1, <2>2 DEF MatchedGone, TypeOK
  <2>5. QED
    BY <2>2, <2>3, <2>4 DEF EntryOwned, Unmatched, HandedOn, OneDataPerWaiter
<1>7. ASSUME NEW w \in Waiters, PipeEnds(w) PROVE MatchInv'
  <2>1. UNCHANGED <<wait, wkey, dataCh, link, dpc, dkey, dest>>
    BY <1>7 DEF PipeEnds, waiting, datas
  <2>2. wpc[w] = "piping" /\ wpc' = [wpc EXCEPT ![w] = "closed"]
    BY <1>7 DEF PipeEnds, Goto
  <2>3. EntryOwned' /\ MatchedGone'
    BY <2>1, <2>2 DEF EntryOwned, MatchedGone, TypeOK, Fresh, Pending
  <2>4. QED
    BY <2>1, <2>3 DEF Unmatched, HandedOn, OneDataPerWaiter
<1>8. ASSUME NEW d \in Datas, NEW k \in Key, DataArrives(d, k) PROVE MatchInv'
  <2>1. dest[d] = NoConn
    BY <1>8 DEF DataArrives, Unmatched
  <2>2. QED
    BY <1>8, <2>1 DEF DataArrives, EntryOwned, MatchedGone, Unmatched, HandedOn, OneDataPerWaiter,
      TypeOK, waiting, clients
<1>9. ASSUME NEW d \in Datas, TakeEntry(d) PROVE MatchInv'
  <2> DEFINE k == dkey[d]
  <2>1. k \in Key /\ dest[d] = NoConn /\ dpc[d] = "lookup"
    BY <1>9 DEF TakeEntry, Assigned, Unmatched
  <2>2. UNCHANGED <<wpc, wkey, dataCh, link, dkey>> /\ dest' = [dest EXCEPT ![d] = wait[k]]
    BY <1>9 DEF TakeEntry, EntryFor, clients
  <2>3. \A e \in Datas : e # d => dpc'[e] = dpc[e] /\ dest'[e] = dest[e]
    BY <1>9 DEF TakeEntry, TypeOK
  <2>4. HandedOn'
    BY <2>1, <2>2, <2>3 DEF HandedOn, TypeOK
  <2>5. CASE wait[k] = NoConn
    <3>1. wait' = wait /\ dpc' = [dpc EXCEPT ![d] = "returning"] /\ dest' = dest
      BY <1>9, <2>1, <2>2, <2>5 DEF TakeEntry, TypeOK
    <3>2. QED
      BY <2>2, <2>4, <3>1 DEF EntryOwned, MatchedGone, Unmatched, OneDataPerWaiter, TypeOK
  <2>6. CASE wait[k] # NoConn
    <3>1. wait[k] \in Waiters /\ wkey[wait[k]] = k /\ wpc[wait[k]] \notin Fresh
      BY <2>1, <2>6 DEF EntryOwned, TypeOK
    <3>2. wait' = [wait EXCEPT ![k] = NoConn] /\ dpc' = [dpc EXCEPT ![d] = "deliver"]
      BY <1>9, <2>6 DEF TakeEntry, DeleteEntry
    <3>3. \A j \in Key : wait'[j] # wait[k]
      BY <2>1, <2>6, <3>1, <3>2 DEF EntryOwned, TypeOK
    <3>4. EntryOwned'
      BY <2>2, <3>2 DEF EntryOwned, TypeOK, Waiters
    <3>5. MatchedGone'
      BY <2>2, <2>3, <3>1, <3>2, <3>3 DEF MatchedGone, TypeOK
    <3>6. \A e \in Datas : dest[e] # wait[k]
      BY <2>1, <2>6 DEF MatchedGone
    <3>7. OneDataPerWaiter'
      BY <2>2, <2>3, <3>6 DEF OneDataPerWaiter, TypeOK
    <3>8. Unmatched'
      BY <2>2, <2>3, <2>6, <3>2 DEF Unmatched, TypeOK
    <3>9. QED
      BY <2>4, <3>4, <3>5, <3>7, <3>8
  <2>7. QED
    BY <2>5, <2>6
<1>10. ASSUME NEW d \in Datas, Deliver(d) PROVE MatchInv'
  <2>1. UNCHANGED <<wait, wpc, wkey, link, dkey, dest>>
    BY <1>10 DEF Deliver, waiting
  <2>2. dest[d] \in Waiters /\ dataCh' = [dataCh EXCEPT ![dest[d]] = d]
        /\ dpc' = [dpc EXCEPT ![d] = "returning"]
    BY <1>10 DEF Deliver, Unmatched, TypeOK
  <2>3. HandedOn'
    BY <2>1, <2>2 DEF HandedOn, TypeOK
  <2>4. QED
    BY <2>1, <2>2, <2>3 DEF EntryOwned, MatchedGone, Unmatched, OneDataPerWaiter, TypeOK
<1>11. ASSUME NEW d \in Datas, CloseData(d) PROVE MatchInv'
  BY <1>11 DEF CloseData, EntryOwned, MatchedGone, Unmatched, HandedOn, OneDataPerWaiter, TypeOK,
    waiting, clients
<1>12. CASE UNCHANGED <<wait, clients, datas>>
  BY <1>12 DEF EntryOwned, MatchedGone, Unmatched, HandedOn, OneDataPerWaiter, clients, datas
<1>13. ASSUME NEW p \in Phones, PhoneStep(p) \/ PhoneGone(p) PROVE MatchInv'
  BY <1>12, <1>13 DEF PhoneStep, PhoneLeaves, Register, Announce, ControlLost, Unregister, ClosePhone, PhoneGone, waiting
<1>14. QED
  BY <1>1, <1>2, <1>3, <1>4, <1>5, <1>6, <1>7, <1>8, <1>9, <1>10, <1>11, <1>12, <1>13
  DEF Next, ClientStep, WaiterStep, DataStep, AllServed, vars, waiting

LEMMA MatchHolds == Spec => []MatchInv
BY InitMatchInv, TypeInvHolds, MatchInvStep, PTL DEF Spec

\* No two data connections are matched with the same client, however often a
\* phone dials back and whenever the client gives up.
THEOREM MatchedOnce == Spec => []OneDataPerWaiter
<1>1. MatchInv => OneDataPerWaiter
  BY DEF MatchInv
<1>2. QED
  BY <1>1, MatchHolds, PTL

\* The send on dataCh in the "data:" handler finds the channel empty: no
\* goroutine of a data connection is ever stuck there.
THEOREM SendSafe == Spec => []SendNeverBlocks
<1>1. TypeInv /\ MatchInv => SendNeverBlocks
  <2> SUFFICES ASSUME TypeInv, MatchInv, NEW d \in Datas, dpc[d] = "deliver"
               PROVE  dataCh[dest[d]] = NoConn
    BY DEF SendNeverBlocks
  <2>1. dest[d] \in Waiters /\ dest[d] # NoConn
    BY DEF TypeInv, TypeOK, MatchInv, Unmatched
  <2>2. ASSUME NEW e \in Datas, dataCh[dest[d]] = e PROVE FALSE
    <3>1. dest[e] = dest[d] /\ dpc[e] # "deliver"
      BY <2>1, <2>2 DEF MatchInv, HandedOn
    <3>2. QED
      BY <2>1, <3>1 DEF MatchInv, OneDataPerWaiter
  <2>3. QED
    BY <2>1, <2>2 DEF TypeInv, TypeOK
<1>2. QED
  BY <1>1, TypeInvHolds, MatchHolds, PTL

\* A SOCKS5 handler that has returned, or been joined to its data connection,
\* has no entry in the wait map.
THEOREM EntriesReturned == Spec => []NoAbandonedEntry
<1>1. TypeInv /\ MatchInv => NoAbandonedEntry
  BY DEF TypeInv, MatchInv, EntryOwned, NoAbandonedEntry, Pending, Waiters
<1>2. QED
  BY <1>1, TypeInvHolds, MatchHolds, PTL

(***************************************************************************)
(* Keys.  connCID only grows, so a cid is given to one SOCKS5 client.      *)
(***************************************************************************)
OwnKeys ==
  /\ \A c \in Clients : wkey[c] = NoKey \/ \E n \in 1..connCID : wkey[c] = CKey(n)
  /\ \A b, c \in Clients : wkey[b] = wkey[c] /\ wkey[b] # NoKey => b = c

LEMMA OwnKeysStep == TypeInv /\ OwnKeys /\ [Next]_vars => OwnKeys'
<1> SUFFICES ASSUME TypeInv, OwnKeys, [Next]_vars PROVE OwnKeys'
  OBVIOUS
<1> USE BrokerAssumption DEF TypeInv
<1>1. ASSUME NEW c \in Clients, Enqueue(c) PROVE OwnKeys'
  <2>1. connCID' = connCID + 1 /\ connCID \in Nat /\ wkey' = [wkey EXCEPT ![c] = CKey(connCID')]
    BY <1>1 DEF Enqueue, TypeOK
  <2>2. \A b \in Clients : wkey[b] # CKey(connCID')
    BY <2>1, KeyFacts DEF OwnKeys, CKey, NoKey
  <2>3. \A b \in Clients : b \in Waiters /\ (b # c => wkey'[b] = wkey[b])
    BY <2>1 DEF TypeOK, Waiters
  <2>4. wkey'[c] = CKey(connCID')
    BY <2>1 DEF TypeOK, Waiters
  <2>5. \A b \in Clients : wkey'[b] = NoKey \/ \E n \in 1..connCID' : wkey'[b] = CKey(n)
    BY <2>1, <2>3, <2>4 DEF OwnKeys
  <2>6. \A a, b \in Clients : wkey'[a] = wkey'[b] /\ wkey'[a] # NoKey => a = b
    BY <2>2, <2>3, <2>4 DEF OwnKeys
  <2>7. QED
    BY <2>5, <2>6 DEF OwnKeys
<1>2. ASSUME NEW l \in Legacy, NEW i \in PhoneId, Connect(l, i) PROVE OwnKeys'
  <2>1. connCID' = connCID /\ \A c \in Clients : wkey'[c] = wkey[c]
    BY <1>2 DEF Connect, TypeOK, Waiters
  <2>2. QED
    BY <2>1 DEF OwnKeys
<1>3. CASE UNCHANGED <<wkey, connCID>>
  BY <1>3 DEF OwnKeys
<1>4. QED
  BY <1>1, <1>2, <1>3
  DEF Next, PhoneStep, PhoneLeaves, ClientStep, WaiterStep, DataStep, AllServed, Register, Announce, PhoneGone,
    ControlLost, Unregister, ClosePhone, Handshake, PickPhone, LookupCtrl, NotifyPhone, ReceiveData, Timeout,
    Forget, PipeEnds, DataArrives, TakeEntry, Deliver, CloseData, vars, waiting, clients

LEMMA InitOwnKeys == Init => OwnKeys
BY DEF Init, OwnKeys, Waiters

LEMMA OwnKeysHolds == Spec => []OwnKeys
BY InitOwnKeys, TypeInvHolds, OwnKeysStep, PTL DEF Spec

\* A client is joined only to a connection dialled for its own key, and no two
\* SOCKS5 clients are ever given the same key.
THEOREM PairingSafe == Spec => []PairedByKey
<1>1. TypeInv /\ MatchInv /\ OwnKeys => PairedByKey
  <2> SUFFICES ASSUME TypeInv, MatchInv, OwnKeys PROVE PairedByKey
    OBVIOUS
  <2>1. ASSUME NEW w \in Waiters, link[w] # NoConn PROVE dkey[link[w]] = wkey[w]
    <3>1. link[w] \in Datas /\ dest[link[w]] = w /\ w # NoConn
      BY <2>1, BrokerAssumption DEF TypeInv, TypeOK, MatchInv, HandedOn, Waiters
    <3>2. QED
      BY <3>1 DEF MatchInv, MatchedGone
  <2>2. QED
    BY <2>1 DEF PairedByKey, OwnKeys
<1>2. QED
  BY <1>1, OwnKeysHolds, TypeInvHolds, MatchHolds, PTL

(***************************************************************************)
(* The relay implements Rendezvous.  Asked, Held, Matched and Joined are   *)
(* the mapped variables.  A step that leaves wait, wkey, dest and link     *)
(* alone stutters; the others need to know that a client has no key before *)
(* it asks and no link before it receives one.                             *)
(***************************************************************************)
Asked   == {w \in Waiters : wkey[w] # NoKey}
Held    == {w \in Waiters : \E k \in Key : wait[k] = w}
Matched == {m \in Waiters \X Datas : dest[m[2]] = m[1]}
Joined  == {m \in Waiters \X Datas : link[m[1]] = m[2]}

Unused == \A w \in Waiters :
  /\ wpc[w] \in Fresh => wkey[w] = NoKey
  /\ link[w] # NoConn => wpc[w] \in {"piping", "closed"}

LEMMA UnusedStep == TypeInv /\ Unused /\ [Next]_vars => Unused'
<1> SUFFICES ASSUME TypeInv, Unused, [Next]_vars PROVE Unused'
  OBVIOUS
<1> USE BrokerAssumption DEF TypeInv, Unused, Fresh
<1>1. ASSUME NEW c \in Clients, Handshake(c) \/ ClientStep(c) PROVE Unused'
  <2>1. c \in Waiters /\ link' = link
        /\ \A v \in Waiters : v # c => wpc'[v] = wpc[v] /\ wkey'[v] = wkey[v]
    BY <1>1 DEF Handshake, ClientStep, PickPhone, Enqueue, Forget, Goto, TypeOK, Waiters
  <2>2. wpc'[c] \in Fresh => wkey'[c] = NoKey
    BY <1>1, <2>1 DEF Handshake, ClientStep, PickPhone, Enqueue, Forget, Goto, TypeOK
  <2>3. wpc[c] \notin {"piping", "closed"}
    BY <1>1 DEF Handshake, ClientStep, PickPhone, Enqueue, Forget
  <2>4. QED
    BY <2>1, <2>2, <2>3
<1>2. ASSUME NEW l \in Legacy, NEW i \in PhoneId, Connect(l, i) PROVE Unused'
  BY <1>2 DEF Connect, Goto, TypeOK, Waiters
<1>3. ASSUME NEW w \in Waiters, LookupCtrl(w) \/ NotifyPhone(w) \/ ReceiveData(w) \/ Timeout(w) \/ PipeEnds(w)
      PROVE  Unused'
  <2>1. wkey' = wkey /\ \A v \in Waiters : v # w => wpc'[v] = wpc[v] /\ link'[v] = link[v]
    BY <1>3 DEF LookupCtrl, NotifyPhone, ReceiveData, Timeout, PipeEnds, Goto, TypeOK
  <2>2. wpc'[w] \notin Fresh
    BY <1>3 DEF LookupCtrl, NotifyPhone, ReceiveData, Timeout, PipeEnds, Goto, TypeOK
  <2>3. link'[w] # NoConn => wpc'[w] \in {"piping", "closed"}
    BY <1>3 DEF LookupCtrl, NotifyPhone, ReceiveData, Timeout, PipeEnds, Goto, TypeOK
  <2>4. QED
    BY <2>1, <2>2, <2>3
<1>4. CASE UNCHANGED clients
  BY <1>4 DEF clients
<1>5. ASSUME NEW d \in Datas, Deliver(d) PROVE Unused'
  BY <1>5 DEF Deliver
<1>6. QED
  BY <1>1, <1>2, <1>3, <1>4, <1>5
  DEF Next, PhoneStep, PhoneLeaves, WaiterStep, DataStep, AllServed, Register, Announce, PhoneGone, ControlLost,
    Unregister, ClosePhone, DataArrives, TakeEntry, CloseData, vars

LEMMA UnusedHolds == Spec => []Unused
<1>1. Init => Unused
  BY DEF Init, Unused, Fresh
<1>2. QED
  BY <1>1, TypeInvHolds, UnusedStep, PTL DEF Spec

\* Writing a client's entry is its Ask; what stood under the key is replaced.
LEMMA AskStep ==
  ASSUME TypeInv, MatchInv, Unused, NEW w \in Waiters, NEW n \in Key, wpc[w] \in Fresh,
         wait' = [wait EXCEPT ![n] = w], wkey' = [wkey EXCEPT ![w] = n],
         UNCHANGED <<dest, link>>
  PROVE  \E v \in Waiters : R!Ask(w, v)
<1> USE BrokerAssumption DEF TypeInv
<1>1. w \notin Asked
  BY DEF Unused, Asked
<1>2. Asked' = Asked \cup {w}
  BY KeyFacts DEF Asked, TypeOK
<1>3. Matched' = Matched /\ Joined' = Joined
  BY DEF Matched, Joined
<1>4. PICK v \in Waiters : v = IF wait[n] = NoConn THEN w ELSE wait[n]
  BY DEF TypeOK
<1>5. ASSUME NEW u \in Waiters PROVE u \in Held' <=> u = w \/ (u \in Held /\ u # v)
  <2>1. CASE u = w
    BY <2>1 DEF Held, TypeOK
  <2>2. CASE u # w
    <3>1. u \in Held' <=> \E k \in Key : k # n /\ wait[k] = u
      BY <2>2 DEF Held, TypeOK
    <3>2. ASSUME NEW k \in Key, wait[k] = u PROVE k # n <=> u # v
      <4>1. k = wkey[u]
        BY <3>2 DEF MatchInv, EntryOwned
      <4>2. u # NoConn
        BY DEF Waiters
      <4>3. CASE u = v
        BY <1>4, <2>2, <3>2, <4>1, <4>3 DEF MatchInv, EntryOwned
      <4>4. CASE u # v
        BY <1>4, <3>2, <4>2, <4>4
      <4>5. QED
        BY <4>3, <4>4
    <3>3. QED
      BY <2>2, <3>1, <3>2 DEF Held
  <2>3. QED
    BY <2>1, <2>2
<1>6. Held' = (Held \ {v}) \cup {w}
  BY <1>5 DEF Held
<1>7. R!Ask(w, v)
  BY <1>1, <1>2, <1>3, <1>6 DEF R!Ask, Asked, Held, Matched, Joined
<1>8. QED
  BY <1>7

\* Deleting an entry is the Withdraw of its client, or no step at all.
LEMMA WithdrawStep ==
  ASSUME TypeInv, MatchInv, NEW k \in Key, DeleteEntry(k), UNCHANGED <<wkey, dest, link>>
  PROVE  (\E w \in Waiters : R!Withdraw(w)) \/ UNCHANGED <<Asked, Held, Matched, Joined>>
<1> USE BrokerAssumption DEF TypeInv
<1>1. UNCHANGED <<Asked, Matched, Joined>>
  BY DEF Asked, Matched, Joined
<1>2. CASE wait[k] = NoConn
  <2>1. wait' = wait
    BY <1>2 DEF DeleteEntry, TypeOK
  <2>2. QED
    BY <1>1, <2>1 DEF Held
<1>3. CASE wait[k] # NoConn
  <2>1. PICK w \in Waiters : wait[k] = w
    BY <1>3 DEF TypeOK
  <2>2. ASSUME NEW u \in Waiters PROVE u \in Held' <=> u \in Held /\ u # w
    BY <2>1 DEF Held, DeleteEntry, TypeOK, MatchInv, EntryOwned, Waiters
  <2>3. w \in Held /\ Held' = Held \ {w}
    BY <2>1, <2>2 DEF Held
  <2>4. QED
    BY <1>1, <2>3 DEF R!Withdraw, Asked, Held, Matched, Joined
<1>4. QED
  BY <1>2, <1>3

\* Taking an entry for a data connection is a Match.
LEMMA MatchStep ==
  ASSUME TypeInv, MatchInv, NEW d \in Datas, TakeEntry(d)
  PROVE  (\E w \in Waiters : R!Match(w, d)) \/ UNCHANGED <<Asked, Held, Matched, Joined>>
<1> USE BrokerAssumption DEF TypeInv
<1> DEFINE k == dkey[d]
<1>1. k \in Key /\ dest[d] = NoConn /\ dest' = [dest EXCEPT ![d] = wait[k]]
  BY DEF TakeEntry, EntryFor, Assigned, MatchInv, Unmatched
<1>2. UNCHANGED <<wkey, link>>
  BY DEF TakeEntry, clients
<1> HIDE DEF k
<1>3. UNCHANGED <<Asked, Joined>>
  BY <1>2 DEF Asked, Joined
<1>4. CASE wait[k] = NoConn
  <2>1. wait' = wait /\ dest' = dest
    BY <1>1, <1>4 DEF TakeEntry, TypeOK, k
  <2>2. QED
    BY <1>3, <2>1 DEF Held, Matched
<1>5. CASE wait[k] # NoConn
  <2>1. PICK w \in Waiters : wait[k] = w
    BY <1>1, <1>5 DEF TypeOK
  <2>2. wait' = [wait EXCEPT ![k] = NoConn]
    BY <1>5 DEF TakeEntry, DeleteEntry, k
  <2>3. ASSUME NEW u \in Waiters PROVE u \in Held' <=> u \in Held /\ u # w
    BY <1>1, <2>1, <2>2 DEF Held, TypeOK, MatchInv, EntryOwned, Waiters
  <2>4. w \in Held /\ Held' = Held \ {w}
    BY <1>1, <2>1, <2>3 DEF Held
  <2>5. \A v \in Waiters : <<v, d>> \notin Matched
    BY <1>1 DEF Matched, Waiters
  <2>6. ASSUME NEW m \in Waiters \X Datas PROVE m \in Matched' <=> m \in Matched \/ m = <<w, d>>
    <3>1. m[1] \in Waiters /\ m[2] \in Datas /\ m = <<m[1], m[2]>>
      BY <2>6
    <3>2. CASE m[2] = d
      BY <1>1, <2>1, <2>5, <3>1, <3>2 DEF Matched, TypeOK
    <3>3. CASE m[2] # d
      BY <1>1, <3>1, <3>3 DEF Matched, TypeOK
    <3>4. QED
      BY <3>2, <3>3
  <2>7. Matched' = Matched \cup {<<w, d>>}
    BY <2>6 DEF Matched
  <2>8. R!Match(w, d)
    BY <1>3, <2>4, <2>5, <2>7 DEF R!Match, Asked, Held, Matched, Joined
  <2>9. QED
    BY <2>8
<1>6. QED
  BY <1>4, <1>5

\* Receiving from the channel is a Join with the connection of the match.
LEMMA JoinStep ==
  ASSUME TypeInv, MatchInv, Unused, NEW w \in Waiters, ReceiveData(w)
  PROVE  \E d \in Datas : R!Join(w, d)
<1> USE BrokerAssumption DEF TypeInv
<1>1. PICK d \in Datas : dataCh[w] = d
  BY DEF ReceiveData, TypeOK
<1>2. /\ dest[d] = w /\ link[w] = NoConn /\ link' = [link EXCEPT ![w] = d]
      /\ UNCHANGED <<wait, wkey, dest>>
  BY <1>1 DEF ReceiveData, MatchInv, HandedOn, Unused, waiting, datas
<1>3. <<w, d>> \in Matched
  BY <1>2 DEF Matched
<1>4. ASSUME NEW m \in Waiters \X Datas PROVE m \in Joined' <=> m \in Joined \/ m = <<w, d>>
  <2>1. m[1] \in Waiters /\ m[2] \in Datas /\ m = <<m[1], m[2]>>
    BY <1>4
  <2>2. CASE m[1] = w
    BY <1>2, <2>1, <2>2 DEF Joined, TypeOK
  <2>3. CASE m[1] # w
    BY <1>2, <2>1, <2>3 DEF Joined, TypeOK
  <2>4. QED
    BY <2>2, <2>3
<1>5. Joined' = Joined \cup {<<w, d>>}
  BY <1>4 DEF Joined
<1>6. R!Join(w, d)
  BY <1>2, <1>3, <1>5 DEF R!Join, Asked, Held, Matched, Joined
<1>7. QED
  BY <1>6

LEMMA RendezvousStep == TypeInv /\ MatchInv /\ Unused /\ [Next]_vars => [R!Next]_(R!vars)
<1> SUFFICES ASSUME TypeInv, MatchInv, Unused, [Next]_vars
             PROVE  R!Next \/ UNCHANGED <<Asked, Held, Matched, Joined>>
  BY DEF R!vars, Asked, Held, Matched, Joined
<1>1. CASE UNCHANGED <<wait, wkey, dest, link>>
  BY <1>1 DEF Asked, Held, Matched, Joined
<1>2. ASSUME NEW c \in Clients, Enqueue(c) PROVE R!Next
  <2>1. c \in Waiters /\ wpc[c] \in Fresh /\ CKey(connCID') \in Key
    BY <1>2, KeyFacts, BrokerAssumption DEF Enqueue, Fresh, Waiters, TypeInv, TypeOK
  <2>2. \E v \in Waiters : R!Ask(c, v)
    BY <1>2, <2>1, AskStep DEF Enqueue, datas
  <2>3. QED
    BY <2>1, <2>2 DEF R!Next
<1>3. ASSUME NEW l \in Legacy, NEW i \in PhoneId, Connect(l, i) PROVE R!Next
  <2>1. l \in Waiters /\ wpc[l] \in Fresh /\ PKey(i) \in Key
    BY <1>3, KeyFacts DEF Connect, Fresh, Waiters
  <2>2. \E v \in Waiters : R!Ask(l, v)
    BY <1>3, <2>1, AskStep DEF Connect, datas
  <2>3. QED
    BY <2>1, <2>2 DEF R!Next
<1>4. ASSUME NEW c \in Clients, Forget(c)
      PROVE  R!Next \/ UNCHANGED <<Asked, Held, Matched, Joined>>
  <2>1. wkey[c] \in Key /\ DeleteEntry(wkey[c]) /\ UNCHANGED <<wkey, dest, link>>
    BY <1>4 DEF Forget, TypeInv, Assigned, Pending, Waiters, datas
  <2>2. QED
    BY <2>1, WithdrawStep DEF R!Next
<1>5. ASSUME NEW d \in Datas, TakeEntry(d)
      PROVE  R!Next \/ UNCHANGED <<Asked, Held, Matched, Joined>>
  BY <1>5, MatchStep DEF R!Next
<1>6. ASSUME NEW w \in Waiters, ReceiveData(w) PROVE R!Next
  BY <1>6, JoinStep DEF R!Next
<1>7. QED
  BY <1>1, <1>2, <1>3, <1>4, <1>5, <1>6
  DEF Next, PhoneStep, PhoneLeaves, ClientStep, WaiterStep, DataStep, AllServed, Register, Announce, PhoneGone,
    ControlLost, Unregister, ClosePhone, Handshake, PickPhone, LookupCtrl, NotifyPhone, Timeout, PipeEnds,
    DataArrives, Deliver, CloseData, vars, waiting, clients, datas

\* The relay implements Rendezvous: whatever ids, maps, locks, timers and lost
\* phones do, clients and data connections are matched one to one and a
\* client gets the connection it was matched with.
THEOREM RelayImplementsRendezvous == Spec => ImplementsRendezvous
<1>1. Init => R!Init
  BY BrokerAssumption DEF Init, R!Init, Waiters
<1>2. QED
  BY <1>1, TypeInvHolds, MatchHolds, UnusedHolds, RendezvousStep, PTL
  DEF Spec, ImplementsRendezvous, R!Spec

(***************************************************************************)
(* The lines that are written to the phones.  A SOCKS5 client's line names *)
(* its cid, and its handler writes it at most once, at one point; ToldOnce *)
(* needs that the client of a line that was written is past that point     *)
(* (Told) and that no "connect:" client has a cid for its key.             *)
(***************************************************************************)
CidKey  == {CKey(n) : n \in 1..MaxCid}
Untold  == Fresh \cup {"queued", "looked"}
Lines(p) == 1..Len(sent[p])

LegacyKeys == \A l \in Legacy : wkey[l] \notin CidKey

IdOnce == \A p \in Phones :
  /\ ppc[p] \in {"idle", "announce"} => \A m \in Lines(p) : sent[p][m] # IdLine
  /\ \A m, n \in Lines(p) : sent[p][m] = IdLine /\ sent[p][n] = IdLine => m = n

Told == \A p \in Phones : \A m \in Lines(p) : sent[p][m] \in CidKey =>
  \E c \in Clients : wkey[c] = sent[p][m] /\ wpc[c] \notin Untold

ToldOnce == \A p, q \in Phones : \A m \in Lines(p), n \in Lines(q) :
  sent[p][m] = sent[q][n] /\ sent[p][m] \in CidKey => p = q /\ m = n

LineInv == LegacyKeys /\ IdOnce /\ Told /\ ToldOnce

\* The three kinds of lines are told apart.
LEMMA LineKinds ==
  /\ \A i : PKey(i) \notin CidKey /\ PKey(i) # IdLine
  /\ \A n : CKey(n) # IdLine
  /\ NoKey \notin CidKey /\ IdLine \notin Key /\ CidKey \subseteq Key
BY DEF PKey, CKey, IdLine, NoKey, CidKey, Key

LEMMA SentChanges ==
  ASSUME [Next]_vars
  PROVE  \/ sent' = sent
         \/ \E p \in Phones : Announce(p)
         \/ \E w \in Waiters : NotifyPhone(w)
BY DEF Next, PhoneStep, PhoneLeaves, ClientStep, WaiterStep, DataStep, AllServed, Register, PhoneGone,
  ControlLost, Unregister, ClosePhone, Handshake, PickPhone, Enqueue, Connect, LookupCtrl, ReceiveData, Timeout,
  Forget, PipeEnds, DataArrives, TakeEntry, Deliver, CloseData, vars, phones

\* A client whose line may have been written keeps its key and does not go back.
LEMMA StaysTold ==
  ASSUME TypeInv, [Next]_vars, NEW c \in Clients, wpc[c] \notin Untold
  PROVE  wkey'[c] = wkey[c] /\ wpc'[c] \notin Untold
<1> USE BrokerAssumption DEF TypeInv, TypeOK, Untold, Fresh, Goto
<1>0. c \in Waiters /\ c \notin Legacy
  BY DEF Waiters
<1>1. ASSUME NEW b \in Clients, Handshake(b) \/ ClientStep(b)
      PROVE  wkey'[c] = wkey[c] /\ wpc'[c] \notin Untold
  BY <1>0, <1>1 DEF Handshake, ClientStep, PickPhone, Enqueue, Forget
<1>2. ASSUME NEW l \in Legacy, NEW i \in PhoneId, Connect(l, i)
      PROVE  wkey'[c] = wkey[c] /\ wpc'[c] \notin Untold
  BY <1>0, <1>2 DEF Connect
<1>3. ASSUME NEW w \in Waiters, WaiterStep(w) \/ PipeEnds(w)
      PROVE  wkey'[c] = wkey[c] /\ wpc'[c] \notin Untold
  BY <1>0, <1>3 DEF WaiterStep, LookupCtrl, NotifyPhone, ReceiveData, Timeout, PipeEnds
<1>4. CASE UNCHANGED <<wpc, wkey>>
  BY <1>4
<1>5. QED
  BY <1>1, <1>2, <1>3, <1>4
  DEF Next, PhoneStep, PhoneLeaves, DataStep, AllServed, Register, Announce, PhoneGone, ControlLost, Unregister, ClosePhone,
    DataArrives, TakeEntry, Deliver, CloseData, vars, clients

LEMMA LegacyKeysStep == TypeInv /\ LegacyKeys /\ [Next]_vars => LegacyKeys'
<1> SUFFICES ASSUME TypeInv, LegacyKeys, [Next]_vars, NEW l \in Legacy PROVE wkey'[l] \notin CidKey
  BY DEF LegacyKeys
<1> USE BrokerAssumption DEF TypeInv, TypeOK
<1>0. l \in Waiters /\ l \notin Clients /\ wkey[l] \notin CidKey
  BY DEF Waiters, LegacyKeys
<1>1. ASSUME NEW c \in Clients, Enqueue(c) PROVE wkey'[l] \notin CidKey
  BY <1>0, <1>1 DEF Enqueue
<1>2. ASSUME NEW k \in Legacy, NEW i \in PhoneId, Connect(k, i) PROVE wkey'[l] \notin CidKey
  BY <1>0, <1>2, LineKinds DEF Connect
<1>3. CASE UNCHANGED wkey
  BY <1>0, <1>3
<1>4. QED
  BY <1>1, <1>2, <1>3
  DEF Next, PhoneStep, PhoneLeaves, ClientStep, WaiterStep, DataStep, AllServed, Register, Announce, PhoneGone,
    ControlLost, Unregister, ClosePhone, Handshake, PickPhone, LookupCtrl, NotifyPhone, ReceiveData, Timeout,
    Forget, PipeEnds, DataArrives, TakeEntry, Deliver, CloseData, vars, clients

\* A line that is written is the last of its phone, and no other changes.
LEMMA Written ==
  ASSUME TypeInv, NEW p \in Phones, NEW x \in Line, sent' = [sent EXCEPT ![p] = Append(@, x)]
  PROVE  /\ \A q \in Phones : q # p => sent'[q] = sent[q] /\ Lines(q)' = Lines(q)
         /\ Lines(p)' = Lines(p) \cup {Len(sent[p]) + 1} /\ Len(sent[p]) + 1 \notin Lines(p)
         /\ \A m \in Lines(p) : sent'[p][m] = sent[p][m]
         /\ sent'[p][Len(sent[p]) + 1] = x
<1>1. sent[p] \in Seq(Line) /\ sent'[p] = Append(sent[p], x)
  BY DEF TypeInv, TypeOK
<1>2. \A q \in Phones : q # p => sent'[q] = sent[q]
  BY DEF TypeInv, TypeOK
<1>3. Len(sent[p]) \in Nat /\ Len(sent'[p]) = Len(sent[p]) + 1
      /\ sent'[p][Len(sent[p]) + 1] = x /\ \A m \in 1..Len(sent[p]) : sent'[p][m] = sent[p][m]
  BY <1>1
<1>4. QED
  BY <1>2, <1>3 DEF Lines

\* The line of a SOCKS5 client, which writes it here, has not been written yet.
LEMMA NotYetTold ==
  ASSUME TypeInv, OwnKeys, LineInv, NEW w \in Waiters, wpc[w] = "looked", wkey[w] \in CidKey
  PROVE  w \in Clients /\ \A p \in Phones : \A m \in Lines(p) : sent[p][m] # wkey[w]
<1>1. w \in Clients
  BY DEF LineInv, LegacyKeys, Waiters
<1>2. ASSUME NEW p \in Phones, NEW m \in Lines(p), sent[p][m] = wkey[w] PROVE FALSE
  <2>1. PICK c \in Clients : wkey[c] = wkey[w] /\ wpc[c] \notin Untold
    BY <1>2 DEF LineInv, Told
  <2>2. c = w
    BY <1>1, <2>1, LineKinds DEF OwnKeys
  <2>3. QED
    BY <2>1, <2>2 DEF Untold
<1>3. QED
  BY <1>1, <1>2

LEMMA LineStep == TypeInv /\ OwnKeys /\ LineInv /\ [Next]_vars => LineInv'
<1> SUFFICES ASSUME TypeInv, OwnKeys, LineInv, [Next]_vars PROVE IdOnce' /\ Told' /\ ToldOnce'
  BY LegacyKeysStep DEF LineInv
<1>0. \A p \in Phones : ppc'[p] \in {"idle", "announce"} => ppc[p] \in {"idle", "announce"}
  BY DEF Next, PhoneStep, PhoneLeaves, ClientStep, WaiterStep, DataStep, AllServed, Register, Announce, PhoneGone,
    ControlLost, Unregister, ClosePhone, Handshake, PickPhone, Enqueue, Connect, LookupCtrl, NotifyPhone,
    ReceiveData, Timeout, Forget, PipeEnds, DataArrives, TakeEntry, Deliver, CloseData, vars, phones,
    TypeInv, TypeOK
<1>1. ASSUME NEW k \in CidKey, \E c \in Clients : wkey[c] = k /\ wpc[c] \notin Untold
      PROVE  (\E c \in Clients : wkey[c] = k /\ wpc[c] \notin Untold)'
  BY <1>1, StaysTold
<1>2. CASE sent' = sent
  <2>1. \A p \in Phones : Lines(p)' = Lines(p)
    BY <1>2 DEF Lines
  <2>2. IdOnce' /\ ToldOnce'
    BY <1>0, <1>2, <2>1 DEF LineInv, IdOnce, ToldOnce
  <2>3. Told'
    BY <1>1, <1>2, <2>1 DEF LineInv, Told
  <2>4. QED
    BY <2>2, <2>3
<1>3. ASSUME NEW p \in Phones, NEW x \in Line, sent' = [sent EXCEPT ![p] = Append(@, x)],
             x \in CidKey => \A q \in Phones : \A m \in Lines(q) : sent[q][m] # x,
             x \in CidKey => (\E c \in Clients : wkey[c] = x /\ wpc[c] \notin Untold)',
             x = IdLine => ppc[p] = "announce" /\ ppc'[p] = "serving"
      PROVE  IdOnce' /\ Told' /\ ToldOnce'
  <2> DEFINE N == Len(sent[p]) + 1
  <2>1. /\ \A q \in Phones : q # p => sent'[q] = sent[q] /\ Lines(q)' = Lines(q)
        /\ Lines(p)' = Lines(p) \cup {N} /\ N \notin Lines(p)
        /\ \A m \in Lines(p) : sent'[p][m] = sent[p][m]
        /\ sent'[p][N] = x
    BY <1>3, Written
  <2> HIDE DEF N
  <2>2. IdOnce'
    <3>1. ASSUME NEW q \in Phones, ppc'[q] \in {"idle", "announce"}, NEW m \in Lines(q)'
          PROVE  sent'[q][m] # IdLine
      <4>1. ppc[q] \in {"idle", "announce"} /\ (q = p => x # IdLine)
        BY <1>0, <1>3, <3>1
      <4>2. \A n \in Lines(q) : sent[q][n] # IdLine
        BY <4>1 DEF LineInv, IdOnce
      <4>3. QED
        BY <2>1, <4>1, <4>2
    <3>2. ASSUME NEW q \in Phones, NEW m \in Lines(q)', NEW n \in Lines(q)',
                 sent'[q][m] = IdLine, sent'[q][n] = IdLine
          PROVE  m = n
      <4>1. CASE q = p /\ x = IdLine
        <5>1. \A l \in Lines(p) : sent[p][l] # IdLine
          BY <1>3, <4>1 DEF LineInv, IdOnce
        <5>2. QED
          BY <2>1, <3>2, <4>1, <5>1
      <4>2. CASE q # p \/ x # IdLine
        <5>1. m \in Lines(q) /\ n \in Lines(q) /\ sent[q][m] = IdLine /\ sent[q][n] = IdLine
          BY <2>1, <3>2, <4>2
        <5>2. QED
          BY <5>1 DEF LineInv, IdOnce
      <4>3. QED
        BY <4>1, <4>2
    <3>3. QED
      BY <3>1, <3>2 DEF IdOnce
  <2>3. Told'
    <3>1. ASSUME NEW q \in Phones, NEW m \in Lines(q)', sent'[q][m] \in CidKey
          PROVE  (\E c \in Clients : wkey[c] = sent[q][m] /\ wpc[c] \notin Untold)'
      <4>1. CASE q = p /\ m = N
        BY <1>3, <2>1, <3>1, <4>1
      <4>2. CASE ~(q = p /\ m = N)
        <5>1. m \in Lines(q) /\ sent'[q][m] = sent[q][m]
          BY <2>1, <4>2
        <5>2. \E c \in Clients : wkey[c] = sent[q][m] /\ wpc[c] \notin Untold
          BY <3>1, <5>1 DEF LineInv, Told
        <5>3. QED
          BY <1>1, <3>1, <5>1, <5>2
      <4>3. QED
        BY <4>1, <4>2
    <3>2. CidKey' = CidKey
      OBVIOUS
    <3>3. QED
      BY <3>1 DEF Told
  <2>4. ToldOnce'
    <3>1. ASSUME NEW q \in Phones, NEW r \in Phones, NEW m \in Lines(q)', NEW n \in Lines(r)',
                 sent'[q][m] = sent'[r][n], sent'[q][m] \in CidKey
          PROVE  q = r /\ m = n
      <4>1. CASE q = p /\ m = N
        <5>1. x \in CidKey /\ \A a \in Phones : \A b \in Lines(a) : sent[a][b] # x
          BY <1>3, <2>1, <3>1, <4>1
        <5>2. QED
          BY <2>1, <3>1, <4>1, <5>1
      <4>2. CASE r = p /\ n = N
        <5>1. x \in CidKey /\ \A a \in Phones : \A b \in Lines(a) : sent[a][b] # x
          BY <1>3, <2>1, <3>1, <4>2
        <5>2. QED
          BY <2>1, <3>1, <4>2, <5>1
      <4>3. CASE ~(q = p /\ m = N) /\ ~(r = p /\ n = N)
        <5>1. m \in Lines(q) /\ sent'[q][m] = sent[q][m] /\ n \in Lines(r) /\ sent'[r][n] = sent[r][n]
          BY <2>1, <4>3
        <5>2. QED
          BY <3>1, <5>1 DEF LineInv, ToldOnce
      <4>4. QED
        BY <4>1, <4>2, <4>3
    <3>2. QED
      BY <3>1 DEF ToldOnce
  <2>5. QED
    BY <2>2, <2>3, <2>4
<1>4. ASSUME NEW p \in Phones, Announce(p) PROVE IdOnce' /\ Told' /\ ToldOnce'
  <2>1. IdLine \in Line /\ IdLine \notin CidKey
    BY LineKinds DEF Line, CidKey
  <2>2. /\ sent' = [sent EXCEPT ![p] = Append(@, IdLine)]
        /\ ppc[p] = "announce" /\ ppc'[p] = "serving"
    BY <1>4 DEF Announce, TypeInv, TypeOK
  <2>3. QED
    BY <1>3, <2>1, <2>2
<1>5. ASSUME NEW w \in Waiters, NotifyPhone(w), sent' # sent PROVE IdOnce' /\ Told' /\ ToldOnce'
  <2>1. /\ sent' = [sent EXCEPT ![sc[w]] = Append(@, wkey[w])]
        /\ wpc[w] = "looked" /\ wpc' = [wpc EXCEPT ![w] = "waiting"] /\ wkey' = wkey
    BY <1>5 DEF NotifyPhone, Goto
  <2>2. sc[w] \in Phones /\ wkey[w] \in Key /\ wkey[w] \in Line /\ wkey[w] # IdLine
    BY <2>1, LineKinds DEF TypeInv, Assigned, Pending, Line
  <2>3. wkey[w] \in CidKey =>
          /\ \A q \in Phones : \A m \in Lines(q) : sent[q][m] # wkey[w]
          /\ (\E c \in Clients : wkey[c] = wkey[w] /\ wpc[c] \notin Untold)'
    <3>1. wpc'[w] = "waiting" /\ "waiting" \notin Untold
      BY <2>1 DEF TypeInv, TypeOK, Untold, Fresh
    <3>2. QED
      BY <2>1, <3>1, NotYetTold
  <2>4. QED
    BY <1>3, <2>1, <2>2, <2>3
<1>6. QED
  BY <1>2, <1>4, <1>5, SentChanges

LEMMA InitLines == Init => LineInv
<1> SUFFICES ASSUME Init PROVE LineInv
  OBVIOUS
<1>1. \A p \in Phones : Lines(p) = {}
  BY DEF Init, Lines
<1>2. LegacyKeys
  BY LineKinds DEF Init, LegacyKeys, Waiters
<1>3. QED
  BY <1>1, <1>2 DEF LineInv, IdOnce, Told, ToldOnce

LEMMA LinesHold == Spec => []LineInv
BY InitLines, TypeInvHolds, OwnKeysHolds, LineStep, PTL DEF Spec

\* The relay asks for a SOCKS5 request's data connection at most once, in one
\* line to one phone, whatever is registered or lost in between.
THEOREM RequestToldOnce == Spec => []ToldOnce
<1>1. LineInv => ToldOnce
  BY DEF LineInv
<1>2. QED
  BY <1>1, LinesHold, PTL

(***************************************************************************)
(* The phone side (RelayTunnel).  Its steps are steps of the relay alone,  *)
(* so every theorem above holds of the two together.  What its own         *)
(* variables are needs the line that StartRelayTunnel reads first to be    *)
(* the id, and no other line to be one: then the read loop finds a key in  *)
(* every line.                                                             *)
(***************************************************************************)
AgentTypes ==
  /\ apc \in [Phones -> AgentState] /\ reader \in [Phones -> ReaderState]
  /\ seen \in [Phones -> Nat] /\ \A p \in Phones : seen[p] <= Len(sent[p])
  /\ hpc \in [Datas -> HandlerState]
  /\ owner \in [Datas -> Phones \cup {NoConn}] /\ job \in [Datas -> Key \cup {NoKey}]

AgentPoints == \A p \in Phones :
  /\ ppc[p] # "idle" => pid[p] \in PhoneId
  /\ apc[p] = "idle" => ppc[p] = "idle"
  /\ apc[p] = "registering" => ppc[p] # "idle"
  /\ apc[p] \in {"idle", "registering"} => seen[p] = 0 /\ reader[p] = "none"
  /\ reader[p] = "reading" => ppc[p] # "idle" /\ seen[p] >= 1 /\ sent[p][1] = IdLine

AgentInv == AgentTypes /\ AgentPoints /\ RegisteredPhonesListen

\* A step of the phone side is one of these.
Elsewhere == nextID' = nextID /\ hpc' \in [Datas -> HandlerState] /\ UNCHANGED <<agents, owner, job>>

LEMMA HandlerSteps ==
  ASSUME TypeInv, AgentTypes, NEW d \in Datas, HandlerStep(d) \/ LineArrives(d)
  PROVE  [Next]_vars /\ Elsewhere
<1>1. CASE HandlerStep(d)
  BY <1>1 DEF HandlerStep, DialRelay, GetReady, DialTarget, RelayEnds, HandlerGoto,
    Elsewhere, AgentTypes, HandlerState, vars, registry
<1>2. CASE LineArrives(d)
  <2>1. Issued \subseteq Key
    <3>1. 1..nextID \subseteq PhoneId /\ 1..connCID \subseteq 1..MaxCid
      BY BrokerAssumption DEF TypeInv, TypeOK, PhoneId
    <3>2. QED
      BY <3>1, KeyFacts DEF Issued
  <2>2. job[d] \in Key
    BY <1>2, <2>1 DEF LineArrives, DataArrives
  <2>3. Next
    BY <1>2, <2>2 DEF LineArrives, Next
  <2>4. Elsewhere
    BY <1>2 DEF LineArrives, DataArrives, handlers, Elsewhere, AgentTypes, registry
  <2>5. QED
    BY <2>3, <2>4
<1>3. QED
  BY <1>1, <1>2

LEMMA RelaySteps ==
  ASSUME TypeInv, AgentTypes, UNCHANGED <<agents, handlers>>,
         \/ \E p \in Phones : Announce(p) \/ PhoneLeaves(p) \/ PhoneGone(p)
         \/ \E c \in Clients : Handshake(c) \/ ClientStep(c)
         \/ \E l \in Legacy, i \in PhoneId : Connect(l, i)
         \/ \E w \in Waiters : WaiterStep(w) \/ PipeEnds(w)
         \/ \E d \in Datas : DataStep(d)
         \/ UNCHANGED vars
  PROVE  [Next]_vars /\ Elsewhere
<1>1. [Next]_vars
  BY DEF Next, PhoneStep
<1>2. nextID' = nextID
  BY DEF Announce, PhoneLeaves, ControlLost, Unregister, ClosePhone, PhoneGone, Handshake, ClientStep, PickPhone, Enqueue,
    Forget, Connect, WaiterStep, LookupCtrl, NotifyPhone, ReceiveData, Timeout, PipeEnds, DataStep,
    TakeEntry, Deliver, CloseData, vars, registry
<1>3. QED
  BY <1>1, <1>2 DEF Elsewhere, handlers, AgentTypes

LEMMA TunnelSteps ==
  ASSUME TypeInv, AgentTypes, [TunnelNext]_tvars
  PROVE  \/ \E p \in Phones : \/ DialAndRegister(p) \/ ReadId(p) \/ ReadLine(p)
                              \/ LoseCtrl(p) \/ Stop(p)
         \/ [Next]_vars /\ Elsewhere
<1>1. ASSUME NEW p \in Phones, RelayStep(Announce(p) \/ PhoneLeaves(p) \/ PhoneGone(p))
      PROVE  [Next]_vars /\ Elsewhere
  BY <1>1, RelaySteps DEF RelayStep
<1>2. ASSUME NEW c \in Clients, RelayStep(Handshake(c) \/ ClientStep(c))
      PROVE  [Next]_vars /\ Elsewhere
  BY <1>2, RelaySteps DEF RelayStep
<1>3. ASSUME NEW l \in Legacy, NEW i \in PhoneId, RelayStep(Connect(l, i))
      PROVE  [Next]_vars /\ Elsewhere
  BY <1>3, RelaySteps DEF RelayStep
<1>4. ASSUME NEW w \in Waiters, RelayStep(WaiterStep(w) \/ PipeEnds(w))
      PROVE  [Next]_vars /\ Elsewhere
  BY <1>4, RelaySteps DEF RelayStep
<1>5. ASSUME NEW d \in Datas, RelayStep(DataStep(d)) PROVE [Next]_vars /\ Elsewhere
  BY <1>5, RelaySteps DEF RelayStep
<1>6. CASE UNCHANGED tvars
  <2>1. UNCHANGED vars /\ UNCHANGED <<agents, handlers>>
    BY <1>6 DEF tvars
  <2>2. QED
    BY <2>1, RelaySteps
<1>7. QED
  BY <1>1, <1>2, <1>3, <1>4, <1>5, <1>6, HandlerSteps DEF TunnelNext, AgentStep, AllLeft

\* Every step of the two together is a step of the relay or leaves it alone.
LEMMA TunnelRefines == TypeInv /\ AgentTypes /\ [TunnelNext]_tvars => [Next]_vars
<1> SUFFICES ASSUME TypeInv, AgentTypes, [TunnelNext]_tvars PROVE [Next]_vars
  OBVIOUS
<1>1. ASSUME NEW p \in Phones, DialAndRegister(p) PROVE [Next]_vars
  BY <1>1 DEF DialAndRegister, Next, PhoneStep
<1>2. ASSUME NEW p \in Phones, CloseCtrl(p) PROVE [Next]_vars
  BY <1>2 DEF CloseCtrl, Next
<1>3. ASSUME NEW p \in Phones, ReadId(p) \/ Stop(p) PROVE [Next]_vars
  BY <1>2, <1>3 DEF ReadId, Stop
<1>4. ASSUME NEW p \in Phones, ReadLine(p) \/ LoseCtrl(p) PROVE [Next]_vars
  BY <1>4 DEF ReadLine, LoseCtrl
<1>5. QED
  BY <1>1, <1>3, <1>4, TunnelSteps

\* No line that was written is changed or taken back.
LEMMA SentGrows ==
  ASSUME TypeInv, [Next]_vars, NEW p \in Phones
  PROVE  /\ Len(sent[p]) \in Nat /\ Len(sent'[p]) \in Nat /\ Len(sent[p]) <= Len(sent'[p])
         /\ \A m \in Lines(p) : sent'[p][m] = sent[p][m]
<1>0. sent[p] \in Seq(Line) /\ Len(sent[p]) \in Nat
  BY DEF TypeInv, TypeOK
<1>1. ASSUME NEW q \in Phones, NEW x \in Line, sent' = [sent EXCEPT ![q] = Append(@, x)]
      PROVE  sent'[p] = sent[p] \/ sent'[p] = Append(sent[p], x)
  BY <1>1 DEF TypeInv, TypeOK
<1>2. sent'[p] = sent[p] \/ \E x \in Line : sent'[p] = Append(sent[p], x)
  <2>1. ASSUME NEW q \in Phones, Announce(q)
        PROVE  sent' = [sent EXCEPT ![q] = Append(@, IdLine)] /\ IdLine \in Line
    BY <2>1 DEF Announce, Line
  <2>2. ASSUME NEW w \in Waiters, NotifyPhone(w)
        PROVE  \/ sent' = sent
               \/ /\ sent' = [sent EXCEPT ![sc[w]] = Append(@, wkey[w])]
                  /\ sc[w] \in Phones /\ wkey[w] \in Line
    BY <2>2 DEF NotifyPhone, TypeInv, Assigned, Pending, Line
  <2>3. QED
    BY <1>1, <2>1, <2>2, SentChanges
<1>3. CASE sent'[p] = sent[p]
  BY <1>0, <1>3
<1>4. ASSUME NEW x \in Line, sent'[p] = Append(sent[p], x)
      PROVE  Len(sent'[p]) = Len(sent[p]) + 1 /\ \A m \in Lines(p) : sent'[p][m] = sent[p][m]
  BY <1>0, <1>4 DEF Lines
<1>5. QED
  BY <1>0, <1>2, <1>3, <1>4

\* While nobody registers, phones only leave.
LEMMA PhonesLeave ==
  ASSUME TypeInv, [Next]_vars, nextID' = nextID, NEW p \in Phones
  PROVE  /\ pid'[p] = pid[p] /\ (up'[p] => up[p]) /\ (ppc'[p] = "idle" <=> ppc[p] = "idle")
         /\ ppc'[p] \in {"announce", "serving"} => ppc[p] \in {"announce", "serving"}
<1>1. ASSUME NEW q \in Phones, Register(q) PROVE FALSE
  BY <1>1 DEF Register, TypeInv, TypeOK
<1>2. ASSUME NEW q \in Phones, Announce(q) \/ PhoneLeaves(q) \/ PhoneGone(q)
      PROVE  /\ pid'[p] = pid[p] /\ (up'[p] => up[p]) /\ (ppc'[p] = "idle" <=> ppc[p] = "idle")
             /\ ppc'[p] \in {"announce", "serving"} => ppc[p] \in {"announce", "serving"}
  BY <1>2 DEF Announce, PhoneLeaves, ControlLost, Unregister, ClosePhone, PhoneGone, TypeInv, TypeOK
<1>3. CASE UNCHANGED <<ppc, pid, up>>
  BY <1>3
<1>4. QED
  BY <1>1, <1>2, <1>3
  DEF Next, PhoneStep, PhoneLeaves, ClientStep, WaiterStep, DataStep, AllServed, Handshake, PickPhone, Enqueue,
    Connect, LookupCtrl, NotifyPhone, ReceiveData, Timeout, Forget, PipeEnds, DataArrives, TakeEntry,
    Deliver, CloseData, vars, phones

LEMMA AgentRegister ==
  ASSUME TypeInv, AgentInv, NEW p \in Phones, DialAndRegister(p)
  PROVE  AgentInv'
<1>1. apc[p] = "idle" /\ ppc[p] = "idle" /\ UNCHANGED <<reader, seen, hpc, owner, job>>
  BY DEF DialAndRegister, AgentInv, AgentPoints, handlers
<1>2. CASE UNCHANGED vars /\ apc' = [apc EXCEPT ![p] = "failed"]
  <2>1. UNCHANGED <<ppc, pid, up, sent>>
    BY <1>2 DEF vars, phones
  <2>2. QED
    BY <1>1, <1>2, <2>1 DEF AgentInv, AgentTypes, AgentState, AgentPoints, RegisteredPhonesListen
<1>3. CASE Register(p) /\ apc' = [apc EXCEPT ![p] = "registering"]
  <2>1. /\ ppc' = [ppc EXCEPT ![p] = "announce"] /\ pid' = [pid EXCEPT ![p] = nextID + 1]
        /\ nextID + 1 \in PhoneId /\ UNCHANGED <<up, sent>>
        /\ ppc \in [Phones -> PhoneState] /\ pid \in [Phones -> 0..MaxId]
    BY <1>3, BrokerAssumption DEF Register, TypeInv, TypeOK, PhoneId
  <2>2. AgentTypes'
    BY <1>1, <1>3, <2>1 DEF AgentInv, AgentTypes, AgentState
  <2>3. AgentPoints'
    BY <1>1, <1>3, <2>1 DEF AgentInv, AgentTypes, AgentPoints
  <2>4. RegisteredPhonesListen'
    BY <1>1, <1>3, <2>1 DEF AgentInv, AgentTypes, RegisteredPhonesListen
  <2>5. QED
    BY <2>2, <2>3, <2>4 DEF AgentInv
<1>4. QED
  BY <1>2, <1>3 DEF DialAndRegister

\* ctrl.Close() leaves no live connection behind.
LEMMA Closes ==
  ASSUME TypeInv, NEW p \in Phones, CloseCtrl(p)
  PROVE  /\ ~up'[p] /\ UNCHANGED <<ppc, pid, sent>>
         /\ \A q \in Phones : up'[q] => up[q]
<1>1. CASE PhoneGone(p)
  BY <1>1 DEF PhoneGone, TypeInv, TypeOK
<1>2. CASE ~up[p] /\ UNCHANGED vars
  BY <1>2 DEF vars, phones
<1>3. QED
  BY <1>1, <1>2 DEF CloseCtrl

LEMMA AgentReadId ==
  ASSUME TypeInv, AgentInv, NEW p \in Phones, ReadId(p)
  PROVE  AgentInv'
<1>1. apc[p] = "registering" /\ seen[p] = 0 /\ ppc[p] # "idle" /\ UNCHANGED <<hpc, owner, job>>
  BY DEF ReadId, AgentInv, AgentPoints, handlers
<1>2. Len(sent[p]) \in Nat /\ sent[p] \in Seq(Line)
  BY DEF TypeInv, TypeOK
<1>3. CASE /\ Unread(p) > 0 /\ seen' = [seen EXCEPT ![p] = 1] /\ Head(sent[p]) = IdLine
           /\ apc' = [apc EXCEPT ![p] = "serving"] /\ reader' = [reader EXCEPT ![p] = "reading"]
           /\ UNCHANGED vars
  <2>1. Len(sent[p]) >= 1 /\ sent[p][1] = IdLine
    BY <1>1, <1>2, <1>3 DEF Unread
  <2>2. UNCHANGED <<ppc, pid, up, sent>>
    BY <1>3 DEF vars, phones
  <2>3. AgentTypes'
    BY <1>1, <1>3, <2>1, <2>2 DEF AgentInv, AgentTypes, AgentState, ReaderState
  <2>4. AgentPoints'
    BY <1>1, <1>3, <2>1, <2>2 DEF AgentInv, AgentTypes, AgentPoints
  <2>5. RegisteredPhonesListen'
    BY <1>1, <1>3, <2>2 DEF AgentInv, AgentTypes, RegisteredPhonesListen
  <2>6. QED
    BY <2>3, <2>4, <2>5 DEF AgentInv
<1>4. CASE /\ seen' = seen \/ (Unread(p) > 0 /\ seen' = [seen EXCEPT ![p] = 1])
           /\ apc' = [apc EXCEPT ![p] = "failed"] /\ reader' = reader
           /\ ~up'[p] /\ UNCHANGED <<ppc, pid, sent>> /\ \A q \in Phones : up'[q] => up[q]
  <2>1. AgentTypes'
    <3>1. seen' \in [Phones -> Nat] /\ \A q \in Phones : seen'[q] <= Len(sent'[q])
      <4>1. CASE seen' = seen
        BY <1>4, <4>1 DEF AgentInv, AgentTypes
      <4>2. CASE Unread(p) > 0 /\ seen' = [seen EXCEPT ![p] = 1]
        <5>1. Len(sent[p]) >= 1
          BY <1>1, <1>2, <4>2 DEF Unread
        <5>2. QED
          BY <1>4, <4>2, <5>1 DEF AgentInv, AgentTypes
      <4>3. QED
        BY <1>4, <4>1, <4>2
    <3>2. QED
      BY <1>1, <1>4, <3>1 DEF AgentInv, AgentTypes, AgentState
  <2>2. AgentPoints'
    BY <1>1, <1>4 DEF AgentInv, AgentTypes, AgentPoints
  <2>3. RegisteredPhonesListen'
    BY <1>1, <1>4 DEF AgentInv, AgentTypes, RegisteredPhonesListen
  <2>4. QED
    BY <2>1, <2>2, <2>3 DEF AgentInv
<1>5. CASE /\ Unread(p) > 0 /\ seen' = [seen EXCEPT ![p] = 1] /\ CloseCtrl(p)
           /\ apc' = [apc EXCEPT ![p] = "failed"] /\ reader' = reader
  <2>1. ~up'[p] /\ UNCHANGED <<ppc, pid, sent>> /\ \A q \in Phones : up'[q] => up[q]
    BY <1>5, Closes
  <2>2. QED
    BY <1>4, <1>5, <2>1
<1>6. CASE ~up[p] /\ apc' = [apc EXCEPT ![p] = "failed"] /\ UNCHANGED <<vars, reader, seen>>
  <2>1. ~up[p] /\ UNCHANGED <<ppc, pid, up, sent, reader, seen>>
    BY <1>6 DEF vars, phones
  <2>2. QED
    BY <1>4, <1>6, <2>1
<1>7. QED
  BY <1>3, <1>5, <1>6 DEF ReadId

\* What the read loop finds is the key of somebody who waits.
LEMMA ReadsKey ==
  ASSUME TypeInv, LineInv, AgentInv, NEW p \in Phones, reader[p] = "reading", Unread(p) > 0
  PROVE  /\ seen[p] + 1 \in Lines(p) /\ JobOf(p, sent[p][seen[p] + 1]) \in Key
         /\ JobOf(p, sent[p][seen[p] + 1]) \in CidKey =>
              JobOf(p, sent[p][seen[p] + 1]) = sent[p][seen[p] + 1]
<1> DEFINE m == seen[p] + 1
<1>1. sent[p] \in Seq(Line) /\ Len(sent[p]) \in Nat /\ seen[p] \in Nat
  BY DEF TypeInv, TypeOK, AgentInv, AgentTypes
<1>2. m \in Lines(p) /\ 1 \in Lines(p) /\ m # 1 /\ sent[p][1] = IdLine /\ pid[p] \in PhoneId
  BY <1>1 DEF AgentInv, AgentPoints, Unread, Lines
<1>3. sent[p][m] \in Line /\ sent[p][m] # IdLine
  <2>1. sent[p][m] \in Line
    BY <1>1, <1>2 DEF Lines
  <2>2. QED
    BY <1>2, <2>1 DEF LineInv, IdOnce
<1>4. sent[p][m] \in Key
  BY <1>3 DEF Line
<1>5. PKey(pid[p]) \in Key /\ PKey(pid[p]) \notin CidKey
  BY <1>2, KeyFacts, LineKinds
<1>6. QED
  BY <1>2, <1>4, <1>5 DEF JobOf

LEMMA AgentReadLine ==
  ASSUME TypeInv, LineInv, AgentInv, NEW p \in Phones, ReadLine(p)
  PROVE  AgentInv'
<1>1. /\ reader[p] = "reading" /\ Unread(p) > 0 /\ seen' = [seen EXCEPT ![p] = @ + 1]
      /\ UNCHANGED <<ppc, pid, up, sent, apc, reader>> /\ seen'[p] = seen[p] + 1
      /\ seen[p] \in Nat
  BY DEF ReadLine, vars, phones, AgentInv, AgentTypes
<1>2. seen[p] + 1 \in Lines(p) /\ JobOf(p, sent[p][seen[p] + 1]) \in Key
  BY <1>1, ReadsKey
<1>3. PICK d \in Datas :
        /\ hpc' = [hpc EXCEPT ![d] = "dialing"] /\ owner' = [owner EXCEPT ![d] = p]
        /\ job' = [job EXCEPT ![d] = JobOf(p, sent[p][seen[p] + 1])]
  BY <1>1 DEF ReadLine, Spawn
<1>4. AgentTypes'
  <2>1. hpc' \in [Datas -> HandlerState] /\ owner' \in [Datas -> Phones \cup {NoConn}]
        /\ job' \in [Datas -> Key \cup {NoKey}]
    BY <1>2, <1>3 DEF AgentInv, AgentTypes, HandlerState
  <2>2. seen' \in [Phones -> Nat] /\ \A q \in Phones : seen'[q] <= Len(sent'[q])
    BY <1>1, <1>2 DEF AgentInv, AgentTypes, Lines
  <2>3. QED
    BY <1>1, <2>1, <2>2 DEF AgentInv, AgentTypes
<1>5. AgentPoints'
  BY <1>1 DEF AgentInv, AgentTypes, AgentPoints
<1>6. RegisteredPhonesListen'
  BY <1>1 DEF AgentInv, RegisteredPhonesListen
<1>7. QED
  BY <1>4, <1>5, <1>6 DEF AgentInv

LEMMA AgentLeaves ==
  ASSUME TypeInv, AgentInv, NEW p \in Phones, LoseCtrl(p) \/ Stop(p)
  PROVE  AgentInv'
<1>1. CASE LoseCtrl(p)
  <2>1. /\ ~up[p] /\ reader' = [reader EXCEPT ![p] = "ended"]
        /\ UNCHANGED <<ppc, pid, up, sent, apc, seen, hpc, owner, job>>
    BY <1>1 DEF LoseCtrl, vars, phones, handlers
  <2>2. AgentTypes'
    BY <2>1 DEF AgentInv, AgentTypes, ReaderState
  <2>3. AgentPoints'
    <3>1. reader[p] = "reading"
      BY <1>1 DEF LoseCtrl
    <3>2. QED
      BY <2>1, <3>1 DEF AgentInv, AgentTypes, AgentPoints
  <2>4. RegisteredPhonesListen'
    BY <2>1 DEF AgentInv, AgentTypes, RegisteredPhonesListen
  <2>5. QED
    BY <2>2, <2>3, <2>4 DEF AgentInv
<1>2. CASE Stop(p)
  <2>1. /\ apc' = [apc EXCEPT ![p] = "stopped"] /\ UNCHANGED <<reader, seen, hpc, owner, job>>
        /\ ~up'[p] /\ UNCHANGED <<ppc, pid, sent>> /\ \A q \in Phones : up'[q] => up[q]
    BY <1>2, Closes DEF Stop, handlers
  <2>2. QED
    BY <2>1 DEF AgentInv, AgentTypes, AgentPoints, RegisteredPhonesListen, AgentState
<1>3. QED
  BY <1>1, <1>2

LEMMA AgentElsewhere ==
  ASSUME TypeInv, AgentInv, [Next]_vars, Elsewhere
  PROVE  AgentInv'
<1>1. /\ hpc' \in [Datas -> HandlerState] /\ UNCHANGED <<apc, reader, seen, owner, job>>
      /\ nextID' = nextID
  BY DEF Elsewhere, agents
<1>2. AgentTypes'
  BY <1>1, SentGrows DEF AgentInv, AgentTypes
<1>3. AgentPoints'
  <2> SUFFICES ASSUME NEW p \in Phones,
                      reader[p] = "reading" => sent'[p][1] = IdLine
               PROVE  /\ ppc'[p] # "idle" => pid'[p] \in PhoneId
                      /\ apc[p] = "idle" => ppc'[p] = "idle"
                      /\ apc[p] = "registering" => ppc'[p] # "idle"
                      /\ apc[p] \in {"idle", "registering"} => seen[p] = 0 /\ reader[p] = "none"
                      /\ reader[p] = "reading" => ppc'[p] # "idle" /\ seen[p] >= 1 /\ sent'[p][1] = IdLine
    <3>1. ASSUME NEW p \in Phones, reader[p] = "reading" PROVE sent'[p][1] = IdLine
      <4>1. 1 \in Lines(p) /\ sent[p][1] = IdLine
        BY <3>1, SentGrows DEF AgentInv, AgentTypes, AgentPoints, Lines
      <4>2. QED
        BY <4>1, SentGrows
    <3>2. QED
      BY <1>1, <3>1 DEF AgentPoints, PhoneId
  <2>1. QED
    BY <1>1, PhonesLeave DEF AgentInv, AgentPoints
<1>4. RegisteredPhonesListen'
  BY <1>1, PhonesLeave DEF AgentInv, RegisteredPhonesListen
<1>5. QED
  BY <1>2, <1>3, <1>4 DEF AgentInv

LEMMA AgentStepInv == TypeInv /\ LineInv /\ AgentInv /\ [TunnelNext]_tvars => AgentInv'
BY AgentRegister, AgentReadId, AgentReadLine, AgentLeaves, AgentElsewhere, TunnelSteps DEF AgentInv

LEMMA InitAgent == TunnelInit => AgentInv
BY DEF TunnelInit, Init, AgentInv, AgentTypes, AgentPoints, RegisteredPhonesListen,
  AgentState, ReaderState, HandlerState


LEMMA TunnelHolds == TunnelSpec => [](TypeInv /\ OwnKeys /\ LineInv /\ AgentInv)
<1> DEFINE I == TypeInv /\ OwnKeys /\ LineInv /\ AgentInv
<1>1. TunnelInit => I
  BY InitTypeInv, InitOwnKeys, InitLines, InitAgent DEF TunnelInit
<1>2. I /\ [TunnelNext]_tvars => I'
  <2>1. AgentInv => AgentTypes
    BY DEF AgentInv
  <2>2. QED
    BY <2>1, TunnelRefines, TypeInvStep, OwnKeysStep, LineStep, AgentStepInv
<1>3. QED
  BY <1>1, <1>2, PTL DEF TunnelSpec

\* The phone side adds nothing to what the relay alone may do: it implements
\* RelayBroker, in which anybody dials back with any key that was given out.
THEOREM TunnelImplementsRelay == TunnelSpec => Spec
<1>1. TunnelInit => Init
  BY DEF TunnelInit
<1>2. TypeInv /\ AgentInv /\ [TunnelNext]_tvars => [Next]_vars
  BY TunnelRefines DEF AgentInv
<1>3. QED
  BY <1>1, <1>2, TunnelHolds, PTL DEF TunnelSpec, Spec

\* The relay and the phone side hold values of their Go types, and no phone has
\* read a line that was not written.
THEOREM TunnelTypeCorrect == TunnelSpec => []TunnelTypeOK
<1>1. TypeInv /\ AgentInv => TunnelTypeOK
  BY DEF TypeInv, AgentInv, AgentTypes, TunnelTypeOK
<1>2. QED
  BY <1>1, TunnelHolds, PTL

\* Somebody on the phone reads every control connection that the relay takes
\* for a live one.
THEOREM ControlIsRead == TunnelSpec => []RegisteredPhonesListen
<1>1. AgentInv => RegisteredPhonesListen
  BY DEF AgentInv
<1>2. QED
  BY <1>1, TunnelHolds, PTL

(***************************************************************************)
(* One dial per request.  A handler works for one line of the phone that   *)
(* started it, one that the phone has read (Origin).  The line of a SOCKS5 *)
(* request is only written once (ToldOnce) and only read once, since seen  *)
(* only grows, so the handler of the line that is read now is the first.   *)
(***************************************************************************)
Origin == \A d \in Datas : job[d] \in CidKey =>
  owner[d] \in Phones /\ \E m \in 1..seen[owner[d]] : sent[owner[d]][m] = job[d]

DialInv == Origin /\ OneDialPerRequest

LEMMA DialKeeps ==
  ASSUME TypeInv, AgentInv, DialInv, [Next]_vars, UNCHANGED <<owner, job>>,
         \A p \in Phones : seen'[p] \in Nat /\ seen[p] <= seen'[p]
  PROVE  DialInv'
<1>1. OneDialPerRequest'
  BY DEF DialInv, OneDialPerRequest
<1>2. ASSUME NEW d \in Datas, job[d] \in CidKey
      PROVE  owner[d] \in Phones /\ \E m \in 1..seen'[owner[d]] : sent'[owner[d]][m] = job[d]
  <2>1. PICK m \in 1..seen[owner[d]] : owner[d] \in Phones /\ sent[owner[d]][m] = job[d]
    BY <1>2 DEF DialInv, Origin
  <2>2. m \in Lines(owner[d]) /\ m \in 1..seen'[owner[d]]
    BY <2>1, SentGrows DEF AgentInv, AgentTypes, Lines
  <2>3. sent'[owner[d]][m] = job[d]
    BY <2>1, <2>2, SentGrows
  <2>4. QED
    BY <2>1, <2>2, <2>3
<1>3. Origin'
  BY <1>2 DEF Origin, CidKey
<1>4. QED
  BY <1>1, <1>3 DEF DialInv

LEMMA DialReadLine ==
  ASSUME TypeInv, LineInv, AgentInv, DialInv, NEW p \in Phones, ReadLine(p)
  PROVE  DialInv'
<1> DEFINE m == seen[p] + 1
           k == JobOf(p, sent[p][m])
<1>1. /\ reader[p] = "reading" /\ Unread(p) > 0 /\ seen' = [seen EXCEPT ![p] = m]
      /\ sent' = sent /\ seen[p] \in Nat /\ seen'[p] = m /\ seen \in [Phones -> Nat]
  BY DEF ReadLine, vars, phones, AgentInv, AgentTypes
<1>2. m \in Lines(p) /\ (k \in CidKey => k = sent[p][m])
  BY <1>1, ReadsKey
<1>3. PICK d \in Datas : owner' = [owner EXCEPT ![d] = p] /\ job' = [job EXCEPT ![d] = k]
  BY <1>1 DEF ReadLine, Spawn
<1>4. /\ owner'[d] = p /\ job'[d] = k
      /\ \A e \in Datas : e # d => owner'[e] = owner[e] /\ job'[e] = job[e]
  BY <1>3 DEF AgentInv, AgentTypes
<1> HIDE DEF m, k
<1>5. ASSUME NEW e \in Datas, e # d, job[e] = k, k \in CidKey PROVE FALSE
  <2>1. PICK n \in 1..seen[owner[e]] : owner[e] \in Phones /\ sent[owner[e]][n] = k
    BY <1>5 DEF DialInv, Origin
  <2>2. n \in Lines(owner[e])
    BY <2>1, SentGrows DEF AgentInv, AgentTypes, TypeInv, TypeOK, Lines
  <2>3. owner[e] = p /\ n = m
    <3>1. sent[owner[e]][n] = sent[p][m] /\ sent[p][m] \in CidKey
      BY <1>2, <1>5, <2>1
    <3>2. ToldOnce /\ m \in Lines(p)
      BY <1>2 DEF LineInv
    <3>3. QED
      BY <2>1, <2>2, <3>1, <3>2 DEF ToldOnce
  <2>4. QED
    BY <1>1, <2>1, <2>3 DEF m
<1>6. OneDialPerRequest'
  <2> SUFFICES ASSUME NEW e \in Datas, NEW f \in Datas, job'[e] = job'[f], job'[e] \in CidKey
               PROVE  e = f
    BY DEF OneDialPerRequest, CidKey
  <2>1. CASE e # d /\ f # d
    BY <1>4, <2>1 DEF DialInv, OneDialPerRequest, CidKey
  <2>2. CASE e = d \/ f = d
    BY <1>4, <1>5, <2>2
  <2>3. QED
    BY <2>1, <2>2
<1>7. ASSUME NEW e \in Datas, job'[e] \in CidKey
      PROVE  owner'[e] \in Phones /\ \E n \in 1..seen'[owner'[e]] : sent[owner'[e]][n] = job'[e]
  <2>1. CASE e = d
    BY <1>1, <1>2, <1>4, <1>7, <2>1 DEF m
  <2>2. CASE e # d
    <3>1. PICK n \in 1..seen[owner[e]] : owner[e] \in Phones /\ sent[owner[e]][n] = job[e]
      BY <1>4, <1>7, <2>2 DEF DialInv, Origin
    <3>2. n \in 1..seen'[owner[e]]
      BY <1>1, <3>1 DEF m
    <3>3. QED
      BY <1>4, <2>2, <3>1, <3>2
  <2>3. QED
    BY <2>1, <2>2
<1>8. Origin'
  BY <1>1, <1>7 DEF Origin, CidKey
<1>9. QED
  BY <1>6, <1>8 DEF DialInv

LEMMA DialStepInv == TypeInv /\ LineInv /\ AgentInv /\ DialInv /\ [TunnelNext]_tvars => DialInv'
<1> SUFFICES ASSUME TypeInv, LineInv, AgentInv, DialInv, [TunnelNext]_tvars PROVE DialInv'
  OBVIOUS
<1>0. AgentTypes /\ [Next]_vars
  BY TunnelRefines DEF AgentInv
<1>1. \A p \in Phones : seen[p] \in Nat
  BY <1>0 DEF AgentTypes
<1>2. ASSUME NEW p \in Phones, DialAndRegister(p) \/ LoseCtrl(p) \/ Stop(p)
      PROVE  UNCHANGED <<seen, owner, job>>
  BY <1>2 DEF DialAndRegister, LoseCtrl, Stop, handlers
<1>3. ASSUME NEW p \in Phones, ReadId(p)
      PROVE  UNCHANGED <<owner, job>> /\ \A q \in Phones : seen'[q] \in Nat /\ seen[q] <= seen'[q]
  <2>1. seen[p] = 0
    BY <1>3 DEF ReadId, AgentInv, AgentPoints
  <2>2. seen' = seen \/ seen' = [seen EXCEPT ![p] = 1]
    BY <1>3 DEF ReadId
  <2>3. QED
    BY <1>0, <1>3, <2>1, <2>2 DEF ReadId, AgentTypes, handlers
<1>4. ASSUME Elsewhere PROVE UNCHANGED <<seen, owner, job>>
  BY <1>4 DEF Elsewhere, agents
<1>5. CASE UNCHANGED <<seen, owner, job>>
  BY <1>0, <1>1, <1>5, DialKeeps
<1>6. ASSUME NEW p \in Phones, ReadId(p) PROVE DialInv'
  BY <1>0, <1>3, <1>6, DialKeeps
<1>7. ASSUME NEW p \in Phones, ReadLine(p) PROVE DialInv'
  BY <1>7, DialReadLine
<1>8. QED
  BY <1>0, <1>2, <1>4, <1>5, <1>6, <1>7, TunnelSteps

\* A SOCKS5 request makes a phone dial back at most once.
THEOREM DialledOnce == TunnelSpec => []OneDialPerRequest
<1>1. TunnelInit => DialInv
  BY LineKinds DEF TunnelInit, DialInv, Origin, OneDialPerRequest, CidKey
<1>2. DialInv => OneDialPerRequest
  BY DEF DialInv
<1>3. QED
  BY <1>1, <1>2, TunnelHolds, DialStepInv, PTL DEF TunnelSpec

(***************************************************************************)
(* No line is skipped.  LinesServed promises a dial for every line; what   *)
(* never fails to hold of it is that a line that was read has a handler of *)
(* its key.  A handler is not used for a second line (Busy).               *)
(***************************************************************************)
Busy == \A d \in Datas : hpc[d] = "idle" => owner[d] = NoConn

LinesTaken == \A p \in Phones : \A m \in 2..seen[p] :
  \E d \in Datas : owner[d] = p /\ job[d] = JobOf(p, sent[p][m])

TakenInv == Busy /\ LinesTaken

\* A handler stays one.
LEMMA BusyElsewhere ==
  ASSUME [TunnelNext]_tvars, NEW d \in Datas, hpc[d] # "idle", AgentTypes
  PROVE  hpc'[d] # "idle"
<1>1. ASSUME NEW e \in Datas, HandlerStep(e) \/ LineArrives(e) PROVE hpc'[d] # "idle"
  BY <1>1 DEF HandlerStep, DialRelay, LineArrives, GetReady, DialTarget, RelayEnds,
    HandlerGoto, AgentTypes, handlers
<1>2. ASSUME NEW p \in Phones, ReadLine(p) PROVE hpc'[d] # "idle"
  BY <1>2 DEF ReadLine, Spawn, AgentTypes
<1>3. CASE hpc' = hpc
  BY <1>3
<1>4. QED
  BY <1>1, <1>2, <1>3
  DEF TunnelNext, AgentStep, DialAndRegister, ReadId, LoseCtrl, Stop, RelayStep, AllLeft, handlers, tvars

LEMMA TakenKeeps ==
  ASSUME TypeInv, AgentInv, TakenInv, [TunnelNext]_tvars, [Next]_vars, UNCHANGED <<owner, job>>,
         \A p \in Phones : \A m \in 2..seen'[p] : m \in 2..seen[p] /\ pid'[p] = pid[p]
  PROVE  TakenInv'
<1>1. AgentTypes
  BY DEF AgentInv
<1>2. Busy'
  BY <1>1, BusyElsewhere DEF TakenInv, Busy
<1>3. ASSUME NEW p \in Phones, NEW m \in 2..seen'[p]
      PROVE  \E d \in Datas : owner[d] = p /\ job[d] = JobOf(p, sent[p][m])'
  <2>1. m \in 2..seen[p] /\ pid'[p] = pid[p]
    BY <1>3
  <2>2. m \in Lines(p)
    BY <1>1, <2>1, SentGrows DEF AgentTypes, Lines
  <2>3. sent'[p][m] = sent[p][m]
    BY <2>2, SentGrows
  <2>4. JobOf(p, sent[p][m])' = JobOf(p, sent[p][m])
    BY <2>1, <2>3 DEF JobOf
  <2>5. QED
    BY <2>1, <2>4 DEF TakenInv, LinesTaken
<1>4. LinesTaken'
  BY <1>3 DEF LinesTaken
<1>5. QED
  BY <1>2, <1>4 DEF TakenInv

LEMMA TakenReadLine ==
  ASSUME TypeInv, AgentInv, TakenInv, [TunnelNext]_tvars, NEW p \in Phones, ReadLine(p)
  PROVE  TakenInv'
<1>1. /\ seen' = [seen EXCEPT ![p] = @ + 1] /\ seen'[p] = seen[p] + 1 /\ seen[p] \in Nat
      /\ \A q \in Phones : q # p => seen'[q] = seen[q]
      /\ UNCHANGED <<pid, sent>>
  BY DEF ReadLine, vars, phones, AgentInv, AgentTypes
<1>2. PICK d \in Datas :
        /\ hpc[d] = "idle" /\ hpc' = [hpc EXCEPT ![d] = "dialing"]
        /\ owner' = [owner EXCEPT ![d] = p]
        /\ job' = [job EXCEPT ![d] = JobOf(p, sent[p][seen'[p]])]
  BY DEF ReadLine, Spawn
<1>3. /\ owner'[d] = p /\ job'[d] = JobOf(p, sent[p][seen'[p]]) /\ hpc'[d] = "dialing"
      /\ \A e \in Datas : e # d => owner'[e] = owner[e] /\ job'[e] = job[e] /\ hpc'[e] = hpc[e]
      /\ owner[d] = NoConn
  BY <1>2 DEF AgentInv, AgentTypes, TakenInv, Busy
<1>4. Busy'
  BY <1>3 DEF TakenInv, Busy
<1>5. ASSUME NEW q \in Phones, NEW m \in 2..seen'[q]
      PROVE  \E e \in Datas : owner'[e] = q /\ job'[e] = JobOf(q, sent[q][m])
  <2>1. CASE q = p /\ m = seen'[p]
    BY <1>3, <2>1
  <2>2. CASE ~(q = p /\ m = seen'[p])
    <3>1. m \in 2..seen[q]
      BY <1>1, <1>5, <2>2 DEF AgentInv, AgentTypes
    <3>2. PICK e \in Datas : owner[e] = q /\ job[e] = JobOf(q, sent[q][m])
      BY <3>1 DEF TakenInv, LinesTaken
    <3>3. e # d
      BY <1>3, <3>2, BrokerAssumption
    <3>4. QED
      BY <1>3, <3>2, <3>3
  <2>3. QED
    BY <2>1, <2>2
<1>6. LinesTaken'
  BY <1>1, <1>5 DEF LinesTaken, JobOf
<1>7. QED
  BY <1>4, <1>6 DEF TakenInv

LEMMA TakenStep == TypeInv /\ AgentInv /\ TakenInv /\ [TunnelNext]_tvars => TakenInv'
<1> SUFFICES ASSUME TypeInv, AgentInv, TakenInv, [TunnelNext]_tvars PROVE TakenInv'
  OBVIOUS
<1>0. AgentTypes /\ [Next]_vars /\ \A p \in Phones : seen[p] \in Nat
  BY TunnelRefines DEF AgentInv, AgentTypes
<1>1. ASSUME NEW p \in Phones, DialAndRegister(p) PROVE TakenInv'
  <2>1. /\ UNCHANGED <<seen, owner, job>> /\ seen[p] = 0
        /\ \A q \in Phones : q # p => pid'[q] = pid[q]
    BY <1>1 DEF DialAndRegister, Register, AgentInv, AgentPoints, handlers, vars, phones,
      TypeInv, TypeOK
  <2>2. \A q \in Phones : \A m \in 2..seen'[q] : m \in 2..seen[q] /\ pid'[q] = pid[q]
    BY <2>1
  <2>3. QED
    BY <1>0, <2>1, <2>2, TakenKeeps
<1>2. ASSUME UNCHANGED <<seen, owner, job>>, nextID' = nextID PROVE TakenInv'
  BY <1>0, <1>2, TakenKeeps, PhonesLeave
<1>3. ASSUME NEW p \in Phones, CloseCtrl(p) PROVE nextID' = nextID
  BY <1>3 DEF CloseCtrl, PhoneGone, vars, registry
<1>4. ASSUME NEW p \in Phones, ReadId(p) PROVE TakenInv'
  <2>1. nextID' = nextID /\ UNCHANGED <<owner, job>>
    BY <1>3, <1>4 DEF ReadId, vars, registry, handlers
  <2>2. seen' = seen \/ seen' = [seen EXCEPT ![p] = 1]
    BY <1>4 DEF ReadId
  <2>3. \A q \in Phones : \A m \in 2..seen'[q] : m \in 2..seen[q]
    <3>1. ASSUME NEW q \in Phones, seen'[q] = seen[q] \/ seen'[q] = 1, NEW m \in 2..seen'[q]
          PROVE  m \in 2..seen[q]
      BY <1>0, <3>1
    <3>2. \A q \in Phones : seen'[q] = seen[q] \/ seen'[q] = 1
      BY <1>0, <2>2 DEF AgentTypes
    <3>3. QED
      BY <3>1, <3>2
  <2>4. QED
    BY <1>0, <2>1, <2>3, TakenKeeps, PhonesLeave
<1>5. ASSUME NEW p \in Phones, LoseCtrl(p) \/ Stop(p) PROVE TakenInv'
  BY <1>2, <1>3, <1>5 DEF LoseCtrl, Stop, vars, registry, handlers
<1>6. ASSUME NEW p \in Phones, ReadLine(p) PROVE TakenInv'
  BY <1>6, TakenReadLine
<1>7. ASSUME Elsewhere PROVE TakenInv'
  BY <1>2, <1>7 DEF Elsewhere, agents
<1>8. QED
  BY <1>0, <1>1, <1>4, <1>5, <1>6, <1>7, TunnelSteps

\* Every line that a phone has read after its id has a handler that works for
\* the key it names.
THEOREM NoLineSkipped == TunnelSpec => []LinesTaken
<1>1. TunnelInit => TakenInv
  BY DEF TunnelInit, TakenInv, Busy, LinesTaken
<1>2. TakenInv => LinesTaken
  BY DEF TakenInv
<1>3. QED
  BY <1>1, <1>2, TunnelHolds, TakenStep, PTL DEF TunnelSpec

\* With the phone side, too, clients and data connections are matched one to one.
THEOREM TunnelImplementsRendezvous == TunnelSpec => ImplementsRendezvous
BY TunnelImplementsRelay, RelayImplementsRendezvous, PTL
============================================================================
