---------------------------- MODULE RelayBroker ----------------------------
(***************************************************************************)
(* The public relay, cmd/relay/main.go.  Phones keep a control connection  *)
(* open ("register"); a SOCKS5 client, or a client that sends "connect:",  *)
(* leaves an entry in the wait map and has a line written to a phone; the  *)
(* phone answers by dialling back with "data:<key>", and that connection   *)
(* is handed to the waiting client over a channel of capacity one.         *)
(*                                                                         *)
(* Every accepted connection has one goroutine (safeHandle).  A step below *)
(* is what a goroutine does between two points where another can run: one  *)
(* critical section of ctrlMu or waitMu, one channel operation, one write. *)
(***************************************************************************)
EXTENDS Naturals, Sequences

CONSTANTS
  Clients,   \* SOCKS5 client connections (first byte 5)
  Legacy,    \* client connections whose first line is "connect:<phone id>"
  Phones,    \* control connections: first line "register"
  Datas,     \* data connections: first line "data:<key>"
  MaxId,     \* bound on nextID, at least the number of Phones
  MaxCid,    \* bound on connCID, at least the number of Clients
  NoConn     \* no connection: an absent map entry, an empty channel

ASSUME BrokerAssumption ==
  /\ MaxId \in Nat /\ MaxCid \in Nat
  /\ Clients \cap Legacy = {}
  /\ NoConn \notin Clients \cup Legacy \cup Phones \cup Datas

Waiters == Clients \cup Legacy
NoId    == 0                            \* the empty phone id
PhoneId == 1..MaxId
PKey(i) == <<"p", i>>                   \* "p<i>", also a phone's own id
CKey(n) == <<"c", n>>                   \* "c<n>"
Key     == {PKey(i) : i \in PhoneId} \cup {CKey(n) : n \in 1..MaxCid}
NoKey   == <<"none", 0>>

VARIABLES
  ctrl, lastPhone, nextID,              \* guarded by ctrlMu
  wait, connCID,                        \* guarded by waitMu
  wpc, phone, wkey, sc, dataCh, link,   \* per waiting client: its locals
  ppc, pid, up, sent,                   \* per control connection
  dpc, dkey, dest                       \* per data connection

registry == <<ctrl, lastPhone, nextID>>
waiting  == <<wait, connCID>>
clients  == <<wpc, phone, wkey, sc, dataCh, link>>
phones   == <<ppc, pid, up, sent>>
datas    == <<dpc, dkey, dest>>
vars     == <<registry, waiting, clients, phones, datas>>

WaiterState == {"idle", "parsed", "picked", "queued", "looked", "waiting",
                "withdraw", "expiring", "piping", "refused", "timedOut", "closed"}
PhoneState  == {"idle", "announce", "serving", "unregister", "returning", "closed"}
DataState   == {"idle", "lookup", "deliver", "returning", "closed"}
IdLine      == <<"id", 0>>              \* the line "id:<id>"
Line        == Key \cup {IdLine}        \* "conn" and "conn:<cid>:<target>" by their key

\* Every variable holds a value of its Go type: the maps, the counters, the
\* locals of each goroutine and the point each goroutine has reached.
TypeOK ==
  /\ ctrl \in [PhoneId -> Phones \cup {NoConn}]
  /\ lastPhone \in 0..MaxId /\ nextID \in 0..MaxId
  /\ wait \in [Key -> Waiters \cup {NoConn}] /\ connCID \in 0..MaxCid
  /\ wpc \in [Waiters -> WaiterState]
  /\ phone \in [Waiters -> 0..MaxId]
  /\ wkey \in [Waiters -> Key \cup {NoKey}]
  /\ sc \in [Waiters -> Phones \cup {NoConn}]
  /\ dataCh \in [Waiters -> Datas \cup {NoConn}]
  /\ link \in [Waiters -> Datas \cup {NoConn}]
  /\ ppc \in [Phones -> PhoneState] /\ pid \in [Phones -> 0..MaxId]
  /\ up \in [Phones -> BOOLEAN] /\ sent \in [Phones -> Seq(Line)]
  /\ dpc \in [Datas -> DataState] /\ dkey \in [Datas -> Key \cup {NoKey}]
  /\ dest \in [Datas -> Waiters \cup {NoConn}]

Init ==
  /\ ctrl = [i \in PhoneId |-> NoConn] /\ lastPhone = NoId /\ nextID = 0
  /\ wait = [k \in Key |-> NoConn] /\ connCID = 0
  /\ wpc = [w \in Waiters |-> "idle"] /\ phone = [w \in Waiters |-> NoId]
  /\ wkey = [w \in Waiters |-> NoKey] /\ sc = [w \in Waiters |-> NoConn]
  /\ dataCh = [w \in Waiters |-> NoConn] /\ link = [w \in Waiters |-> NoConn]
  /\ ppc = [p \in Phones |-> "idle"] /\ pid = [p \in Phones |-> NoId]
  /\ up = [p \in Phones |-> TRUE] /\ sent = [p \in Phones |-> <<>>]
  /\ dpc = [d \in Datas |-> "idle"] /\ dkey = [d \in Datas |-> NoKey]
  /\ dest = [d \in Datas |-> NoConn]

----------------------------------------------------------------------------
(* The control connection of a phone *)

\* ctrlMu: the next id, the map entry and lastPhone change together.
Register(p) ==
  /\ ppc[p] = "idle" /\ nextID < MaxId
  /\ nextID' = nextID + 1
  /\ ctrl' = [ctrl EXCEPT ![nextID'] = p]
  /\ lastPhone' = nextID'
  /\ pid' = [pid EXCEPT ![p] = nextID']
  /\ ppc' = [ppc EXCEPT ![p] = "announce"]
  /\ UNCHANGED <<waiting, clients, up, sent, datas>>

\* After the unlock: the line that tells the phone its id.  Nobody looks at
\* the error of this write.
Announce(p) ==
  /\ ppc[p] = "announce"
  /\ sent' = [sent EXCEPT ![p] = Append(@, IdLine)]
  /\ ppc' = [ppc EXCEPT ![p] = "serving"]
  /\ UNCHANGED <<registry, waiting, clients, pid, up, datas>>

\* The phone or its network goes away; the relay does not know yet.
PhoneGone(p) ==
  /\ ppc[p] \in {"announce", "serving"} /\ up[p]
  /\ up' = [up EXCEPT ![p] = FALSE]
  /\ UNCHANGED <<registry, waiting, clients, ppc, pid, sent, datas>>

ReadLoopSpins(p) ==                     \* mutant: a failed Read does not end the loop
  /\ ppc[p] = "serving" /\ ~up[p]
  /\ UNCHANGED vars

\* The read loop ends on an error, and only then.
ControlLost(p) ==
  /\ ppc[p] = "serving" /\ ~up[p]
  /\ ppc' = [ppc EXCEPT ![p] = "unregister"]
  /\ UNCHANGED <<registry, waiting, clients, pid, up, sent, datas>>

DropLastOnly(i) ==                      \* mutant: the map entry stays
  /\ lastPhone' = IF lastPhone = i THEN NoId ELSE lastPhone
  /\ UNCHANGED ctrl

ForgetPhone(i) ==
  /\ ctrl' = [ctrl EXCEPT ![i] = NoConn]
  /\ lastPhone' = IF lastPhone = i THEN NoId ELSE lastPhone

\* ctrlMu: the second critical section of the handler.
Unregister(p) ==
  /\ ppc[p] = "unregister"
  /\ ForgetPhone(pid[p])
  /\ ppc' = [ppc EXCEPT ![p] = "returning"]
  /\ UNCHANGED <<nextID, waiting, clients, pid, up, sent, datas>>

\* The deferred Close of safeHandle.  A handler that has looked the
\* connection up before may still write to it.
ClosePhone(p) ==
  /\ ppc[p] = "returning"
  /\ ppc' = [ppc EXCEPT ![p] = "closed"]
  /\ UNCHANGED <<registry, waiting, clients, pid, up, sent, datas>>

----------------------------------------------------------------------------
(* A client that waits for a data connection *)

Goto(w, s) == wpc' = [wpc EXCEPT ![w] = s]

\* Greeting, request, address and port are read; any of them may be refused.
Handshake(c) ==
  /\ wpc[c] = "idle"
  /\ Goto(c, "parsed") \/ Goto(c, "closed")
  /\ UNCHANGED <<registry, waiting, phone, wkey, sc, dataCh, link, phones, datas>>

\* ctrlMu: lastPhone is copied; with no phone the client is refused.
PickPhone(c) ==
  /\ wpc[c] = "parsed"
  /\ phone' = [phone EXCEPT ![c] = lastPhone]
  /\ Goto(c, IF lastPhone = NoId THEN "refused" ELSE "picked")
  /\ UNCHANGED <<registry, waiting, wkey, sc, dataCh, link, phones, datas>>

\* waitMu: a fresh cid and its entry.
Enqueue(c) ==
  /\ wpc[c] = "picked" /\ connCID < MaxCid
  /\ connCID' = connCID + 1
  /\ wkey' = [wkey EXCEPT ![c] = CKey(connCID')]
  /\ wait' = [wait EXCEPT ![CKey(connCID')] = c]
  /\ Goto(c, "queued")
  /\ UNCHANGED <<registry, phone, sc, dataCh, link, phones, datas>>

\* "connect:<id>", the id of a phone that is registered or not: the entry is
\* keyed by it and replaces any other.
Connect(l, i) ==
  /\ wpc[l] = "idle"
  /\ phone' = [phone EXCEPT ![l] = i]
  /\ wkey' = [wkey EXCEPT ![l] = PKey(i)]
  /\ wait' = [wait EXCEPT ![PKey(i)] = l]
  /\ Goto(l, "queued")
  /\ UNCHANGED <<registry, connCID, sc, dataCh, link, phones, datas>>

\* ctrlMu: the control connection, if the phone is still registered.
LookupCtrl(w) ==
  /\ wpc[w] = "queued"
  /\ sc' = [sc EXCEPT ![w] = ctrl[phone[w]]]
  /\ Goto(w, IF ctrl[phone[w]] # NoConn THEN "looked"
             ELSE IF w \in Clients THEN "withdraw" ELSE "waiting")
  /\ UNCHANGED <<registry, waiting, phone, wkey, dataCh, link, phones, datas>>

\* The write succeeds on a socket that is open here, even if nobody reads it
\* any more; it may fail once the peer is gone, and fails on a closed socket.
\* Only the SOCKS5 handler looks at the error.
NotifyPhone(w) ==
  /\ wpc[w] = "looked"
  /\ \/ /\ ppc[sc[w]] # "closed"
        /\ sent' = [sent EXCEPT ![sc[w]] = Append(@, wkey[w])]
        /\ Goto(w, "waiting")
     \/ /\ ~up[sc[w]]
        /\ Goto(w, IF w \in Clients THEN "withdraw" ELSE "waiting")
        /\ UNCHANGED sent
  /\ UNCHANGED <<registry, waiting, phone, wkey, sc, dataCh, link, ppc, pid, up, datas>>

\* select, first case: the data connection has come.
ReceiveData(w) ==
  /\ wpc[w] = "waiting" /\ dataCh[w] # NoConn
  /\ link' = [link EXCEPT ![w] = dataCh[w]]
  /\ dataCh' = [dataCh EXCEPT ![w] = NoConn]
  /\ Goto(w, "piping")
  /\ UNCHANGED <<registry, waiting, phone, wkey, sc, phones, datas>>

TimeoutNever(w) ==                      \* mutant: the select has no timer
  /\ wpc[w] = "waiting"
  /\ UNCHANGED vars

TimeoutRetries(w) ==                    \* mutant: the line is written again
  /\ wpc[w] = "waiting"
  /\ Goto(w, IF sc[w] # NoConn THEN "looked" ELSE "timedOut")
  /\ UNCHANGED <<registry, waiting, phone, wkey, sc, dataCh, link, phones, datas>>

\* select, second case: 60 s are over.  Both cases may be ready.
Timeout(w) ==
  /\ wpc[w] = "waiting"
  /\ Goto(w, IF w \in Clients THEN "expiring" ELSE "timedOut")
  /\ UNCHANGED <<registry, waiting, phone, wkey, sc, dataCh, link, phones, datas>>

KeepEntry(k) == UNCHANGED wait          \* mutant: delete(wait, id) is missing
DeleteEntry(k) == wait' = [wait EXCEPT ![k] = NoConn]

\* waitMu: the SOCKS5 handler takes its entry back before it refuses.
Forget(c) ==
  /\ wpc[c] \in {"withdraw", "expiring"}
  /\ DeleteEntry(wkey[c])
  /\ Goto(c, IF wpc[c] = "withdraw" THEN "refused" ELSE "timedOut")
  /\ UNCHANGED <<registry, connCID, phone, wkey, sc, dataCh, link, phones, datas>>

\* Both directions of pipe have ended.
PipeEnds(w) ==
  /\ wpc[w] = "piping"
  /\ Goto(w, "closed")
  /\ UNCHANGED <<registry, waiting, phone, wkey, sc, dataCh, link, phones, datas>>

----------------------------------------------------------------------------
(* A data connection *)

\* A phone dials back for a key the relay has given out, once or again.
Issued == {PKey(i) : i \in 1..nextID} \cup {CKey(n) : n \in 1..connCID}

DataArrives(d, k) ==
  /\ dpc[d] = "idle" /\ k \in Issued
  /\ dkey' = [dkey EXCEPT ![d] = k]
  /\ dpc' = [dpc EXCEPT ![d] = "lookup"]
  /\ UNCHANGED <<registry, waiting, clients, phones, dest>>

EntryOfLastCid(d) ==                    \* mutant: the newest entry, not the named one
  IF connCID # 0 /\ wait[CKey(connCID)] # NoConn THEN wait[CKey(connCID)] ELSE wait[dkey[d]]
EntryFor(d) == wait[dkey[d]]

\* waitMu: the entry is read and deleted in one critical section.
TakeEntry(d) ==
  /\ dpc[d] = "lookup"
  /\ dest' = [dest EXCEPT ![d] = EntryFor(d)]
  /\ IF wait[dkey[d]] # NoConn
     THEN DeleteEntry(dkey[d]) /\ dpc' = [dpc EXCEPT ![d] = "deliver"]
     ELSE UNCHANGED wait /\ dpc' = [dpc EXCEPT ![d] = "returning"]
  /\ UNCHANGED <<registry, connCID, clients, phones, dkey>>

DeliverUnbuffered(d) ==                 \* mutant: the channel has no slot
  /\ dpc[d] = "deliver"
  /\ \/ /\ wpc[dest[d]] = "waiting"
        /\ dataCh' = [dataCh EXCEPT ![dest[d]] = d]
        /\ dpc' = [dpc EXCEPT ![d] = "returning"]
     \/ wpc[dest[d]] # "waiting" /\ UNCHANGED <<dataCh, dpc>>
  /\ UNCHANGED <<registry, waiting, wpc, phone, wkey, sc, link, phones, dkey, dest>>

\* The send blocks while the channel's one slot is taken.
Deliver(d) ==
  /\ dpc[d] = "deliver" /\ dataCh[dest[d]] = NoConn
  /\ dataCh' = [dataCh EXCEPT ![dest[d]] = d]
  /\ dpc' = [dpc EXCEPT ![d] = "returning"]
  /\ UNCHANGED <<registry, waiting, wpc, phone, wkey, sc, link, phones, dkey, dest>>

\* handle has returned: the deferred Close of safeHandle.
CloseData(d) ==
  /\ dpc[d] = "returning"
  /\ dpc' = [dpc EXCEPT ![d] = "closed"]
  /\ UNCHANGED <<registry, waiting, clients, phones, dkey, dest>>

----------------------------------------------------------------------------
PhoneLeaves(p) == ControlLost(p) \/ Unregister(p) \/ ClosePhone(p)
PhoneStep(p)  == Register(p) \/ Announce(p) \/ PhoneLeaves(p)
ClientStep(c) == PickPhone(c) \/ Enqueue(c) \/ Forget(c)
WaiterStep(w) == LookupCtrl(w) \/ NotifyPhone(w) \/ ReceiveData(w) \/ Timeout(w)
DataStep(d)   == TakeEntry(d) \/ Deliver(d) \/ CloseData(d)

Finished(w) == wpc[w] \in {"refused", "timedOut", "closed"}

\* Every connection of the instance has been served: the only rest state.
AllServed ==
  /\ \A w \in Waiters : Finished(w)
  /\ \A p \in Phones : ppc[p] = "closed"
  /\ \A d \in Datas : dpc[d] = "closed"
  /\ UNCHANGED vars

Next ==
  \/ \E p \in Phones : PhoneStep(p) \/ PhoneGone(p)
  \/ \E c \in Clients : Handshake(c) \/ ClientStep(c)
  \/ \E l \in Legacy, i \in PhoneId : Connect(l, i)
  \/ \E w \in Waiters : WaiterStep(w) \/ PipeEnds(w)
  \/ \E d \in Datas, k \in Key : DataArrives(d, k)
  \/ \E d \in Datas : DataStep(d)
  \/ AllServed

Spec == Init /\ [][Next]_vars

\* A runnable goroutine is scheduled, a timer fires, a failed socket read
\* returns; clients, phones and the network need do nothing.  The write to a
\* control connection has no deadline: it is taken to return, as it does while
\* the lines a phone has not read fit the socket's buffer.
Fairness ==
  /\ \A p \in Phones : WF_vars(Announce(p) \/ PhoneLeaves(p))
  /\ \A c \in Clients : WF_vars(ClientStep(c))
  /\ \A w \in Waiters : WF_vars(WaiterStep(w))
  /\ \A d \in Datas : WF_vars(DataStep(d))

FairSpec == Spec /\ Fairness
----------------------------------------------------------------------------
(* Properties *)

\* At most one data connection is ever matched with one request: the handler
\* that takes an entry deletes it under the same lock, so a second "data:"
\* for the same key finds nothing.
OneDataPerWaiter ==
  \A d, e \in Datas : dest[d] = dest[e] /\ dest[d] # NoConn => d = e

\* The send on dataCh never blocks: a handler that holds an entry finds the
\* one slot of that client's channel empty.
SendNeverBlocks ==
  \A d \in Datas : dpc[d] = "deliver" => dataCh[dest[d]] = NoConn

\* A client is only ever joined to a connection that was dialled for its own
\* key, and no two SOCKS5 clients share a key.
PairedByKey ==
  /\ \A w \in Waiters : link[w] # NoConn => dkey[link[w]] = wkey[w]
  /\ \A b, c \in Clients : wkey[b] = wkey[c] /\ wkey[b] # NoKey => b = c

\* lastPhone names a registered phone or none: registration and removal
\* change it together with the map.
LastPhoneRegistered == lastPhone # NoId => ctrl[lastPhone] # NoConn

\* The registry holds each connection under the id it was given, and none
\* whose handler has left its last critical section: what another handler
\* looks up is not closed yet, since the entry goes before the deferred Close.
RegistryLive ==
  \A i \in PhoneId : ctrl[i] # NoConn =>
    pid[ctrl[i]] = i /\ ppc[ctrl[i]] \in {"announce", "serving", "unregister"}

\* A SOCKS5 handler leaves no entry behind: while its key is in the wait map
\* it has not returned.
NoAbandonedEntry ==
  \A c \in Clients, k \in Key : wait[k] = c =>
    k = wkey[c] /\ wpc[c] \in {"queued", "looked", "waiting", "withdraw", "expiring"}

\* A client that asked is joined to a data connection or let go: the 60 s timer
\* makes this hold although the phone may never dial back, or dial back while
\* the client is giving up, and although a "connect:" handler whose write fails
\* waits for a phone that was told nothing.
RequestsAnswered ==
  \A w \in Waiters :
    wpc[w] \in {"parsed", "queued"} ~> wpc[w] \in {"piping", "refused", "timedOut"}

\* The goroutine of a data connection always returns, even when the client
\* it was meant for has given up between the two critical sections.
DataHandlersReturn == \A d \in Datas : dpc[d] = "lookup" ~> dpc[d] = "closed"

\* A phone that has gone leaves the registry.
GonePhonesForgotten ==
  \A p \in Phones : ~up[p] ~> \A i \in PhoneId : ctrl[i] # p

\* The relay implements Rendezvous: an entry is the wait of its client, a
\* match is the critical section of a data connection that takes the entry,
\* and nothing else the handlers do changes who is matched with whom.
R == INSTANCE Rendezvous WITH
  asked   <- {w \in Waiters : wkey[w] # NoKey},
  waiting <- {w \in Waiters : \E k \in Key : wait[k] = w},
  matched <- {m \in Waiters \X Datas : dest[m[2]] = m[1]},
  joined  <- {m \in Waiters \X Datas : link[m[1]] = m[2]}

ImplementsRendezvous == R!Spec

----------------------------------------------------------------------------
(* What the code says of itself and does not do *)

\* "No phone registered": a client is refused before it queues only when no
\* phone is registered.  Unregister resets lastPhone to none although an
\* older phone may still be there.
RefusedOnlyWithoutPhones ==
  [][\A c \in Clients : wpc[c] = "parsed" /\ wpc'[c] = "refused"
        => \A i \in PhoneId : ctrl[i] = NoConn]_vars

\* A client that was told the request succeeded is piped to a connection that
\* is open.  safeHandle closes the data connection as soon as it is handed on.
PipedDataOpen == \A w \in Waiters : wpc[w] = "piping" => dpc[link[w]] # "closed"
============================================================================
