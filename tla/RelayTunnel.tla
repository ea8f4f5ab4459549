----------------------------- MODULE RelayTunnel -----------------------------
(***************************************************************************)
(* The relay together with the phone side, internal/tunnel/relay.go.       *)
(* RelayBroker lets anybody dial back with any key that was given out;     *)
(* here a control connection is held by StartRelayTunnel, which reads the  *)
(* lines the relay writes, and a data connection is one goroutine of       *)
(* handleRelayTarget or handleRelayData, started for one line.             *)
(*                                                                         *)
(* The relay writes a line with no deadline: while a phone has CtrlBuffer  *)
(* lines unread the write blocks, and with it the handler of a client.     *)
(***************************************************************************)
EXTENDS RelayBroker

CONSTANT CtrlBuffer   \* unread lines that fit the buffers of a connection

ASSUME TunnelAssumption == CtrlBuffer \in Nat \ {0}

VARIABLES
  apc,      \* StartRelayTunnel of a phone
  reader,   \* the goroutine that reads its control connection
  seen,     \* how many lines of sent[p] it has read
  hpc,      \* the goroutine that makes a data connection
  owner,    \* the phone it belongs to
  job       \* the key of the line it was started for

agents   == <<apc, reader, seen>>
handlers == <<hpc, owner, job>>
tvars    == <<vars, agents, handlers>>

AgentState   == {"idle", "registering", "serving", "failed", "stopped"}
ReaderState  == {"none", "reading", "ended"}
HandlerState == {"idle", "dialing", "awaiting", "greeted", "relaying", "over", "left"}

TunnelInit ==
  /\ Init
  /\ apc = [p \in Phones |-> "idle"] /\ reader = [p \in Phones |-> "none"]
  /\ seen = [p \in Phones |-> 0]
  /\ hpc = [d \in Datas |-> "idle"] /\ owner = [d \in Datas |-> NoConn]
  /\ job = [d \in Datas |-> NoKey]

\* Every agent and handler is at a point of its code, has read no more lines
\* than were written, and works for a phone of this instance.
TunnelTypeOK ==
  /\ TypeOK
  /\ apc \in [Phones -> AgentState] /\ reader \in [Phones -> ReaderState]
  /\ seen \in [Phones -> Nat] /\ \A p \in Phones : seen[p] <= Len(sent[p])
  /\ hpc \in [Datas -> HandlerState]
  /\ owner \in [Datas -> Phones \cup {NoConn}] /\ job \in [Datas -> Key \cup {NoKey}]

----------------------------------------------------------------------------
(* StartRelayTunnel *)

Unread(p) == Len(sent[p]) - seen[p]

\* Dial the relay and write "register"; the relay's handler takes it from
\* there.  Without a relay the start fails.
DialAndRegister(p) ==
  /\ apc[p] = "idle"
  /\ \/ Register(p) /\ apc' = [apc EXCEPT ![p] = "registering"]
     \/ UNCHANGED vars /\ apc' = [apc EXCEPT ![p] = "failed"]
  /\ UNCHANGED <<reader, seen, handlers>>

ForgetToClose(p) == UNCHANGED vars      \* mutant: ctrl.Close() is missing

\* ctrl.Close(): the relay's read loop will see it.
CloseCtrl(p) == IF up[p] THEN PhoneGone(p) ELSE UNCHANGED vars

\* The first line must be the id; on any other, or on an error, the start
\* fails and the connection is closed.
ReadId(p) ==
  /\ apc[p] = "registering"
  /\ \/ /\ Unread(p) > 0
        /\ seen' = [seen EXCEPT ![p] = 1]
        /\ IF Head(sent[p]) = IdLine
           THEN /\ apc' = [apc EXCEPT ![p] = "serving"]
                /\ reader' = [reader EXCEPT ![p] = "reading"]
                /\ UNCHANGED vars
           ELSE /\ apc' = [apc EXCEPT ![p] = "failed"]
                /\ CloseCtrl(p) /\ UNCHANGED reader
     \/ /\ ~up[p]
        /\ apc' = [apc EXCEPT ![p] = "failed"]
        /\ UNCHANGED <<vars, reader, seen>>
  /\ UNCHANGED handlers

SpawnInline(p, k) ==                    \* mutant: the handler runs in the read loop
  \E d \in Datas :
    /\ hpc[d] = "idle"
    /\ \A e \in Datas : owner[e] = p => hpc[e] = "over"
    /\ hpc' = [hpc EXCEPT ![d] = "dialing"]
    /\ owner' = [owner EXCEPT ![d] = p]
    /\ job' = [job EXCEPT ![d] = k]

\* A goroutine of its own for every line.  FreeName names of goroutines are
\* alike, so that one of them is taken and not each.
FreeName == CHOOSE d \in Datas : hpc[d] = "idle"

Spawn(p, k) ==
  \E d \in Datas :
    /\ hpc[d] = "idle" /\ d = FreeName
    /\ hpc' = [hpc EXCEPT ![d] = "dialing"]
    /\ owner' = [owner EXCEPT ![d] = p]
    /\ job' = [job EXCEPT ![d] = k]

\* "conn:<cid>:<target>" names its key; "conn" stands for the phone's own id.
JobOf(p, line) == IF line \in {PKey(i) : i \in PhoneId} THEN PKey(pid[p]) ELSE line

\* A line that was under way when the connection broke may still be read.
ReadLine(p) ==
  /\ reader[p] = "reading" /\ Unread(p) > 0
  /\ seen' = [seen EXCEPT ![p] = @ + 1]
  /\ Spawn(p, JobOf(p, sent[p][seen'[p]]))
  /\ UNCHANGED <<vars, apc, reader>>

IgnoreError(p) ==                       \* mutant: err is not looked at, "" is a line
  /\ reader[p] = "reading" /\ ~up[p]
  /\ seen' = [seen EXCEPT ![p] = @ + 1]
  /\ UNCHANGED <<vars, apc, reader, handlers>>

\* "Control conn lost": the loop returns.  Nobody registers again, and the
\* tunnel URL stays set.
LoseCtrl(p) ==
  /\ reader[p] = "reading" /\ ~up[p]
  /\ reader' = [reader EXCEPT ![p] = "ended"]
  /\ UNCHANGED <<vars, apc, seen, handlers>>

\* StopTunnel closes tunnelStop, on which StartRelayTunnel waits.
Stop(p) ==
  /\ apc[p] = "serving"
  /\ apc' = [apc EXCEPT ![p] = "stopped"]
  /\ CloseCtrl(p)
  /\ UNCHANGED <<reader, seen, handlers>>

----------------------------------------------------------------------------
(* handleRelayTarget and handleRelayData *)

HandlerGoto(d, s) == hpc' = [hpc EXCEPT ![d] = s] /\ UNCHANGED <<agents, owner, job>>

\* Dial the relay and write "data:<key>", or give up.
DialRelay(d) ==
  /\ hpc[d] = "dialing"
  /\ HandlerGoto(d, "awaiting") \/ HandlerGoto(d, "over")
  /\ UNCHANGED vars

\* The relay reads the line and answers "ready", before it looks for the
\* entry.  The line may come late, when the phone has already hung up.
LineArrives(d) ==
  /\ hpc[d] \in {"awaiting", "left"}
  /\ DataArrives(d, job[d])
  /\ UNCHANGED <<agents, handlers>>

\* The read of "ready" has no deadline: it returns with the answer, or when
\* the connection ends, or never.
GetReady(d) ==
  /\ hpc[d] = "awaiting"
  /\ \/ dpc[d] # "idle" /\ HandlerGoto(d, "greeted")
     \/ HandlerGoto(d, "left")
  /\ UNCHANGED vars

\* The client may have left since.
DialTarget(d) ==
  /\ hpc[d] = "greeted"
  /\ HandlerGoto(d, "relaying") \/ HandlerGoto(d, "over")
  /\ UNCHANGED vars

RelayEnds(d) ==
  /\ hpc[d] = "relaying"
  /\ HandlerGoto(d, "over")
  /\ UNCHANGED vars

----------------------------------------------------------------------------
\* A write to a phone that is there returns only when it fits.
WritesFit ==
  \A p \in Phones : sent'[p] # sent[p] /\ up[p] => Unread(p) < CtrlBuffer

RelayStep(A) == A /\ WritesFit /\ UNCHANGED <<agents, handlers>>

AgentStep(p)   == ReadId(p) \/ ReadLine(p) \/ LoseCtrl(p)
HandlerStep(d) == DialRelay(d) \/ GetReady(d) \/ DialTarget(d) \/ RelayEnds(d)

\* Everybody has left: the only rest state.
AllLeft ==
  /\ \A w \in Waiters : Finished(w)
  /\ \A p \in Phones : ppc[p] \in {"idle", "closed"} /\ apc[p] \in {"failed", "stopped"}
  /\ \A d \in Datas : dpc[d] \in {"idle", "closed"} /\ hpc[d] \in {"idle", "over", "left"}
  /\ UNCHANGED tvars

TunnelNext ==
  \/ \E p \in Phones :
       \/ DialAndRegister(p) \/ AgentStep(p) \/ Stop(p)
       \/ RelayStep(Announce(p) \/ PhoneLeaves(p) \/ PhoneGone(p))
  \/ \E c \in Clients : RelayStep(Handshake(c) \/ ClientStep(c))
  \/ \E l \in Legacy, i \in PhoneId : RelayStep(Connect(l, i))
  \/ \E w \in Waiters : RelayStep(WaiterStep(w) \/ PipeEnds(w))
  \/ \E d \in Datas : HandlerStep(d) \/ LineArrives(d) \/ RelayStep(DataStep(d))
  \/ AllLeft

TunnelSpec == TunnelInit /\ [][TunnelNext]_tvars

\* As for the relay alone, but a write that does not fit need not return.  On
\* the phone a line that is there is read.  The handlers it starts need do
\* nothing, since their wait for "ready" has no deadline; users need not stop
\* the tunnel and networks need not fail.
TunnelFairness ==
  /\ \A p \in Phones : WF_tvars(RelayStep(Announce(p) \/ PhoneLeaves(p)))
  /\ \A w \in Waiters : WF_tvars(RelayStep(ClientStep(w) \/ WaiterStep(w)))
  /\ \A d \in Datas : WF_tvars(RelayStep(DataStep(d)))
  /\ \A p \in Phones : WF_tvars(AgentStep(p))

FairTunnelSpec == TunnelSpec /\ TunnelFairness
----------------------------------------------------------------------------
(* Properties *)

\* While the relay has a live control connection to write to, somebody on the
\* phone reads it.  In particular a phone that is sent a client's line before
\* its id gives up and closes, rather than staying registered and deaf.
RegisteredPhonesListen ==
  \A p \in Phones : ppc[p] \in {"announce", "serving"} /\ up[p] =>
    \/ apc[p] = "registering"
    \/ apc[p] = "serving" /\ reader[p] = "reading"

\* A SOCKS5 request makes a phone dial back, and so dial the target, at most
\* once, although the relay, the reader and the handlers each keep their own
\* part of it.
OneDialPerRequest ==
  \A d, e \in Datas : job[d] = job[e] /\ job[d] \in {CKey(n) : n \in 1..MaxCid} => d = e

\* A line that was written to a phone is answered by a dial, or the phone has
\* left or lost its connection: no line is skipped, and no line waits behind
\* a relayed connection or a handler that never hears "ready".
HasLine(p, k) == \E n \in 1..Len(sent[p]) : sent[p][n] = k
LinesServed ==
  \A p \in Phones, w \in Waiters :
    sc[w] = p /\ HasLine(p, wkey[w]) ~> ~up[p] \/ \E d \in Datas : job[d] = wkey[w]
============================================================================
