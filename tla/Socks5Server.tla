--------------------------- MODULE Socks5Server ---------------------------
(***************************************************************************)
(* The dedicated SOCKS5 server, internal/proxy/socks5.go: the service of   *)
(* ConnService with a handshake of its own and the connection log.         *)
(***************************************************************************)
EXTENDS ConnService, Sequences

CONSTANT LogSize  \* maxLogSize

ASSUME LogAssumption == LogSize \in Nat \ {0}

VARIABLES
  connLog,   \* guarded by connLogMu: <<connection, status>>, oldest first
  counted,   \* history: connections that have raised ConnsFailed
  relayed    \* history: connections for which Relay has been called

history == <<counted, relayed>>
vars    == <<serviceVars, connLog, history>>

\* As for the service; an entry names a connection and its status.
TypeOK ==
  /\ ServiceTypeOK
  /\ connLog \in Seq(Conns \X {"connected", "failed"})
  /\ counted \subseteq Conns /\ relayed \subseteq Conns

Init == ServiceInit /\ connLog = <<>> /\ counted = {} /\ relayed = {}

CountFailure(c) == failed' = failed + 1 /\ counted' = counted \cup {c}

\* One critical section: append, then keep the last LogSize entries.
AddConnLog(c, status) ==
  LET longer == Append(connLog, <<c, status>>)
      excess == Len(longer) - LogSize
  IN connLog' = IF excess > 0 THEN SubSeq(longer, excess + 1, Len(longer)) ELSE longer

----------------------------------------------------------------------------
(* handle *)

\* Greeting ("reading") or request ("negotiating"): an error, 60 s are over,
\* or something it does not take.  The reads of greeting and request header
\* count a failure, the write of the method and the reads of the address do not.
HandshakeFails(c) ==
  /\ stage[c] \in {"reading", "negotiating"}
  /\ CountFailure(c) \/ UNCHANGED <<failed, counted>>
  /\ Return(c)
  /\ UNCHANGED <<sockets, slots, active, total, rejected, connLog, relayed>>

Proceed(c) ==
  /\ \/ stage[c] = "reading" /\ Goto(c, "negotiating")
     \/ stage[c] = "negotiating" /\ Goto(c, "dialing")
  /\ UNCHANGED <<sockets, slots, counters, connLog, history>>

DialFails(c) ==
  /\ stage[c] = "dialing"
  /\ CountFailure(c)
  /\ AddConnLog(c, "failed")
  /\ Return(c)
  /\ UNCHANGED <<sockets, slots, active, total, rejected, relayed>>

DialWorks(c) == Dial(c, "replying") /\ UNCHANGED <<connLog, history>>

\* After the reply the relay is called, unless the write of it fails: then the
\* connection is neither counted nor logged.
ReplyStep(c) ==
  /\ Reply(c)
  /\ relayed' = IF stage'[c] = "relaying" THEN relayed \cup {c} ELSE relayed
  /\ UNCHANGED <<connLog, counted>>

DialStep(c) == DialFails(c) \/ DialWorks(c) \/ ReplyStep(c)

EndsAsFailed(c) ==                      \* mutant: a relay that breaks off is logged as failed
  /\ RelayReturns(c)
  /\ \E status \in {"connected", "failed"} : AddConnLog(c, status)
  /\ UNCHANGED history

\* The entry is written when the relay is over, however it ended.
RelayEnds(c) == RelayReturns(c) /\ AddConnLog(c, "connected") /\ UNCHANGED history

AcceptStep(c) == (Accept(c) \/ LoopStep(c)) /\ UNCHANGED <<connLog, history>>
DeferStep(c)  == LeaveStep(c) /\ UNCHANGED <<connLog, history>>

Next ==
  \/ \E c \in Conns :
       AcceptStep(c) \/ HandshakeFails(c) \/ Proceed(c) \/ DialStep(c) \/ RelayEnds(c) \/ DeferStep(c)
  \/ AllOver /\ UNCHANGED vars

Spec == Init /\ [][Next]_vars

\* The loop and the handlers run; the handshake ends by the deadline of 60 s,
\* a dial by its own of 10 s.  No relay need ever end.
Fairness == \A c \in Conns :
  /\ WF_vars(LoopStep(c) /\ UNCHANGED <<connLog, history>>) /\ WF_vars(DeferStep(c))
  /\ WF_vars(HandshakeFails(c)) /\ WF_vars(DialStep(c))

FairSpec == Spec /\ Fairness

----------------------------------------------------------------------------
(* Properties *)

\* The log and ConnsFailed tell the same story: a connection raises the counter
\* at most once and has at most one entry, written when its outcome is known.
\* The entry says "failed" only of a connection that raised the counter and was
\* never relayed, "connected" only of one that was relayed and did not raise it.
LogFaithful ==
  /\ Len(connLog) <= LogSize
  /\ failed = Cardinality(counted)
  /\ \A i, j \in 1..Len(connLog) : connLog[i][1] = connLog[j][1] => i = j
  /\ \A i \in 1..Len(connLog) :
       LET c == connLog[i][1] IN
         /\ stage[c] \in Leaving \cup {"done"}
         /\ c \in IF connLog[i][2] = "failed" THEN counted \ relayed ELSE relayed \ counted
============================================================================
