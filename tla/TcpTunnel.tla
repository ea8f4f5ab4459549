----------------------------- MODULE TcpTunnel -----------------------------
(***************************************************************************)
(* The TCP half of the tunnel server, internal/tunnel/tunnel.go: handleTCP *)
(* detects the protocol from the first read and runs one of four handlers. *)
(***************************************************************************)
EXTENDS ConnService

VARIABLE proto    \* the protocol handleTCP has detected

vars == <<serviceVars, proto>>

Protocol == {"socks", "connect", "http", "raw", "unknown"}

\* As for the service; a protocol is one of the cases of the switch.
TypeOK == ServiceTypeOK /\ proto \in [Conns -> Protocol \cup {"none"}]

Init == ServiceInit /\ proto = [c \in Conns |-> "none"]

NoDeadline(c) ==                        \* mutant: SetDeadline is missing
  /\ stage[c] \in {"reading", "negotiating"} /\ FALSE
  /\ UNCHANGED vars

\* EOF, an error, or 120 s are over.  A SOCKS5 handshake also returns here for
\* a command, address type or length it does not take.
ReadFails(c) ==
  /\ stage[c] \in {"reading", "negotiating"}
  /\ Return(c)
  /\ UNCHANGED <<sockets, slots, counters, proto>>

\* The first bytes name the protocol; only SOCKS5 has more to read.
Detect(c, p) ==
  /\ stage[c] = "reading"
  /\ proto' = [proto EXCEPT ![c] = p]
  /\ CASE p = "unknown" -> Return(c)
       [] p = "socks" -> Goto(c, "negotiating") \/ Return(c)
       [] p = "raw" -> Goto(c, "dialing")
       [] OTHER -> Goto(c, "dialing") \/ Return(c)      \* there may be no host
  /\ failed' = IF p = "unknown" THEN failed + 1 ELSE failed
  /\ UNCHANGED <<sockets, slots, active, total, rejected>>

Negotiated(c) ==
  /\ stage[c] = "negotiating"
  /\ Goto(c, "dialing")
  /\ UNCHANGED <<sockets, slots, counters, proto>>

\* Within 10 s; only the SOCKS5 handler counts a failure.
DialFails(c) ==
  /\ stage[c] = "dialing"
  /\ failed' = IF proto[c] = "socks" THEN failed + 1 ELSE failed
  /\ Return(c)
  /\ UNCHANGED <<sockets, slots, active, total, rejected, proto>>

\* The handlers reply to the client, or for http send the request on to the
\* target.  The address that the raw handler dials begins with the two zero
\* bytes it was detected by: no name and no number does, so its dial fails.
DialSucceeds(c) ==
  /\ proto[c] # "raw" /\ Dial(c, "replying")
  /\ UNCHANGED proto

DialStep(c) == DialFails(c) \/ DialSucceeds(c) \/ (Reply(c) /\ UNCHANGED proto)

\* The deferred calls; the locals of the handler go with it.
Leave(c) ==
  /\ LeaveStep(c)
  /\ proto' = IF stage[c] = "release" THEN [proto EXCEPT ![c] = "none"] ELSE proto

Next ==
  \/ \E c \in Conns :
       \/ (Accept(c) \/ LoopStep(c) \/ RelayReturns(c)) /\ UNCHANGED proto
       \/ Leave(c)
       \/ ReadFails(c) \/ Negotiated(c) \/ DialStep(c)
       \/ \E p \in Protocol : Detect(c, p)
  \/ AllOver /\ UNCHANGED vars

Spec == Init /\ [][Next]_vars
============================================================================
