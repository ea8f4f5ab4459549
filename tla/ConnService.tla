---------------------------- MODULE ConnService ----------------------------
(***************************************************************************)
(* What the two TCP services of zetproxyd have in common, line by line:    *)
(* internal/tunnel/tunnel.go (startTCP, handleTCP) and                     *)
(* internal/proxy/socks5.go (Start, handle).  One accept loop and one      *)
(* goroutine per connection share the semaphore connSem and the counters   *)
(* of Stats; the calls deferred by the handler run on every return.        *)
(*                                                                         *)
(* A connection's stage is the point its goroutine has reached, that of    *)
(* the accept loop up to "admitted", that of its handler from "reading".   *)
(* The relay of bytes is one blocking call here.  TcpTunnel and            *)
(* Socks5Server add the handlers, and their own variables.                 *)
(***************************************************************************)
EXTENDS Integers, FiniteSets

CONSTANTS
  Conns,     \* connections that arrive, each once
  MaxConns   \* maxConns, the capacity of connSem

ASSUME ServiceAssumption == IsFiniteSet(Conns) /\ MaxConns \in Nat

VARIABLES
  stage,     \* per connection
  client,    \* is the connection's socket open
  target,    \* is the socket to its target open
  slots,     \* len(connSem)
  active, total, rejected, failed    \* Stats; TCPAccepts moves with total

sockets     == <<client, target>>
counters    == <<active, total, rejected, failed>>
serviceVars == <<stage, sockets, slots, counters>>

Loop      == {"pending", "admitted"}
Handshake == {"reading", "negotiating", "dialing", "replying"}
Leaving   == {"closeTarget", "release", "closeClient", "uncount"}
Over      == {"rejected", "done"}
Stage     == {"new", "relaying"} \cup Loop \cup Handshake \cup Leaving \cup Over

\* Every variable holds a value of its Go type; len(connSem) is within its
\* capacity.
ServiceTypeOK ==
  /\ stage \in [Conns -> Stage]
  /\ client \in [Conns -> BOOLEAN] /\ target \in [Conns -> BOOLEAN]
  /\ slots \in 0..MaxConns
  /\ active \in Int /\ total \in Nat /\ rejected \in Nat /\ failed \in Nat

ServiceInit ==
  /\ stage = [c \in Conns |-> "new"]
  /\ client = [c \in Conns |-> FALSE] /\ target = [c \in Conns |-> FALSE]
  /\ slots = 0 /\ active = 0 /\ total = 0 /\ rejected = 0 /\ failed = 0

Goto(c, s) == stage' = [stage EXCEPT ![c] = s]

----------------------------------------------------------------------------
(* The accept loop: one connection at a time *)

Accept(c) ==
  /\ stage[c] = "new" /\ \A d \in Conns : stage[d] \notin Loop
  /\ Goto(c, "pending")
  /\ client' = [client EXCEPT ![c] = TRUE]
  /\ UNCHANGED <<target, slots, counters>>

\* select, first case: a slot is free.
Admit(c) ==
  /\ stage[c] = "pending" /\ slots < MaxConns
  /\ slots' = slots + 1
  /\ Goto(c, "admitted")
  /\ UNCHANGED <<sockets, counters>>

RejectAlways(c) ==                      \* mutant: rejects although a slot is free
  /\ stage[c] = "pending"
  /\ rejected' = rejected + 1
  /\ client' = [client EXCEPT ![c] = FALSE]
  /\ Goto(c, "rejected")
  /\ UNCHANGED <<target, slots, active, total, failed>>

\* select, default case: the send would block.
Reject(c) ==
  /\ stage[c] = "pending" /\ slots = MaxConns
  /\ rejected' = rejected + 1
  /\ client' = [client EXCEPT ![c] = FALSE]
  /\ Goto(c, "rejected")
  /\ UNCHANGED <<target, slots, active, total, failed>>

\* The counters, then the go statement.
Count(c) ==
  /\ stage[c] = "admitted"
  /\ active' = active + 1 /\ total' = total + 1
  /\ Goto(c, "reading")
  /\ UNCHANGED <<sockets, slots, rejected, failed>>

LoopStep(c) == Admit(c) \/ Reject(c) \/ Count(c)

----------------------------------------------------------------------------
(* The handler: every return is a jump to the deferred calls *)

ReturnOpen(c) == Goto(c, "release")     \* mutant: defer target.Close() is missing

\* A target that was never opened needs no closing.
Return(c) == Goto(c, IF target[c] THEN "closeTarget" ELSE "release")

\* The dial succeeds; next is where the handler goes from there.
Dial(c, next) ==
  /\ stage[c] = "dialing"
  /\ target' = [target EXCEPT ![c] = TRUE]
  /\ Goto(c, next)
  /\ UNCHANGED <<client, slots, counters>>

\* The last write before the relay succeeds or not.
Reply(c) ==
  /\ stage[c] = "replying"
  /\ Goto(c, "relaying") \/ Return(c)
  /\ UNCHANGED <<sockets, slots, counters>>

\* Both directions have ended; no deadline limits this stage.
RelayReturns(c) ==
  /\ stage[c] = "relaying"
  /\ Return(c)
  /\ UNCHANGED <<sockets, slots, counters>>

CloseTarget(c) ==
  /\ stage[c] = "closeTarget"
  /\ target' = [target EXCEPT ![c] = FALSE]
  /\ Goto(c, "release")
  /\ UNCHANGED <<client, slots, counters>>

ReleaseNothing(c) ==                    \* mutant: <-s.connSem is missing
  /\ stage[c] = "release"
  /\ Goto(c, "closeClient")
  /\ UNCHANGED <<sockets, slots, counters>>

\* <-s.connSem comes before the socket is closed and counted down.
Release(c) ==
  /\ stage[c] = "release"
  /\ slots' = slots - 1
  /\ Goto(c, "closeClient")
  /\ UNCHANGED <<sockets, counters>>

CloseClient(c) ==
  /\ stage[c] = "closeClient"
  /\ client' = [client EXCEPT ![c] = FALSE]
  /\ Goto(c, "uncount")
  /\ UNCHANGED <<target, slots, counters>>

Uncount(c) ==
  /\ stage[c] = "uncount"
  /\ active' = active - 1
  /\ Goto(c, "done")
  /\ UNCHANGED <<sockets, slots, total, rejected, failed>>

LeaveStep(c) == CloseTarget(c) \/ Release(c) \/ CloseClient(c) \/ Uncount(c)

AllOver == \A c \in Conns : stage[c] \in Over

----------------------------------------------------------------------------
(* Properties of both services *)

Holding  == {c \in Conns : stage[c] \in {"admitted", "relaying", "closeTarget", "release"} \cup Handshake}
Handling == {c \in Conns : stage[c] \in {"relaying"} \cup Handshake \cup Leaving}
Finished == {c \in Conns : stage[c] = "done"}
Refused  == {c \in Conns : stage[c] = "rejected"}

\* The semaphore and the counters agree with the goroutines at every step and
\* on every way out of a handler: each holder has one slot, ConnsActive is the
\* number of handlers that have not ended, every connection the loop is done
\* with is in ConnsTotal or in ConnsRejected.
Accounting ==
  /\ slots = Cardinality(Holding)
  /\ active = Cardinality(Handling)
  /\ total = Cardinality(Handling \cup Finished)
  /\ rejected = Cardinality(Refused)

\* A connection that is over has neither of its sockets open, and a target's
\* socket does not outlive the slot of its connection.
NothingLeftOpen ==
  \A c \in Conns :
    /\ target[c] => stage[c] \in {"replying", "relaying", "closeTarget"}
    /\ stage[c] \in Over => ~client[c]

\* The service that LimitedService describes: the semaphore is its set of
\* served connections.
Phase == [c \in Conns |->
  IF stage[c] \in {"new", "pending"} THEN "new"
  ELSE IF stage[c] = "rejected" THEN "refused"
  ELSE IF c \in Holding THEN "served" ELSE "gone"]

Limited == INSTANCE LimitedService WITH Limit <- MaxConns, phase <- Phase

\* The service implements LimitedService: it never serves more connections
\* than the limit and turns one away only while it serves that many.
KeepsLimit == Limited!Spec

\* A client that says nothing, or stops halfway, is relayed or gone in the
\* end: the deadline covers every stage before the relay.
HandshakesEnd == \A c \in Conns : stage[c] = "reading" ~> stage[c] \in {"relaying", "done"}
============================================================================
