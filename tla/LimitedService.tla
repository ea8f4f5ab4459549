-------------------------- MODULE LimitedService --------------------------
(***************************************************************************)
(* What a listener with a connection semaphore promises, whatever it does  *)
(* for a connection: it serves at most Limit connections at a time, and    *)
(* turns one away only while it serves that many.  TcpTunnel and           *)
(* Socks5Server implement it.                                              *)
(***************************************************************************)
EXTENDS Naturals, FiniteSets

CONSTANTS Conns, Limit

VARIABLE phase

TypeOK == phase \in [Conns -> {"new", "served", "refused", "gone"}]

Served == {c \in Conns : phase[c] = "served"}

Init == phase = [c \in Conns |-> "new"]

Serve(c) ==
  /\ phase[c] = "new" /\ Cardinality(Served) < Limit
  /\ phase' = [phase EXCEPT ![c] = "served"]

Refuse(c) ==
  /\ phase[c] = "new" /\ Cardinality(Served) = Limit
  /\ phase' = [phase EXCEPT ![c] = "refused"]

Leave(c) ==
  /\ phase[c] = "served"
  /\ phase' = [phase EXCEPT ![c] = "gone"]

Next == \E c \in Conns : Serve(c) \/ Refuse(c) \/ Leave(c)

Spec == Init /\ [][Next]_phase

\* The limit is kept.
WithinLimit == Cardinality(Served) <= Limit
============================================================================
