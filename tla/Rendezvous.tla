----------------------------- MODULE Rendezvous -----------------------------
(***************************************************************************)
(* What cmd/relay/main.go promises, without ids, maps, channels, locks or  *)
(* phones: a client that waits is matched with at most one data            *)
(* connection, a data connection with at most one client, and a client is  *)
(* joined only to the connection it was matched with.  RelayBroker         *)
(* implements this.                                                        *)
(***************************************************************************)
CONSTANTS Waiters, Datas

VARIABLES
  asked,     \* clients that have left an entry, now or earlier
  waiting,   \* clients whose entry is there
  matched,   \* <<client, data connection>>: the entry was taken for it
  joined     \* <<client, data connection>>: the client has received it

vars == <<asked, waiting, matched, joined>>

Init == asked = {} /\ waiting = {} /\ matched = {} /\ joined = {}

\* A client asks once; its entry may replace that of an earlier client.
Ask(w, replaced) ==
  /\ w \notin asked
  /\ asked' = asked \cup {w}
  /\ waiting' = (waiting \ {replaced}) \cup {w}
  /\ UNCHANGED <<matched, joined>>

Match(w, d) ==
  /\ w \in waiting /\ \A v \in Waiters : <<v, d>> \notin matched
  /\ waiting' = waiting \ {w}
  /\ matched' = matched \cup {<<w, d>>}
  /\ UNCHANGED <<asked, joined>>

Join(w, d) ==
  /\ <<w, d>> \in matched
  /\ joined' = joined \cup {<<w, d>>}
  /\ UNCHANGED <<asked, waiting, matched>>

Withdraw(w) ==
  /\ w \in waiting
  /\ waiting' = waiting \ {w}
  /\ UNCHANGED <<asked, matched, joined>>

Next ==
  \/ \E w, v \in Waiters : Ask(w, v)
  \/ \E w \in Waiters, d \in Datas : Match(w, d) \/ Join(w, d)
  \/ \E w \in Waiters : Withdraw(w)

Spec == Init /\ [][Next]_vars
============================================================================
