--------------------------- MODULE MCRelayBroker ---------------------------
(* Instances of RelayBroker for TLC: values for its sets and its symmetries. *)
EXTENDS RelayBroker, TLC

CONSTANTS c1, c2, l1, p1, p2, d1, d2

TwoClients == {c1, c2}
OneClient  == {c1}
OneLegacy  == {l1}
NoLegacy   == {}
TwoPhones  == {p1, p2}
OnePhone   == {p1}
TwoDatas   == {d1, d2}
OneData    == {d1}

\* The actors of one kind are interchangeable.
Symmetry == Permutations(Clients) \cup Permutations(Phones) \cup Permutations(Datas)
============================================================================
