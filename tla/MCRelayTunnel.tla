--------------------------- MODULE MCRelayTunnel ---------------------------
(* Instances of RelayTunnel for TLC: values for its sets. *)
EXTENDS RelayTunnel

CONSTANTS c1, l1, p1, d1, d2

OneClient == {c1}
OneLegacy == {l1}
OnePhone  == {p1}
TwoDatas  == {d1, d2}
============================================================================
