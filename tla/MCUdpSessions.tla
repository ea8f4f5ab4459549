--------------------------- MODULE MCUdpSessions ---------------------------
(* Instances of UdpSessions for TLC. *)
EXTENDS UdpSessions

CONSTANTS a1, s1, s2, s3

OneAddr   == {a1}
TwoSess   == {s1, s2}
ThreeSess == {s1, s2, s3}
============================================================================
