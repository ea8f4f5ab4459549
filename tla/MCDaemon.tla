------------------------------ MODULE MCDaemon ------------------------------
(***************************************************************************)
(* Daemon with 3 bits for the 32 of a capacity.  The values are two that   *)
(* are no limit, one that is taken as it is, one that leaves SOCKS5        *)
(* nothing, and after the conversion one that panics, one that leaves all  *)
(* services nothing and one that wraps to a limit; each mode is there.     *)
(***************************************************************************)
EXTENDS Daemon

Env(n, m) == [conns |-> n, tunnel |-> m]
SomeEnvironments ==
  {Env(-1, "none"), Env(0, "none"), Env(1, "serveo"), Env(3, "relay"),
   Env(4, "none"), Env(8, "none"), Env(11, "ssh")}
============================================================================
