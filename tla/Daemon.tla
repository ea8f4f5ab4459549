------------------------------- MODULE Daemon -------------------------------
(***************************************************************************)
(* The process zetproxyd, cmd/zetproxyd/main.go, with the ssh tunnel of    *)
(* internal/tunnel/sshtun.go: it reads its limit, starts three servers and *)
(* a tunnel in goroutines that nobody waits for, waits for a signal, stops *)
(* what it can find, and exits.  A server is its listening socket here;    *)
(* ConnService, UdpSessions and Dashboard have what goes on behind it.     *)
(***************************************************************************)
EXTENDS Integers

CONSTANTS
  Environments, \* of the process: conns, from ZETPROXY_MAX_CONNS (0 when it is
               \* unset or no number), and tunnel, the mode of ZETPROXY_TUNNEL
  Default,     \* of ZETPROXY_MAX_CONNS, 4096
  Wrap         \* 2^32

ASSUME DaemonAssumption ==
  /\ Environments \subseteq [conns : Int, tunnel : {"none", "serveo", "relay", "ssh"}]
  /\ Wrap \in Nat /\ Wrap % 2 = 0 /\ Default \in 2..(Wrap \div 2 - 1)

VARIABLES
  env, limit,          \* the environment; the capacities of the two semaphores
  main, sig, sent,     \* goroutine of main; len(sig); whether a signal was sent
  ctx,                 \* the context of all servers
  starter, errCh,      \* goroutine of tun.Start; len(errCh)
  svc, stored,         \* listening sockets; those a Stop can find in a field
  stop, missed,        \* goroutine of the shutdown; the fields it found empty (history)
  tg, ssh, tunnelCmd, killer, tunnelStop, url   \* the tunnel: its goroutine, ...

mainVars   == <<env, limit, main, sig, sent>>
svcVars    == <<starter, errCh, svc, stored>>
stopVars   == <<stop, missed>>
tunnelVars == <<tg, ssh, tunnelCmd, killer, tunnelStop, url>>
vars       == <<mainVars, ctx, svcVars, stopVars, tunnelVars>>

Service == {"tcp", "udp", "socks", "dash"}
Tun     == {"tcp", "udp"}
Over    == {"killed", "panicked", "graceful", "forced"}   \* the process is gone
Alive   == main \notin Over

\* Every variable is in its range; a capacity that was not set is 0.
TypeOK ==
  /\ env \in Environments /\ limit \in [{"tun", "socks"} -> 0..(Wrap \div 2 - 1)]
  /\ main \in {"configuring", "starting", "notified", "received", "stopping"} \cup Over
  /\ sig \in 0..1 /\ sent \in BOOLEAN
  /\ ctx \in {"live", "cancelled"}
  /\ starter \in {"none", "new", "waiting", "failed", "done"} /\ errCh \in 0..2
  /\ svc \in [Service -> {"none", "new", "open", "failed", "closed"}]
  /\ stored \subseteq Service \ {"dash"} /\ missed \subseteq Service \cup {"ssh"}
  /\ stop \in {"none", "tcp", "udp", "socks", "close", "kill", "done"}
  /\ tg \in {"none", "sleeping", "trying", "watching", "keeping", "kept", "ended"}
  /\ ssh \in {"none", "running", "exit0", "error", "killed"}
  /\ tunnelCmd \in {"nil", "set"} /\ killer \in {"none", "waiting", "done"}
  /\ tunnelStop \in {"nil", "open", "closed"} /\ url \in {"unset", "set"}

Init ==
  /\ env \in Environments /\ limit = [s \in {"tun", "socks"} |-> 0]
  /\ main = "configuring" /\ sig = 0 /\ sent = FALSE
  /\ ctx = "live"
  /\ starter = "none" /\ errCh = 0
  /\ svc = [s \in Service |-> "none"] /\ stored = {}
  /\ stop = "none" /\ missed = {}
  /\ tg = "none" /\ ssh = "none" /\ tunnelCmd = "nil" /\ killer = "none" /\ tunnelStop = "nil" /\ url = "unset"

----------------------------------------------------------------------------
(* main *)

ParsedZeroToo(n) == IF n >= 0 THEN n ELSE Default       \* mutant: n >= 0
\* getEnvInt: a number that is not positive is as good as none.
Parsed(n) == IF n > 0 THEN n ELSE Default

Unconverted(n) == n                     \* mutant: SetMaxConns takes an int
\* The conversion to int32.
Int32(n) == ((n + Wrap \div 2) % Wrap) - Wrap \div 2

\* Two calls of SetMaxConns, in which make panics on a negative size; the
\* goroutines of SOCKS5, dashboard and tunnel.
Configure ==
  /\ main = "configuring"
  /\ LET max == Int32(Parsed(env.conns))
     IN  IF max < 0
         THEN main' = "panicked" /\ UNCHANGED <<limit, svc, tg>>
         ELSE /\ main' = "starting"
              /\ limit' = [tun |-> max, socks |-> max \div 2]
              /\ svc' = [svc EXCEPT !["socks"] = "new", !["dash"] = "new"]
              /\ tg' = IF env.tunnel = "none" THEN "none" ELSE "sleeping"
  /\ UNCHANGED <<env, sig, sent, ctx, starter, errCh, stored, stopVars, ssh, tunnelCmd,
                 killer, tunnelStop, url>>

\* The goroutine of tun.Start; then signal.Notify.
Notify ==
  /\ main = "starting"
  /\ main' = "notified" /\ starter' = "new"
  /\ UNCHANGED <<env, limit, sig, sent, ctx, errCh, svc, stored, stopVars, tunnelVars>>

SignalUnbuffered ==                     \* mutant: the channel has no buffer
  /\ Alive
  /\ sent' = TRUE
  /\ IF main \in {"configuring", "starting"}
     THEN main' = "killed" /\ UNCHANGED sig
     ELSE sig' \in {sig, 1} /\ UNCHANGED main
  /\ UNCHANGED <<env, limit, ctx, svcVars, stopVars, tunnelVars>>

\* Before Notify a signal kills the process; after it, the signal waits in the
\* channel, and is dropped when one waits there.  Signals come again and again.
Signal ==
  /\ Alive
  /\ sent' = TRUE
  /\ IF main \in {"configuring", "starting"}
     THEN main' = "killed" /\ UNCHANGED sig
     ELSE sig' = 1 /\ UNCHANGED main
  /\ UNCHANGED <<env, limit, ctx, svcVars, stopVars, tunnelVars>>

Receive ==
  /\ main = "notified" /\ sig = 1
  /\ main' = "received" /\ sig' = 0
  /\ UNCHANGED <<env, limit, sent, ctx, svcVars, stopVars, tunnelVars>>

\* cancel, and the goroutine that stops the servers.
Cancel ==
  /\ main = "received"
  /\ main' = "stopping" /\ ctx' = "cancelled" /\ stop' = "tcp"
  /\ UNCHANGED <<env, limit, sig, sent, svcVars, missed, tunnelVars>>

\* All is done, or 10 s are over.
Exit ==
  /\ main = "stopping"
  /\ \/ stop = "done" /\ main' = "graceful"
     \/ main' = "forced"
  /\ UNCHANGED <<env, limit, sig, sent, ctx, svcVars, stopVars, tunnelVars>>

----------------------------------------------------------------------------
(* The servers *)

\* tun.Start begins, with the goroutines of its two halves.
Start ==
  /\ Alive /\ starter = "new"
  /\ starter' = "waiting"
  /\ svc' = [svc EXCEPT !["tcp"] = "new", !["udp"] = "new"]
  /\ UNCHANGED <<mainVars, ctx, errCh, stored, stopVars, tunnelVars>>

\* Listen does not look at a cancelled context, and may fail.
Listen(s) ==
  /\ Alive /\ svc[s] = "new"
  /\ \/ svc' = [svc EXCEPT ![s] = "open"] /\ UNCHANGED errCh
     \/ /\ svc' = [svc EXCEPT ![s] = "failed"]
        /\ errCh' = IF s \in Tun THEN errCh + 1 ELSE errCh
  /\ UNCHANGED <<mainVars, ctx, starter, stored, stopVars, tunnelVars>>

\* The socket goes into the server's field.
Store(s) ==
  /\ Alive /\ s # "dash" /\ svc[s] = "open" /\ s \notin stored
  /\ stored' = stored \cup {s}
  /\ UNCHANGED <<mainVars, ctx, starter, errCh, svc, stopVars, tunnelVars>>

WaitsForStop(s) == stop # "none"        \* mutant: the socket waits for Stop
Closing(s) == ctx = "cancelled"

\* The goroutine that waits for the context and then closes the socket, of the
\* dashboard with Shutdown.  It begins after the field is set.
CloseOnDone(s) ==
  /\ Alive /\ svc[s] = "open" /\ s \in stored \cup {"dash"} /\ Closing(s)
  /\ svc' = [svc EXCEPT ![s] = "closed"]
  /\ UNCHANGED <<mainVars, ctx, starter, errCh, stored, stopVars, tunnelVars>>

\* tun.Start returns with the first error; without one it never returns.
ReturnError ==
  /\ Alive /\ starter = "waiting" /\ errCh > 0
  /\ errCh' = errCh - 1 /\ starter' = "failed"
  /\ UNCHANGED <<mainVars, ctx, svc, stored, stopVars, tunnelVars>>

\* Its goroutine cancels all servers.  main goes on waiting for a signal.
CancelAll ==
  /\ Alive /\ starter = "failed"
  /\ starter' = "done" /\ ctx' = "cancelled"
  /\ UNCHANGED <<mainVars, errCh, svc, stored, stopVars, tunnelVars>>

ServiceStep(s) == Listen(s) \/ Store(s) \/ CloseOnDone(s)
StarterStep == Start \/ ReturnError \/ CancelAll

----------------------------------------------------------------------------
(* The tunnel *)

\* After 2 s, cancelled or not.  The relay's tunnel goes on in RelayTunnel.
Wake ==
  /\ Alive /\ tg = "sleeping"
  /\ tg' = IF env.tunnel = "ssh" THEN "trying" ELSE "ended"
  /\ tunnelStop' = IF env.tunnel = "serveo" THEN tunnelStop ELSE "open"
  /\ UNCHANGED <<mainVars, ctx, svcVars, stopVars, ssh, tunnelCmd, killer, url>>

StartSSH ==
  /\ Alive /\ tg = "trying"
  /\ \/ tg' = "ended" /\ UNCHANGED ssh
     \/ tg' = "watching" /\ ssh' = "running"
  /\ UNCHANGED <<mainVars, ctx, svcVars, stopVars, tunnelCmd, killer, tunnelStop, url>>

\* ssh ends by itself: also when nobody is there any more.
ExitSSH ==
  /\ ssh = "running"
  /\ ssh' \in {"exit0", "error"}
  /\ UNCHANGED <<mainVars, ctx, svcVars, stopVars, tg, tunnelCmd, killer, tunnelStop, url>>

\* The select of trySSHRemote.  An ssh that has ended with status 0 is taken
\* for a tunnel.  After 3 s it is kept, also if it has just ended.
Watch ==
  /\ Alive /\ tg = "watching"
  /\ \/ ssh = "error" /\ tg' = "ended" /\ UNCHANGED url
     \/ ssh = "exit0" /\ tg' = "ended" /\ url' = "set"
     \/ tg' = "keeping" /\ UNCHANGED url
  /\ UNCHANGED <<mainVars, ctx, svcVars, stopVars, ssh, tunnelCmd, killer, tunnelStop>>

Keep ==
  /\ Alive /\ tg = "keeping"
  /\ tg' = "kept" /\ tunnelCmd' = "set"
  /\ UNCHANGED <<mainVars, ctx, svcVars, stopVars, ssh, killer, tunnelStop, url>>

\* The goroutine that waits for tunnelStop; the URL.
Announce ==
  /\ Alive /\ tg = "kept"
  /\ tg' = "ended" /\ killer' = "waiting" /\ url' = "set"
  /\ UNCHANGED <<mainVars, ctx, svcVars, stopVars, ssh, tunnelCmd, tunnelStop>>

\* Kill of a process that has ended does nothing.
Kill == ssh' = IF ssh = "running" THEN "killed" ELSE ssh

KillerStep ==
  /\ Alive /\ killer = "waiting" /\ tunnelStop = "closed"
  /\ killer' = "done" /\ Kill
  /\ UNCHANGED <<mainVars, ctx, svcVars, stopVars, tg, tunnelCmd, tunnelStop, url>>

TunnelStep == Wake \/ StartSSH \/ Watch \/ Keep \/ Announce \/ KillerStep

----------------------------------------------------------------------------
(* The shutdown: tun.Stop, socks.Stop, StopTunnel *)

SkipUDP == [tcp |-> "socks", udp |-> "socks", socks |-> "close"]  \* mutant: udpConn is not closed
NextStop == [tcp |-> "udp", udp |-> "socks", socks |-> "close"]

\* The socket in the field, if there is one; closing it twice does no harm.
StopServer(s) ==
  /\ Alive /\ stop = s
  /\ stop' = NextStop[s]
  /\ IF s \in stored
     THEN svc' = [svc EXCEPT ![s] = "closed"] /\ UNCHANGED missed
     ELSE missed' = missed \cup {s} /\ UNCHANGED svc
  /\ UNCHANGED <<mainVars, ctx, starter, errCh, stored, tunnelVars>>

CloseTunnelStop ==
  /\ Alive /\ stop = "close"
  /\ stop' = "kill"
  /\ tunnelStop' = IF tunnelStop = "open" THEN "closed" ELSE tunnelStop
  /\ UNCHANGED <<mainVars, ctx, svcVars, missed, tg, ssh, tunnelCmd, killer, url>>

KillTunnel ==
  /\ Alive /\ stop = "kill"
  /\ stop' = "done"
  /\ IF tunnelCmd = "set" THEN Kill /\ UNCHANGED missed
                          ELSE missed' = missed \cup {"ssh"} /\ UNCHANGED ssh
  /\ UNCHANGED <<mainVars, ctx, svcVars, tg, tunnelCmd, killer, tunnelStop, url>>

StopStep == (\E s \in {"tcp", "udp", "socks"} : StopServer(s)) \/ CloseTunnelStop \/ KillTunnel

----------------------------------------------------------------------------
MainStep == Configure \/ Notify \/ Receive \/ Cancel \/ Exit

\* main may wait for ever, and a process that is gone does nothing.
Rest == (main = "notified" \/ ~Alive) /\ UNCHANGED vars

Next ==
  \/ MainStep \/ Signal \/ StarterStep \/ TunnelStep \/ StopStep \/ ExitSSH \/ Rest
  \/ \E s \in Service : ServiceStep(s)

Spec == Init /\ [][Next]_vars

\* The goroutines run.  Nothing is assumed of signals and of ssh.
Fairness ==
  /\ WF_vars(MainStep) /\ WF_vars(StarterStep) /\ WF_vars(TunnelStep) /\ WF_vars(StopStep)
  /\ \A s \in Service : WF_vars(ServiceStep(s))

FairSpec == Spec /\ Fairness
----------------------------------------------------------------------------
(* Properties *)

\* What each service is given for any number n in ZETPROXY_MAX_CONNS, which is
\* a limit for each of them and not for all (see TotalWithinLimit): the tunnel
\* gets n while that fits 31 bits, the default for what is no positive number,
\* and the remainder when main survives the conversion of a larger one; SOCKS5
\* gets another half of what the tunnel gets.  A service is closed to everybody
\* (a capacity of 0) just for n = 1, SOCKS5 only, and for a multiple of 2^32.
CapacitySound ==
  LET n == env.conns
  IN main \notin {"configuring", "killed", "panicked"} =>
    /\ limit["tun"] = IF n \in 1..(Wrap \div 2 - 1) THEN n
                      ELSE IF n <= 0 THEN Default ELSE n % Wrap
    /\ limit["tun"] \div 2 = limit["socks"]
    /\ limit["tun"] = 0 <=> (n > 0 /\ n % Wrap = 0)
    /\ limit["socks"] = 0 <=> limit["tun"] \in {0, 1}

\* After "All servers stopped gracefully" a socket of tcp, udp or socks is open
\* only if its server had not stored it when Stop looked: it started late.  An
\* ssh runs on, with a public port that leads nowhere, only if StopTunnel looked
\* before the 3 s of trySSHRemote were over.
GracefulMeansClosed ==
  main = "graceful" =>
    /\ \A s \in {"tcp", "udp", "socks"} : svc[s] = "open" => s \in missed
    /\ ssh = "running" => "ssh" \in missed

\* A signal ends the process, also one that comes between Notify and the
\* receive or further ones during the shutdown, and whatever goroutines have
\* failed, hang or start late.
ExitsAfterSignal == sent ~> ~Alive

NoneOpen == Alive => \A s \in Service : svc[s] # "open"

\* When one half of the tunnel server cannot listen, or main has cancelled the
\* context, in the end no server listens any more, not even one that starts
\* after it, and also while main, which waits for its signal, never calls Stop.
FailureCloses == ctx = "cancelled" \/ (\E s \in Tun : svc[s] = "failed") ~> []NoneOpen

----------------------------------------------------------------------------
(* What the documentation says and the code does not do *)

\* "Maximum concurrent connections (total across all services)": what the two
\* services admit together is within the number asked for.
TotalWithinLimit == limit["tun"] + limit["socks"] <= Parsed(env.conns)
============================================================================
