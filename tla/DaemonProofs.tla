---------------------------- MODULE DaemonProofs ----------------------------
(***************************************************************************)
(* Theorems about Daemon, for any environments, any default, any number of *)
(* signals and any even width of a capacity.                               *)
(***************************************************************************)
EXTENDS Daemon, TLAPS

H == Wrap \div 2
Max32 == H - 1

LEMMA Half == H \in Nat /\ Wrap = 2 * H /\ Default \in Int /\ 2 <= Default /\ Default < H
<1>1. H \in Nat /\ Wrap = 2 * H
  BY DaemonAssumption DEF H
<1>2. QED
  BY <1>1, DaemonAssumption DEF H

(***************************************************************************)
(* The conversion to int32.                                                *)
(***************************************************************************)
LEMMA Remainder ==
  ASSUME NEW w \in Nat, w > 0, NEW a \in Int
  PROVE  a % w \in 0..(w - 1) /\ \E q \in Int : a = w * q + (a % w)
<1>1. a \div w \in Int /\ a % w \in 0..(w - 1)
  OBVIOUS
<1>2. a = w * (a \div w) + (a % w)
  OBVIOUS
<1>3. QED
  BY <1>1, <1>2

LEMMA RemainderUnique ==
  ASSUME NEW w \in Nat, NEW p \in Int, NEW q \in Int, NEW r \in 0..(w - 1), NEW s \in 0..(w - 1),
         w * p + r = w * q + s
  PROVE  r = s
<1>1. w * (p - q) = s - r
  OBVIOUS
<1>2. CASE p - q >= 1
  BY <1>1, <1>2
<1>3. CASE q - p >= 1
  BY <1>1, <1>3
<1>4. CASE p = q
  BY <1>1, <1>4
<1>5. QED
  BY <1>2, <1>3, <1>4

\* The result fits, is the number itself when that fits, and is otherwise, if
\* it is not negative, its remainder.
LEMMA Converted ==
  ASSUME NEW n \in Int
  PROVE  /\ Int32(n) \in Int /\ Int32(n) < H
         /\ n \in 0..Max32 => Int32(n) = n
         /\ Int32(n) >= 0 => Int32(n) = n % Wrap
<1> DEFINE r == (n + H) % Wrap
<1>1. H \in Nat /\ Wrap = 2 * H /\ Wrap \in Nat /\ Wrap > 0 /\ Int32(n) = r - H
  BY Half DEF Int32, H
<1>2. r \in 0..(Wrap - 1) /\ \E q \in Int : n + H = Wrap * q + r
  BY <1>1, Remainder
<1>3. ASSUME n \in 0..Max32 PROVE r = n + H
  BY <1>1, <1>3 DEF Max32
<1> HIDE DEF r
<1>4. ASSUME r - H >= 0 PROVE r - H = n % Wrap
  <2>1. PICK q \in Int : n + H = Wrap * q + r
    BY <1>2
  <2>2. n % Wrap \in 0..(Wrap - 1) /\ \E p \in Int : n = Wrap * p + (n % Wrap)
    BY <1>1, Remainder
  <2>3. PICK p \in Int : n = Wrap * p + (n % Wrap)
    BY <2>2
  <2>4. r - H \in 0..(Wrap - 1)
    BY <1>1, <1>2, <1>4
  <2>5. Wrap * q + (r - H) = Wrap * p + (n % Wrap)
    <3> DEFINE a == Wrap * q
               b == n % Wrap
    <3>1. a \in Int /\ b \in Int /\ n + H = a + r
      BY <1>1, <2>1, <2>2
    <3> HIDE DEF a, b
    <3>2. a + (r - H) = n
      BY <1>1, <1>2, <3>1
    <3>3. QED
      BY <2>3, <3>2 DEF a, b
  <2>6. QED
    BY <1>1, <2>2, <2>4, <2>5, RemainderUnique
<1>5. QED
  BY <1>1, <1>2, <1>3, <1>4

(***************************************************************************)
(* What holds of the process at every point.  Each part is there for a     *)
(* step that is harmless because of what came before it: a socket that is  *)
(* closed is not made again since everything is started once (Started),    *)
(* errCh has a slot for every error that is sent (Errors), a Stop closes   *)
(* what it finds in a field (Fields), it has gone past a server only if it *)
(* closed it or found nothing (Stopped, Killed).                           *)
(***************************************************************************)
Started ==
  /\ main = "configuring" => tg = "none" /\ \A s \in Service : svc[s] = "none"
  /\ main \in {"configuring", "starting"} => starter = "none"
  /\ starter \in {"none", "new"} => \A s \in Tun : svc[s] = "none"

Failed(s) == IF svc[s] = "failed" THEN 1 ELSE 0
Errors == errCh <= Failed("tcp") + Failed("udp")

Fields == \A s \in stored : svc[s] \in {"open", "closed"}

Passed == [tcp |-> {"udp", "socks", "close", "kill", "done"},
           udp |-> {"socks", "close", "kill", "done"}, socks |-> {"close", "kill", "done"}]
Stopped == \A s \in {"tcp", "udp", "socks"} : stop \in Passed[s] => s \in missed \/ svc[s] = "closed"

Killed ==
  /\ tunnelCmd = "set" => tg \in {"kept", "ended"}
  /\ stop = "done" => "ssh" \in missed \/ (tg \in {"kept", "ended"} /\ ssh # "running")
  /\ main = "graceful" => stop = "done"

Max == Int32(Parsed(env.conns))
Capacities ==
  main \notin {"configuring", "killed", "panicked"} =>
    Max >= 0 /\ limit = [tun |-> Max, socks |-> Max \div 2]

IInv == TypeOK /\ Started /\ Errors /\ Fields /\ Stopped /\ Killed /\ Capacities

LEMMA InitIInv == Init => IInv
<1> SUFFICES ASSUME Init PROVE IInv
  OBVIOUS
<1>1. TypeOK
  <2>1. 0 \in 0..(Wrap \div 2 - 1)
    BY Half DEF H
  <2>2. env \in Environments /\ limit \in [{"tun", "socks"} -> 0..(Wrap \div 2 - 1)]
    BY <2>1 DEF Init
  <2>3. svc \in [Service -> {"none", "new", "open", "failed", "closed"}]
    BY DEF Init
  <2>4. sent \in BOOLEAN
    BY Zenon DEF Init
  <2>5. /\ main = "configuring" /\ sig = 0 /\ ctx = "live" /\ starter = "none" /\ errCh = 0
        /\ stored = {} /\ stop = "none" /\ missed = {} /\ tg = "none" /\ ssh = "none"
        /\ tunnelCmd = "nil" /\ killer = "none" /\ tunnelStop = "nil" /\ url = "unset"
    BY Zenon DEF Init
  <2>6. QED
    BY <2>2, <2>3, <2>4, <2>5 DEF TypeOK, Over
<1>2. Started /\ Errors /\ Fields
  BY DEF Init, Started, Errors, Failed, Fields, Service, Tun
<1>3. Stopped /\ Killed /\ Capacities
  BY DEF Init, Stopped, Passed, Killed, Capacities
<1>4. QED
  BY <1>1, <1>2, <1>3 DEF IInv

----------------------------------------------------------------------------
(* main *)

LEMMA EnvConns == TypeOK => env.conns \in Int /\ Parsed(env.conns) \in Int /\ Max \in Int /\ Max < H
<1> SUFFICES ASSUME TypeOK PROVE env.conns \in Int /\ Parsed(env.conns) \in Int /\ Max \in Int /\ Max < H
  OBVIOUS
<1>1. env.conns \in Int
  BY DaemonAssumption DEF TypeOK
<1>2. Parsed(env.conns) \in Int
  BY <1>1, Half DEF Parsed
<1>3. QED
  BY <1>1, <1>2, Converted DEF Max

LEMMA ConfigureKeeps == IInv /\ Configure => IInv'
<1> SUFFICES ASSUME IInv, Configure PROVE IInv'
  OBVIOUS
<1> USE DEF IInv
<1>1. /\ main = "configuring" /\ tg = "none" /\ \A s \in Service : svc[s] = "none"
      /\ starter = "none"
      /\ UNCHANGED <<env, sig, sent, ctx, starter, errCh, stored, stop, missed, ssh, tunnelCmd,
                     killer, tunnelStop, url>>
  BY DEF Configure, Started, stopVars
<1>2. Max \in Int /\ Max < H /\ Max' = Max
  BY <1>1, EnvConns DEF Max
<1>3. CASE Max < 0 /\ main' = "panicked" /\ UNCHANGED <<limit, svc, tg>>
  <2>1. TypeOK'
    BY <1>1, <1>3 DEF TypeOK, Over
  <2>2. Started' /\ Errors' /\ Fields'
    BY <1>1, <1>3 DEF Started, Errors, Failed, Fields, Tun, Service
  <2>3. Stopped' /\ Killed' /\ Capacities'
    BY <1>1, <1>3 DEF Stopped, Killed, Capacities
  <2>4. QED
    BY <2>1, <2>2, <2>3
<1>4. CASE /\ Max >= 0 /\ main' = "starting" /\ limit' = [tun |-> Max, socks |-> Max \div 2]
           /\ svc' = [svc EXCEPT !["socks"] = "new", !["dash"] = "new"]
           /\ tg' \in {"none", "sleeping"}
  <2>1. TypeOK'
    <3>1. limit' \in [{"tun", "socks"} -> 0..(Wrap \div 2 - 1)]
      <4>1. Max \in 0..(Wrap \div 2 - 1) /\ Max \div 2 \in 0..(Wrap \div 2 - 1)
        BY <1>2, <1>4, Half DEF H
      <4>2. QED
        BY <1>4, <4>1
    <3>2. QED
      BY <1>1, <1>4, <3>1 DEF TypeOK, Service
  <2>2. svc'["tcp"] = "none" /\ svc'["udp"] = "none" /\ svc["socks"] = "none"
    BY <1>1, <1>4 DEF TypeOK, Service
  <2>3. Started' /\ Errors'
    BY <1>1, <1>4, <2>2 DEF Started, Errors, Failed, Tun, Service
  <2>4. Fields'
    BY <1>1, <1>4 DEF Fields, TypeOK, Service
  <2>5. Stopped' /\ Killed'
    BY <1>1, <1>4, <2>2 DEF Stopped, Killed, Service
  <2>6. Capacities'
    BY <1>2, <1>4 DEF Capacities
  <2>7. QED
    BY <2>1, <2>3, <2>4, <2>5, <2>6
<1>5. QED
  BY <1>1, <1>2, <1>3, <1>4 DEF Configure, Max

\* No other step writes the environment or the capacities, and main never goes
\* back behind Configure.
LEMMA CapacitiesKeep ==
  ASSUME IInv, UNCHANGED <<env, limit>>,
         main' \notin {"killed", "panicked"} => main \notin {"configuring", "killed", "panicked"} \/ main' = main
  PROVE  Capacities'
<1>1. Max' = Max
  BY DEF Max
<1>2. QED
  BY <1>1 DEF IInv, Capacities

LEMMA MainKeeps == IInv /\ (Notify \/ Receive \/ Cancel \/ Exit \/ Signal) => IInv'
<1> SUFFICES ASSUME IInv, Notify \/ Receive \/ Cancel \/ Exit \/ Signal PROVE IInv'
  OBVIOUS
<1>1. /\ UNCHANGED <<env, limit, errCh, svc, stored, missed, tg, ssh, tunnelCmd, killer, tunnelStop, url>>
      /\ main \notin {"configuring", "killed", "panicked"} \/ main' = main \/ main' = "killed"
  BY DEF Notify, Receive, Cancel, Exit, Signal, svcVars, stopVars, tunnelVars, IInv, TypeOK, Over
<1>2. TypeOK'
  <2>1. CASE Signal
    <3>1. sent' \in BOOLEAN /\ main' \in {main, "killed"} /\ sig' \in {sig, 1}
          /\ UNCHANGED <<ctx, starter, stop>>
      BY <2>1 DEF Signal, IInv, TypeOK, svcVars, stopVars
    <3>2. QED
      BY <1>1, <3>1 DEF IInv, TypeOK, Over
  <2>2. CASE Notify \/ Receive \/ Cancel \/ Exit
    <3>1. /\ main' \in {"notified", "received", "stopping", "graceful", "forced"} /\ sent' = sent
          /\ sig' \in {sig, 0} /\ ctx' \in {ctx, "cancelled"} /\ starter' \in {starter, "new"}
          /\ stop' \in {stop, "tcp"}
      BY <2>2 DEF Notify, Receive, Cancel, Exit, svcVars, stopVars
    <3>2. QED
      BY <1>1, <3>1 DEF IInv, TypeOK, Over
  <2>3. QED
    BY <2>1, <2>2
<1>3. Started'
  BY <1>1 DEF Notify, Receive, Cancel, Exit, Signal, svcVars, IInv, Started, Tun
<1>4. Errors' /\ Fields'
  BY <1>1 DEF IInv, Errors, Failed, Fields
<1>5. Stopped' /\ Killed'
  <2>1. \/ stop' = stop /\ (main' = "graceful" => main = "graceful" \/ stop = "done")
        \/ stop' = "tcp" /\ main' = "stopping"
    BY DEF Notify, Receive, Cancel, Exit, Signal, stopVars
  <2>2. QED
    BY <1>1, <2>1 DEF IInv, Stopped, Passed, Killed
<1>6. Capacities'
  BY <1>1, CapacitiesKeep
<1>7. QED
  BY <1>2, <1>3, <1>4, <1>5, <1>6 DEF IInv

----------------------------------------------------------------------------
(* The servers *)

LEMMA StarterKeeps == IInv /\ StarterStep => IInv'
<1> SUFFICES ASSUME IInv, StarterStep PROVE IInv'
  OBVIOUS
<1>1. CASE Start
  <2>1. /\ starter = "new" /\ starter' = "waiting" /\ \A s \in Tun : svc[s] = "none"
        /\ svc' = [svc EXCEPT !["tcp"] = "new", !["udp"] = "new"]
        /\ UNCHANGED <<env, limit, main, sig, sent, ctx, errCh, stored, stop, missed, tg, ssh,
                       tunnelCmd, killer, tunnelStop, url>>
    BY <1>1 DEF Start, IInv, Started, mainVars, stopVars, tunnelVars
  <2>2. TypeOK'
    BY <2>1 DEF IInv, TypeOK, Service
  <2>3. /\ svc'["tcp"] = "new" /\ svc'["udp"] = "new" /\ svc["tcp"] = "none" /\ svc["udp"] = "none"
        /\ \A s \in Service \ Tun : svc'[s] = svc[s]
    BY <2>1 DEF IInv, TypeOK, Service, Tun
  <2>4. Started' /\ Errors' /\ Fields'
    <3>1. main \notin {"configuring", "starting"} /\ errCh <= 0
      BY <2>1, <2>3 DEF IInv, Started, Errors, Failed
    <3>2. "tcp" \notin stored /\ "udp" \notin stored
      BY <2>3 DEF IInv, Fields
    <3>3. Started' /\ Errors'
      BY <2>1, <2>3, <3>1 DEF IInv, TypeOK, Started, Errors, Failed
    <3>4. Fields'
      BY <2>1, <2>3, <3>2 DEF IInv, TypeOK, Fields, Tun
    <3>5. QED
      BY <3>3, <3>4
  <2>5. Stopped' /\ Killed'
    <3>1. \A s \in {"tcp", "udp", "socks"} : svc[s] = "closed" => svc'[s] = "closed"
      BY <2>3 DEF Service, Tun
    <3>2. QED
      BY <2>1, <3>1 DEF IInv, Stopped, Killed
  <2>6. Capacities'
    BY <2>1, CapacitiesKeep
  <2>7. QED
    BY <2>2, <2>4, <2>5, <2>6 DEF IInv
<1>2. CASE ReturnError \/ CancelAll
  <2>1. /\ starter \in {"waiting", "failed"} /\ starter' \in {"failed", "done"}
        /\ ctx' \in {ctx, "cancelled"} /\ errCh' \in Nat /\ errCh' <= errCh
        /\ UNCHANGED <<env, limit, main, sig, sent, svc, stored, stop, missed, tg, ssh,
                       tunnelCmd, killer, tunnelStop, url>>
    BY <1>2 DEF ReturnError, CancelAll, IInv, TypeOK, mainVars, stopVars, tunnelVars
  <2>2. TypeOK'
    BY <2>1 DEF IInv, TypeOK
  <2>3. Started' /\ Errors' /\ Fields'
    <3>1. main \notin {"configuring", "starting"}
      BY <2>1 DEF IInv, Started
    <3>2. Failed("tcp") \in Nat /\ Failed("udp") \in Nat
      BY DEF Failed
    <3>3. QED
      BY <2>1, <3>1, <3>2 DEF IInv, TypeOK, Started, Errors, Failed, Fields
  <2>4. Stopped' /\ Killed'
    BY <2>1 DEF IInv, Stopped, Killed
  <2>5. Capacities'
    BY <2>1, CapacitiesKeep
  <2>6. QED
    BY <2>2, <2>3, <2>4, <2>5 DEF IInv
<1>3. QED
  BY <1>1, <1>2 DEF StarterStep

\* A socket that changes hands goes on from new to open or failed, or from
\* open to closed.
LEMMA SocketKeeps ==
  ASSUME IInv, NEW s \in Service, NEW x \in {"open", "failed", "closed"},
         svc' = [svc EXCEPT ![s] = x],
         (svc[s] = "new" /\ x \in {"open", "failed"}) \/ (svc[s] \in {"open", "closed"} /\ x = "closed"),
         errCh' = IF s \in Tun /\ x = "failed" THEN errCh + 1 ELSE errCh,
         UNCHANGED <<main, starter, stored, tg>>
  PROVE  /\ svc' \in [Service -> {"none", "new", "open", "failed", "closed"}] /\ errCh' \in 0..2
         /\ Started' /\ Errors' /\ Fields'
         /\ \A t \in {"tcp", "udp", "socks"} : svc[t] = "closed" => svc'[t] = "closed"
<1>1. /\ svc \in [Service -> {"none", "new", "open", "failed", "closed"}] /\ errCh \in 0..2
      /\ stored \subseteq Service \ {"dash"}
  BY DEF IInv, TypeOK
<1>2. svc' \in [Service -> {"none", "new", "open", "failed", "closed"}]
  BY <1>1
<1>3. /\ svc'[s] = x /\ \A t \in Service : t # s => svc'[t] = svc[t]
      /\ "tcp" \in Service /\ "udp" \in Service /\ "socks" \in Service
  BY <1>1 DEF Service
<1>4. Started'
  BY <1>3 DEF IInv, Started, Tun
<1>5. Errors' /\ errCh' \in 0..2
  <2>1. /\ Failed("tcp") \in 0..1 /\ Failed("udp") \in 0..1
        /\ Failed("tcp")' \in 0..1 /\ Failed("udp")' \in 0..1
    BY DEF Failed
  <2>2. CASE x = "failed" /\ s \in Tun
    <3>1. /\ s = "tcp" => Failed("tcp") = 0 /\ Failed("tcp")' = 1 /\ Failed("udp")' = Failed("udp")
          /\ s = "udp" => Failed("udp") = 0 /\ Failed("udp")' = 1 /\ Failed("tcp")' = Failed("tcp")
      BY <1>3, <2>2 DEF Failed
    <3>2. s = "tcp" \/ s = "udp"
      BY <2>2 DEF Tun
    <3>3. QED
      BY <1>1, <2>1, <2>2, <3>1, <3>2 DEF IInv, Errors
  <2>3. CASE ~(x = "failed" /\ s \in Tun)
    <3>1. Failed("tcp")' = Failed("tcp") /\ Failed("udp")' = Failed("udp")
      BY <1>3, <2>3 DEF Failed, Tun
    <3>2. QED
      BY <1>1, <2>3, <3>1 DEF IInv, Errors
  <2>4. QED
    BY <2>2, <2>3
<1>6. Fields'
  BY <1>1, <1>3 DEF IInv, Fields
<1>7. QED
  BY <1>2, <1>3, <1>4, <1>5, <1>6

LEMMA ServiceKeeps == ASSUME IInv, NEW s \in Service, ServiceStep(s) PROVE IInv'
<1>1. /\ UNCHANGED <<env, limit, main, sig, sent, ctx, starter, stop, missed, tg, ssh, tunnelCmd,
                     killer, tunnelStop, url>>
  BY DEF ServiceStep, Listen, Store, CloseOnDone, mainVars, stopVars, tunnelVars
<1>2. Capacities'
  BY <1>1, CapacitiesKeep
<1>3. CASE Listen(s) \/ CloseOnDone(s)
  <2>1. \E x \in {"open", "failed", "closed"} :
          /\ svc' = [svc EXCEPT ![s] = x] /\ stored' = stored
          /\ (svc[s] = "new" /\ x \in {"open", "failed"}) \/ (svc[s] \in {"open", "closed"} /\ x = "closed")
          /\ errCh' = IF s \in Tun /\ x = "failed" THEN errCh + 1 ELSE errCh
    BY <1>3 DEF Listen, CloseOnDone
  <2>2. /\ svc' \in [Service -> {"none", "new", "open", "failed", "closed"}] /\ errCh' \in 0..2
        /\ Started' /\ Errors' /\ Fields' /\ stored' = stored
        /\ \A t \in {"tcp", "udp", "socks"} : svc[t] = "closed" => svc'[t] = "closed"
    BY <1>1, <2>1, SocketKeeps
  <2>3. TypeOK'
    BY <1>1, <2>2 DEF IInv, TypeOK
  <2>4. Stopped' /\ Killed'
    BY <1>1, <2>2 DEF IInv, Stopped, Killed
  <2>5. QED
    BY <1>2, <2>2, <2>3, <2>4 DEF IInv
<1>4. CASE Store(s)
  <2>1. svc[s] = "open" /\ s # "dash" /\ stored' = stored \cup {s} /\ UNCHANGED <<svc, errCh>>
    BY <1>4 DEF Store
  <2>2. TypeOK'
    BY <1>1, <2>1 DEF IInv, TypeOK
  <2>3. Started' /\ Errors' /\ Fields'
    BY <1>1, <2>1 DEF IInv, Started, Errors, Failed, Fields
  <2>4. Stopped' /\ Killed'
    BY <1>1, <2>1 DEF IInv, Stopped, Killed
  <2>5. QED
    BY <1>2, <2>2, <2>3, <2>4 DEF IInv
<1>5. QED
  BY <1>3, <1>4 DEF ServiceStep

----------------------------------------------------------------------------
(* The tunnel and the shutdown *)

LEMMA TunnelKeeps == IInv /\ (TunnelStep \/ ExitSSH) => IInv'
<1> SUFFICES ASSUME IInv, TunnelStep \/ ExitSSH PROVE IInv'
  OBVIOUS
<1>1. UNCHANGED <<env, limit, main, sig, sent, ctx, starter, errCh, svc, stored, stop, missed>>
  BY DEF TunnelStep, Wake, StartSSH, Watch, Keep, Announce, KillerStep, ExitSSH, mainVars, svcVars, stopVars
<1>2. Errors' /\ Fields' /\ Stopped' /\ Capacities'
  BY <1>1, CapacitiesKeep DEF IInv, Errors, Failed, Fields, Stopped
<1>3. TypeOK'
  <2>1. /\ tg' \in {tg, "trying", "ended", "watching", "keeping", "kept"}
        /\ ssh' \in {ssh, "running", "exit0", "error", "killed"} /\ tunnelCmd' \in {tunnelCmd, "set"}
        /\ killer' \in {killer, "waiting", "done"} /\ tunnelStop' \in {tunnelStop, "open"}
        /\ url' \in {url, "set"}
    BY DEF TunnelStep, Wake, StartSSH, Watch, Keep, Announce, KillerStep, Kill, ExitSSH
  <2>2. QED
    BY <1>1, <2>1 DEF IInv, TypeOK
<1>4. Started'
  <2>1. tg = "none" => tg' = "none"
    BY DEF TunnelStep, Wake, StartSSH, Watch, Keep, Announce, KillerStep, ExitSSH
  <2>2. QED
    BY <1>1, <2>1 DEF IInv, Started
<1>5. Killed'
  <2>1. /\ tg \in {"kept", "ended"} => tg' \in {"kept", "ended"} /\ (ssh # "running" => ssh' # "running")
        /\ tunnelCmd' = "set" => tunnelCmd = "set" \/ tg' = "kept"
    BY DEF TunnelStep, Wake, StartSSH, Watch, Keep, Announce, KillerStep, Kill, ExitSSH
  <2>2. QED
    BY <1>1, <2>1 DEF IInv, Killed
<1>6. QED
  BY <1>2, <1>3, <1>4, <1>5 DEF IInv

LEMMA StopServerKeeps ==
  ASSUME IInv, NEW s \in {"tcp", "udp", "socks"}, StopServer(s)
  PROVE  IInv'
<1>1. /\ stop = s /\ stop' = NextStop[s] /\ s \in Service
      /\ UNCHANGED <<env, limit, main, sig, sent, ctx, starter, errCh, stored, tg, ssh, tunnelCmd,
                     killer, tunnelStop, url>>
  BY DEF StopServer, Service, mainVars, tunnelVars
<1>2. stop' \in {"udp", "socks", "close"}
  BY <1>1 DEF NextStop
<1>3. /\ svc' \in [Service -> {"none", "new", "open", "failed", "closed"}]
      /\ missed \subseteq missed' /\ missed' \subseteq missed \cup {s}
      /\ Started' /\ Errors' /\ Fields' /\ (s \in missed' \/ svc'[s] = "closed")
      /\ \A t \in {"tcp", "udp", "socks"} : svc[t] = "closed" => svc'[t] = "closed"
  <2>1. CASE s \in stored
    <3>1. svc' = [svc EXCEPT ![s] = "closed"] /\ missed' = missed
      BY <2>1 DEF StopServer
    <3>2. svc[s] \in {"open", "closed"}
      BY <2>1 DEF IInv, Fields
    <3>3. svc'[s] = "closed"
      BY <1>1, <3>1 DEF IInv, TypeOK
    <3>4. QED
      BY <1>1, <3>1, <3>2, <3>3, SocketKeeps
  <2>2. CASE s \notin stored
    <3>1. svc' = svc /\ missed' = missed \cup {s}
      BY <2>2 DEF StopServer
    <3>2. QED
      BY <1>1, <3>1 DEF IInv, TypeOK, Started, Errors, Failed, Fields
  <2>3. QED
    BY <2>1, <2>2
<1>4. TypeOK'
  BY <1>1, <1>2, <1>3 DEF IInv, TypeOK
<1>5. Stopped'
  <2>1. /\ s = "tcp" => stop' = "udp"
        /\ s = "udp" => stop' = "socks"
        /\ s = "socks" => stop' = "close"
    BY <1>1 DEF NextStop
  <2>2. \A t \in {"tcp", "udp", "socks"} : stop' \in Passed[t] => t = s \/ stop \in Passed[t]
    BY <1>1, <2>1 DEF Passed
  <2>3. QED
    BY <1>3, <2>2 DEF IInv, Stopped
<1>6. Killed'
  BY <1>1, <1>2 DEF IInv, Killed
<1>7. Capacities'
  BY <1>1, CapacitiesKeep
<1>8. QED
  BY <1>3, <1>4, <1>5, <1>6, <1>7 DEF IInv

LEMMA StopTunnelKeeps == IInv /\ (CloseTunnelStop \/ KillTunnel) => IInv'
<1> SUFFICES ASSUME IInv, CloseTunnelStop \/ KillTunnel PROVE IInv'
  OBVIOUS
<1>1. UNCHANGED <<env, limit, main, sig, sent, ctx, starter, errCh, svc, stored, tg, tunnelCmd, killer, url>>
  BY DEF CloseTunnelStop, KillTunnel, mainVars, svcVars
<1>2. Started' /\ Errors' /\ Fields' /\ Capacities'
  BY <1>1, CapacitiesKeep DEF IInv, Started, Errors, Failed, Fields
<1>3. \/ stop = "close" /\ stop' = "kill" /\ UNCHANGED <<missed, ssh>> /\ tunnelStop' \in {tunnelStop, "closed"}
      \/ /\ stop = "kill" /\ stop' = "done" /\ tunnelStop' = tunnelStop
         /\ \/ tunnelCmd = "set" /\ ssh' \in {ssh, "killed"} /\ ssh' # "running" /\ missed' = missed
            \/ ssh' = ssh /\ missed' = missed \cup {"ssh"}
  BY DEF CloseTunnelStop, KillTunnel, Kill
<1>4. TypeOK'
  BY <1>1, <1>3 DEF IInv, TypeOK
<1>5. Stopped'
  BY <1>1, <1>3 DEF IInv, Stopped, Passed
<1>6. Killed'
  BY <1>1, <1>3 DEF IInv, Killed
<1>7. QED
  BY <1>2, <1>4, <1>5, <1>6 DEF IInv

----------------------------------------------------------------------------
LEMMA StepIInv == IInv /\ [Next]_vars => IInv'
<1> SUFFICES ASSUME IInv, [Next]_vars PROVE IInv'
  OBVIOUS
<1>1. CASE UNCHANGED vars
  <2>1. UNCHANGED <<env, limit, main, sig, sent, ctx, starter, errCh, svc, stored, stop, missed, tg,
                    ssh, tunnelCmd, killer, tunnelStop, url>>
    BY <1>1 DEF vars, mainVars, svcVars, stopVars, tunnelVars
  <2>2. QED
    BY <2>1, CapacitiesKeep DEF IInv, TypeOK, Started, Errors, Failed, Fields, Stopped, Killed
<1>2. QED
  BY <1>1, ConfigureKeeps, MainKeeps, StarterKeeps, ServiceKeeps, TunnelKeeps, StopServerKeeps,
    StopTunnelKeeps
  DEF Next, MainStep, StopStep, Rest

LEMMA DaemonHolds == Spec => []IInv
BY InitIInv, StepIInv, PTL DEF Spec

\* The daemon's variables hold values of their Go types: in particular neither
\* semaphore has a negative capacity, and errCh takes every error that is sent.
THEOREM TypeCorrect == Spec => []TypeOK
<1>1. IInv => TypeOK
  BY DEF IInv
<1>2. QED
  BY <1>1, DaemonHolds, PTL

\* Whatever number ZETPROXY_MAX_CONNS holds, the servers have the capacity it
\* names while that fits, the default, or its remainder.
THEOREM CapacityKept == Spec => []CapacitySound
<1>1. IInv => CapacitySound
  <2> SUFFICES ASSUME IInv, main \notin {"configuring", "killed", "panicked"}
               PROVE  /\ limit["tun"] = IF env.conns \in 1..(Wrap \div 2 - 1) THEN env.conns
                                        ELSE IF env.conns <= 0 THEN Default ELSE env.conns % Wrap
                      /\ limit["tun"] \div 2 = limit["socks"]
                      /\ limit["tun"] = 0 <=> (env.conns > 0 /\ env.conns % Wrap = 0)
                      /\ limit["socks"] = 0 <=> limit["tun"] \in {0, 1}
    BY DEF CapacitySound
  <2> DEFINE n == env.conns
             m == limit["tun"]
             r == n % Wrap
  <2>1. n \in Int /\ m = Int32(Parsed(n)) /\ m >= 0 /\ limit["socks"] = m \div 2
    BY EnvConns DEF IInv, Capacities, Max
  <2>2. /\ m \in Int /\ m < H
        /\ Parsed(n) \in 0..Max32 => m = Parsed(n)
        /\ m = Parsed(n) % Wrap
    BY <2>1, EnvConns, Converted DEF IInv
  <2>3. H \in Nat /\ Wrap = 2 * H /\ Wrap \in Nat /\ H > 2 /\ Default \in 2..Max32
    BY Half DEF Max32
  <2> HIDE DEF n, m
  <2>4. CASE n \in 1..Max32
    <3>1. n \in 0..Max32 /\ n > 0 /\ m = n
      BY <2>2, <2>3, <2>4 DEF Parsed, Max32
    <3>2. r = n
      BY <2>3, <3>1 DEF Max32
    <3>3. QED
      BY <2>1, <2>4, <3>1, <3>2 DEF n, m, H, Max32
  <2>5. CASE n <= 0
    <3>1. m = Default
      BY <2>1, <2>2, <2>3, <2>5 DEF Parsed, Max32
    <3>2. QED
      BY <2>1, <2>3, <2>5, <3>1 DEF n, m, H, Max32
  <2>6. CASE n > Max32
    <3>1. n > 0 /\ n \notin 1..Max32 /\ m = r
      BY <2>1, <2>2, <2>3, <2>6 DEF Parsed, Max32
    <3>2. QED
      BY <2>1, <2>2, <3>1 DEF n, m, H, Max32
  <2>7. QED
    BY <2>1, <2>3, <2>4, <2>5, <2>6 DEF Max32
<1>2. QED
  BY <1>1, DaemonHolds, PTL

\* After a graceful end only a server that Stop could not find, or an ssh that
\* was not yet taken for a tunnel, is left.
THEOREM GracefulEnd == Spec => []GracefulMeansClosed
<1>1. IInv => GracefulMeansClosed
  <2> SUFFICES ASSUME IInv, main = "graceful"
               PROVE  /\ \A s \in {"tcp", "udp", "socks"} : svc[s] = "open" => s \in missed
                      /\ ssh = "running" => "ssh" \in missed
    BY DEF GracefulMeansClosed
  <2>1. stop = "done"
    BY DEF IInv, Killed
  <2>2. \A s \in {"tcp", "udp", "socks"} : stop \in Passed[s]
    BY <2>1 DEF Passed
  <2>3. QED
    BY <2>1, <2>2 DEF IInv, Stopped, Killed
<1>2. QED
  BY <1>1, DaemonHolds, PTL

(***************************************************************************)
(* FailureCloses promises that in the end no server listens any more; that *)
(* it stays so is because nothing is left that could listen.               *)
(***************************************************************************)
ClosedForGood ==
  /\ ctx = "cancelled" /\ starter \notin {"none", "new"}
  /\ \A s \in Service : svc[s] \notin {"none", "new", "open"}

\* Once the context is cancelled and every server has failed or closed, none
\* opens again.
THEOREM StaysClosed == Spec => [][ClosedForGood => ClosedForGood' /\ NoneOpen']_vars
<1>1. ASSUME IInv, Next, ClosedForGood PROVE ClosedForGood' /\ NoneOpen'
  <2> SUFFICES ClosedForGood'
    BY DEF ClosedForGood, NoneOpen
  <2>1. main \notin {"configuring", "starting"}
    BY <1>1 DEF IInv, Started, ClosedForGood
  <2>2. ASSUME ctx' = "cancelled", starter' \in {starter, "failed", "done"}, svc' = svc
        PROVE  ClosedForGood'
    BY <1>1, <2>2 DEF ClosedForGood
  <2>3. CASE MainStep \/ Signal \/ StarterStep
    <3>1. ctx = "cancelled" /\ starter # "new"
      BY <1>1 DEF ClosedForGood
    <3>2. ctx' = "cancelled" /\ starter' \in {starter, "failed", "done"} /\ svc' = svc
      BY <2>1, <2>3, <3>1 DEF MainStep, Configure, Notify, Receive, Cancel, Exit, Signal,
        StarterStep, Start, ReturnError, CancelAll, svcVars
    <3>3. QED
      BY <2>2, <3>2
  <2>4. ASSUME NEW s \in Service, ServiceStep(s) PROVE ClosedForGood'
    <3>1. svc' = svc \/ svc[s] = "new" \/ svc[s] = "open"
      BY <2>4 DEF ServiceStep, Listen, Store, CloseOnDone
    <3>2. svc' = svc /\ UNCHANGED <<ctx, starter>>
      BY <1>1, <2>4, <3>1 DEF ServiceStep, Listen, Store, CloseOnDone, ClosedForGood
    <3>3. QED
      BY <1>1, <3>2 DEF ClosedForGood
  <2>5. CASE TunnelStep \/ ExitSSH \/ CloseTunnelStop \/ KillTunnel \/ Rest
    <3>1. UNCHANGED <<ctx, starter, svc>>
      BY <2>5 DEF TunnelStep, Wake, StartSSH, Watch, Keep, Announce, KillerStep, ExitSSH,
        CloseTunnelStop, KillTunnel, Rest, vars, svcVars
    <3>2. QED
      BY <1>1, <2>2, <3>1 DEF ClosedForGood
  <2>6. ASSUME NEW s \in {"tcp", "udp", "socks"}, StopServer(s) PROVE ClosedForGood'
    <3>1. (svc' = svc \/ svc' = [svc EXCEPT ![s] = "closed"]) /\ UNCHANGED <<ctx, starter>>
      BY <2>6 DEF StopServer
    <3>2. QED
      BY <1>1, <3>1 DEF ClosedForGood, IInv, TypeOK
  <2>7. QED
    BY <1>1, <2>3, <2>4, <2>5, <2>6 DEF Next, StopStep
<1>2. QED
  BY <1>1, DaemonHolds, PTL DEF Spec
============================================================================
