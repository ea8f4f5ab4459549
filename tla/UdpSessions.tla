---------------------------- MODULE UdpSessions ----------------------------
(***************************************************************************)
(* The UDP half of the tunnel server, internal/tunnel/tunnel.go: startUDP  *)
(* and handleUDPSession.  Three kinds of goroutine share the map sessions  *)
(* and the counter ConnsActive: the receive loop, the cleanup ticker, and  *)
(* one handler per session that reads the target's answers.                *)
(*                                                                         *)
(* Time passes in ticks (30 s or a minute).  A read deadline that          *)
(* has passed, or a goroutine that may run, is acted on within MaxLag      *)
(* ticks: MaxLag is how late the scheduler, or a suspended process, is.    *)
(***************************************************************************)
EXTENDS Integers, FiniteSets

CONSTANTS
  Addrs,        \* client addresses, the keys of the map
  Sessions,     \* udpSession objects, each used once
  ReadTimeout,  \* 2 minutes: the handler's read deadline
  IdleLimit,    \* 3 minutes: the cleanup's limit on lastActivity
  MaxLag,
  NoSess

ASSUME UdpAssumption ==
  /\ IsFiniteSet(Sessions) /\ IsFiniteSet(Addrs) /\ NoSess \notin Sessions
  /\ ReadTimeout \in Nat /\ IdleLimit \in Nat /\ MaxLag \in Nat

VARIABLES
  table,        \* sessions: address -> session, guarded by mu
  mpc, maddr, msess,  \* the receive loop: its point, the packet's address, its session
  hpc,          \* the handler of each session
  addr,         \* the key each session was made for
  open,         \* is the session's socket open
  idle,         \* ticks since lastActivity
  clock,        \* ticks since the handler became runnable or armed its deadline
  active,       \* stats.ConnsActive, the UDP share of it
  swept         \* history: the sessions the cleanup has ended

loop     == <<mpc, maddr, msess>>
sessVars == <<hpc, addr, open, idle, clock>>
vars     == <<table, loop, sessVars, active, swept>>

LoopState    == {"recv", "found", "missing", "dialled"}
HandlerState == {"none", "dialled", "arming", "reading", "failed", "unmapped", "done"}

\* Every variable holds a value of its Go type; an idle time is cut off just
\* above the limit it is compared with.
TypeOK ==
  /\ table \in [Addrs -> Sessions \cup {NoSess}]
  /\ mpc \in LoopState
  /\ maddr \in Addrs \/ mpc = "recv"
  /\ msess \in Sessions \cup {NoSess}
  /\ mpc \in {"found", "dialled"} => msess \in Sessions
  /\ hpc \in [Sessions -> HandlerState]
  /\ addr \in [Sessions -> Addrs \cup {NoSess}]
  /\ open \in [Sessions -> BOOLEAN]
  /\ idle \in [Sessions -> 0..IdleLimit + 1]
  /\ clock \in [Sessions -> 0..ReadTimeout + MaxLag]
  /\ active \in Int
  /\ swept \subseteq Sessions

Init ==
  /\ table = [a \in Addrs |-> NoSess]
  /\ mpc = "recv" /\ maddr = NoSess /\ msess = NoSess
  /\ hpc = [s \in Sessions |-> "none"] /\ addr = [s \in Sessions |-> NoSess]
  /\ open = [s \in Sessions |-> FALSE]
  /\ idle = [s \in Sessions |-> 0] /\ clock = [s \in Sessions |-> 0]
  /\ active = 0 /\ swept = {}

----------------------------------------------------------------------------
(* The receive loop *)

LookupSkipped(a) ==                     \* mutant: every packet gets a session
  /\ mpc = "recv"
  /\ maddr' = a /\ msess' = NoSess /\ mpc' = "missing"
  /\ UNCHANGED <<table, sessVars, active, swept>>

\* A packet from a; the map is read under mu and the lock given back.
Receive(a) ==
  /\ mpc = "recv"
  /\ maddr' = a /\ msess' = table[a]
  /\ mpc' = IF table[a] = NoSess THEN "missing" ELSE "found"
  /\ UNCHANGED <<table, sessVars, active, swept>>

\* The session found is used without the lock, whatever became of it.
Forward ==
  /\ mpc = "found"
  /\ idle' = [idle EXCEPT ![msess] = 0]
  /\ mpc' = "recv"
  /\ UNCHANGED <<table, maddr, msess, hpc, addr, open, clock, active, swept>>

DialFails ==
  /\ mpc = "missing" /\ mpc' = "recv"
  /\ UNCHANGED <<table, maddr, msess, sessVars, active, swept>>

\* A socket to the target, counted at once, not yet in the map.
Dial(s) ==
  /\ mpc = "missing" /\ hpc[s] = "none"
  /\ mpc' = "dialled" /\ msess' = s
  /\ hpc' = [hpc EXCEPT ![s] = "dialled"]
  /\ addr' = [addr EXCEPT ![s] = maddr]
  /\ open' = [open EXCEPT ![s] = TRUE]
  /\ active' = active + 1
  /\ UNCHANGED <<table, maddr, idle, clock, swept>>

\* The second critical section of mu, then go handleUDPSession.
Insert ==
  /\ mpc = "dialled"
  /\ table' = [table EXCEPT ![maddr] = msess]
  /\ hpc' = [hpc EXCEPT ![msess] = "arming"]
  /\ mpc' = "recv"
  /\ UNCHANGED <<maddr, msess, addr, open, idle, clock, active, swept>>

----------------------------------------------------------------------------
(* The handler of a session *)

Arm(s) ==                               \* SetReadDeadline
  /\ hpc[s] = "arming"
  /\ hpc' = [hpc EXCEPT ![s] = "reading"]
  /\ clock' = [clock EXCEPT ![s] = 0]
  /\ UNCHANGED <<table, loop, addr, open, idle, active, swept>>

\* The target answers: lastActivity moves too.  An answer that came just before
\* the deadline may be read a little after it.
Reply(s) ==
  /\ hpc[s] = "reading" /\ open[s]
  /\ hpc' = [hpc EXCEPT ![s] = "arming"]
  /\ idle' = [idle EXCEPT ![s] = 0] /\ clock' = [clock EXCEPT ![s] = 0]
  /\ UNCHANGED <<table, loop, addr, open, active, swept>>

Overdue(s) == IF clock[s] >= ReadTimeout THEN clock[s] - ReadTimeout ELSE 0

\* Read returns an error; the handler has been runnable since the deadline.
ReadEnds(s) ==
  /\ hpc[s] = "reading"
  /\ hpc' = [hpc EXCEPT ![s] = "failed"]
  /\ clock' = [clock EXCEPT ![s] = Overdue(s)]
  /\ UNCHANGED <<table, loop, addr, open, idle, active, swept>>

NoDeadline(s) ==                        \* mutant: the deadline is never set
  /\ clock[s] >= ReadTimeout /\ FALSE
  /\ ReadEnds(s)

ReadTimesOut(s) == clock[s] >= ReadTimeout /\ ReadEnds(s)
ReadClosed(s)   == ~open[s] /\ ReadEnds(s)          \* the cleanup closed the socket
ReadRefused(s)  == open[s] /\ ReadEnds(s)           \* e.g. the target's port is closed

DeleteKey(s) == table' = [table EXCEPT ![addr[s]] = NoSess]

\* Under mu, by key: whichever session is there by now.
Unmap(s) ==
  /\ hpc[s] = "failed"
  /\ DeleteKey(s)
  /\ hpc' = [hpc EXCEPT ![s] = "unmapped"]
  /\ UNCHANGED <<loop, addr, open, idle, clock, active, swept>>

KeepCount == UNCHANGED active           \* mutant: the error path does not count down
CountDown == active' = active - 1

\* Close, then the counter; nobody looks at both.
Finish(s) ==
  /\ hpc[s] = "unmapped"
  /\ open' = [open EXCEPT ![s] = FALSE]
  /\ CountDown
  /\ hpc' = [hpc EXCEPT ![s] = "done"]
  /\ UNCHANGED <<table, loop, addr, idle, clock, swept>>

----------------------------------------------------------------------------
(* The cleanup ticker and the passing of time *)

Expired == {a \in Addrs : table[a] # NoSess /\ idle[table[a]] > IdleLimit}

\* Close and count down each of them.
EndExpired ==
  LET ended == {table[a] : a \in Expired} IN
  /\ open' = [s \in Sessions |-> open[s] /\ s \notin ended]
  /\ swept' = swept \cup ended
  /\ active' = active - Cardinality(Expired)

SweepNoDelete ==                        \* mutant: the entry stays
  /\ Expired # {}
  /\ EndExpired
  /\ UNCHANGED <<table, loop, hpc, addr, idle, clock>>

\* The whole walk over the map is one critical section of mu.
Sweep ==
  /\ Expired # {}
  /\ EndExpired
  /\ table' = [a \in Addrs |-> IF a \in Expired THEN NoSess ELSE table[a]]
  /\ UNCHANGED <<loop, hpc, addr, idle, clock>>

Aging(s) == hpc[s] \in {"dialled", "arming", "reading", "failed"}

Punctual ==
  \A s \in Sessions :
    /\ hpc[s] \in {"dialled", "arming", "failed"} => clock[s] < MaxLag
    /\ hpc[s] = "reading" => clock[s] < ReadTimeout + MaxLag

Tick ==
  /\ Punctual
  /\ idle' = [s \in Sessions |-> IF Aging(s) /\ idle[s] <= IdleLimit THEN idle[s] + 1 ELSE idle[s]]
  /\ clock' = [s \in Sessions |-> IF Aging(s) THEN clock[s] + 1 ELSE clock[s]]
  /\ UNCHANGED <<table, loop, hpc, addr, open, active, swept>>

----------------------------------------------------------------------------
LoopStep == Forward \/ DialFails \/ (\E s \in Sessions : Dial(s)) \/ Insert
HandlerStep(s) == Arm(s) \/ ReadTimesOut(s) \/ ReadClosed(s) \/ Unmap(s) \/ Finish(s)

Next ==
  \/ \E a \in Addrs : Receive(a)
  \/ LoopStep
  \/ \E s \in Sessions : HandlerStep(s) \/ Reply(s) \/ ReadRefused(s)
  \/ Sweep
  \/ Tick

Spec == Init /\ [][Next]_vars

\* Time passes and a runnable goroutine runs; packets and answers need not come.
Fairness ==
  /\ WF_vars(Tick) /\ WF_vars(LoopStep)
  /\ \A s \in Sessions : WF_vars(HandlerStep(s))

FairSpec == Spec /\ Fairness

----------------------------------------------------------------------------
(* Properties *)

\* The map leads only to usable sessions: the entry of an address is a session
\* made for it, its socket open, its handler yet to delete the key.  Both ways
\* out of the map, the handler's and the cleanup's, delete before or while
\* they close.
MapEntryOpen ==
  \A a \in Addrs : table[a] # NoSess =>
    /\ addr[table[a]] = a /\ open[table[a]]
    /\ hpc[table[a]] \in {"arming", "reading", "failed"}

\* Looking up and inserting are two critical sections, yet no insertion
\* replaces an entry: only the receive loop inserts.
InsertNeverReplaces == mpc \in {"missing", "dialled"} => table[maddr] = NoSess

\* What ConnsActive says when goroutines may be late: the number of open
\* sockets, less one for every swept session whose handler has returned.
\* Cleanup and handler both count such a session down, and the counter never
\* recovers.
ActiveDrift ==
  active = Cardinality({s \in Sessions : open[s]})
             - Cardinality({s \in swept : hpc[s] = "done"})

Readers == {s \in Sessions : open[s] /\ hpc[s] \in {"arming", "reading"}}

\* A client has one socket at a time that reads answers for it, unless the
\* handler of a session that was swept has deleted its key since: the delete is
\* by key, and takes the entry of whichever session came after.
OneReaderUnlessSwept ==
  \A s, t \in Readers :
    addr[s] = addr[t] =>
      s = t \/ \E u \in swept : addr[u] = addr[s] /\ hpc[u] \in {"unmapped", "done"}

\* A session ends unless its target keeps answering; a session that was swept
\* ends as well.
SilentSessionsEnd ==
  \A s \in Sessions : []<>(hpc[s] \in {"none", "done"}) \/ []<><<Reply(s)>>_vars

\* "Automatic session expiry after 3min of inactivity": a session that runs
\* into its read deadline has seen no packet for IdleLimit.  The deadline is
\* shorter, and packets from the client do not extend it.
ExpiresOnlyWhenIdle ==
  [][\A s \in Sessions : hpc[s] = "reading" /\ ReadTimesOut(s) => idle[s] >= IdleLimit]_vars
============================================================================
