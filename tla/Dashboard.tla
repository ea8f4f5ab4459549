------------------------------ MODULE Dashboard ------------------------------
(***************************************************************************)
(* The statistics of the two servers and the dashboard that samples them.  *)
(* GetStats of tunnel.go and of socks5.go compute a throughput from the    *)
(* bytes since the last call, and remember the count and the time of this  *)
(* one.  They do so under a READ lock: the collector, once a second, and   *)
(* any number of /api/stats requests may be inside together.  A step is    *)
(* one access to a shared field, as racing goroutines may order them.      *)
(*                                                                         *)
(* Time is in ticks of half a second, the least interval GetStats will     *)
(* compute a rate over.  The fields for the other direction are updated in *)
(* the same way beside these; one direction is modelled.                   *)
(***************************************************************************)
EXTENDS Integers, Sequences

CONSTANTS
  Requests,    \* goroutines of /api/stats, each used again and again
  Collector,   \* the goroutine of collectMetrics
  MaxMetrics,  \* points the ring keeps
  MaxClock,    \* bound on the clock
  MaxBytes     \* bound on the bytes of both servers

ASSUME DashboardAssumption ==
  /\ Collector \notin Requests
  /\ MaxMetrics \in Nat \ {0} /\ MaxClock \in Nat /\ MaxBytes \in Nat

Callers == Requests \cup {Collector}
Server  == {"tun", "socks"}             \* in the order they are asked

VARIABLES
  clock, ticks,                    \* the time; ticks in the channel of the collector's ticker
  bytes,                           \* stats.BytesIn, atomic
  lastIn, lastTime, rate,          \* lastIn, lastTime, stats.ThroughputIn of a server
  pc, srv, now, elapsed, in, sum,  \* locals of a caller
  metrics,                         \* the ring, guarded by metricsMu
  met, raced, reported, low        \* history, see below

counters == <<lastIn, lastTime, rate>>
locals   == <<pc, srv, now, elapsed, in, sum>>
(* History: met, the callers whose update overlaps another of the same      *)
(* server; raced, the servers to which this has happened; reported[s], the  *)
(* sum of all published intervals and their bytes, kept until then; low[c], *)
(* the true total when c began.                                             *)
history  == <<met, raced, reported, low>>
vars     == <<clock, ticks, bytes, counters, locals, metrics, history>>

Step     == {"idle", "last", "load", "publish", "setIn", "setTime", "read",
             "append", "done"}
Update   == {"load", "publish", "setIn", "setTime"}
Point    == [t : Nat, bytes : Nat]
Interval == [bytes : Int, ticks : Int]
Nothing  == [bytes |-> 0, ticks |-> 0]

\* Every field and local has its Go type.
TypeOK ==
  /\ clock \in 0..MaxClock /\ ticks \in 0..1
  /\ bytes \in [Server -> 0..MaxBytes] /\ lastIn \in [Server -> 0..MaxBytes]
  /\ lastTime \in [Server -> 0..MaxClock] /\ rate \in [Server -> Int]
  /\ pc \in [Callers -> Step] /\ srv \in [Callers -> Server]
  /\ now \in [Callers -> 0..MaxClock] /\ elapsed \in [Callers -> Int]
  /\ in \in [Callers -> 0..MaxBytes] /\ sum \in [Callers -> Nat]
  /\ metrics \in Seq(Point)
  /\ met \subseteq Callers /\ raced \subseteq Server
  /\ reported \in [Server -> Interval] /\ low \in [Callers -> Nat]

Init ==
  /\ clock = 0 /\ ticks = 0
  /\ bytes = [s \in Server |-> 0] /\ lastIn = [s \in Server |-> 0]
  /\ lastTime = [s \in Server |-> 0]
  /\ rate = [s \in Server |-> 0]
  /\ pc = [c \in Callers |-> "idle"] /\ srv = [c \in Callers |-> "tun"]
  /\ now = [c \in Callers |-> 0] /\ elapsed = [c \in Callers |-> 0]
  /\ in = [c \in Callers |-> 0] /\ sum = [c \in Callers |-> 0]
  /\ metrics = <<>>
  /\ met = {} /\ raced = {}
  /\ reported = [s \in Server |-> Nothing]
  /\ low = [c \in Callers |-> 0]

Total == bytes["tun"] + bytes["socks"]
Goto(c, step) == pc' = [pc EXCEPT ![c] = step]

----------------------------------------------------------------------------
(* The environment *)

\* The ticker sends once a second and drops a tick nobody has taken.
Tick ==
  /\ clock < MaxClock
  /\ clock' = clock + 1
  /\ ticks' = IF clock' % 2 = 0 THEN 1 ELSE ticks
  /\ UNCHANGED <<bytes, counters, locals, metrics, history>>

\* A relay that has ended adds all its bytes at once, a UDP packet its own.
AddBytes(s) ==
  /\ \E n \in 1..(MaxBytes - Total) : bytes' = [bytes EXCEPT ![s] = @ + n]
  /\ UNCHANGED <<clock, ticks, counters, locals, metrics, history>>

----------------------------------------------------------------------------
(* GetStats, called for "tun" and then for "socks" *)

\* A request arrives, or the collector takes a tick.
Begin(c) ==
  /\ pc[c] \in {"idle", "done"}
  /\ IF c = Collector THEN ticks = 1 /\ ticks' = 0 ELSE UNCHANGED ticks
  /\ srv' = [srv EXCEPT ![c] = "tun"]
  /\ sum' = [sum EXCEPT ![c] = 0]
  /\ low' = [low EXCEPT ![c] = Total]
  /\ Goto(c, "last")
  /\ UNCHANGED <<clock, bytes, counters, now, elapsed, in, metrics, met, raced, reported>>

Updating(c, s) == srv[c] = s /\ pc[c] \in Update
Others(c) == {e \in Callers \ {c} : Updating(e, srv[c])}

\* The race, if any, is recorded for both sides.
NoteOverlap(c) ==
  IF Others(c) = {}
  THEN UNCHANGED <<met, raced, reported>>
  ELSE /\ met' = met \cup Others(c) \cup {c}
       /\ raced' = raced \cup {srv[c]}
       /\ reported' = [reported EXCEPT ![srv[c]] = Nothing]

\* A rate is computed over half a second or more.  The clock and lastTime are
\* read in one step: what could come between makes the time only shorter.
ReadLast(c) ==
  /\ pc[c] = "last"
  /\ now' = [now EXCEPT ![c] = clock]
  /\ elapsed' = [elapsed EXCEPT ![c] = clock - lastTime[srv[c]]]
  /\ IF elapsed'[c] >= 1 THEN Goto(c, "load") /\ NoteOverlap(c)
                         ELSE Goto(c, "read") /\ UNCHANGED <<met, raced, reported>>
  /\ UNCHANGED <<clock, ticks, bytes, counters, srv, in, sum, metrics, low>>

LoadAndReset(c) ==                      \* mutant: SwapInt64 with zero
  /\ pc[c] = "load"
  /\ in' = [in EXCEPT ![c] = bytes[srv[c]]]
  /\ bytes' = [bytes EXCEPT ![srv[c]] = 0]
  /\ Goto(c, "publish")
  /\ UNCHANGED <<clock, ticks, counters, srv, now, elapsed, sum, metrics, history>>

LoadBytes(c) ==
  /\ pc[c] = "load"
  /\ in' = [in EXCEPT ![c] = bytes[srv[c]]]
  /\ Goto(c, "publish")
  /\ UNCHANGED <<clock, ticks, bytes, counters, srv, now, elapsed, sum, metrics, history>>

\* ThroughputIn, by the bytes it is computed from; the time, elapsed[c], is
\* at least a tick.
Publish(c) ==
  /\ pc[c] = "publish"
  /\ LET s == srv[c]
         diff == in[c] - lastIn[s]
     IN  /\ rate' = [rate EXCEPT ![s] = diff]
         /\ reported' = IF s \in raced THEN reported
              ELSE [reported EXCEPT ![s] = [bytes |-> @.bytes + diff, ticks |-> @.ticks + elapsed[c]]]
  /\ Goto(c, "setIn")
  /\ UNCHANGED <<clock, ticks, bytes, lastIn, lastTime, srv, now, elapsed, in, sum, metrics,
                 met, raced, low>>

LoadAgain(c) == bytes[srv[c]]           \* mutant: lastIn from a second load
Loaded(c) == in[c]

SetLastIn(c) ==
  /\ pc[c] = "setIn"
  /\ lastIn' = [lastIn EXCEPT ![srv[c]] = Loaded(c)]
  /\ Goto(c, "setTime")
  /\ UNCHANGED <<clock, ticks, bytes, lastTime, rate, srv, now, elapsed, in, sum, metrics, history>>

SetLastTime(c) ==
  /\ pc[c] = "setTime"
  /\ lastTime' = [lastTime EXCEPT ![srv[c]] = now[c]]
  /\ Goto(c, "read")
  /\ UNCHANGED <<clock, ticks, bytes, lastIn, rate, srv, now, elapsed, in, sum, metrics, history>>

LastRead(c) == lastIn[srv[c]]           \* mutant: the remembered count is returned
BytesRead(c) == bytes[srv[c]]

\* The Stats that are returned: the counter as it is now.  The locals of this
\* call of GetStats are gone.
ReadTotals(c) ==
  /\ pc[c] = "read"
  /\ sum' = [sum EXCEPT ![c] = @ + BytesRead(c)]
  /\ srv' = [srv EXCEPT ![c] = "socks"]
  /\ now' = [now EXCEPT ![c] = 0] /\ elapsed' = [elapsed EXCEPT ![c] = 0]
  /\ in' = [in EXCEPT ![c] = 0] /\ met' = met \ {c}
  /\ Goto(c, IF srv[c] = "tun" THEN "last" ELSE IF c = Collector THEN "append" ELSE "done")
  /\ UNCHANGED <<clock, ticks, bytes, counters, metrics, raced, reported, low>>

----------------------------------------------------------------------------
(* collectMetrics *)

KeepAll(q) == q                         \* mutant: the ring is not cut
CutFront(q) ==
  IF Len(q) > MaxMetrics THEN SubSeq(q, Len(q) - MaxMetrics + 1, Len(q)) ELSE q

\* metricsMu: append and cut; handleMetrics copies under the same lock.
AppendPoint ==
  /\ pc[Collector] = "append"
  /\ metrics' = CutFront(Append(metrics, [t |-> clock \div 2, bytes |-> sum[Collector]]))
  /\ Goto(Collector, "idle")
  /\ UNCHANGED <<clock, ticks, bytes, counters, srv, now, elapsed, in, sum, history>>

CallerStep(c) ==
  \/ Begin(c) \/ ReadLast(c) \/ LoadBytes(c) \/ Publish(c) \/ SetLastIn(c)
  \/ SetLastTime(c) \/ ReadTotals(c)

Next ==
  \/ Tick
  \/ \E s \in Server : AddBytes(s)
  \/ \E c \in Callers : CallerStep(c)
  \/ AppendPoint

Spec == Init /\ [][Next]_vars
----------------------------------------------------------------------------
(* Properties *)

\* A throughput below zero can be shown, and only by a call whose update
\* overlapped another of the same server: once nobody overlaps, the next
\* rate has its sign right again, whatever the race left in lastIn.
NegativeOnlyByOverlap ==
  [][\A s \in Server : rate'[s] < 0 /\ rate'[s] # rate[s] =>
       \E c \in Callers : srv[c] = s /\ pc[c] = "publish" /\ c \in met]_vars

\* While no two updates of a server have overlapped, the published intervals
\* partition its time and its bytes: each byte is reported in one rate and
\* none twice, however the calls of collector and requests are spread.
ExactUnlessRaced ==
  \A s \in Server : s \notin raced /\ (\A c \in Callers : ~Updating(c, s)) =>
    reported[s] = [bytes |-> lastIn[s], ticks |-> lastTime[s]]

\* The total that is shown lies between the true total at the start of its
\* call and the one at the end, although the two servers are read one after the
\* other, with the updates of others between.  It need not have been true at any
\* time: a relay counted between the two reads makes it one of neither moment.
\* But of two calls that do not overlap the later one shows no less.
TotalsBracketed ==
  \A c \in Callers : pc[c] \in {"append", "done"} => low[c] <= sum[c] /\ sum[c] <= Total

\* The ring is bounded, and a point never goes before the one that was added
\* last: neither time nor bytes go back, although the rates of the same
\* samples may be wrong.
MetricsOrdered ==
  [][metrics' # metrics =>
       LET new == metrics'[Len(metrics')]
       IN  /\ Len(metrics') <= MaxMetrics
           /\ metrics # <<>> => LET old == metrics[Len(metrics)]
                                IN  old.t <= new.t /\ old.bytes <= new.bytes]_vars
============================================================================
