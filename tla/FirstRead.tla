----------------------------- MODULE FirstRead -----------------------------
(***************************************************************************)
(* How handleTCP of tunnel.go finds the protocol of TcpTunnel: it reads    *)
(* once into a buffer of the pool (internal/pool/pool.go), in which the    *)
(* bytes of an earlier connection may still be, and compares the front of  *)
(* the buffer with what requests begin with.  The handler works on the     *)
(* bytes that were read, in the same buffer, until it returns.             *)
(*                                                                         *)
(* A cell is two bytes: "PO", "ST" is POST, and a test for 4 bytes is one  *)
(* for 2 cells; CONNECT is cut to 3 cells.  POST stands for PUT and HEAD   *)
(* as well, and the cell "host" for a host that can be dialled.            *)
(***************************************************************************)
EXTENDS TcpTunnel, Sequences

CONSTANTS
  Buffers,  \* buffers of 4 KB, as many as are ever in use at once
  NoBuffer,
  Texts     \* what a first read returns, sequences of cells

BufLen == 4
Cell == {"5n", "00", "CO", "NN", "EC", "GE", "T ", "PO", "ST", "host", "--"}

ASSUME FirstReadAssumption ==
  /\ NoBuffer \notin Buffers
  /\ \A t \in Texts : Len(t) \in 1..BufLen /\ \A i \in 1..Len(t) : t[i] \in Cell

VARIABLES
  content,  \* of a buffer
  out,      \* buffers that were taken from the pool
  buf,      \* buf of a handler
  first     \* what it has read, peek

readVars == <<content, out, buf, first>>
allVars  == <<vars, readVars>>

\* The bytes of make.
Fresh == [i \in 1..BufLen |-> "--"]

\* TcpTunnel is type correct; a buffer has its length.
ReadTypeOK ==
  /\ TypeOK
  /\ content \in [Buffers -> {q \in Seq(Cell) : Len(q) = BufLen}]
  /\ out \subseteq Buffers /\ buf \in [Conns -> Buffers \cup {NoBuffer}]
  /\ first \in [Conns -> Texts \cup {<<>>}]

ReadInit ==
  /\ Init
  /\ content = [b \in Buffers |-> Fresh] /\ out = {}
  /\ buf = [c \in Conns |-> NoBuffer] /\ first = [c \in Conns |-> <<>>]

----------------------------------------------------------------------------
(* The protocol *)

StartsWith(q, w) == Len(q) >= Len(w) /\ \A i \in 1..Len(w) : q[i] = w[i]

Connect(q, n) == StartsWith(q, <<"CO", "NN", "EC">>)            \* mutant: no length test
IsConnect(q, n) == n >= 3 /\ StartsWith(q, <<"CO", "NN", "EC">>)

\* && binds closer than ||: the length is tested for GET only.
IsHTTP(q, n) ==
  \/ n >= 2 /\ StartsWith(q, <<"GE", "T ">>)
  \/ StartsWith(q, <<"PO", "ST">>)

\* The switch, on a buffer into which n cells were read.
Classify(q, n) ==
  IF q[1] = "5n" THEN "socks"
  ELSE IF IsConnect(q, n) THEN "connect"
  ELSE IF IsHTTP(q, n) THEN "http"
  ELSE IF q[1] = "00" THEN "raw" ELSE "unknown"

\* What the client said, by its own bytes.
Kind(t) == Classify(t, Len(t))

HasHost(q) == \E i \in 2..Len(q) : q[i] = "host"
HostInBuffer(c) == HasHost(content[buf[c]])             \* mutant: the handler gets buf
HostFound(c) == HasHost(first[c])

----------------------------------------------------------------------------
(* handleTCP *)

\* GetSmall: a buffer that was put back, as it was left, or a new one.
GetSmall(c) ==
  /\ stage[c] = "reading" /\ buf[c] = NoBuffer
  /\ \E b \in Buffers \ out :
       /\ buf' = [buf EXCEPT ![c] = b] /\ out' = out \cup {b}
       /\ content' \in {content, [content EXCEPT ![b] = Fresh]}
  /\ UNCHANGED <<vars, first>>

\* The read overwrites the front.
ReadFirst(c, t) ==
  /\ stage[c] = "reading" /\ buf[c] # NoBuffer /\ first[c] = <<>>
  /\ first' = [first EXCEPT ![c] = t]
  /\ content' = [content EXCEPT ![buf[c]] = [i \in 1..BufLen |-> IF i <= Len(t) THEN t[i] ELSE @[i]]]
  /\ UNCHANGED <<vars, out, buf>>

FirstReadFails(c) ==
  /\ stage[c] = "reading" => buf[c] # NoBuffer /\ first[c] = <<>>
  /\ ReadFails(c)
  /\ UNCHANGED readVars

PutAtOnce(c) ==                         \* mutant: the buffer goes back after the switch
  out' = out \ {buf[c]} /\ UNCHANGED <<content, buf, first>>
Keep(c) == UNCHANGED readVars

\* The switch and the first test of the handler: a greeting has 3 bytes, an
\* HTTP request a host.
DetectFirst(c) ==
  LET p == Classify(content[buf[c]], Len(first[c])) IN
  /\ first[c] # <<>>
  /\ Detect(c, p)
  /\ p \in {"connect", "http"} => (stage'[c] = "dialing" <=> HostFound(c))
  /\ p = "socks" /\ Len(first[c]) < 2 => stage'[c] = "release"
  /\ Keep(c)

\* PutSmall, deferred after the calls that free the slot, so that it runs before them.
PutSmall(c) ==
  /\ stage[c] = "release" /\ buf[c] # NoBuffer
  /\ buf' = [buf EXCEPT ![c] = NoBuffer] /\ first' = [first EXCEPT ![c] = <<>>]
  /\ out' = out \ {buf[c]}
  /\ UNCHANGED <<vars, content>>

LeaveWithBuffer(c) ==                   \* mutant: no defer, a return without PutSmall
  Leave(c) /\ UNCHANGED readVars
LeaveAfterPut(c) == (stage[c] = "release" => buf[c] = NoBuffer) /\ Leave(c) /\ UNCHANGED readVars

Service(c) == (Accept(c) \/ LoopStep(c) \/ RelayReturns(c)) /\ UNCHANGED <<proto, readVars>>
Handle(c) == (Negotiated(c) \/ DialStep(c)) /\ UNCHANGED readVars

ReadNext ==
  \/ \E c \in Conns :
       \/ Service(c) \/ Handle(c) \/ LeaveAfterPut(c)
       \/ GetSmall(c) \/ FirstReadFails(c) \/ DetectFirst(c) \/ PutSmall(c)
       \/ \E t \in Texts : ReadFirst(c, t)
  \/ AllOver /\ UNCHANGED allVars

ReadSpec == ReadInit /\ [][ReadNext]_allVars

\* The loop and the handlers run, and the pool never waits; a read or a reply
\* ends by the deadline of 120 s, a dial by its own of 10 s.  The http handler's
\* one write to the target has no deadline, but fits a fresh socket's buffer.  No
\* relay need ever end.
ReadFairness == \A c \in Conns :
  /\ WF_allVars(LoopStep(c) /\ UNCHANGED <<proto, readVars>>)
  /\ WF_allVars(LeaveAfterPut(c) \/ PutSmall(c))
  /\ WF_allVars(GetSmall(c)) /\ WF_allVars(FirstReadFails(c) \/ DetectFirst(c))
  /\ WF_allVars(DialStep(c) /\ UNCHANGED readVars)

FairReadSpec == ReadSpec /\ ReadFairness
----------------------------------------------------------------------------
(* Properties *)

\* From 4 bytes on the protocol is that of the client's own bytes, whatever is
\* behind them in the buffer.
DetectionRight ==
  \A c \in Conns : proto[c] # "none" /\ Len(first[c]) >= 2 => proto[c] = Kind(first[c])

\* With less than 4 bytes a client may be taken for an HTTP client, by the bytes
\* of an earlier one.  Nothing is ever dialled for it.
StaleNeverDials ==
  \A c \in Conns : stage[c] = "dialing" \/ target[c] => proto[c] = Kind(first[c]) /\ Len(first[c]) >= 1

\* What the http handler sends on to the target, after a dial of up to 10 s, is
\* what its own client has sent.
ForwardsOwnBytes ==
  \A c \in Conns : stage[c] = "replying" /\ proto[c] = "http" =>
    StartsWith(content[buf[c]], first[c])

\* A buffer is in the hands of one handler at most, and no way out of handleTCP
\* keeps one or puts one back twice: a handler has its buffer from the switch to
\* its return, and never without the slot of its connection, so that MaxConns
\* buffers are enough.
BuffersOwned ==
  /\ out = {buf[c] : c \in Conns} \ {NoBuffer}
  /\ \A c, d \in Conns : buf[c] = buf[d] /\ buf[c] # NoBuffer => c = d
  /\ \A c \in Conns :
       /\ stage[c] \in {"negotiating", "dialing", "replying", "relaying"} => buf[c] # NoBuffer
       /\ buf[c] # NoBuffer => c \in Holding
============================================================================
