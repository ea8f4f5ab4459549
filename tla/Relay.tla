------------------------------- MODULE Relay -------------------------------
(***************************************************************************)
(* BufferPool.Relay in internal/pool/pool.go: two goroutines copy between  *)
(* two connections, one for each direction, and each closes the writing    *)
(* half of its destination when its source has ended.  The callers add the *)
(* byte counts to Stats when Relay has returned (relayWithStats).          *)
(*                                                                         *)
(* The connections are the sides "a" and "b".  Chunk n is the n-th piece   *)
(* of data that its side sends; Window is the room for data a side has not *)
(* read yet, in its own and the kernel's buffers.                          *)
(***************************************************************************)
EXTENDS Integers, Sequences

CONSTANTS
  MaxChunks,  \* bound on what a side sends
  Window

ASSUME RelayAssumption == MaxChunks \in Nat /\ Window \in Nat \ {0}

Side == {"a", "b"}
Other(x) == IF x = "a" THEN "b" ELSE "a"

VARIABLES
  sent, end,          \* what each side has sent, and how it has ended its stream
  inbox, got,         \* chunks on their way to each side, chunks it has read
  fin,                \* the relay has closed its writing half to this side
  pc, next, moved,    \* the goroutine that reads from a side: read and written so far
  returned, bytes     \* Relay has returned; Stats.BytesIn and BytesOut

peers  == <<sent, end, got>>
copies == <<pc, next, moved>>
vars   == <<peers, inbox, fin, copies, returned, bytes>>

Ended(x) == end[x] # "open"
Room(y)  == end[y] = "reset" \/ Len(inbox[y]) < Window

\* Every variable holds a value of its Go type; unread data fits the window.
TypeOK ==
  /\ sent \in [Side -> 0..MaxChunks] /\ end \in [Side -> {"open", "eof", "reset"}]
  /\ inbox \in [Side -> Seq(1..MaxChunks)] /\ got \in [Side -> Seq(1..MaxChunks)]
  /\ \A y \in Side : Len(inbox[y]) <= Window
  /\ fin \in [Side -> BOOLEAN]
  /\ pc \in [Side -> {"read", "write", "closing", "done"}]
  /\ next \in [Side -> 0..MaxChunks] /\ moved \in [Side -> 0..MaxChunks]
  /\ returned \in BOOLEAN /\ bytes \in [Side -> 0..MaxChunks]

Init ==
  /\ sent = [x \in Side |-> 0] /\ end = [x \in Side |-> "open"]
  /\ inbox = [x \in Side |-> <<>>] /\ got = [x \in Side |-> <<>>]
  /\ fin = [x \in Side |-> FALSE]
  /\ pc = [x \in Side |-> "read"] /\ next = [x \in Side |-> 0] /\ moved = [x \in Side |-> 0]
  /\ returned = FALSE /\ bytes = [x \in Side |-> 0]

----------------------------------------------------------------------------
(* The peers *)

Send(x) ==
  /\ ~Ended(x) /\ sent[x] < MaxChunks
  /\ sent' = [sent EXCEPT ![x] = @ + 1]
  /\ UNCHANGED <<end, got, inbox, fin, copies, returned, bytes>>

\* A side ends its stream and may go on reading, or breaks the connection.
End(x, how) ==
  /\ end[x] # "reset" /\ end[x] # how
  /\ end' = [end EXCEPT ![x] = how]
  /\ UNCHANGED <<sent, got, inbox, fin, copies, returned, bytes>>

Take(y) ==
  /\ inbox[y] # <<>> /\ end[y] # "reset"
  /\ got' = [got EXCEPT ![y] = Append(@, Head(inbox[y]))]
  /\ inbox' = [inbox EXCEPT ![y] = Tail(@)]
  /\ UNCHANGED <<sent, end, fin, copies, returned, bytes>>

----------------------------------------------------------------------------
(* The goroutine that copies from x to the other side: io.CopyBuffer *)

Goto(x, s) == pc' = [pc EXCEPT ![x] = s]

\* Data that came before a reset may be read or be lost.
Read(x) ==
  /\ pc[x] = "read" /\ next[x] < sent[x]
  /\ next' = [next EXCEPT ![x] = @ + 1]
  /\ Goto(x, "write")
  /\ UNCHANGED <<peers, inbox, fin, moved, returned, bytes>>

ReadEndsEither(x) ==                    \* mutant: the end of one side ends both directions
  /\ pc[x] = "read" /\ (Ended(x) \/ Ended(Other(x)))
  /\ Goto(x, "closing")
  /\ UNCHANGED <<peers, inbox, fin, next, moved, returned, bytes>>

ReadEndsEarly(x) ==                     \* mutant: EOF is noticed before the last data
  /\ pc[x] = "read" /\ Ended(x)
  /\ Goto(x, "closing")
  /\ UNCHANGED <<peers, inbox, fin, next, moved, returned, bytes>>

ReadEnds(x) ==
  /\ pc[x] = "read"
  /\ end[x] = "reset" \/ (end[x] = "eof" /\ next[x] = sent[x])
  /\ Goto(x, "closing")
  /\ UNCHANGED <<peers, inbox, fin, next, moved, returned, bytes>>

\* The write blocks while the destination has no room, whatever the other
\* direction does.
Write(x) ==
  /\ pc[x] = "write" /\ end[Other(x)] # "reset" /\ Room(Other(x))
  /\ inbox' = [inbox EXCEPT ![Other(x)] = Append(@, next[x])]
  /\ moved' = [moved EXCEPT ![x] = @ + 1]
  /\ Goto(x, "read")
  /\ UNCHANGED <<peers, fin, next, returned, bytes>>

WriteFails(x) ==
  /\ pc[x] = "write" /\ end[Other(x)] = "reset"
  /\ Goto(x, "closing")
  /\ UNCHANGED <<peers, inbox, fin, next, moved, returned, bytes>>

KeepOpen(x) ==                          \* mutant: no half-close
  /\ pc[x] = "closing"
  /\ Goto(x, "done")
  /\ UNCHANGED <<peers, inbox, fin, next, moved, returned, bytes>>

\* closeWrite, PutLarge and wg.Done.
CloseWrite(x) ==
  /\ pc[x] = "closing"
  /\ fin' = [fin EXCEPT ![Other(x)] = TRUE]
  /\ Goto(x, "done")
  /\ UNCHANGED <<peers, inbox, next, moved, returned, bytes>>

ReturnFirst ==                          \* mutant: wg.Add(1)
  /\ ~returned /\ \E x \in Side : pc[x] = "done"
  /\ returned' = TRUE /\ bytes' = moved
  /\ UNCHANGED <<peers, inbox, fin, copies>>

\* wg.Wait, then relayWithStats.
Return ==
  /\ ~returned /\ \A x \in Side : pc[x] = "done"
  /\ returned' = TRUE /\ bytes' = moved
  /\ UNCHANGED <<peers, inbox, fin, copies>>

----------------------------------------------------------------------------
CopyStep(x) == Read(x) \/ ReadEnds(x) \/ Write(x) \/ WriteFails(x) \/ CloseWrite(x)

AllOver == returned /\ (\A x \in Side : end[x] = "reset") /\ UNCHANGED vars

Next ==
  \/ \E x \in Side : Send(x) \/ End(x, "eof") \/ End(x, "reset") \/ Take(x) \/ CopyStep(x)
  \/ Return
  \/ AllOver

Spec == Init /\ [][Next]_vars

\* A goroutine that is not blocked runs; nothing is assumed of the peers.
Fairness == (\A x \in Side : WF_vars(CopyStep(x))) /\ WF_vars(Return)

FairSpec == Spec /\ Fairness

----------------------------------------------------------------------------
(* Properties *)

\* What a side has been given is what the other sent, in order, each chunk
\* once; and the count that goes to Stats is exactly that.
InOrder ==
  \A x \in Side :
    LET given == got[Other(x)] \o inbox[Other(x)]
    IN /\ given = [n \in 1..moved[x] |-> n] /\ moved[x] <= sent[x]
       /\ returned => bytes[x] = moved[x]

\* A side is told that the stream has ended only after all of it, unless one
\* of the connections has broken.
EndAfterAll ==
  \A x \in Side :
    fin[Other(x)] /\ end[x] # "reset" /\ end[Other(x)] # "reset"
      => end[x] = "eof" /\ moved[x] = sent[x]

\* Half-close: a direction ends only by its own source, or because its
\* destination is gone, never because the other direction has ended.
DirectionsIndependent ==
  \A x \in Side : pc[x] \in {"closing", "done"} => Ended(x) \/ end[Other(x)] = "reset"

\* Ends cross: while both sides have room for data again and again, the end of
\* one reaches the other, and when both have ended, Relay returns, even if one
\* of them has data on its way that nobody takes after a reset.
EndsCross ==
  (\A x \in Side : []<>Room(x)) =>
    /\ \A x \in Side : Ended(x) ~> fin[Other(x)]
    /\ (\A x \in Side : Ended(x)) ~> returned
============================================================================
