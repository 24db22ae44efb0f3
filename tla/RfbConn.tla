------------------------------ MODULE RfbConn -------------------------------
(***************************************************************************)
(* One VNC connection of the console pane (vnc.go, rfbConn): input is      *)
(* queued by whoever has some (the window, a paste, the read loop asking   *)
(* for the next frame), one writer drains the queue into the socket, one   *)
(* reader takes frames out of it, and Close may come at any moment.        *)
(*                                                                         *)
(* The guest may stop reading for as long as it likes; the socket buffer   *)
(* between it and the writer is bounded.  Input carries a number so that   *)
(* the model can tell what the guest missed; a message carries no more.    *)
(***************************************************************************)
EXTENDS Integers, Sequences, FiniteSets

CONSTANTS
  Cap,       \* the capacity of the channel out (256 in the code)
  Buffer,    \* what the socket holds before a write blocks
  MaxInput,  \* bound: presses, releases and keys
  MaxMotion, \* bound: pointer moves
  MaxStall   \* bound: how often the guest stops reading

RfbAssumption ==
  /\ Cap \in Nat \ {0} /\ Buffer \in Nat \ {0}
  /\ MaxInput \in Nat /\ MaxMotion \in Nat /\ MaxStall \in Nat

VARIABLES
  out,      \* the channel out
  wait,     \* wait[s]: the message goroutine s is in send() with
  writer,   \* writeLoop: "select", "write" or "gone"
  inHand,   \* the message it writes
  wire,     \* the client's bytes in the socket
  reader,   \* readLoop: "read", "frame" or "gone"; done is closed then
  frames,   \* frames of the server in the socket
  asked,    \* update requests the server has not answered
  guest,    \* "reads", "stalled" or "gone"
  stalls,
  mask,     \* the viewer's button mask
  lastMask, \* pointer(): the mask of the last pointer message, -1 before it
  moves,
  sent,     \* sent[s]: the inputs s has had so far
  got,      \* got[s]: those of them that reached the guest, in order
  closer,   \* Close: "no", "flag", "stop", "closed"
  err       \* Err()

vars == <<out, wait, writer, inHand, wire, reader, frames, asked, guest, stalls,
          mask, lastMask, moves, sent, got, closer, err>>

Hand   == {"ui", "paste"}            \* goroutines with input to send
Sender == Hand \cup {"dial", "read"} \* dialRFB sends the first update request

None      == [from |-> "none", n |-> 0]
Request   == [from |-> "read", n |-> 0]
Motion    == [from |-> "ui", n |-> 0]
Input(s, n) == [from |-> s, n |-> n]

Done    == reader = "gone"
Closing == closer # "no"
Stopped == closer \in {"stop", "closed"}

Init ==
  /\ out = <<>> /\ wire = <<>> /\ frames = 0 /\ asked = 0
  /\ wait = [s \in Sender |-> IF s = "dial" THEN Request ELSE None]
  /\ writer = "select" /\ inHand = None /\ reader = "read"
  /\ guest = "reads" /\ stalls = 0
  /\ mask = 0 /\ lastMask = -1 /\ moves = 0
  /\ sent = [s \in Hand |-> 0] /\ got = [s \in Hand |-> <<>>]
  /\ closer = "no" /\ err = "none"

\* Mutant: recorded even while a Close is under way.
SetErrAlways(e) == err' = IF err = "none" THEN e ELSE err

\* The first error, and none once Close was called.
SetErr(e) == err' = IF err = "none" /\ ~Closing THEN e ELSE err

MayInput == sent["ui"] + sent["paste"] < MaxInput

inputVars  == <<mask, lastMask, moves, sent>>
serverVars == <<wire, frames, asked, guest, stalls, got>>

-----------------------------------------------------------------------------
(* Senders.                                                                *)

\* A key, from the window or from the goroutine that pastes.
Key(s) ==
  /\ s = "ui" => closer = "no"    \* detachVNC runs on the window's goroutine
  /\ wait[s] = None
  /\ MayInput
  /\ sent' = [sent EXCEPT ![s] = @ + 1]
  /\ wait' = [wait EXCEPT ![s] = Input(s, sent[s] + 1)]
  /\ UNCHANGED <<out, writer, inHand, reader, mask, lastMask, moves, serverVars, closer, err>>

\* pointer(): pure motion has the same buttons as the message before it.
IsMotion(m) == m = lastMask

\* A pointer event: motion goes in the queue or is dropped; a press or a
\* release waits like a key does.
Pointer(m) ==
  /\ closer = "no"
  /\ wait["ui"] = None
  /\ IF m = mask THEN moves < MaxMotion /\ moves' = moves + 1 /\ UNCHANGED sent
                 ELSE MayInput /\ sent' = [sent EXCEPT !["ui"] = @ + 1] /\ UNCHANGED moves
  /\ mask' = m
  /\ lastMask' = m
  /\ LET b == IF m = mask THEN Motion ELSE Input("ui", sent'["ui"])
     IN IF IsMotion(m)
        THEN /\ out' = IF Len(out) < Cap THEN Append(out, b) ELSE out
             /\ UNCHANGED wait
        ELSE wait' = [wait EXCEPT !["ui"] = b] /\ UNCHANGED out
  /\ UNCHANGED <<writer, inHand, reader, serverVars, closer, err>>

\* send(): there is room ...
Enqueue(s) ==
  /\ wait[s] # None
  /\ Len(out) < Cap
  /\ out' = Append(out, wait[s])
  /\ wait' = [wait EXCEPT ![s] = None]
  /\ UNCHANGED <<writer, inHand, reader, inputVars, serverVars, closer, err>>

\* ... the connection is over ...
GiveUp(s) ==
  /\ wait[s] # None
  /\ Stopped \/ Done
  /\ wait' = [wait EXCEPT ![s] = None]
  /\ UNCHANGED <<out, writer, inHand, reader, inputVars, serverVars, closer, err>>

\* ... or there was no room for a second: the message is gone.
SendTimesOut(s) ==
  /\ wait[s] # None
  /\ Len(out) = Cap
  /\ SetErr("stopped reading")
  /\ wait' = [wait EXCEPT ![s] = None]
  /\ UNCHANGED <<out, writer, inHand, reader, inputVars, serverVars, closer>>

-----------------------------------------------------------------------------
(* writeLoop.                                                              *)

Take ==
  /\ writer = "select"
  /\ out # <<>>
  /\ inHand' = Head(out)
  /\ out' = Tail(out)
  /\ writer' = "write"
  /\ UNCHANGED <<wait, reader, inputVars, serverVars, closer, err>>

Write ==
  /\ writer = "write"
  /\ closer # "closed"
  /\ Len(wire) < Buffer
  /\ wire' = Append(wire, inHand)
  /\ writer' = "select" /\ inHand' = None
  /\ UNCHANGED <<out, wait, reader, inputVars, frames, asked, guest, stalls, got, closer, err>>

\* The write has been blocked for ten seconds, or the socket is gone: the
\* error is kept and the loop returns; nothing closes the socket.
WriteFails ==
  /\ writer = "write"
  /\ Len(wire) = Buffer \/ closer = "closed" \/ guest = "gone"
  /\ SetErr("write")
  /\ writer' = "gone" /\ inHand' = None
  /\ UNCHANGED <<out, wait, reader, inputVars, serverVars, closer>>

\* Mutant: writeLoop does not look at stopW and done.
WriterStaysInSelect == FALSE /\ UNCHANGED vars

WriterStops ==
  /\ writer = "select"
  /\ Stopped \/ Done
  /\ writer' = "gone"
  /\ UNCHANGED <<out, wait, inHand, reader, inputVars, serverVars, closer, err>>

-----------------------------------------------------------------------------
(* readLoop.                                                               *)

ReadFrame ==
  /\ reader = "read" /\ wait["read"] = None
  /\ closer # "closed"
  /\ frames > 0
  /\ frames' = frames - 1
  /\ reader' = "frame"
  /\ UNCHANGED <<out, wait, writer, inHand, inputVars, wire, asked, guest, stalls, got, closer, err>>

\* Mutant: the update request may be dropped, as motion may.
AskNextDroppable ==
  /\ reader = "frame"
  /\ out' = IF Len(out) < Cap THEN Append(out, Request) ELSE out
  /\ reader' = "read"
  /\ UNCHANGED <<wait, writer, inHand, inputVars, serverVars, closer, err>>

\* The frame was blitted and its callback run; the loop is in send() until the
\* request for the next one is queued or given up.
AskNext ==
  /\ reader = "frame"
  /\ wait' = [wait EXCEPT !["read"] = Request]
  /\ reader' = "read"
  /\ UNCHANGED <<out, writer, inHand, inputVars, serverVars, closer, err>>

\* A read fails: the socket was closed here, or the peer is gone.
ReadFails ==
  /\ reader = "read" /\ wait["read"] = None
  /\ closer = "closed" \/ guest = "gone"
  /\ SetErr("read")
  /\ reader' = "gone"
  /\ UNCHANGED <<out, wait, writer, inHand, inputVars, serverVars, closer>>

-----------------------------------------------------------------------------
(* Close, on the window's goroutine.                                       *)

Close ==
  /\ wait["ui"] = None
  /\ \/ closer = "no"   /\ closer' = "flag"
     \/ closer = "flag" /\ closer' = "stop"
     \/ closer = "stop" /\ closer' = "closed"
  /\ UNCHANGED <<out, wait, writer, inHand, reader, inputVars, serverVars, err>>

-----------------------------------------------------------------------------
(* qemu, at the other end.                                                 *)

Consume ==
  /\ guest = "reads"
  /\ wire # <<>>
  /\ wire' = Tail(wire)
  /\ LET b == Head(wire)
     IN /\ asked' = IF b = Request THEN asked + 1 ELSE asked
        /\ got' = IF b.n > 0 THEN [got EXCEPT ![b.from] = Append(@, b.n)] ELSE got
  /\ UNCHANGED <<out, wait, writer, inHand, reader, inputVars, frames, guest, stalls, closer, err>>

\* Demand-driven: a frame answers a request, when something changed.
ServeFrame ==
  /\ guest = "reads"
  /\ asked > 0
  /\ asked' = 0
  /\ frames' = frames + 1
  /\ UNCHANGED <<out, wait, writer, inHand, reader, inputVars, wire, guest, stalls, got, closer, err>>

Stall ==
  /\ guest = "reads" /\ stalls < MaxStall
  /\ guest' = "stalled" /\ stalls' = stalls + 1
  /\ UNCHANGED <<out, wait, writer, inHand, reader, inputVars, wire, frames, asked, got, closer, err>>

Resume ==
  /\ guest = "stalled"
  /\ guest' = "reads"
  /\ UNCHANGED <<out, wait, writer, inHand, reader, inputVars, wire, frames, asked, stalls, got, closer, err>>

Vanish ==
  /\ guest # "gone"
  /\ guest' = "gone"
  /\ UNCHANGED <<out, wait, writer, inHand, reader, inputVars, wire, frames, asked, stalls, got, closer, err>>

-----------------------------------------------------------------------------
SenderStep(s) == Enqueue(s) \/ GiveUp(s) \/ SendTimesOut(s)
WriterStep    == Take \/ Write \/ WriteFails \/ WriterStops
ReaderStep    == ReadFrame \/ AskNext \/ ReadFails

Next ==
  \/ \E s \in Hand : Key(s)
  \/ \E m \in {0, 1} : Pointer(m)
  \/ \E s \in Sender : SenderStep(s)
  \/ WriterStep \/ ReaderStep \/ Close
  \/ Consume \/ ServeFrame \/ Stall \/ Resume \/ Vanish

\* Goroutines run, timers fire and a Close that began goes on.  The guest, the
\* operator and the network owe nothing.
Spec ==
  /\ Init /\ [][Next]_vars
  /\ \A s \in Sender : WF_vars(SenderStep(s))
  /\ WF_vars(WriterStep) /\ WF_vars(ReaderStep)
  /\ WF_vars(Close /\ closer # "no")

-----------------------------------------------------------------------------
(* Properties.                                                             *)

Message == {None, Request} \cup [from : Hand, n : 0..MaxInput]

\* Every variable has its type and every buffer its bound.
TypeOK ==
  /\ out \in Seq(Message) /\ Len(out) <= Cap
  /\ wait \in [Sender -> Message]
  /\ writer \in {"select", "write", "gone"} /\ inHand \in Message
  /\ wire \in Seq(Message) /\ Len(wire) <= Buffer
  /\ reader \in {"read", "frame", "gone"}
  /\ frames \in 0..1 /\ asked \in 0..1
  /\ guest \in {"reads", "stalled", "gone"} /\ stalls \in 0..MaxStall
  /\ mask \in {0, 1} /\ lastMask \in {-1, 0, 1} /\ moves \in 0..MaxMotion
  /\ sent \in [Hand -> 0..MaxInput] /\ got \in [Hand -> Seq(0..MaxInput)]
  /\ closer \in {"no", "flag", "stop", "closed"}
  /\ err \in {"none", "stopped reading", "write", "read"}

Contiguous(q) == \A i \in DOMAIN q : q[i] = i

\* The inputs of s in q: where, their numbers, and that they are in order.
InputsAt(q, s) == {i \in DOMAIN q : q[i].from = s /\ q[i].n > 0}
Inputs(q, s)   == {q[i].n : i \in InputsAt(q, s)}
InOrder(q, s)  == \A i, j \in InputsAt(q, s) : i < j => q[i].n < q[j].n

\* What a full queue makes the guest miss is motion only: presses, releases
\* and keys arrive in order, and each has arrived or is on its way behind
\* those before it, or the connection has an error.
NoSilentLoss ==
  err = "none" /\ ~Closing => \A s \in Hand :
    LET way == wire \o <<inHand>> \o out \o <<wait[s]>>
    IN /\ Contiguous(got[s])
       /\ InOrder(way, s)
       /\ Inputs(way, s) = (Len(got[s]) + 1)..sent[s]

RequestsIn(q) == Cardinality({i \in DOMAIN q : q[i] = Request})
OneIf(cond)   == IF cond THEN 1 ELSE 0

\* One update request is always under way: waiting, queued, written, on the
\* wire or at the server, or the frame that answers it is on its way back.
\* None would freeze the picture; two would be a second stream of frames.
UnderWay ==
  RequestsIn(out) + RequestsIn(wire) + OneIf(inHand = Request)
    + OneIf(wait["dial"] = Request) + OneIf(wait["read"] = Request)
    + asked + frames + OneIf(reader = "frame")

OneRequest == err = "none" /\ ~Closing /\ ~Done => UnderWay = 1

\* A detach is not a disconnect: once Close was called no error appears, in
\* whatever order the loops notice.
DetachIsQuiet == [][Closing => err' = err]_vars

\* Close ends both loops and every sender.
CloseEndsAll ==
  Closing ~> (Done /\ writer = "gone" /\ \A s \in Sender : wait[s] = None)

=============================================================================
