------------------------------ MODULE RfbResize ------------------------------
(***************************************************************************)
(* The guest's screen follows the pane (vnc.go): Resize of the viewer arms *)
(* a timer, requestSize asks the server once the operator has stopped, and *)
(* the server answers, with success or a refusal, through the read loop.   *)
(* The guest changes its mode by itself too: it boots, or its desktop does *)
(* it; nothing in the viewer asks for the pane's size again then.          *)
(*                                                                         *)
(* The request is written past the queue of the connection, so it goes out *)
(* under the write deadline the last queued message left on the socket.    *)
(***************************************************************************)
EXTENDS Integers, Sequences, FiniteSets

CONSTANTS
  Size,       \* sizes, of the pane and of the guest's screen
  Mode,       \* those the guest's driver can set
  MaxResize,  \* bound: how often the operator resizes the pane
  MaxOwn      \* bound: how often the guest changes its mode by itself

NoSize == "none"

ResizeAssumption == Mode \subseteq Size /\ NoSize \notin Size /\ MaxResize \in Nat /\ MaxOwn \in Nat

VARIABLES
  pane,     \* the size the operator gave the viewer, in guest pixels
  resizes,
  timer,    \* fitTimer: the size it will ask for, or NoSize
  ask,      \* goroutines in requestSize: their size, and that they checked
  extOK,    \* the server announced ExtendedDesktopSize
  fb,       \* the framebuffer's size here
  guest,    \* and at the server
  owns,     \* changes of it that nobody asked for
  extends,  \* the server knows ExtendedDesktopSize
  toServer, \* SetDesktopSize on its way
  toClient, \* size rectangles on their way: ExtendedDesktopSize or DesktopSize, y = 0, the size
  lapsed,   \* the write deadline of the socket has passed
  err,      \* Err() is set
  crossed   \* history: the last size was asked for with an answer still on its way, or
            \* the guest has changed its mode by itself since

vars == <<pane, resizes, timer, ask, extOK, fb, guest, owns, extends, toServer, toClient, lapsed, err, crossed>>
operatorVars == <<pane, resizes>>
ownVars      == <<owns, extends>>
serverVars   == <<guest, ownVars, toServer>>

Rect == [ext : BOOLEAN, ok : BOOLEAN, size : Size]

Init ==
  /\ guest \in Size /\ fb = guest
  /\ pane \in Size /\ timer = pane   \* the first layout
  /\ resizes = 0 /\ ask = {}
  /\ extOK = FALSE /\ owns = 0 /\ extends \in BOOLEAN
  /\ toServer = <<>>
  /\ toClient = IF extends THEN <<[ext |-> TRUE, ok |-> TRUE, size |-> guest]>> ELSE <<>>
  /\ lapsed = FALSE /\ err = FALSE /\ crossed = FALSE

Answered == toServer = <<>> /\ toClient = <<>> /\ ask = {}

-----------------------------------------------------------------------------
(* The viewer.                                                             *)

\* Resize, and the splitter or the fullscreen key behind it.
Resize(s) ==
  /\ s # pane /\ resizes < MaxResize
  /\ pane' = s /\ resizes' = resizes + 1
  /\ timer' = s
  /\ UNCHANGED <<ask, extOK, fb, serverVars, toClient, lapsed, err, crossed>>

\* 400 ms without another Resize.
Fire ==
  /\ timer # NoSize
  /\ crossed' = ~Answered
  /\ ask' = ask \cup {[size |-> timer, checked |-> FALSE]}
  /\ timer' = NoSize
  /\ UNCHANGED <<operatorVars, extOK, fb, serverVars, toClient, lapsed, err>>

\* requestSize: a server that can, and a size that is not there already ...
Check(a) ==
  /\ ~a.checked
  /\ ask' = (ask \ {a}) \cup (IF extOK /\ fb # a.size THEN {[a EXCEPT !.checked = TRUE]} ELSE {})
  /\ UNCHANGED <<operatorVars, timer, extOK, fb, serverVars, toClient, lapsed, err, crossed>>

\* ... and the message, which fails once the deadline has passed.
Send(a) ==
  /\ a.checked
  /\ ask' = ask \ {a}
  /\ IF lapsed THEN err' = TRUE /\ UNCHANGED toServer
               ELSE toServer' = Append(toServer, a.size) /\ UNCHANGED err
  /\ UNCHANGED <<operatorVars, timer, extOK, fb, guest, ownVars, toClient, lapsed, crossed>>

-----------------------------------------------------------------------------
(* The connection.                                                         *)

\* Mutant: the result code is not looked at.
ReadRectIgnoresResult ==
  /\ toClient # <<>>
  /\ extOK' = (extOK \/ Head(toClient).ext)
  /\ fb' = Head(toClient).size
  /\ toClient' = Tail(toClient)
  /\ lapsed' = FALSE
  /\ UNCHANGED <<operatorVars, timer, ask, serverVars, err, crossed>>

\* A size rectangle.  A refusal leaves the framebuffer as it was; the update request
\* that follows renews the deadline.
ReadRect ==
  /\ toClient # <<>>
  /\ LET r == Head(toClient)
     IN /\ extOK' = (extOK \/ r.ext)
        /\ fb' = IF r.ok THEN r.size ELSE fb
  /\ toClient' = Tail(toClient)
  /\ lapsed' = FALSE
  /\ UNCHANGED <<operatorVars, timer, ask, serverVars, err, crossed>>

\* A key, the pointer or an update request goes through writeLoop ...
Traffic ==
  /\ lapsed
  /\ lapsed' = FALSE
  /\ UNCHANGED <<operatorVars, timer, ask, extOK, fb, serverVars, toClient, err, crossed>>

\* ... or nothing for ten seconds: a still picture and a hand off the mouse.
Lapse ==
  /\ ~lapsed
  /\ lapsed' = TRUE
  /\ UNCHANGED <<operatorVars, timer, ask, extOK, fb, serverVars, toClient, err, crossed>>

\* qemu and the guest's driver.  What size a refusal carries is up to them.
Serve ==
  /\ toServer # <<>>
  /\ toServer' = Tail(toServer)
  /\ LET s == Head(toServer)
     IN IF s \in Mode
        THEN guest' = s /\ toClient' = Append(toClient, [ext |-> extends, ok |-> TRUE, size |-> s])
        ELSE /\ UNCHANGED guest
             /\ \E any \in Size : toClient' = Append(toClient, [ext |-> extends, ok |-> FALSE, size |-> any])
  /\ UNCHANGED <<operatorVars, timer, ask, extOK, fb, ownVars, lapsed, err, crossed>>

\* The guest boots, or changes its mode by itself: any mode, asked for or not.
Own(s) ==
  /\ s # guest /\ owns < MaxOwn
  /\ guest' = s /\ owns' = owns + 1 /\ crossed' = TRUE
  /\ toClient' = Append(toClient, [ext |-> extends, ok |-> TRUE, size |-> s])
  /\ UNCHANGED <<operatorVars, timer, ask, extOK, fb, extends, toServer, lapsed, err>>

-----------------------------------------------------------------------------
Next ==
  \/ \E s \in Size : Resize(s) \/ Own(s)
  \/ \E a \in ask : Check(a) \/ Send(a)
  \/ Fire \/ ReadRect \/ Traffic \/ Lapse \/ Serve

\* Timers fire and goroutines run, the server's included; nobody has to move
\* the mouse.
Spec ==
  /\ Init /\ [][Next]_vars
  /\ WF_vars(Fire) /\ WF_vars(\E a \in ask : Check(a) \/ Send(a))
  /\ WF_vars(ReadRect) /\ WF_vars(Serve)

-----------------------------------------------------------------------------
(* Properties.                                                             *)

\* Every variable has its type.
TypeOK ==
  /\ pane \in Size /\ resizes \in 0..MaxResize
  /\ timer \in Size \cup {NoSize}
  /\ ask \subseteq [size : Size, checked : BOOLEAN]
  /\ extOK \in BOOLEAN /\ fb \in Size /\ guest \in Size
  /\ owns \in 0..MaxOwn /\ extends \in BOOLEAN
  /\ toServer \in Seq(Size) /\ toClient \in Seq(Rect)
  /\ lapsed \in BOOLEAN /\ err \in BOOLEAN /\ crossed \in BOOLEAN

\* The framebuffer has the guest's size whenever no answer is on its way,
\* refusals, requests that crossed and modes the guest took by itself included: a
\* click lands where it was aimed at.
SizesAgree == toClient = <<>> => fb = guest

\* No request reaches a server that did not announce that it takes them.
AskedOnlyIfAnnounced == toServer # <<>> => extOK

\* A request changes the guest's mode or is refused; unless it crossed an
\* answer, or the guest changed its mode by itself on the way, it is never for the
\* size the guest has, which would flicker it.
NoFlicker == [][~crossed /\ toServer # <<>> /\ Len(toServer') < Len(toServer) =>
                  Head(toServer) # guest]_vars

\* "Only the size the operator stopped at is worth asking for": in the end,
\* if server and driver take it, it is the guest's, unless that request crossed
\* an answer, one was lost on an idle connection, which is recorded, or the guest has
\* taken another mode by itself since: that one stays until the next Resize.
FitsInTheEnd == <>[](extOK /\ pane \in Mode /\ ~crossed /\ ~err => guest = pane /\ fb = pane)
=============================================================================
