------------------------------ MODULE MCViewer ------------------------------
(***************************************************************************)
(* The screen of a machine in the window, for TLC: the painting of frames, *)
(* the connection, the guest's resize, the pane that follows the selection *)
(* and the keyboard.  They share no variable in the model, so that one run *)
(* checks them side by side: part names the one that moves, the others     *)
(* stay as they began.                                                     *)
(***************************************************************************)
EXTENDS FramePaint, Sequences

CONSTANTS
  Cap, Buffer, MaxInput, MaxMotion, MaxStall, \* RfbConn
  Size, Mode, MaxResize, MaxOwn,              \* RfbResize
  VM, MaxCPU, Counted, MaxDial, MaxFetch,     \* ConsolePane
  MaxPress, MaxTap, MaxPaste, MaxBlur         \* Keyboard

VARIABLES
  part,
  rOut, rWait, rWriter, rInHand, rWire, rReader, rFrames, rAsked, rGuest, rStalls,
  rMask, rLastMask, rMoves, rSent, rGot, rCloser, rErr,
  pane, resizes, timer, ask, extOK, fb, guest, owns, extends, toServer, toClient, lapsed, err, crossed,
  up, cpu, rows, fetched, sel, con, last, dial, want, conn, name, tunnel, openConn, openTunnel, screen,
  hand, focus, down, paste, open, presses, taps, blurs, sure, arrived

Rfb == INSTANCE RfbConn WITH
  out <- rOut, wait <- rWait, writer <- rWriter, inHand <- rInHand, wire <- rWire,
  reader <- rReader, frames <- rFrames, asked <- rAsked, guest <- rGuest, stalls <- rStalls,
  mask <- rMask, lastMask <- rLastMask, moves <- rMoves, sent <- rSent, got <- rGot,
  closer <- rCloser, err <- rErr

Fit == INSTANCE RfbResize
Pan == INSTANCE ConsolePane WITH pane <- screen
Keys == INSTANCE Keyboard

ASSUME ViewerAssumption ==
  Rfb!RfbAssumption /\ Fit!ResizeAssumption /\ Pan!PaneAssumption /\ Keys!KeyboardAssumption

connVars == <<rOut, rWait, rWriter, rInHand, rWire, rReader, rFrames, rAsked, rGuest, rStalls,
              rMask, rLastMask, rMoves, rSent, rGot, rCloser, rErr>>
fitVars  == <<pane, resizes, timer, ask, extOK, fb, guest, owns, extends, toServer, toClient, lapsed, err, crossed>>
paneVars == <<up, cpu, rows, fetched, sel, con, last, dial, want, conn, name, tunnel, openConn, openTunnel, screen>>
keyVars  == <<hand, focus, down, paste, open, presses, taps, blurs, sure, arrived>>
all == <<part, vars, connVars, fitVars, paneVars, keyVars>>

\* What does not move begins in one state only.
Resting ==
  /\ part # "resize" => pane = guest /\ toClient = <<>> /\ guest = CHOOSE s \in Size : TRUE
  /\ part # "pane" => \A v \in VM : up[v]

ViewerInit ==
  /\ part \in {"paint", "conn", "resize", "pane", "keys"}
  /\ Init /\ Rfb!Init /\ Fit!Init /\ Pan!Init /\ Keys!Init
  /\ Resting

ViewerNext ==
  \/ part = "paint"  /\ Next     /\ UNCHANGED <<part, connVars, fitVars, paneVars, keyVars>>
  \/ part = "conn"   /\ Rfb!Next /\ UNCHANGED <<part, vars, fitVars, paneVars, keyVars>>
  \/ part = "resize" /\ Fit!Next /\ UNCHANGED <<part, vars, connVars, paneVars, keyVars>>
  \/ part = "pane"   /\ Pan!Next /\ UNCHANGED <<part, vars, connVars, fitVars, keyVars>>
  \/ part = "keys"   /\ Keys!Next /\ UNCHANGED <<part, vars, connVars, fitVars, paneVars>>

\* The fairness the parts state.
ViewerSpec ==
  /\ ViewerInit /\ [][ViewerNext]_all
  /\ \A s \in Rfb!Sender : WF_connVars(part = "conn" /\ Rfb!SenderStep(s))
  /\ WF_connVars(part = "conn" /\ Rfb!WriterStep)
  /\ WF_connVars(part = "conn" /\ Rfb!ReaderStep)
  /\ WF_connVars(part = "conn" /\ Rfb!Close /\ rCloser # "no")
  /\ WF_fitVars(part = "resize" /\ Fit!Fire)
  /\ WF_fitVars(part = "resize" /\ \E a \in ask : Fit!Check(a) \/ Fit!Send(a))
  /\ WF_fitVars(part = "resize" /\ Fit!ReadRect)
  /\ WF_fitVars(part = "resize" /\ Fit!Serve)
  /\ \A i \in 1..MaxDial : WF_paneVars(part = "pane" /\ Pan!DialStep(i))

-----------------------------------------------------------------------------
(* Properties: TypeOK and LastFrameShown of FramePaint itself, and those   *)
(* of the parts.                                                           *)

\* What a full queue makes the guest miss is motion only (send),
\* and one update request is always under way (readLoop and requestUpdate).
MessagesKept == Rfb!TypeOK /\ Rfb!NoSilentLoss /\ Rfb!OneRequest

\* Once Close was called the connection records no error (setErr), the guest
\* changes its mode for nothing only when requests crossed (requestSize), and the
\* end of an older console never replaces the screen of a newer (installVNC).
NothingForNothing == Rfb!DetachIsQuiet /\ Fit!NoFlicker /\ Pan!EndIsOwn

\* The framebuffer has the guest's size when no rectangle with another is on its way,
\* whoever changed it, and no server that did not announce is asked (readLoop,
\* requestSize).
SizesAgree == Fit!TypeOK /\ Fit!SizesAgree /\ Fit!AskedOnlyIfAnnounced

\* Close ends both loops and every sender, and the size the operator stopped at
\* is the guest's in the end, until the guest takes another by itself (Close, Resize).
ComesToAnEnd ==
  /\ part = "conn" => Rfb!CloseEndsAll
  /\ part = "resize" => Fit!FitsInTheEnd

\* What is on the screen is the selected machine's, over what is still open, and
\* no forward outlives its console (followConsole, connectVNC).
ScreenIsTrue == Pan!TypeOK /\ Pan!ScreenIsTheSelected /\ Pan!ForwardHasConsole

\* The guest takes no modifier to be held that is not, a shortcut arrives with the
\* modifiers pressed over the console, and a paste as Ctrl+V (FocusLost, tapKey,
\* pasteText).
KeysAsHeld == Keys!TypeOK /\ Keys!NoStuckModifier /\ Keys!TapsAsHeld /\ Keys!PasteIsCtrlV

\* "connecting" gives way to a screen, an error or another machine (attachVNC).
ConnectSettles == part = "pane" => Pan!ConnectSettles
=============================================================================
