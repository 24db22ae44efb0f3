----------------------------- MODULE FramePaint -----------------------------
(***************************************************************************)
(* How a frame gets from the VNC read loop to the screen (vnc.go).         *)
(*                                                                         *)
(* The read loop blits rectangles into the shared image, row by row and    *)
(* without a lock, and calls the frame callback; frameCoalescer queues at  *)
(* most one repaint for the window's goroutine; the repaint uploads the    *)
(* image row by row while the read loop may be blitting the next frame.    *)
(* A row holds the number of the frame that was last blitted into it.      *)
(***************************************************************************)
EXTENDS Integers

CONSTANTS Rows,    \* the rows of the image
          MaxFrame \* bound: frames the server sends

ASSUME PaintAssumption == Rows \in Nat \ {0} /\ MaxFrame \in Nat

VARIABLES
  img,      \* the shared image
  reader,   \* readLoop: "read", "blit", "trigger" or "queue"
  frame,    \* the frame it is at
  row,      \* the next row to blit
  pending,  \* frameCoalescer.pending
  queue,    \* repaints queued with fyne.Do
  ui,       \* the window's goroutine: "idle", "start" or "paint"
  urow,     \* the next row to upload
  shown     \* the texture on the screen

vars == <<img, reader, frame, row, pending, queue, ui, urow, shown>>
readVars  == <<img, reader, frame, row>>
paintVars == <<ui, urow, shown>>

Row == 1..Rows

Init ==
  /\ img = [r \in Row |-> 0] /\ shown = [r \in Row |-> 0]
  /\ reader = "read" /\ frame = 0 /\ row = 1
  /\ pending = FALSE /\ queue = 0
  /\ ui = "idle" /\ urow = 1

-----------------------------------------------------------------------------
(* readLoop.                                                               *)

Update ==
  /\ reader = "read" /\ frame < MaxFrame
  /\ reader' = "blit" /\ frame' = frame + 1 /\ row' = 1
  /\ UNCHANGED <<img, pending, queue, paintVars>>

\* Mutant: the callback runs before the last row is in the image.
BlitTriggersEarly ==
  /\ reader = "blit"
  /\ img' = [img EXCEPT ![row] = IF row = Rows THEN @ ELSE frame]
  /\ row' = row + 1
  /\ reader' = IF row = Rows THEN "trigger" ELSE "blit"
  /\ UNCHANGED <<frame, pending, queue, paintVars>>

\* blitRaw, a row.
Blit ==
  /\ reader = "blit"
  /\ img' = [img EXCEPT ![row] = frame]
  /\ row' = row + 1
  /\ reader' = IF row = Rows THEN "trigger" ELSE "blit"
  /\ UNCHANGED <<frame, pending, queue, paintVars>>

\* Mutant: no coalescing.
TriggerAlways ==
  /\ reader = "trigger"
  /\ pending' = TRUE
  /\ reader' = "queue"
  /\ UNCHANGED <<img, frame, row, queue, paintVars>>

\* trigger(): the compare-and-swap ...
Trigger ==
  /\ reader = "trigger"
  /\ pending' = TRUE
  /\ reader' = IF pending THEN "read" ELSE "queue"
  /\ UNCHANGED <<img, frame, row, queue, paintVars>>

\* ... and the one who won queues a repaint.
Queue ==
  /\ reader = "queue"
  /\ queue' = queue + 1
  /\ reader' = "read"
  /\ UNCHANGED <<img, frame, row, pending, paintVars>>

-----------------------------------------------------------------------------
(* The window's goroutine.                                                 *)

Dequeue ==
  /\ ui = "idle" /\ queue > 0
  /\ queue' = queue - 1
  /\ ui' = "start"
  /\ UNCHANGED <<readVars, pending, urow, shown>>

\* pending.Store(false), before the paint.
Clear ==
  /\ ui = "start"
  /\ pending' = FALSE
  /\ ui' = "paint" /\ urow' = 1
  /\ UNCHANGED <<readVars, queue, shown>>

\* Refresh(): the upload, a row.
Upload ==
  /\ ui = "paint"
  /\ shown' = [shown EXCEPT ![urow] = img[urow]]
  /\ urow' = urow + 1
  /\ ui' = IF urow = Rows THEN "idle" ELSE "paint"
  /\ UNCHANGED <<readVars, pending, queue>>

-----------------------------------------------------------------------------
ReaderStep == Update \/ Blit \/ Trigger \/ Queue
UiStep     == Dequeue \/ Clear \/ Upload
Next       == ReaderStep \/ UiStep

\* Both goroutines run; the server need not send a frame.
Spec ==
  /\ Init /\ [][Next]_vars
  /\ WF_vars(Blit \/ Trigger \/ Queue) /\ WF_vars(UiStep)

-----------------------------------------------------------------------------
(* Properties.                                                             *)

\* Every variable has its type, and at most one repaint is queued: a fast
\* guest builds no backlog before the operator's input.
TypeOK ==
  /\ img \in [Row -> 0..MaxFrame] /\ shown \in [Row -> 0..MaxFrame]
  /\ reader \in {"read", "blit", "trigger", "queue"}
  /\ frame \in 0..MaxFrame /\ row \in 1..(Rows + 1)
  /\ pending \in BOOLEAN /\ queue \in 0..1
  /\ ui \in {"idle", "start", "paint"} /\ urow \in 1..(Rows + 1)

\* Nothing more is going to be painted.
Quiet == reader = "read" /\ ui = "idle" /\ queue = 0

\* The last frame is on the screen, whole, whenever painting comes to rest,
\* though it was uploaded while the next one was blitted.
LastFrameShown == Quiet => shown = [r \in Row |-> frame]

\* pending says that one repaint is on its way and has not begun ...
OnePending ==
  /\ pending <=> \/ reader = "queue" \/ queue = 1 \/ ui = "start"
  /\ reader = "queue" => queue = 0 /\ ui # "start"
  /\ queue = 1 => ui # "start"

\* ... what the read loop has blitted is in the image ...
Blitted ==
  /\ reader = "blit" => row \in Row /\ \A r \in Row : r < row => img[r] = frame
  /\ reader # "blit" => \A r \in Row : img[r] = frame

\* ... and when no repaint is to come, what is uploaded is the last frame.
Uploaded ==
  /\ ui = "paint" => urow \in Row
  /\ reader = "read" /\ ~pending /\ ui = "idle"  => \A r \in Row : shown[r] = frame
  /\ reader = "read" /\ ~pending /\ ui = "paint" => \A r \in Row : r < urow => shown[r] = frame

\* The inductive invariant behind LastFrameShown.
IInv == TypeOK /\ OnePending /\ Blitted /\ Uploaded
=============================================================================
