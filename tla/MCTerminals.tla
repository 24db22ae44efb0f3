---------------------------- MODULE MCTerminals ----------------------------
(***************************************************************************)
(* What an operator sees of the host in a terminal, for TLC: the estate    *)
(* (tui.go), the console's panes and jobs, and a machine's display drawn   *)
(* into the terminal, with its keys and with its mouse, and the form that  *)
(* installs a machine.  Each on its own: part names the one that moves,    *)
(* the others stay as they began.                                          *)
(***************************************************************************)
EXTENDS Tui, TLC

CONSTANTS
  Session, Steps, MaxJobs, MaxTick, MaxSeq,                             \* of VmxPanes
  MaxSize, Sizable, MaxFrame, MaxWinch, AnyKey, MaxTyped,               \* of VmxScreen
  Cols, Lines, CellW, CellH, Wide, High,                                \* of VmxRender
  Devices, Typed, Length, short, four, eight, nine                      \* of Install

Symm == Permutations(Session)

VARIABLES
  part,
  ses, con, jobs, asked, tickGen, ticks, upd, cache,
  guest, toGuest, toClient, reader, img, ext, pub, frames, main, seq, drawn, dirty, shown,
  term, winch, winches, typed, stdin, chunks, pending, menu, got, astray,
  mode, cols, rows, fw, fh, placed, click,
  step, at, form, disks, told, dryrun, left, file, ran, secrets

\* Consoles and jobs, and the list.
Panes == INSTANCE VmxPanes

\* The display: what is drawn of it, and what is typed.
Picture == INSTANCE VmxScreen WITH Key <- {}, Size <- 1..MaxSize, MaxKey <- 0
Typing == INSTANCE VmxScreen WITH Key <- AnyKey, Size <- {1}, MaxFrame <- 1, MaxKey <- MaxTyped, MaxWinch <- 0

\* For TLC small pictures and large ones, that do not fit in either way.
Render == INSTANCE VmxRender WITH drawn <- placed

\* The form; for TLC a host with one disk, a zvol and the medium, and secrets of every
\* length that matters.
Form == INSTANCE Install WITH cursor <- at, m <- form, cmd <- left, typed <- secrets

OneDisk == <<"live", "disk", "zvol">>
Lengths == short :> 3 @@ four :> 4 @@ eight :> 8 @@ nine :> 9

ASSUME TerminalsAssumption ==
  MaxSize \in Nat \ {0} /\ TuiAssumption /\ Panes!VmxPanesAssumption /\ Picture!ScreenAssumption /\ Typing!ScreenAssumption
  /\ Render!RenderAssumption /\ Form!InstallAssumption

paneVars   == <<ses, con, jobs, asked, tickGen, ticks, upd, cache>>
screenVars == <<guest, toGuest, toClient, reader, img, ext, pub, frames, main, seq, drawn, dirty, shown,
                term, winch, winches, typed, stdin, chunks, pending, menu, got, astray>>
renderVars == <<mode, cols, rows, fw, fh, placed, click>>
formVars   == <<step, at, form, disks, told, dryrun, left, file, ran, secrets>>
all == <<part, vars, paneVars, screenVars, renderVars, formVars>>

\* What does not move begins in one state only.
Resting ==
  /\ part \notin {"picture", "typing"} => guest.size = 1
  /\ part # "picture" => term = 1
  /\ part # "render" => mode = "blocks" /\ cols = Min(Cols) /\ rows = Min(Lines) /\ fw = Min(Wide) /\ fh = Min(High)
  /\ part # "install" => told /\ disks = <<>> /\ dryrun

TerminalsInit ==
  /\ part \in {"estate", "panes", "picture", "typing", "render", "install"}
  /\ Init /\ Panes!Init /\ Picture!Init /\ Render!Init /\ Form!Init
  /\ Resting /\ (part = "typing" => guest.size = 1)

TerminalsNext ==
  \/ part = "estate"  /\ Next         /\ UNCHANGED <<part, paneVars, screenVars, renderVars, formVars>>
  \/ part = "panes"   /\ Panes!Next   /\ UNCHANGED <<part, vars, screenVars, renderVars, formVars>>
  \/ part = "picture" /\ Picture!Next /\ UNCHANGED <<part, vars, paneVars, renderVars, formVars>>
  \/ part = "typing"  /\ Typing!Next  /\ UNCHANGED <<part, vars, paneVars, renderVars, formVars>>
  \/ part = "render"  /\ Render!Next  /\ UNCHANGED <<part, vars, paneVars, screenVars, formVars>>
  \/ part = "install" /\ Form!Next    /\ UNCHANGED <<part, vars, paneVars, screenVars, renderVars>>

TerminalsSpec == TerminalsInit /\ [][TerminalsNext]_all

-----------------------------------------------------------------------------
(* Properties: CursorKeepsName of Tui itself, and those of the parts.      *)

\* No mark is used twice (runOnTargets).  A machine is installed with secrets that
\* were typed twice, after whatever was gone back to, and its end is told as it was
\* (updateText, prev; installDoneMsg).
TuiIsSound ==
  /\ part = "estate"  => SpentOnce
  /\ part = "install" => Form!TypeOK /\ Form!CursorOnChoice /\ Form!AnswersAsTyped /\ Form!EndIsTold

\* The newest chain of ticks is there while a pane is shown, no console that nobody
\* sees, no job that runs and cannot be gone back to, no picture older than the output
\* that was counted (newTick, consoleReady, jobStartMsg, view).
PanesAreTrue ==
  part = "panes" =>
    Panes!TypeOK /\ Panes!OneChain /\ Panes!NoHiddenSession /\ Panes!RunningIsListed /\ Panes!CacheIsCurrent

\* A chain of ticks that newTick retired is not begun again (conTickMsg).
RetiredEnds == Panes!RetiredEnds

\* The terminal comes to show the newest frame, every key reaches the guest as it
\* was typed unless a read parts an escape from what it begins, takes more behind an
\* Escape key, or the probe or the menu had it, and a click is at a pixel of the cell it
\* is on (runScreen, input, mouse).
ScreenIsSound ==
  /\ part = "picture" => Picture!FrameShown
  /\ part = "typing"  => Typing!FrameShown /\ Typing!KeysArrive
  /\ part = "render"  => Render!ClickLands
=============================================================================
