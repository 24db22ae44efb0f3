----------------------------- MODULE BatchWindow -----------------------------
(***************************************************************************)
(* The window of a verb over many machines (gui.go's batchLogWindow: Build  *)
(* all, Destroy all, Deploy, Clone).  One per verb: pressing the verb again *)
(* only raises it.  Its button runs the job in a goroutine, whose lines a   *)
(* painter puts on the screen four times a second; the last lines are put   *)
(* there by what the job's end leaves for the window's goroutine.  X asks   *)
(* the job to end the first time and closes the window the second.          *)
(***************************************************************************)
EXTENDS Naturals

CONSTANTS
  AutoClose,  \* whether the window of a job that went well closes by itself
  MaxWin,     \* bound: windows opened
  MaxRun,     \* bound: jobs started
  MaxLine     \* bound: lines of a job

BatchWindowAssumption == AutoClose \in BOOLEAN /\ {MaxWin, MaxRun, MaxLine} \subseteq Nat

Win == 1..MaxWin
Run == 1..MaxRun

VARIABLES
  batchOpen,  \* batchOpen[title]: the window of the verb, or 0
  win,        \* win[w]: the window, its busy and closeAsked, its stop (a job)
  log,        \* logBuf and logDirty, and how much of the log the label shows
  job         \* job[r]: the goroutine, and whether its context lives

windowVars == <<batchOpen, win, log, job>>

NoWin == [st |-> "none", busy |-> FALSE, closeAsked |-> FALSE, stop |-> 0, closing |-> FALSE]
NoLog == [lines |-> 0, dirty |-> FALSE, label |-> 0]
NoJob == [st |-> "none", win |-> 0, live |-> FALSE, lines |-> 0]

Init ==
  /\ batchOpen = 0 /\ win = [w \in Win |-> NoWin]
  /\ log = [w \in Win |-> NoLog] /\ job = [r \in Run |-> NoJob]

Going(r) == job[r].st \in {"running", "returned", "ended"}

\* The button: disabled until the closure of the job before has run.
Starts(w, r) ==
  /\ job[r].st = "none" /\ \A q \in Run : q < r => job[q].st # "none"
  /\ job' = [job EXCEPT ![r] = [st |-> "running", win |-> w, live |-> TRUE, lines |-> 0]]

\* The verb, when it has no window yet: one opens and its button is pressed.
Press(w, r) ==
  /\ batchOpen = 0 /\ win[w].st = "none" /\ \A v \in Win : v < w => win[v].st # "none"
  /\ batchOpen' = w
  /\ Starts(w, r)
  /\ win' = [win EXCEPT ![w] = [NoWin EXCEPT !.st = "open", !.busy = TRUE, !.stop = r]]
  /\ UNCHANGED log

\* The button again: closeAsked stays what it was.
Again(w, r) ==
  /\ win[w].st = "open" /\ \A q \in Run : job[q].win = w => ~Going(q)
  /\ Starts(w, r)
  /\ win' = [win EXCEPT ![w].busy = TRUE, ![w].stop = r]
  /\ UNCHANGED <<batchOpen, log>>

\* The Cancel button, while it is enabled.
Cancel(w) ==
  /\ win[w].st = "open" /\ Going(win[w].stop)
  /\ job' = [job EXCEPT ![win[w].stop].live = FALSE]
  /\ UNCHANGED <<batchOpen, win, log>>

\* The X of the window.
X(w) ==
  /\ win[w].st = "open"
  /\ IF win[w].busy /\ ~win[w].closeAsked
     THEN /\ win' = [win EXCEPT ![w].closeAsked = TRUE]
          /\ job' = [job EXCEPT ![win[w].stop].live = FALSE]
          /\ UNCHANGED batchOpen
     ELSE /\ win' = [win EXCEPT ![w].st = "closed"] /\ batchOpen' = 0 /\ UNCHANGED job
  /\ UNCHANGED log

\* Three seconds after a job that went well.
Closes(w) ==
  /\ win[w].st = "open" /\ win[w].closing
  /\ win' = [win EXCEPT ![w].st = "closed", ![w].closing = FALSE] /\ batchOpen' = 0
  /\ UNCHANGED <<log, job>>

-----------------------------------------------------------------------------
(* The job and its painter.                                                *)

Appended(w) == log' = [log EXCEPT ![w].lines = @ + 1, ![w].dirty = TRUE]

Line(r) ==
  /\ job[r].st = "running" /\ job[r].lines < MaxLine
  /\ job' = [job EXCEPT ![r].lines = @ + 1]
  /\ Appended(job[r].win)
  /\ UNCHANGED <<batchOpen, win>>

\* flushLog.
Flushed(w) == log' = [log EXCEPT ![w].label = log[w].lines, ![w].dirty = FALSE]

\* A tick of the painter, on the window's goroutine, also after the job's end.
Tick(w) ==
  /\ log[w].dirty /\ win[w].st = "open" /\ Flushed(w)
  /\ UNCHANGED <<batchOpen, win, job>>

\* The job returns: the window is not busy any more, whatever its goroutine does.
Returns(r) ==
  /\ job[r].st = "running" /\ job' = [job EXCEPT ![r].st = "returned"]
  /\ win' = [win EXCEPT ![job[r].win].busy = FALSE]
  /\ UNCHANGED <<batchOpen, log>>

\* Its summary, and what is left for the window's goroutine.
Ends(r) ==
  /\ job[r].st = "returned" /\ job' = [job EXCEPT ![r].st = "ended"]
  /\ Appended(job[r].win)
  /\ UNCHANGED <<batchOpen, win>>

\* Which flushes the log, enables the button, and, of a job that did not fail,
\* sets the timer that closes the window, whatever is pressed meanwhile.
Last(r) ==
  /\ job[r].st = "ended" /\ job' = [job EXCEPT ![r].st = "over", ![r].live = FALSE]
  /\ Flushed(job[r].win)
  /\ \E ok \in BOOLEAN : win' = [win EXCEPT ![job[r].win].closing = @ \/ (AutoClose /\ ok)]
  /\ UNCHANGED batchOpen

-----------------------------------------------------------------------------
Next ==
  \/ \E w \in Win : Cancel(w) \/ X(w) \/ Closes(w) \/ Tick(w) \/ \E r \in Run : Press(w, r) \/ Again(w, r)
  \/ \E r \in Run : Line(r) \/ Returns(r) \/ Ends(r) \/ Last(r)

Spec == Init /\ [][Next]_windowVars

-----------------------------------------------------------------------------
(* Properties.                                                             *)

\* A window with nothing left to cancel lets itself be closed: it is busy only
\* while a job of its runs (busy, which the job's goroutine clears).
BusyIsTrue == \A w \in Win : win[w].busy => \E r \in Run : job[r].win = w /\ job[r].st = "running"

\* When the button can be pressed again every line of the job before is shown,
\* the summary at the end of it too (flushLog, the ticker and the last closure).
SummaryShown ==
  \A w \in Win :
    win[w].st = "open" /\ (\A r \in Run : job[r].win = w => job[r].st = "over") => log[w].label = log[w].lines

\* "The first press of X cancels the run and says so": no job goes on that was
\* not told to end, behind a window that is closed (SetCloseIntercept).
NoUnseenRun ==
  \A r \in Run : job[r].st = "running" /\ job[r].live => win[job[r].win].st = "open"
=============================================================================
