------------------------------ MODULE VmxPanes ------------------------------
(***************************************************************************)
(* The panes of the console (cmd/vmx/tui.go, console.go): consoles asked   *)
(* for and opened off the update loop, jobs of one or more commands that   *)
(* go on when their pane is left, the chain of ticks that redraws and      *)
(* reports, and the cache a pane is drawn from.  A job's goroutine and the *)
(* update loop run side by side; what the loop does to one message may be  *)
(* cut in two by the end of a job.                                         *)
(***************************************************************************)
EXTENDS Integers, Sequences, FiniteSets, SequencesExt, FiniteSetsExt

CONSTANTS
  Session,  \* consoles and jobs that may be opened
  Steps,    \* commands of a job, at most
  MaxJobs,  \* jobs kept in the list (20 in the code)
  MaxTick,  \* bound: chains of ticks
  MaxSeq,   \* bound: frames and writes of a session
  None

VmxPanesAssumption ==
  /\ Steps \in Nat \ {0} /\ MaxJobs \in Nat \ {0} /\ MaxTick \in Nat /\ MaxSeq \in Nat
  /\ None \notin Session \cup Nat

VARIABLES
  ses,      \* ses[s]: kind, st, left (commands), proc (a child is there), killed, follow, told,
            \*   out (what its screen holds) and seq (the counter that is raised after it)
  con,      \* the session whose pane is shown
  jobs,     \* the list of jobs, oldest first
  asked,    \* the consoles being opened, in the order of conReqGen
  tickGen,  \* the generation of the live chain
  ticks,    \* the ticks under way
  upd,      \* the second half of a tick: None, or its generation
  cache     \* the drawing of con's pane: None, or what it was made at and of

paneVars == <<ses, con, jobs, asked, tickGen, ticks, upd, cache>>

NoSession == [kind |-> "none", st |-> "none", left |-> 0, proc |-> FALSE, killed |-> FALSE,
              follow |-> FALSE, told |-> FALSE, out |-> 0, seq |-> 0]

Init ==
  /\ ses = [s \in Session |-> NoSession]
  /\ con = None /\ jobs = <<>> /\ asked = <<>>
  /\ tickGen = 0 /\ ticks = {} /\ upd = None
  /\ cache = [of |-> None, at |-> 0, made |-> 0]

IsJob(s)   == ses[s].kind = "job"
JobShown   == IF con = None THEN FALSE ELSE IsJob(con)
Alive(s)   == ses[s].st = "running"
Ok(s)      == ses[s].st = "ok"
Idle       == upd = None            \* the update loop takes the next message
Listed     == Range(jobs)
NoCache    == cache' = [of |-> None, at |-> 0, made |-> 0]

-----------------------------------------------------------------------------
(* The chain of ticks.                                                     *)

\* newTick retires every other chain.
NewTick ==
  /\ tickGen < MaxTick
  /\ tickGen' = tickGen + 1 /\ ticks' = ticks \cup {tickGen + 1}

NoTick == UNCHANGED <<tickGen, ticks>>

\* A job that succeeded while it was watched gives the table back; one that
\* failed stays until it was read.
Leaves(s) == JobShown /\ Ok(s) /\ ~ses[s].follow

\* Mutant, the handler before generations: whichever chain ticked goes on.
TickAnyway(g) ==
  /\ Idle /\ g \in ticks /\ ticks' = ticks \ {g}
  /\ ses' = [s \in Session |-> IF s \in Listed /\ ~Alive(s) THEN [ses[s] EXCEPT !.told = TRUE] ELSE ses[s]]
  /\ con' = IF Leaves(con) THEN None ELSE con
  /\ upd' = g
  /\ UNCHANGED <<jobs, asked, tickGen, cache>>

\* conTickMsg, first what ended since the last one.
Tick(g) ==
  /\ Idle /\ g \in ticks /\ ticks' = ticks \ {g}
  /\ IF g # tickGen THEN UNCHANGED <<ses, upd, con>>
     ELSE /\ ses' = [s \in Session |-> IF s \in Listed /\ ~Alive(s) THEN [ses[s] EXCEPT !.told = TRUE] ELSE ses[s]]
          /\ con' = IF Leaves(con) THEN None ELSE con
          /\ upd' = g
  /\ UNCHANGED <<jobs, asked, tickGen, cache>>

\* Then whether there is a reason to come back.
Rearm(g) ==
  /\ upd = g /\ upd' = None
  /\ ticks' = IF con # None \/ \E s \in Listed : Alive(s) THEN ticks \cup {g} ELSE ticks
  /\ UNCHANGED <<ses, con, jobs, asked, tickGen, cache>>

-----------------------------------------------------------------------------
(* Consoles.                                                               *)

Fresh(s) == ses[s].kind = "none" /\ \A i \in 1..Len(asked) : asked[i] # s

\* openConsole: the probe and the dial are a Cmd's.
AskConsole(s) ==
  /\ Idle /\ ~JobShown /\ Fresh(s)
  /\ asked' = Append(asked, s)
  /\ UNCHANGED <<ses, con, jobs, tickGen, ticks, upd, cache>>

Closed(s, m) == [m EXCEPT ![s].st = "closed", ![s].proc = FALSE]

\* A console that is shown gives way; a job goes on.
Replaced(m) == IF con # None /\ ses[con].kind # "job" THEN Closed(con, m) ELSE m

\* Mutant: only the latest is looked at.
ReadyStale(i) ==
  /\ Idle /\ i \in 1..Len(asked)
  /\ LET s == asked[i]
         open == [ses EXCEPT ![s].kind = "console", ![s].st = "running", ![s].proc = TRUE]
     IN \/ /\ i < Len(asked)
           /\ ses' = open
           /\ NoTick /\ UNCHANGED <<con, cache>>
        \/ /\ i = Len(asked) /\ NewTick
           /\ ses' = Replaced(open) /\ con' = s /\ NoCache
     /\ asked' = [asked EXCEPT ![i] = None]
  /\ UNCHANGED <<jobs, upd>>

\* consoleReady: one that another was asked for since closes itself.
Ready(i) ==
  /\ Idle /\ i \in 1..Len(asked)
  /\ LET s == asked[i]
         open == [ses EXCEPT ![s].kind = "console", ![s].st = "running", ![s].proc = TRUE]
     IN \/ /\ i < Len(asked)
           /\ ses' = Closed(s, open)
           /\ NoTick /\ UNCHANGED <<con, cache>>
        \/ /\ i = Len(asked) /\ NewTick
           /\ ses' = Replaced(open) /\ con' = s /\ NoCache
        \/ ses' = [ses EXCEPT ![s].kind = "console", ![s].st = "closed"]   \* the dial failed
           /\ NoTick /\ UNCHANGED <<con, cache>>
     /\ asked' = [asked EXCEPT ![i] = None]
  /\ UNCHANGED <<jobs, upd>>

\* The menu's d, and Enter once the session is over.
CloseConsole ==
  /\ Idle /\ con # None /\ ~JobShown
  /\ ses' = Closed(con, ses) /\ con' = None
  /\ UNCHANGED <<jobs, asked, tickGen, ticks, upd, cache>>

-----------------------------------------------------------------------------
(* Jobs.                                                                   *)

Without(q, s) == RemoveFirst(q, s)

\* Of a list that grew too long the oldest that ended goes.
Trimmed(q) ==
  LET ended == {i \in 1..Len(q) - 1 : ses[q[i]].st # "running"}
  IN IF Len(q) > MaxJobs /\ ended # {} THEN Without(q, q[Min(ended)]) ELSE q

\* jobStartMsg, of n commands; and openActivity's follow of a journal.
StartJob(s, n, follow) ==
  /\ Idle /\ Fresh(s) /\ (follow => n = 1 /\ con = None)
  /\ ses' = [Replaced(ses) EXCEPT ![s] = [NoSession EXCEPT !.kind = "job", !.st = "running", !.left = n,
                                                           !.proc = TRUE, !.follow = follow]]
  /\ jobs' = IF follow THEN Append(jobs, s) ELSE Trimmed(Append(jobs, s))
  /\ con' = s /\ NoCache /\ NewTick
  /\ UNCHANGED <<asked, upd>>

\* A command ends well, and the next is a moment away.
CommandEnds(s) ==
  /\ IsJob(s) /\ Alive(s) /\ ses[s].proc /\ ~ses[s].follow
  /\ ses' = [ses EXCEPT ![s].proc = FALSE, ![s].left = @ - 1,
                        ![s].st = IF ses[s].left = 1 THEN "ok" ELSE "running"]
  /\ UNCHANGED <<con, jobs, asked, tickGen, ticks, upd, cache>>

NextCommand(s) ==
  /\ IsJob(s) /\ Alive(s) /\ ~ses[s].proc
  /\ ses' = [ses EXCEPT ![s].proc = TRUE]
  /\ UNCHANGED <<con, jobs, asked, tickGen, ticks, upd, cache>>

\* The first command that fails ends the job.
CommandFails(s) ==
  /\ IsJob(s) /\ Alive(s) /\ ses[s].proc
  /\ ses' = [ses EXCEPT ![s].proc = FALSE, ![s].st = "failed"]
  /\ UNCHANGED <<con, jobs, asked, tickGen, ticks, upd, cache>>

\* close: the signal goes to the group of the last child there was.
Kill(m, s) == [m EXCEPT ![s].killed = TRUE, ![s].st = IF m[s].proc THEN "failed" ELSE @, ![s].proc = FALSE]

\* leaveJob: the job goes on, but a follow is ended and forgotten.
LeaveJob ==
  /\ Idle /\ JobShown /\ NewTick
  /\ IF ses[con].follow THEN ses' = Kill(ses, con) /\ jobs' = Without(jobs, con) ELSE UNCHANGED <<ses, jobs>>
  /\ con' = None
  /\ UNCHANGED <<asked, upd, cache>>

\* The menu's k.
KillJob ==
  /\ Idle /\ JobShown /\ ~ses[con].follow /\ NewTick
  /\ ses' = Kill(ses, con) /\ con' = None
  /\ UNCHANGED <<jobs, asked, upd, cache>>

\* The menu's J: the next of the list.
NextJob ==
  /\ Idle /\ con # None /\ con \in Listed
  /\ LET i == CHOOSE i \in 1..Len(jobs) : jobs[i] = con
     IN con' = jobs[(i % Len(jobs)) + 1]
  /\ NoCache
  /\ UNCHANGED <<ses, jobs, asked, tickGen, ticks, upd>>

\* ctrl+j, and Enter on a job of the Activity tab.
ShowJob ==
  /\ Idle /\ con = None /\ jobs # <<>> /\ NewTick
  /\ con' = Last(jobs) /\ NoCache
  /\ UNCHANGED <<ses, jobs, asked, upd>>

-----------------------------------------------------------------------------
(* What a pane shows.                                                      *)

\* A frame on the wire, or what a child wrote, goes to the screen that is drawn,
Output ==
  /\ con # None /\ Alive(con) /\ ses[con].out < MaxSeq /\ ses[con].out = ses[con].seq
  /\ ses' = [ses EXCEPT ![con].out = @ + 1]
  /\ UNCHANGED <<con, jobs, asked, tickGen, ticks, upd, cache>>

\* and is counted then, by the same reader, the session may have ended meanwhile.
Counted ==
  /\ con # None /\ ses[con].seq < ses[con].out
  /\ ses' = [ses EXCEPT ![con].seq = @ + 1]
  /\ UNCHANGED <<con, jobs, asked, tickGen, ticks, upd, cache>>

\* view: the counter first, the picture after, of what is there by then.
View(at) ==
  /\ con # None /\ at <= ses[con].seq
  /\ (cache.of # con \/ cache.at # at)
  /\ cache' = [of |-> con, at |-> at, made |-> ses[con].out]
  /\ UNCHANGED <<ses, con, jobs, asked, tickGen, ticks, upd>>

-----------------------------------------------------------------------------

JobStep == \E s \in Session : CommandEnds(s) \/ NextCommand(s) \/ CommandFails(s)
TickStep == (\E g \in ticks : Tick(g)) \/ (upd # None /\ Rearm(upd))

Next ==
  \/ JobStep \/ TickStep \/ Output \/ Counted
  \/ \E n \in 0..MaxSeq : View(n)
  \/ \E s \in Session : AskConsole(s)
  \/ \E i \in 1..Len(asked) : asked[i] # None /\ Ready(i)
  \/ CloseConsole \/ LeaveJob \/ KillJob \/ NextJob \/ ShowJob
  \/ \E s \in Session, n \in 1..Steps, follow \in BOOLEAN : StartJob(s, n, follow)

Spec == Init /\ [][Next]_paneVars /\ WF_paneVars(TickStep)

-----------------------------------------------------------------------------
(* Properties.                                                             *)

\* The values the fields may take; the list is bounded but for what runs in it.
TypeOK ==
  /\ con \in Session \cup {None} /\ Listed \subseteq Session /\ tickGen \in 0..MaxTick /\ upd \in ticks \cup 0..MaxTick \cup {None}
  /\ \A s \in Session : ses[s].st \in {"none", "running", "ok", "failed", "closed"} /\ ses[s].left \in 0..Steps
  /\ IsInjective(jobs)

\* While a pane is shown the newest chain is there, and once: its tick is under way
\* or between its two halves (newTick, conTickMsg).
OneChain == con # None => (tickGen \in ticks /\ upd # tickGen) \/ (tickGen \notin ticks /\ upd = tickGen)

\* "a tick from an older chain is not re-armed, so exactly one survives": whatever
\* is begun or begun again is of the newest chain, so that one that was retired ends
\* at its next tick and chains never multiply.
RetiredEnds == [][ticks' \ ticks \subseteq {tickGen'}]_paneVars

\* A console that nobody sees is closed: no VNC or ssh session stays behind a
\* pane that was replaced, or one that came too late (consoleReady).
NoHiddenSession == \A s \in Session : (ses[s].kind = "console" /\ Alive(s)) => con = s

\* A job that runs can always be gone back to, however many were started.
RunningIsListed == \A s \in Session : (IsJob(s) /\ Alive(s) /\ ~ses[s].follow) => s \in Listed

\* A picture is served from the cache only while all that was counted is in it,
\* whichever of the reader and the drawing is ahead.
CacheIsCurrent == (con # None /\ cache.of = con /\ cache.at = ses[con].seq) => cache.made >= ses[con].seq

=============================================================================
