-------------------------------- MODULE Demo ---------------------------------
(***************************************************************************)
(* The job of "Deploy the demo estate" (fcdemo.go, gui.go's openFCDemo):    *)
(* one kfire clone per golden, all at once, each followed by a wait for the *)
(* addresses of what it made and by the windows that open on it.  The       *)
(* addresses come through the cache of microVMs (firecracker.go), that one  *)
(* reader at a time fills, which everybody may declare old and which is     *)
(* young again whenever a read of it ends.  The window's own loop reads it  *)
(* too, and somebody may destroy all microVMs meanwhile.                    *)
(*                                                                         *)
(* The goldens are there and nobody else clones them, or the job would take *)
(* the others' microVMs for its own (newInstancesOf).                       *)
(***************************************************************************)
EXTENDS Naturals, FiniteSets

CONSTANTS
  Lane,     \* the lanes, by their golden
  Count,    \* demoCount: how many of each
  Follow,   \* what opens on them, or a choice to be tried: "wall", "rdp", "browser"
  MaxTry,   \* bound: seconds a lane waits
  MaxFault  \* bound: clones and reads that fail, and Destroy alls

DemoAssumption ==
  /\ Count \in [Lane -> Nat \ {0}] /\ Follow \in [Lane -> SUBSET {"wall", "rdp", "browser"}]
  /\ MaxTry \in Nat \ {0} /\ MaxFault \in Nat

Machine == UNION {{l} \X (1..Count[l]) : l \in Lane}
Of(l, set) == {m \in set : m[1] = l}

VARIABLES
  up, addressed,  \* the microVMs there are, and those kfire list gives an address
  fc,             \* fcCached, and whether fcAt is young
  slow,           \* fcSlowMu: whether kfire is read, and what it has read
  live,           \* the context of the window's job
  lane,           \* the goroutines of RunDemoLanes
  everything, notes, errs,  \* what they leave: microVMs, notes, errors
  opened,         \* the microVMs a window came up for
  summary,        \* whether the job has returned
  demoFaults,
  good            \* history: readings of a lane since all its microVMs have addresses

hostVars == <<up, addressed>>
jobVars  == <<everything, notes, errs, opened>>
demoVars == <<hostVars, fc, slow, live, lane, jobVars, summary, demoFaults, good>>

First == [pc |-> "clone", made |-> 0, tries |-> 0, fresh |-> {}]
Free  == [busy |-> FALSE, got |-> {}]

Init ==
  /\ up = {} /\ addressed = {}
  /\ fc = [got |-> {}, young |-> FALSE] /\ slow = Free
  /\ live = TRUE /\ lane = [l \in Lane |-> First]
  /\ everything = {} /\ notes = {} /\ errs = {} /\ opened = {} /\ summary = FALSE
  /\ demoFaults = 0 /\ good = [l \in Lane |-> 0]

-----------------------------------------------------------------------------
(* The host and the cache.                                                 *)

\* A microVM enrols and has its address.
Addressed(m) ==
  /\ m \in up \ addressed
  /\ addressed' = addressed \cup {m}
  /\ UNCHANGED <<up, fc, slow, live, lane, jobVars, summary, demoFaults, good>>

\* Destroy all microVMs, the window's, which declares the cache old, or another.
DestroyAll ==
  /\ up # {} /\ demoFaults < MaxFault /\ demoFaults' = demoFaults + 1
  /\ up' = {} /\ addressed' = {} /\ good' = [l \in Lane |-> 0]
  /\ fc' \in {fc, [fc EXCEPT !.young = FALSE]}
  /\ UNCHANGED <<slow, live, lane, jobVars, summary>>

\* fcRefresh, by a lane or the loop: fcSlowMu is held while kfire runs and fcMu
\* is not, so that the end of a read undoes a fcInvalidate in the middle of it.
Begin ==
  /\ ~slow.busy /\ ~fc.young
  /\ slow' = [busy |-> TRUE, got |-> addressed]
  /\ UNCHANGED <<hostVars, fc, live, lane, jobVars, summary, demoFaults, good>>

\* A read that fails leaves no microVM in the cache, and a young one.
Store ==
  /\ slow.busy /\ slow' = Free
  /\ \/ fc' = [got |-> slow.got, young |-> TRUE] /\ UNCHANGED <<demoFaults, good>>
     \/ /\ demoFaults < MaxFault /\ demoFaults' = demoFaults + 1
        /\ fc' = [got |-> {}, young |-> TRUE] /\ good' = [l \in Lane |-> 0]
  /\ UNCHANGED <<hostVars, live, lane, jobVars, summary>>

\* Ten seconds.
Ages ==
  /\ fc.young /\ fc' = [fc EXCEPT !.young = FALSE]
  /\ UNCHANGED <<hostVars, slow, live, lane, jobVars, summary, demoFaults, good>>

-----------------------------------------------------------------------------
(* The lanes.                                                              *)

Goes(l, to) == lane' = [lane EXCEPT ![l].pc = to]

\* The Cancel button, or the window's X: the context of the clones.
Cancel ==
  /\ live /\ ~summary /\ live' = FALSE
  /\ UNCHANGED <<hostVars, fc, slow, lane, jobVars, summary, demoFaults, good>>

\* kfire clone -n --wait makes one after the other.  When it is killed the sudo
\* above it dies, and it may well go on.
Cloned(l) ==
  /\ lane[l].pc = "clone" /\ lane[l].made < Count[l]
  /\ lane' = [lane EXCEPT ![l].made = @ + 1]
  /\ up' = up \cup {<<l, lane[l].made + 1>>}
  /\ UNCHANGED <<addressed, fc, slow, live, jobVars, summary, demoFaults, good>>

CloneEnds(l) ==
  /\ lane[l].pc = "clone" /\ lane[l].made = Count[l] /\ live
  /\ Goes(l, "old")
  /\ UNCHANGED <<hostVars, fc, slow, live, jobVars, summary, demoFaults, good>>

\* The clone fails, or was cancelled: its error, whatever it has made.
CloneFails(l) ==
  /\ lane[l].pc = "clone"
  /\ IF live THEN demoFaults < MaxFault /\ demoFaults' = demoFaults + 1 ELSE UNCHANGED demoFaults
  /\ errs' = errs \cup {l} /\ lane' = [lane EXCEPT ![l] = [First EXCEPT !.pc = "done"]]
  /\ UNCHANGED <<hostVars, fc, slow, live, everything, notes, opened, summary, good>>

\* Mutant: the cache is declared old after the clone only.
InvalidateOnce(l) ==
  /\ lane[l].pc = "old" /\ Goes(l, "ask")
  /\ fc' = [fc EXCEPT !.young = @ /\ lane[l].tries > 0]
  /\ UNCHANGED <<hostVars, slow, live, jobVars, summary, demoFaults, good>>

\* fcInvalidate, after the clone and after every second of waiting.
Invalidate(l) ==
  /\ lane[l].pc = "old" /\ Goes(l, "ask")
  /\ fc' = [fc EXCEPT !.young = FALSE]
  /\ UNCHANGED <<hostVars, slow, live, jobVars, summary, demoFaults, good>>

\* fcRowsCached: goes on when the cache is young and nobody reads.
Ask(l) ==
  /\ lane[l].pc = "ask" /\ ~slow.busy /\ fc.young /\ Goes(l, "judge")
  /\ UNCHANGED <<hostVars, fc, slow, live, jobVars, summary, demoFaults, good>>

\* DemoFreshWithAddresses, once around: as many as wanted, or the deadline.
Judge(l) ==
  LET fresh == Of(l, fc.got) IN
  /\ lane[l].pc = "judge"
  /\ \/ /\ fresh = Of(l, Machine) \/ lane[l].tries > 0
        /\ lane' = [lane EXCEPT ![l].pc = "land", ![l].fresh = fresh]
     \/ /\ fresh # Of(l, Machine) /\ lane[l].tries < MaxTry
        /\ lane' = [lane EXCEPT ![l].pc = "old", ![l].tries = @ + 1]
  /\ good' = [good EXCEPT ![l] = IF Of(l, Machine) \subseteq addressed THEN @ + 1 ELSE 0]
  /\ UNCHANGED <<hostVars, fc, slow, live, jobVars, summary, demoFaults>>

Told(l, bad) == notes' = IF bad \/ Cardinality(lane[l].fresh) < Count[l] THEN notes \cup {l} ELSE notes

\* The wall: a page of the desktops that stream by then, and no word of the others.
Wall(l) == Told(l, FALSE) /\ UNCHANGED opened

\* OpenRDPSeats: a client per address until one cannot be started, which is told
\* at once; those that are gone 2.5 s later are told of; the rest is tiled, or not.
Seats(l) ==
  \E started \in SUBSET lane[l].fresh, tiled \in BOOLEAN : \E dead \in SUBSET started :
    /\ opened' = opened \cup (started \ dead)
    /\ Told(l, started # lane[l].fresh \/ dead # {} \/ ~tiled)

\* One Firefox with every address, if it starts.
Tabs(l) == \E ok \in BOOLEAN : opened' = (IF ok THEN opened \cup lane[l].fresh ELSE opened) /\ Told(l, ~ok)

\* openDemoSurface, of one microVM or more.
Surface(l) ==
  IF lane[l].fresh = {} THEN Told(l, TRUE) /\ UNCHANGED opened
  ELSE \/ "wall" \in Follow[l] /\ Wall(l)
       \/ "rdp" \in Follow[l] /\ Seats(l)
       \/ "browser" \in Follow[l] /\ Tabs(l)

\* The lane's microVMs are counted, noted when fewer, and shown.
Land(l) ==
  /\ lane[l].pc = "land"
  /\ lane' = [lane EXCEPT ![l] = [First EXCEPT !.pc = "done"]]
  /\ everything' = everything \cup lane[l].fresh
  /\ Surface(l)
  /\ good' = [good EXCEPT ![l] = 0]
  /\ UNCHANGED <<hostVars, fc, slow, live, errs, summary, demoFaults>>

\* wg.Wait, then the summary.
Summary ==
  /\ ~summary /\ summary' = TRUE /\ \A l \in Lane : lane[l].pc = "done"
  /\ UNCHANGED <<hostVars, fc, slow, live, lane, jobVars, demoFaults, good>>

-----------------------------------------------------------------------------
LaneStep(l) ==
  Cloned(l) \/ CloneEnds(l) \/ CloneFails(l) \/ Invalidate(l) \/ Ask(l) \/ Judge(l) \/ Land(l)

Next ==
  \/ \E m \in Machine : Addressed(m)
  \/ DestroyAll \/ Begin \/ Store \/ Ages \/ Cancel \/ Summary
  \/ \E l \in Lane : LaneStep(l)

Spec == Init /\ [][Next]_demoVars

-----------------------------------------------------------------------------
(* Properties.                                                             *)

\* What a lane waits for it sees: however many readers share the cache and
\* declare it old in the middle of a read, at most two readings of a lane after
\* all its microVMs have addresses miss one (DemoFreshWithAddresses, fcRefresh).
AddressedIsSeen == \A l \in Lane : lane[l].pc = "old" => good[l] <= 2

\* When the job returns every lane is told of: it failed, or all that was asked
\* for is listed and has a window that stayed, the wall's aside, or a note says
\* that it is not so (RunDemoLanes, OpenRDPSeats).
LanesTold ==
  summary => \A l \in Lane : l \in errs \/ l \in notes \/
               /\ Of(l, everything) = Of(l, Machine)
               /\ "wall" \in Follow[l] \/ Of(l, Machine) \subseteq opened
=============================================================================
