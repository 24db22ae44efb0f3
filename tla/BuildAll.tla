------------------------------ MODULE BuildAll ------------------------------
(***************************************************************************)
(* Build all and destroy all (selftest.go, and waitAppliance of            *)
(* appliances.go): a pool of workers pulls the tiles that have no VM from  *)
(* one queue, builds each, waits until it answers, asks its recipe for the *)
(* verdict, enrols it, trims it and shuts it off.  The operator may cancel *)
(* and run it again, and destroy every VM it made.                         *)
(*                                                                         *)
(* BuildNewVM is what AllOrNothing promises of it, EnrollAppliance a step  *)
(* that ends (Enroll) and never fails a tile.  The guest is external: its  *)
(* recipe runs on its own time and its port may answer before that.        *)
(***************************************************************************)
EXTENDS Integers, Sequences, FiniteSets, SequencesExt

CONSTANTS
  Tiles,       \* the catalogue, a sequence of tiles
  Jobs,        \* VMX_BUILD_JOBS
  KeepRunning, \* VMX_BUILD_KEEP_RUNNING
  Together,    \* the dialog of destroy-all is open while a build-all runs
  MaxRun,      \* bound: build-alls
  MaxFault     \* bound: builds and shutdowns that fail

BuildAllAssumption ==
  /\ Tiles \in Seq(ToSet(Tiles)) /\ IsInjective(Tiles)
  /\ Jobs \in Nat \ {0} /\ KeepRunning \in BOOLEAN /\ Together \in BOOLEAN
  /\ MaxRun \in Nat /\ MaxFault \in Nat

VARIABLES
  vm,     \* vm[t]: the tile's VM
  tile,   \* tile[t]: where the worker is that builds it, or what came of it
  queue,  \* tiles still to be handed to a worker, which it does in the catalogue's order
  run,    \* "idle", or "on" until all workers have ended
  ctx,    \* the run was cancelled
  count,  \* started, finished, built, failed, cancelled, and the todo list's length
  bar,    \* what the progress bar was last told
  shown,  \* the VMs in the dialog of destroy-all
  gone,   \* the VMs it destroyed, of this dialog
  destroy,\* "idle", "ask", "on"
  runs, faults

vars == <<vm, tile, queue, run, ctx, count, bar, shown, gone, destroy, runs, faults>>
runVars == <<queue, run, ctx, count, bar, runs>>
destroyVars == <<shown, gone, destroy>>

Tile == ToSet(Tiles)

NoVM == [st |-> "none", answers |-> FALSE, recipe |-> "none"]
FreshVM == [st |-> "on", answers |-> FALSE, recipe |-> "runs"]
Zero == [started |-> 0, finished |-> 0, built |-> 0, failed |-> 0, cancelled |-> 0, todo |-> 0]

Working == {"taken", "build", "wait", "verdict", "enrol", "off"}
Outcome == {"built", "failed", "cancelled"}

\* A catalogue none of which is built, or one a former run built.
Init ==
  /\ \E old \in SUBSET Tile :
       vm = [t \in Tile |-> IF t \in old THEN [st |-> "off", answers |-> FALSE, recipe |-> "ok"] ELSE NoVM]
  /\ tile = [t \in Tile |-> "idle"]
  /\ queue = {}
  /\ run = "idle"
  /\ ctx = FALSE
  /\ count = Zero
  /\ bar = 0
  /\ shown = {} /\ gone = {} /\ destroy = "idle"
  /\ runs = 0
  /\ faults = 0

-----------------------------------------------------------------------------

Fault   == faults < MaxFault /\ faults' = faults + 1
NoFault == UNCHANGED faults

Exists == {t \in Tile : vm[t].st # "none"}

Go(t, pc) == tile' = [tile EXCEPT ![t] = pc]

\* What has no domain.
Todo == Tile \ Exists

\* BuildAllAppliances, as far as the workers.
StartRun ==
  /\ run = "idle" /\ runs < MaxRun
  /\ Together \/ destroy = "idle"
  /\ runs' = runs + 1
  /\ queue' = Todo
  /\ run' = IF Todo = {} THEN "idle" ELSE "on"
  /\ ctx' = FALSE
  /\ count' = [Zero EXCEPT !.todo = Cardinality(Todo)]
  /\ bar' = 0
  /\ tile' = [t \in Tile |-> "idle"]
  /\ UNCHANGED <<vm, destroyVars, faults>>

Cancel ==
  /\ run = "on" /\ ~ctx
  /\ ctx' = TRUE
  /\ UNCHANGED <<vm, tile, queue, run, count, bar, destroyVars, runs, faults>>

\* A worker that is free takes what comes next in the catalogue.
Take ==
  /\ Cardinality({t \in Tile : tile[t] \in Working}) < Jobs
  /\ \E i \in DOMAIN Tiles :
       /\ Tiles[i] \in queue /\ \A k \in DOMAIN Tiles : Tiles[k] \in queue => i <= k
       /\ queue' = queue \ {Tiles[i]}
       /\ Go(Tiles[i], "taken")
  /\ UNCHANGED <<vm, run, ctx, count, bar, destroyVars, runs, faults>>

\* The tile's result, under the pool's mutex.
Finish(t, res) ==
  /\ Go(t, res)
  /\ count' = [count EXCEPT !.finished = @ + 1, ![res] = @ + 1]
  /\ bar' = count'.finished

\* work: a cancelled run starts nothing more.  The event of a start says how
\* many were started before it.
StartTile(t) ==
  /\ tile[t] = "taken"
  /\ IF ctx
     THEN /\ Go(t, "cancelled")
          /\ count' = [count EXCEPT !.cancelled = @ + 1]
          /\ UNCHANGED bar
     ELSE /\ Go(t, "build")
          /\ count' = [count EXCEPT !.started = @ + 1]
          /\ bar' = count.started
  /\ UNCHANGED <<vm, queue, run, ctx, destroyVars, runs, faults>>

\* buildOneAppliance: BuildNewVM refuses a name that is there and unwinds what
\* it could not finish.  It does not look at the context.
BuildTile(t) ==
  /\ tile[t] = "build"
  /\ \/ /\ vm[t].st = "none"
        /\ vm' = [vm EXCEPT ![t] = FreshVM]
        /\ Go(t, "wait") /\ NoFault /\ UNCHANGED <<count, bar>>
     \/ vm[t].st # "none" /\ Finish(t, "failed") /\ NoFault /\ UNCHANGED vm
     \/ Finish(t, "failed") /\ Fault /\ UNCHANGED vm
  /\ UNCHANGED <<queue, run, ctx, destroyVars, runs>>

\* waitAppliance: a port that answers is looked at before the context is; a
\* cancelled tile is destroyed with its disks, one that took too long is left.
Wait(t) ==
  /\ tile[t] = "wait"
  /\ \/ vm[t].answers /\ Go(t, "verdict") /\ UNCHANGED <<vm, count, bar>>
     \/ /\ ~vm[t].answers /\ ctx
        /\ vm' = [vm EXCEPT ![t] = NoVM]
        /\ Finish(t, "cancelled")
     \/ ~vm[t].answers /\ Finish(t, "failed") /\ UNCHANGED vm
  /\ UNCHANGED <<queue, run, ctx, destroyVars, runs, faults>>

\* Mutant: a recipe that has not said anything by then is taken for done.
VerdictSilentIsDone(t) ==
  /\ tile[t] = "verdict"
  /\ IF vm[t].recipe # "bad" THEN Go(t, "enrol") /\ UNCHANGED <<count, bar>> ELSE Finish(t, "failed")
  /\ UNCHANGED <<vm, queue, run, ctx, destroyVars, runs, faults>>

\* recipeVerdict, three minutes from the port on.
Verdict(t) ==
  /\ tile[t] = "verdict"
  /\ \/ vm[t].recipe = "ok" /\ Go(t, "enrol") /\ UNCHANGED <<count, bar>>
     \/ vm[t].recipe # "ok" /\ Finish(t, "failed")
  /\ UNCHANGED <<vm, queue, run, ctx, destroyVars, runs, faults>>

\* EnrollAppliance and shrinkToCatalog degrade to a line in the log.
EnrolTile(t) ==
  /\ tile[t] = "enrol"
  /\ IF KeepRunning THEN Finish(t, "built") ELSE Go(t, "off") /\ UNCHANGED <<count, bar>>
  /\ UNCHANGED <<vm, queue, run, ctx, destroyVars, runs, faults>>

\* powerOff: asked, and after two minutes forced.  A refusal is logged.
PowerOff(t) ==
  /\ tile[t] = "off"
  /\ \/ vm' = [vm EXCEPT ![t] = IF @.st = "none" THEN @ ELSE [@ EXCEPT !.st = "off", !.answers = FALSE]]
        /\ NoFault
     \/ UNCHANGED vm /\ Fault
  /\ Finish(t, "built")
  /\ UNCHANGED <<queue, run, ctx, destroyVars, runs>>

\* wg.Wait, and the summary.
EndRun ==
  /\ run = "on" /\ queue = {}
  /\ \A t \in Tile : tile[t] \notin Working
  /\ run' = "idle"
  /\ UNCHANGED <<vm, tile, queue, ctx, count, bar, destroyVars, runs, faults>>

-----------------------------------------------------------------------------
(* The guest.                                                              *)

Answers(t) ==
  /\ vm[t].st = "on" /\ ~vm[t].answers
  /\ vm' = [vm EXCEPT ![t].answers = TRUE]
  /\ UNCHANGED <<tile, runVars, destroyVars, faults>>

RecipeEnds(t) ==
  /\ vm[t].st = "on" /\ vm[t].recipe = "runs"
  /\ \E r \in {"ok", "bad"} : vm' = [vm EXCEPT ![t].recipe = r]
  /\ UNCHANGED <<tile, runVars, destroyVars, faults>>

-----------------------------------------------------------------------------
(* Destroy all: openDestroyAll and DestroyAllAppliances.                   *)

Ask ==
  /\ destroy = "idle" /\ Exists # {}
  /\ Together \/ run = "idle"
  /\ shown' = Exists /\ gone' = {}
  /\ destroy' = "ask"
  /\ UNCHANGED <<vm, tile, runVars, faults>>

Decline ==
  /\ destroy = "ask"
  /\ destroy' = "idle" /\ shown' = {}
  /\ UNCHANGED <<vm, tile, runVars, gone, faults>>

\* The list is made again, and acted on.
Confirm ==
  /\ destroy = "ask"
  /\ gone' = Exists
  /\ destroy' = "on"
  /\ UNCHANGED <<vm, tile, runVars, shown, faults>>

\* Mutant: those whose recipe has ended are looked for.
DestroyFinished ==
  /\ destroy = "on"
  /\ vm' = [t \in Tile |-> IF t \in gone /\ vm[t].recipe = "ok" THEN NoVM ELSE vm[t]]
  /\ destroy' = "idle"
  /\ UNCHANGED <<tile, runVars, shown, gone, faults>>

\* destroyApplianceVM for each.
Destroy ==
  /\ destroy = "on"
  /\ vm' = [t \in Tile |-> IF t \in gone THEN NoVM ELSE vm[t]]
  /\ destroy' = "idle"
  /\ UNCHANGED <<tile, runVars, shown, gone, faults>>

-----------------------------------------------------------------------------

Step(t) ==
  StartTile(t) \/ BuildTile(t) \/ Wait(t) \/ Verdict(t) \/ EnrolTile(t) \/ PowerOff(t)

Next ==
  \/ StartRun \/ Cancel \/ Take \/ EndRun
  \/ \E t \in Tile : Step(t) \/ Answers(t) \/ RecipeEnds(t)
  \/ Ask \/ Decline \/ Confirm \/ Destroy

Spec == Init /\ [][Next]_vars /\ WF_vars(Take) /\ WF_vars(EndRun) /\ \A t \in Tile : WF_vars(Step(t))

-----------------------------------------------------------------------------
(* Properties.                                                             *)

TypeOK ==
  /\ vm \in [Tile -> [st : {"none", "on", "off"}, answers : BOOLEAN, recipe : {"none", "runs", "ok", "bad"}]]
  /\ tile \in [Tile -> {"idle"} \cup Working \cup Outcome]
  /\ queue \subseteq Tile /\ run \in {"idle", "on"} /\ ctx \in BOOLEAN
  /\ count.started <= count.todo /\ count.finished <= count.started
  /\ bar \in 0..count.todo
  /\ shown \subseteq Tile /\ gone \subseteq Tile /\ destroy \in {"idle", "ask", "on"}
  /\ runs \in 0..MaxRun /\ faults \in 0..MaxFault

\* Each tile of the list comes to one result, and the sums of the closing line
\* are those of the tiles, however many workers there were.
Accounted ==
  run = "idle" =>
    /\ count.built + count.failed + count.cancelled = count.todo
    /\ \A r \in Outcome : count[r] = Cardinality({t \in Tile : tile[t] = r})

\* A tile is reported as built when its recipe has said so, not when its port
\* has answered.
BuiltIsVerified ==
  \A t \in Tile : tile[t] = "built" => vm[t].recipe \in {"ok", "none"}

\* A tile that the operator cancelled leaves no VM, for the next run to take for
\* one that is there already.
CancelledIsGone ==
  \A t \in Tile : tile[t] = "cancelled" /\ run = "on" => vm[t].st = "none"

\* No tile begins once the run is cancelled, nor is the queue lost.
NothingStartsCancelled ==
  [][\A t \in Tile : ctx /\ tile'[t] = "build" => tile[t] = "build"]_vars

\* With one or two workers the progress bar does not go back.
BarNeverBack == [][run = "on" /\ run' = "on" /\ Jobs <= 2 => bar' >= bar]_vars

\* A run never comes to a stand, also the one that was cancelled while workers
\* were busy: some worker, the feeder or the closing line can go on.
RunNeverStuck == run = "on" => ENABLED (Take \/ EndRun \/ \E t \in Tile : Step(t))

\* ... and of that it leaves nothing, whatever state a VM is in.
DestroyedIsGone == [][destroy = "on" /\ destroy' = "idle" => \A t \in shown : vm'[t].st = "none"]_vars
=============================================================================
