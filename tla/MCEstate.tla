------------------------------ MODULE MCEstate ------------------------------
(***************************************************************************)
(* The two readers of the estate for TLC, --reconcile and the window, the  *)
(* resize of a disk, the deployment of microVMs through the window's cache *)
(* and the window it runs in, each on a host of its own: side names the    *)
(* one.                                                                    *)
(***************************************************************************)
EXTENDS DiskResize, Sequences, TLC

CONSTANTS
  a, b, l1, l2,
  Names, MicroVMs,                        \* Reconcile and EstateView
  Handles, Kinds, Readers, LvOf, Starting, MaxChange, MaxRestart, MaxCommand, \* Reconcile
  Lanes, Count, Follow, MaxTry, MaxMiss,  \* Demo
  AutoClose, MaxWin, MaxRun, MaxLine      \* BatchWindow

\* Two seats, and one microVM with a page or a desktop.
MCCount  == l1 :> 2 @@ l2 :> 1
MCFollow == l1 :> {"rdp"} @@ l2 :> {"browser", "wall"}

MCReader == {"rec", "tick", "now"}
MCLvOf   == [r \in MCReader |-> "lv"]
MCAny    == [{a, b} -> {"none", "shut off", "running"}]

VARIABLES
  side,
  mach, vols, reg, libvirtd, alive, rd, changes, restarts,
  pc, pass, orphansToo, pool, todo, failed, code, named, gone, left, blind, recFaults,
  st, zfs, queue, shown, status, fc, kfire,
  vmsUp, addressed, cached, slow, live, lane, everything, notes, errs, opened, summary, demoFaults, good,
  batchOpen, win, log, job

\* --reconcile: in the run a machine and a microVM of two disks each.
Rec == INSTANCE Reconcile WITH
  Name <- Names, MicroVM <- MicroVMs, Handle <- Handles, Kind <- Kinds, Starts <- Starting,
  Reader <- Readers, MaxFault <- MaxCommand, faults <- recFaults

\* The window: machines and microVMs that run, of one disk each.
View == INSTANCE EstateView WITH
  Name <- Names, MicroVM <- MicroVMs, Handle <- {"lv"}, Kind <- {"root"}, Starts <- {[n \in Names |-> "running"]},
  MaxChange <- 1, MaxRestart <- 1, MaxQueue <- 1,
  Reader <- {"tick", "now"}, LvOf <- [r \in {"tick", "now"} |-> "lv"]

Dem == INSTANCE Demo WITH
  Lane <- Lanes, MaxFault <- MaxMiss, up <- vmsUp, fc <- cached
Bat == INSTANCE BatchWindow

ASSUME HostAssumption ==
  DiskResizeAssumption /\ Rec!EstateAssumption /\ Rec!ReconcileAssumption /\ View!EstateViewAssumption
ASSUME WindowAssumption == Dem!DemoAssumption /\ Bat!BatchWindowAssumption

viewVars  == <<st, zfs, queue, shown, status, fc, kfire>>
clearVars == <<pc, pass, orphansToo, pool, todo, failed, code, named, gone, left, blind, recFaults>>
shared    == <<mach, vols, reg, libvirtd, alive, rd, changes, restarts>>
demoVars  == <<vmsUp, addressed, cached, slow, live, lane, everything, notes, errs, opened, summary, demoFaults, good>>
batchVars == <<batchOpen, win, log, job>>
all == <<side, vars, shared, viewVars, clearVars, demoVars, batchVars>>

\* What does not move begins in one state only.
ViewRests ==
  /\ st = View!NoPool /\ zfs = [pc |-> "ann", got |-> View!NoPool] /\ queue = <<>> /\ shown = {}
  /\ status = "" /\ fc = [got |-> View!NoFC, young |-> FALSE]
  /\ kfire = [pc |-> "idle", got |-> View!NoFC]

ClearRests ==
  /\ pc = "estate" /\ pass = 1 /\ orphansToo = FALSE /\ pool = {} /\ todo = {} /\ failed = FALSE
  /\ code = None /\ named = {} /\ gone = [vols |-> {}, names |-> {}, missed |-> {}] /\ left = {}
  /\ blind = FALSE /\ recFaults = 0

EstateMCInit ==
  /\ Init /\ Dem!Init /\ Bat!Init
  /\ \/ side = "reconcile" /\ Rec!Init /\ ViewRests
     \/ side = "view" /\ View!Init /\ ClearRests
     \/ side \in {"resize", "deploy", "batch"} /\ View!Init /\ ViewRests /\ ClearRests

EstateMCNext ==
  \/ side = "reconcile" /\ Rec!Next /\ UNCHANGED <<side, vars, viewVars, demoVars, batchVars>>
  \/ side = "view" /\ View!Next /\ UNCHANGED <<side, vars, clearVars, demoVars, batchVars>>
  \/ side = "resize" /\ Next /\ UNCHANGED <<side, shared, viewVars, clearVars, demoVars, batchVars>>
  \/ side = "deploy" /\ Dem!Next /\ UNCHANGED <<side, vars, shared, viewVars, clearVars, batchVars>>
  \/ side = "batch" /\ Bat!Next /\ UNCHANGED <<side, vars, shared, viewVars, clearVars, demoVars>>

\* The fairness EstateView states; --reconcile owes nothing.
viewAll == <<shared, viewVars>>

EstateMCSpec ==
  /\ EstateMCInit /\ [][EstateMCNext]_all
  /\ SF_viewAll(side = "view" /\ View!Tick) /\ SF_viewAll(side = "view" /\ View!SlowTick)
  /\ \A r \in {"tick", "now"} :
       /\ WF_viewAll(side = "view" /\ View!Reading(r))
       /\ WF_viewAll(side = "view" /\ View!Fetched(r))
       /\ WF_viewAll(side = "view" /\ View!FetchFailed(r))
  /\ WF_viewAll(side = "view" /\ View!FetchAnn)
  /\ WF_viewAll(side = "view" /\ View!FetchPool)
  /\ WF_viewAll(side = "view" /\ View!Kfire)
  /\ WF_viewAll(side = "view" /\ View!KfireStored)
  /\ WF_viewAll(side = "view" /\ View!Ages)
  /\ WF_viewAll(side = "view" /\ View!Window)
  /\ WF_viewAll(side = "view" /\ View!Up /\ UNCHANGED viewVars)

-----------------------------------------------------------------------------
(* Properties: LayersInOrder of DiskResize itself, and of the others:      *)

\* No disk that a definition names and no machine that is there is taken away, and
\* exit 0 means that nothing was left to clear (runReconcile).
ReconcileIsTrue == side = "reconcile" => Rec!ClearsNoKnownMachine /\ Rec!ExitZeroMeansClear

\* Every lane of the demo sees the addresses it waits for and is told of in the end
\* (DemoFreshWithAddresses, RunDemoLanes); a window with no job lets itself be closed
\* and has shown every line (batchLogWindow).
BatchIsTold ==
  /\ side = "deploy" => Dem!AddressedIsSeen /\ Dem!LanesTold
  /\ side = "batch" => Bat!BusyIsTrue /\ Bat!SummaryShown

\* The rows come to be those of the host, and stay so once it is left alone
\* (fetchEstate, fetchZFS, fcRefresh and apply).
ShowsTheTruth == side = "view" => View!ShowsTheTruth
=============================================================================
