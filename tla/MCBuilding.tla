----------------------------- MODULE MCBuilding -----------------------------
(***************************************************************************)
(* The making of machines for TLC: builds, the build of a whole catalogue, *)
(* fleets, the recipes of the tiles, and the enrolment of what was built.  *)
(* They share no variable in the model, so that one run checks them side   *)
(* by side: part names the one that moves, the others stay as they began.  *)
(***************************************************************************)
EXTENDS Enroll, Sequences, SequencesExt, TLC

CONSTANTS
  g1, g2, g3, m1, m2, t1, t2, t3,
  Job, Name, Old,     \* Build
  Builders, MaxBuildFault,
  Tiles, Workers, KeepRunning,  \* BuildAll
  Tools, Count, MaxPoll,        \* Fleet
  MaxTimes, MaxOther  \* bounds: runs of a catalogue or a recipe; faults outside builds and enrolments

\* Of three guests two share a mesh; a catalogue of three tiles.
MCMeshOf == g1 :> m1 @@ g2 :> m2 @@ g3 :> m2
MCTiles  == <<t1, t2, t3>>

VARIABLES
  part,
  job, imageMu, image, owner, dom, buildFaults,
  vm, tile, queue, run, ctx, count, bar, shown, gone, destroy, runs, tileFaults,
  spec, mach, fleet, watch, warned, fleetFaults,
  recipe, family, purpose, pc, attempts, zfs, disk, pool, made, below, inside, bare, services, failed, result, host,
  plain, recipeFaults

Bld == INSTANCE Build WITH
  Proc <- Builders, Torn <- FALSE, Clash <- FALSE, MaxFault <- MaxBuildFault,
  mu <- imageMu, faults <- buildFaults

All == INSTANCE BuildAll WITH
  Jobs <- Workers, Together <- FALSE, MaxRun <- MaxTimes, MaxFault <- MaxOther, faults <- tileFaults

Flt == INSTANCE Fleet WITH MaxFault <- MaxOther, faults <- fleetFaults

App == INSTANCE Appliance WITH
  Tile <- {"webStack", "lampStack", "jellyfin", "plex", "adguardHome", "syncthing", "seedbox", "icecast",
           "sdrStation", "tvheadend", "vdiDesktop", "rdpDesktop"},
  Family <- {"rpm", "deb"}, MaxRun <- MaxTimes, MaxFault <- MaxOther, tile <- recipe, runs <- attempts, faults <- recipeFaults

ASSUME BuildingAssumption ==
  Bld!BuildAssumption /\ All!BuildAllAssumption /\ Flt!FleetAssumption /\ App!ApplianceAssumption

buildVars == <<job, imageMu, image, owner, dom, buildFaults>>
tileVars  == <<vm, tile, queue, run, ctx, count, bar, shown, gone, destroy, runs, tileFaults>>
fleetVars == <<spec, mach, fleet, watch, warned, fleetFaults>>
recipeVars == <<recipe, family, purpose, pc, attempts, zfs, disk, pool, made, below, inside, bare, services, failed,
                result, host, plain, recipeFaults>>
all == <<part, enrollVars, buildVars, tileVars, fleetVars, recipeVars>>

\* What does not move begins in one state only.
Resting ==
  /\ part # "enroll" => open
  /\ part # "build"  => \A n \in Name : dom[n].st = "none" /\ owner[n]["seed"] = None
  /\ \A t \in DOMAIN vm : vm[t].st # "none" => part = "tiles" /\ t = t2
  /\ part # "fleet"  => spec = [way |-> "none", parts |-> {}]
  /\ part # "recipe" => recipe = "plex" /\ family = "deb" /\ purpose = "one" /\ disk = "none"

BuildingInit ==
  /\ part \in {"enroll", "build", "tiles", "fleet", "recipe"}
  /\ Init /\ Bld!Init /\ All!Init /\ Flt!Init /\ App!Init
  /\ Resting

BuildingNext ==
  \/ part = "enroll" /\ Next     /\ UNCHANGED <<part, buildVars, tileVars, fleetVars, recipeVars>>
  \/ part = "build"  /\ Bld!Next /\ UNCHANGED <<part, enrollVars, tileVars, fleetVars, recipeVars>>
  \/ part = "tiles"  /\ All!Next /\ UNCHANGED <<part, enrollVars, buildVars, fleetVars, recipeVars>>
  \/ part = "fleet"  /\ Flt!Next /\ UNCHANGED <<part, enrollVars, buildVars, tileVars, recipeVars>>
  \/ part = "recipe" /\ App!Next /\ UNCHANGED <<part, enrollVars, buildVars, tileVars, fleetVars>>

BuildingSpec == BuildingInit /\ [][BuildingNext]_all

-----------------------------------------------------------------------------
(* Properties: MutualExclusion of Enroll itself, and those of the parts.   *)

\* No subnet and no serial is given twice (allocMeshSubnet, kldload-ca issue).
HandedOutOnce == part = "enroll" => TypeOK /\ OwnSubnet /\ SerialOnce

\* Whoever waits, for the gate of the host, the cache of images or a worker,
\* waits for one that can go on (enrollHostLock, imageFetchMu, the feeder of
\* BuildAllAppliances).
NothingStuck ==
  /\ part = "enroll" => GateNeverStuck
  /\ part = "build"  => Bld!BuildsNeverStuck
  /\ part = "tiles"  => All!RunNeverStuck

\* A build makes all or nothing and takes nothing that was there before
\* (BuildNewVM and its rollback).
BuildIsAllOrNothing == Bld!BuildIsAllOrNothing /\ Bld!OldKept

\* What boots is an image VerifyImage has passed, or what a fetch left that failed,
\* never one under way (imageFetchMu); the sums of a run are those of its tiles,
\* built means that the recipe says so and serves, and cancelled that the VM is gone
\* (BuildAllAppliances, recipeVerdict).
BuiltIsVerified ==
  /\ part = "build"  => Bld!TypeOK /\ Bld!ImagesSettled
  /\ part = "tiles"  => All!TypeOK /\ All!Accounted /\ All!BuiltIsVerified /\ All!CancelledIsGone
  /\ part = "recipe" => App!BuiltIsServing

\* However often a recipe dies or loses power and is run again, with the disk it lacked
\* or without, a dataset hides what a service kept in its directory only where a run
\* without a pool had let the service begin there (the order of the recipes' steps).
DataInside == part = "recipe" => App!DataInside

\* Destroy-all leaves nothing of what its dialog showed, nothing starts in a
\* cancelled run, and the bar of one or two workers does not go back.
DestroyedIsGone == All!DestroyedIsGone /\ All!NothingStartsCancelled /\ All!BarNeverBack

\* There is a way into every machine cloud-init has been through, and a script
\* of the operator's own has run there unless the desktop could not be armed (userData); clones answer to their own
\* names and share no machine-id behind the operator's back (ReseedClone); a
\* desktop comes up when its packages are whole, a failed one leaves a server,
\* and when nothing failed the whole fleet runs (desktopPostInstall, buildFleet).
FleetIsSound ==
  part = "fleet" =>
    /\ Flt!TypeOK /\ Flt!WayInKept /\ Flt!OperatorRan
    /\ Flt!OwnIdentity /\ Flt!SharedIdIsTold
    /\ Flt!DesktopComes /\ Flt!FailedStaysServer /\ Flt!WholeFleetRuns
=============================================================================
