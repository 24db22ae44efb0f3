------------------------------- MODULE Fleet -------------------------------
(***************************************************************************)
(* A fleet (fleet.go): one machine built, watched until its first boot is  *)
(* over, shut down, sealed and snapshotted (golden.go), then cloned; every *)
(* clone is given its own seed and console log (reseed.go) before it is    *)
(* started.  Beside it run the first boots of those machines: cloud-init   *)
(* on the seed that userData renders (newvm.go), the script it leaves to   *)
(* be run once, and the unit that finishes a desktop (desktop.go).         *)
(*                                                                         *)
(* Machine 0 is the golden, the others its clones.  cloud-init and systemd *)
(* are external: the per-instance modules run once for an instance-id, and *)
(* an enabled unit runs at every boot.                                     *)
(***************************************************************************)
EXTENDS Integers, FiniteSets, Sequences, SequencesExt

CONSTANTS
  Count,     \* clones
  Tools,     \* the sealing tools the host has
  MaxPoll,   \* bound: samples within waitFirstBoot's cap
  MaxFault,  \* bound: commands that fail, in the host and in the guests
  None

FleetAssumption ==
  /\ Count \in Nat \ {0} /\ MaxPoll \in Nat \ {0} /\ MaxFault \in Nat
  /\ Tools \subseteq {"kldload-seal", "virt-sysprep"}
  /\ None \notin Nat

VARIABLES
  spec,     \* NewVMSpec: way (what logs in), parts (of the script)
  mach,     \* mach[i]: the domain, its first boot and its disk
  fleet,    \* BuildFleet: pc, n (the clone it is at), tool
  watch,    \* waitFirstBoot: quiet and polls, and whether the guest wrote since
  warned,   \* the golden could not be sealed, and the operator was told
  faults

fleetVars == <<spec, mach, fleet, watch, warned, faults>>

M0 == 0..Count
Clone == 1..Count

\* The order userData gives the parts of its script; a desktop comes before the
\* sound it is to find.
Order == <<"agent", "reg", "desk", "sound", "post">>

\* The instance a disk's cloud-init ran for, and what it made of it.
Blank == [inst |-> None, host |-> None, mid |-> None, way |-> "none",
          desk |-> "no", dm |-> FALSE, fin |-> FALSE, graph |-> FALSE, ran |-> FALSE]

NoMach == [dom |-> "none", seed |-> None, log |-> None, pc |-> "off", part |-> 1, unit |-> FALSE, disk |-> Blank]

Init ==
  /\ spec \in [way : {"none", "key"}, parts : {p \in SUBSET {"reg", "desk", "sound", "post"} :
                                                             "reg" \in p <=> "sound" \in p}]
  /\ mach = [i \in M0 |-> NoMach]
  /\ fleet = [pc |-> "build", n |-> 1, tool |-> "kldload-seal"]
  /\ watch = [quiet |-> 0, polls |-> 0, wrote |-> TRUE]
  /\ warned = FALSE
  /\ faults = 0

-----------------------------------------------------------------------------
(* A machine.  What it writes, the watch on the golden's zvol sees.        *)

Fault   == faults < MaxFault /\ faults' = faults + 1
NoFault == UNCHANGED faults

Wrote(i) == watch' = IF i = 0 THEN [watch EXCEPT !.wrote = TRUE] ELSE watch

Running(i) == mach[i].dom = "running"
Seeded(i)  == mach[i].seed # mach[i].disk.inst   \* cloud-init has a new instance
Up(i)      == mach[i].pc = "up" /\ ~mach[i].unit \* and its units have run

\* userData for a clone clears the desktop: its recipe ran on the golden.
Parts(i) == {"agent"} \cup (IF i = 0 THEN spec.parts ELSE spec.parts \ {"desk"})

\* A seed that brings neither password nor key falls back to the family's
\* password.
WayIn == IF spec.way = "none" THEN "password" ELSE spec.way

Booted(m, i) ==
  [m EXCEPT !.dom = "running", !.pc = "init", !.part = 1, !.unit = m.disk.fin,
            !.disk.mid = IF @ = None THEN i ELSE @]

\* cloud-init's modules, for an instance it has not met.
Modules(i) ==
  /\ Running(i) /\ mach[i].pc = "init"
  /\ mach' = [mach EXCEPT ![i] =
       IF ~Seeded(i) THEN [@ EXCEPT !.pc = "up"]
       ELSE [@ EXCEPT !.pc = "script", !.disk.inst = mach[i].seed, !.disk.host = mach[i].seed,
                      !.disk.way = WayIn, !.disk.ran = FALSE]]
  /\ Wrote(i)
  /\ UNCHANGED <<spec, fleet, warned, faults>>

InScript(i, part) ==
  /\ Running(i) /\ mach[i].pc = "script" /\ mach[i].part <= Len(Order)
  /\ Order[mach[i].part] = part

\* The next part of the script that machine i's seed has.
Later(m, i) == [m EXCEPT !.part = Min({Len(Order) + 1} \cup {k \in 1..Len(Order) : k > m.part /\ Order[k] \in Parts(i)})]

\* A part that `|| true` or an if/else keeps from stopping the script, whatever
\* its commands reply.
Tolerated(i, part) ==
  /\ InScript(i, part) /\ part \in Parts(i)
  /\ NoFault \/ Fault
  /\ mach' = [mach EXCEPT ![i] = Later(@, i)]
  /\ Wrote(i)
  /\ UNCHANGED <<spec, fleet, warned>>

AgentUnit(i)   == Tolerated(i, "agent")
Entitlement(i) == Tolerated(i, "reg")
SoundStack(i)  == Tolerated(i, "sound")

InDesktop(i, desk) == InScript(i, "desk") /\ "desk" \in Parts(i) /\ mach[i].disk.desk = desk

\* The finisher is written and enabled before the install starts.
Arm(i) ==
  /\ InDesktop(i, "no")
  /\ mach' = [mach EXCEPT ![i].disk.fin = TRUE, ![i].disk.desk = "part"]
  /\ Wrote(i)
  /\ UNCHANGED <<spec, fleet, warned, faults>>

\* Nothing guards its cat, chmod, daemon-reload and enable: any of them that
\* fails ends the script there, under `set -e`, with all that was to follow.
ArmFails(i) ==
  /\ InDesktop(i, "no") /\ Fault
  /\ mach' = [mach EXCEPT ![i].part = Len(Order) + 1]
  /\ Wrote(i)
  /\ UNCHANGED <<spec, fleet, warned>>

\* The finisher disarms itself; a display manager it finds enabled, or can
\* enable, is one the install has brought.
Finished(m) == [m EXCEPT !.disk.fin = FALSE, !.disk.graph = TRUE, !.disk.dm = m.disk.desk = "full"]

InstallDone(i) ==
  /\ InDesktop(i, "part")
  /\ mach' = [mach EXCEPT ![i].disk.desk = "full"]
  /\ Wrote(i)
  /\ UNCHANGED <<spec, fleet, warned, faults>>

RunFinisher(i) ==
  /\ InDesktop(i, "full")
  /\ mach' = [mach EXCEPT ![i] = Later(Finished(@), i)]
  /\ Wrote(i)
  /\ UNCHANGED <<spec, fleet, warned, faults>>

\* An install that fails leaves a server, with nothing armed.
InstallFails(i) ==
  /\ InDesktop(i, "part")
  /\ Fault
  /\ mach' = [mach EXCEPT ![i] = Later([@ EXCEPT !.disk.desk = "failed", !.disk.fin = FALSE], i)]
  /\ Wrote(i)
  /\ UNCHANGED <<spec, fleet, warned>>

\* The operator's script, whose failure is its own.
Operator(i) ==
  /\ InScript(i, "post") /\ "post" \in Parts(i)
  /\ mach' = [mach EXCEPT ![i] = Later([@ EXCEPT !.disk.ran = TRUE], i)]
  /\ Wrote(i)
  /\ UNCHANGED <<spec, fleet, warned, faults>>

\* power_state, after every module: the reboot that brings a desktop up.
ScriptEnds(i) ==
  /\ Running(i) /\ mach[i].pc = "script" /\ mach[i].part > Len(Order)
  /\ mach' = [mach EXCEPT ![i] = IF "desk" \in Parts(i) THEN Booted(@, i) ELSE [@ EXCEPT !.pc = "up"]]
  /\ Wrote(i)
  /\ UNCHANGED <<spec, fleet, warned, faults>>

\* The finisher's unit, at a boot that found it enabled.
Unit(i) ==
  /\ Running(i) /\ mach[i].unit /\ mach[i].pc # "init"
  /\ mach' = [mach EXCEPT ![i] = [Finished(@) EXCEPT !.unit = FALSE]]
  /\ Wrote(i)
  /\ UNCHANGED <<spec, fleet, warned, faults>>

\* An idle guest writes a block now and then, above the threshold or not.
Writes ==
  /\ Running(0) /\ fleet.pc = "wait" /\ ~watch.wrote
  /\ watch' = [watch EXCEPT !.wrote = TRUE]
  /\ UNCHANGED <<spec, mach, fleet, warned, faults>>

-----------------------------------------------------------------------------
(* BuildFleet.                                                             *)

FleetAt(pc) == fleet.pc = pc
FleetTo(pc) == fleet' = [fleet EXCEPT !.pc = pc]

FleetFails(pcs) ==
  /\ fleet.pc \in pcs /\ Fault /\ FleetTo("failed")
  /\ UNCHANGED <<spec, mach, watch, warned>>

BuildGolden ==
  /\ FleetAt("build") /\ FleetTo("wait")
  /\ mach' = [mach EXCEPT ![0] = Booted([NoMach EXCEPT !.seed = 0, !.log = 0], 0)]
  /\ UNCHANGED <<spec, watch, warned, faults>>

Quiet == 3

\* waitFirstBoot: three samples in a row without growth, or the cap.
Sample ==
  /\ FleetAt("wait")
  /\ LET q == IF watch.wrote THEN 0 ELSE watch.quiet + 1
     IN /\ watch' = [quiet |-> q, polls |-> watch.polls + 1, wrote |-> FALSE]
        /\ IF q >= Quiet \/ watch.polls + 1 >= MaxPoll THEN FleetTo("stop") ELSE UNCHANGED fleet
  /\ UNCHANGED <<spec, mach, warned, faults>>

\* MakeGolden asks for a shutdown and waits two minutes for it; where the
\* domain is not running it asks for nothing.
Shutdown ==
  /\ FleetAt("stop") /\ FleetTo("down")
  /\ UNCHANGED <<spec, mach, watch, warned, faults>>

Off(i) == mach' = [mach EXCEPT ![i].dom = "off", ![i].pc = "off", ![i].unit = FALSE]

GoesDown ==
  /\ FleetAt("down") /\ Running(0) /\ Off(0)
  /\ UNCHANGED <<spec, fleet, watch, warned, faults>>

SeenDown ==
  /\ FleetAt("down") /\ ~Running(0) /\ FleetTo("seal")
  /\ UNCHANGED <<spec, mach, watch, warned, faults>>

DownTimeout ==
  /\ FleetAt("down") /\ Running(0) /\ FleetTo("failed")
  /\ UNCHANGED <<spec, mach, watch, warned, faults>>

\* A tool that fails gives way to the next, and the last to a warning: the
\* identity is cleared, or stays.
NextTool == IF fleet.tool = "kldload-seal" THEN "virt-sysprep" ELSE "none"

Seal ==
  /\ FleetAt("seal")
  /\ \/ /\ fleet.tool \in Tools /\ NoFault
        /\ mach' = [mach EXCEPT ![0].disk.mid = None]
        /\ FleetTo("snap") /\ UNCHANGED warned
     \/ /\ fleet.tool # "none" /\ fleet' = [fleet EXCEPT !.tool = NextTool]
        /\ IF fleet.tool \in Tools THEN Fault ELSE NoFault
        /\ UNCHANGED <<mach, warned>>
     \/ fleet.tool = "none" /\ warned' = TRUE /\ FleetTo("snap") /\ NoFault /\ UNCHANGED mach
  /\ UNCHANGED <<spec, watch>>

\* @golden of the root disk: the fleet's row names no other.
SnapGolden ==
  /\ FleetAt("snap") /\ FleetTo("clone")
  /\ UNCHANGED <<spec, mach, watch, warned, faults>>

\* planCloneGolden: the clone has the golden's disk, and by reference its seed
\* and its console log.
CloneIt ==
  /\ FleetAt("clone") /\ FleetTo("seed")
  /\ mach' = [mach EXCEPT ![fleet.n] = [NoMach EXCEPT !.dom = "off", !.seed = mach[0].seed, !.log = mach[0].log,
                                                      !.disk = mach[0].disk]]
  /\ UNCHANGED <<spec, watch, warned, faults>>

\* Mutant: a seed that could not be made is a warning.
ReseedWarns ==
  /\ FleetAt("seed") /\ FleetTo("log")
  /\ \/ mach' = [mach EXCEPT ![fleet.n].seed = fleet.n] /\ NoFault
     \/ Fault /\ UNCHANGED mach
  /\ UNCHANGED <<spec, watch, warned>>

\* ReseedClone.
Reseed ==
  /\ FleetAt("seed") /\ FleetTo("log")
  /\ mach' = [mach EXCEPT ![fleet.n].seed = fleet.n]
  /\ UNCHANGED <<spec, watch, warned, faults>>

Retarget ==
  /\ FleetAt("log") /\ FleetTo("start")
  /\ mach' = [mach EXCEPT ![fleet.n].log = fleet.n]
  /\ UNCHANGED <<spec, watch, warned, faults>>

LogBusy(i) == \E j \in M0 \ {i} : Running(j) /\ mach[j].log = mach[i].log

More == fleet' = [fleet EXCEPT !.pc = IF fleet.n < Count THEN "clone" ELSE "enrol",
                               !.n = IF fleet.n < Count THEN @ + 1 ELSE 1]

\* libvirt opens the console log exclusively.  A clone that will not start is
\* reported, and the batch goes on.
StartClone ==
  /\ FleetAt("start") /\ More
  /\ IF LogBusy(fleet.n) THEN NoFault /\ UNCHANGED mach
     ELSE \/ mach' = [mach EXCEPT ![fleet.n] = Booted(@, fleet.n)] /\ NoFault
          \/ Fault /\ UNCHANGED mach
  /\ UNCHANGED <<spec, watch, warned>>

\* After the batch, one by one; what it does is Enroll's.
EnrolNext ==
  /\ FleetAt("enrol")
  /\ fleet' = [fleet EXCEPT !.pc = IF fleet.n < Count THEN @ ELSE "done", !.n = IF fleet.n < Count THEN @ + 1 ELSE @]
  /\ UNCHANGED <<spec, mach, watch, warned, faults>>

-----------------------------------------------------------------------------

FleetStep ==
  \/ BuildGolden \/ Sample \/ Shutdown \/ SeenDown \/ DownTimeout \/ Seal \/ SnapGolden
  \/ CloneIt \/ Reseed \/ Retarget \/ StartClone \/ EnrolNext
  \/ FleetFails({"build", "wait", "stop", "snap", "clone", "seed", "log"})

GuestStep(i) ==
  \/ Modules(i) \/ AgentUnit(i) \/ Entitlement(i) \/ SoundStack(i)
  \/ Arm(i) \/ ArmFails(i) \/ InstallDone(i) \/ RunFinisher(i) \/ InstallFails(i)
  \/ Operator(i) \/ ScriptEnds(i) \/ Unit(i)

Next == FleetStep \/ (\E i \in M0 : GuestStep(i)) \/ GoesDown \/ Writes

\* The fleet runs on; a guest owes it nothing, and may hang for ever.
Spec == Init /\ [][Next]_fleetVars /\ WF_fleetVars(FleetStep)

-----------------------------------------------------------------------------
(* Properties.                                                             *)

Id == M0 \cup {None}

DiskOK(d) ==
  /\ d.inst \in Id /\ d.host \in Id /\ d.mid \in Id /\ d.way \in {"none", "key", "password"}
  /\ d.desk \in {"no", "part", "full", "failed"} /\ d.dm => d.desk = "full"
  /\ {d.dm, d.fin, d.graph, d.ran} \subseteq BOOLEAN

\* The values the state may take; a watch that is over took no more samples
\* than waitFirstBoot's cap allows.
TypeOK ==
  /\ \A i \in M0 :
       /\ mach[i].dom \in {"none", "off", "running"} /\ mach[i].seed \in Id /\ mach[i].log \in Id
       /\ mach[i].pc \in {"off", "init", "script", "up"} /\ mach[i].part \in 1..(Len(Order) + 1)
       /\ (mach[i].pc = "off") = (mach[i].dom # "running") /\ DiskOK(mach[i].disk)
  /\ fleet.n \in 1..Count /\ watch.polls \in 0..MaxPoll /\ watch.quiet \in 0..Quiet /\ faults \in 0..MaxFault

\* "A machine nobody can log into is a broken machine": once cloud-init has been
\* through a machine, a password or a key opens it (userData).
WayInKept == \A i \in M0 : mach[i].disk.inst # None => mach[i].disk.way # "none"

\* A clone that cloud-init has been through is that clone and no other: never
\* the golden's hostname (ReseedClone before the start, fatal on failure).
OwnIdentity == \A i \in Clone : mach[i].pc \in {"script", "up"} => mach[i].disk.host = i

\* Two machines of a fleet with one machine-id run only after the operator was
\* told that the golden could not be sealed (MakeGolden).
SharedIdIsTold ==
  \A i, j \in M0 : (i # j /\ Running(i) /\ Running(j) /\ mach[i].disk.mid = mach[j].disk.mid) => warned

\* The arming of the finisher failed: a desktop was asked for and not begun.
Unarmed(i) == "desk" \in Parts(i) /\ mach[i].disk.desk = "no"

\* Of what this builder puts before the operator's script only one thing can cost
\* it its run, on the golden and never on a clone: that the desktop's finisher
\* could not be armed.  An entitlement, a sound stack or a desktop that fails does
\* not (userData and desktopPostInstall, under set -e).
OperatorRan == \A i \in M0 : (Up(i) /\ "post" \in Parts(i) /\ ~Seeded(i)) => mach[i].disk.ran \/ Unarmed(i)

\* A desktop whose packages are all there comes up, wherever the boot that
\* installed it was cut (the finisher unit).
DesktopComes == \A i \in M0 : (Up(i) /\ mach[i].disk.desk = "full") => mach[i].disk.dm /\ mach[i].disk.graph

\* A failed desktop leaves a working server, at this boot and the next.
FailedStaysServer == \A i \in M0 : mach[i].disk.desk = "failed" => ~mach[i].disk.graph

\* When every command of the fleet and of its guests succeeded, every clone runs:
\* none is kept from starting by a log another one holds (RetargetCloneLogs).
WholeFleetRuns == (FleetAt("done") /\ faults = 0) => \A i \in Clone : Running(i)

=============================================================================
