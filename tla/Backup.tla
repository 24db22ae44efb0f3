------------------------------- MODULE Backup -------------------------------
(***************************************************************************)
(* Backing a VM up to ZFS datasets and restoring it (backup.go, and the    *)
(* two dialogs of gui.go that drive it).                                   *)
(*                                                                         *)
(* A backup takes one snapshot of every disk, sends each disk to           *)
(* <dest>/<vm>/<disk>, snapshots <dest>/<vm> under the same name and       *)
(* stores the domain definition on that snapshot, then prunes.  Every      *)
(* command is a process on this host or over ssh: it can fail, it can      *)
(* succeed and still be reported failed when the link drops, and the       *)
(* program can die between any two of them.                                *)
(*                                                                         *)
(* Backup names are UTC timestamps, so they are ordered: they are the      *)
(* numbers 1, 2, 3... here.  One backup of a VM runs at a time (the window *)
(* that runs it is keyed by its title); restores run beside it.            *)
(***************************************************************************)
EXTENDS Integers, FiniteSets

CONSTANTS
  NDisk,       \* the disks the VM may have are 1..NDisk, in definition order
  Dest,        \* the destinations a backup may be sent to
  NewVM,       \* the names a backup may be restored as
  Keep,        \* how many backups a destination keeps
  SamePool,    \* TRUE when one zfs call can snapshot every disk
  Reconfig,    \* TRUE when the operator attaches and detaches disks
  ProbeFaults, \* TRUE when the destination may not answer the undo's probe
  LateDrop,    \* TRUE when a command may finish and still be reported failed
  MaxPoint,    \* bound: how many backups are started
  MaxFault     \* bound: how many commands fail or crashes happen

ASSUME BackupAssumption ==
  /\ Dest # {}
  /\ NDisk \in Nat \ {0}
  /\ Keep \in Nat \ {0}
  /\ MaxPoint \in Nat
  /\ MaxFault \in Nat
  /\ SamePool \in BOOLEAN
  /\ Reconfig \in BOOLEAN
  /\ ProbeFaults \in BOOLEAN
  /\ LateDrop \in BOOLEAN

Disk  == 1..NDisk
Point == 1..MaxPoint

NoVolume == 0    \* no zvol of that name on the hypervisor
Foreign  == -1   \* a zvol of that name that no restore made

VARIABLES
  attached,  \* the disks in the VM's definition
  src,       \* src[d]: the backup snapshots of disk d on the hypervisor
  dst,       \* dst[t][d]: the backup snapshots of <t>/<vm>/<d>
  listed,    \* listed[t]: the snapshots of <t>/<vm>, what ListBackups shows
  stored,    \* stored[t]: those that carry a definition
  defn,      \* defn[p]: the disks the definition dumped for backup p names
  now,       \* the newest backup name used
  faults,    \* failures so far
  run,       \* the backup window
  restore,   \* restore[v]: the window restoring a backup as v
  vol,       \* vol[v][d]: what the zvol named for disk d of v holds
  defined    \* defined[v]: the backup v was defined from, 0 before that

vars == <<attached, src, dst, listed, stored, defn, now, faults, run,
          restore, vol, defined>>

IsNewest(p, S) == p \in S /\ \A q \in S : q <= p

\* The code walks its disk slices in order; todo is what is left of one.
IsNext(d, todo) == d \in todo /\ \A e \in todo : d <= e

\* Mutants of Excess: one too many kept; the list walked from the wrong end.
ExcessOffByOne(S) == {p \in S : Cardinality({q \in S : q > p}) > Keep}
ExcessNewest(S) == {p \in S : Cardinality({q \in S : q < p}) >= Keep}

\* What retention removes from a dataset: all but the newest Keep.
Excess(S) == {p \in S : Cardinality({q \in S : q > p}) >= Keep}

\* The volumes under <t>/<vm>: a dataset exists from its first receive on.
Volumes(t) == {d \in Disk : dst[t][d] # {}}

IdleRun == [pc |-> "idle", dest |-> CHOOSE t \in Dest : TRUE, name |-> 0,
            disks |-> {}, todo |-> {},
            clean |-> FALSE]  \* history: no command of this run failed

IdleRestore == [pc |-> "idle", dest |-> CHOOSE t \in Dest : TRUE, point |-> 0,
                todo |-> {}, made |-> {},
                tidy |-> TRUE]    \* history: no removal failed, no crash

Init ==
  /\ attached \in IF Reconfig THEN SUBSET Disk ELSE {Disk}
  /\ src      = [d \in Disk |-> {}]
  /\ dst      = [t \in Dest |-> [d \in Disk |-> {}]]
  /\ listed   = [t \in Dest |-> {}]
  /\ stored   = [t \in Dest |-> {}]
  /\ defn     = [p \in Point |-> {}]
  /\ now      = 0
  /\ faults   = 0
  /\ run      = IdleRun
  /\ restore  = [v \in NewVM |-> IdleRestore]
  /\ vol      \in [NewVM -> [Disk -> {NoVolume, Foreign}]]
  /\ defined  = [v \in NewVM |-> 0]

\* A command fails; a command does not.
Fault   == faults < MaxFault /\ faults' = faults + 1
NoFault == faults' = faults

restoreVars == <<restore, vol, defined>>
destVars    == <<dst, listed, stored>>

-----------------------------------------------------------------------------
(* The VM, outside the program.                                            *)

\* The operator attaches or detaches a disk (virsh, another tool).
Reattach(d) ==
  /\ Reconfig
  /\ attached' = IF d \in attached THEN attached \ {d} ELSE attached \cup {d}
  /\ UNCHANGED <<src, destVars, defn, now, faults, run, restoreVars>>

-----------------------------------------------------------------------------
(* BackupDisks.                                                            *)

\* The dialog: vmZvols of the row it was opened on.
OpenDialog(t) ==
  /\ run.pc = "idle"
  /\ attached # {}
  /\ run' = [IdleRun EXCEPT !.pc = "dialog", !.dest = t, !.disks = attached]
  /\ UNCHANGED <<attached, src, destVars, defn, now, faults, restoreVars>>

CancelDialog ==
  /\ run.pc = "dialog"
  /\ run' = IdleRun
  /\ UNCHANGED <<attached, src, destVars, defn, now, faults, restoreVars>>

\* "Back up": dumpxml --inactive, then the name of this backup.
Begin ==
  /\ run.pc = "dialog"
  /\ now < MaxPoint
  /\ now' = now + 1
  /\ defn' = [defn EXCEPT ![now + 1] = attached]
  /\ run' = [run EXCEPT !.pc = "snap", !.name = now + 1, !.todo = run.disks,
                        !.clean = TRUE]
  /\ UNCHANGED <<attached, src, destVars, faults, restoreVars>>

\* Mutant: the clock is read again for the snapshot.
SnapTogetherReadsClock ==
  /\ run.pc = "snap"
  /\ SamePool
  /\ src' = [d \in Disk |-> IF d \in run.disks THEN src[d] \cup {run.name + 1} ELSE src[d]]
  /\ run' = [run EXCEPT !.pc = "tree", !.todo = {}]
  /\ NoFault
  /\ UNCHANGED <<attached, destVars, defn, now, restoreVars>>

\* Step 1: one zfs snapshot call for every disk...
SnapTogether ==
  /\ run.pc = "snap"
  /\ SamePool
  /\ src' = [d \in Disk |-> IF d \in run.disks THEN src[d] \cup {run.name} ELSE src[d]]
  /\ run' = [run EXCEPT !.pc = "tree", !.todo = {}]
  /\ NoFault
  /\ UNCHANGED <<attached, destVars, defn, now, restoreVars>>

\* ... or one call each when they are on different pools.
SnapOne(d) ==
  /\ run.pc = "snap"
  /\ ~SamePool
  /\ IsNext(d, run.todo)
  /\ src' = [src EXCEPT ![d] = @ \cup {run.name}]
  /\ run' = [run EXCEPT !.todo = @ \ {d},
                        !.pc = IF run.todo = {d} THEN "tree" ELSE "snap"]
  /\ NoFault
  /\ UNCHANGED <<attached, destVars, defn, now, restoreVars>>

\* A snapshot call that fails returns at once: nothing is undone.
SnapFails ==
  /\ run.pc = "snap"
  /\ run' = [run EXCEPT !.pc = "idle", !.clean = FALSE]
  /\ Fault
  /\ UNCHANGED <<attached, src, destVars, defn, now, restoreVars>>

\* The error path every later step takes: fail() and its loop over the disks.
ToUndo(ok) == run' = [run EXCEPT !.pc = "undo", !.todo = run.disks, !.clean = ok]

\* Step 2: zfs create -p <dest>/<vm>.
MakeTree ==
  /\ run.pc = "tree"
  /\ \/ run' = [run EXCEPT !.pc = "send", !.todo = run.disks] /\ NoFault
     \/ ToUndo(FALSE) /\ Fault
  /\ UNCHANGED <<attached, src, destVars, defn, now, restoreVars>>

\* The base an incremental send of d starts from: the newest backup the
\* destination holds, provided the hypervisor still has it.
HasBase(t, d) == \E b \in dst[t][d] : IsNewest(b, dst[t][d]) /\ b \in src[d]

CanSend(t, d) == dst[t][d] = {} \/ HasBase(t, d)

Received(d) == dst' = [dst EXCEPT ![run.dest][d] = @ \cup {run.name}]

\* Step 3: send one disk, in full or from the newest backup at the destination.
Send(d) ==
  /\ run.pc = "send"
  /\ IsNext(d, run.todo)
  /\ CanSend(run.dest, d)
  /\ run.name \in src[d]
  /\ Received(d)
  /\ run' = [run EXCEPT !.todo = @ \ {d},
                        !.pc = IF run.todo = {d} THEN "parent" ELSE "send"]
  /\ NoFault
  /\ UNCHANGED <<attached, src, listed, stored, defn, now, restoreVars>>

\* Mutant: the refusal is logged and nothing returns.
SendRefusedLogged(d) ==
  /\ run.pc = "send"
  /\ IsNext(d, run.todo)
  /\ ~CanSend(run.dest, d)
  /\ UNCHANGED vars

\* The destination's newest backup is gone from the hypervisor: refused.
SendRefused(d) ==
  /\ run.pc = "send"
  /\ IsNext(d, run.todo)
  /\ ~CanSend(run.dest, d)
  /\ ToUndo(run.clean)
  /\ UNCHANGED <<attached, src, destVars, defn, now, faults, restoreVars>>

\* A listing or the send fails, or the link drops after the receive finished.
SendFails(d) ==
  /\ run.pc = "send"
  /\ IsNext(d, run.todo)
  /\ \/ UNCHANGED dst
     \/ LateDrop /\ CanSend(run.dest, d) /\ run.name \in src[d] /\ Received(d)
  /\ ToUndo(FALSE)
  /\ Fault
  /\ UNCHANGED <<attached, src, listed, stored, defn, now, restoreVars>>

\* Mutant: fail() removes the snapshot of every disk without looking.
UndoDiskBlind(d) ==
  /\ run.pc = "undo"
  /\ IsNext(d, run.todo)
  /\ src' = [src EXCEPT ![d] = @ \ {run.name}]
  /\ NoFault
  /\ run' = [run EXCEPT !.todo = @ \ {d},
                        !.pc = IF run.todo = {d} THEN "idle" ELSE "undo"]
  /\ UNCHANGED <<attached, destVars, defn, now, restoreVars>>

\* fail(), one disk: this run's snapshot goes from the hypervisor unless the
\* destination has it.  exists() is FALSE on any error, so a destination that
\* does not answer counts as one that received nothing.
UndoDisk(d) ==
  /\ run.pc = "undo"
  /\ IsNext(d, run.todo)
  /\ \/ run.name \in dst[run.dest][d] /\ UNCHANGED src /\ NoFault
     \/ /\ run.name \notin dst[run.dest][d]
        /\ src' = [src EXCEPT ![d] = @ \ {run.name}]
        /\ NoFault
     \/ run.name \notin dst[run.dest][d] /\ UNCHANGED src /\ Fault
     \/ ProbeFaults /\ src' = [src EXCEPT ![d] = @ \ {run.name}] /\ Fault
  /\ run' = [run EXCEPT !.todo = @ \ {d},
                        !.pc = IF run.todo = {d} THEN "idle" ELSE "undo"]
  /\ UNCHANGED <<attached, destVars, defn, now, restoreVars>>

\* Step 4: zfs snapshot <dest>/<vm>@<name>, which may happen and still fail.
SnapParent ==
  /\ run.pc = "parent"
  /\ \/ /\ listed' = [listed EXCEPT ![run.dest] = @ \cup {run.name}]
        /\ \/ run' = [run EXCEPT !.pc = "props"] /\ NoFault
           \/ LateDrop /\ ToUndo(FALSE) /\ Fault
     \/ UNCHANGED listed /\ ToUndo(FALSE) /\ Fault
  /\ UNCHANGED <<attached, src, dst, stored, defn, now, restoreVars>>

\* The definition, as properties of that snapshot.
StoreDefinition ==
  /\ run.pc = "props"
  /\ \/ /\ stored' = [stored EXCEPT ![run.dest] = @ \cup {run.name}]
        /\ \/ /\ run' = [run EXCEPT !.pc = "prune", !.todo = {0} \cup run.disks]
              /\ NoFault
           \/ LateDrop /\ ToUndo(FALSE) /\ Fault
     \/ UNCHANGED stored /\ ToUndo(FALSE) /\ Fault
  /\ UNCHANGED <<attached, src, dst, listed, defn, now, restoreVars>>

\* Step 5: retention at the destination, <dest>/<vm> (0 here) and then its
\* disks; each destroy may fail, and the loop goes on.
Prune(d) ==
  /\ run.pc = "prune"
  /\ IsNext(d, run.todo)
  /\ \E gone \in SUBSET Excess(IF d = 0 THEN listed[run.dest] ELSE dst[run.dest][d]) :
       /\ IF d = 0
          THEN /\ listed' = [listed EXCEPT ![run.dest] = @ \ gone]
               /\ stored' = [stored EXCEPT ![run.dest] = @ \ gone]
               /\ UNCHANGED dst
          ELSE dst' = [dst EXCEPT ![run.dest][d] = @ \ gone] /\ UNCHANGED <<listed, stored>>
       /\ LET all  == gone = Excess(IF d = 0 THEN listed[run.dest] ELSE dst[run.dest][d])
              last == run.todo = {d}
          IN /\ run' = [run EXCEPT !.todo = IF last THEN run.disks ELSE @ \ {d},
                                   !.pc = IF last THEN "pruneSrc" ELSE "prune",
                                   !.clean = @ /\ all]
             /\ IF all THEN NoFault ELSE Fault
  /\ UNCHANGED <<attached, src, defn, now, restoreVars>>

\* Listing a dataset fails: BackupDisks returns there.
PruneListFails ==
  /\ run.pc = "prune"
  /\ run' = [run EXCEPT !.pc = "idle", !.clean = FALSE]
  /\ Fault
  /\ UNCHANGED <<attached, src, destVars, defn, now, restoreVars>>

\* The hypervisor keeps only this backup's snapshot, the next base.
PruneSrc(d) ==
  /\ run.pc = "pruneSrc"
  /\ IsNext(d, run.todo)
  /\ \E gone \in SUBSET (src[d] \ {run.name}) :
       LET all == gone = src[d] \ {run.name}
       IN /\ src' = [src EXCEPT ![d] = @ \ gone]
          /\ run' = [run EXCEPT !.todo = @ \ {d},
                                !.pc = IF run.todo = {d} THEN "idle" ELSE "pruneSrc",
                                !.clean = @ /\ all]
          /\ IF all THEN NoFault ELSE Fault
  /\ UNCHANGED <<attached, destVars, defn, now, restoreVars>>

-----------------------------------------------------------------------------
(* RestoreDisks and the virsh define that follows it.                      *)

restoreOnly == <<attached, src, destVars, defn, now, run>>

\* A backup point is picked from the list and "Restore" pressed: the volumes
\* under <dest>/<vm> are listed and the definition read.
RestoreBegin(v, t, p) ==
  /\ restore[v].pc = "idle"
  /\ defined[v] = 0
  /\ p \in listed[t]
  /\ p \in stored[t]    \* readDomXML fails otherwise
  /\ Volumes(t) # {}
  /\ restore' = [restore EXCEPT ![v] = [IdleRestore EXCEPT !.pc = "recv", !.dest = t,
                                         !.point = p, !.todo = Volumes(t),
                                         !.tidy = restore[v].tidy]]
  /\ UNCHANGED <<restoreOnly, faults, vol, defined>>

\* One disk into a new zvol.  A name that is taken stops the restore: zfs recv
\* without -F refuses it even when the exists() before it did not answer.
RestoreDisk(v, d) ==
  /\ restore[v].pc = "recv"
  /\ IsNext(d, restore[v].todo)
  /\ vol[v][d] = NoVolume
  /\ restore[v].point \in dst[restore[v].dest][d]
  /\ vol' = [vol EXCEPT ![v][d] = restore[v].point]
  /\ restore' = [restore EXCEPT ![v] =
       [restore[v] EXCEPT !.todo = @ \ {d}, !.made = @ \cup {d},
                 !.pc = IF restore[v].todo = {d} THEN "define" ELSE "recv"]]
  /\ NoFault
  /\ UNCHANGED <<restoreOnly, defined>>

\* Mutant: the error is returned and made forgotten.
RestoreToUndoForgets(v) == restore' = [restore EXCEPT ![v] = [restore[v] EXCEPT !.pc = "idle"]]

RestoreToUndo(v) ==
  restore' = [restore EXCEPT ![v] =
    [restore[v] EXCEPT !.pc = IF restore[v].made = {} THEN "idle" ELSE "undo",
              !.todo = restore[v].made]]

RestoreRefusedClaims(v, d) ==
  /\ restore[v].pc = "recv"
  /\ IsNext(d, restore[v].todo)
  /\ vol[v][d] # NoVolume \/ restore[v].point \notin dst[restore[v].dest][d]
  /\ restore' = [restore EXCEPT ![v] =
       [restore[v] EXCEPT !.pc = "undo", !.todo = restore[v].made \cup {d}, !.made = @ \cup {d}]]
  /\ UNCHANGED <<restoreOnly, faults, vol, defined>>

\* The name is taken, or the point was pruned from that disk.
RestoreRefused(v, d) ==
  /\ restore[v].pc = "recv"
  /\ IsNext(d, restore[v].todo)
  /\ vol[v][d] # NoVolume \/ restore[v].point \notin dst[restore[v].dest][d]
  /\ RestoreToUndo(v)
  /\ UNCHANGED <<restoreOnly, faults, vol, defined>>

\* The send, the receive or the define fails.  pipe() fails when either side
\* does, so the zvol may be there: it is not in made then.
RestoreFails(v) ==
  /\ restore[v].pc \in {"recv", "define"}
  /\ \/ UNCHANGED vol
     \/ \E d \in restore[v].todo :
          /\ LateDrop
          /\ IsNext(d, restore[v].todo)
          /\ vol[v][d] = NoVolume
          /\ restore[v].point \in dst[restore[v].dest][d]
          /\ vol' = [vol EXCEPT ![v][d] = restore[v].point]
  /\ RestoreToUndo(v)
  /\ Fault
  /\ UNCHANGED <<restoreOnly, defined>>

\* undo(): zfs destroy -r of a zvol this restore made; a failure is logged.
RestoreUndo(v, d) ==
  /\ restore[v].pc = "undo"
  /\ d \in restore[v].todo
  /\ \E gone \in BOOLEAN :
       /\ IF gone THEN vol' = [vol EXCEPT ![v][d] = NoVolume] /\ NoFault
                  ELSE UNCHANGED vol /\ Fault
       /\ restore' = [restore EXCEPT ![v] =
            [restore[v] EXCEPT !.todo = @ \ {d}, !.tidy = @ /\ gone,
                      !.pc = IF restore[v].todo = {d} THEN "idle" ELSE "undo"]]
  /\ UNCHANGED <<restoreOnly, defined>>

\* virsh define of the rewritten definition.
RestoreDefine(v) ==
  /\ restore[v].pc = "define"
  /\ defined' = [defined EXCEPT ![v] = restore[v].point]
  /\ restore' = [restore EXCEPT ![v] = [restore[v] EXCEPT !.pc = "idle"]]
  /\ NoFault
  /\ UNCHANGED <<restoreOnly, vol>>

-----------------------------------------------------------------------------
\* vmxplore is killed: no deferred step runs.
Crash ==
  /\ run.pc # "idle" \/ \E v \in NewVM : restore[v].pc # "idle"
  /\ run' = [run EXCEPT !.pc = "idle", !.clean = FALSE]
  /\ restore' = [v \in NewVM |-> [restore[v] EXCEPT !.pc = "idle",
                                    !.tidy = @ /\ restore[v].pc = "idle"]]
  /\ Fault
  /\ UNCHANGED <<attached, src, destVars, defn, now, vol, defined>>

BackupStep ==
  \/ SnapTogether \/ SnapFails \/ MakeTree \/ SnapParent \/ StoreDefinition
  \/ PruneListFails
  \/ \E d \in Disk : \/ SnapOne(d) \/ Send(d) \/ SendRefused(d) \/ SendFails(d)
                    \/ UndoDisk(d) \/ PruneSrc(d)
  \/ \E d \in Disk \cup {0} : Prune(d)

RestoreStep(v) ==
  \/ RestoreFails(v) \/ RestoreDefine(v)
  \/ \E d \in Disk : RestoreDisk(v, d) \/ RestoreRefused(v, d) \/ RestoreUndo(v, d)

Next ==
  \/ \E d \in Disk : Reattach(d)
  \/ \E t \in Dest : OpenDialog(t)
  \/ CancelDialog
  \/ Begin
  \/ BackupStep
  \/ \E v \in NewVM, t \in Dest, p \in Point : RestoreBegin(v, t, p)
  \/ \E v \in NewVM : RestoreStep(v)
  \/ Crash

\* The job goroutine runs its commands until it returns; nothing obliges the
\* operator, the link or the machine.
Spec == Init /\ [][Next]_vars /\ WF_vars(BackupStep)

-----------------------------------------------------------------------------
(* Properties.                                                             *)

RunPC     == {"idle", "dialog", "snap", "tree", "send", "undo", "parent",
              "props", "prune", "pruneSrc"}
RestorePC == {"idle", "recv", "undo", "define"}

RunState     == [pc : RunPC, dest : Dest, name : 0..MaxPoint, disks : SUBSET Disk,
                 todo : SUBSET (Disk \cup {0}), clean : BOOLEAN]
RestoreState == [pc : RestorePC, dest : Dest, point : 0..MaxPoint,
                 todo : SUBSET Disk, made : SUBSET Disk, tidy : BOOLEAN]

\* Every variable has its type.
TypeOK ==
  /\ attached \in SUBSET Disk
  /\ src \in [Disk -> SUBSET Point]
  /\ dst \in [Dest -> [Disk -> SUBSET Point]]
  /\ listed \in [Dest -> SUBSET Point]
  /\ stored \in [Dest -> SUBSET Point]
  /\ defn \in [Point -> SUBSET Disk]
  /\ now \in 0..MaxPoint
  /\ faults \in 0..MaxFault
  /\ run \in RunState
  /\ restore \in [NewVM -> RestoreState]
  /\ vol \in [NewVM -> [Disk -> {NoVolume, Foreign} \cup Point]]
  /\ defined \in [NewVM -> 0..MaxPoint]

\* The newest backup of every disk at a destination is still on the
\* hypervisor, whatever failed and wherever the program died: the next backup
\* finds the base its incremental needs and is not refused.
ChainIntact ==
  \A t \in Dest, d \in Disk : \A b \in dst[t][d] :
    IsNewest(b, dst[t][d]) => b \in src[d]

\* The newest backup that carries a definition can be restored: every volume
\* beside it holds that point, in the middle of a later backup that fails,
\* during retention and after a crash.
NewestRestorable ==
  \A t \in Dest : \A p \in stored[t] :
    IsNewest(p, stored[t]) => \A d \in Volumes(t) : p \in dst[t][d]

\* A backup none of whose commands failed was stored, and left no more than
\* the next base on the hypervisor and Keep backups at the destination,
\* whatever earlier failed backups had left in both places.
CleanRunConverges ==
  run.pc = "idle" /\ run.clean =>
    /\ run.name \in stored[run.dest]
    /\ Cardinality(listed[run.dest]) <= Keep
    /\ \A d \in run.disks :
         src[d] = {run.name} /\ Cardinality(dst[run.dest][d]) <= Keep

\* A VM defined by a restore has every disk its definition names as a zvol of
\* its own, all from the one backup; none is still the original's.
RestoredWhole ==
  \A v \in NewVM : defined[v] # 0 =>
    \A d \in defn[defined[v]] : vol[v][d] = defined[v]

\* A restore that ended without defining a VM left no zvol of its own behind,
\* unless a removal failed or the program died.
RestoreLeavesNothing ==
  \A v \in NewVM :
    restore[v].pc = "idle" /\ restore[v].tidy /\ defined[v] = 0 =>
      \A d \in Disk : vol[v][d] \in {NoVolume, Foreign}

\* No step touches a zvol that was there before the restore.
ForeignKept ==
  [][\A v \in NewVM, d \in Disk :
       vol[v][d] = Foreign => vol'[v][d] = Foreign]_vars

\* A backup that was started ends, refused ones included.
BackupEnds == run.pc \notin {"idle", "dialog"} ~> run.pc = "idle"
=============================================================================
