----------------------------- MODULE DiskResize -----------------------------
(***************************************************************************)
(* Growing a running machine's disk (resize.go, resize_size.go): the size  *)
(* is read, compared with what is asked for and set, in that order and not *)
(* at once; then the hypervisor tells the guest, and growRootScript grows  *)
(* the partition and the filesystem inside it.  Each layer has a size of   *)
(* its own.                                                                *)
(***************************************************************************)
EXTENDS Naturals

CONSTANTS
  Op,        \* dialogs and keystrokes that resize this one disk
  MaxSize,   \* bound: GiB
  MaxFault,  \* bound: commands that fail, stops and starts of the guest
  None

Size == 1..MaxSize

DiskResizeAssumption == MaxSize \in Nat /\ MaxFault \in Nat

VARIABLES
  disk,      \* volsize
  dev,       \* the size the guest's kernel has
  part, fs,  \* where its root partition ends; its filesystem
  up,        \* the guest runs
  task,      \* task[o]: the step, the size and the state read, the size wanted
  least,     \* history: the largest size the filesystem ever had
  faults

guest == <<dev, part, fs>>
vars  == <<disk, guest, up, task, least, faults>>

Idle == [pc |-> "idle", cur |-> None, on |-> FALSE, want |-> None, before |-> None, full |-> FALSE]

Init ==
  /\ disk = 1 /\ dev = 1 /\ part = 1 /\ fs = 1 /\ least = 1
  /\ up = TRUE
  /\ task = [o \in Op |-> Idle]
  /\ faults = 0

At(o, pc) == task[o].pc = pc
Put(o, t) == task' = [task EXCEPT ![o] = t]
Go(o, pc) == Put(o, [task[o] EXCEPT !.pc = pc])
Fault     == faults < MaxFault /\ faults' = faults + 1

\* currentDiskBytes, before the dialog opens or at Enter; a size that cannot be read
\* opens none.
Ask(o) ==
  /\ task[o].pc \in {"idle", "ok", "failed", "refused"}
  /\ Put(o, [Idle EXCEPT !.pc = "dialog", !.cur = disk, !.on = up])
  /\ UNCHANGED <<disk, guest, up, least, faults>>

\* Mutant: only the size the disk has is refused.
RefusedEqual(o, g) == g = task[o].cur \/ ~task[o].on

\* planResizeDisk: one way only, and of a guest that runs and has an address.
Refused(o, g) == g <= task[o].cur \/ ~task[o].on

Plan(o, g) ==
  /\ At(o, "dialog")
  /\ Put(o, [task[o] EXCEPT !.pc = IF Refused(o, g) THEN "refused" ELSE "set", !.want = g])
  /\ UNCHANGED <<disk, guest, up, least, faults>>

\* zfs set volsize.  ZFS takes any size.
SetSize(o) ==
  /\ At(o, "set")
  /\ \/ disk' = task[o].want /\ Go(o, "block") /\ UNCHANGED faults
     \/ Fault /\ Go(o, "failed") /\ UNCHANGED disk
  /\ UNCHANGED <<guest, up, least>>

\* virsh blockresize: qemu takes the size the device has, if that is no less.
BlockResize(o) ==
  /\ At(o, "block")
  /\ \/ up /\ task[o].want <= disk /\ dev' = disk /\ Go(o, "script") /\ UNCHANGED faults
     \/ ~(up /\ task[o].want <= disk) /\ Go(o, "failed") /\ UNCHANGED <<dev, faults>>
     \/ Fault /\ Go(o, "failed") /\ UNCHANGED dev
  /\ UNCHANGED <<disk, part, fs, up, least>>

-----------------------------------------------------------------------------
(* growRootScript.                                                         *)

Larger(a, b) == IF a > b THEN a ELSE b

\* growpart; one that fails or is not installed does not end the script.
GrowPart(o) ==
  /\ At(o, "script")
  /\ \/ /\ up /\ UNCHANGED faults
        /\ part' = Larger(part, dev)
        /\ Put(o, [task[o] EXCEPT !.pc = "fs", !.before = fs, !.full = (part >= dev)])
     \/ /\ up /\ Fault /\ UNCHANGED part
        /\ Put(o, [task[o] EXCEPT !.pc = "fs", !.before = fs])
     \/ /\ ~up /\ Go(o, "failed") /\ UNCHANGED <<part, faults>>
  /\ UNCHANGED <<disk, dev, fs, up, least>>

\* Step 5: what counts is the size, and where nothing changed, whether the partition
\* ends where the disk does.
Outcome(o, after) ==
  IF after > task[o].before \/ task[o].full \/ part >= dev THEN "ok" ELSE "failed"

GrowFs(o) ==
  /\ At(o, "fs")
  /\ \/ up /\ fs' = Larger(fs, part) /\ Go(o, Outcome(o, fs')) /\ UNCHANGED faults
     \/ up /\ Fault /\ UNCHANGED fs /\ Go(o, Outcome(o, fs))
     \/ ~up /\ Go(o, "failed") /\ UNCHANGED <<fs, faults>>
  /\ least' = Larger(least, fs')
  /\ UNCHANGED <<disk, dev, part, up>>

\* A boot gives the guest the disk as it is; some images grow themselves.
Stop == up /\ Fault /\ up' = FALSE /\ UNCHANGED <<disk, guest, task, least>>

Boot ==
  /\ ~up /\ up' = TRUE /\ dev' = disk
  /\ \/ UNCHANGED <<part, fs>>
     \/ part' = Larger(part, disk) /\ fs' = part'
  /\ least' = Larger(least, fs')
  /\ UNCHANGED <<disk, task, faults>>

Next ==
  \/ \E o \in Op :
       \/ Ask(o) \/ (\E g \in Size : Plan(o, g))
       \/ SetSize(o) \/ BlockResize(o) \/ GrowPart(o) \/ GrowFs(o)
  \/ Stop \/ Boot

Spec == Init /\ [][Next]_vars

-----------------------------------------------------------------------------
(* Properties.                                                             *)

\* A layer never reaches past the one it lies on, whatever fails, stops or boots
\* between two steps (resize.go's three layers).  One resize at a time.
LayersInOrder == fs <= part /\ part <= dev /\ dev <= disk

\* "Growing only, never shrinking": the disk is never cut below the filesystem on it.
\* planResizeDisk compares with a size that was read before.
NeverShrinks == disk >= least
=============================================================================
