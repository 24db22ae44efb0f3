-------------------------------- MODULE Host --------------------------------
(***************************************************************************)
(* The hypervisor the verbs act on: what virsh, virt-clone and zfs do with *)
(* the domains and zvols of the VMs, as verbs.go relies on it.  A domain's *)
(* disks are zvols named after it, one of each kind it has.                *)
(*                                                                         *)
(* An operator that takes a reply is a command: it says what the command   *)
(* does to the host when it replies so.                                    *)
(***************************************************************************)
EXTENDS Integers, Sequences, FiniteSetsExt

CONSTANTS
  Name,    \* names of VMs
  Kind,    \* kinds of disks: "root" and others
  MaxHold  \* bound: attempts a zvol stays busy after its domain went down

\* A VM has a few disks; what is called after a clone is called clone-n, and
\* so unlike any other snapshot.
ASSUME HostAssumption ==
  /\ "root" \in Kind /\ IsFiniteSet(Kind) /\ MaxHold \in Nat
  /\ Name \cap {"golden", "auto"} = {}

VARIABLES
  dom,    \* dom[n]: state, persistent, disks (the kinds of them)
  vols,   \* the zvols on the pool
  snaps,  \* their snapshots: at orders those of a zvol, by is the plan that took it
  origin, \* origin[v]: the snapshot v is a clone of
  maker,  \* history: the plan that made the clone v
  hold    \* hold[v]: attempts qemu will still keep v open

host == <<dom, vols, snaps, origin, maker, hold>>

Vol == [vm : Name, kind : Kind]
Tag == {"golden", "auto"} \cup Name   \* n stands for clone-n
MaxAt == 4                            \* bound: snapshots of a zvol

NoDom  == [state |-> "none", pers |-> FALSE, disks |-> {}]
NoSnap == [vol |-> [vm |-> "none", kind |-> "none"], tag |-> "none", at |-> 0, by |-> 0]

V(n, k)     == [vm |-> n, kind |-> k]
DisksOf(n)  == {V(n, k) : k \in dom[n].disks}
SnapsOf(v)  == {s \in snaps : s.vol = v}
HasSnap(v, t)    == \E s \in snaps : s.vol = v /\ s.tag = t
TheSnap(v, t)    == CHOOSE s \in snaps : s.vol = v /\ s.tag = t
NextAt(v)   == 1 + Max({0} \cup {s.at : s \in SnapsOf(v)})

Defined(n)  == dom[n].state # "none"
Open(v)     == \E n \in Name : dom[n].state \in {"running", "paused"} /\ v \in DisksOf(n)
Dependents(ss)   == {w \in vols : origin[w] \in ss}

Unchanged == UNCHANGED host

-----------------------------------------------------------------------------
(* virsh.                                                                  *)

Start(n, reply) ==
  IF dom[n].state = "off" /\ DisksOf(n) \subseteq vols
  THEN reply = "ok" /\ dom' = [dom EXCEPT ![n].state = "running"] /\ UNCHANGED <<vols, snaps, origin, maker, hold>>
  ELSE reply = "refused" /\ Unchanged

\* The domain is gone or off; qemu lets go of the disks when it does.
PowerOff(n) ==
  /\ dom' = [dom EXCEPT ![n] = IF @.pers THEN [@ EXCEPT !.state = "off"] ELSE NoDom]
  /\ \E h \in 0..MaxHold :
       hold' = [v \in Vol |-> IF v \in DisksOf(n) THEN h ELSE hold[v]]
  /\ UNCHANGED <<vols, snaps, origin, maker>>

Destroy(n, reply) ==
  \/ dom[n].state \in {"running", "paused"} /\ reply = "ok" /\ PowerOff(n)
  \/ dom[n].state = "off"  /\ reply = "not running" /\ Unchanged
  \/ dom[n].state = "none" /\ reply = "no domain" /\ Unchanged

\* A domain that is up stays up, as a transient one.
Undefine(n, reply) ==
  \/ /\ Defined(n) /\ dom[n].pers /\ reply = "ok"
     /\ dom' = [dom EXCEPT ![n] = IF @.state = "off" THEN NoDom ELSE [@ EXCEPT !.pers = FALSE]]
     /\ UNCHANGED <<vols, snaps, origin, maker, hold>>
  \/ Defined(n) /\ ~dom[n].pers /\ reply = "refused" /\ Unchanged
  \/ ~Defined(n) /\ reply = "no domain" /\ Unchanged

\* virt-clone --preserve-data: the files are there already.
VirtClone(n, new, files, reply) ==
  IF Defined(n) /\ ~Defined(new) /\ files \subseteq vols
  THEN /\ reply = "ok"
       /\ dom' = [dom EXCEPT ![new] = [state |-> "off", pers |-> TRUE,
                                       disks |-> {v.kind : v \in files}]]
       /\ UNCHANGED <<vols, snaps, origin, maker, hold>>
  ELSE reply = "refused" /\ Unchanged

-----------------------------------------------------------------------------
(* zfs.                                                                    *)

\* zfs destroy -r: the dataset and its snapshots, never a clone beside it.
DestroyVol(v, reply) ==
  \/ /\ v \notin vols \/ Dependents(SnapsOf(v)) # {}
     /\ reply = "refused" /\ Unchanged
  \/ /\ v \in vols /\ Dependents(SnapsOf(v)) = {}
     /\ IF Open(v) \/ hold[v] > 0
        THEN /\ reply = "busy"
             /\ hold' = [hold EXCEPT ![v] = IF @ > 0 THEN @ - 1 ELSE 0]
             /\ UNCHANGED <<dom, vols, snaps, origin, maker>>
        ELSE /\ reply = "ok"
             /\ vols' = vols \ {v} /\ snaps' = snaps \ SnapsOf(v)
             /\ origin' = [origin EXCEPT ![v] = NoSnap]
             /\ maker' = [maker EXCEPT ![v] = 0]
             /\ UNCHANGED <<dom, hold>>

DestroySnap(v, t, reply) ==
  IF HasSnap(v, t) /\ Dependents({TheSnap(v, t)}) = {}
  THEN reply = "ok" /\ snaps' = snaps \ {TheSnap(v, t)} /\ UNCHANGED <<dom, vols, origin, maker, hold>>
  ELSE reply = "refused" /\ Unchanged

Snapshot(v, t, who, reply) ==
  IF v \in vols /\ ~HasSnap(v, t)
  THEN /\ NextAt(v) <= MaxAt
       /\ reply = "ok"
       /\ snaps' = snaps \cup {[vol |-> v, tag |-> t, at |-> NextAt(v), by |-> who]}
       /\ UNCHANGED <<dom, vols, origin, maker, hold>>
  ELSE reply = "refused" /\ Unchanged

CloneVol(v, t, new, who, reply) ==
  IF HasSnap(v, t) /\ new \notin vols
  THEN /\ reply = "ok"
       /\ vols' = vols \cup {new}
       /\ origin' = [origin EXCEPT ![new] = TheSnap(v, t)]
       /\ maker' = [maker EXCEPT ![new] = who]
       /\ UNCHANGED <<dom, snaps, hold>>
  ELSE reply = "refused" /\ Unchanged

Newer(v, t) == {s \in SnapsOf(v) : s.at > TheSnap(v, t).at}

\* zfs rollback -r: it asks neither libvirt nor who has the zvol open.
RollbackVol(v, t, reply) ==
  IF HasSnap(v, t) /\ Dependents(Newer(v, t)) = {}
  THEN reply = "ok" /\ snaps' = snaps \ Newer(v, t) /\ UNCHANGED <<dom, vols, origin, maker, hold>>
  ELSE reply = "refused" /\ Unchanged
=============================================================================
