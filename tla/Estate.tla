------------------------------- MODULE Estate -------------------------------
(***************************************************************************)
(* The estate (libvirt.go, model.go, zfs.go, reconcile.go): what the host  *)
(* has, one read of libvirt, which takes many calls and may meet a restart *)
(* of libvirt between two of them, and the join of what was read into      *)
(* rows.                                                                   *)
(***************************************************************************)
EXTENDS Naturals, FiniteSets

CONSTANTS
  Name,        \* names of machines
  Kind,        \* their disks
  MicroVM,     \* the names that are Firecracker microVMs
  Reader,      \* goroutines that read libvirt
  Handle,      \* connections
  LvOf,        \* LvOf[r]: the connection r reads through
  Starts,      \* what mach may be at first
  MaxChange,   \* bound: changes of the host by others
  MaxRestart   \* bound: restarts of libvirt

EstateAssumption ==
  /\ "root" \in Kind /\ MicroVM \subseteq Name
  /\ Starts \subseteq [Name -> {"none", "shut off", "running"}]
  /\ LvOf \in [Reader -> Handle] /\ MaxChange \in Nat /\ MaxRestart \in Nat

VARIABLES
  mach,     \* mach[n]: "none", "shut off" or "running", of libvirt or of kfire
  vols,     \* the zvols beside one another under the VMs' dataset: <<name, kind>>
  reg,      \* the names in state.db
  libvirtd, \* "up" or "down"
  alive,    \* the connections that still answer
  rd,       \* rd[r]: the read r is at
  changes, restarts

host == <<mach, vols, reg>>
estateVars == <<host, libvirtd, alive, rd, changes, restarts>>

VM       == Name \ MicroVM
Disks(n) == {n} \X Kind
Defined  == {n \in VM : mach[n] # "none"}
Running  == {n \in Name : mach[n] = "running"}
Micros   == {n \in MicroVM : mach[n] # "none"}

NoRead == [pc |-> "idle", doms |-> {}, on |-> {}, todo |-> {}, disks |-> {}]

EstateInit ==
  /\ mach \in Starts
  /\ vols = UNION {Disks(n) : n \in {m \in Name : mach[m] # "none"}}
  /\ reg = {n \in Name : mach[n] # "none"}
  /\ libvirtd = "up" /\ alive = Handle
  /\ rd = [r \in Reader |-> NoRead]
  /\ changes = 0 /\ restarts = 0

-----------------------------------------------------------------------------
(* The host, as others change it.                                          *)

Changes ==
  /\ changes < MaxChange /\ changes' = changes + 1
  /\ UNCHANGED <<libvirtd, alive, rd, restarts>>

\* A build or a clone makes the disks first, and the domain of them later.
MakeDisks(n) ==
  /\ mach[n] = "none" /\ vols \cap Disks(n) = {}
  /\ vols' = vols \cup Disks(n)
  /\ Changes /\ UNCHANGED <<mach, reg>>

Define(n) ==
  /\ mach[n] = "none" /\ Disks(n) \subseteq vols
  /\ mach' = [mach EXCEPT ![n] = "running"] /\ reg' = reg \cup {n}
  /\ Changes /\ UNCHANGED vols

Power(n) ==
  /\ mach[n] # "none"
  /\ mach' = [mach EXCEPT ![n] = IF @ = "running" THEN "shut off" ELSE "running"]
  /\ Changes /\ UNCHANGED <<vols, reg>>

\* By hand, or by a harness that tells no one: the disks stay, or go.
Undefine(n, keep) ==
  /\ mach[n] # "none"
  /\ mach' = [mach EXCEPT ![n] = "none"]
  /\ vols' = IF keep THEN vols ELSE vols \ Disks(n)
  /\ Changes /\ UNCHANGED reg

\* A restart cuts every connection.
Down ==
  /\ libvirtd = "up" /\ restarts < MaxRestart
  /\ libvirtd' = "down" /\ alive' = {} /\ restarts' = restarts + 1
  /\ UNCHANGED <<host, rd, changes>>

Up ==
  /\ libvirtd = "down" /\ libvirtd' = "up"
  /\ UNCHANGED <<host, alive, rd, changes, restarts>>

World ==
  \/ \E n \in Name : MakeDisks(n) \/ Define(n) \/ Power(n) \/ \E keep \in BOOLEAN : Undefine(n, keep)
  \/ Down \/ Up

-----------------------------------------------------------------------------
(* LV.Estate: the list, the counters, then a call for every domain.        *)

Step(r, m) == rd' = [rd EXCEPT ![r] = m] /\ UNCHANGED <<host, libvirtd, changes, restarts>>

Begin(r) == rd[r].pc = "idle" /\ Step(r, [NoRead EXCEPT !.pc = "list"]) /\ UNCHANGED alive

Listed(r) == [rd[r] EXCEPT !.pc = "stats", !.doms = Defined]
Failed(r) == [rd[r] EXCEPT !.pc = "failed"]

\* A dead connection is dialled again, and the call made again, once.
List(r) ==
  /\ rd[r].pc = "list"
  /\ IF LvOf[r] \in alive THEN Step(r, Listed(r)) /\ UNCHANGED alive
     ELSE IF libvirtd = "up" THEN Step(r, Listed(r)) /\ alive' = alive \cup {LvOf[r]}
     ELSE Step(r, Failed(r)) /\ UNCHANGED alive

\* Those gone since the list are not in the answer.
Stats(r) ==
  /\ rd[r].pc = "stats"
  /\ LET there == rd[r].doms \cap Defined
     IN Step(r, IF LvOf[r] \notin alive THEN Failed(r)
                ELSE [rd[r] EXCEPT !.pc = "xml", !.doms = there, !.on = there \cap Running, !.todo = there])
  /\ UNCHANGED alive

\* A definition that cannot be read leaves the row without disks.
Definition(r, n) ==
  /\ rd[r].pc = "xml" /\ n \in rd[r].todo
  /\ Step(r, [rd[r] EXCEPT !.todo = @ \ {n},
                           !.disks = IF LvOf[r] \in alive /\ n \in Defined THEN @ \cup Disks(n) ELSE @])
  /\ UNCHANGED alive

Read(r) == rd[r].pc = "xml" /\ rd[r].todo = {}

-----------------------------------------------------------------------------
(* BuildEstate: rows <<whose, what, state, a dataset is behind it>> of the  *)
(* domains listed (on those that run), the disks their definitions name,   *)
(* the zvols and the register as they were read.                           *)

OnOff(n, on) == IF n \in on THEN "running" ELSE "shut off"

DomainRows(doms, on, disks, zvols) ==
  {<<n, "domain", OnOff(n, on), <<n, "root">> \in disks \cap zvols>> : n \in doms}

\* A name of the register that libvirt does not have.
Ghosts(doms, regs) == {<<n, "ghost", "absent", FALSE>> : n \in regs \ doms}

\* A zvol no definition names, beside one that is named.
Orphans(disks, zvols) ==
  IF disks = {} THEN {} ELSE {<<v, "orphan", "no domain", TRUE>> : v \in zvols \ disks}

BuildEstate(doms, on, disks, zvols, regs) ==
  DomainRows(doms, on, disks, zvols) \cup Ghosts(doms, regs) \cup Orphans(disks, zvols)

MicroRows(micros, on) == {<<n, "microvm", OnOff(n, on), TRUE>> : n \in micros}

\* withoutFCGhosts: those that are really a microVM.
WithoutFCGhosts(rows, micros) ==
  {w \in rows : \/ w[2] = "domain"
                \/ w[2] = "ghost" /\ w[1] \notin micros
                \/ w[2] = "orphan" /\ w[1][1] \notin micros}
=============================================================================
