------------------------------- MODULE Enroll -------------------------------
(***************************************************************************)
(* Enrolment of guests on the kldload substrate (kldload_enroll.go): a     *)
(* mesh on a subnet of its own, a certificate of the estate's CA, a row in *)
(* the inventory.  Builds enrol what they built, several at once, and      *)
(* other processes enrol microVMs beside them; the two host-side steps are *)
(* taken under a mutex of the process and a file lock of the host.         *)
(*                                                                         *)
(* kvm-mesh and kldload-ca are external: `up` brings the interface up on   *)
(* the subnet it is given, `issue` reads the CA's index and writes it.     *)
(***************************************************************************)
EXTENDS Integers, FiniteSets, FiniteSetsExt

CONSTANTS
  Guest,    \* guests to enrol
  Proc,     \* vmxplore processes of one account
  Mesh,     \* names of meshes
  MeshOf,   \* enrollMeshName: at most 15 characters, so two guests may share one
  Subnets,  \* how many subnets there are
  Paths,    \* how many lock files are tried
  Race,     \* several processes on a host where the lock's directory is root's
  MaxFault, \* bound: commands that fail, and kills
  MaxDown,  \* bound: meshes taken down
  None

ASSUME EnrollAssumption ==
  /\ MeshOf \in [Guest -> Mesh]
  /\ Subnets \in Nat /\ Paths \in Nat \ {0} /\ Race \in BOOLEAN
  /\ MaxFault \in Nat /\ MaxDown \in Nat
  /\ None \notin Guest /\ None \notin Nat

VARIABLES
  en,       \* en[g]: the goroutine that enrols g
  mu,       \* mu[p]: who holds enrollHostMu in the process
  open,     \* the lock's directory may be written by the account
  file,     \* file[i]: the inode of the i-th lock file, 0 when there is none
  ino,      \* the last inode given
  flock,    \* who holds a lock, and on which inode
  iface,    \* iface[m]: the subnet of the mesh's interface, or None
  serial,   \* the CA's index
  cert,     \* cert[g]: the serial of its certificate, or None
  downs, faults

lockVars == <<mu, file, ino, flock>>
netVars == <<iface, serial, cert>>
boundVars == <<downs, faults>>
enrollVars == <<en, lockVars, open, netVars, boundVars>>

Subnet == 1..Subnets
Path == 1..Paths

NoEnrol == [pc |-> "idle", proc |-> None, for |-> "mesh", path |-> 1, fd |-> 0, net |-> None, idx |-> None]

Init ==
  /\ en = [g \in Guest |-> NoEnrol]
  /\ mu = [p \in Proc |-> None]
  /\ open \in BOOLEAN
  /\ file = [i \in Path |-> 0]
  /\ ino = 0
  /\ flock = {}
  /\ iface = [m \in Mesh |-> None]
  /\ serial = 0
  /\ cert = [g \in Guest |-> None]
  /\ downs = 0
  /\ faults = 0

-----------------------------------------------------------------------------

Fault   == faults < MaxFault /\ faults' = faults + 1 /\ UNCHANGED downs
NoFault == UNCHANGED boundVars

Go(g, pc) == en' = [en EXCEPT ![g].pc = pc]

Ended(g) == en[g].pc \in {"idle", "done", "gone"}

\* What runs with the gate held.
Critical(g) == en[g].pc \in {"alloc", "up", "issue", "sign", "leave"}

\* EnrollGuestAt.  Unless Race, processes are at it together only where the lock
\* file can be made without sudo.
Enrol(g, p) ==
  /\ en[g].pc = "idle"
  /\ Race \/ open \/ \A h \in Guest : ~Ended(h) => en[h].proc = p
  /\ en' = [en EXCEPT ![g].pc = "ssh", ![g].proc = p]
  /\ UNCHANGED <<lockVars, open, netVars, boundVars>>

\* The wait for root ssh: without it nothing can be done.
Ssh(g) ==
  /\ en[g].pc = "ssh"
  /\ \/ Go(g, "mutex") /\ NoFault
     \/ Go(g, "gone") /\ Fault
  /\ UNCHANGED <<lockVars, open, netVars>>

-----------------------------------------------------------------------------
(* enrollHostLock                                                          *)

Enter(g) == IF en[g].for = "mesh" THEN "alloc" ELSE "issue"

\* Mutant: the file lock alone, which goroutines of one process do not share
\* where it could not be had.
LockMutexFree(g) ==
  /\ en[g].pc = "mutex"
  /\ en' = [en EXCEPT ![g].pc = "open", ![g].path = 1]
  /\ UNCHANGED <<lockVars, open, netVars, boundVars>>

LockMutex(g) ==
  /\ en[g].pc = "mutex"
  /\ mu[en[g].proc] = None
  /\ mu' = [mu EXCEPT ![en[g].proc] = g]
  /\ en' = [en EXCEPT ![g].pc = "open", ![g].path = 1]
  /\ UNCHANGED <<file, ino, flock, open, netVars, boundVars>>

\* OpenFile with O_CREATE makes the file where the account may.
OpenLock(g) ==
  /\ en[g].pc = "open"
  /\ LET i == en[g].path
     IN \/ /\ file[i] # 0
           /\ en' = [en EXCEPT ![g].pc = "flock", ![g].fd = file[i]]
           /\ UNCHANGED <<file, ino>>
        \/ /\ file[i] = 0 /\ open
           /\ ino' = ino + 1
           /\ file' = [file EXCEPT ![i] = ino + 1]
           /\ en' = [en EXCEPT ![g].pc = "flock", ![g].fd = ino + 1]
        \/ file[i] = 0 /\ ~open /\ Go(g, "install") /\ UNCHANGED <<file, ino>>
  /\ UNCHANGED <<mu, flock, open, netVars, boundVars>>

\* `sudo install`: a new file in the place of whatever is there by now, which
\* is then opened.  Where sudo is refused the next path is tried, and after the
\* last the mutex alone has to do.
InstallLock(g) ==
  /\ en[g].pc = "install"
  /\ LET i == en[g].path
     IN \/ /\ ino' = ino + 1
           /\ file' = [file EXCEPT ![i] = ino + 1]
           /\ en' = [en EXCEPT ![g].pc = "flock", ![g].fd = ino + 1]
           /\ NoFault
        \/ /\ en' = [en EXCEPT ![g].pc = IF i < Paths THEN "open" ELSE Enter(g),
                               ![g].path = IF i < Paths THEN i + 1 ELSE i, ![g].fd = 0]
           /\ Fault
           /\ UNCHANGED <<file, ino>>
  /\ UNCHANGED <<mu, flock, open, netVars>>

\* Mutant: LOCK_SH.
FlockShared(g) ==
  /\ en[g].pc = "flock"
  /\ flock' = flock \cup {[ino |-> en[g].fd, by |-> g]}
  /\ Go(g, Enter(g))
  /\ UNCHANGED <<mu, file, ino, open, netVars, boundVars>>

Flock(g) ==
  /\ en[g].pc = "flock"
  /\ \A l \in flock : l.ino # en[g].fd
  /\ flock' = flock \cup {[ino |-> en[g].fd, by |-> g]}
  /\ Go(g, Enter(g))
  /\ UNCHANGED <<mu, file, ino, open, netVars, boundVars>>

\* Mutant: the mutex is given back and the file is not.
ReleaseMutexOnly(g) ==
  /\ flock' = flock
  /\ mu' = [mu EXCEPT ![en[g].proc] = None]

\* gate.unlock
Release(g) ==
  /\ flock' = {l \in flock : l.by # g}
  /\ mu' = [mu EXCEPT ![en[g].proc] = None]

-----------------------------------------------------------------------------
(* What the gate is held for.                                              *)

\* allocMeshSubnet: the one the mesh has, or else the first that no interface
\* of the host is on.  With none left there is no mesh.
Alloc(g) ==
  /\ en[g].pc = "alloc"
  /\ LET m == MeshOf[g]
         free == {n \in Subnet : \A k \in Mesh : iface[k] # n}
         net == IF iface[m] # None THEN iface[m] ELSE IF free # {} THEN Min(free) ELSE None
     IN en' = [en EXCEPT ![g].net = net, ![g].pc = IF net = None THEN "leave" ELSE "up"]
  /\ UNCHANGED <<lockVars, open, netVars, boundVars>>

\* kvm-mesh up
MeshUp(g) ==
  /\ en[g].pc = "up"
  /\ Go(g, "leave")
  /\ \/ iface' = [iface EXCEPT ![MeshOf[g]] = en[g].net] /\ NoFault
     \/ UNCHANGED iface /\ Fault
  /\ UNCHANGED <<lockVars, open, serial, cert>>

\* kldload-ca issue reads its index ...
IssueRead(g) ==
  /\ en[g].pc = "issue"
  /\ \/ en' = [en EXCEPT ![g].pc = "sign", ![g].idx = serial] /\ NoFault
     \/ Go(g, "leave") /\ Fault
  /\ UNCHANGED <<lockVars, open, netVars>>

\* ... and writes it with the certificate.
IssueSign(g) ==
  /\ en[g].pc = "sign"
  /\ serial' = en[g].idx + 1
  /\ cert' = [cert EXCEPT ![g] = en[g].idx]
  /\ Go(g, "leave")
  /\ UNCHANGED <<lockVars, open, iface, boundVars>>

\* After the mesh the certificate, after the certificate the inventory.
Leave(g) ==
  /\ en[g].pc = "leave"
  /\ Release(g)
  /\ en' = [en EXCEPT ![g].pc = IF en[g].for = "mesh" THEN "mutex" ELSE "done",
                      ![g].for = "cert", ![g].path = 1, ![g].fd = 0, ![g].net = None, ![g].idx = None]
  /\ UNCHANGED <<file, ino, open, netVars, boundVars>>

-----------------------------------------------------------------------------

\* meshTeardownPost of a delete, which takes no gate: the mesh goes down, also
\* under the other guests that share its name.
MeshDown(m) ==
  /\ downs < MaxDown
  /\ iface[m] # None
  /\ iface' = [iface EXCEPT ![m] = None]
  /\ downs' = downs + 1
  /\ UNCHANGED <<en, lockVars, open, serial, cert, faults>>

\* The process is killed: the kernel gives its locks back.
Killed(p) ==
  /\ \E g \in Guest : en[g].proc = p /\ ~Ended(g)
  /\ en' = [g \in Guest |-> IF en[g].proc = p /\ ~Ended(g) THEN [en[g] EXCEPT !.pc = "gone"] ELSE en[g]]
  /\ mu' = [mu EXCEPT ![p] = None]
  /\ flock' = {l \in flock : en[l.by].proc # p}
  /\ Fault
  /\ UNCHANGED <<file, ino, open, netVars>>

Step(g) ==
  \/ Ssh(g) \/ LockMutex(g) \/ OpenLock(g) \/ InstallLock(g) \/ Flock(g)
  \/ Alloc(g) \/ MeshUp(g) \/ IssueRead(g) \/ IssueSign(g) \/ Leave(g)

Next ==
  \/ \E g \in Guest : Step(g) \/ \E p \in Proc : Enrol(g, p)
  \/ \E m \in Mesh : MeshDown(m)
  \/ \E p \in Proc : Killed(p)

Fairness == \A g \in Guest : WF_enrollVars(Step(g))

Spec == Init /\ [][Next]_enrollVars /\ Fairness

-----------------------------------------------------------------------------
(* Properties.                                                             *)

TypeOK ==
  /\ \A g \in Guest :
       /\ DOMAIN en[g] = DOMAIN NoEnrol
       /\ en[g].pc \in {"idle", "ssh", "mutex", "open", "install", "flock", "alloc", "up", "issue",
                        "sign", "leave", "done", "gone"}
       /\ en[g].proc \in Proc \cup {None} /\ en[g].for \in {"mesh", "cert"} /\ en[g].path \in Path
       /\ en[g].fd \in 0..ino /\ en[g].net \in Subnet \cup {None} /\ en[g].idx \in Nat \cup {None}
  /\ mu \in [Proc -> Guest \cup {None}]
  /\ open \in BOOLEAN
  /\ file \in [Path -> 0..ino]
  /\ ino \in Nat
  /\ flock \subseteq [ino : 1..ino, by : Guest]
  /\ iface \in [Mesh -> Subnet \cup {None}]
  /\ serial \in Nat
  /\ cert \in [Guest -> Nat \cup {None}]
  /\ downs \in 0..MaxDown /\ faults \in 0..MaxFault

\* No two enrolments of the host hold the gate, of one process or of two.
MutualExclusion ==
  \A g, h \in Guest : g # h => ~(Critical(g) /\ Critical(h))

\* No two meshes are on one subnet, whoever picked when and whatever was taken
\* down in between.
OwnSubnet ==
  \A m, k \in Mesh : m # k /\ iface[m] # None => iface[m] # iface[k]

\* The CA gives no serial twice.
SerialOnce ==
  \A g, h \in Guest : g # h /\ cert[g] # None => cert[g] # cert[h]

\* While an enrolment is under way one of them can go on: no way out of the two
\* host-side steps, not even a kill, leaves the gate shut for those that wait.
GateNeverStuck ==
  (\E g \in Guest : ~Ended(g)) => \E g \in Guest : ~Ended(g) /\ ENABLED Step(g)
=============================================================================
