-------------------------------- MODULE Build --------------------------------
(***************************************************************************)
(* BuildNewVM (newvm.go) with its undo stack (rollback.go) and the image   *)
(* cache it fetches into (verify.go): several builds at once, in one       *)
(* process (build-all) or more, each making a system disk, perhaps a data  *)
(* disk, a cloud-init seed and a domain.                                   *)
(*                                                                         *)
(* A disk is a zvol when the estate has a ZFS home for VMs and a qcow2     *)
(* file otherwise.  One distro, hence one image to cache.                  *)
(***************************************************************************)
EXTENDS Integers, FiniteSets, SequencesExt

CONSTANTS
  Job,         \* builds
  Name,        \* names of VMs
  Proc,        \* vmxplore processes
  Torn,        \* a command that fails on a disk or seed may leave half of its file
  Clash,       \* two builds of one name may be under way without a pool
  MaxFault,    \* bound: commands that fail, and kills
  None, Old    \* nobody, and a VM that was there before

BuildAssumption ==
  /\ Torn \in BOOLEAN /\ Clash \in BOOLEAN
  /\ MaxFault \in Nat
  /\ None \notin Job /\ Old \notin Job /\ None # Old /\ None \notin Name

VARIABLES
  job,    \* job[b]: the goroutine of BuildNewVM
  mu,     \* mu[p]: who holds imageFetchMu in the process
  image,  \* the file in the cache: "none", "part", "bad" or "good", or "left" by a fetch that failed
  owner,  \* owner[n][w]: who made the disk or seed w of the name n
  dom,    \* dom[n]: the domain, and who made it
  faults

vars == <<job, mu, image, owner, dom, faults>>
hostVars == <<owner, dom>>

Zvols == {"zroot", "zdata"}
Files == {"froot", "fdata", "seed"}
Parts == Zvols \cup Files \cup {"dom"}

PC == {"idle", "lock", "image", "curl", "verify", "root", "fill", "data", "seed", "install",
       "detect", "define", "undo", "ok", "failed", "broken"}

NoJob == [pc |-> "idle", vm |-> None, proc |-> None, mode |-> "cloud", zfs |-> FALSE, data |-> FALSE,
          seen |-> FALSE, fresh |-> FALSE, undo |-> <<>>, over |-> {}, clean |-> TRUE, boots |-> "nothing"]

NoDom == [st |-> "none", by |-> None]

Running(b) == job[b].pc \notin {"idle", "ok", "failed", "broken"}

\* An old VM on ZFS, or the seed that one left when it was deleted.
Init ==
  /\ job = [b \in Job |-> NoJob]
  /\ mu = [p \in Proc |-> None]
  /\ image = "none"
  /\ \E vm \in SUBSET Name, left \in SUBSET Name :
       /\ owner = [n \in Name |-> [w \in Zvols \cup Files |->
                    IF (n \in vm /\ w \in Zvols \cup {"seed"}) \/ (n \in left /\ w = "seed")
                    THEN Old ELSE None]]
       /\ dom = [n \in Name |-> IF n \in vm THEN [st |-> "defined", by |-> Old] ELSE NoDom]
  /\ faults = 0

-----------------------------------------------------------------------------

Fault   == faults < MaxFault /\ faults' = faults + 1
NoFault == UNCHANGED faults

Go(b, pc) == job' = [job EXCEPT ![b].pc = pc, ![b].seen = FALSE]

\* An error returned from BuildNewVM: the deferred rb.run.
FailWith(b) ==
  job' = [job EXCEPT ![b].pc = IF job[b].undo = <<>> THEN "failed" ELSE "undo"]

\* Mutant: an undo is put in front.
MadeAtFront(b, w, pc) ==
  job' = [job EXCEPT ![b].pc = pc, ![b].seen = FALSE, ![b].undo = <<w>> \o @]

\* rb.add: the undo of a part just made.
MadeAndGo(b, w, pc) ==
  job' = [job EXCEPT ![b].pc = pc, ![b].seen = FALSE, ![b].undo = Append(@, w)]

\* Where the build keeps its disks.
RootOf(b) == IF job[b].zfs THEN "zroot" ELSE "froot"
DataOf(b) == IF job[b].zfs THEN "zdata" ELSE "fdata"

\* After the system disk; an ISO's guest asks its own questions and has no seed.
AfterRoot(b) == IF job[b].mode = "iso" THEN "install" ELSE IF job[b].data THEN "data" ELSE "seed"

\* What the finished VM is made of.
Needs(b) ==
  {RootOf(b), "dom"} \cup (IF job[b].data THEN {DataOf(b)} ELSE {})
                     \cup (IF job[b].mode = "iso" THEN {} ELSE {"seed"})

\* Two builds of one name without a pool both pass fileAbsent: Clash lets them.
MayStart(b, n, zfs) ==
  \A c \in Job \ {b} : Running(c) /\ job[c].vm = n => Clash \/ (zfs /\ job[c].zfs)

\* validate, and what the operator asked for: a cloud image of the catalogue,
\* an image of his own, or an installer's ISO, which has no data disk.
Begin(b, n, p) ==
  /\ job[b].pc = "idle"
  /\ \E mode \in {"cloud", "own", "iso"}, zfs, data \in BOOLEAN :
       /\ MayStart(b, n, zfs)
       /\ mode = "iso" => ~data
       /\ job' = [job EXCEPT ![b] = [NoJob EXCEPT
                    !.pc = IF mode = "iso" THEN "root" ELSE "lock",
                    !.vm = n, !.proc = p, !.mode = mode, !.zfs = zfs, !.data = data]]
  /\ UNCHANGED <<mu, image, hostVars, faults>>

-----------------------------------------------------------------------------
(* 1: the image, under imageFetchMu.                                       *)

\* An image of the operator's own needs nothing of the cache.
LockImage(b) ==
  /\ job[b].pc = "lock"
  /\ mu[job[b].proc] = None
  /\ mu' = IF job[b].mode = "own" THEN mu ELSE [mu EXCEPT ![job[b].proc] = b]
  /\ Go(b, IF job[b].mode = "own" THEN "root" ELSE "image")
  /\ UNCHANGED <<image, hostVars, faults>>

UnlockImage(b) == mu' = [mu EXCEPT ![job[b].proc] = None]

\* cachedImage: any file that is not empty is a hit.
CacheHit(b) ==
  /\ job[b].pc = "image" /\ image # "none"
  /\ Go(b, "root")
  /\ UnlockImage(b)
  /\ UNCHANGED <<image, hostVars, faults>>

\* resolveCloudImage fails, or mkdir does.
ResolveFails(b) ==
  /\ job[b].pc = "image"
  /\ FailWith(b)
  /\ UnlockImage(b)
  /\ Fault
  /\ UNCHANGED <<image, hostVars>>

\* curl -o: the file is there from the first byte.
Download(b) ==
  /\ job[b].pc = "image" /\ image = "none"
  /\ Go(b, "curl")
  /\ image' = "part"
  /\ UNCHANGED <<mu, hostVars, faults>>

\* It ends with the vendor's bytes or, a fault, with others.
Downloaded(b) ==
  /\ job[b].pc = "curl"
  /\ Go(b, "verify")
  /\ \/ image' = "good" /\ NoFault
     \/ image' = "bad" /\ Fault
  /\ UNCHANGED <<mu, hostVars>>

\* It fails before anything has come, or breaks off, and what has come stays.
DownloadFails(b) ==
  /\ \/ job[b].pc = "image" /\ image = "none" /\ UNCHANGED image
     \/ job[b].pc = "curl" /\ image' = "left"
  /\ FailWith(b)
  /\ UnlockImage(b)
  /\ Fault
  /\ UNCHANGED hostVars

\* VerifyImage.  A mismatch removes the file, with an os.Remove whose error is
\* dropped: the directory is root's, vmxplore may not be.  When the manifest or the
\* sum cannot be had the file stays.
Verify(b) ==
  /\ job[b].pc = "verify"
  /\ \/ image = "good" /\ image' = image /\ Go(b, "root") /\ NoFault
     \/ image # "good" /\ image' \in {"none", "left"} /\ FailWith(b) /\ NoFault
     \/ image' = "left" /\ FailWith(b) /\ Fault
  /\ UnlockImage(b)
  /\ UNCHANGED hostVars

-----------------------------------------------------------------------------
(* 2 to 5: the disks, the seed, the domain.                                *)

\* fileAbsent, before a command that would overwrite the file.
LookFor(b, w) ==
  /\ w \in Files /\ ~job[b].seen
  /\ job' = [job EXCEPT ![b].seen = TRUE, ![b].fresh = owner[job[b].vm][w] = None]
  /\ UNCHANGED <<mu, image, hostVars, faults>>

\* zfs create -V: fails when the dataset exists.
MakeZvol(b, w, pc) ==
  /\ w \in Zvols
  /\ \/ /\ owner[job[b].vm][w] = None
        /\ owner' = [owner EXCEPT ![job[b].vm][w] = b]
        /\ MadeAndGo(b, w, pc) /\ NoFault
     \/ owner[job[b].vm][w] # None /\ FailWith(b) /\ NoFault /\ UNCHANGED owner
     \/ FailWith(b) /\ Fault /\ UNCHANGED owner
  /\ UNCHANGED <<mu, image, dom>>

\* qemu-img convert, qemu-img create or install: they overwrite.  The undo is
\* registered when the file was not there at the look and the command did not
\* fail: of the half it left then nobody knows.
MakeFile(b, w, pc) ==
  /\ w \in Files /\ job[b].seen
  /\ \/ /\ owner' = [owner EXCEPT ![job[b].vm][w] = IF job[b].fresh THEN b ELSE @]
        /\ IF job[b].fresh THEN MadeAndGo(b, w, pc)
           ELSE job' = [job EXCEPT ![b].pc = pc, ![b].seen = FALSE, ![b].over = @ \cup {w}]
        /\ NoFault
     \/ /\ FailWith(b) /\ Fault
        /\ owner' \in {owner} \cup (IF Torn /\ job[b].fresh
                                 THEN {[owner EXCEPT ![job[b].vm][w] = b]} ELSE {})
  /\ UNCHANGED <<mu, image, dom>>

RootDisk(b) ==
  /\ job[b].pc = "root"
  /\ \/ LookFor(b, RootOf(b))
     \/ MakeZvol(b, RootOf(b), IF job[b].mode = "iso" THEN AfterRoot(b) ELSE "fill")
     \/ MakeFile(b, RootOf(b), IF job[b].mode = "iso" THEN AfterRoot(b) ELSE "fill")

\* Of the file in the cache: one that is being fetched or hashed is "unchecked".
Standing == IF image = "good" THEN "verified" ELSE IF image = "left" THEN "leftover" ELSE "unchecked"

\* waitZvolNode and qemu-img convert, or qemu-img resize of the file: what the
\* disk boots is what the cache holds now.
Fill(b) ==
  /\ job[b].pc = "fill"
  /\ \/ /\ job' = [job EXCEPT ![b].pc = AfterRoot(b),
                              ![b].boots = IF job[b].mode = "own" THEN "own" ELSE Standing]
        /\ NoFault
     \/ FailWith(b) /\ Fault
  /\ UNCHANGED <<mu, image, hostVars>>

\* dataDiskParent may name another pool; the name is the same.
DataDisk(b) ==
  /\ job[b].pc = "data"
  /\ \/ LookFor(b, DataOf(b))
     \/ MakeZvol(b, DataOf(b), "seed")
     \/ MakeFile(b, DataOf(b), "seed")

\* The seed is written in a temporary directory and installed, whatever the
\* disks are made of.
Seed(b) ==
  /\ job[b].pc = "seed"
  /\ LookFor(b, "seed") \/ MakeFile(b, "seed", "install")

\* virt-install starts a domain of a name that is free.  Of an import it is
\* transient, until it has been defined; of an installer's ISO it is not, and
\* the build is over.  An os-variant it does not know is tried again.
VirtInstall(b) ==
  /\ job[b].pc \in {"install", "detect"}
  /\ \/ job[b].pc = "install" /\ job[b].mode # "iso" /\ Go(b, "detect") /\ NoFault /\ UNCHANGED dom
     \/ /\ dom[job[b].vm].st = "none"
        /\ IF job[b].mode = "iso"
           THEN /\ dom' = [dom EXCEPT ![job[b].vm] = [st |-> "defined", by |-> b]]
                /\ job' = [job EXCEPT ![b].pc = "ok", ![b].undo = <<>>]
           ELSE /\ dom' = [dom EXCEPT ![job[b].vm] = [st |-> "transient", by |-> b]]
                /\ MadeAndGo(b, "dom", "define")
        /\ NoFault
     \/ dom[job[b].vm].st # "none" /\ FailWith(b) /\ NoFault /\ UNCHANGED dom
     \/ FailWith(b) /\ Fault /\ UNCHANGED dom
  /\ UNCHANGED <<mu, image, owner>>

\* virsh define of the live XML, and rb.commit.  Sound is never fatal.
Define(b) ==
  /\ job[b].pc = "define"
  /\ \/ /\ dom' = [dom EXCEPT ![job[b].vm].st = "defined"]
        /\ job' = [job EXCEPT ![b].pc = "ok", ![b].undo = <<>>]
        /\ NoFault
     \/ FailWith(b) /\ Fault /\ UNCHANGED dom
  /\ UNCHANGED <<mu, image, owner>>

-----------------------------------------------------------------------------
(* rollback.run: the undos, newest first, each once; what one returns is   *)
(* dropped.                                                                *)

\* A zvol the build's own domain still has open cannot be destroyed.
Open(b, w) == w \in Zvols /\ dom[job[b].vm] = [st |-> "transient", by |-> b]

Takes(b, w, ok) ==
  LET n == job[b].vm
  IN /\ owner' = IF ok /\ w # "dom" THEN [owner EXCEPT ![n][w] = None] ELSE owner
     /\ dom' = IF ok /\ w = "dom" THEN [dom EXCEPT ![n] = NoDom] ELSE dom

\* The undo of the file f is `rm -f`, of a zvol `zfs destroy -r`, of the domain
\* `virsh destroy`; qemu may hold a zvol for a moment after it, a fault here.
Undone(b, clean) ==
  LET rest == Front(job[b].undo)
  IN job' = [job EXCEPT ![b].undo = rest, ![b].clean = clean,
               ![b].pc = IF rest # <<>> THEN "undo" ELSE IF clean THEN "failed" ELSE "broken"]

Undoes(b, w, ok) ==
  /\ IF ok THEN ~Open(b, w) /\ NoFault
     ELSE IF Open(b, w) THEN NoFault ELSE Fault
  /\ Takes(b, w, ok)
  /\ Undone(b, job[b].clean /\ (ok \/ Open(b, w)))

Undo(b) ==
  /\ job[b].pc = "undo"
  /\ \E ok \in BOOLEAN : Undoes(b, Last(job[b].undo), ok)
  /\ UNCHANGED <<mu, image>>

\* The process is killed, its commands with it: nothing deferred runs.  Killed
\* while it fetches or hashes it leaves what has arrived.
Crash(p) ==
  /\ \E b \in Job : Running(b) /\ job[b].proc = p
  /\ job' = [b \in Job |-> IF Running(b) /\ job[b].proc = p
                           THEN [job[b] EXCEPT !.pc = "broken"] ELSE job[b]]
  /\ mu' = [mu EXCEPT ![p] = None]
  /\ image' = IF \E b \in Job : job[b].pc \in {"curl", "verify"} /\ job[b].proc = p THEN "left" ELSE image
  /\ Fault
  /\ UNCHANGED hostVars

-----------------------------------------------------------------------------

Step(b) ==
  \/ LockImage(b) \/ CacheHit(b) \/ ResolveFails(b)
  \/ Download(b) \/ Downloaded(b) \/ DownloadFails(b) \/ Verify(b)
  \/ RootDisk(b) \/ Fill(b) \/ DataDisk(b) \/ Seed(b)
  \/ VirtInstall(b) \/ Define(b) \/ Undo(b)

Next ==
  \/ \E b \in Job : Step(b) \/ \E n \in Name, p \in Proc : Begin(b, n, p)
  \/ \E p \in Proc : Crash(p)

Spec == Init /\ [][Next]_vars /\ \A b \in Job : WF_vars(Step(b))

-----------------------------------------------------------------------------
(* Properties.                                                             *)

TypeOK ==
  /\ \A b \in Job :
       /\ DOMAIN job[b] = DOMAIN NoJob
       /\ job[b].pc \in PC /\ job[b].vm \in Name \cup {None} /\ job[b].proc \in Proc \cup {None}
       /\ job[b].over \subseteq Files
       /\ \A i \in DOMAIN job[b].undo : job[b].undo[i] \in Needs(b)
  /\ mu \in [Proc -> Job \cup {None}]
  /\ image \in {"none", "part", "bad", "good", "left"}
  /\ owner \in [Name -> [Zvols \cup Files -> Job \cup {None, Old}]]
  /\ dom \in [Name -> [st : {"none", "transient", "defined"}, by : Job \cup {None, Old}]]
  /\ faults \in 0..MaxFault

\* The parts that a build made or, while it stands, wrote over.
Own(b) ==
  IF job[b].vm = None THEN {}
  ELSE {w \in Zvols \cup Files : owner[job[b].vm][w] = b}
       \cup (IF dom[job[b].vm].by = b /\ (job[b].pc = "ok" => dom[job[b].vm].st = "defined")
             THEN {"dom"} ELSE {})
       \cup (IF job[b].pc \in {"idle", "failed", "broken"} THEN {} ELSE job[b].over)

Phase(b) == IF Running(b) THEN "works" ELSE IF job[b].pc = "ok" THEN "done" ELSE job[b].pc

Abstract == INSTANCE AllOrNothing WITH
  Part <- Parts,
  phase <- [b \in Job |-> Phase(b)],
  needs <- [b \in Job |-> IF job[b].pc = "idle" THEN {} ELSE Needs(b)],
  has <- [b \in Job |-> Own(b)]

\* A build that says the VM is up has made all of it, one that failed has left
\* nothing unless an undo failed or it was killed, and neither touches what it
\* made once it has ended ("A failed build unwinds itself").  A domain that a
\* reboot of the host would lose is not "the VM that was asked for".
BuildIsAllOrNothing == Abstract!Spec

\* What was there before a build is never taken away by one, and a zvol is not
\* even written to.
OldKept ==
  [][\A n \in Name : /\ \A w \in Zvols \cup Files : owner[n][w] = Old => owner'[n][w] = Old
                     /\ dom[n].by = Old => UNCHANGED dom[n]]_vars

\* Within a process nobody takes the image out of the cache while another is
\* fetching or hashing it (imageFetchMu): a disk is filled with an image that has
\* passed VerifyImage, or with the file that a fetch left which failed.  That the
\* second happens is against "A failure here deletes the file": a curl cut off, a
\* manifest that cannot be had, a mismatch that os.Remove may not take away and a
\* kill each leave a file that every later build takes for a cached image.
ImagesSettled == \A b \in Job : job[b].boots # "unchecked"

\* While a build is under way one of them can go on, also when all but one wait
\* for another's download: the mutex of the cache is left on every path.
BuildsNeverStuck == (\E b \in Job : Running(b)) => \E b \in Job : Running(b) /\ ENABLED Step(b)

=============================================================================
