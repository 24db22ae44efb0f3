---------------------------- MODULE BuildingProofs ----------------------------
(***************************************************************************)
(* What the making of machines promises, for any number of builds, names,  *)
(* guests and clones, any bound on the faults.                             *)
(***************************************************************************)
EXTENDS MCBuilding, EnrollProofs, SequenceTheorems, FiniteSetTheorems

-----------------------------------------------------------------------------
(* Builds: the inductive invariant.                                        *)

JobRec == [pc : Bld!PC, vm : Name \cup {None}, proc : Builders \cup {None}, mode : {"cloud", "own", "iso"},
           zfs : BOOLEAN, data : BOOLEAN, seen : BOOLEAN, fresh : BOOLEAN, undo : Seq(Bld!Parts),
           over : SUBSET Bld!Files, clean : BOOLEAN,
           boots : {"nothing", "own", "verified", "leftover", "unchecked"}]

Disks == Bld!Zvols \cup Bld!Files

BuildTypes ==
  /\ job \in [Job -> JobRec]
  /\ owner \in [Name -> [Disks -> Job \cup {None, Old}]]
  /\ dom \in [Name -> [st : {"none", "transient", "defined"}, by : Job \cup {None, Old}]]

\* What a build owns bears its name.
Named ==
  /\ \A n \in Name, b \in Job :
       (\E w \in Disks : owner[n][w] = b) \/ dom[n].by = b => job[b].vm = n /\ job[b].pc # "idle"
  /\ \A n \in Name : dom[n].st = "none" => dom[n].by = None

\* Two builds of one name are both on ZFS (MayStart).
Apart ==
  \A b, c \in Job : b # c /\ Bld!Running(b) /\ Bld!Running(c) /\ job[b].vm = job[c].vm => job[b].zfs /\ job[c].zfs

\* A build that has begun has a name and a process; an ISO skips steps.
Begun(b) ==
  IF job[b].pc = "idle" THEN job[b] = Bld!NoJob
  ELSE /\ job[b].vm \in Name /\ job[b].proc \in Builders
       /\ job[b].mode = "iso" =>
            ~job[b].data /\ job[b].pc \notin {"lock", "image", "curl", "verify", "fill", "data", "seed", "detect", "define"}
       /\ job[b].pc = "data" => job[b].data

\* What a build has made ...
Made(b) == {w \in Disks : owner[job[b].vm][w] = b} \cup (IF dom[job[b].vm].by = b THEN {"dom"} ELSE {})

\* ... and what is there when it has come to where it is.
Due(b) ==
  (IF job[b].pc \in {"fill", "data", "seed", "install", "detect", "define"} THEN {Bld!RootOf(b)} ELSE {})
  \cup (IF job[b].data /\ job[b].pc \in {"seed", "install", "detect", "define"} THEN {Bld!DataOf(b)} ELSE {})
  \cup (IF job[b].mode # "iso" /\ job[b].pc \in {"install", "detect", "define"} THEN {"seed"} ELSE {})
  \cup (IF job[b].pc = "define" THEN {"dom"} ELSE {})

ToUndo(b) == {job[b].undo[i] : i \in 1..Len(job[b].undo)}

\* The stack of undos: each part once, the domain last.
Once(b) ==
  /\ \A i, k \in 1..Len(job[b].undo) : job[b].undo[i] = job[b].undo[k] => i = k
  /\ \A i \in 1..Len(job[b].undo) : job[b].undo[i] = "dom" => i = Len(job[b].undo)

\* What a build under way has made is what it would undo, and with what it wrote
\* over it is what is due; what an unclean undo leaves is still its own.
Stacked(b) ==
  Bld!Running(b) =>
    /\ Once(b)
    /\ ToUndo(b) \subseteq Made(b)
    /\ Made(b) \cup job[b].over \subseteq Bld!Needs(b)
    /\ job[b].pc = "undo" => job[b].undo # <<>> /\ (job[b].clean => Made(b) = ToUndo(b))
    /\ job[b].pc # "undo" => job[b].clean /\ Made(b) = ToUndo(b) /\ Made(b) \cup job[b].over = Due(b)

\* The file it found absent nobody has made since.
FileOf(b) == IF job[b].pc = "root" THEN "froot" ELSE IF job[b].pc = "data" THEN "fdata" ELSE "seed"
Fresh(b) ==
  job[b].seen =>
    /\ job[b].pc # "fill"
    /\ job[b].pc \in {"root", "data"} => ~job[b].zfs
    /\ job[b].pc \in {"root", "data", "seed"} /\ job[b].fresh => owner[job[b].vm][FileOf(b)] = None

HasEnded(b) ==
  /\ job[b].pc = "ok" => Bld!Own(b) = Bld!Needs(b)
  /\ job[b].pc = "failed" => Made(b) = {}
  /\ job[b].pc = "broken" => Made(b) \subseteq Bld!Needs(b)

Mine(b) == Begun(b) /\ Stacked(b) /\ Fresh(b) /\ HasEnded(b)

BuildInv == BuildTypes /\ Named /\ Apart /\ \A b \in Job : Mine(b)

-----------------------------------------------------------------------------

LEMMA BuildFacts ==
  /\ None \notin Job /\ Old \notin Job /\ None # Old /\ None \notin Name
  /\ Bld!NoJob.pc = "idle" /\ Bld!NoJob.vm = None
  BY BuildingAssumption DEF Bld!BuildAssumption, Bld!NoJob

LEMMA NoJobIsRec == Bld!NoJob \in JobRec
<1>1. <<>> \in Seq(Bld!Parts)
  OBVIOUS
<1> QED
  BY <1>1 DEF Bld!NoJob, JobRec, Bld!PC

LEMMA BuildInitHolds == Bld!Init => BuildInv
<1> SUFFICES ASSUME Bld!Init PROVE BuildInv
  OBVIOUS
<1>1. job = [b \in Job |-> Bld!NoJob]
  BY DEF Bld!Init
<1>2. \A n \in Name : /\ \A w \in Disks : owner[n][w] \in {None, Old}
                      /\ dom[n].by \in {None, Old} /\ (dom[n].st = "none" => dom[n].by = None)
  BY DEF Bld!Init, Disks, Bld!NoDom
<1>3. BuildTypes
  BY <1>1, NoJobIsRec DEF BuildTypes, Bld!Init, Disks, Bld!NoDom
<1>4. Named
  BY <1>2, BuildFacts DEF Named
<1>5. Apart
  BY <1>1, BuildFacts DEF Apart, Bld!Running
<1>6. ASSUME NEW b \in Job PROVE Mine(b)
  BY <1>1, BuildFacts DEF Mine, Begun, Stacked, Fresh, HasEnded, Bld!Running
<1> QED
  BY <1>3, <1>4, <1>5, <1>6 DEF BuildInv

-----------------------------------------------------------------------------
(* A step of a build: of other builds, and of what was there, it touches   *)
(* nothing.                                                                *)

\* What is not the disks and domains, and how the pc goes.
LEMMA StepRuns ==
  ASSUME BuildInv, NEW b \in Job, Bld!Step(b) PROVE Bld!Running(b)
  BY DEF Bld!Step, Bld!LockImage, Bld!CacheHit, Bld!ResolveFails, Bld!Download, Bld!Downloaded, Bld!DownloadFails,
    Bld!Verify, Bld!RootDisk, Bld!Fill, Bld!DataDisk, Bld!Seed, Bld!VirtInstall, Bld!Define, Bld!Undo, Bld!Running

\* What every step of a build leaves alone of the builds, and the kinds of step.
Frame(b) ==
  /\ job' \in [Job -> JobRec]
  /\ \A c \in Job \ {b} : job'[c] = job[c]
  /\ job'[b].vm = job[b].vm /\ job'[b].proc = job[b].proc /\ job'[b].mode = job[b].mode
  /\ job'[b].zfs = job[b].zfs /\ job'[b].data = job[b].data

\* It touches nothing of another's.
Keeps(b) ==
  /\ Frame(b) /\ job'[b].pc # "idle"
  /\ owner' \in [Name -> [Disks -> Job \cup {None, Old}]]
  /\ dom' \in [Name -> [st : {"none", "transient", "defined"}, by : Job \cup {None, Old}]]
  /\ \A n \in Name, w \in Disks : owner'[n][w] # owner[n][w] =>
       n = job[b].vm /\ owner[n][w] \in {None, b} /\ owner'[n][w] \in {None, b}
  /\ \A n \in Name : dom'[n] # dom[n] =>
       /\ n = job[b].vm /\ dom[n].by \in {None, b} /\ dom'[n].by \in {None, b}
       /\ dom'[n].st = "none" => dom'[n].by = None

Onward(b) == Bld!Running(b) /\ job[b].pc # "undo" /\ Bld!Running(b)' /\ job'[b].pc # "undo" /\ Begun(b)' /\ Fresh(b)'
Same(b) == job'[b].undo = job[b].undo /\ job'[b].over = job[b].over /\ job'[b].clean = job[b].clean

Advances(b) == Onward(b) /\ Same(b) /\ Due(b)' = Due(b) /\ UNCHANGED <<owner, dom>>

Fails(b) ==
  /\ Bld!Running(b) /\ job[b].pc # "undo" /\ Same(b) /\ UNCHANGED <<owner, dom>>
  /\ job'[b].pc = IF job[b].undo = <<>> THEN "failed" ELSE "undo"

Overwrites(b, w) ==
  /\ Onward(b) /\ w \in Bld!Needs(b)
  /\ Due(b)' = Due(b) \cup {w} /\ UNCHANGED <<owner, dom>>
  /\ job'[b].undo = job[b].undo /\ job'[b].clean = job[b].clean /\ job'[b].over = job[b].over \cup {w}

Makes(b, w) ==
  /\ Onward(b) /\ w \in Bld!Needs(b) /\ w \notin Due(b)
  /\ Due(b)' = Due(b) \cup {w}
  /\ job'[b].undo = Append(job[b].undo, w) /\ job'[b].clean = job[b].clean /\ job'[b].over = job[b].over

MakesDisk(b, w) ==
  /\ Makes(b, w) /\ w \in Disks /\ UNCHANGED dom
  /\ job[b].pc # "detect" /\ job[b].pc # "install"
  /\ owner[job[b].vm][w] = None /\ owner' = [owner EXCEPT ![job[b].vm][w] = b]

MakesDom(b) ==
  /\ Makes(b, "dom") /\ UNCHANGED owner
  /\ dom[job[b].vm].st = "none" /\ dom' = [dom EXCEPT ![job[b].vm] = [st |-> "transient", by |-> b]]

Finishes(b) ==
  /\ Bld!Running(b) /\ job[b].pc # "undo" /\ UNCHANGED owner
  /\ Due(b) \cup {"dom"} = Bld!Needs(b)
  /\ job'[b].pc = "ok" /\ job'[b].over = job[b].over /\ job'[b].undo = <<>>
  /\ dom[job[b].vm].st = "none" \/ dom[job[b].vm].by = b
  /\ dom' = [dom EXCEPT ![job[b].vm] = [st |-> "defined", by |-> b]]

TakesBack(b) ==
  /\ job[b].pc = "undo" /\ job[b].undo # <<>>
  /\ LET w == job[b].undo[Len(job[b].undo)] IN
     \/ /\ owner' = (IF w # "dom" THEN [owner EXCEPT ![job[b].vm][w] = None] ELSE owner)
        /\ dom' = (IF w = "dom" THEN [dom EXCEPT ![job[b].vm] = Bld!NoDom] ELSE dom)
        /\ job'[b].clean = job[b].clean
     \/ UNCHANGED <<owner, dom>> /\ job'[b].clean = FALSE
  /\ job'[b].undo = Bld!Front(job[b].undo) /\ job'[b].over = job[b].over
  /\ job'[b].pc = IF Bld!Front(job[b].undo) # <<>> THEN "undo" ELSE IF job'[b].clean THEN "failed" ELSE "broken"

LEMMA JobParts ==
  ASSUME BuildInv, NEW b \in Job, Bld!Running(b)
  PROVE  /\ job \in [Job -> JobRec] /\ job[b] \in JobRec /\ job[b].vm \in Name /\ Begun(b) /\ Stacked(b) /\ Fresh(b)
         /\ job[b].pc \in Bld!PC /\ job[b].undo \in Seq(Bld!Parts) /\ job[b].over \in SUBSET Bld!Files
         /\ job[b].zfs \in BOOLEAN /\ job[b].data \in BOOLEAN /\ job[b].mode \in {"cloud", "own", "iso"}
  BY DEF BuildInv, BuildTypes, Mine, Begun, Bld!Running, JobRec

\* The changes a step makes to its own record.
LEMMA Record ==
  ASSUME BuildInv, NEW b \in Job, NEW r \in JobRec, job' = [job EXCEPT ![b] = r],
         r.vm = job[b].vm, r.proc = job[b].proc, r.mode = job[b].mode, r.zfs = job[b].zfs, r.data = job[b].data
  PROVE  Frame(b) /\ job'[b] = r
  BY DEF BuildInv, BuildTypes, Frame

LEMMA RecordGoes ==
  ASSUME BuildInv, NEW b \in Job, NEW q \in Bld!PC, Bld!Go(b, q)
  PROVE  Frame(b) /\ job'[b] = [job[b] EXCEPT !.pc = q, !.seen = FALSE]
<1>1. job[b] \in JobRec
  BY DEF BuildInv, BuildTypes
<1>2. [job[b] EXCEPT !.pc = q, !.seen = FALSE] \in JobRec
  BY <1>1 DEF JobRec
<1>3. job' = [job EXCEPT ![b] = [job[b] EXCEPT !.pc = q, !.seen = FALSE]]
  BY DEF Bld!Go
<1> QED
  BY <1>1, <1>2, <1>3, Record DEF JobRec

\* To another place with nothing made.
LEMMA GoAdvances ==
  ASSUME BuildInv, NEW b \in Job, Bld!Running(b), job[b].pc # "undo", NEW q, Bld!Go(b, q), UNCHANGED <<owner, dom>>,
         \/ job[b].pc \in {"lock", "image", "curl", "verify"} /\ q \in {"image", "curl", "verify", "root"}
         \/ job[b].pc = "install" /\ q = "detect" /\ job[b].mode # "iso"
  PROVE  Frame(b) /\ Advances(b)
<1>1. q \in Bld!PC
  BY DEF Bld!PC
<1>2. Frame(b) /\ job'[b] = [job[b] EXCEPT !.pc = q, !.seen = FALSE]
  BY <1>1, RecordGoes
<1> QED
  BY <1>1, <1>2, JobParts DEF Frame, Advances, Onward, Same, Due, Begun, Fresh, Bld!Running, Bld!RootOf, Bld!DataOf, JobRec

LEMMA Failing ==
  ASSUME BuildInv, NEW b \in Job, Bld!Running(b), job[b].pc # "undo", Bld!FailWith(b), UNCHANGED <<owner, dom>>
  PROVE  Frame(b) /\ Fails(b)
<1> DEFINE q == IF job[b].undo = <<>> THEN "failed" ELSE "undo"
           r == [job[b] EXCEPT !.pc = q]
<1>1. r \in JobRec
  BY ZenonT(60), JobParts DEF JobRec, Bld!PC
<1>2. job' = [job EXCEPT ![b] = r]
  BY DEF Bld!FailWith
<1>3. Frame(b) /\ job'[b] = r
  BY <1>1, <1>2, JobParts, Record DEF JobRec
<1> QED
  BY <1>3, JobParts DEF Fails, Same, JobRec

LEMMA RecordMakes ==
  ASSUME BuildInv, NEW b \in Job, NEW w \in Bld!Parts, NEW q \in Bld!PC, Bld!MadeAndGo(b, w, q)
  PROVE  Frame(b) /\ job'[b] = [job[b] EXCEPT !.pc = q, !.seen = FALSE, !.undo = Append(@, w)]
<1> DEFINE r == [job[b] EXCEPT !.pc = q, !.seen = FALSE, !.undo = Append(@, w)]
<1>1. job[b] \in JobRec /\ Append(job[b].undo, w) \in Seq(Bld!Parts)
  BY DEF BuildInv, BuildTypes, JobRec
<1>2. r \in JobRec
  BY <1>1 DEF JobRec
<1>3. job' = [job EXCEPT ![b] = r]
  BY DEF Bld!MadeAndGo
<1> QED
  BY ZenonT(60), <1>1, <1>2, <1>3, Record DEF JobRec

\* The part that is made where a build is, and where it goes from there.
Fits(b, w, q) ==
  \/ job[b].pc = "root" /\ w = Bld!RootOf(b) /\ q = IF job[b].mode = "iso" THEN Bld!AfterRoot(b) ELSE "fill"
  \/ job[b].pc = "data" /\ w = Bld!DataOf(b) /\ q = "seed"
  \/ job[b].pc = "seed" /\ w = "seed" /\ q = "install"

LEMMA FitsDue ==
  ASSUME BuildInv, NEW b \in Job, Bld!Running(b), NEW w, NEW q, Fits(b, w, q)
  PROVE  /\ w \in Bld!Needs(b) /\ w \in Disks /\ w \in Bld!Parts /\ w \notin Due(b)
         /\ q \in {"fill", "seed", "install"} /\ q \in Bld!PC
         /\ (Frame(b) /\ job'[b].pc = q /\ job'[b].seen = FALSE => Onward(b) /\ Due(b)' = Due(b) \cup {w})
<1>1. /\ w \in Bld!Needs(b) /\ w \in Disks /\ w \in Bld!Parts /\ w \notin Due(b)
      /\ q \in {"fill", "seed", "install"} /\ q \in Bld!PC
  BY JobParts DEF Fits, Bld!Needs, Disks, Bld!Parts, Bld!Zvols, Bld!Files, Bld!RootOf, Bld!DataOf, Bld!AfterRoot,
    Due, Bld!PC, Begun
<1>2. ASSUME Frame(b), job'[b].pc = q, job'[b].seen = FALSE PROVE Onward(b) /\ Due(b)' = Due(b) \cup {w}
  <2>1. Onward(b)
    BY <1>1, <1>2, JobParts DEF Fits, Frame, Onward, Begun, Fresh, Bld!Running, Bld!AfterRoot
  <2>2. Bld!RootOf(b)' = Bld!RootOf(b) /\ Bld!DataOf(b)' = Bld!DataOf(b)
    BY <1>2 DEF Frame, Bld!RootOf, Bld!DataOf
  <2>3. CASE job[b].pc = "root"
    <3>1. w = Bld!RootOf(b) /\ Due(b) = {}
      BY <2>3 DEF Fits, Due
    <3>2. q = "fill" \/ (q = "install" /\ job[b].mode = "iso" /\ ~job[b].data)
      BY <2>3, JobParts DEF Fits, Begun, Bld!AfterRoot
    <3>3. Due(b)' = {Bld!RootOf(b)}
      BY <1>2, <2>2, <3>2 DEF Due, Frame
    <3> QED
      BY <2>1, <3>1, <3>3
  <2>4. CASE job[b].pc = "data"
    <3>1. w = Bld!DataOf(b) /\ q = "seed" /\ job[b].data /\ Due(b) = {Bld!RootOf(b)}
      BY <2>4, JobParts DEF Fits, Due, Begun
    <3>2. Due(b)' = {Bld!RootOf(b)} \cup {Bld!DataOf(b)}
      BY <1>2, <2>2, <3>1 DEF Due, Frame
    <3> QED
      BY <2>1, <3>1, <3>2
  <2>5. CASE job[b].pc = "seed"
    <3> DEFINE d == IF job[b].data THEN {Bld!DataOf(b)} ELSE {}
    <3>1. w = "seed" /\ q = "install" /\ job[b].mode # "iso" /\ Due(b) = {Bld!RootOf(b)} \cup d
      BY <2>5, JobParts DEF Fits, Due, Begun
    <3>2. Due(b)' = {Bld!RootOf(b)} \cup d \cup {"seed"}
      BY <1>2, <2>2, <3>1 DEF Due, Frame
    <3> QED
      BY <2>1, <3>1, <3>2
  <2> QED
    BY <2>1, <2>3, <2>4, <2>5 DEF Fits
<1> QED
  BY <1>1, <1>2

LEMMA Looks ==
  ASSUME BuildInv, NEW b \in Job, Bld!Running(b), NEW w, NEW q, Fits(b, w, q), Bld!LookFor(b, w)
  PROVE  Frame(b) /\ Advances(b)
<1> DEFINE r == [job[b] EXCEPT !.seen = TRUE, !.fresh = owner[job[b].vm][w] = None]
<1>0. (owner[job[b].vm][w] = None) \in BOOLEAN
  OBVIOUS
<1>1. r \in JobRec
  BY <1>0, JobParts DEF JobRec
<1>2. job' = [job EXCEPT ![b] = r]
  BY DEF Bld!LookFor
<1>9. r.vm = job[b].vm /\ r.proc = job[b].proc /\ r.mode = job[b].mode /\ r.zfs = job[b].zfs /\ r.data = job[b].data
  BY <1>0, JobParts DEF JobRec
<1>3. Frame(b) /\ job'[b] = r
  <2> HIDE DEF r
  <2> QED
    BY <1>1, <1>2, <1>9, Record
<1>4. UNCHANGED <<owner, dom>> /\ w \in Bld!Files
  BY DEF Bld!LookFor, Bld!hostVars
<1>5. /\ job'[b].pc = job[b].pc /\ job'[b].seen = TRUE /\ (job'[b].fresh => owner[job[b].vm][w] = None)
      /\ job'[b].undo = job[b].undo /\ job'[b].over = job[b].over /\ job'[b].clean = job[b].clean
  BY <1>3, JobParts DEF JobRec
<1>6. Fresh(b)'
  BY <1>3, <1>4, <1>5, JobParts DEF Fresh, FileOf, Fits, Frame, Bld!RootOf, Bld!DataOf, Bld!Files
<1>7. Begun(b)' /\ Bld!Running(b)' /\ Due(b)' = Due(b)
  BY <1>3, <1>5, JobParts DEF Begun, Bld!Running, Due, Frame, Bld!RootOf, Bld!DataOf
<1> QED
  BY <1>3, <1>4, <1>5, <1>6, <1>7 DEF Advances, Onward, Same, Fits

LEMMA Zvols ==
  ASSUME BuildInv, NEW b \in Job, Bld!Running(b), NEW w, NEW q, Fits(b, w, q), Bld!MakeZvol(b, w, q)
  PROVE  Frame(b) /\ (Fails(b) \/ MakesDisk(b, w))
<1>1. job[b].pc \in {"root", "data", "seed"} /\ UNCHANGED dom
  BY DEF Fits, Bld!MakeZvol
<1>2. CASE Bld!FailWith(b) /\ UNCHANGED owner
  BY <1>1, <1>2, Failing
<1>3. CASE /\ owner[job[b].vm][w] = None /\ owner' = [owner EXCEPT ![job[b].vm][w] = b]
           /\ Bld!MadeAndGo(b, w, q)
  <2>1. Frame(b) /\ job'[b] = [job[b] EXCEPT !.pc = q, !.seen = FALSE, !.undo = Append(@, w)]
    BY <1>3, FitsDue, RecordMakes
  <2>2. /\ job'[b].pc = q /\ job'[b].seen = FALSE /\ job'[b].undo = Append(job[b].undo, w)
        /\ job'[b].clean = job[b].clean /\ job'[b].over = job[b].over
    BY <2>1, JobParts DEF JobRec
  <2>3. Makes(b, w)
    BY <2>1, <2>2, FitsDue DEF Makes
  <2> QED
    BY <1>1, <1>3, <2>1, <2>3, FitsDue DEF MakesDisk
<1> QED
  BY <1>2, <1>3 DEF Bld!MakeZvol

\* A file found absent is made, one that was there is written over.
LEMMA FileMade ==
  ASSUME BuildInv, NEW b \in Job, Bld!Running(b), NEW w, NEW q, Fits(b, w, q), Bld!MakeFile(b, w, q)
  PROVE  Frame(b) /\ (Fails(b) \/ MakesDisk(b, w) \/ Overwrites(b, w))
<1>1. job[b].pc \in {"root", "data", "seed"} /\ UNCHANGED dom /\ w \in Bld!Files /\ job[b].seen
  BY DEF Fits, Bld!MakeFile
<1>2. CASE Bld!FailWith(b) /\ UNCHANGED owner
  BY <1>1, <1>2, Failing
<1>3. CASE job[b].fresh /\ owner' = [owner EXCEPT ![job[b].vm][w] = b] /\ Bld!MadeAndGo(b, w, q)
  <2>1. Frame(b) /\ job'[b] = [job[b] EXCEPT !.pc = q, !.seen = FALSE, !.undo = Append(@, w)]
    BY <1>3, FitsDue, RecordMakes
  <2>2. /\ job'[b].pc = q /\ job'[b].seen = FALSE /\ job'[b].undo = Append(job[b].undo, w)
        /\ job'[b].clean = job[b].clean /\ job'[b].over = job[b].over
    BY <2>1, JobParts DEF JobRec
  <2>3. Makes(b, w)
    BY <2>1, <2>2, FitsDue DEF Makes
  <2>4. owner[job[b].vm][w] = None
    BY <1>1, <1>3, JobParts DEF Fresh, FileOf, Fits, Bld!RootOf, Bld!DataOf, Bld!Files
  <2> QED
    BY <1>1, <1>3, <2>1, <2>3, <2>4, FitsDue DEF MakesDisk
<1>4. CASE ~job[b].fresh /\ UNCHANGED owner /\ job' = [job EXCEPT ![b].pc = q, ![b].seen = FALSE, ![b].over = @ \cup {w}]
  <2> DEFINE r == [job[b] EXCEPT !.pc = q, !.seen = FALSE, !.over = @ \cup {w}]
  <2>0. job[b].over \cup {w} \in SUBSET Bld!Files /\ q \in Bld!PC
    BY <1>1, FitsDue, JobParts
  <2>1. r \in JobRec
    BY <2>0, JobParts DEF JobRec
  <2>2. job' = [job EXCEPT ![b] = r]
    BY <1>4
  <2>3. Frame(b) /\ job'[b] = r
    BY <2>1, <2>2, JobParts, Record DEF JobRec
  <2>4. /\ job'[b].pc = q /\ job'[b].seen = FALSE /\ job'[b].undo = job[b].undo
        /\ job'[b].clean = job[b].clean /\ job'[b].over = job[b].over \cup {w}
    BY <2>3, JobParts DEF JobRec
  <2> QED
    BY ZenonT(60), <1>1, <1>4, <2>3, <2>4, FitsDue DEF Overwrites
<1>5. /\ Bld!FailWith(b) /\ UNCHANGED owner
      \/ /\ owner' = [owner EXCEPT ![job[b].vm][w] = IF job[b].fresh THEN b ELSE @]
         /\ IF job[b].fresh THEN Bld!MadeAndGo(b, w, q)
            ELSE job' = [job EXCEPT ![b].pc = q, ![b].seen = FALSE, ![b].over = @ \cup {w}]
  BY DEF Bld!MakeFile
<1>6. ASSUME owner' = [owner EXCEPT ![job[b].vm][w] = IF job[b].fresh THEN b ELSE @], ~job[b].fresh PROVE owner' = owner
  <2>1. owner \in [Name -> [Disks -> Job \cup {None, Old}]] /\ job[b].vm \in Name
    BY JobParts DEF BuildInv, BuildTypes
  <2> QED
    BY <1>6, <2>1
<1> QED
  BY <1>2, <1>3, <1>4, <1>5, <1>6

LEMMA Filling ==
  ASSUME BuildInv, NEW b \in Job, Bld!Running(b), Bld!Fill(b)
  PROVE  Frame(b) /\ (Fails(b) \/ Advances(b))
<1>1. job[b].pc = "fill" /\ UNCHANGED <<owner, dom>> /\ job[b].mode # "iso"
  BY JobParts DEF Bld!Fill, Bld!hostVars, Begun
<1>2. CASE Bld!FailWith(b)
  BY <1>1, <1>2, Failing
<1>3. CASE job' = [job EXCEPT ![b].pc = Bld!AfterRoot(b), ![b].boots = IF job[b].mode = "own" THEN "own" ELSE Bld!Standing]
  <2> DEFINE r == [job[b] EXCEPT !.pc = Bld!AfterRoot(b), !.boots = IF job[b].mode = "own" THEN "own" ELSE Bld!Standing]
  <2>0. (IF job[b].mode = "own" THEN "own" ELSE Bld!Standing) \in {"nothing", "own", "verified", "leftover", "unchecked"}
    BY DEF Bld!Standing
  <2>1. Bld!AfterRoot(b) = (IF job[b].data THEN "data" ELSE "seed") /\ Bld!AfterRoot(b) \in Bld!PC
    BY <1>1 DEF Bld!AfterRoot, Bld!PC
  <2>2. r \in JobRec
    BY <2>0, <2>1, JobParts DEF JobRec
  <2>3. job' = [job EXCEPT ![b] = r]
    BY <1>3
  <2>4. Frame(b) /\ job'[b] = r
    BY <2>2, <2>3, JobParts, Record DEF JobRec
  <2>5. /\ job'[b].pc = (IF job[b].data THEN "data" ELSE "seed") /\ job'[b].seen = job[b].seen /\ Same(b)
    BY <2>1, <2>4, JobParts DEF JobRec, Same
  <2>6. Due(b)' = Due(b)
    BY <1>1, <2>4, <2>5 DEF Due, Frame, Bld!RootOf, Bld!DataOf
  <2>7. ~job[b].seen
    BY <1>1, JobParts DEF Fresh
  <2> QED
    BY <1>1, <2>4, <2>5, <2>6, <2>7, JobParts DEF Advances, Onward, Begun, Fresh, Bld!Running, Frame
<1> QED
  BY <1>2, <1>3 DEF Bld!Fill

\* A build that says it is done has come past all that it needs.
LEMMA AllDue ==
  ASSUME BuildInv, NEW b \in Job, Bld!Running(b)
  PROVE  /\ job[b].pc \in {"install", "detect", "define"} => Due(b) \cup {"dom"} = Bld!Needs(b)
         /\ Due(b) \subseteq Bld!Needs(b) /\ (job[b].pc # "define" => "dom" \notin Due(b)) /\ "dom" \in Bld!Needs(b)
<1>1. JobRec = JobRec /\ Begun(b)
  BY JobParts
<1>2. Bld!RootOf(b) \in Disks /\ Bld!DataOf(b) \in Disks /\ "dom" \notin Disks
  BY DEF Bld!RootOf, Bld!DataOf, Disks, Bld!Zvols, Bld!Files
<1>3. job[b].mode = "iso" => ~job[b].data
  BY <1>1 DEF Begun, Bld!Running
<1>4. "dom" # Bld!RootOf(b) /\ "dom" # Bld!DataOf(b)
  BY <1>2
<1>5. "dom" \in Bld!Needs(b) /\ Due(b) \subseteq Bld!Needs(b) /\ (job[b].pc # "define" => "dom" \notin Due(b))
  BY <1>4, JobParts DEF Due, Bld!Needs, Begun
<1>6. ASSUME job[b].pc \in {"install", "detect", "define"} PROVE Due(b) \cup {"dom"} = Bld!Needs(b)
  <2>1. job[b].mode = "iso" => job[b].pc = "install"
    BY <1>1, <1>6 DEF Begun
  <2>2. \A x \in Bld!Needs(b) : x \in Due(b) \cup {"dom"}
    BY <1>3, <1>6, <2>1, JobParts DEF Due, Bld!Needs
  <2> QED
    BY <1>5, <2>2
<1> QED
  BY <1>5, <1>6

LEMMA RecordEnds ==
  ASSUME BuildInv, NEW b \in Job, job' = [job EXCEPT ![b].pc = "ok", ![b].undo = <<>>]
  PROVE  Frame(b) /\ job'[b].pc = "ok" /\ job'[b].over = job[b].over /\ job'[b].undo = <<>>
<1> DEFINE r == [job[b] EXCEPT !.pc = "ok", !.undo = <<>>]
<1>1. job[b] \in JobRec /\ <<>> \in Seq(Bld!Parts)
  BY DEF BuildInv, BuildTypes
<1>2. r \in JobRec
  BY <1>1 DEF JobRec, Bld!PC
<1>3. job' = [job EXCEPT ![b] = r]
  OBVIOUS
<1>4. /\ r.vm = job[b].vm /\ r.proc = job[b].proc /\ r.mode = job[b].mode /\ r.zfs = job[b].zfs
      /\ r.data = job[b].data /\ r.over = job[b].over /\ r.pc = "ok" /\ r.undo = <<>>
  BY <1>1 DEF JobRec
<1> HIDE DEF r
<1>5. Frame(b) /\ job'[b] = r
  BY <1>2, <1>3, <1>4, Record
<1> QED
  BY <1>4, <1>5

LEMMA Installing ==
  ASSUME BuildInv, NEW b \in Job, Bld!Running(b), Bld!VirtInstall(b)
  PROVE  Frame(b) /\ (Advances(b) \/ Fails(b) \/ MakesDom(b) \/ Finishes(b))
<1>1. job[b].pc \in {"install", "detect"} /\ UNCHANGED owner
  BY DEF Bld!VirtInstall
<1>2. CASE job[b].pc = "install" /\ job[b].mode # "iso" /\ Bld!Go(b, "detect") /\ UNCHANGED dom
  BY <1>1, <1>2, GoAdvances
<1>3. CASE Bld!FailWith(b) /\ UNCHANGED dom
  BY <1>1, <1>3, Failing
<1>4. CASE /\ dom[job[b].vm].st = "none" /\ dom' = [dom EXCEPT ![job[b].vm] = [st |-> "defined", by |-> b]]
           /\ job' = [job EXCEPT ![b].pc = "ok", ![b].undo = <<>>]
  BY <1>1, <1>4, AllDue, RecordEnds DEF Finishes
<1>5. CASE /\ dom[job[b].vm].st = "none" /\ dom' = [dom EXCEPT ![job[b].vm] = [st |-> "transient", by |-> b]]
           /\ Bld!MadeAndGo(b, "dom", "define") /\ job[b].mode # "iso"
  <2>0. "dom" \in Bld!Parts /\ "define" \in Bld!PC
    BY DEF Bld!Parts, Bld!PC
  <2>1. Frame(b) /\ job'[b] = [job[b] EXCEPT !.pc = "define", !.seen = FALSE, !.undo = Append(@, "dom")]
    BY <1>5, <2>0, RecordMakes
  <2>2. /\ job'[b].pc = "define" /\ job'[b].seen = FALSE /\ job'[b].undo = Append(job[b].undo, "dom")
        /\ job'[b].clean = job[b].clean /\ job'[b].over = job[b].over
    BY <2>1, JobParts DEF JobRec
  <2>3. Onward(b)
    BY <1>1, <1>5, <2>1, <2>2, JobParts DEF Onward, Begun, Fresh, Frame, Bld!Running
  <2>4. Due(b)' = Due(b) \cup {"dom"}
    BY <1>1, <1>5, <2>1, <2>2, JobParts DEF Due, Frame, Bld!RootOf, Bld!DataOf
  <2>5. "dom" \in Bld!Needs(b) /\ "dom" \notin Due(b)
    BY <1>1, AllDue
  <2> QED
    BY <1>1, <1>5, <2>1, <2>2, <2>3, <2>4, <2>5 DEF MakesDom, Makes
<1> QED
  BY <1>2, <1>3, <1>4, <1>5 DEF Bld!VirtInstall

LEMMA Defining ==
  ASSUME BuildInv, NEW b \in Job, Bld!Running(b), Bld!Define(b)
  PROVE  Frame(b) /\ (Fails(b) \/ Finishes(b))
<1>1. job[b].pc = "define" /\ UNCHANGED owner
  BY DEF Bld!Define
<1>2. CASE Bld!FailWith(b) /\ UNCHANGED dom
  BY <1>1, <1>2, Failing
<1>3. CASE dom' = [dom EXCEPT ![job[b].vm].st = "defined"] /\ job' = [job EXCEPT ![b].pc = "ok", ![b].undo = <<>>]
  <2>1. "dom" \in Made(b)
    <3>1. "dom" \in Due(b) /\ "dom" \notin Bld!Files
      BY <1>1 DEF Due, Bld!Files
    <3>2. job[b].over \subseteq Bld!Files /\ Made(b) \cup job[b].over = Due(b)
      BY <1>1, JobParts DEF Stacked
    <3> QED
      BY <3>1, <3>2
  <2>2. dom[job[b].vm].by = b
    BY <2>1 DEF Made, Disks, Bld!Zvols, Bld!Files
  <2>3. dom \in [Name -> [st : {"none", "transient", "defined"}, by : Job \cup {None, Old}]] /\ job[b].vm \in Name
    BY JobParts DEF BuildInv, BuildTypes
  <2>4. dom' = [dom EXCEPT ![job[b].vm] = [st |-> "defined", by |-> b]]
    <3>1. PICK x \in {"none", "transient", "defined"} : dom[job[b].vm] = [st |-> x, by |-> b]
      BY <2>2, <2>3
    <3>2. [dom[job[b].vm] EXCEPT !.st = "defined"] = [st |-> "defined", by |-> b]
      BY <3>1
    <3> QED
      BY <1>3, <2>3, <3>2
  <2> QED
    BY <1>1, <1>3, <2>2, <2>4, AllDue, RecordEnds DEF Finishes
<1> QED
  BY <1>2, <1>3 DEF Bld!Define

LEMMA FrontOf ==
  ASSUME NEW S, NEW s \in Seq(S), s # <<>>
  PROVE  /\ Bld!Front(s) \in Seq(S) /\ Len(Bld!Front(s)) = Len(s) - 1 /\ Len(s) \in Nat /\ Len(s) > 0
         /\ \A i \in 1..(Len(s) - 1) : Bld!Front(s)[i] = s[i]
<1>1. PICK k \in Nat : k = Len(s) /\ k > 0
  OBVIOUS
<1>2. \A i \in 1..(k - 1) : s[i] \in S
  BY <1>1
<1>3. /\ SubSeq(s, 1, k - 1) \in Seq(S)
      /\ Len(SubSeq(s, 1, k - 1)) = IF 1 <= k - 1 THEN k - 1 - 1 + 1 ELSE 0
      /\ \A i \in 1..(k - 1 - 1 + 1) : SubSeq(s, 1, k - 1)[i] = s[1 + i - 1]
  BY <1>2, SubSeqProperties
<1> DEFINE f == SubSeq(s, 1, k - 1)
<1> HIDE DEF f
<1>4. k - 1 - 1 + 1 = k - 1 /\ \A i \in 1..(k - 1) : 1 + i - 1 = i
  BY <1>1
<1>5. f \in Seq(S) /\ Len(f) = (IF 1 <= k - 1 THEN k - 1 ELSE 0) /\ \A i \in 1..(k - 1) : f[i] = s[i]
  BY <1>3, <1>4 DEF f
<1>6. Len(f) = k - 1
  BY <1>1, <1>5
<1> QED
  BY <1>1, <1>5, <1>6 DEF Bld!Front, f

LEMMA Undoing ==
  ASSUME BuildInv, NEW b \in Job, Bld!Running(b), Bld!Undo(b)
  PROVE  Frame(b) /\ TakesBack(b)
<1> DEFINE w == job[b].undo[Len(job[b].undo)]
           rest == Bld!Front(job[b].undo)
<1>1. job[b].pc = "undo" /\ job[b].undo \in Seq(Bld!Parts) /\ job[b].undo # <<>> /\ job[b].clean \in BOOLEAN
  BY JobParts DEF Bld!Undo, Stacked, JobRec
<1>2. rest \in Seq(Bld!Parts)
  BY <1>1, FrontOf
<1>4. ASSUME Bld!Open(b, w), job[b].clean PROVE FALSE
  <2>1. "dom" \in Made(b)
    BY <1>4 DEF Bld!Open, Made
  <2>2. "dom" \in ToUndo(b)
    BY <1>1, <1>4, <2>1, JobParts DEF Stacked
  <2>3. w = "dom"
    BY <1>1, <2>2, JobParts DEF ToUndo, Stacked, Once
  <2> QED
    BY <1>4, <2>3 DEF Bld!Open, Bld!Zvols
<1>5. PICK ok \in BOOLEAN : Bld!Undoes(b, Bld!Last(job[b].undo), ok)
  BY DEF Bld!Undo
<1> DEFINE clean == job[b].clean /\ (ok \/ Bld!Open(b, w))
           q == IF rest # <<>> THEN "undo" ELSE IF clean THEN "failed" ELSE "broken"
           r == [job[b] EXCEPT !.undo = rest, !.clean = clean, !.pc = q]
<1>6. q \in Bld!PC
  BY DEF Bld!PC
<1>7. job' = [job EXCEPT ![b] = r]
  BY <1>5 DEF Bld!Undoes, Bld!Undone, Bld!Last
<1>a. clean \in BOOLEAN /\ (clean <=> (job[b].clean /\ ok)) /\ (~ok => clean = FALSE)
  BY <1>1, <1>4
<1>b. Bld!Takes(b, w, ok)
  BY <1>5 DEF Bld!Undoes, Bld!Last
<1> HIDE DEF q, rest, w, clean
<1>8. r \in JobRec
  BY <1>2, <1>6, <1>a, JobParts DEF JobRec
<1>9. /\ r.vm = job[b].vm /\ r.proc = job[b].proc /\ r.mode = job[b].mode /\ r.zfs = job[b].zfs
      /\ r.data = job[b].data /\ r.over = job[b].over /\ r.pc = q /\ r.clean = clean /\ r.undo = rest
  BY JobParts DEF JobRec
<1> HIDE DEF r
<1>10. Frame(b) /\ job'[b] = r
  BY <1>7, <1>8, <1>9, Record
<1>11. job'[b].pc = IF rest # <<>> THEN "undo" ELSE IF job'[b].clean THEN "failed" ELSE "broken"
  BY <1>9, <1>10 DEF q
<1>12. CASE ok
  <2>1. job'[b].clean = job[b].clean
    BY <1>1, <1>9, <1>10, <1>12, <1>a
  <2>2. /\ owner' = (IF w # "dom" THEN [owner EXCEPT ![job[b].vm][w] = None] ELSE owner)
        /\ dom' = (IF w = "dom" THEN [dom EXCEPT ![job[b].vm] = Bld!NoDom] ELSE dom)
    BY <1>b, <1>12 DEF Bld!Takes
  <2> QED
    BY <1>1, <1>9, <1>10, <1>11, <2>1, <2>2 DEF TakesBack, w, rest
<1>13. CASE ~ok
  <2>1. UNCHANGED <<owner, dom>>
    BY <1>b, <1>13 DEF Bld!Takes
  <2> QED
    BY <1>1, <1>9, <1>10, <1>11, <1>13, <1>a, <2>1 DEF TakesBack, w, rest
<1> QED
  BY <1>12, <1>13

LEMMA Fetching ==
  ASSUME BuildInv, NEW b \in Job, Bld!Running(b),
         \/ Bld!LockImage(b) \/ Bld!CacheHit(b) \/ Bld!ResolveFails(b)
         \/ Bld!Download(b) \/ Bld!Downloaded(b) \/ Bld!DownloadFails(b) \/ Bld!Verify(b)
  PROVE  Frame(b) /\ (Fails(b) \/ Advances(b))
<1> USE DEF Bld!hostVars
<1>1. CASE Bld!LockImage(b)
  <2>1. \E q \in {"root", "image"} : Bld!Go(b, q)
    BY <1>1 DEF Bld!LockImage
  <2> QED
    BY <1>1, <2>1, GoAdvances DEF Bld!LockImage
<1>2. CASE Bld!CacheHit(b)
  BY <1>2, GoAdvances DEF Bld!CacheHit
<1>3. CASE Bld!ResolveFails(b)
  BY <1>3, Failing DEF Bld!ResolveFails
<1>4. CASE Bld!Download(b)
  BY <1>4, GoAdvances DEF Bld!Download
<1>5. CASE Bld!Downloaded(b)
  BY <1>5, GoAdvances DEF Bld!Downloaded
<1>6. CASE Bld!DownloadFails(b)
  BY <1>6, Failing DEF Bld!DownloadFails
<1>7. CASE Bld!Verify(b)
  <2>1. job[b].pc = "verify" /\ UNCHANGED <<owner, dom>> /\ (Bld!Go(b, "root") \/ Bld!FailWith(b))
    BY <1>7 DEF Bld!Verify
  <2>2. CASE Bld!Go(b, "root")
    BY <2>1, <2>2, GoAdvances
  <2>3. CASE Bld!FailWith(b)
    BY <2>1, <2>3, Failing
  <2> QED
    BY <2>1, <2>2, <2>3
<1> QED
  BY <1>1, <1>2, <1>3, <1>4, <1>5, <1>6, <1>7

LEMMA Making ==
  ASSUME BuildInv, NEW b \in Job, Bld!Running(b), Bld!RootDisk(b) \/ Bld!DataDisk(b) \/ Bld!Seed(b)
  PROVE  Frame(b) /\ (Fails(b) \/ Advances(b) \/ \E w \in Disks : MakesDisk(b, w) \/ Overwrites(b, w))
<1>1. ASSUME NEW w, NEW q, Fits(b, w, q), Bld!LookFor(b, w) \/ Bld!MakeZvol(b, w, q) \/ Bld!MakeFile(b, w, q)
      PROVE  Frame(b) /\ (Fails(b) \/ Advances(b) \/ MakesDisk(b, w) \/ Overwrites(b, w)) /\ w \in Disks
  <2>1. w \in Disks
    BY <1>1, FitsDue
  <2>2. CASE Bld!LookFor(b, w)
    BY <1>1, <2>1, <2>2, Looks
  <2>3. CASE Bld!MakeZvol(b, w, q)
    BY <1>1, <2>1, <2>3, Zvols
  <2>4. CASE Bld!MakeFile(b, w, q)
    BY <1>1, <2>1, <2>4, FileMade
  <2> QED
    BY <1>1, <2>2, <2>3, <2>4
<1>2. CASE Bld!RootDisk(b)
  <2> DEFINE q == IF job[b].mode = "iso" THEN Bld!AfterRoot(b) ELSE "fill"
  <2>1. Fits(b, Bld!RootOf(b), q)
    BY <1>2 DEF Fits, Bld!RootDisk
  <2> QED
    BY <1>1, <1>2, <2>1 DEF Bld!RootDisk
<1>3. CASE Bld!DataDisk(b)
  <2>1. Fits(b, Bld!DataOf(b), "seed")
    BY <1>3 DEF Fits, Bld!DataDisk
  <2> QED
    BY <1>1, <1>3, <2>1 DEF Bld!DataDisk
<1>4. CASE Bld!Seed(b)
  <2>1. Fits(b, "seed", "install")
    BY <1>4 DEF Fits, Bld!Seed
  <2> QED
    BY <1>1, <1>4, <2>1 DEF Bld!Seed
<1> QED
  BY <1>2, <1>3, <1>4

LEMMA Kinds ==
  ASSUME BuildInv, NEW b \in Job, Bld!Step(b)
  PROVE  /\ Bld!Running(b) /\ Frame(b)
         /\ \/ Fails(b) \/ Advances(b) \/ (\E w \in Disks : MakesDisk(b, w) \/ Overwrites(b, w))
            \/ MakesDom(b) \/ Finishes(b) \/ TakesBack(b)
<1>1. Bld!Running(b)
  BY StepRuns
<1>2. CASE \/ Bld!LockImage(b) \/ Bld!CacheHit(b) \/ Bld!ResolveFails(b)
           \/ Bld!Download(b) \/ Bld!Downloaded(b) \/ Bld!DownloadFails(b) \/ Bld!Verify(b)
  BY <1>1, <1>2, Fetching
<1>3. CASE Bld!RootDisk(b) \/ Bld!DataDisk(b) \/ Bld!Seed(b)
  BY <1>1, <1>3, Making
<1>4. CASE Bld!Fill(b)
  BY <1>1, <1>4, Filling
<1>5. CASE Bld!VirtInstall(b)
  BY <1>1, <1>5, Installing
<1>6. CASE Bld!Define(b)
  BY <1>1, <1>6, Defining
<1>7. CASE Bld!Undo(b)
  BY <1>1, <1>7, Undoing
<1> QED
  BY <1>2, <1>3, <1>4, <1>5, <1>6, <1>7 DEF Bld!Step

-----------------------------------------------------------------------------
(* What each kind leaves of the build's own parts.                         *)

LEMMA Sets ==
  /\ "dom" \notin Disks /\ Bld!Parts = Disks \cup {"dom"} /\ Bld!Files \subseteq Disks
  /\ \A b : Bld!Running(b) <=> job[b].pc \notin {"idle", "ok", "failed", "broken"}
  BY DEF Disks, Bld!Parts, Bld!Zvols, Bld!Files, Bld!Running

LEMMA HostTypes ==
  ASSUME BuildInv
  PROVE  /\ owner \in [Name -> [Disks -> Job \cup {None, Old}]]
         /\ dom \in [Name -> [st : {"none", "transient", "defined"}, by : Job \cup {None, Old}]]
         /\ Bld!NoDom \in [st : {"none", "transient", "defined"}, by : Job \cup {None, Old}]
         /\ Bld!NoDom.st = "none" /\ Bld!NoDom.by = None
  BY DEF BuildInv, BuildTypes, Bld!NoDom

LEMMA NeedsStay ==
  ASSUME NEW b \in Job, Frame(b) PROVE Bld!Needs(b)' = Bld!Needs(b)
  BY DEF Frame, Bld!Needs, Bld!RootOf, Bld!DataOf

\* Where nothing is made or unmade.
LEMMA QuietMine ==
  ASSUME BuildInv, NEW b \in Job, Bld!Running(b), Frame(b), Advances(b) \/ Fails(b) \/ \E w \in Disks : Overwrites(b, w)
  PROVE  Keeps(b) /\ Mine(b)'
<1>1. UNCHANGED <<owner, dom>> /\ job'[b].pc # "idle" /\ job'[b].undo = job[b].undo
  BY BuildFacts, Sets DEF Advances, Fails, Overwrites, Onward, Same, Bld!Running
<1>2. Keeps(b)
  BY <1>1, HostTypes DEF Keeps
<1>3. Made(b)' = Made(b) /\ ToUndo(b)' = ToUndo(b) /\ (Once(b) <=> Once(b)') /\ Bld!Needs(b)' = Bld!Needs(b)
  BY <1>1, NeedsStay DEF Frame, Made, ToUndo, Once
<1>4. CASE Advances(b)
  <2>1. Stacked(b)'
    BY <1>1, <1>3, <1>4, JobParts DEF Advances, Onward, Same, Stacked
  <2>2. HasEnded(b)'
    BY <1>4 DEF Advances, Onward, HasEnded, Bld!Running
  <2> QED
    BY <1>2, <1>4, <2>1, <2>2 DEF Mine, Advances, Onward
<1>5. ASSUME NEW w \in Disks, Overwrites(b, w) PROVE Mine(b)'
  <2>1. Stacked(b)'
    BY <1>1, <1>3, <1>5, JobParts DEF Overwrites, Onward, Stacked
  <2>2. HasEnded(b)'
    BY <1>5 DEF Overwrites, Onward, HasEnded, Bld!Running
  <2> QED
    BY <1>5, <2>1, <2>2 DEF Mine, Overwrites, Onward
<1>6. CASE Fails(b)
  <2>1. Begun(b)'
    BY <1>6, JobParts DEF Fails, Begun, Frame, Bld!Running
  <2>2. Fresh(b)'
    BY <1>6 DEF Fails, Fresh
  <2>3. job[b].undo = <<>> => ToUndo(b) = {}
    BY JobParts DEF ToUndo
  <2>4. Stacked(b)' /\ HasEnded(b)'
    BY <1>1, <1>3, <1>6, <2>3, JobParts DEF Fails, Same, Stacked, HasEnded, Bld!Running
  <2> QED
    BY <1>2, <2>1, <2>2, <2>4 DEF Mine
<1> QED
  BY <1>2, <1>4, <1>5, <1>6

\* One more on the stack.
LEMMA Pushed ==
  ASSUME BuildInv, NEW b \in Job, Bld!Running(b), NEW w \in Bld!Parts, Makes(b, w)
  PROVE  ToUndo(b)' = ToUndo(b) \cup {w} /\ Once(b)' /\ job'[b].undo # <<>> /\ w \notin Made(b)
<1> DEFINE u == job[b].undo
<1>1. u \in Seq(Bld!Parts) /\ job'[b].undo = Append(u, w)
  BY JobParts DEF Makes
<1>2. /\ Len(u) \in Nat /\ Len(job'[b].undo) = Len(u) + 1 /\ job'[b].undo[Len(u) + 1] = w
      /\ \A i \in 1..Len(u) : job'[b].undo[i] = u[i]
  BY <1>1
<1>3. Made(b) = ToUndo(b) /\ Made(b) \subseteq Due(b) /\ w \notin Due(b) /\ Once(b)
  BY JobParts DEF Stacked, Makes, Onward
<1>4. "dom" \notin Due(b)
  BY <1>3, AllDue DEF Makes
<1>5. \A i \in 1..Len(u) : u[i] # w /\ u[i] # "dom"
  BY <1>3, <1>4 DEF ToUndo
<1>6. job'[b].undo # <<>>
  BY <1>2
<1>7. ToUndo(b)' = ToUndo(b) \cup {w}
  <2>1. ToUndo(b)' = {job'[b].undo[i] : i \in 1..(Len(u) + 1)}
    BY <1>2 DEF ToUndo
  <2>2. \A i \in 1..(Len(u) + 1) : i \in 1..Len(u) \/ i = Len(u) + 1
    BY <1>2
  <2>3. \A i \in 1..Len(u) : i \in 1..(Len(u) + 1)
    BY <1>2
  <2>4. Len(u) + 1 \in 1..(Len(u) + 1)
    BY <1>2
  <2> HIDE DEF u
  <2>5. ASSUME NEW x \in ToUndo(b)' PROVE x \in ToUndo(b) \cup {w}
    BY <1>2, <2>1, <2>2, <2>5 DEF ToUndo, u
  <2>6. ASSUME NEW x \in ToUndo(b) PROVE x \in ToUndo(b)'
    BY <1>2, <2>1, <2>3, <2>6 DEF ToUndo, u
  <2>7. w \in ToUndo(b)'
    BY <1>2, <2>1, <2>4
  <2> QED
    BY <2>5, <2>6, <2>7
<1>8. Once(b)'
  <2>1. ASSUME NEW i \in 1..(Len(u) + 1), NEW k \in 1..(Len(u) + 1), job'[b].undo[i] = job'[b].undo[k] PROVE i = k
    <3>1. (i \in 1..Len(u) \/ i = Len(u) + 1) /\ (k \in 1..Len(u) \/ k = Len(u) + 1)
      BY <1>2, <2>1
    <3>2. CASE i \in 1..Len(u) /\ k \in 1..Len(u)
      BY <1>2, <1>3, <2>1, <3>2 DEF Once
    <3>3. CASE i = Len(u) + 1 \/ k = Len(u) + 1
      BY <1>2, <1>5, <2>1, <3>1, <3>3
    <3> QED
      BY <3>1, <3>2, <3>3
  <2>2. ASSUME NEW i \in 1..(Len(u) + 1), job'[b].undo[i] = "dom" PROVE i = Len(u) + 1
    BY SMTT(30), <1>2, <1>5, <2>2
  <2> QED
    BY <1>2, <2>1, <2>2 DEF Once
<1> QED
  BY <1>3, <1>6, <1>7, <1>8

LEMMA DiskMine ==
  ASSUME BuildInv, NEW b \in Job, Bld!Running(b), Frame(b), NEW w \in Disks, MakesDisk(b, w)
  PROVE  Keeps(b) /\ Mine(b)'
<1>1. /\ Makes(b, w) /\ w \in Bld!Parts /\ UNCHANGED dom
      /\ owner[job[b].vm][w] = None /\ owner' = [owner EXCEPT ![job[b].vm][w] = b]
  BY Sets DEF MakesDisk
<1>2. job[b].vm \in Name /\ job'[b].vm = job[b].vm /\ b # None
  BY JobParts, BuildFacts DEF Frame
<1>3. /\ \A n \in Name, x \in Disks : owner'[n][x] = IF n = job[b].vm /\ x = w THEN b ELSE owner[n][x]
      /\ owner' \in [Name -> [Disks -> Job \cup {None, Old}]]
  BY <1>1, <1>2, HostTypes
<1>4. Keeps(b)
  BY <1>1, <1>2, <1>3, HostTypes, BuildFacts DEF Keeps, Makes, Onward, Bld!Running
<1>5. Made(b)' = Made(b) \cup {w}
  BY <1>1, <1>2, <1>3 DEF Made
<1>6. ToUndo(b)' = ToUndo(b) \cup {w} /\ Once(b)'
  BY <1>1, Pushed
<1>7. Bld!Needs(b)' = Bld!Needs(b)
  BY NeedsStay
<1>8. Stacked(b)'
  BY <1>1, <1>5, <1>6, <1>7, JobParts DEF Stacked, Makes, Onward
<1>9. HasEnded(b)' /\ Begun(b)' /\ Fresh(b)'
  BY <1>1 DEF Makes, Onward, HasEnded, Bld!Running
<1> QED
  BY <1>4, <1>8, <1>9 DEF Mine

LEMMA DomMine ==
  ASSUME BuildInv, NEW b \in Job, Bld!Running(b), Frame(b), MakesDom(b)
  PROVE  Keeps(b) /\ Mine(b)'
<1>1. /\ Makes(b, "dom") /\ "dom" \in Bld!Parts /\ UNCHANGED owner
      /\ dom[job[b].vm].st = "none" /\ dom' = [dom EXCEPT ![job[b].vm] = [st |-> "transient", by |-> b]]
  BY Sets DEF MakesDom
<1>2. job[b].vm \in Name /\ job'[b].vm = job[b].vm /\ dom[job[b].vm].by = None
  BY <1>1, JobParts DEF Frame, BuildInv, Named
<1>3. /\ \A n \in Name : dom'[n] = IF n = job[b].vm THEN [st |-> "transient", by |-> b] ELSE dom[n]
      /\ dom' \in [Name -> [st : {"none", "transient", "defined"}, by : Job \cup {None, Old}]]
  BY <1>1, <1>2, HostTypes
<1>4. Keeps(b)
  BY <1>1, <1>2, <1>3, HostTypes, BuildFacts DEF Keeps, Makes, Onward, Bld!Running
<1>5. Made(b)' = Made(b) \cup {"dom"}
  BY <1>1, <1>2, <1>3 DEF Made
<1>6. ToUndo(b)' = ToUndo(b) \cup {"dom"} /\ Once(b)'
  BY <1>1, Pushed
<1>7. Bld!Needs(b)' = Bld!Needs(b)
  BY NeedsStay
<1>8. Stacked(b)'
  BY <1>1, <1>5, <1>6, <1>7, JobParts DEF Stacked, Makes, Onward
<1>9. HasEnded(b)' /\ Begun(b)' /\ Fresh(b)'
  BY <1>1 DEF Makes, Onward, HasEnded, Bld!Running
<1> QED
  BY <1>4, <1>8, <1>9 DEF Mine

LEMMA EndMine ==
  ASSUME BuildInv, NEW b \in Job, Bld!Running(b), Frame(b), Finishes(b)
  PROVE  Keeps(b) /\ Mine(b)'
<1>1. /\ UNCHANGED owner /\ job'[b].pc = "ok" /\ job'[b].over = job[b].over
      /\ dom' = [dom EXCEPT ![job[b].vm] = [st |-> "defined", by |-> b]]
  BY DEF Finishes
<1>2. job[b].vm \in Name /\ job'[b].vm = job[b].vm /\ dom[job[b].vm].by \in {None, b} /\ job[b].vm # None
  BY JobParts, BuildFacts DEF Finishes, Frame, BuildInv, Named
<1>3. /\ \A n \in Name : dom'[n] = IF n = job[b].vm THEN [st |-> "defined", by |-> b] ELSE dom[n]
      /\ dom' \in [Name -> [st : {"none", "transient", "defined"}, by : Job \cup {None, Old}]]
  BY <1>1, <1>2, HostTypes
<1>4. Keeps(b)
  BY <1>1, <1>2, <1>3, HostTypes, BuildFacts DEF Keeps
<1>5. Made(b) \cup job[b].over = Due(b) /\ Bld!Needs(b)' = Bld!Needs(b)
  BY JobParts, NeedsStay DEF Stacked, Finishes
<1>6. Bld!Own(b)' = {w \in Disks : owner[job[b].vm][w] = b} \cup {"dom"} \cup job[b].over
  BY <1>1, <1>2, <1>3 DEF Bld!Own, Disks
<1>7. Made(b) \cup {"dom"} = {w \in Disks : owner[job[b].vm][w] = b} \cup {"dom"}
  BY DEF Made
<1>8. Bld!Own(b)' = Bld!Needs(b)
  BY <1>5, <1>6, <1>7 DEF Finishes
<1>9. HasEnded(b)' /\ Fresh(b)' /\ Stacked(b)'
  BY <1>1, <1>5, <1>8 DEF HasEnded, Fresh, Stacked, Bld!Running
<1>10. Begun(b)'
  BY <1>1, JobParts DEF Begun, Frame, Bld!Running
<1> QED
  BY <1>4, <1>9, <1>10 DEF Mine

\* One off the stack.
LEMMA Popped ==
  ASSUME BuildInv, NEW b \in Job, Bld!Running(b), Frame(b), TakesBack(b)
  PROVE  LET w == job[b].undo[Len(job[b].undo)] IN
         /\ w \in ToUndo(b) /\ ToUndo(b)' = ToUndo(b) \ {w} /\ Once(b)'
         /\ (Bld!Front(job[b].undo) = <<>> => ToUndo(b) = {w})
<1> DEFINE u == job[b].undo
           f == Bld!Front(u)
           w == u[Len(u)]
<1>1. u \in Seq(Bld!Parts) /\ u # <<>> /\ job'[b].undo = f /\ Once(b)
  BY JobParts DEF TakesBack, Stacked
<1>2. /\ Len(f) = Len(u) - 1 /\ Len(u) \in Nat /\ Len(u) > 0
      /\ \A i \in 1..(Len(u) - 1) : f[i] = u[i]
  BY <1>1, FrontOf
<1>3. PICK k \in Nat : k = Len(u) - 1
  BY <1>2
<1>4. Len(u) = k + 1 /\ Len(f) = k /\ w = u[k + 1] /\ \A i \in 1..k : f[i] = u[i]
  BY <1>2, <1>3
<1> HIDE DEF u, f, w
<1>5. ToUndo(b) = {u[i] : i \in 1..(k + 1)} /\ ToUndo(b)' = {f[i] : i \in 1..k}
  BY <1>1, <1>4 DEF ToUndo, u
<1>6. \A i, j \in 1..(k + 1) : u[i] = u[j] => i = j
  BY <1>1, <1>4 DEF Once, u
<1>7. \A i \in 1..(k + 1) : u[i] = "dom" => i = k + 1
  BY <1>1, <1>4 DEF Once, u
<1>8. \A i \in 1..(k + 1) : i \in 1..k \/ i = k + 1
  OBVIOUS
<1>9. k + 1 \in 1..(k + 1) /\ \A i \in 1..k : i \in 1..(k + 1) /\ i # k + 1
  OBVIOUS
<1>10. w \in ToUndo(b) /\ ToUndo(b)' = ToUndo(b) \ {w}
  <2>1. ASSUME NEW x \in ToUndo(b)' PROVE x \in ToUndo(b) \ {w}
    BY <1>4, <1>5, <1>6, <1>9, <2>1
  <2>2. ASSUME NEW x \in ToUndo(b), x # w PROVE x \in ToUndo(b)'
    BY <1>4, <1>5, <1>8, <2>2
  <2>3. w \in ToUndo(b)
    BY <1>4, <1>5, <1>9
  <2> QED
    BY <2>1, <2>2, <2>3
<1>11. Once(b)'
  BY <1>1, <1>4, <1>6, <1>7, <1>9 DEF Once
<1>12. ASSUME f = <<>> PROVE ToUndo(b) = {w}
  <2>1. k = 0
    BY <1>4, <1>12
  <2> QED
    BY <1>4, <1>5, <2>1
<1> QED
  BY <1>10, <1>11, <1>12 DEF u, f, w

LEMMA UndoMine ==
  ASSUME BuildInv, NEW b \in Job, Bld!Running(b), Frame(b), TakesBack(b)
  PROVE  Keeps(b) /\ Mine(b)'
<1> DEFINE w == job[b].undo[Len(job[b].undo)]
<1>1. /\ job[b].pc = "undo" /\ job'[b].over = job[b].over /\ job'[b].pc \in {"undo", "failed", "broken"}
      /\ job'[b].undo = Bld!Front(job[b].undo)
      /\ job'[b].pc = IF Bld!Front(job[b].undo) # <<>> THEN "undo" ELSE IF job'[b].clean THEN "failed" ELSE "broken"
  BY DEF TakesBack
<1>2. /\ w \in ToUndo(b) /\ ToUndo(b)' = ToUndo(b) \ {w} /\ Once(b)'
      /\ (Bld!Front(job[b].undo) = <<>> => ToUndo(b) = {w})
  BY Popped
<1>3. /\ \/ /\ owner' = (IF w # "dom" THEN [owner EXCEPT ![job[b].vm][w] = None] ELSE owner)
            /\ dom' = (IF w = "dom" THEN [dom EXCEPT ![job[b].vm] = Bld!NoDom] ELSE dom)
            /\ job'[b].clean = job[b].clean
         \/ UNCHANGED <<owner, dom>> /\ job'[b].clean = FALSE
  BY DEF TakesBack
<1> HIDE DEF w
<1>4. /\ ToUndo(b) \subseteq Made(b) /\ Made(b) \cup job[b].over \subseteq Bld!Needs(b)
      /\ (job[b].clean => Made(b) = ToUndo(b))
  BY <1>1, JobParts DEF Stacked
<1>5. job[b].vm \in Name /\ job'[b].vm = job[b].vm /\ b # None
  BY JobParts, BuildFacts DEF Frame
<1>6. w \in Made(b)
  BY <1>2, <1>4
<1>7. Bld!Needs(b)' = Bld!Needs(b)
  BY NeedsStay
<1>8. Keeps(b) /\ ((Made(b)' = Made(b) \ {w} /\ job'[b].clean = job[b].clean) \/ (Made(b)' = Made(b) /\ job'[b].clean = FALSE))
  <2>1. CASE UNCHANGED <<owner, dom>> /\ job'[b].clean = FALSE
    <3>1. Keeps(b)
      BY <1>1, <2>1, HostTypes DEF Keeps
    <3>2. Made(b)' = Made(b)
      BY <1>5, <2>1 DEF Made
    <3> QED
      BY <2>1, <3>1, <3>2
  <2>2. CASE w = "dom" /\ UNCHANGED owner /\ dom' = [dom EXCEPT ![job[b].vm] = Bld!NoDom] /\ job'[b].clean = job[b].clean
    <3>1. dom[job[b].vm].by = b
      BY <1>6, <2>2, Sets DEF Made
    <3>2. /\ \A n \in Name : dom'[n] = IF n = job[b].vm THEN Bld!NoDom ELSE dom[n]
          /\ dom' \in [Name -> [st : {"none", "transient", "defined"}, by : Job \cup {None, Old}]]
      BY <1>5, <2>2, HostTypes
    <3>3. Keeps(b)
      BY <1>1, <1>5, <2>2, <3>1, <3>2, HostTypes DEF Keeps
    <3>4. Made(b)' = Made(b) \ {w}
      BY <1>5, <2>2, <3>2, HostTypes, Sets DEF Made
    <3> QED
      BY <2>2, <3>3, <3>4
  <2>3. CASE w # "dom" /\ UNCHANGED dom /\ owner' = [owner EXCEPT ![job[b].vm][w] = None] /\ job'[b].clean = job[b].clean
    <3>1. w \in Disks /\ owner[job[b].vm][w] = b
      BY <1>6, <2>3 DEF Made
    <3>2. /\ \A n \in Name, x \in Disks : owner'[n][x] = IF n = job[b].vm /\ x = w THEN None ELSE owner[n][x]
          /\ owner' \in [Name -> [Disks -> Job \cup {None, Old}]]
      BY <1>5, <2>3, <3>1, HostTypes
    <3>3. Keeps(b)
      BY <1>1, <1>5, <2>3, <3>1, <3>2, HostTypes DEF Keeps
    <3>4. Made(b)' = Made(b) \ {w}
      BY <1>5, <2>3, <3>1, <3>2, Sets DEF Made
    <3> QED
      BY <2>3, <3>3, <3>4
  <2> QED
    BY <1>3, <2>1, <2>2, <2>3
<1>9. Stacked(b)'
  BY <1>1, <1>2, <1>4, <1>7, <1>8 DEF Stacked, Bld!Running
<1>10. HasEnded(b)'
  BY <1>1, <1>2, <1>4, <1>7, <1>8 DEF HasEnded
<1>11. Begun(b)' /\ Fresh(b)'
  BY <1>1, JobParts DEF Begun, Fresh, Frame, Bld!Running
<1> QED
  BY <1>8, <1>9, <1>10, <1>11 DEF Mine

LEMMA StepMine ==
  ASSUME BuildInv, NEW b \in Job, Bld!Step(b) PROVE Bld!Running(b) /\ Keeps(b) /\ Mine(b)'
  BY Kinds, QuietMine, DiskMine, DomMine, EndMine, UndoMine

-----------------------------------------------------------------------------
(* ... and of the others'.                                                 *)

LEMMA OthersParts ==
  ASSUME BuildInv, NEW b \in Job, Keeps(b), NEW c \in Job, c # b
  PROVE  /\ job'[c] = job[c]
         /\ job[c].pc # "idle" => Made(c)' = Made(c)
         /\ Bld!Own(c)' = Bld!Own(c) /\ Bld!Needs(c)' = Bld!Needs(c) /\ (Once(c)' <=> Once(c)) /\ ToUndo(c)' = ToUndo(c)
<1>1. job'[c] = job[c] /\ c # None
  BY BuildFacts DEF Keeps, Frame
<1>2. \A n \in Name, w \in Disks : owner'[n][w] = c <=> owner[n][w] = c
  BY <1>1 DEF Keeps
<1>3. \A n \in Name : /\ dom'[n].by = c <=> dom[n].by = c
                      /\ dom[n].by = c => dom'[n] = dom[n]
  BY <1>1 DEF Keeps
<1>4. Bld!Needs(c)' = Bld!Needs(c)
  BY <1>1 DEF Bld!Needs, Bld!RootOf, Bld!DataOf
<1>5. Once(c)' <=> Once(c)
  BY <1>1 DEF Once
<1>6. ToUndo(c)' = ToUndo(c)
  BY <1>1 DEF ToUndo
<1>7. job[c].vm \in Name \cup {None}
  BY DEF BuildInv, BuildTypes, JobRec
<1>8. job[c].pc # "idle" => job[c].vm \in Name
  BY DEF BuildInv, Mine, Begun
<1>9. ASSUME job[c].vm \in Name
      PROVE  /\ {w \in Disks : owner'[job[c].vm][w] = c} = {w \in Disks : owner[job[c].vm][w] = c}
             /\ dom'[job[c].vm].by = c <=> dom[job[c].vm].by = c
             /\ dom[job[c].vm].by = c => dom'[job[c].vm] = dom[job[c].vm]
  BY <1>2, <1>3, <1>9
<1>10. job[c].pc # "idle" => Made(c)' = Made(c)
  BY <1>1, <1>8, <1>9 DEF Made
<1>11. Bld!Own(c)' = Bld!Own(c)
  <2>1. CASE job[c].vm = None
    BY <1>1, <2>1 DEF Bld!Own
  <2>2. CASE job[c].vm \in Name /\ job[c].vm # None
    BY <1>1, <1>9, <2>2 DEF Bld!Own, Disks
  <2> QED
    BY <1>7, <2>1, <2>2
<1> QED
  BY <1>1, <1>4, <1>5, <1>6, <1>10, <1>11

\* A disk it makes is due where it has come to.
LEMMA MadeIsDue ==
  ASSUME BuildInv, NEW b \in Job, Bld!Step(b), NEW n \in Name, NEW w \in Disks, owner[n][w] # b, owner'[n][w] = b
  PROVE  Bld!Running(b)' /\ job'[b].pc # "undo" /\ n = job[b].vm
<1>1. Frame(b) /\ Keeps(b)
  BY Kinds, StepMine
<1>2. n = job[b].vm
  BY <1>1 DEF Keeps
<1>3. owner' # owner
  OBVIOUS
<1>4. ~TakesBack(b)
  BY HostTypes, BuildFacts DEF TakesBack
<1>5. \E x \in Disks : MakesDisk(b, x)
  BY <1>3, <1>4, Kinds DEF Fails, Advances, Overwrites, MakesDom, Finishes
<1> QED
  BY <1>2, <1>5 DEF MakesDisk, Makes, Onward

\* No other build of the name makes the file that one has found absent: both are on
\* ZFS, and only one has made the zvol that comes before the seed.
LEMMA OthersFresh ==
  ASSUME BuildInv, NEW b \in Job, Bld!Step(b), NEW c \in Job, c # b
  PROVE  Fresh(c)'
<1>1. Bld!Running(b) /\ Keeps(b) /\ Mine(b)' /\ job'[c] = job[c] /\ Fresh(c) /\ None # b
  BY StepMine, BuildFacts DEF Keeps, Frame, BuildInv, Mine
<1>2. SUFFICES ASSUME job[c].seen, job[c].pc \in {"root", "data", "seed"}, job[c].fresh,
                      owner'[job[c].vm][FileOf(c)] # None
               PROVE  FALSE
  BY <1>1 DEF Fresh, FileOf
<1> DEFINE n == job[c].vm
           f == FileOf(c)
<1>3. Bld!Running(c)
  BY <1>2, Sets
<1>4. n \in Name /\ f \in Disks /\ owner[n][f] = None
  BY <1>1, <1>2, <1>3, JobParts DEF Fresh, FileOf, Disks, Bld!Files
<1>5. owner'[n][f] = b /\ n = job[b].vm
  BY <1>1, <1>2, <1>4 DEF Keeps
<1>6. job[b].zfs /\ job[c].zfs
  BY <1>1, <1>3, <1>5 DEF BuildInv, Apart
<1>7. job[c].pc = "seed" /\ f = "seed"
  BY <1>1, <1>2, <1>6 DEF Fresh, FileOf
<1>8. owner[n]["zroot"] = c
  <2>1. Bld!RootOf(c) = "zroot" /\ "zroot" \notin Bld!Files
    BY <1>6 DEF Bld!RootOf, Bld!Files
  <2>2. "zroot" \in Due(c)
    BY <1>7, <2>1 DEF Due
  <2>3. "zroot" \in Made(c)
    BY <1>3, <1>7, <2>1, <2>2, JobParts DEF Stacked
  <2> QED
    BY <2>3 DEF Made
<1>9. Bld!Running(b)' /\ job'[b].pc # "undo" /\ job'[b].vm = n /\ job'[b].zfs
  BY <1>1, <1>4, <1>5, <1>6, MadeIsDue DEF Keeps, Frame
<1>10. owner'[n]["zroot"] = b
  <2>1. /\ Bld!RootOf(b)' = "zroot" /\ Bld!DataOf(b)' = "zdata" /\ "zroot" \notin Bld!Files
        /\ job'[b].over \subseteq Bld!Files
    BY <1>1, <1>9 DEF Bld!RootOf, Bld!DataOf, Bld!Files, Keeps, Frame, JobRec
  <2>2. Made(b)' \cup job'[b].over = Due(b)'
    BY <1>1, <1>9 DEF Mine, Stacked
  <2>3. "seed" \in Made(b)'
    BY <1>4, <1>5, <1>7, <1>9 DEF Made
  <2>4. job'[b].pc \in {"install", "detect", "define"}
    BY <2>1, <2>2, <2>3 DEF Due
  <2>5. "zroot" \in Due(b)'
    BY <2>1, <2>4 DEF Due
  <2>6. "zroot" \in Made(b)'
    BY <2>1, <2>2, <2>5
  <2> QED
    BY <1>9, <2>6 DEF Made
<1>11. "zroot" \in Disks
  BY DEF Disks, Bld!Zvols
<1> QED
  BY <1>1, <1>4, <1>8, <1>10, <1>11, BuildFacts DEF Keeps

LEMMA OthersMine ==
  ASSUME BuildInv, NEW b \in Job, Bld!Step(b), NEW c \in Job, c # b
  PROVE  Mine(c)'
<1>1. Keeps(b)
  BY StepMine
<1>2. Mine(c) /\ Fresh(c)' /\ job'[c] = job[c]
  BY <1>1, OthersFresh, OthersParts DEF BuildInv
<1>3. Begun(c)'
  BY <1>2 DEF Mine, Begun
<1>4. Stacked(c)' /\ HasEnded(c)'
  <2>1. CASE job[c].pc = "idle"
    BY <1>2, <2>1 DEF Stacked, HasEnded, Bld!Running
  <2>2. CASE job[c].pc # "idle"
    <3>1. Due(c)' = Due(c)
      BY <1>2 DEF Due, Bld!RootOf, Bld!DataOf
    <3>2. /\ Made(c)' = Made(c) /\ Bld!Own(c)' = Bld!Own(c) /\ Bld!Needs(c)' = Bld!Needs(c)
          /\ (Once(c)' <=> Once(c)) /\ ToUndo(c)' = ToUndo(c)
      BY <1>1, <2>2, OthersParts
    <3> QED
      BY <1>2, <3>1, <3>2 DEF Mine, Stacked, HasEnded, Bld!Running
  <2> QED
    BY <2>1, <2>2
<1> QED
  BY <1>2, <1>3, <1>4 DEF Mine

LEMMA StepKeeps ==
  ASSUME BuildInv, NEW b \in Job, Bld!Step(b)
  PROVE  BuildInv'
<1>1. Bld!Running(b) /\ Keeps(b)
  BY StepMine
<1>2. BuildTypes'
  BY <1>1 DEF Keeps, Frame, BuildTypes
<1>3. Named'
  <2>1. ASSUME NEW n \in Name, NEW c \in Job, (\E w \in Disks : owner'[n][w] = c) \/ dom'[n].by = c
        PROVE  job'[c].vm = n /\ job'[c].pc # "idle"
    <3>0. /\ job'[c].vm = job[c].vm /\ (job[c].pc # "idle" => job'[c].pc # "idle") /\ job[b].pc # "idle"
          /\ c # None
          /\ (\E w \in Disks : owner[n][w] = c) \/ dom[n].by = c => job[c].vm = n /\ job[c].pc # "idle"
      BY <1>1, BuildFacts DEF Keeps, Frame, BuildInv, Named, Bld!Running
    <3>1. CASE c = b
      <4>1. CASE n = job[b].vm
        BY <1>1, <3>0, <3>1, <4>1 DEF Keeps
      <4>2. CASE n # job[b].vm
        <5>1. dom'[n] = dom[n] /\ \A w \in Disks : owner'[n][w] = owner[n][w]
          BY <1>1, <4>2 DEF Keeps
        <5> QED
          BY <2>1, <3>0, <3>1, <4>2, <5>1
      <4> QED
        BY <4>1, <4>2
    <3>2. CASE c # b
      <4>1. dom'[n].by = c => dom[n].by = c
        BY <1>1, <3>0, <3>2 DEF Keeps
      <4>2. \A w \in Disks : owner'[n][w] = c => owner[n][w] = c
        BY <1>1, <3>0, <3>2 DEF Keeps
      <4> QED
        BY <2>1, <3>0, <4>1, <4>2
    <3> QED
      BY <3>1, <3>2
  <2>2. ASSUME NEW n \in Name, dom'[n].st = "none" PROVE dom'[n].by = None
    BY <1>1, <2>2 DEF Keeps, BuildInv, Named
  <2> QED
    BY <2>1, <2>2 DEF Named
<1>4. Apart'
  BY <1>1 DEF Keeps, Frame, BuildInv, Apart, Bld!Running
<1>5. \A c \in Job : Mine(c)'
  BY StepMine, OthersMine
<1> QED
  BY <1>2, <1>3, <1>4, <1>5 DEF BuildInv

\* A name is given to a build when no other that is under way bears it without ZFS.
LEMMA BeginKeeps ==
  ASSUME BuildInv, NEW b \in Job, NEW n \in Name, NEW p \in Builders, Bld!Begin(b, n, p)
  PROVE  /\ BuildInv' /\ UNCHANGED <<owner, dom>> /\ job[b].pc = "idle" /\ Bld!Running(b)'
         /\ \A c \in Job \ {b} : job'[c] = job[c]
         /\ Bld!Own(b) = {} /\ Bld!Own(b)' = {}
<1>1. PICK mode \in {"cloud", "own", "iso"}, zv \in BOOLEAN, data \in BOOLEAN :
        /\ Bld!MayStart(b, n, zv)
        /\ mode = "iso" => ~data
        /\ job' = [job EXCEPT ![b] = [Bld!NoJob EXCEPT
                     !.pc = IF mode = "iso" THEN "root" ELSE "lock",
                     !.vm = n, !.proc = p, !.mode = mode, !.zfs = zv, !.data = data]]
  BY DEF Bld!Begin
<1> DEFINE q == IF mode = "iso" THEN "root" ELSE "lock"
           r == [Bld!NoJob EXCEPT !.pc = q, !.vm = n, !.proc = p, !.mode = mode, !.zfs = zv, !.data = data]
<1>2. job[b].pc = "idle" /\ UNCHANGED <<owner, dom>> /\ Begun(b)
  BY DEF Bld!Begin, Bld!hostVars, BuildInv, Mine
<1>3. q \in {"root", "lock"} /\ q \in Bld!PC
  BY DEF Bld!PC
<1> HIDE DEF q
<1>4. r \in JobRec
  BY <1>3, NoJobIsRec DEF JobRec
<1>5. /\ r.vm = n /\ r.zfs = zv /\ r.mode = mode /\ r.data = data /\ r.proc = p /\ r.pc = q
      /\ r.undo = <<>> /\ r.over = {} /\ r.clean = TRUE /\ r.seen = FALSE
  BY DEF Bld!NoJob
<1>6. job' = [job EXCEPT ![b] = r]
  BY <1>1 DEF q
<1> HIDE DEF r
<1>7. job' \in [Job -> JobRec] /\ job'[b] = r /\ \A c \in Job \ {b} : job'[c] = job[c]
  BY <1>4, <1>6 DEF BuildInv, BuildTypes
<1>8. job[b].vm = None /\ \A m \in Name : dom[m].by # b /\ \A w \in Disks : owner[m][w] # b
  BY <1>2, BuildFacts DEF Begun, BuildInv, Named
<1>9. Made(b)' = {} /\ ToUndo(b)' = {} /\ Once(b)' /\ Due(b)' = {}
  BY <1>2, <1>3, <1>5, <1>7, <1>8 DEF Made, ToUndo, Once, Due
<1>10. Bld!Own(b) = {} /\ Bld!Own(b)' = {}
  BY <1>2, <1>5, <1>7, <1>8 DEF Bld!Own, Disks
<1>11. Bld!Running(b)' /\ job'[b].pc # "undo"
  BY <1>3, <1>5, <1>7 DEF Bld!Running
<1>12. Mine(b)'
  <2>1. Begun(b)'
    BY <1>1, <1>3, <1>5, <1>7 DEF Begun, q
  <2>2. Stacked(b)'
    BY <1>5, <1>7, <1>9, <1>11 DEF Stacked
  <2>3. Fresh(b)' /\ HasEnded(b)'
    BY <1>3, <1>5, <1>7 DEF Fresh, HasEnded
  <2> QED
    BY <2>1, <2>2, <2>3 DEF Mine
<1>13. ASSUME NEW c \in Job, c # b PROVE Mine(c)'
  <2>1. Mine(c) /\ job'[c] = job[c]
    BY <1>7, <1>13 DEF BuildInv
  <2>2. Made(c)' = Made(c) /\ Due(c)' = Due(c) /\ ToUndo(c)' = ToUndo(c) /\ (Once(c)' <=> Once(c))
    BY <1>2, <2>1 DEF Made, Due, ToUndo, Once, Bld!RootOf, Bld!DataOf
  <2>3. Bld!Own(c)' = Bld!Own(c) /\ Bld!Needs(c)' = Bld!Needs(c)
    BY <1>2, <2>1 DEF Bld!Own, Bld!Needs, Bld!RootOf, Bld!DataOf
  <2>4. Begun(c)' /\ Fresh(c)'
    BY <1>2, <2>1 DEF Mine, Begun, Fresh, FileOf
  <2>5. Stacked(c)' /\ HasEnded(c)'
    BY <2>1, <2>2, <2>3 DEF Mine, Stacked, HasEnded, Bld!Running
  <2> QED
    BY <2>4, <2>5 DEF Mine
<1>14. Named'
  <2>1. ASSUME NEW m \in Name, NEW c \in Job, (\E w \in Disks : owner'[m][w] = c) \/ dom'[m].by = c
        PROVE  job'[c].vm = m /\ job'[c].pc # "idle"
    <3>1. c # b
      BY <1>2, <1>8, <2>1
    <3> QED
      BY <1>2, <1>7, <2>1, <3>1 DEF BuildInv, Named
  <2> QED
    BY <1>2, <2>1 DEF BuildInv, Named
<1>15. Apart'
  <2>1. \A c \in Job \ {b} : Bld!Running(c) /\ job[c].vm = n => zv /\ job[c].zfs
    BY <1>1, BuildingAssumption DEF Bld!MayStart
  <2> QED
    BY <1>5, <1>7, <2>1 DEF BuildInv, Apart, Bld!Running
<1> QED
  BY <1>2, <1>7, <1>10, <1>11, <1>12, <1>13, <1>14, <1>15, HostTypes DEF BuildInv, BuildTypes

\* What a build owns, in terms of what it has made.
OwnAs(b) ==
  /\ Bld!Running(b) => Bld!Own(b) = Made(b) \cup job[b].over /\ Bld!Own(b) \subseteq Bld!Needs(b)
  /\ job[b].pc = "broken" => Bld!Own(b) = Made(b) /\ Bld!Own(b) \subseteq Bld!Needs(b)
  /\ job[b].pc = "failed" => Bld!Own(b) = {}
  /\ job[b].pc = "ok" => Bld!Own(b) = Bld!Needs(b)
  /\ Bld!Own(b) \subseteq Bld!Parts

LEMMA OwnIs == BuildInv => \A b \in Job : OwnAs(b)
<1> SUFFICES ASSUME BuildInv, NEW b \in Job PROVE OwnAs(b)
  OBVIOUS
<1>1. Mine(b) /\ (job[b].pc # "idle" => job[b].vm \in Name /\ job[b].vm # None)
  BY BuildFacts DEF BuildInv, Mine, Begun
<1>2. ASSUME job[b].pc \notin {"idle", "ok"}
      PROVE  Bld!Own(b) = Made(b) \cup (IF job[b].pc \in {"failed", "broken"} THEN {} ELSE job[b].over)
  BY <1>1, <1>2 DEF Bld!Own, Made, Disks
<1>3. job[b].over \subseteq Bld!Parts
  BY Sets DEF BuildInv, BuildTypes, JobRec
<1>4. Bld!Own(b) \subseteq Bld!Parts
  BY <1>3, Sets DEF Bld!Own, Disks
<1> QED
  BY <1>1, <1>2, <1>4 DEF OwnAs, Mine, Stacked, HasEnded, Bld!Running

LEMMA OwnIsThen == (BuildInv => \A b \in Job : OwnAs(b))'
  BY OwnIs, PTL

\* A kill leaves each build it stops with what it had made.
LEMMA CrashKeeps ==
  ASSUME BuildInv, NEW p \in Builders, Bld!Crash(p)
  PROVE  /\ BuildInv' /\ UNCHANGED <<owner, dom>>
         /\ \A b \in Job : \/ Bld!Running(b) /\ job'[b].pc = "broken" /\ job[b].proc = p
                           \/ job'[b] = job[b] /\ ~(Bld!Running(b) /\ job[b].proc = p)
         /\ \A b \in Job : Bld!Needs(b)' = Bld!Needs(b)
<1>1. /\ UNCHANGED <<owner, dom>>
      /\ job' = [b \in Job |-> IF Bld!Running(b) /\ job[b].proc = p THEN [job[b] EXCEPT !.pc = "broken"] ELSE job[b]]
  BY DEF Bld!Crash, Bld!hostVars
<1>2. job' \in [Job -> JobRec]
  <2>1. \A b \in Job : [job[b] EXCEPT !.pc = "broken"] \in JobRec /\ job[b] \in JobRec
    <3>1. \A b \in Job : job[b] \in JobRec
      BY DEF BuildInv, BuildTypes
    <3>2. "broken" \in Bld!PC
      BY DEF Bld!PC
    <3> QED
      BY <3>1, <3>2 DEF JobRec
  <2> QED
    BY <1>1, <2>1
<1>3. ASSUME NEW b \in Job, Bld!Running(b), job[b].proc = p
      PROVE  /\ job'[b].pc = "broken" /\ job'[b].vm = job[b].vm /\ job'[b].proc = job[b].proc
             /\ job'[b].mode = job[b].mode /\ job'[b].zfs = job[b].zfs /\ job'[b].data = job[b].data
  BY <1>1, <1>3, JobParts DEF JobRec
<1>4. ASSUME NEW b \in Job, ~(Bld!Running(b) /\ job[b].proc = p) PROVE job'[b] = job[b]
  BY <1>1, <1>4
<1>5. ASSUME NEW b \in Job
      PROVE  /\ job'[b].vm = job[b].vm /\ Made(b)' = Made(b) /\ Bld!Needs(b)' = Bld!Needs(b)
             /\ (Bld!Running(b)' => job'[b] = job[b] /\ Bld!Running(b)) /\ (job'[b].pc = "idle" <=> job[b].pc = "idle")
  <2>1. CASE Bld!Running(b) /\ job[b].proc = p
    BY <1>1, <1>3, <2>1 DEF Made, Bld!Needs, Bld!RootOf, Bld!DataOf, Bld!Running
  <2>2. CASE ~(Bld!Running(b) /\ job[b].proc = p)
    BY <1>1, <1>4, <2>2 DEF Made, Bld!Needs, Bld!RootOf, Bld!DataOf, Bld!Running
  <2> QED
    BY <2>1, <2>2
<1>6. Named' /\ Apart'
  <2>1. Named'
    BY <1>1, <1>5 DEF BuildInv, Named
  <2>2. Apart'
    BY <1>5 DEF BuildInv, Apart
  <2> QED
    BY <2>1, <2>2
<1>7. ASSUME NEW b \in Job PROVE Mine(b)'
  <2>1. Mine(b)
    BY DEF BuildInv
  <2>2. CASE Bld!Running(b) /\ job[b].proc = p
    BY <1>3, <1>5, <2>1, <2>2, JobParts DEF Mine, Begun, Stacked, Fresh, HasEnded, Bld!Running
  <2>3. CASE ~(Bld!Running(b) /\ job[b].proc = p)
    <3>1. job'[b] = job[b]
      BY <1>4, <2>3
    <3>2. Due(b)' = Due(b) /\ ToUndo(b)' = ToUndo(b) /\ (Once(b)' <=> Once(b))
      BY <3>1 DEF Due, ToUndo, Once, Bld!RootOf, Bld!DataOf
    <3>3. Bld!Own(b)' = Bld!Own(b)
      BY <1>1, <3>1 DEF Bld!Own
    <3>4. Begun(b)' /\ Fresh(b)'
      BY <1>1, <2>1, <3>1 DEF Mine, Begun, Fresh, FileOf
    <3> QED
      BY <1>5, <2>1, <3>1, <3>2, <3>3, <3>4 DEF Mine, Stacked, HasEnded, Bld!Running
  <2> QED
    BY <2>2, <2>3
<1> QED
  BY <1>1, <1>2, <1>3, <1>4, <1>5, <1>6, <1>7, HostTypes DEF BuildInv, BuildTypes

LEMMA BuildInductive == BuildInv /\ [Bld!Next]_buildVars => BuildInv'
<1> SUFFICES ASSUME BuildInv, [Bld!Next]_buildVars PROVE BuildInv'
  OBVIOUS
<1>1. CASE UNCHANGED buildVars
  <2>1. UNCHANGED <<job, owner, dom>>
    BY <1>1 DEF buildVars
  <2>2. \A b \in Job : /\ Made(b)' = Made(b) /\ Due(b)' = Due(b) /\ ToUndo(b)' = ToUndo(b) /\ (Once(b)' <=> Once(b))
                       /\ Bld!Own(b)' = Bld!Own(b) /\ Bld!Needs(b)' = Bld!Needs(b)
    BY <2>1 DEF Made, Due, ToUndo, Once, Bld!Own, Bld!Needs, Bld!RootOf, Bld!DataOf
  <2>3. \A b \in Job : Begun(b)' /\ Fresh(b)' /\ Stacked(b)' /\ HasEnded(b)'
    BY <2>1, <2>2 DEF BuildInv, Mine, Begun, Fresh, FileOf, Stacked, HasEnded, Bld!Running
  <2> QED
    BY <2>1, <2>3 DEF BuildInv, BuildTypes, Named, Apart, Mine, Bld!Running
<1>2. CASE \E b \in Job : Bld!Step(b)
  BY <1>2, StepKeeps
<1>3. CASE \E b \in Job, n \in Name, p \in Builders : Bld!Begin(b, n, p)
  BY <1>3, BeginKeeps
<1>4. CASE \E p \in Builders : Bld!Crash(p)
  BY <1>4, CrashKeeps
<1> QED
  BY <1>1, <1>2, <1>3, <1>4 DEF Bld!Next

-----------------------------------------------------------------------------
(* Build implements AllOrNothing.                                          *)

LEMMA StepRefines ==
  ASSUME BuildInv, NEW b \in Job, Bld!Step(b) PROVE Bld!Abstract!Next
<1>1. Bld!Running(b) /\ Keeps(b) /\ BuildInv'
  BY StepMine, StepKeeps
<1>2. /\ Bld!Phase(b) = "works" /\ job[b].pc # "idle" /\ job'[b].pc # "idle" /\ Bld!Needs(b)' = Bld!Needs(b)
  BY <1>1, NeedsStay DEF Bld!Phase, Bld!Running, Keeps
<1>3. ASSUME NEW c \in Job, c # b
      PROVE  Bld!Phase(c)' = Bld!Phase(c) /\ Bld!Own(c)' = Bld!Own(c) /\ Bld!Needs(c)' = Bld!Needs(c) /\ job'[c] = job[c]
  BY <1>1, <1>3, OthersParts DEF Bld!Phase, Bld!Running
<1>4. [c \in Job |-> IF job[c].pc = "idle" THEN {} ELSE Bld!Needs(c)]'
      = [c \in Job |-> IF job[c].pc = "idle" THEN {} ELSE Bld!Needs(c)]
  BY <1>2, <1>3
<1>5. [c \in Job |-> Bld!Own(c)]' = [[c \in Job |-> Bld!Own(c)] EXCEPT ![b] = Bld!Own(b)']
  BY <1>3
<1>6. [c \in Job |-> Bld!Phase(c)]' = [[c \in Job |-> Bld!Phase(c)] EXCEPT ![b] = Bld!Phase(b)']
  BY <1>3
<1>7. /\ Bld!Running(b)' => Bld!Own(b)' \subseteq Bld!Needs(b)
      /\ job'[b].pc = "broken" => Bld!Own(b)' \subseteq Bld!Needs(b)
      /\ job'[b].pc = "failed" => Bld!Own(b)' = {}
      /\ job'[b].pc = "ok" => Bld!Own(b)' = Bld!Needs(b)
  BY <1>1, <1>2, OwnIsThen DEF OwnAs
<1>8. CASE Bld!Running(b)'
  <2>1. Bld!Phase(b)' = "works"
    BY <1>8 DEF Bld!Phase
  <2>2. Bld!Abstract!Work(b)
    BY <1>2, <1>4, <1>5, <1>6, <1>7, <1>8, <2>1 DEF Bld!Abstract!Work
  <2> QED
    BY <2>2 DEF Bld!Abstract!Next
<1>9. CASE job'[b].pc = "ok"
  <2>1. Bld!Phase(b)' = "done"
    BY <1>9 DEF Bld!Phase, Bld!Running
  <2>2. Bld!Abstract!Succeed(b)
    BY <1>2, <1>4, <1>5, <1>6, <1>7, <1>9, <2>1 DEF Bld!Abstract!Succeed
  <2> QED
    BY <2>2 DEF Bld!Abstract!Next
<1>10. CASE job'[b].pc = "failed"
  <2>1. Bld!Phase(b)' = "failed"
    BY <1>10 DEF Bld!Phase, Bld!Running
  <2>2. Bld!Abstract!Fail(b)
    BY <1>2, <1>4, <1>5, <1>6, <1>7, <1>10, <2>1 DEF Bld!Abstract!Fail
  <2> QED
    BY <2>2 DEF Bld!Abstract!Next
<1>11. CASE job'[b].pc = "broken"
  <2>1. Bld!Phase(b)' = "broken"
    BY <1>11 DEF Bld!Phase, Bld!Running
  <2>2. \A c \in Job : Bld!Own(c)' \in SUBSET Bld!Parts
    BY <1>1, OwnIsThen DEF OwnAs
  <2>3. Bld!Abstract!Break({b})
    BY <1>2, <1>3, <1>4, <1>5, <1>6, <1>7, <1>11, <2>1, <2>2 DEF Bld!Abstract!Break
  <2> QED
    BY <2>3 DEF Bld!Abstract!Next
<1> QED
  BY <1>2, <1>8, <1>9, <1>10, <1>11 DEF Bld!Running

LEMMA BeginRefines ==
  ASSUME BuildInv, NEW b \in Job, NEW n \in Name, NEW p \in Builders, Bld!Begin(b, n, p)
  PROVE  Bld!Abstract!Next
<1>1. /\ UNCHANGED <<owner, dom>> /\ job[b].pc = "idle" /\ Bld!Running(b)'
      /\ \A c \in Job \ {b} : job'[c] = job[c]
      /\ Bld!Own(b) = {} /\ Bld!Own(b)' = {}
  BY BeginKeeps
<1>2. ASSUME NEW c \in Job, c # b
      PROVE  Bld!Phase(c)' = Bld!Phase(c) /\ Bld!Own(c)' = Bld!Own(c) /\ Bld!Needs(c)' = Bld!Needs(c) /\ job'[c] = job[c]
  BY <1>1, <1>2 DEF Bld!Phase, Bld!Running, Bld!Own, Bld!Needs, Bld!RootOf, Bld!DataOf
<1>3. Bld!Phase(b) = "idle" /\ Bld!Phase(b)' = "works"
  BY <1>1 DEF Bld!Phase, Bld!Running
<1>4. [c \in Job |-> Bld!Own(c)]' = [c \in Job |-> Bld!Own(c)]
  BY <1>1, <1>2
<1>5. [c \in Job |-> Bld!Phase(c)]' = [[c \in Job |-> Bld!Phase(c)] EXCEPT ![b] = "works"]
  BY <1>2, <1>3
<1>6. /\ Bld!Needs(b)' \in SUBSET Bld!Parts /\ job'[b].pc # "idle"
      /\ [c \in Job |-> IF job[c].pc = "idle" THEN {} ELSE Bld!Needs(c)]'
         = [[c \in Job |-> IF job[c].pc = "idle" THEN {} ELSE Bld!Needs(c)] EXCEPT ![b] = Bld!Needs(b)']
  <2>1. Bld!Needs(b)' \in SUBSET Bld!Parts
    BY DEF Bld!Needs, Bld!RootOf, Bld!DataOf, Bld!Parts, Bld!Zvols, Bld!Files
  <2>2. job'[b].pc # "idle"
    BY <1>1 DEF Bld!Running
  <2> QED
    BY <1>2, <2>1, <2>2
<1>7. Bld!Abstract!Start(b)
  BY <1>3, <1>4, <1>5, <1>6 DEF Bld!Abstract!Start
<1> QED
  BY <1>7 DEF Bld!Abstract!Next

LEMMA CrashRefines ==
  ASSUME BuildInv, NEW p \in Builders, Bld!Crash(p)
  PROVE  Bld!Abstract!Next
<1> DEFINE s == {b \in Job : Bld!Running(b) /\ job[b].proc = p}
<1>1. /\ BuildInv' /\ UNCHANGED <<owner, dom>>
      /\ \A b \in Job : IF b \in s THEN Bld!Running(b) /\ job'[b].pc = "broken" ELSE job'[b] = job[b]
      /\ \A b \in Job : Bld!Needs(b)' = Bld!Needs(b)
  BY CrashKeeps
<1>2. s # {} /\ s \in SUBSET Job
  BY DEF Bld!Crash
<1>3. \A b \in s : Bld!Phase(b) = "works" /\ Bld!Phase(b)' = "broken" /\ job[b].pc # "idle" /\ job'[b].pc # "idle"
  BY <1>1 DEF Bld!Phase, Bld!Running
<1>4. \A b \in Job \ s : Bld!Phase(b)' = Bld!Phase(b) /\ Bld!Own(b)' = Bld!Own(b) /\ job'[b] = job[b]
  BY <1>1 DEF Bld!Phase, Bld!Running, Bld!Own
<1>5. \A b \in Job : Bld!Own(b)' \in SUBSET Bld!Parts /\ (b \in s => Bld!Own(b)' \subseteq Bld!Needs(b))
  BY <1>1, OwnIsThen DEF OwnAs
<1> HIDE DEF s
<1>6. [c \in Job |-> Bld!Phase(c)]' = [c \in Job |-> IF c \in s THEN "broken" ELSE [d \in Job |-> Bld!Phase(d)][c]]
  BY <1>3, <1>4
<1>7. [c \in Job |-> IF job[c].pc = "idle" THEN {} ELSE Bld!Needs(c)]'
      = [c \in Job |-> IF job[c].pc = "idle" THEN {} ELSE Bld!Needs(c)]
  BY <1>1, <1>3, <1>4
<1>8. Bld!Abstract!Break(s)
  BY <1>2, <1>3, <1>4, <1>5, <1>6, <1>7 DEF Bld!Abstract!Break
<1> QED
  BY <1>2, <1>8 DEF Bld!Abstract!Next

LEMMA BuildRefines == BuildInv /\ [Bld!Next]_buildVars => [Bld!Abstract!Next]_(Bld!Abstract!vars)
<1> SUFFICES ASSUME BuildInv, [Bld!Next]_buildVars PROVE [Bld!Abstract!Next]_(Bld!Abstract!vars)
  OBVIOUS
<1>1. CASE UNCHANGED buildVars
  <2>1. UNCHANGED <<job, owner, dom>>
    BY <1>1 DEF buildVars
  <2>2. \A b \in Job : Bld!Phase(b)' = Bld!Phase(b) /\ Bld!Own(b)' = Bld!Own(b) /\ Bld!Needs(b)' = Bld!Needs(b)
    BY <2>1 DEF Bld!Phase, Bld!Running, Bld!Own, Bld!Needs, Bld!RootOf, Bld!DataOf
  <2> QED
    BY <2>1, <2>2 DEF Bld!Abstract!vars
<1>2. CASE \E b \in Job : Bld!Step(b)
  BY <1>2, StepRefines
<1>3. CASE \E b \in Job, n \in Name, p \in Builders : Bld!Begin(b, n, p)
  BY <1>3, BeginRefines
<1>4. CASE \E p \in Builders : Bld!Crash(p)
  BY <1>4, CrashRefines
<1> QED
  BY <1>1, <1>2, <1>3, <1>4 DEF Bld!Next

\* What was there before a build stays as it was.
LEMMA OldStays ==
  BuildInv /\ [Bld!Next]_buildVars =>
    \A n \in Name : /\ \A w \in Bld!Zvols \cup Bld!Files : owner[n][w] = Old => owner'[n][w] = Old
                    /\ dom[n].by = Old => UNCHANGED dom[n]
<1> SUFFICES ASSUME BuildInv, [Bld!Next]_buildVars, NEW n \in Name
             PROVE  /\ \A w \in Disks : owner[n][w] = Old => owner'[n][w] = Old
                    /\ dom[n].by = Old => UNCHANGED dom[n]
  BY DEF Disks
<1>1. CASE UNCHANGED <<owner, dom>>
  BY <1>1
<1>2. ASSUME NEW b \in Job, Bld!Step(b)
      PROVE  /\ \A w \in Disks : owner[n][w] = Old => owner'[n][w] = Old
             /\ dom[n].by = Old => UNCHANGED dom[n]
  BY <1>2, StepMine, BuildFacts DEF Keeps
<1>3. (\E b \in Job : Bld!Step(b)) \/ UNCHANGED <<owner, dom>>
  BY BeginKeeps, CrashKeeps DEF Bld!Next, buildVars
<1> QED
  BY <1>1, <1>2, <1>3

LEMMA BuildInitRefines == Bld!Init => Bld!Abstract!Init
<1> SUFFICES ASSUME Bld!Init PROVE Bld!Abstract!Init
  OBVIOUS
<1>1. \A b \in Job : job[b].pc = "idle" /\ job[b].vm = None
  BY BuildFacts DEF Bld!Init
<1>2. \A b \in Job : Bld!Phase(b) = "idle" /\ Bld!Own(b) = {}
  BY <1>1 DEF Bld!Phase, Bld!Own, Bld!Running
<1> QED
  BY <1>1, <1>2 DEF Bld!Abstract!Init

\* A step of the whole is a step of the part, or leaves it alone.
LEMMA BuildPart == [BuildingNext]_all => [Bld!Next]_buildVars
  BY DEF BuildingNext, all

\* Any number of builds, of whatever names, in any processes, with any number of
\* faults and kills: done is all of the machine, failed is none of it, an ended build
\* touches nothing, and what was there before is never taken (BuildNewVM, rollback).
THEOREM AllOrNothingKept == BuildingSpec => BuildIsAllOrNothing
<1>1. BuildingInit => BuildInv /\ Bld!Abstract!Init
  BY BuildInitHolds, BuildInitRefines DEF BuildingInit
<1>2. BuildInv /\ [BuildingNext]_all => BuildInv'
  BY BuildPart, BuildInductive
<1>3. BuildInv /\ [BuildingNext]_all => [Bld!Abstract!Next]_(Bld!Abstract!vars)
  BY BuildPart, BuildRefines
<1>4. BuildInv /\ [BuildingNext]_all =>
        [\A n \in Name : /\ \A w \in Bld!Zvols \cup Bld!Files : owner[n][w] = Old => owner'[n][w] = Old
                         /\ dom[n].by = Old => UNCHANGED dom[n]]_(Bld!vars)
  BY BuildPart, OldStays
<1>5. BuildingSpec => Bld!Abstract!Spec
  BY <1>1, <1>2, <1>3, PTL DEF BuildingSpec, Bld!Abstract!Spec
<1>6. BuildingSpec => Bld!OldKept
  BY <1>1, <1>2, <1>4, PTL DEF BuildingSpec, Bld!OldKept
<1> QED
  BY <1>5, <1>6 DEF BuildIsAllOrNothing, Bld!BuildIsAllOrNothing

\* What AllOrNothing says of every step is worth implementing: a job that says it is
\* done has all of its parts, one that failed has none.
LEMMA PromiseStays ==
  Bld!Abstract!TypeOK /\ Bld!Abstract!Promise /\ [Bld!Abstract!Next]_(Bld!Abstract!vars)
    => Bld!Abstract!TypeOK' /\ Bld!Abstract!Promise'
<1> DEFINE phase == [b \in Job |-> Bld!Phase(b)]
           needs == [b \in Job |-> IF job[b].pc = "idle" THEN {} ELSE Bld!Needs(b)]
           has   == [b \in Job |-> Bld!Own(b)]
<1> SUFFICES ASSUME Bld!Abstract!TypeOK, Bld!Abstract!Promise, [Bld!Abstract!Next]_(Bld!Abstract!vars)
             PROVE  Bld!Abstract!TypeOK' /\ Bld!Abstract!Promise'
  OBVIOUS
<1>1. PICK ph, nd, hs, ph1, nd1, hs1 : /\ ph = phase /\ nd = needs /\ hs = has
                                       /\ ph1 = phase' /\ nd1 = needs' /\ hs1 = has'
  OBVIOUS
<1>2. /\ ph \in [Job -> {"idle", "works", "done", "failed", "broken"}]
      /\ nd \in [Job -> SUBSET Bld!Parts] /\ hs \in [Job -> SUBSET Bld!Parts]
      /\ \A j \in Job : /\ ph[j] = "done" => hs[j] = nd[j]
                        /\ ph[j] \in {"idle", "failed"} => hs[j] = {}
  BY <1>1 DEF Bld!Abstract!TypeOK, Bld!Abstract!Promise
<1> DEFINE Kept == /\ ph1 \in [Job -> {"idle", "works", "done", "failed", "broken"}]
                   /\ nd1 \in [Job -> SUBSET Bld!Parts] /\ hs1 \in [Job -> SUBSET Bld!Parts]
                   /\ \A j \in Job : /\ ph1[j] = "done" => hs1[j] = nd1[j]
                                     /\ ph1[j] \in {"idle", "failed"} => hs1[j] = {}
<1>3. SUFFICES Kept
  BY <1>1 DEF Bld!Abstract!TypeOK, Bld!Abstract!Promise
<1>4. CASE UNCHANGED Bld!Abstract!vars
  BY <1>1, <1>2, <1>4 DEF Bld!Abstract!vars
<1>5. ASSUME NEW j \in Job, Bld!Abstract!Start(j) PROVE Kept
  <2>1. /\ ph[j] = "idle" /\ hs1 = hs
        /\ (\E p \in {"works", "failed"} : ph1 = [ph EXCEPT ![j] = p])
        /\ \E s \in SUBSET Bld!Parts : nd1 = [nd EXCEPT ![j] = s]
    BY <1>1, <1>5 DEF Bld!Abstract!Start
  <2> QED
    BY <1>2, <2>1
<1>6. ASSUME NEW j \in Job, Bld!Abstract!Work(j) PROVE Kept
  <2>1. ph[j] = "works" /\ ph1 = ph /\ nd1 = nd /\ \E s \in SUBSET nd[j] : hs1 = [hs EXCEPT ![j] = s]
    BY <1>1, <1>6 DEF Bld!Abstract!Work
  <2> QED
    BY <1>2, <2>1
<1>7. ASSUME NEW j \in Job, Bld!Abstract!Succeed(j) \/ Bld!Abstract!Fail(j) PROVE Kept
  <2>1. /\ nd1 = nd
        /\ \/ ph1 = [ph EXCEPT ![j] = "done"] /\ hs1 = [hs EXCEPT ![j] = nd[j]]
           \/ ph1 = [ph EXCEPT ![j] = "failed"] /\ hs1 = [hs EXCEPT ![j] = {}]
    BY <1>1, <1>7 DEF Bld!Abstract!Succeed, Bld!Abstract!Fail
  <2> QED
    BY <1>2, <2>1
<1>8. ASSUME NEW s \in SUBSET Job, Bld!Abstract!Break(s) PROVE Kept
  <2>1. /\ nd1 = nd /\ ph1 = [j \in Job |-> IF j \in s THEN "broken" ELSE ph[j]]
        /\ hs1 \in [Job -> SUBSET Bld!Parts]
        /\ \A j \in Job : IF j \in s THEN hs1[j] \subseteq nd[j] ELSE hs1[j] = hs[j]
    BY <1>1, <1>8 DEF Bld!Abstract!Break
  <2> QED
    BY <1>2, <2>1
<1> QED
  BY <1>4, <1>5, <1>6, <1>7, <1>8 DEF Bld!Abstract!Next

\* So of every build, at every moment: one that says its machine is there has made every
\* part of it, one that failed has left no part.
THEOREM PromiseKept == BuildingSpec => []Bld!Abstract!Promise
<1>1. Bld!Abstract!Init => Bld!Abstract!TypeOK /\ Bld!Abstract!Promise
  BY DEF Bld!Abstract!Init, Bld!Abstract!TypeOK, Bld!Abstract!Promise
<1>2. Bld!Abstract!Spec => []Bld!Abstract!Promise
  BY <1>1, PromiseStays, PTL DEF Bld!Abstract!Spec
<1> QED
  BY <1>2, AllOrNothingKept, PTL DEF BuildIsAllOrNothing, Bld!BuildIsAllOrNothing

-----------------------------------------------------------------------------
(* The cache of images, within one process.                                *)

InCache == {"image", "curl", "verify"}

\* Who is past the lock holds it; the file is what he has made of it so far, and
\* settled, good or what a failed fetch left, once somebody has gone on with it.
Fetched == {"good", "left"}

Cached ==
  /\ imageMu \in [Builders -> Job \cup {None}]
  /\ image \in {"none", "part", "bad", "good", "left"} /\ buildFaults \in 0..MaxBuildFault
  /\ \A b \in Job :
       /\ job[b].pc \in InCache => job[b].proc \in Builders /\ imageMu[job[b].proc] = b /\ job[b].mode = "cloud"
       /\ job[b].pc = "curl" => image = "part"
       /\ job[b].pc = "verify" => image \in {"bad", "good"}
       /\ job[b].pc \in {"root", "fill"} /\ job[b].mode = "cloud" => image \in Fetched
       /\ job[b].boots # "unchecked"
  /\ image = "part" => \E b \in Job : job[b].pc = "curl"
  /\ image = "bad" => \E b \in Job : job[b].pc = "verify"

\* The undos are of what the build is made of, also those of a killed one.
UndoNeeded == \A b \in Job : ToUndo(b) \subseteq Bld!Needs(b)

\* The one who fetches is the only one.
LEMMA Alone ==
  ASSUME BuildInv, Cached, \A p, q \in Builders : p = q, NEW b \in Job, NEW c \in Job,
         job[b].pc \in InCache, job[c].pc \in InCache
  PROVE  b = c
  BY DEF Cached

\* How a step changes the build's record.
Becomes(b, q) ==
  /\ job'[b].pc = q /\ job'[b].boots = job[b].boots /\ job'[b].mode = job[b].mode /\ job'[b].proc = job[b].proc
  /\ \A c \in Job \ {b} : job'[c] = job[c]

LEMMA GoTurns ==
  ASSUME BuildInv, NEW b \in Job, NEW q \in Bld!PC, Bld!Go(b, q) PROVE Becomes(b, q)
<1>1. job \in [Job -> JobRec] /\ job[b] \in JobRec
  BY DEF BuildInv, BuildTypes
<1> QED
  BY <1>1 DEF Bld!Go, Becomes, JobRec

LEMMA FailTurns ==
  ASSUME BuildInv, NEW b \in Job, Bld!FailWith(b) PROVE \E q \in {"failed", "undo"} : Becomes(b, q)
<1>1. job \in [Job -> JobRec] /\ job[b] \in JobRec
  BY DEF BuildInv, BuildTypes
<1> QED
  BY <1>1 DEF Bld!FailWith, Becomes, JobRec

LEMMA MadeTurns ==
  ASSUME BuildInv, NEW b \in Job, NEW w, NEW q \in Bld!PC, Bld!MadeAndGo(b, w, q) PROVE Becomes(b, q)
<1>1. job \in [Job -> JobRec] /\ job[b] \in JobRec
  BY DEF BuildInv, BuildTypes
<1> QED
  BY <1>1 DEF Bld!MadeAndGo, Becomes, JobRec

\* Where a disk or the seed is made nothing is fetched.
LEMMA DiskTurns ==
  ASSUME BuildInv, NEW b \in Job, NEW w, NEW q \in Bld!PC, Bld!LookFor(b, w) \/ Bld!MakeZvol(b, w, q) \/ Bld!MakeFile(b, w, q)
  PROVE  (\E x \in {job[b].pc, q, "failed", "undo"} : Becomes(b, x)) /\ image' = image /\ imageMu' = imageMu
<1>1. job \in [Job -> JobRec] /\ job[b] \in JobRec
  BY DEF BuildInv, BuildTypes
<1>2. CASE Bld!LookFor(b, w)
  BY <1>1, <1>2 DEF Bld!LookFor, Becomes, JobRec
<1>3. CASE Bld!MakeZvol(b, w, q)
  BY <1>3, MadeTurns, FailTurns DEF Bld!MakeZvol
<1>4. CASE Bld!MakeFile(b, w, q)
  <2>1. CASE job' = [job EXCEPT ![b].pc = q, ![b].seen = FALSE, ![b].over = @ \cup {w}]
    BY <1>1, <1>4, <2>1 DEF Bld!MakeFile, Becomes, JobRec
  <2>2. CASE Bld!MadeAndGo(b, w, q)
    BY <1>4, <2>2, MadeTurns DEF Bld!MakeFile
  <2>3. CASE Bld!FailWith(b)
    BY <1>4, <2>3, FailTurns DEF Bld!MakeFile
  <2> QED
    BY <1>4, <2>1, <2>2, <2>3 DEF Bld!MakeFile
<1> QED
  BY <1>2, <1>3, <1>4

\* After the image nothing is fetched, and what is filled is what the cache holds.
LEMMA LaterTurns ==
  ASSUME BuildInv, NEW b \in Job,
         Bld!RootDisk(b) \/ Bld!DataDisk(b) \/ Bld!Seed(b) \/ Bld!VirtInstall(b) \/ Bld!Define(b) \/ Bld!Undo(b)
  PROVE  /\ \E q \in Bld!PC \ (InCache \cup {"lock"}) : Becomes(b, q) /\ (q \in {"root", "fill"} => job[b].pc = "root")
         /\ image' = image /\ imageMu' = imageMu
<1> DEFINE P == /\ \E q \in Bld!PC \ (InCache \cup {"lock"}) : Becomes(b, q) /\ (q \in {"root", "fill"} => job[b].pc = "root")
                /\ image' = image /\ imageMu' = imageMu
<1>1. job \in [Job -> JobRec] /\ job[b] \in JobRec
  BY DEF BuildInv, BuildTypes
<1>2. \A q \in {"root", "fill", "data", "seed", "install", "detect", "define", "undo", "ok", "failed", "broken"} :
        q \in Bld!PC \ (InCache \cup {"lock"})
  BY DEF Bld!PC, InCache
<1>3. CASE Bld!RootDisk(b)
  <2> DEFINE q == IF job[b].mode = "iso" THEN Bld!AfterRoot(b) ELSE "fill"
  <2>1. q \in {"install", "fill"} /\ q \in Bld!PC
    BY <1>2 DEF Bld!AfterRoot
  <2> HIDE DEF q
  <2>2. Bld!LookFor(b, Bld!RootOf(b)) \/ Bld!MakeZvol(b, Bld!RootOf(b), q) \/ Bld!MakeFile(b, Bld!RootOf(b), q)
    BY <1>3 DEF Bld!RootDisk, q
  <2> QED
    BY <1>2, <1>3, <2>1, <2>2, DiskTurns DEF Bld!RootDisk
<1>4. CASE Bld!DataDisk(b)
  <2>1. Bld!LookFor(b, Bld!DataOf(b)) \/ Bld!MakeZvol(b, Bld!DataOf(b), "seed") \/ Bld!MakeFile(b, Bld!DataOf(b), "seed")
    BY <1>4 DEF Bld!DataDisk
  <2>2. "seed" \in Bld!PC
    BY <1>2
  <2> QED
    BY <1>2, <1>4, <2>1, <2>2, DiskTurns DEF Bld!DataDisk
<1>5. CASE Bld!Seed(b)
  <2>1. Bld!LookFor(b, "seed") \/ Bld!MakeFile(b, "seed", "install")
    BY <1>5 DEF Bld!Seed
  <2>2. "install" \in Bld!PC
    BY <1>2
  <2> QED
    BY <1>2, <1>5, <2>1, <2>2, DiskTurns DEF Bld!Seed
<1>6. CASE Bld!VirtInstall(b)
  <2>1. image' = image /\ imageMu' = imageMu
    BY <1>6 DEF Bld!VirtInstall
  <2>2. CASE job' = [job EXCEPT ![b].pc = "ok", ![b].undo = <<>>]
    <3>1. Becomes(b, "ok")
      BY <1>1, <2>2 DEF Becomes, JobRec
    <3> QED
      BY <1>2, <2>1, <3>1
  <2>3. CASE Bld!Go(b, "detect")
    BY <1>2, <2>1, <2>3, GoTurns
  <2>4. CASE Bld!MadeAndGo(b, "dom", "define")
    BY <1>2, <2>1, <2>4, MadeTurns
  <2>5. CASE Bld!FailWith(b)
    BY <1>2, <2>1, <2>5, FailTurns
  <2> QED
    BY <1>6, <2>2, <2>3, <2>4, <2>5 DEF Bld!VirtInstall
<1>7. CASE Bld!Define(b)
  <2>1. image' = image /\ imageMu' = imageMu
    BY <1>7 DEF Bld!Define
  <2>2. CASE job' = [job EXCEPT ![b].pc = "ok", ![b].undo = <<>>]
    <3>1. Becomes(b, "ok")
      BY <1>1, <2>2 DEF Becomes, JobRec
    <3> QED
      BY <1>2, <2>1, <3>1
  <2>5. CASE Bld!FailWith(b)
    BY <1>2, <2>1, <2>5, FailTurns
  <2> QED
    BY <1>7, <2>2, <2>5 DEF Bld!Define
<1>8. CASE Bld!Undo(b)
  <2>1. image' = image /\ imageMu' = imageMu
    BY <1>8 DEF Bld!Undo
  <2>2. PICK clean : Bld!Undone(b, clean)
    BY <1>8 DEF Bld!Undo, Bld!Undoes
  <2> DEFINE rest == Bld!Front(job[b].undo)
             q == IF rest # <<>> THEN "undo" ELSE IF clean THEN "failed" ELSE "broken"
  <2>3. Becomes(b, q)
    <3>1. job' = [job EXCEPT ![b].undo = rest, ![b].clean = clean, ![b].pc = q]
      BY <2>2 DEF Bld!Undone
    <3> HIDE DEF q, rest
    <3> QED
      BY <1>1, <3>1 DEF Becomes, JobRec
  <2>4. q \in {"undo", "failed", "broken"}
    OBVIOUS
  <2> HIDE DEF q
  <2> QED
    BY <1>2, <2>1, <2>3, <2>4
<1> QED
  BY <1>3, <1>4, <1>5, <1>6, <1>7, <1>8

\* The other builds are where they were, and so is the cache.
LEMMA CacheStays ==
  ASSUME BuildInv, Cached, NEW b \in Job, NEW q, Becomes(b, q), q \notin InCache,
         job[b].pc \notin InCache, q \in {"root", "fill"} /\ job[b].mode = "cloud" => image \in Fetched,
         image' = image, imageMu' = imageMu, buildFaults' \in 0..MaxBuildFault
  PROVE  Cached'
<1>1. \A c \in Job \ {b} : job'[c] = job[c]
  BY DEF Becomes
<1>2. job'[b].pc = q /\ job'[b].boots = job[b].boots /\ job'[b].mode = job[b].mode
  BY DEF Becomes
<1> QED
  BY <1>1, <1>2 DEF Cached, InCache

LEMMA FaultsGrow ==
  ASSUME BuildInv, Cached, Bld!Next PROVE buildFaults' \in 0..MaxBuildFault
<1>1. MaxBuildFault \in Nat /\ buildFaults \in 0..MaxBuildFault
  BY BuildingAssumption DEF Cached, Bld!BuildAssumption
<1>2. ASSUME Bld!Fault \/ Bld!NoFault PROVE buildFaults' \in 0..MaxBuildFault
  BY <1>1, <1>2 DEF Bld!Fault, Bld!NoFault
<1>3. ASSUME NEW b \in Job, Bld!Step(b) PROVE Bld!Fault \/ Bld!NoFault
  <2>1. CASE Bld!LockImage(b) \/ Bld!CacheHit(b) \/ Bld!ResolveFails(b) \/ Bld!Download(b) \/ Bld!Downloaded(b)
             \/ Bld!DownloadFails(b) \/ Bld!Verify(b) \/ Bld!Fill(b)
    BY <2>1 DEF Bld!LockImage, Bld!CacheHit, Bld!ResolveFails, Bld!Download, Bld!Downloaded, Bld!DownloadFails, Bld!Verify,
                Bld!Fill, Bld!NoFault
  <2>2. CASE Bld!RootDisk(b) \/ Bld!DataDisk(b) \/ Bld!Seed(b)
    BY <2>2 DEF Bld!RootDisk, Bld!DataDisk, Bld!Seed, Bld!LookFor, Bld!MakeZvol, Bld!MakeFile, Bld!NoFault
  <2>3. CASE Bld!VirtInstall(b) \/ Bld!Define(b) \/ Bld!Undo(b)
    BY <2>3 DEF Bld!VirtInstall, Bld!Define, Bld!Undo, Bld!Undoes
  <2> QED
    BY <1>3, <2>1, <2>2, <2>3 DEF Bld!Step
<1>4. ASSUME NEW b \in Job, NEW n \in Name, NEW p \in Builders, Bld!Begin(b, n, p) PROVE Bld!NoFault
  BY <1>4 DEF Bld!Begin, Bld!NoFault
<1>5. ASSUME NEW p \in Builders, Bld!Crash(p) PROVE Bld!Fault
  BY <1>5 DEF Bld!Crash
<1> QED
  BY <1>2, <1>3, <1>4, <1>5 DEF Bld!Next

\* A build that leaves the cache lets the next one in.
LEMMA LeavesCache ==
  ASSUME BuildInv, Cached, \A p, r \in Builders : p = r, NEW b \in Job, NEW q, Becomes(b, q), q \notin InCache,
         job[b].pc \in InCache, Bld!UnlockImage(b), q \in {"root", "fill"} => image' \in Fetched,
         image' \in {"none"} \cup Fetched, image \in Fetched => image' \in Fetched, buildFaults' \in 0..MaxBuildFault
  PROVE  Cached'
<1>1. /\ \A c \in Job \ {b} : job'[c] = job[c] /\ job[c].pc \notin InCache
      /\ job'[b].pc = q /\ job'[b].boots = job[b].boots /\ job'[b].mode = job[b].mode
  BY Alone DEF Becomes
<1>2. job[b].proc \in Builders /\ imageMu' \in [Builders -> Job \cup {None}]
  BY DEF Cached, Bld!UnlockImage
<1>3. \A c \in Job : job[c].pc \in {"root", "fill"} /\ job[c].mode = "cloud" => image \in Fetched
  BY DEF Cached
<1>4. \A c \in Job : /\ job'[c].pc \notin InCache
                     /\ job'[c].pc \in {"root", "fill"} /\ job'[c].mode = "cloud" => image' \in Fetched
                     /\ job'[c].boots # "unchecked"
  BY <1>1, <1>3 DEF Cached
<1> QED
  BY <1>2, <1>4 DEF Cached, InCache, Fetched

LEMMA FetchHolds ==
  ASSUME BuildInv, Cached, \A p, r \in Builders : p = r, NEW b \in Job, buildFaults' \in 0..MaxBuildFault,
         \/ Bld!LockImage(b) \/ Bld!CacheHit(b) \/ Bld!ResolveFails(b) \/ Bld!Download(b) \/ Bld!Downloaded(b)
         \/ Bld!DownloadFails(b) \/ Bld!Verify(b) \/ Bld!Fill(b)
  PROVE  Cached'
<1>0. /\ job \in [Job -> JobRec] /\ job[b] \in JobRec /\ b # None
      /\ \A q \in {"lock", "image", "curl", "verify", "root", "undo", "failed"} : q \in Bld!PC
  BY BuildFacts DEF BuildInv, BuildTypes, Bld!PC
<1>1. CASE Bld!LockImage(b)
  <2>1. job[b].proc \in Builders /\ imageMu[job[b].proc] = None /\ image' = image /\ job[b].pc = "lock"
    BY <1>1, BuildFacts DEF Bld!LockImage, BuildInv, Mine, Begun
  <2>2. CASE job[b].mode = "own"
    <3>1. Becomes(b, "root") /\ imageMu' = imageMu
      BY <1>0, <1>1, <2>2, GoTurns DEF Bld!LockImage
    <3> QED
      BY <2>1, <2>2, <3>1, CacheStays DEF InCache
  <2>3. CASE job[b].mode # "own"
    <3>1. Becomes(b, "image") /\ imageMu' = [imageMu EXCEPT ![job[b].proc] = b]
      BY <1>0, <1>1, <2>3, GoTurns DEF Bld!LockImage
    <3>2. \A c \in Job : job[c].pc \notin InCache
      BY <1>0, <2>1, BuildFacts DEF Cached
    <3>3. job[b].mode = "cloud"
      BY <1>0, <2>1, <2>3 DEF JobRec, BuildInv, Mine, Begun
    <3>4. imageMu' \in [Builders -> Job \cup {None}] /\ imageMu'[job[b].proc] = b
      BY <2>1, <3>1 DEF Cached
    <3>5. /\ \A c \in Job \ {b} : job'[c] = job[c]
          /\ job'[b].pc = "image" /\ job'[b].boots = job[b].boots /\ job'[b].mode = job[b].mode /\ job'[b].proc = job[b].proc
      BY <3>1 DEF Becomes
    <3> QED
      BY <2>1, <3>2, <3>3, <3>4, <3>5 DEF Cached, InCache
  <2> QED
    BY <2>2, <2>3
<1>2. CASE Bld!CacheHit(b)
  <2>1. Becomes(b, "root") /\ job[b].pc \in InCache /\ image # "none" /\ image' = image /\ Bld!UnlockImage(b)
    BY <1>0, <1>2, GoTurns DEF Bld!CacheHit, InCache
  <2>2. job[b].pc = "image"
    BY <1>2 DEF Bld!CacheHit
  <2>3. image \in Fetched
    BY <2>1, <2>2, Alone DEF Cached, InCache, Fetched
  <2> QED
    BY <2>1, <2>3, LeavesCache DEF InCache
<1>3. CASE Bld!ResolveFails(b)
  <2>1. job[b].pc = "image" /\ image' = image /\ Bld!UnlockImage(b)
    BY <1>3 DEF Bld!ResolveFails
  <2>2. PICK q \in {"failed", "undo"} : Becomes(b, q)
    BY <1>3, FailTurns DEF Bld!ResolveFails
  <2>3. image \in {"none"} \cup Fetched
    BY <2>1, Alone DEF Cached, InCache, Fetched
  <2> QED
    BY <2>1, <2>2, <2>3, LeavesCache DEF InCache
<1>4. CASE Bld!Download(b)
  <2>1. job[b].pc = "image" /\ image = "none" /\ image' = "part" /\ imageMu' = imageMu /\ Becomes(b, "curl")
    BY <1>0, <1>4, GoTurns DEF Bld!Download
  <2>2. /\ \A c \in Job \ {b} : job'[c] = job[c] /\ job[c].pc \notin InCache
        /\ job'[b].pc = "curl" /\ job'[b].boots = job[b].boots /\ job'[b].mode = job[b].mode /\ job'[b].proc = job[b].proc
    BY <2>1, Alone DEF Becomes, InCache
  <2> QED
    BY <2>1, <2>2 DEF Cached, InCache, Fetched
<1>5. CASE Bld!Downloaded(b)
  <2>1. job[b].pc = "curl" /\ image' \in {"good", "bad"} /\ imageMu' = imageMu /\ Becomes(b, "verify")
    BY <1>0, <1>5, GoTurns DEF Bld!Downloaded
  <2>2. /\ \A c \in Job \ {b} : job'[c] = job[c] /\ job[c].pc \notin InCache
        /\ job'[b].pc = "verify" /\ job'[b].boots = job[b].boots /\ job'[b].mode = job[b].mode /\ job'[b].proc = job[b].proc
    BY <2>1, Alone DEF Becomes, InCache
  <2> QED
    BY <2>1, <2>2 DEF Cached, InCache, Fetched
<1>6. CASE Bld!DownloadFails(b)
  <2>1. /\ job[b].pc \in InCache /\ Bld!UnlockImage(b)
        /\ (image = "none" /\ image' = "none") \/ (image = "part" /\ image' = "left")
    <3>1. (job[b].pc = "image" /\ image = "none" /\ image' = image) \/ (job[b].pc = "curl" /\ image' = "left")
      BY <1>6 DEF Bld!DownloadFails
    <3>2. job[b].pc = "curl" => image = "part"
      BY DEF Cached
    <3> QED
      BY <1>6, <3>1, <3>2 DEF Bld!DownloadFails, InCache
  <2>2. PICK q \in {"failed", "undo"} : Becomes(b, q)
    BY <1>6, FailTurns DEF Bld!DownloadFails
  <2> QED
    BY <2>1, <2>2, LeavesCache DEF InCache, Fetched
<1>7. CASE Bld!Verify(b)
  <2>1. job[b].pc = "verify" /\ Bld!UnlockImage(b)
    BY <1>7 DEF Bld!Verify
  <2>2. CASE image = "good" /\ image' = image /\ Bld!Go(b, "root")
    BY <1>0, <2>1, <2>2, GoTurns, LeavesCache DEF InCache, Fetched
  <2>3. CASE Bld!FailWith(b) /\ image' \in {"none", "left"} /\ (image = "good" => image' = "left")
    <3>1. PICK q \in {"failed", "undo"} : Becomes(b, q)
      BY <2>3, FailTurns
    <3> QED
      <4>1. image # "left"
        BY <2>1 DEF Cached
      <4> QED
        BY <2>1, <2>3, <3>1, <4>1, LeavesCache DEF InCache, Fetched
  <2> QED
    BY <1>7, <2>2, <2>3 DEF Bld!Verify
<1>8. CASE Bld!Fill(b)
  <2>1. job[b].pc = "fill" /\ image' = image /\ imageMu' = imageMu
    BY <1>8 DEF Bld!Fill
  <2>2. CASE Bld!FailWith(b)
    <3>1. PICK q \in {"failed", "undo"} : Becomes(b, q)
      BY <2>2, FailTurns
    <3> QED
      BY <2>1, <3>1, CacheStays DEF InCache
  <2>3. CASE job' = [job EXCEPT ![b].pc = Bld!AfterRoot(b), ![b].boots = IF job[b].mode = "own" THEN "own" ELSE Bld!Standing]
    <3>1. PICK x : x = IF job[b].mode = "own" THEN "own" ELSE Bld!Standing
      OBVIOUS
    <3>2. x # "unchecked"
      BY <1>0, <2>1, <3>1 DEF Cached, JobRec, BuildInv, Mine, Begun, Bld!Standing, Fetched
    <3>3. job' = [job EXCEPT ![b].pc = Bld!AfterRoot(b), ![b].boots = x]
      BY <2>3, <3>1
    <3>4. /\ job'[b].pc = Bld!AfterRoot(b) /\ job'[b].boots = x /\ job'[b].mode = job[b].mode
          /\ \A c \in Job \ {b} : job'[c] = job[c]
      BY <1>0, <3>3 DEF JobRec
    <3>5. Bld!AfterRoot(b) \in {"install", "data", "seed"}
      BY DEF Bld!AfterRoot
    <3> QED
      BY <2>1, <3>2, <3>4, <3>5 DEF Cached, InCache
  <2> QED
    BY <1>8, <2>2, <2>3 DEF Bld!Fill
<1> QED
  BY <1>1, <1>2, <1>3, <1>4, <1>5, <1>6, <1>7, <1>8

LEMMA CacheHolds ==
  ASSUME BuildInv, Cached, \A p, r \in Builders : p = r, [Bld!Next]_buildVars PROVE Cached'
<1>1. CASE UNCHANGED buildVars
  BY <1>1 DEF buildVars, Cached
<1>2. CASE Bld!Next
  <2>1. buildFaults' \in 0..MaxBuildFault
    BY <1>2, FaultsGrow
  <2>2. ASSUME NEW b \in Job, Bld!Step(b) PROVE Cached'
    <3>1. CASE Bld!LockImage(b) \/ Bld!CacheHit(b) \/ Bld!ResolveFails(b) \/ Bld!Download(b) \/ Bld!Downloaded(b)
               \/ Bld!DownloadFails(b) \/ Bld!Verify(b) \/ Bld!Fill(b)
      BY <2>1, <3>1, FetchHolds
    <3>2. CASE Bld!RootDisk(b) \/ Bld!DataDisk(b) \/ Bld!Seed(b) \/ Bld!VirtInstall(b) \/ Bld!Define(b) \/ Bld!Undo(b)
      <4>1. job[b].pc \notin InCache
        BY <3>2 DEF Bld!RootDisk, Bld!DataDisk, Bld!Seed, Bld!VirtInstall, Bld!Define, Bld!Undo, InCache
      <4>2. PICK q \in Bld!PC \ (InCache \cup {"lock"}) : Becomes(b, q) /\ (q \in {"root", "fill"} => job[b].pc = "root")
        BY <3>2, LaterTurns
      <4>3. image' = image /\ imageMu' = imageMu
        BY <3>2, LaterTurns
      <4>4. q \in {"root", "fill"} /\ job[b].mode = "cloud" => image \in Fetched
        BY <4>2 DEF Cached
      <4> QED
        BY <2>1, <4>1, <4>2, <4>3, <4>4, CacheStays
    <3> QED
      BY <2>2, <3>1, <3>2 DEF Bld!Step
  <2>3. ASSUME NEW b \in Job, NEW n \in Name, NEW p \in Builders, Bld!Begin(b, n, p) PROVE Cached'
    <3>1. PICK mode \in {"cloud", "own", "iso"}, zv \in BOOLEAN, data \in BOOLEAN :
            job' = [job EXCEPT ![b] = [Bld!NoJob EXCEPT
                     !.pc = IF mode = "iso" THEN "root" ELSE "lock",
                     !.vm = n, !.proc = p, !.mode = mode, !.zfs = zv, !.data = data]]
      BY <2>3 DEF Bld!Begin
    <3>2. job[b].pc = "idle" /\ image' = image /\ imageMu' = imageMu
      BY <2>3 DEF Bld!Begin
    <3> DEFINE q == IF mode = "iso" THEN "root" ELSE "lock"
               r == [Bld!NoJob EXCEPT !.pc = q, !.vm = n, !.proc = p, !.mode = mode, !.zfs = zv, !.data = data]
    <3>3. q \in {"root", "lock"} /\ (q = "root" => mode = "iso")
      OBVIOUS
    <3> HIDE DEF q
    <3>4. r.pc = q /\ r.mode = mode /\ r.boots = "nothing"
      BY DEF Bld!NoJob
    <3>5. job' = [job EXCEPT ![b] = r]
      BY <3>1 DEF q
    <3> HIDE DEF r
    <3>6. job'[b] = r /\ \A c \in Job \ {b} : job'[c] = job[c]
      BY <3>5 DEF BuildInv, BuildTypes
    <3> QED
      BY <2>1, <3>2, <3>3, <3>4, <3>6 DEF Cached, InCache
  <2>4. ASSUME NEW p \in Builders, Bld!Crash(p) PROVE Cached'
    <3>1. \A b \in Job : \/ job'[b].pc = "broken" /\ Bld!Running(b) /\ job[b].proc = p
                         \/ job'[b] = job[b] /\ ~(Bld!Running(b) /\ job[b].proc = p)
      BY <2>4, CrashKeeps
    <3>2. /\ imageMu' = [imageMu EXCEPT ![p] = None]
          /\ image' = IF \E b \in Job : job[b].pc \in {"curl", "verify"} /\ job[b].proc = p THEN "left" ELSE image
      BY <2>4 DEF Bld!Crash
    <3>3. \A b \in Job : job'[b].boots # "unchecked"
      <4>1. \A b \in Job : job[b] \in JobRec
        BY DEF BuildInv, BuildTypes
      <4>2. job' = [b \in Job |-> IF Bld!Running(b) /\ job[b].proc = p THEN [job[b] EXCEPT !.pc = "broken"] ELSE job[b]]
        BY <2>4 DEF Bld!Crash
      <4> QED
        BY <4>1, <4>2 DEF Cached, JobRec
    <3>4. ASSUME NEW b \in Job PROVE job'[b].pc \notin InCache
      <4>1. SUFFICES ASSUME job'[b].pc \in InCache PROVE FALSE
        OBVIOUS
      <4>2. job'[b] = job[b] /\ Bld!Running(b) /\ job[b].proc # p
        BY <3>1, <4>1 DEF InCache, Bld!Running
      <4> QED
        BY <4>1, <4>2 DEF Cached, InCache
    <3>8. image' \in {"none", "good", "left"} /\ (image \in Fetched => image' \in Fetched)
      <4>1. CASE \E b \in Job : job[b].pc \in {"curl", "verify"}
        <5>1. PICK b \in Job : job[b].pc \in {"curl", "verify"}
          BY <4>1
        <5>2. job[b].proc = p
          BY <5>1 DEF Cached, InCache
        <5> QED
          BY <3>2, <5>1, <5>2 DEF Fetched
      <4>2. CASE ~\E b \in Job : job[b].pc \in {"curl", "verify"}
        BY <3>2, <4>2 DEF Cached, Fetched
      <4> QED
        BY <4>1, <4>2
    <3>5. \A b \in Job : job'[b].pc \in {"root", "fill"} => job'[b] = job[b]
      BY <3>1
    <3>6. imageMu' \in [Builders -> Job \cup {None}]
      BY <3>2 DEF Cached
    <3> QED
      BY <2>1, <3>2, <3>3, <3>4, <3>5, <3>6, <3>8 DEF Cached, InCache
  <2> QED
    BY <1>2, <2>2, <2>3, <2>4 DEF Bld!Next
<1> QED
  BY <1>1, <1>2

LEMMA CacheBegins == Bld!Init => Cached
<1> SUFFICES ASSUME Bld!Init PROVE Cached
  OBVIOUS
<1>1. \A b \in Job : job[b].pc = "idle" /\ job[b].boots = "nothing"
  BY DEF Bld!Init, Bld!NoJob
<1>2. buildFaults \in 0..MaxBuildFault
  BY BuildingAssumption DEF Bld!Init, Bld!BuildAssumption
<1> QED
  BY <1>1, <1>2 DEF Bld!Init, Cached, InCache

\* The undos: a build under way would undo what it made; one that was killed while
\* it had something to undo never will.
LEMMA UndoStays ==
  ASSUME BuildInv, BuildInv', UndoNeeded, [Bld!Next]_buildVars PROVE UndoNeeded'
<1> SUFFICES ASSUME NEW b \in Job PROVE ToUndo(b)' \subseteq Bld!Needs(b)'
  BY DEF UndoNeeded
<1>1. CASE Bld!Running(b)'
  <2>1. Stacked(b)'
    BY DEF BuildInv, Mine
  <2> QED
    BY <1>1, <2>1 DEF Stacked
<1>2. CASE job'[b].undo = <<>>
  BY <1>2 DEF ToUndo
<1>3. CASE job'[b].undo = job[b].undo /\ Bld!Needs(b)' = Bld!Needs(b)
  BY <1>3 DEF ToUndo, UndoNeeded
<1>4. ASSUME Bld!Step(b) PROVE Bld!Running(b)' \/ job'[b].undo = <<>>
  <2>1. CASE Fails(b)
    BY <2>1 DEF Fails, Same, Bld!Running
  <2>2. CASE Finishes(b)
    BY <2>2 DEF Finishes
  <2>3. CASE TakesBack(b)
    BY <2>3 DEF TakesBack, Bld!Running
  <2> QED
    BY <1>4, <2>1, <2>2, <2>3, Kinds DEF Advances, Overwrites, MakesDisk, MakesDom, Makes, Onward
<1>5. ASSUME NEW c \in Job, Bld!Step(c) PROVE Bld!Running(b)' \/ job'[b].undo = <<>> \/ (ToUndo(b)' = ToUndo(b) /\ Bld!Needs(b)' = Bld!Needs(b))
  BY <1>4, <1>5, StepMine, OthersParts
<1>6. ASSUME NEW c \in Job, NEW n \in Name, NEW p \in Builders, Bld!Begin(c, n, p)
      PROVE  Bld!Running(b)' \/ job'[b] = job[b]
  BY <1>6, BeginKeeps
<1>7. ASSUME NEW p \in Builders, Bld!Crash(p) PROVE job'[b].undo = job[b].undo /\ Bld!Needs(b)' = Bld!Needs(b)
  <2>1. job[b] \in JobRec
    BY DEF BuildInv, BuildTypes
  <2>2. job'[b] = IF Bld!Running(b) /\ job[b].proc = p THEN [job[b] EXCEPT !.pc = "broken"] ELSE job[b]
    BY <1>7 DEF Bld!Crash
  <2> QED
    BY <1>7, <2>1, <2>2, CrashKeeps DEF JobRec
<1>8. job'[b] = job[b] => job'[b].undo = job[b].undo /\ Bld!Needs(b)' = Bld!Needs(b)
  BY DEF Bld!Needs, Bld!RootOf, Bld!DataOf
<1>9. CASE ToUndo(b)' = ToUndo(b) /\ Bld!Needs(b)' = Bld!Needs(b)
  BY <1>9 DEF UndoNeeded
<1>10. CASE UNCHANGED buildVars
  BY <1>3, <1>8, <1>10 DEF buildVars
<1> QED
  BY <1>1, <1>2, <1>3, <1>5, <1>6, <1>7, <1>8, <1>9, <1>10 DEF Bld!Next

\* What is claimed of it.
LEMMA BuildSound ==
  ASSUME BuildInv, Cached, UndoNeeded PROVE Bld!TypeOK /\ Bld!ImagesSettled
<1>1. ASSUME NEW b \in Job
      PROVE  /\ DOMAIN job[b] = DOMAIN Bld!NoJob /\ job[b].pc \in Bld!PC /\ job[b].vm \in Name \cup {None}
             /\ job[b].proc \in Builders \cup {None} /\ job[b].over \subseteq Bld!Files
             /\ \A i \in DOMAIN job[b].undo : job[b].undo[i] \in Bld!Needs(b)
  <2>1. job[b] \in JobRec
    BY DEF BuildInv, BuildTypes
  <2>2. DOMAIN job[b] = DOMAIN Bld!NoJob
    BY <2>1 DEF JobRec, Bld!NoJob
  <2>3. job[b].undo \in Seq(Bld!Parts)
    BY <2>1 DEF JobRec
  <2>4. DOMAIN job[b].undo = 1..Len(job[b].undo)
    BY <2>3, LenProperties
  <2>5. \A i \in DOMAIN job[b].undo : job[b].undo[i] \in Bld!Needs(b)
    BY <2>4 DEF UndoNeeded, ToUndo
  <2> QED
    BY <2>1, <2>2, <2>5 DEF JobRec
<1>2. Bld!TypeOK
  BY <1>1 DEF Bld!TypeOK, BuildInv, BuildTypes, Cached, Disks
<1> QED
  BY <1>2 DEF Cached, Bld!ImagesSettled

LEMMA UndoBegins == Bld!Init => UndoNeeded
  BY DEF Bld!Init, Bld!NoJob, UndoNeeded, ToUndo

-----------------------------------------------------------------------------
(* The enrolment, beside the rest.                                         *)

\* It moves by its own steps.
LEMMA EnrolPart == [BuildingNext]_all => [Next]_enrollVars
  BY DEF BuildingNext, all

\* Where one process enrols, or the lock's directory is the account's: no subnet and
\* no serial is given twice, whatever fails, is killed or taken down (allocMeshSubnet,
\* kldload-ca issue).
THEOREM HandedOutOnceKept == ~Race => (BuildingSpec => []HandedOutOnce)
<1> SUFFICES ASSUME ~Race PROVE BuildingSpec => []HandedOutOnce
  OBVIOUS
<1> DEFINE I == IInv /\ Handed /\ Within
<1>1. BuildingInit => I
  BY InitHolds, InitHanded, InitWithin DEF BuildingInit
<1>2. I /\ [BuildingNext]_all => I'
  BY EnrolPart, NextHolds, NextHanded, NextWithin
<1>3. I => HandedOutOnce
  BY TypesAreWithin DEF HandedOutOnce, Handed
<1> HIDE DEF I
<1> QED
  BY <1>1, <1>2, <1>3, PTL DEF BuildingSpec

\* ... and of the enrolments of the host one at most is behind the gate.
THEOREM GateKept == ~Race => (BuildingSpec => []MutualExclusion)
<1> SUFFICES ASSUME ~Race PROVE BuildingSpec => []MutualExclusion
  OBVIOUS
<1>1. BuildingInit => IInv
  BY InitHolds DEF BuildingInit
<1>2. IInv /\ [BuildingNext]_all => IInv'
  BY EnrolPart, NextHolds
<1> QED
  BY <1>1, <1>2, Exclusion, PTL DEF BuildingSpec

-----------------------------------------------------------------------------
(* The fleet: the inductive invariant.                                     *)

Disk == [inst : Flt!Id, host : Flt!Id, mid : Flt!Id, way : {"none", "key", "password"},
         desk : {"no", "part", "full", "failed"}, dm : BOOLEAN, fin : BOOLEAN, graph : BOOLEAN, ran : BOOLEAN]

Machine == [dom : {"none", "off", "running"}, seed : Flt!Id, log : Flt!Id, pc : {"off", "init", "script", "up"},
            part : 1..6, unit : BOOLEAN, disk : Disk]

FleetPC == {"build", "wait", "stop", "down", "seal", "snap", "clone", "seed", "log", "start", "enrol", "done", "failed"}

FleetTypes ==
  /\ spec \in [way : {"none", "key"}, parts : SUBSET {"reg", "desk", "sound", "post"}]
  /\ mach \in [Flt!M0 -> Machine]
  /\ fleet \in [pc : FleetPC, n : 1..Count, tool : {"kldload-seal", "virt-sysprep", "none"}]
  /\ watch \in [quiet : 0..Flt!Quiet, polls : 0..MaxPoll, wrote : BOOLEAN]
  /\ fleet.pc \in {"build", "wait"} => watch.quiet < Flt!Quiet /\ watch.polls < MaxPoll
  /\ warned \in BOOLEAN
  /\ fleetFaults \in 0..MaxOther

\* The golden alone installs a desktop.
HasDesk(i) == i = 0 /\ "desk" \in spec.parts
HasPost == "post" \in spec.parts

\* A desktop was asked for and its finisher could not be armed.
Bare(i, d) == HasDesk(i) /\ d.desk = "no"

\* What a disk holds: a way in once cloud-init was there, and a desktop that is whole
\* or whose finisher is still armed.
DiskSound(d) ==
  /\ d.inst = d.host /\ (d.inst # None => d.way # "none")
  /\ d.dm => d.desk = "full"
  /\ d.desk = "full" => d.fin \/ (d.dm /\ d.graph)
  /\ d.fin \/ d.graph => d.desk \in {"part", "full"}

\* A machine that runs has a seed, a log and a machine-id of its own; its script runs
\* part by part, and the finisher is armed in it or at the boot.
RunSound(i, m) ==
  m.pc # "off" =>
    /\ m.seed = i /\ m.log = i /\ m.disk.mid # None
    /\ m.pc \in {"script", "up"} => m.disk.inst = i
    /\ m.pc = "init" => m.part = 1
    /\ HasPost /\ m.disk.inst = i /\ (m.pc = "script" => m.part = 6) => m.disk.ran \/ Bare(i, m.disk)
    /\ m.disk.fin => m.unit \/ (m.pc = "script" /\ m.part = 3 /\ HasDesk(i))
    /\ m.pc = "script" /\ m.part = 3 /\ HasDesk(i) /\ m.disk.desk \in {"part", "full"} => m.disk.fin
    /\ i = 0 /\ m.disk.desk = "part" => m.pc = "script" /\ m.part = 3

\* The golden begins with a blank disk.
GoldenSound(m) ==
  /\ ~m.unit
  /\ m.disk.graph => m.disk.desk = "full"
  /\ m.disk.inst \in {0, None}
  /\ m.disk.inst = None \/ (m.pc = "script" /\ m.part < 3) => m.disk.desk = "no"

Sound(i, m) ==
  /\ m \in Machine
  /\ (m.pc = "off") = (m.dom # "running")
  /\ m.unit => m.disk.desk \in {"part", "full"} /\ m.pc # "off"
  /\ DiskSound(m.disk) /\ RunSound(i, m)
  /\ i = 0 => GoldenSound(m)
  /\ ~warned => m.disk.mid \in {None, i}

Cloning == {"clone", "seed", "log", "start"}

\* The golden is down and sealed before the first clone is made; a clone has a seed,
\* then a log of its own before it is started.
Course ==
  /\ fleet.pc \in {"seal", "snap", "enrol", "done"} \cup Cloning => mach[0].pc = "off"
  /\ ~warned /\ fleet.pc \in {"snap"} \cup Cloning => mach[0].disk.mid = None
  /\ fleet.pc \in {"seed", "log", "start"} =>
       /\ mach[fleet.n].pc = "off" /\ mach[fleet.n].disk.inst \in {0, None}
       /\ fleet.pc # "seed" => mach[fleet.n].seed = fleet.n
       /\ fleet.pc = "start" => mach[fleet.n].log = fleet.n
  /\ fleet.pc \in {"build", "wait", "stop", "down", "seal", "snap"} => fleet.n = 1
  /\ fleetFaults = 0 /\ fleet.pc \in Cloning => \A i \in 1..(fleet.n - 1) : mach[i].dom = "running"
  /\ fleetFaults = 0 /\ fleet.pc \in {"enrol", "done"} => \A i \in Flt!Clone : mach[i].dom = "running"

FleetInv == FleetTypes /\ (\A i \in Flt!M0 : Sound(i, mach[i])) /\ Course

\* What is assumed of the constants.
LEMMA FleetFacts ==
  /\ Count \in Nat \ {0} /\ MaxPoll \in Nat \ {0} /\ MaxOther \in Nat /\ None \notin Nat
  /\ 0 \in Flt!M0 /\ Flt!Clone \subseteq Flt!M0 /\ 0 \notin Flt!Clone
  /\ \A i \in Flt!M0 : i \in Nat /\ i \in Flt!Id /\ i # None
  /\ None \in Flt!Id
  BY BuildingAssumption DEF Flt!FleetAssumption, Flt!M0, Flt!Clone, Flt!Id

\* The properties are parts of it.
LEMMA FleetSound == FleetInv => FleetIsSound
<1> SUFFICES ASSUME FleetInv PROVE FleetIsSound
  OBVIOUS
<1>1. Flt!TypeOK
  <2>1. ASSUME NEW i \in Flt!M0
        PROVE  /\ mach[i].dom \in {"none", "off", "running"} /\ mach[i].seed \in Flt!Id /\ mach[i].log \in Flt!Id
               /\ mach[i].pc \in {"off", "init", "script", "up"} /\ mach[i].part \in 1..6
               /\ (mach[i].pc = "off") = (mach[i].dom # "running") /\ Flt!DiskOK(mach[i].disk)
    <3>1. mach[i] \in Machine /\ mach[i].disk \in Disk
      BY DEF FleetInv, Sound, Machine
    <3>2. Flt!DiskOK(mach[i].disk)
      BY <3>1 DEF FleetInv, Sound, DiskSound, Flt!DiskOK, Disk
    <3> QED
      BY <3>1, <3>2 DEF FleetInv, Sound, Machine
  <2>2. Len(Flt!Order) + 1 = 6
    BY DEF Flt!Order
  <2> QED
    BY <2>1, <2>2 DEF FleetInv, FleetTypes, Flt!TypeOK
<1>2. Flt!WayInKept
  BY DEF FleetInv, Sound, DiskSound, Flt!WayInKept
<1>3. Flt!OwnIdentity
  BY FleetFacts DEF FleetInv, Sound, DiskSound, RunSound, Flt!OwnIdentity
<1>4. Flt!SharedIdIsTold
  BY FleetFacts DEF FleetInv, Sound, RunSound, Flt!SharedIdIsTold, Flt!Running
<1>5. Flt!OperatorRan
  <2>1. ASSUME NEW i \in Flt!M0, mach[i].pc = "up", "post" \in Flt!Parts(i)
        PROVE  mach[i].disk.ran \/ Flt!Unarmed(i)
    BY <2>1 DEF FleetInv, Sound, RunSound, Flt!Parts, HasPost, HasDesk, Bare, Flt!Unarmed
  <2> QED
    BY <2>1 DEF Flt!OperatorRan, Flt!Up
<1>6. Flt!DesktopComes /\ Flt!FailedStaysServer
  BY DEF FleetInv, Sound, DiskSound, RunSound, Flt!DesktopComes, Flt!FailedStaysServer, Flt!Up
<1>7. Flt!WholeFleetRuns
  BY DEF FleetInv, Course, Flt!WholeFleetRuns, Flt!FleetAt, Flt!Running
<1> QED
  BY <1>1, <1>2, <1>3, <1>4, <1>5, <1>6, <1>7 DEF FleetIsSound

-----------------------------------------------------------------------------
(* The machines.                                                           *)

LEMMA NoMachSound == \A i \in Flt!M0 : Sound(i, Flt!NoMach)
<1> SUFFICES ASSUME NEW i \in Flt!M0 PROVE Sound(i, Flt!NoMach)
  OBVIOUS
<1>1. Flt!Blank \in Disk
  BY FleetFacts DEF Flt!Blank, Disk
<1>2. Flt!NoMach \in Machine
  BY <1>1, FleetFacts DEF Flt!NoMach, Machine
<1>3. Flt!NoMach.disk = Flt!Blank /\ Flt!NoMach.pc = "off" /\ Flt!NoMach.dom = "none" /\ Flt!NoMach.unit = FALSE
  BY DEF Flt!NoMach
<1>4. /\ Flt!Blank.inst = None /\ Flt!Blank.host = None /\ Flt!Blank.mid = None /\ Flt!Blank.desk = "no"
      /\ Flt!Blank.dm = FALSE /\ Flt!Blank.fin = FALSE /\ Flt!Blank.graph = FALSE
  BY DEF Flt!Blank
<1> QED
  BY <1>2, <1>3, <1>4 DEF Sound, DiskSound, RunSound, GoldenSound

LEMMA FleetInitHolds == Flt!Init => FleetInv
<1> SUFFICES ASSUME Flt!Init PROVE FleetInv
  OBVIOUS
<1>1. \A i \in Flt!M0 : mach[i] = Flt!NoMach /\ Sound(i, mach[i])
  BY NoMachSound DEF Flt!Init
<1>2. FleetTypes
  <2>1. spec \in [way : {"none", "key"}, parts : SUBSET {"reg", "desk", "sound", "post"}]
    BY DEF Flt!Init
  <2>2. mach \in [Flt!M0 -> Machine]
    BY NoMachSound DEF Flt!Init, Sound
  <2>3. fleet \in [pc : FleetPC, n : 1..Count, tool : {"kldload-seal", "virt-sysprep", "none"}]
    BY FleetFacts DEF Flt!Init, FleetPC
  <2>4. watch \in [quiet : 0..Flt!Quiet, polls : 0..MaxPoll, wrote : BOOLEAN] /\ watch.quiet < Flt!Quiet /\ watch.polls < MaxPoll
    BY FleetFacts DEF Flt!Init, Flt!Quiet
  <2>5. warned \in BOOLEAN
    BY DEF Flt!Init
  <2>6. fleetFaults \in 0..MaxOther
    BY FleetFacts DEF Flt!Init
  <2> QED
    BY <2>1, <2>2, <2>3, <2>4, <2>5, <2>6 DEF FleetTypes
<1>3. Course
  BY DEF Flt!Init, Course, Cloning
<1> QED
  BY <1>1, <1>2, <1>3 DEF FleetInv

-----------------------------------------------------------------------------
(* What runs in the machines.                                              *)

\* A machine that runs becomes another that is sound.
Turns(i, r) == mach' = [mach EXCEPT ![i] = r] /\ mach[i].pc # "off" /\ r.pc # "off" /\ Sound(i, r)

LEMMA MachFacts ==
  ASSUME FleetInv, NEW i \in Flt!M0
  PROVE  /\ mach[i] \in Machine /\ mach[i].disk \in Disk /\ Sound(i, mach[i])
         /\ i \in Nat /\ i \in Flt!Id /\ i # None
  BY FleetFacts DEF FleetInv, Sound, Machine

LEMMA ModulesTurns ==
  ASSUME FleetInv, NEW i \in Flt!M0, Flt!Modules(i) PROVE \E r : Turns(i, r)
<1> DEFINE m == mach[i]
           d == m.disk
<1>0. m \in Machine /\ d \in Disk /\ Sound(i, m) /\ m.pc = "init" /\ m.dom = "running" /\ m.seed = i /\ i \in Flt!Id
  BY MachFacts DEF Flt!Modules, Flt!Running, Sound, RunSound
<1>1. CASE ~Flt!Seeded(i)
  <2> DEFINE r == [m EXCEPT !.pc = "up"]
  <2>1. mach' = [mach EXCEPT ![i] = r]
    BY <1>1 DEF Flt!Modules
  <2>2. r \in Machine /\ r.pc = "up" /\ r.dom = "running" /\ r.seed = m.seed /\ r.log = m.log /\ r.unit = m.unit
        /\ r.disk = d /\ d.inst = i
    BY <1>0, <1>1 DEF Machine, Flt!Seeded
  <2> HIDE DEF r
  <2>3. Sound(i, r)
    BY <1>0, <2>2, MachFacts DEF Sound, RunSound, GoldenSound
  <2> QED
    BY <1>0, <2>1, <2>2, <2>3 DEF Turns
<1>2. CASE Flt!Seeded(i)
  <2> DEFINE e == [d EXCEPT !.inst = m.seed, !.host = m.seed, !.way = Flt!WayIn, !.ran = FALSE]
             r == [m EXCEPT !.pc = "script", !.disk = e]
  <2>1. mach' = [mach EXCEPT ![i] = r]
    BY <1>2 DEF Flt!Modules
  <2>2. Flt!WayIn \in {"key", "password"}
    BY DEF FleetInv, FleetTypes, Flt!WayIn
  <2>3. /\ e \in Disk /\ e.inst = i /\ e.host = i /\ e.way # "none" /\ e.ran = FALSE /\ e.mid = d.mid
        /\ e.desk = d.desk /\ e.dm = d.dm /\ e.fin = d.fin /\ e.graph = d.graph
    BY <1>0, <2>2 DEF Disk
  <2> HIDE DEF e
  <2>4. /\ r \in Machine /\ r.pc = "script" /\ r.dom = "running" /\ r.seed = m.seed /\ r.log = m.log /\ r.unit = m.unit
        /\ r.disk = e /\ r.part = m.part
    BY <1>0, <2>3 DEF Machine
  <2> HIDE DEF r
  <2>5. Sound(i, r)
    BY <1>0, <1>2, <2>3, <2>4, MachFacts DEF Sound, DiskSound, RunSound, GoldenSound, Flt!Seeded
  <2> QED
    BY <1>0, <2>1, <2>4, <2>5 DEF Turns
<1> QED
  BY <1>1, <1>2

\* The part of the script that comes next.
LEMMA NextPart ==
  ASSUME NEW i \in Flt!M0, NEW m \in Machine
  PROVE  LET n == Flt!Min({6} \cup {k \in 1..5 : k > m.part /\ Flt!Order[k] \in Flt!Parts(i)})
         IN /\ n \in 1..6 /\ (n > m.part \/ n = 6)
            /\ Flt!Later(m, i) = [m EXCEPT !.part = n]
            /\ HasPost /\ m.part < 5 => n < 6
            /\ n = 3 => HasDesk(i)
<1> DEFINE S == {6} \cup {k \in 1..5 : k > m.part /\ Flt!Order[k] \in Flt!Parts(i)}
           n == Flt!Min(S)
<1>1. S \in SUBSET Nat /\ S # {} /\ S \subseteq 1..6
  OBVIOUS
<1>2. n \in S /\ \A k \in S : n =< k
  BY <1>1, Least DEF Flt!Min
<1>3. Flt!Order[3] = "desk" /\ Flt!Order[5] = "post" /\ Len(Flt!Order) = 5 /\ 1..Len(Flt!Order) = 1..5
  BY DEF Flt!Order
<1>4. Flt!Later(m, i) = [m EXCEPT !.part = n]
  BY <1>3 DEF Flt!Later
<1>5. HasPost /\ m.part < 5 => 5 \in S
  BY <1>3 DEF HasPost, Flt!Parts, Machine
<1>6. n = 3 => HasDesk(i)
  BY <1>2, <1>3 DEF HasDesk, Flt!Parts
<1> HIDE DEF n, S
<1>7. n \in 1..6 /\ (n > m.part \/ n = 6) /\ (HasPost /\ m.part < 5 => n < 6)
  BY <1>1, <1>2, <1>5 DEF Machine, S
<1> QED
  BY <1>4, <1>6, <1>7 DEF n, S

\* Where the script is.
LEMMA ScriptAt ==
  ASSUME FleetInv, NEW i \in Flt!M0, NEW p \in {"agent", "reg", "desk", "sound", "post"}, Flt!InScript(i, p)
  PROVE  /\ mach[i].pc = "script" /\ mach[i].dom = "running" /\ mach[i].part \in 1..5
         /\ (mach[i].part = 3) = (p = "desk") /\ (mach[i].part = 5) = (p = "post")
<1>1. mach[i].part \in 1..6 /\ Len(Flt!Order) = 5
  BY MachFacts DEF Machine, Flt!Order
<1>2. mach[i].pc = "script" /\ mach[i].dom = "running" /\ mach[i].part \in 1..5 /\ Flt!Order[mach[i].part] = p
  BY <1>1 DEF Flt!InScript, Flt!Running
<1> QED
  BY <1>2 DEF Flt!Order

\* The script goes on: what is due at the part that comes next.
Settled(i, m) ==
  /\ m \in Machine /\ m.pc = "script" /\ m.dom = "running" /\ m.seed = i /\ m.log = i
  /\ DiskSound(m.disk) /\ m.disk.inst = i /\ m.disk.mid # None /\ (~warned => m.disk.mid \in {None, i})
  /\ m.unit => m.disk.desk \in {"part", "full"}
  /\ m.disk.fin => m.unit
  /\ i = 0 => ~m.unit /\ (m.disk.graph => m.disk.desk = "full") /\ m.disk.desk # "part"
  /\ i = 0 /\ m.part < 3 => m.disk.desk = "no"

LEMMA Goes ==
  ASSUME FleetInv, NEW i \in Flt!M0, NEW m, Settled(i, m), mach[i].pc # "off",
         HasPost => m.part < 5 \/ m.disk.ran,
         mach' = [mach EXCEPT ![i] = Flt!Later(m, i)]
  PROVE  \E r : Turns(i, r)
<1>0. m \in Machine
  BY DEF Settled
<1>1. PICK n \in 1..6 : /\ Flt!Later(m, i) = [m EXCEPT !.part = n] /\ (n > m.part \/ n = 6)
                        /\ (HasPost /\ m.part < 5 => n < 6) /\ (n = 3 => HasDesk(i))
  BY ZenonT(60), <1>0, NextPart
<1> DEFINE r == [m EXCEPT !.part = n]
<1>2. /\ r \in Machine /\ r.part = n /\ r.pc = m.pc /\ r.dom = m.dom /\ r.seed = m.seed /\ r.log = m.log
      /\ r.unit = m.unit /\ r.disk = m.disk
  BY <1>0 DEF Machine
<1>3. mach' = [mach EXCEPT ![i] = r]
  BY <1>1
<1> HIDE DEF r
<1>4. Sound(i, r)
  <2>1. RunSound(i, r)
    BY <1>1, <1>2 DEF Settled, RunSound, HasDesk, Machine
  <2>2. i = 0 => GoldenSound(r)
    BY <1>1, <1>2, FleetFacts DEF Settled, GoldenSound, Machine
  <2> QED
    BY <1>2, <2>1, <2>2 DEF Sound, Settled
<1> QED
  BY <1>2, <1>3, <1>4 DEF Turns, Settled

LEMMA ToleratedTurns ==
  ASSUME FleetInv, NEW i \in Flt!M0, NEW p \in {"agent", "reg", "sound"}, Flt!Tolerated(i, p) PROVE \E r : Turns(i, r)
<1>2. mach[i].pc = "script" /\ mach[i].dom = "running" /\ mach[i].part \in 1..5 /\ mach[i].part # 3 /\ mach[i].part # 5
  BY ScriptAt DEF Flt!Tolerated
<1>3. Settled(i, mach[i])
  BY <1>2, MachFacts DEF Settled, Sound, RunSound, GoldenSound
<1>4. mach[i].part < 5 /\ mach[i].pc # "off"
  BY <1>2
<1>5. mach' = [mach EXCEPT ![i] = Flt!Later(mach[i], i)]
  BY DEF Flt!Tolerated
<1> QED
  BY <1>3, <1>4, <1>5, Goes

LEMMA OperatorTurns ==
  ASSUME FleetInv, NEW i \in Flt!M0, Flt!Operator(i) PROVE \E r : Turns(i, r)
<1> DEFINE d == mach[i].disk
           e == [d EXCEPT !.ran = TRUE]
           m == [mach[i] EXCEPT !.disk = e]
<1>1. mach[i].pc = "script" /\ mach[i].dom = "running" /\ mach[i].part = 5
  BY ScriptAt DEF Flt!Operator
<1>2. mach' = [mach EXCEPT ![i] = Flt!Later(m, i)]
  BY DEF Flt!Operator
<1>3. /\ e \in Disk /\ e.inst = d.inst /\ e.host = d.host /\ e.way = d.way /\ e.ran = TRUE /\ e.mid = d.mid
      /\ e.desk = d.desk /\ e.dm = d.dm /\ e.fin = d.fin /\ e.graph = d.graph
  BY MachFacts DEF Disk
<1> HIDE DEF e
<1>4. /\ m \in Machine /\ m.pc = "script" /\ m.dom = "running" /\ m.seed = mach[i].seed /\ m.log = mach[i].log
      /\ m.unit = mach[i].unit /\ m.disk = e /\ m.part = 5
  BY <1>1, <1>3, MachFacts DEF Machine
<1> HIDE DEF m
<1>5. Settled(i, m)
  BY <1>1, <1>3, <1>4, MachFacts DEF Settled, Sound, DiskSound, RunSound, GoldenSound
<1> QED
  BY <1>1, <1>2, <1>3, <1>4, <1>5, Goes

LEMMA FinisherTurns ==
  ASSUME FleetInv, NEW i \in Flt!M0, Flt!RunFinisher(i) PROVE \E r : Turns(i, r)
<1> DEFINE d == mach[i].disk
           e == [d EXCEPT !.fin = FALSE, !.graph = TRUE, !.dm = TRUE]
           m == [mach[i] EXCEPT !.disk = e]
<1>1. mach[i].pc = "script" /\ mach[i].dom = "running" /\ mach[i].part = 3 /\ d.desk = "full"
  BY ScriptAt DEF Flt!RunFinisher, Flt!InDesktop
<1>3. /\ e \in Disk /\ e.inst = d.inst /\ e.host = d.host /\ e.way = d.way /\ e.ran = d.ran /\ e.mid = d.mid
      /\ e.desk = "full" /\ e.dm = TRUE /\ e.fin = FALSE /\ e.graph = TRUE
  BY <1>1, MachFacts DEF Disk
<1>2. mach' = [mach EXCEPT ![i] = Flt!Later(m, i)]
  <2>1. mach' = [mach EXCEPT ![i] = Flt!Later(Flt!Finished(mach[i]), i)]
    BY DEF Flt!RunFinisher
  <2>2. Flt!Finished(mach[i]) = m
    BY <1>1, MachFacts DEF Flt!Finished, Machine, Disk
  <2> QED
    BY <2>1, <2>2
<1> HIDE DEF e
<1>4. /\ m \in Machine /\ m.pc = "script" /\ m.dom = "running" /\ m.seed = mach[i].seed /\ m.log = mach[i].log
      /\ m.unit = mach[i].unit /\ m.disk = e /\ m.part = 3
  BY <1>1, <1>3, MachFacts DEF Machine
<1> HIDE DEF m
<1>5. Settled(i, m)
  BY <1>1, <1>3, <1>4, MachFacts DEF Settled, Sound, DiskSound, RunSound, GoldenSound
<1>6. m.part < 5 /\ mach[i].pc # "off"
  BY <1>1, <1>4
<1> QED
  BY <1>2, <1>5, <1>6, Goes

LEMMA InstallFailsTurns ==
  ASSUME FleetInv, NEW i \in Flt!M0, Flt!InstallFails(i) PROVE \E r : Turns(i, r)
<1> DEFINE d == mach[i].disk
           e == [d EXCEPT !.desk = "failed", !.fin = FALSE]
           m == [mach[i] EXCEPT !.disk = e]
<1>1. mach[i].pc = "script" /\ mach[i].dom = "running" /\ mach[i].part = 3 /\ d.desk = "part" /\ i = 0
  BY ScriptAt DEF Flt!InstallFails, Flt!InDesktop, Flt!Parts, FleetInv, FleetTypes
<1>2. mach' = [mach EXCEPT ![i] = Flt!Later(m, i)]
  BY DEF Flt!InstallFails
<1>3. /\ e \in Disk /\ e.inst = d.inst /\ e.host = d.host /\ e.way = d.way /\ e.ran = d.ran /\ e.mid = d.mid
      /\ e.desk = "failed" /\ e.dm = d.dm /\ e.fin = FALSE /\ e.graph = d.graph
  BY <1>1, MachFacts DEF Disk
<1> HIDE DEF e
<1>4. /\ m \in Machine /\ m.pc = "script" /\ m.dom = "running" /\ m.seed = mach[i].seed /\ m.log = mach[i].log
      /\ m.unit = mach[i].unit /\ m.disk = e /\ m.part = 3
  BY <1>1, <1>3, MachFacts DEF Machine
<1> HIDE DEF m
<1>5. Settled(i, m)
  BY <1>1, <1>3, <1>4, MachFacts DEF Settled, Sound, DiskSound, RunSound, GoldenSound
<1>6. m.part < 5 /\ mach[i].pc # "off"
  BY <1>1, <1>4
<1> QED
  BY <1>2, <1>5, <1>6, Goes

LEMMA ArmTurns ==
  ASSUME FleetInv, NEW i \in Flt!M0, Flt!Arm(i) \/ Flt!InstallDone(i) PROVE \E r : Turns(i, r)
<1> DEFINE d == mach[i].disk
<1>1. mach[i].pc = "script" /\ mach[i].dom = "running" /\ mach[i].part = 3 /\ i = 0 /\ d.desk \in {"no", "part"} /\ HasDesk(i)
  BY ScriptAt DEF Flt!Arm, Flt!InstallDone, Flt!InDesktop, Flt!Parts, FleetInv, FleetTypes, HasDesk
<1>2. ASSUME NEW e \in Disk, NEW r, r = [mach[i] EXCEPT !.disk = e], mach' = [mach EXCEPT ![i] = r],
             e.inst = d.inst, e.host = d.host, e.way = d.way, e.ran = d.ran, e.mid = d.mid,
             e.desk \in {"part", "full"}, e.dm = d.dm, e.fin = TRUE, e.graph = d.graph
      PROVE  \E q : Turns(i, q)
  <2>1. /\ r \in Machine /\ r.pc = "script" /\ r.dom = "running" /\ r.seed = mach[i].seed /\ r.log = mach[i].log
        /\ r.unit = mach[i].unit /\ r.disk = e /\ r.part = 3
    BY <1>1, <1>2, MachFacts DEF Machine
  <2>2. Sound(i, r)
    BY <1>1, <1>2, <2>1, MachFacts DEF Sound, DiskSound, RunSound, GoldenSound
  <2> QED
    BY <1>1, <1>2, <2>1, <2>2 DEF Turns
<1>3. CASE Flt!Arm(i)
  <2> DEFINE e == [d EXCEPT !.fin = TRUE, !.desk = "part"]
             r == [mach[i] EXCEPT !.disk = e]
  <2>1. mach' = [mach EXCEPT ![i] = r]
    BY <1>3 DEF Flt!Arm
  <2>2. /\ e \in Disk /\ e.inst = d.inst /\ e.host = d.host /\ e.way = d.way /\ e.ran = d.ran /\ e.mid = d.mid
        /\ e.desk = "part" /\ e.dm = d.dm /\ e.fin = TRUE /\ e.graph = d.graph
    BY MachFacts DEF Disk
  <2> HIDE DEF e
  <2> QED
    BY <1>2, <2>1, <2>2
<1>4. CASE Flt!InstallDone(i)
  <2> DEFINE e == [d EXCEPT !.desk = "full"]
             r == [mach[i] EXCEPT !.disk = e]
  <2>1. mach' = [mach EXCEPT ![i] = r] /\ d.desk = "part" /\ d.fin = TRUE
    BY <1>1, <1>4, MachFacts DEF Flt!InstallDone, Flt!InDesktop, Sound, RunSound, Disk
  <2>2. /\ e \in Disk /\ e.inst = d.inst /\ e.host = d.host /\ e.way = d.way /\ e.ran = d.ran /\ e.mid = d.mid
        /\ e.desk = "full" /\ e.dm = d.dm /\ e.fin = TRUE /\ e.graph = d.graph
    BY <2>1, MachFacts DEF Disk
  <2> HIDE DEF e
  <2> QED
    BY <1>2, <2>1, <2>2
<1> QED
  BY <1>3, <1>4

LEMMA ArmFailsTurns ==
  ASSUME FleetInv, NEW i \in Flt!M0, Flt!ArmFails(i) PROVE \E r : Turns(i, r)
<1> DEFINE m == mach[i]
           r == [m EXCEPT !.part = 6]
<1>1. /\ m.pc = "script" /\ m.dom = "running" /\ m.part = 3 /\ i = 0 /\ m.disk.desk = "no" /\ HasDesk(i)
  BY ScriptAt DEF Flt!ArmFails, Flt!InDesktop, Flt!Parts, FleetInv, FleetTypes, HasDesk
<1>2. mach' = [mach EXCEPT ![i] = r]
  BY DEF Flt!ArmFails, Flt!Order
<1>3. /\ r \in Machine /\ r.pc = "script" /\ r.dom = "running" /\ r.seed = m.seed /\ r.log = m.log
      /\ r.unit = m.unit /\ r.disk = m.disk /\ r.part = 6
  BY <1>1, MachFacts DEF Machine
<1> HIDE DEF r
<1>4. Sound(i, r)
  BY <1>1, <1>3, MachFacts DEF Sound, DiskSound, RunSound, GoldenSound, Bare
<1> QED
  BY <1>1, <1>2, <1>3, <1>4 DEF Turns

LEMMA UnitTurns ==
  ASSUME FleetInv, NEW i \in Flt!M0, Flt!Unit(i) PROVE \E r : Turns(i, r)
<1> DEFINE d == mach[i].disk
           x == d.desk = "full"
           e == [d EXCEPT !.fin = FALSE, !.graph = TRUE, !.dm = x]
           r == [mach[i] EXCEPT !.disk = e, !.unit = FALSE]
<1>1. mach[i].dom = "running" /\ mach[i].pc # "off" /\ mach[i].pc # "init" /\ mach[i].unit /\ d.desk \in {"part", "full"} /\ i # 0 /\ x \in BOOLEAN
  BY MachFacts DEF Flt!Unit, Flt!Running, Sound, GoldenSound
<1>2. mach' = [mach EXCEPT ![i] = r]
  <2>1. mach' = [mach EXCEPT ![i] = [Flt!Finished(mach[i]) EXCEPT !.unit = FALSE]]
    BY DEF Flt!Unit
  <2>2. [Flt!Finished(mach[i]) EXCEPT !.unit = FALSE] = r
    BY <1>1, MachFacts DEF Flt!Finished, Machine, Disk
  <2> QED
    BY <2>1, <2>2
<1> HIDE DEF x
<1>3. /\ e \in Disk /\ e.inst = d.inst /\ e.host = d.host /\ e.way = d.way /\ e.ran = d.ran /\ e.mid = d.mid
      /\ e.desk = d.desk /\ e.dm = x /\ e.fin = FALSE /\ e.graph = TRUE
  BY <1>1, MachFacts DEF Disk
<1> HIDE DEF e
<1>4. /\ r \in Machine /\ r.pc = mach[i].pc /\ r.dom = "running" /\ r.seed = mach[i].seed /\ r.log = mach[i].log
      /\ r.unit = FALSE /\ r.disk = e /\ r.part = mach[i].part
  BY <1>1, <1>3, MachFacts DEF Machine
<1> HIDE DEF r
<1>6. DiskSound(e)
  BY <1>1, <1>3, MachFacts DEF Sound, DiskSound, x
<1>7. RunSound(i, r)
  BY <1>1, <1>3, <1>4, MachFacts DEF Sound, RunSound, HasDesk, Bare
<1>5. Sound(i, r)
  BY <1>1, <1>3, <1>4, <1>6, <1>7, MachFacts DEF Sound
<1> QED
  BY <1>1, <1>2, <1>4, <1>5 DEF Turns

\* A boot.
LEMMA Boots ==
  ASSUME NEW i \in Flt!M0, NEW m \in Machine, m.seed = i, m.log = i, DiskSound(m.disk),
         HasPost /\ m.disk.inst = i => m.disk.ran \/ Bare(i, m.disk), ~warned => m.disk.mid \in {None, i},
         i = 0 => /\ ~m.disk.fin /\ (m.disk.graph => m.disk.desk = "full") /\ m.disk.desk # "part"
                  /\ m.disk.inst \in {0, None} /\ (m.disk.inst = None => m.disk.desk = "no")
  PROVE  /\ Sound(i, Flt!Booted(m, i)) /\ Flt!Booted(m, i).pc = "init" /\ Flt!Booted(m, i).dom = "running"
         /\ Flt!Booted(m, i).disk.inst = m.disk.inst
<1> DEFINE d == m.disk
           c == IF d.mid = None THEN i ELSE d.mid
           e == [d EXCEPT !.mid = c]
           r == [m EXCEPT !.dom = "running", !.pc = "init", !.part = 1, !.unit = d.fin, !.disk = e]
<1>1. d \in Disk /\ i \in Flt!Id /\ i # None
  BY FleetFacts DEF Machine
<1>2. c \in Flt!Id /\ c # None /\ (~warned => c = i)
  BY <1>1 DEF Disk
<1>3. Flt!Booted(m, i) = r
  BY <1>1 DEF Flt!Booted, Machine, Disk
<1> HIDE DEF c
<1>4. /\ e \in Disk /\ e.inst = d.inst /\ e.host = d.host /\ e.way = d.way /\ e.ran = d.ran /\ e.mid = c
      /\ e.desk = d.desk /\ e.dm = d.dm /\ e.fin = d.fin /\ e.graph = d.graph /\ d.fin \in BOOLEAN
  BY <1>1, <1>2 DEF Disk
<1> HIDE DEF e
<1>12. 1 \in 1..6
  OBVIOUS
<1>11. r \in Machine
  BY <1>4, <1>12 DEF Machine
<1>5. /\ r \in Machine /\ r.pc = "init" /\ r.dom = "running" /\ r.seed = i /\ r.log = i
      /\ r.unit = d.fin /\ r.disk = e /\ r.part = 1
  BY <1>11 DEF Machine
<1> HIDE DEF r
<1>6. DiskSound(e)
  BY <1>4 DEF DiskSound
<1>7. RunSound(i, r)
  BY <1>2, <1>4, <1>5 DEF RunSound, Bare
<1>8. i = 0 => GoldenSound(r)
  BY <1>4, <1>5 DEF GoldenSound
<1>9. r.unit => r.disk.desk \in {"part", "full"}
  BY <1>4, <1>5 DEF DiskSound
<1>10. Sound(i, r)
  BY <1>2, <1>4, <1>5, <1>6, <1>7, <1>8, <1>9 DEF Sound
<1> QED
  BY <1>3, <1>4, <1>5, <1>10

LEMMA ScriptEndsTurns ==
  ASSUME FleetInv, NEW i \in Flt!M0, Flt!ScriptEnds(i) PROVE \E r : Turns(i, r)
<1> DEFINE m == mach[i]
<1>0. m \in Machine /\ m.disk \in Disk /\ Sound(i, m) /\ m.pc = "script" /\ m.part = 6 /\ m.dom = "running"
  BY MachFacts DEF Flt!ScriptEnds, Flt!Running, Flt!Order, Machine
<1>1. CASE "desk" \in Flt!Parts(i)
  <2>1. i = 0
    BY <1>1 DEF Flt!Parts, FleetInv, FleetTypes
  <2>2. mach' = [mach EXCEPT ![i] = Flt!Booted(m, i)]
    BY <1>1 DEF Flt!ScriptEnds
  <2>3. /\ m.seed = i /\ m.log = i /\ DiskSound(m.disk) /\ (HasPost /\ m.disk.inst = i => m.disk.ran \/ Bare(i, m.disk))
        /\ (~warned => m.disk.mid \in {None, i})
        /\ ~m.disk.fin /\ (m.disk.graph => m.disk.desk = "full") /\ m.disk.desk # "part"
        /\ m.disk.inst \in {0, None} /\ (m.disk.inst = None => m.disk.desk = "no")
    BY <1>0, <2>1 DEF Sound, RunSound, GoldenSound
  <2>4. Sound(i, Flt!Booted(m, i)) /\ Flt!Booted(m, i).pc = "init"
    BY <1>0, <2>3, Boots
  <2> QED
    BY <1>0, <2>2, <2>4 DEF Turns
<1>2. CASE "desk" \notin Flt!Parts(i)
  <2> DEFINE r == [m EXCEPT !.pc = "up"]
  <2>1. mach' = [mach EXCEPT ![i] = r]
    BY <1>2 DEF Flt!ScriptEnds
  <2>2. r \in Machine /\ r.pc = "up" /\ r.dom = "running" /\ r.seed = m.seed /\ r.log = m.log /\ r.unit = m.unit
        /\ r.disk = m.disk /\ r.part = 6
    BY <1>0 DEF Machine
  <2> HIDE DEF r
  <2>3. Sound(i, r)
    BY <1>0, <2>2 DEF Sound, RunSound, GoldenSound
  <2> QED
    BY <1>0, <2>1, <2>2, <2>3 DEF Turns
<1> QED
  BY <1>1, <1>2

LEMMA GuestTurns ==
  ASSUME FleetInv, NEW i \in Flt!M0, Flt!GuestStep(i) PROVE \E r : Turns(i, r)
  BY ModulesTurns, ToleratedTurns, ArmTurns, ArmFailsTurns, FinisherTurns, InstallFailsTurns, OperatorTurns, ScriptEndsTurns, UnitTurns
  DEF Flt!GuestStep, Flt!AgentUnit, Flt!Entitlement, Flt!SoundStack

-----------------------------------------------------------------------------
(* Every step keeps the invariant.                                         *)

LEMMA FleetFaultsGrow ==
  ASSUME FleetInv, Flt!Fault \/ Flt!NoFault
  PROVE  fleetFaults' \in 0..MaxOther /\ (fleetFaults' = 0 => fleetFaults = 0)
  BY FleetFacts DEF FleetInv, FleetTypes, Flt!Fault, Flt!NoFault

LEMMA WroteTypes ==
  ASSUME FleetInv, NEW i, Flt!Wrote(i)
  PROVE  /\ watch' \in [quiet : 0..Flt!Quiet, polls : 0..MaxPoll, wrote : BOOLEAN]
         /\ watch'.quiet = watch.quiet /\ watch'.polls = watch.polls
  BY DEF FleetInv, FleetTypes, Flt!Wrote

LEMMA GuestHolds ==
  ASSUME FleetInv, NEW i \in Flt!M0, Flt!GuestStep(i) PROVE FleetInv'
<1>1. PICK r : Turns(i, r)
  BY GuestTurns
<1>2. UNCHANGED <<spec, fleet, warned>> /\ Flt!Wrote(i)
  BY DEF Flt!GuestStep, Flt!Modules, Flt!AgentUnit, Flt!Entitlement, Flt!SoundStack, Flt!Tolerated, Flt!Arm, Flt!ArmFails, Flt!InstallDone, Flt!RunFinisher, Flt!InstallFails,
    Flt!Operator, Flt!ScriptEnds, Flt!Unit
<1>3. Flt!Fault \/ Flt!NoFault
  BY DEF Flt!GuestStep, Flt!Modules, Flt!AgentUnit, Flt!Entitlement, Flt!SoundStack, Flt!Tolerated, Flt!Arm, Flt!ArmFails, Flt!InstallDone, Flt!RunFinisher, Flt!InstallFails,
    Flt!Operator, Flt!ScriptEnds, Flt!Unit, Flt!NoFault
<1>4. \A k \in Flt!M0 : mach'[k] = IF k = i THEN r ELSE mach[k]
  BY <1>1 DEF Turns, FleetInv, FleetTypes
<1>5. FleetTypes'
  <2>1. mach' \in [Flt!M0 -> Machine]
    BY <1>1 DEF Turns, Sound, FleetInv, FleetTypes
  <2> QED
    BY <1>2, <1>3, <2>1, FleetFaultsGrow, WroteTypes DEF FleetInv, FleetTypes
<1>6. (\A k \in Flt!M0 : Sound(k, mach[k]))'
  BY <1>1, <1>2, <1>4 DEF Turns, FleetInv, Sound, RunSound, Bare, HasPost, HasDesk
<1>7. Course'
  <2>1. mach[i].pc # "off" /\ r.pc # "off" /\ r.dom = "running"
    BY <1>1 DEF Turns, Sound, Machine
  <2>2. fleet.n \in Flt!M0 /\ 0 \in Flt!M0 /\ 1..(fleet.n - 1) \subseteq Flt!M0 /\ Flt!Clone \subseteq Flt!M0
    BY FleetFacts DEF FleetInv, FleetTypes, Flt!M0, Flt!Clone
  <2>3. fleetFaults' = 0 => fleetFaults = 0
    BY <1>3, FleetFaultsGrow
  <2> QED
    BY <1>2, <1>4, <2>1, <2>2, <2>3 DEF FleetInv, Course
<1> QED
  BY <1>5, <1>6, <1>7 DEF FleetInv

LEMMA FleetGoes ==
  ASSUME FleetInv, NEW p \in FleetPC, Flt!FleetTo(p)
  PROVE  /\ fleet' \in [pc : FleetPC, n : 1..Count, tool : {"kldload-seal", "virt-sysprep", "none"}]
         /\ fleet'.pc = p /\ fleet'.n = fleet.n /\ fleet'.tool = fleet.tool
  BY DEF FleetInv, FleetTypes, Flt!FleetTo

\* A step that changes one machine, or none, and tells the operator nothing new.
LEMMA SoundStays ==
  ASSUME FleetInv, NEW k \in Flt!M0, NEW r, Sound(k, r), mach' = [mach EXCEPT ![k] = r], UNCHANGED <<spec, warned>>
  PROVE  /\ mach' \in [Flt!M0 -> Machine]
         /\ \A i \in Flt!M0 : mach'[i] = IF i = k THEN r ELSE mach[i]
         /\ (\A i \in Flt!M0 : Sound(i, mach[i]))'
<1>1. mach' \in [Flt!M0 -> Machine]
  BY DEF FleetInv, FleetTypes, Sound
<1>2. \A i \in Flt!M0 : mach'[i] = IF i = k THEN r ELSE mach[i]
  BY DEF FleetInv, FleetTypes
<1> QED
  BY <1>1, <1>2 DEF FleetInv, Sound, RunSound, Bare, HasPost, HasDesk

LEMMA SoundSame ==
  ASSUME FleetInv, UNCHANGED <<spec, mach, warned>>
  PROVE  (\A i \in Flt!M0 : Sound(i, mach[i]))'
  BY DEF FleetInv, Sound, RunSound, Bare, HasPost, HasDesk

\* What BuildFleet's clone is numbered.
LEMMA Numbered ==
  ASSUME FleetInv
  PROVE  /\ fleet.n \in Flt!Clone /\ fleet.n \in Flt!M0 /\ fleet.n \in 1..Count /\ fleet.n \in Nat
         /\ 0 \in Flt!M0 /\ fleet.n # 0
         /\ 1..(fleet.n - 1) \subseteq Flt!Clone /\ Flt!Clone \subseteq Flt!M0
         /\ fleet.n \notin 1..(fleet.n - 1)
  BY FleetFacts DEF FleetInv, FleetTypes, Flt!M0, Flt!Clone

\* To another place, with the machines as they are.
LEMMA PlainGoes ==
  ASSUME FleetInv, NEW p \in FleetPC, Flt!FleetTo(p), UNCHANGED <<spec, mach, watch, warned>>, Flt!Fault \/ Flt!NoFault,
         \/ p \in {"stop", "down", "failed"}
         \/ p = "seal" /\ mach[0].pc = "off"
         \/ p = "clone" /\ fleet.pc = "snap",
         p \in {"stop", "down", "seal"} => fleet.n = 1
  PROVE  FleetInv'
<1>1. FleetTypes'
  BY FleetGoes, FleetFaultsGrow DEF FleetInv, FleetTypes
<1>3. p = "clone" => 1..(fleet.n - 1) = {}
  BY DEF FleetInv, Course
<1>2. Course'
  BY <1>3, FleetGoes, FleetFaultsGrow DEF FleetInv, Course, Cloning
<1> QED
  BY <1>1, <1>2, SoundSame DEF FleetInv

LEMMA BuildGoldenHolds == ASSUME FleetInv, Flt!BuildGolden PROVE FleetInv'
<1> DEFINE m == [Flt!NoMach EXCEPT !.seed = 0, !.log = 0]
           r == Flt!Booted(m, 0)
<1>0. Flt!NoMach \in Machine /\ Flt!NoMach.disk = Flt!Blank
  BY NoMachSound, FleetFacts DEF Sound, Flt!NoMach
<1>1. m \in Machine /\ m.seed = 0 /\ m.log = 0 /\ m.disk = Flt!Blank
  BY <1>0, FleetFacts DEF Machine
<1>2. /\ Flt!Blank.inst = None /\ Flt!Blank.host = None /\ Flt!Blank.mid = None /\ Flt!Blank.desk = "no"
      /\ Flt!Blank.dm = FALSE /\ Flt!Blank.fin = FALSE /\ Flt!Blank.graph = FALSE
  BY DEF Flt!Blank
<1>3. mach' = [mach EXCEPT ![0] = r]
  BY DEF Flt!BuildGolden
<1> HIDE DEF m
<1>4. DiskSound(m.disk)
  BY <1>1, <1>2 DEF DiskSound
<1>5. Sound(0, r)
  BY <1>1, <1>2, <1>4, FleetFacts, Boots
<1> HIDE DEF r
<1>6. Flt!FleetTo("wait") /\ "wait" \in FleetPC /\ fleet.pc = "build" /\ UNCHANGED <<spec, watch, warned, fleetFaults>>
  BY DEF Flt!BuildGolden, FleetPC, Flt!FleetAt
<1>7. mach' \in [Flt!M0 -> Machine] /\ (\A i \in Flt!M0 : Sound(i, mach[i]))'
  BY <1>3, <1>5, <1>6, FleetFacts, SoundStays
<1>8. FleetTypes'
  BY <1>6, <1>7, FleetGoes DEF FleetInv, FleetTypes
<1>9. Course'
  BY <1>6, FleetGoes DEF FleetInv, Course, Cloning
<1> QED
  BY <1>7, <1>8, <1>9 DEF FleetInv

LEMMA SampleHolds == ASSUME FleetInv, Flt!Sample PROVE FleetInv'
<1> DEFINE q == IF watch.wrote THEN 0 ELSE watch.quiet + 1
<1>1. /\ q \in 0..Flt!Quiet /\ watch.polls + 1 \in 0..MaxPoll /\ fleet.pc = "wait"
      /\ UNCHANGED <<spec, mach, warned, fleetFaults>>
  BY FleetFacts DEF FleetInv, FleetTypes, Flt!Sample, Flt!FleetAt, Flt!Quiet
<1>2. watch' = [quiet |-> q, polls |-> watch.polls + 1, wrote |-> FALSE]
  BY DEF Flt!Sample
<1>3. \/ Flt!FleetTo("stop")
      \/ fleet' = fleet /\ ~(q >= Flt!Quiet) /\ ~(watch.polls + 1 >= MaxPoll)
  BY DEF Flt!Sample
<1> HIDE DEF q
<1>4. watch' \in [quiet : 0..Flt!Quiet, polls : 0..MaxPoll, wrote : BOOLEAN] /\ watch'.quiet = q /\ watch'.polls = watch.polls + 1
  BY <1>1, <1>2
<1>5. CASE Flt!FleetTo("stop")
  <2>1. "stop" \in FleetPC
    BY DEF FleetPC
  <2>2. FleetTypes' /\ Course'
    BY <1>1, <1>4, <1>5, <2>1, FleetGoes DEF FleetInv, FleetTypes, Course, Cloning
  <2> QED
    BY <1>1, <2>2, SoundSame DEF FleetInv
<1>6. CASE fleet' = fleet /\ ~(q >= Flt!Quiet) /\ ~(watch.polls + 1 >= MaxPoll)
  <2>1. q < Flt!Quiet /\ watch.polls + 1 < MaxPoll
    BY <1>1, <1>6, FleetFacts DEF Flt!Quiet
  <2>2. FleetTypes' /\ Course'
    BY <1>1, <1>4, <1>6, <2>1 DEF FleetInv, FleetTypes, Course, Cloning
  <2> QED
    BY <1>1, <2>2, SoundSame DEF FleetInv
<1> QED
  BY <1>3, <1>5, <1>6

LEMMA PlainHolds ==
  ASSUME FleetInv,
         \/ Flt!Shutdown \/ Flt!SeenDown \/ Flt!DownTimeout \/ Flt!SnapGolden
         \/ Flt!FleetFails({"build", "wait", "stop", "snap", "clone", "seed", "log"})
  PROVE  FleetInv'
<1>1. {"down", "seal", "failed", "clone"} \subseteq FleetPC
  BY DEF FleetPC
<1>2. CASE Flt!Shutdown \/ Flt!DownTimeout \/ Flt!FleetFails({"build", "wait", "stop", "snap", "clone", "seed", "log"})
  BY <1>1, <1>2, PlainGoes DEF Flt!Shutdown, Flt!DownTimeout, Flt!FleetFails, Flt!NoFault, Flt!FleetAt, FleetInv, Course
<1>3. CASE Flt!SeenDown
  <2>1. mach[0].pc = "off"
    BY <1>3, FleetFacts DEF Flt!SeenDown, Flt!Running, FleetInv, Sound
  <2> QED
    BY <1>1, <1>3, <2>1, PlainGoes DEF Flt!SeenDown, Flt!NoFault, Flt!FleetAt, FleetInv, Course
<1>4. CASE Flt!SnapGolden
  BY <1>1, <1>4, PlainGoes DEF Flt!SnapGolden, Flt!NoFault, Flt!FleetAt
<1> QED
  BY <1>2, <1>3, <1>4

\* The golden goes down, sealed or not its disk is as sound.
LEMMA OffSound ==
  ASSUME FleetInv, NEW k \in Flt!M0, NEW r \in Machine, r.dom = "off", r.pc = "off", r.unit = FALSE,
         r.disk = mach[k].disk
  PROVE  Sound(k, r)
<1>1. k = 0 => GoldenSound(r)
  BY MachFacts DEF Sound, GoldenSound
<1> QED
  BY <1>1, MachFacts DEF Sound, RunSound

LEMMA GoesDownHolds == ASSUME FleetInv, Flt!GoesDown PROVE FleetInv'
<1> DEFINE r == [mach[0] EXCEPT !.dom = "off", !.pc = "off", !.unit = FALSE]
<1>1. r \in Machine /\ r.dom = "off" /\ r.pc = "off" /\ r.unit = FALSE /\ r.disk = mach[0].disk
  BY MachFacts, FleetFacts DEF Machine
<1>2. mach' = [mach EXCEPT ![0] = r] /\ fleet.pc = "down" /\ UNCHANGED <<spec, fleet, watch, warned, fleetFaults>>
  BY DEF Flt!GoesDown, Flt!Off, Flt!FleetAt
<1> HIDE DEF r
<1>3. Sound(0, r)
  BY <1>1, FleetFacts, OffSound
<1>4. mach' \in [Flt!M0 -> Machine] /\ (\A i \in Flt!M0 : Sound(i, mach[i]))'
  BY <1>2, <1>3, FleetFacts, SoundStays
<1>5. FleetTypes' /\ Course'
  BY <1>2, <1>4 DEF FleetInv, FleetTypes, Course, Cloning
<1> QED
  BY <1>4, <1>5 DEF FleetInv

LEMMA WritesHolds == ASSUME FleetInv, Flt!Writes PROVE FleetInv'
<1>1. UNCHANGED <<spec, mach, fleet, warned, fleetFaults>>
  BY DEF Flt!Writes
<1>2. /\ watch' \in [quiet : 0..Flt!Quiet, polls : 0..MaxPoll, wrote : BOOLEAN]
      /\ watch'.quiet = watch.quiet /\ watch'.polls = watch.polls
  BY DEF Flt!Writes, FleetInv, FleetTypes
<1>3. FleetTypes' /\ Course'
  BY <1>1, <1>2 DEF FleetInv, FleetTypes, Course
<1> QED
  BY <1>1, <1>3, SoundSame DEF FleetInv

LEMMA SealHolds == ASSUME FleetInv, Flt!Seal PROVE FleetInv'
<1>0. fleet.pc = "seal" /\ mach[0].pc = "off" /\ UNCHANGED <<spec, watch>> /\ "snap" \in FleetPC /\ fleet.n = 1
  BY DEF Flt!Seal, Flt!FleetAt, FleetInv, Course, FleetPC
<1>1. CASE /\ Flt!NoFault /\ mach' = [mach EXCEPT ![0].disk.mid = None]
           /\ Flt!FleetTo("snap") /\ UNCHANGED warned
  <2> DEFINE d == mach[0].disk
             e == [d EXCEPT !.mid = None]
             r == [mach[0] EXCEPT !.disk = e]
  <2>1. mach' = [mach EXCEPT ![0] = r]
    BY <1>1
  <2>2. /\ e \in Disk /\ e.inst = d.inst /\ e.host = d.host /\ e.way = d.way /\ e.ran = d.ran /\ e.mid = None
        /\ e.desk = d.desk /\ e.dm = d.dm /\ e.fin = d.fin /\ e.graph = d.graph
    BY MachFacts, FleetFacts DEF Disk
  <2> HIDE DEF e
  <2>3. r \in Machine /\ r.dom = mach[0].dom /\ r.pc = "off" /\ r.unit = mach[0].unit /\ r.disk = e
    BY <1>0, <2>2, MachFacts, FleetFacts DEF Machine
  <2> HIDE DEF r
  <2>4. Sound(0, r)
    BY <1>0, <2>2, <2>3, MachFacts, FleetFacts DEF Sound, DiskSound, RunSound, GoldenSound
  <2>5. mach' \in [Flt!M0 -> Machine] /\ (\A i \in Flt!M0 : Sound(i, mach[i]))' /\ mach'[0] = r
    BY <1>0, <1>1, <2>1, <2>4, FleetFacts, SoundStays
  <2>6. FleetTypes'
    BY <1>0, <1>1, <2>5, FleetGoes DEF FleetInv, FleetTypes, Flt!NoFault
  <2>7. Course'
    BY <1>0, <1>1, <2>2, <2>3, <2>5, FleetGoes DEF Course, Cloning
  <2> QED
    BY <2>5, <2>6, <2>7 DEF FleetInv
<1>2. CASE /\ fleet' = [fleet EXCEPT !.tool = Flt!NextTool]
           /\ Flt!Fault \/ Flt!NoFault
           /\ UNCHANGED <<mach, warned>>
  <2>1. fleet' \in [pc : FleetPC, n : 1..Count, tool : {"kldload-seal", "virt-sysprep", "none"}] /\ fleet'.pc = "seal"
        /\ fleet'.n = fleet.n
    BY <1>0, <1>2 DEF FleetInv, FleetTypes, Flt!NextTool
  <2>2. UNCHANGED <<mach, warned>>
    BY <1>2, <1>0 DEF Flt!Seal
  <2>3. FleetTypes' /\ Course'
    BY <1>0, <1>2, <2>1, <2>2, FleetFaultsGrow DEF FleetInv, FleetTypes, Course, Cloning
  <2> QED
    BY <1>0, <2>2, <2>3, SoundSame DEF FleetInv
<1>3. CASE warned' = TRUE /\ Flt!FleetTo("snap") /\ Flt!NoFault /\ UNCHANGED mach
  <2>1. FleetTypes' /\ Course'
    BY <1>0, <1>3, FleetGoes DEF FleetInv, FleetTypes, Course, Cloning, Flt!NoFault
  <2>2. (\A i \in Flt!M0 : Sound(i, mach[i]))'
    BY <1>0, <1>3 DEF FleetInv, Sound, RunSound, Bare, HasPost, HasDesk
  <2> QED
    BY <2>1, <2>2 DEF FleetInv
<1> QED
  BY <1>1, <1>2, <1>3 DEF Flt!Seal

LEMMA CloneItHolds == ASSUME FleetInv, Flt!CloneIt PROVE FleetInv'
<1> DEFINE r == [Flt!NoMach EXCEPT !.dom = "off", !.seed = mach[0].seed, !.log = mach[0].log, !.disk = mach[0].disk]
<1>0. fleet.pc = "clone" /\ Flt!FleetTo("seed") /\ "seed" \in FleetPC /\ UNCHANGED <<spec, watch, warned, fleetFaults>>
      /\ mach' = [mach EXCEPT ![fleet.n] = r]
  BY DEF Flt!CloneIt, Flt!FleetAt, FleetPC
<1>1. /\ mach[0] \in Machine /\ mach[0].seed \in Flt!Id /\ mach[0].log \in Flt!Id /\ mach[0].disk \in Disk
      /\ Sound(0, mach[0]) /\ GoldenSound(mach[0])
  BY MachFacts, FleetFacts DEF Machine, Sound
<1>2. Flt!NoMach \in Machine /\ Flt!NoMach.pc = "off" /\ Flt!NoMach.unit = FALSE
  BY NoMachSound, FleetFacts DEF Sound, Flt!NoMach
<1>3. r \in Machine /\ r.dom = "off" /\ r.pc = "off" /\ r.unit = FALSE /\ r.disk = mach[0].disk
  BY <1>1, <1>2 DEF Machine
<1> HIDE DEF r
<1>4. Sound(fleet.n, r)
  BY <1>0, <1>1, <1>3, Numbered DEF FleetInv, Course, Cloning, Sound, RunSound
<1>5. /\ mach' \in [Flt!M0 -> Machine] /\ (\A i \in Flt!M0 : Sound(i, mach[i]))'
      /\ \A i \in Flt!M0 : mach'[i] = IF i = fleet.n THEN r ELSE mach[i]
  BY <1>0, <1>4, Numbered, SoundStays
<1>6. FleetTypes'
  BY <1>0, <1>5, FleetGoes DEF FleetInv, FleetTypes
<1>7. Course'
  BY <1>0, <1>1, <1>3, <1>5, FleetGoes, Numbered DEF FleetInv, Course, Cloning, GoldenSound
<1> QED
  BY <1>5, <1>6, <1>7 DEF FleetInv

LEMMA ReseedHolds == ASSUME FleetInv, Flt!Reseed PROVE FleetInv'
<1> DEFINE k == fleet.n
           r == [mach[k] EXCEPT !.seed = k]
<1>0. fleet.pc = "seed" /\ Flt!FleetTo("log") /\ "log" \in FleetPC /\ UNCHANGED <<spec, watch, warned, fleetFaults>>
      /\ mach' = [mach EXCEPT ![k] = r]
  BY DEF Flt!Reseed, Flt!FleetAt, FleetPC
<1>1. k \in Flt!M0 /\ k \in Flt!Id /\ mach[k] \in Machine /\ mach[k].pc = "off" /\ Sound(k, mach[k])
  BY <1>0, Numbered, MachFacts DEF FleetInv, Course
<1>2. r \in Machine /\ r.seed = k /\ r.dom = mach[k].dom /\ r.pc = "off" /\ r.unit = mach[k].unit /\ r.disk = mach[k].disk
      /\ r.part = mach[k].part
  BY <1>1 DEF Machine
<1> HIDE DEF r
<1>3. Sound(k, r)
  BY <1>1, <1>2 DEF Sound, RunSound, GoldenSound
<1>5. /\ mach' \in [Flt!M0 -> Machine] /\ (\A i \in Flt!M0 : Sound(i, mach[i]))'
      /\ \A i \in Flt!M0 : mach'[i] = IF i = k THEN r ELSE mach[i]
  BY <1>0, <1>1, <1>3, SoundStays
<1>6. FleetTypes'
  BY <1>0, <1>5, FleetGoes DEF FleetInv, FleetTypes
<1>7. Course'
  BY <1>0, <1>1, <1>2, <1>5, FleetGoes, Numbered DEF FleetInv, Course, Cloning
<1> QED
  BY <1>5, <1>6, <1>7 DEF FleetInv

LEMMA RetargetHolds == ASSUME FleetInv, Flt!Retarget PROVE FleetInv'
<1> DEFINE k == fleet.n
           r == [mach[k] EXCEPT !.log = k]
<1>0. fleet.pc = "log" /\ Flt!FleetTo("start") /\ "start" \in FleetPC /\ UNCHANGED <<spec, watch, warned, fleetFaults>>
      /\ mach' = [mach EXCEPT ![k] = r]
  BY DEF Flt!Retarget, Flt!FleetAt, FleetPC
<1>1. k \in Flt!M0 /\ k \in Flt!Id /\ mach[k] \in Machine /\ mach[k].pc = "off" /\ Sound(k, mach[k]) /\ mach[k].seed = k
  BY <1>0, Numbered, MachFacts DEF FleetInv, Course
<1>2. r \in Machine /\ r.seed = k /\ r.log = k /\ r.dom = mach[k].dom /\ r.pc = "off" /\ r.unit = mach[k].unit
      /\ r.disk = mach[k].disk /\ r.part = mach[k].part
  BY <1>1 DEF Machine
<1> HIDE DEF r
<1>3. Sound(k, r)
  BY <1>1, <1>2 DEF Sound, RunSound, GoldenSound
<1>5. /\ mach' \in [Flt!M0 -> Machine] /\ (\A i \in Flt!M0 : Sound(i, mach[i]))'
      /\ \A i \in Flt!M0 : mach'[i] = IF i = k THEN r ELSE mach[i]
  BY <1>0, <1>1, <1>3, SoundStays
<1>6. FleetTypes'
  BY <1>0, <1>5, FleetGoes DEF FleetInv, FleetTypes
<1>7. Course'
  BY <1>0, <1>1, <1>2, <1>5, FleetGoes, Numbered DEF FleetInv, Course, Cloning
<1> QED
  BY <1>5, <1>6, <1>7 DEF FleetInv

\* The next clone, or the enrolment.
LEMMA MoreGoes ==
  ASSUME FleetInv, Flt!More
  PROVE  /\ fleet' \in [pc : FleetPC, n : 1..Count, tool : {"kldload-seal", "virt-sysprep", "none"}]
         /\ \/ fleet'.pc = "clone" /\ fleet'.n = fleet.n + 1
            \/ fleet'.pc = "enrol" /\ fleet.n = Count
<1>1. fleet.n \in 1..Count /\ fleet.n \in Nat /\ Count \in Nat /\ 1 \in 1..Count
  BY FleetFacts, Numbered
<1>2. CASE fleet.n < Count
  <2>1. fleet' = [fleet EXCEPT !.pc = "clone", !.n = fleet.n + 1]
    BY <1>2 DEF Flt!More
  <2>2. fleet.n + 1 \in 1..Count
    BY <1>1, <1>2
  <2>3. "clone" \in FleetPC
    BY DEF FleetPC
  <2> QED
    BY <2>1, <2>2, <2>3 DEF FleetInv, FleetTypes
<1>3. CASE ~(fleet.n < Count)
  <2>1. fleet' = [fleet EXCEPT !.pc = "enrol", !.n = 1]
    BY <1>3 DEF Flt!More
  <2>2. "enrol" \in FleetPC
    BY DEF FleetPC
  <2>3. fleet.n = Count
    BY <1>1, <1>3
  <2> QED
    BY <1>1, <2>1, <2>2, <2>3 DEF FleetInv, FleetTypes
<1> QED
  BY <1>2, <1>3

\* When the clone that was started runs, or something failed, the batch is as good as
\* it was.
LEMMA MoreHolds ==
  ASSUME FleetInv, Flt!More, fleet.pc = "start", NEW r, Sound(fleet.n, r), mach' = [mach EXCEPT ![fleet.n] = r],
         UNCHANGED <<spec, watch, warned>>, fleetFaults' \in 0..MaxOther,
         fleetFaults' = 0 => fleetFaults = 0 /\ r.dom = "running"
  PROVE  FleetInv'
<1>5. /\ mach' \in [Flt!M0 -> Machine] /\ (\A i \in Flt!M0 : Sound(i, mach[i]))'
      /\ \A i \in Flt!M0 : mach'[i] = IF i = fleet.n THEN r ELSE mach[i]
  BY Numbered, SoundStays
<1>6. FleetTypes'
  BY <1>5, MoreGoes DEF FleetInv, FleetTypes
<1>7. mach'[0].pc = "off" /\ (~warned' => mach'[0].disk.mid = None)
  BY <1>5, Numbered DEF FleetInv, Course, Cloning
<1>8. fleetFaults' = 0 => \A i \in 1..fleet.n : mach'[i].dom = "running"
  <2>1. \A i \in 1..fleet.n : i = fleet.n \/ i \in 1..(fleet.n - 1)
    BY Numbered
  <2>2. \A i \in 1..(fleet.n - 1) : i \in Flt!M0 /\ i # fleet.n
    BY Numbered
  <2> QED
    BY <1>5, <2>1, <2>2, Numbered DEF FleetInv, Course, Cloning
<1>9. CASE fleet'.pc = "clone" /\ fleet'.n = fleet.n + 1
  <2>1. 1..(fleet'.n - 1) = 1..fleet.n
    BY <1>9, Numbered
  <2> QED
    BY <1>5, <1>6, <1>7, <1>8, <1>9, <2>1 DEF FleetInv, Course, Cloning
<1>10. CASE fleet'.pc = "enrol" /\ fleet.n = Count
  <2>1. Flt!Clone = 1..fleet.n
    BY <1>10 DEF Flt!Clone
  <2> QED
    BY <1>5, <1>6, <1>7, <1>8, <1>10, <2>1 DEF FleetInv, Course, Cloning
<1> QED
  BY <1>9, <1>10, MoreGoes

LEMMA StartCloneHolds == ASSUME FleetInv, Flt!StartClone PROVE FleetInv'
<1> DEFINE k == fleet.n
<1>0. /\ fleet.pc = "start" /\ Flt!More /\ UNCHANGED <<spec, watch, warned>> /\ k \in Flt!M0 /\ k # 0 /\ k \in Flt!Clone
      /\ mach[k] \in Machine /\ mach[k].pc = "off" /\ mach[k].seed = k /\ mach[k].log = k /\ Sound(k, mach[k])
      /\ mach[k].disk.inst \in {0, None} /\ k # None
  BY Numbered, MachFacts DEF Flt!StartClone, Flt!FleetAt, FleetInv, Course
<1>1. CASE mach' = [mach EXCEPT ![k] = Flt!Booted(mach[k], k)] /\ Flt!NoFault
  <2>1. Sound(k, Flt!Booted(mach[k], k)) /\ Flt!Booted(mach[k], k).dom = "running"
    BY <1>0, Boots DEF Sound
  <2> QED
    BY <1>0, <1>1, <2>1, MoreHolds, FleetFaultsGrow
<1>2. CASE UNCHANGED mach /\ Flt!Fault
  <2>1. mach' = [mach EXCEPT ![k] = mach[k]]
    BY <1>0, <1>2 DEF FleetInv, FleetTypes
  <2>2. fleetFaults' \in 0..MaxOther /\ fleetFaults' # 0
    BY <1>2, FleetFacts DEF Flt!Fault, FleetInv, FleetTypes
  <2> QED
    BY <1>0, <2>1, <2>2, MoreHolds
<1>3. ~Flt!LogBusy(k)
  <2>1. \A j \in Flt!M0 \ {k} : Flt!Running(j) => mach[j].log = j
    BY MachFacts DEF Flt!Running, Sound, RunSound
  <2> QED
    BY <1>0, <2>1 DEF Flt!LogBusy
<1> QED
  BY <1>1, <1>2, <1>3 DEF Flt!StartClone

LEMMA EnrolNextHolds == ASSUME FleetInv, Flt!EnrolNext PROVE FleetInv'
<1>0. fleet.pc = "enrol" /\ UNCHANGED <<spec, mach, watch, warned, fleetFaults>> /\ {"enrol", "done"} \subseteq FleetPC
  BY DEF Flt!EnrolNext, Flt!FleetAt, FleetPC
<1>1. /\ fleet' \in [pc : FleetPC, n : 1..Count, tool : {"kldload-seal", "virt-sysprep", "none"}]
      /\ fleet'.pc \in {"enrol", "done"}
  <2> DEFINE p == IF fleet.n < Count THEN "enrol" ELSE "done"
             n == IF fleet.n < Count THEN fleet.n + 1 ELSE fleet.n
  <2>1. p \in {"enrol", "done"} /\ n \in 1..Count
    BY Numbered, FleetFacts
  <2>2. fleet' = [fleet EXCEPT !.pc = p, !.n = n]
    BY <1>0 DEF Flt!EnrolNext
  <2> HIDE DEF p, n
  <2> QED
    BY <1>0, <2>1, <2>2 DEF FleetInv, FleetTypes
<1>2. FleetTypes' /\ Course'
  BY <1>0, <1>1 DEF FleetInv, FleetTypes, Course, Cloning
<1> QED
  BY <1>0, <1>2, SoundSame DEF FleetInv

LEMMA FleetInductive == FleetInv /\ [Flt!Next]_fleetVars => FleetInv'
<1> SUFFICES ASSUME FleetInv, [Flt!Next]_fleetVars PROVE FleetInv'
  OBVIOUS
<1>1. CASE UNCHANGED fleetVars
  <2>1. UNCHANGED <<spec, mach, fleet, watch, warned, fleetFaults>>
    BY <1>1 DEF fleetVars
  <2>2. FleetTypes' /\ Course'
    BY <2>1 DEF FleetInv, FleetTypes, Course
  <2> QED
    BY <2>1, <2>2, SoundSame DEF FleetInv
<1>2. CASE Flt!FleetStep
  BY <1>2, BuildGoldenHolds, SampleHolds, PlainHolds, SealHolds, CloneItHolds, ReseedHolds, RetargetHolds,
     StartCloneHolds, EnrolNextHolds DEF Flt!FleetStep
<1> QED
  BY <1>1, <1>2, GuestHolds, GoesDownHolds, WritesHolds DEF Flt!Next

LEMMA FleetPart == [BuildingNext]_all => [Flt!Next]_fleetVars
  BY DEF BuildingNext, all

THEOREM FleetStaysSound == BuildingSpec => []FleetIsSound
<1>1. BuildingInit => FleetInv
  BY FleetInitHolds DEF BuildingInit
<1>2. FleetInv /\ [BuildingNext]_all => FleetInv'
  BY FleetPart, FleetInductive
<1> QED
  BY <1>1, <1>2, FleetSound, PTL DEF BuildingSpec

-----------------------------------------------------------------------------
(* Build all and destroy all: the inductive invariant.                     *)

In(set) == {t \in All!Tile : tile[t] \in set}
Busy == {"build", "wait", "verdict", "enrol", "off"}
VmRec == [st : {"none", "on", "off"}, answers : BOOLEAN, recipe : {"none", "runs", "ok", "bad"}]
CountRec == [started : Nat, finished : Nat, built : Nat, failed : Nat, cancelled : Nat, todo : Nat]

RunTypes ==
  /\ vm \in [All!Tile -> VmRec]
  /\ tile \in [All!Tile -> {"idle"} \cup All!Working \cup All!Outcome]
  /\ queue \subseteq All!Tile /\ run \in {"idle", "on"} /\ ctx \in BOOLEAN
  /\ count \in CountRec /\ bar \in Nat
  /\ shown \subseteq All!Tile /\ gone \subseteq All!Tile /\ destroy \in {"idle", "ask", "on"}
  /\ runs \in 0..MaxTimes /\ tileFaults \in 0..MaxOther

\* Nobody works, and nothing waits to be worked on, when no run is on; while the
\* dialog of destroy-all is open none is.
NoRunNoWork ==
  /\ run = "idle" => queue = {} /\ In(All!Working) = {}
  /\ destroy # "idle" => run = "idle"
  /\ \A t \in queue : tile[t] = "idle"

\* What is still to be built has no VM, nor has what was cancelled; what is past
\* the verdict has one that said so, until it is destroyed.
Vms ==
  \A t \in All!Tile :
    /\ run = "on" /\ (t \in queue \/ tile[t] \in {"taken", "build", "cancelled"}) => vm[t].st = "none"
    /\ tile[t] \in {"enrol", "off", "built"} => vm[t].recipe \in {"ok", "none"}

\* The sums are those of the tiles; no more work than there are workers.
Sums ==
  /\ \A r \in All!Outcome : count[r] = Cardinality(In({r}))
  /\ count.todo = Cardinality(queue) + Cardinality(In(All!Working)) + count.built + count.failed + count.cancelled
  /\ count.started = count.finished + Cardinality(In(Busy))
  /\ count.finished <= count.built + count.failed + count.cancelled
  /\ Cardinality(In(All!Working)) <= Workers
  /\ bar <= count.finished \/ bar < count.started

\* The dialog's list is the one that is acted on.
Dialog ==
  /\ destroy = "ask" => shown \subseteq All!Exists
  /\ destroy = "on" => shown \subseteq gone

RunInv == RunTypes /\ NoRunNoWork /\ Vms /\ Sums /\ Dialog

\* Where the tiles are in the next state.
Then(set) == {t \in All!Tile : tile'[t] \in set}

LEMMA RunFacts ==
  /\ IsFiniteSet(All!Tile) /\ Workers \in Nat /\ MaxTimes \in Nat /\ MaxOther \in Nat
<1>1. Tiles \in Seq(All!Tile) /\ Workers \in Nat /\ MaxTimes \in Nat /\ MaxOther \in Nat
  BY BuildingAssumption DEF All!BuildAllAssumption, All!Tile
<1>2. PICK n \in Nat : n = Len(Tiles)
  BY <1>1, LenProperties
<1>3. Tiles \in [1..n -> All!Tile]
  BY <1>1, <1>2, LenProperties, ElementOfSeq
<1>4. \A t \in All!Tile : \E i \in 1..n : Tiles[i] = t
  <2>1. DOMAIN Tiles = 1..n
    BY <1>3
  <2> QED
    BY <2>1 DEF All!Tile, All!ToSet
<1>5. Tiles \in Surjection(1..n, All!Tile)
  BY <1>3, <1>4 DEF Surjection
<1>6. ExistsSurjection(1..n, All!Tile)
  BY <1>5 DEF ExistsSurjection
<1> QED
  BY <1>1, <1>6, FS_NatSurjection

LEMMA SameCount == \A S : All!Cardinality(S) = Cardinality(S)
  BY DEF All!Cardinality, Cardinality

LEMMA SizeOf ==
  ASSUME NEW S \in SUBSET All!Tile PROVE IsFiniteSet(S) /\ Cardinality(S) \in Nat
  BY RunFacts, FS_Subset, FS_CardinalityType

\* A tile moves: what that does to the tiles that are in a set of places.
LEMMA TileMoves ==
  ASSUME RunTypes, NEW t \in All!Tile, NEW q, All!Go(t, q), NEW set
  PROVE  /\ Cardinality(In(set)) \in Nat
         /\ (tile[t] \in set <=> q \in set) => Then(set) = In(set)
         /\ tile[t] \notin set /\ q \in set => Cardinality(Then(set)) = Cardinality(In(set)) + 1
         /\ tile[t] \in set /\ q \notin set => Cardinality(Then(set)) = Cardinality(In(set)) - 1
<1>1. \A u \in All!Tile : tile'[u] = IF u = t THEN q ELSE tile[u]
  BY DEF RunTypes, All!Go
<1>2. In(set) \in SUBSET All!Tile
  BY DEF In
<1>3. IsFiniteSet(In(set)) /\ Cardinality(In(set)) \in Nat
  BY <1>2, SizeOf
<1>5. (tile[t] \in set <=> q \in set) => Then(set) = In(set)
  BY <1>1 DEF In, Then
<1>6. ASSUME tile[t] \notin set, q \in set PROVE Cardinality(Then(set)) = Cardinality(In(set)) + 1
  <2>1. Then(set) = In(set) \cup {t} /\ t \notin In(set)
    BY <1>1, <1>6 DEF In, Then
  <2> QED
    BY <1>3, <2>1, FS_AddElement
<1>7. ASSUME tile[t] \in set, q \notin set PROVE Cardinality(Then(set)) = Cardinality(In(set)) - 1
  <2>1. Then(set) = In(set) \ {t} /\ t \in In(set)
    BY <1>1, <1>7 DEF In, Then
  <2> QED
    BY <1>3, <2>1, FS_RemoveElement
<1> QED
  BY <1>3, <1>5, <1>6, <1>7

LEMMA ThenIs == \A set : In(set)' = Then(set)
  BY DEF In, Then, All!Tile

\* The result of a tile in the sums.
LEMMA Tally ==
  ASSUME RunTypes, NEW t \in All!Tile, NEW res \in All!Outcome, All!Finish(t, res)
  PROVE  /\ count' \in CountRec /\ bar' = count.finished + 1
         /\ count'.finished = count.finished + 1 /\ count'.todo = count.todo /\ count'.started = count.started
         /\ \A r \in All!Outcome : count'[r] = IF r = res THEN count[r] + 1 ELSE count[r]
<1>1. count \in CountRec
  BY DEF RunTypes
<1>2. count' = [count EXCEPT !.finished = count.finished + 1, ![res] = count[res] + 1] /\ bar' = count'.finished
  <2>1. res # "finished"
    BY DEF All!Outcome
  <2> QED
    BY <1>1, <2>1 DEF All!Finish, CountRec
<1>3. CASE res = "built"
  <2>1. count' = [count EXCEPT !.finished = count.finished + 1, !.built = count.built + 1]
    BY <1>1, <1>2, <1>3 DEF CountRec
  <2>2. /\ count' \in CountRec /\ count'.finished = count.finished + 1 /\ count'.built = count.built + 1
        /\ count'.todo = count.todo /\ count'.started = count.started
        /\ count'.failed = count.failed /\ count'.cancelled = count.cancelled
    <3> DEFINE f == count.finished + 1
               g == count.built + 1
    <3>1. f \in Nat /\ g \in Nat /\ count' = [count EXCEPT !.finished = f, !.built = g]
      BY <1>1, <2>1 DEF CountRec
    <3> HIDE DEF f, g
    <3>2. /\ count' \in CountRec /\ count'.finished = f /\ count'.built = g
          /\ count'.todo = count.todo /\ count'.started = count.started
          /\ \A x \in {"built", "failed", "cancelled"} : x # "built" => count'[x] = count[x]
      BY <1>1, <3>1 DEF CountRec
    <3> QED
      BY <3>2 DEF f, g
  <2> QED
    BY <1>2, <1>3, <2>2 DEF All!Outcome
<1>4. CASE res = "failed"
  <2>1. count' = [count EXCEPT !.finished = count.finished + 1, !.failed = count.failed + 1]
    BY <1>1, <1>2, <1>4 DEF CountRec
  <2>2. /\ count' \in CountRec /\ count'.finished = count.finished + 1 /\ count'.failed = count.failed + 1
        /\ count'.todo = count.todo /\ count'.started = count.started
        /\ count'.built = count.built /\ count'.cancelled = count.cancelled
    <3> DEFINE f == count.finished + 1
               g == count.failed + 1
    <3>1. f \in Nat /\ g \in Nat /\ count' = [count EXCEPT !.finished = f, !.failed = g]
      BY <1>1, <2>1 DEF CountRec
    <3> HIDE DEF f, g
    <3>2. /\ count' \in CountRec /\ count'.finished = f /\ count'.failed = g
          /\ count'.todo = count.todo /\ count'.started = count.started
          /\ \A x \in {"built", "failed", "cancelled"} : x # "failed" => count'[x] = count[x]
      BY <1>1, <3>1 DEF CountRec
    <3> QED
      BY <3>2 DEF f, g
  <2> QED
    BY <1>2, <1>4, <2>2 DEF All!Outcome
<1>5. CASE res = "cancelled"
  <2>1. count' = [count EXCEPT !.finished = count.finished + 1, !.cancelled = count.cancelled + 1]
    BY <1>1, <1>2, <1>5 DEF CountRec
  <2>2. /\ count' \in CountRec /\ count'.finished = count.finished + 1 /\ count'.cancelled = count.cancelled + 1
        /\ count'.todo = count.todo /\ count'.started = count.started
        /\ count'.built = count.built /\ count'.failed = count.failed
    <3> DEFINE f == count.finished + 1
               g == count.cancelled + 1
    <3>1. f \in Nat /\ g \in Nat /\ count' = [count EXCEPT !.finished = f, !.cancelled = g]
      BY <1>1, <2>1 DEF CountRec
    <3> HIDE DEF f, g
    <3>2. /\ count' \in CountRec /\ count'.finished = f /\ count'.cancelled = g
          /\ count'.todo = count.todo /\ count'.started = count.started
          /\ \A x \in {"built", "failed", "cancelled"} : x # "cancelled" => count'[x] = count[x]
      BY <1>1, <3>1 DEF CountRec
    <3> QED
      BY <3>2 DEF f, g
  <2> QED
    BY <1>2, <1>5, <2>2 DEF All!Outcome
<1> QED
  BY <1>3, <1>4, <1>5 DEF All!Outcome

-----------------------------------------------------------------------------
(* What a worker does with its tile.                                       *)

LEMMA AtWork ==
  ASSUME RunInv, NEW t \in All!Tile, tile[t] \in All!Working
  PROVE  run = "on" /\ destroy = "idle" /\ t \notin queue
  BY DEF RunInv, RunTypes, NoRunNoWork, In, All!Working

\* What is the same of a step for every place a tile comes to.
WorkFrame(t) ==
  /\ run' = run /\ queue' = queue /\ ctx' = ctx /\ runs' = runs
  /\ shown' = shown /\ gone' = gone /\ destroy' = destroy
  /\ tileFaults' \in 0..MaxOther
  /\ vm' \in [All!Tile -> VmRec] /\ \A u \in All!Tile \ {t} : vm'[u] = vm[u]

\* The parts that do not count.
LEMMA WorkKeeps ==
  ASSUME RunInv, NEW t \in All!Tile, tile[t] \in All!Working, NEW q \in Busy \cup All!Outcome, All!Go(t, q), WorkFrame(t),
         q \in {"build", "cancelled"} => vm'[t].st = "none",
         q \in {"enrol", "off", "built"} => vm'[t].recipe \in {"ok", "none"},
         count' \in CountRec, bar' \in Nat
  PROVE  RunTypes' /\ NoRunNoWork' /\ Vms' /\ Dialog'
<1>1. run = "on" /\ destroy = "idle" /\ t \notin queue
  BY AtWork
<1>2. tile \in [All!Tile -> {"idle"} \cup All!Working \cup All!Outcome] /\ q \in All!Working \cup All!Outcome
  BY DEF RunInv, RunTypes, Busy, All!Working
<1>3. /\ tile' \in [All!Tile -> {"idle"} \cup All!Working \cup All!Outcome]
      /\ tile'[t] = q /\ \A u \in All!Tile \ {t} : tile'[u] = tile[u]
  BY <1>2 DEF All!Go
<1>4. RunTypes'
  <2>1. queue \subseteq All!Tile /\ run \in {"idle", "on"} /\ ctx \in BOOLEAN /\ shown \subseteq All!Tile /\ gone \subseteq All!Tile
        /\ destroy \in {"idle", "ask", "on"} /\ runs \in 0..MaxTimes
    BY DEF RunInv, RunTypes
  <2> QED
    BY <1>3, <2>1 DEF RunTypes, WorkFrame, All!Tile
<1>5. NoRunNoWork'
  <2>1. \A u \in queue : tile'[u] = "idle"
    BY <1>1, <1>3 DEF RunInv, RunTypes, NoRunNoWork
  <2> QED
    BY <1>1, <2>1 DEF NoRunNoWork, WorkFrame
<1>6. Vms'
  <2> SUFFICES ASSUME NEW u \in All!Tile
               PROVE  /\ run' = "on" /\ (u \in queue' \/ tile'[u] \in {"taken", "build", "cancelled"}) => vm'[u].st = "none"
                      /\ tile'[u] \in {"enrol", "off", "built"} => vm'[u].recipe \in {"ok", "none"}
    BY DEF Vms, All!Tile
  <2>1. CASE u = t
    BY <1>1, <1>3, <2>1 DEF WorkFrame, Busy, All!Outcome
  <2>2. CASE u # t
    BY <1>3, <2>2 DEF RunInv, Vms, WorkFrame
  <2> QED
    BY <2>1, <2>2
<1> QED
  BY <1>1, <1>4, <1>5, <1>6 DEF Dialog, WorkFrame

\* On to the next place.
LEMMA Passes ==
  ASSUME RunInv, NEW t \in All!Tile, tile[t] \in Busy, NEW q \in Busy \ {"build"}, All!Go(t, q), WorkFrame(t),
         q \in {"enrol", "off"} => vm'[t].recipe \in {"ok", "none"},
         count' = count, bar' = bar
  PROVE  RunInv'
<1>1. RunTypes' /\ NoRunNoWork' /\ Vms' /\ Dialog'
  <2>1. tile[t] \in All!Working /\ q \in Busy \cup All!Outcome /\ q \notin {"build", "cancelled", "built"}
    BY DEF Busy, All!Working, All!Outcome
  <2>2. count' \in CountRec /\ bar' \in Nat
    BY DEF RunInv, RunTypes
  <2> QED
    BY <2>1, <2>2, WorkKeeps
<1>2. In(All!Working)' = In(All!Working) /\ In(Busy)' = In(Busy) /\ \A r \in All!Outcome : In({r})' = In({r})
  <2>1. \A r \in All!Outcome : ~(tile[t] \in {r}) /\ ~(q \in {r})
    BY DEF Busy, All!Outcome
  <2>2. tile[t] \in All!Working /\ q \in All!Working
    BY DEF Busy, All!Working
  <2> QED
    BY <2>1, <2>2, TileMoves, ThenIs DEF RunInv
<1>3. Sums'
  BY <1>2 DEF RunInv, Sums, WorkFrame
<1> QED
  BY <1>1, <1>3 DEF RunInv

LEMMA SumsAre ==
  ASSUME RunInv
  PROVE  /\ Cardinality(queue) \in Nat /\ Cardinality(In(All!Working)) \in Nat /\ Cardinality(In(Busy)) \in Nat
         /\ count.built \in Nat /\ count.failed \in Nat /\ count.cancelled \in Nat /\ count.finished \in Nat
         /\ count.started \in Nat /\ count.todo \in Nat /\ bar \in Nat
<1>1. In(All!Working) \in SUBSET All!Tile /\ In(Busy) \in SUBSET All!Tile /\ queue \in SUBSET All!Tile
  BY DEF In, RunInv, RunTypes
<1> QED
  BY <1>1, SizeOf DEF RunInv, RunTypes, CountRec

\* Its result is in.
LEMMA ComesToResult ==
  ASSUME RunInv, NEW t \in All!Tile, tile[t] \in Busy, NEW res \in All!Outcome, All!Finish(t, res), WorkFrame(t),
         res = "cancelled" => vm'[t].st = "none",
         res = "built" => vm'[t].recipe \in {"ok", "none"}
  PROVE  RunInv'
<1> USE DEF RunInv
<1>1. All!Go(t, res)
  BY DEF All!Finish
<1>2. /\ count' \in CountRec /\ bar' = count.finished + 1
      /\ count'.finished = count.finished + 1 /\ count'.todo = count.todo /\ count'.started = count.started
      /\ \A r \in All!Outcome : count'[r] = IF r = res THEN count[r] + 1 ELSE count[r]
  BY Tally
<1>3. tile[t] \in All!Working /\ res \notin All!Working /\ res \notin Busy /\ res \notin {"build", "enrol", "off"}
      /\ \A r \in All!Outcome : tile[t] \notin {r} /\ (res \in {r} <=> r = res)
  BY DEF Busy, All!Working, All!Outcome
<1>4. RunTypes' /\ NoRunNoWork' /\ Vms' /\ Dialog'
  <2>1. bar' \in Nat
    BY <1>2 DEF RunTypes, CountRec
  <2> QED
    BY <1>1, <1>2, <1>3, <2>1, WorkKeeps
<1>5. /\ Cardinality(In(All!Working)') = Cardinality(In(All!Working)) - 1
      /\ Cardinality(In(Busy)') = Cardinality(In(Busy)) - 1
      /\ \A r \in All!Outcome : Cardinality(In({r})') = IF r = res THEN Cardinality(In({r})) + 1 ELSE Cardinality(In({r}))
  BY <1>1, <1>3, TileMoves, ThenIs
<1>6. Sums'
  <2>0. /\ count.todo = Cardinality(queue) + Cardinality(In(All!Working)) + count.built + count.failed + count.cancelled
        /\ count.finished <= count.built + count.failed + count.cancelled
        /\ Cardinality(In(All!Working)) <= Workers
    BY DEF Sums
  <2>1. \A r \in All!Outcome : count'[r] = Cardinality(In({r})')
    BY <1>2, <1>5 DEF Sums
  <2>2. count'.built + count'.failed + count'.cancelled = count.built + count.failed + count.cancelled + 1
    BY <1>2, SumsAre DEF All!Outcome
  <2>3. queue' = queue
    BY DEF WorkFrame
  <2>4. count'.todo = Cardinality(queue') + Cardinality(In(All!Working)') + count'.built + count'.failed + count'.cancelled
    <3>1. count'.built \in Nat /\ count'.failed \in Nat /\ count'.cancelled \in Nat
      BY <1>2 DEF CountRec
    <3>2. count.todo = Cardinality(queue) + Cardinality(In(All!Working)) + (count.built + count.failed + count.cancelled)
      BY <2>0, SumsAre
    <3>3. count'.todo = Cardinality(queue') + Cardinality(In(All!Working)') + (count'.built + count'.failed + count'.cancelled)
      BY <1>2, <1>5, <2>2, <2>3, <3>2, SumsAre
    <3> QED
      BY <1>5, <2>3, <3>1, <3>3, SumsAre
  <2>5. count'.started = count'.finished + Cardinality(In(Busy)')
    <3>1. count.started = count.finished + Cardinality(In(Busy))
      BY DEF Sums
    <3>2. count.finished \in Nat /\ Cardinality(In(Busy)) \in Nat
      BY SumsAre
    <3> HIDE DEF RunInv
    <3> QED
      BY <1>2, <1>5, <3>1, <3>2
  <2>6. count'.finished <= count'.built + count'.failed + count'.cancelled
    <3>1. count'.built \in Nat /\ count'.failed \in Nat /\ count'.cancelled \in Nat
      BY <1>2 DEF CountRec
    <3>2. count'.finished <= count'.built + count'.failed + count'.cancelled
      <4> DEFINE a == count.built + count.failed + count.cancelled
                 b == count'.built + count'.failed + count'.cancelled
      <4>1. a \in Nat /\ b = a + 1 /\ count.finished <= a
        BY <2>0, <2>2, SumsAre
      <4> HIDE DEF a, b
      <4>2. count'.finished <= b
        BY <1>2, <4>1, SumsAre
      <4> QED
        BY <4>2 DEF b
    <3> QED
      BY <3>2
  <2>7. Cardinality(In(All!Working)') <= Workers
    BY <1>5, <2>0, SumsAre, RunFacts
  <2>8. bar' <= count'.finished
    BY <1>2, SumsAre
  <2> QED
    BY <2>1, <2>4, <2>5, <2>6, <2>7, <2>8 DEF Sums, All!Outcome
<1> QED
  BY <1>4, <1>6

LEMMA VmFacts ==
  ASSUME RunInv, NEW t \in All!Tile
  PROVE  /\ vm[t] \in VmRec /\ All!NoVM \in VmRec /\ All!FreshVM \in VmRec
         /\ All!NoVM.st = "none" /\ All!NoVM.recipe = "none"
         /\ \A r \in VmRec : /\ [vm EXCEPT ![t] = r] \in [All!Tile -> VmRec] /\ [vm EXCEPT ![t] = r][t] = r
                            /\ \A u \in All!Tile \ {t} : [vm EXCEPT ![t] = r][u] = vm[u]
  BY DEF RunInv, RunTypes, VmRec, All!NoVM, All!FreshVM

LEMMA FaultsStay ==
  ASSUME RunInv PROVE tileFaults \in 0..MaxOther /\ (All!Fault => tileFaults' \in 0..MaxOther)
<1>1. tileFaults \in 0..MaxOther /\ MaxOther \in Nat
  BY RunFacts DEF RunInv, RunTypes
<1>2. ASSUME All!Fault PROVE tileFaults' \in 0..MaxOther
  <2>1. tileFaults < MaxOther /\ tileFaults' = tileFaults + 1
    BY <1>2 DEF All!Fault
  <2> QED
    BY <1>1, <2>1
<1> QED
  BY <1>1, <1>2

LEMMA BuildTileHolds == ASSUME RunInv, NEW t \in All!Tile, All!BuildTile(t) PROVE RunInv'
<1>1. /\ tile[t] = "build" /\ queue' = queue /\ run' = run /\ ctx' = ctx /\ runs' = runs
      /\ shown' = shown /\ gone' = gone /\ destroy' = destroy
  BY DEF All!BuildTile, All!destroyVars
<1>2. vm \in [All!Tile -> VmRec] /\ tile[t] \in Busy
  BY <1>1 DEF RunInv, RunTypes, Busy
<1>3. CASE vm' = [vm EXCEPT ![t] = All!FreshVM] /\ All!Go(t, "wait") /\ All!NoFault /\ UNCHANGED <<count, bar>>
  <2>1. WorkFrame(t)
    BY <1>1, <1>3, VmFacts, FaultsStay DEF WorkFrame, All!NoFault
  <2>2. "wait" \in Busy \ {"build"} /\ "wait" \notin {"enrol", "off"}
    BY DEF Busy
  <2> QED
    BY <1>2, <1>3, <2>1, <2>2, Passes
<1>4. CASE All!Finish(t, "failed") /\ (All!NoFault \/ All!Fault) /\ UNCHANGED vm
  <2>1. WorkFrame(t)
    BY <1>1, <1>2, <1>4, FaultsStay DEF WorkFrame, All!NoFault
  <2>2. "failed" \in All!Outcome
    BY DEF All!Outcome
  <2> QED
    BY <1>2, <1>4, <2>1, <2>2, ComesToResult
<1> QED
  BY <1>3, <1>4 DEF All!BuildTile

LEMMA WaitHolds == ASSUME RunInv, NEW t \in All!Tile, All!Wait(t) PROVE RunInv'
<1>1. /\ tile[t] = "wait" /\ queue' = queue /\ run' = run /\ ctx' = ctx /\ runs' = runs /\ tileFaults' = tileFaults
      /\ shown' = shown /\ gone' = gone /\ destroy' = destroy
  BY DEF All!Wait, All!destroyVars
<1>2. vm \in [All!Tile -> VmRec] /\ tile[t] \in Busy
  BY <1>1 DEF RunInv, RunTypes, Busy
<1>3. CASE All!Go(t, "verdict") /\ UNCHANGED <<vm, count, bar>>
  <2>1. WorkFrame(t)
    BY <1>1, <1>2, <1>3, FaultsStay DEF WorkFrame
  <2>2. "verdict" \in Busy \ {"build"} /\ "verdict" \notin {"enrol", "off"}
    BY DEF Busy
  <2> QED
    BY <1>2, <1>3, <2>1, <2>2, Passes
<1>4. CASE vm' = [vm EXCEPT ![t] = All!NoVM] /\ All!Finish(t, "cancelled")
  <2>1. WorkFrame(t) /\ vm'[t].st = "none"
    BY <1>1, <1>4, VmFacts, FaultsStay DEF WorkFrame
  <2>2. "cancelled" \in All!Outcome /\ "cancelled" # "built"
    BY DEF All!Outcome
  <2> QED
    BY <1>2, <1>4, <2>1, <2>2, ComesToResult
<1>5. CASE All!Finish(t, "failed") /\ UNCHANGED vm
  <2>1. WorkFrame(t)
    BY <1>1, <1>2, <1>5, FaultsStay DEF WorkFrame
  <2>2. "failed" \in All!Outcome
    BY DEF All!Outcome
  <2> QED
    BY <1>2, <1>5, <2>1, <2>2, ComesToResult
<1> QED
  BY <1>3, <1>4, <1>5 DEF All!Wait

LEMMA VerdictHolds == ASSUME RunInv, NEW t \in All!Tile, All!Verdict(t) PROVE RunInv'
<1>1. /\ tile[t] = "verdict" /\ queue' = queue /\ run' = run /\ ctx' = ctx /\ runs' = runs /\ tileFaults' = tileFaults
      /\ shown' = shown /\ gone' = gone /\ destroy' = destroy /\ vm' = vm
  BY DEF All!Verdict, All!destroyVars
<1>2. vm \in [All!Tile -> VmRec] /\ tile[t] \in Busy /\ WorkFrame(t)
  BY <1>1, FaultsStay DEF RunInv, RunTypes, Busy, WorkFrame
<1>3. CASE vm[t].recipe = "ok" /\ All!Go(t, "enrol") /\ UNCHANGED <<count, bar>>
  <2>1. "enrol" \in Busy \ {"build"} /\ vm'[t].recipe \in {"ok", "none"}
    BY <1>1, <1>3 DEF Busy
  <2> QED
    BY <1>2, <1>3, <2>1, Passes
<1>4. CASE All!Finish(t, "failed")
  <2>1. "failed" \in All!Outcome
    BY DEF All!Outcome
  <2> QED
    BY <1>2, <1>4, <2>1, ComesToResult
<1> QED
  BY <1>3, <1>4 DEF All!Verdict

LEMMA EnrolTileHolds == ASSUME RunInv, NEW t \in All!Tile, All!EnrolTile(t) PROVE RunInv'
<1>1. /\ tile[t] = "enrol" /\ queue' = queue /\ run' = run /\ ctx' = ctx /\ runs' = runs /\ tileFaults' = tileFaults
      /\ shown' = shown /\ gone' = gone /\ destroy' = destroy /\ vm' = vm
  BY DEF All!EnrolTile, All!destroyVars
<1>2. vm \in [All!Tile -> VmRec] /\ tile[t] \in Busy /\ WorkFrame(t) /\ vm'[t].recipe \in {"ok", "none"}
  BY <1>1, FaultsStay DEF RunInv, RunTypes, Vms, Busy, WorkFrame
<1>3. CASE All!Finish(t, "built")
  <2>1. "built" \in All!Outcome
    BY DEF All!Outcome
  <2> QED
    BY <1>2, <1>3, <2>1, ComesToResult
<1>4. CASE All!Go(t, "off") /\ UNCHANGED <<count, bar>>
  <2>1. "off" \in Busy \ {"build"}
    BY DEF Busy
  <2> QED
    BY <1>2, <1>4, <2>1, Passes
<1> QED
  BY <1>3, <1>4 DEF All!EnrolTile

LEMMA PowerOffHolds == ASSUME RunInv, NEW t \in All!Tile, All!PowerOff(t) PROVE RunInv'
<1>1. /\ tile[t] = "off" /\ queue' = queue /\ run' = run /\ ctx' = ctx /\ runs' = runs
      /\ shown' = shown /\ gone' = gone /\ destroy' = destroy /\ All!Finish(t, "built")
  BY DEF All!PowerOff, All!destroyVars
<1>2. vm \in [All!Tile -> VmRec] /\ tile[t] \in Busy /\ vm[t].recipe \in {"ok", "none"} /\ vm[t] \in VmRec
  BY <1>1 DEF RunInv, RunTypes, Vms, Busy
<1>3. "built" \in All!Outcome /\ "built" # "cancelled"
  BY DEF All!Outcome
<1>4. CASE UNCHANGED vm /\ All!Fault
  <2>1. WorkFrame(t)
    BY <1>1, <1>2, <1>4, FaultsStay DEF WorkFrame
  <2> QED
    BY <1>1, <1>2, <1>3, <1>4, <2>1, ComesToResult
<1>5. CASE /\ vm' = [vm EXCEPT ![t] = IF @.st = "none" THEN @ ELSE [@ EXCEPT !.st = "off", !.answers = FALSE]]
           /\ All!NoFault
  <2> DEFINE r == IF vm[t].st = "none" THEN vm[t] ELSE [vm[t] EXCEPT !.st = "off", !.answers = FALSE]
  <2>1. r \in VmRec /\ r.recipe = vm[t].recipe
    BY <1>2 DEF VmRec
  <2>2. vm' = [vm EXCEPT ![t] = r]
    BY <1>5
  <2> HIDE DEF r
  <2>3. WorkFrame(t) /\ vm'[t].recipe \in {"ok", "none"}
    BY <1>1, <1>2, <1>5, <2>1, <2>2, VmFacts, FaultsStay DEF WorkFrame, All!NoFault
  <2> QED
    BY <1>1, <1>2, <1>3, <2>3, ComesToResult
<1> QED
  BY <1>4, <1>5 DEF All!PowerOff

LEMMA StartTileHolds == ASSUME RunInv, NEW t \in All!Tile, All!StartTile(t) PROVE RunInv'
<1>1. /\ tile[t] = "taken" /\ queue' = queue /\ run' = run /\ ctx' = ctx /\ runs' = runs /\ tileFaults' = tileFaults
      /\ shown' = shown /\ gone' = gone /\ destroy' = destroy /\ vm' = vm
  BY DEF All!StartTile, All!destroyVars
<1>2. tile[t] \in All!Working /\ tile[t] \notin Busy /\ \A r \in All!Outcome : tile[t] \notin {r}
  BY <1>1 DEF All!Working, Busy, All!Outcome
<1>3. WorkFrame(t) /\ vm'[t].st = "none"
  <2>1. run = "on"
    BY <1>2, AtWork
  <2> QED
    BY <1>1, <2>1, FaultsStay DEF RunInv, RunTypes, Vms, WorkFrame
<1>4. count \in CountRec /\ bar \in Nat /\ Sums
  BY DEF RunInv, RunTypes
<1>5. /\ count.todo = Cardinality(queue) + Cardinality(In(All!Working)) + count.built + count.failed + count.cancelled
      /\ count.finished <= count.built + count.failed + count.cancelled
      /\ Cardinality(In(All!Working)) <= Workers
      /\ count.started = count.finished + Cardinality(In(Busy))
      /\ bar <= count.finished \/ bar < count.started
  BY <1>4 DEF Sums
<1>6. CASE ctx
  <2>1. All!Go(t, "cancelled") /\ count' = [count EXCEPT !.cancelled = count.cancelled + 1] /\ bar' = bar
    BY <1>6 DEF All!StartTile
  <2>2. /\ count' \in CountRec /\ count'.started = count.started /\ count'.finished = count.finished /\ count'.todo = count.todo
        /\ count'.built = count.built /\ count'.failed = count.failed /\ count'.cancelled = count.cancelled + 1
    BY <1>4, <2>1 DEF CountRec
  <2>3. "cancelled" \in Busy \cup All!Outcome /\ "cancelled" \notin All!Working /\ "cancelled" \notin Busy
        /\ "cancelled" \notin {"enrol", "off", "built"}
    BY DEF All!Working, Busy, All!Outcome
  <2>4. RunTypes' /\ NoRunNoWork' /\ Vms' /\ Dialog'
    BY <1>2, <1>3, <1>4, <2>1, <2>2, <2>3, WorkKeeps
  <2>5. /\ Cardinality(In(All!Working)') = Cardinality(In(All!Working)) - 1 /\ In(Busy)' = In(Busy)
        /\ \A r \in All!Outcome : Cardinality(In({r})') =
              IF r = "cancelled" THEN Cardinality(In({r})) + 1 ELSE Cardinality(In({r}))
    <3>1. \A r \in All!Outcome : "cancelled" \in {r} <=> r = "cancelled"
      OBVIOUS
    <3> QED
      BY <1>2, <2>1, <2>3, <3>1, TileMoves, ThenIs DEF RunInv
  <2>6. Sums'
    <3>1. \A r \in All!Outcome : count'[r] = Cardinality(In({r})')
      BY <1>4, <2>2, <2>5 DEF Sums, All!Outcome
    <3>2. count'.todo = Cardinality(queue') + Cardinality(In(All!Working)') + count'.built + count'.failed + count'.cancelled
      BY <1>1, <1>5, <2>2, <2>5, SumsAre
    <3>3. count'.started = count'.finished + Cardinality(In(Busy)')
      BY <1>5, <2>2, <2>5
    <3>4. count'.finished <= count'.built + count'.failed + count'.cancelled
      BY <1>5, <2>2, SumsAre
    <3>5. Cardinality(In(All!Working)') <= Workers
      BY <1>5, <2>5, SumsAre, RunFacts
    <3>6. bar' <= count'.finished \/ bar' < count'.started
      BY <1>5, <2>1, <2>2
    <3> QED
      BY <3>1, <3>2, <3>3, <3>4, <3>5, <3>6 DEF Sums, All!Outcome
  <2> QED
    BY <2>4, <2>6 DEF RunInv
<1>7. CASE ~ctx
  <2>1. All!Go(t, "build") /\ count' = [count EXCEPT !.started = count.started + 1] /\ bar' = count.started
    BY <1>7 DEF All!StartTile
  <2>2. /\ count' \in CountRec /\ count'.started = count.started + 1 /\ count'.finished = count.finished
        /\ count'.todo = count.todo
        /\ count'.built = count.built /\ count'.failed = count.failed /\ count'.cancelled = count.cancelled
    BY <1>4, <2>1 DEF CountRec
  <2>3. "build" \in Busy \cup All!Outcome /\ "build" \in All!Working /\ "build" \in Busy
        /\ "build" \notin {"enrol", "off", "built"} /\ \A r \in All!Outcome : "build" \notin {r}
    BY DEF All!Working, Busy, All!Outcome
  <2>4. RunTypes' /\ NoRunNoWork' /\ Vms' /\ Dialog'
    <3>1. bar' \in Nat
      BY <2>1, SumsAre
    <3> QED
      BY <1>2, <1>3, <2>1, <2>2, <2>3, <3>1, WorkKeeps
  <2>5. /\ In(All!Working)' = In(All!Working) /\ Cardinality(In(Busy)') = Cardinality(In(Busy)) + 1
        /\ \A r \in All!Outcome : In({r})' = In({r})
    BY <1>2, <2>1, <2>3, TileMoves, ThenIs DEF RunInv
  <2>6. Sums'
    <3>1. \A r \in All!Outcome : count'[r] = Cardinality(In({r})')
      BY <1>4, <2>2, <2>5 DEF Sums, All!Outcome
    <3>2. count'.todo = Cardinality(queue') + Cardinality(In(All!Working)') + count'.built + count'.failed + count'.cancelled
      BY <1>1, <1>5, <2>2, <2>5
    <3>3. count'.started = count'.finished + Cardinality(In(Busy)')
      BY <1>5, <2>2, <2>5, SumsAre
    <3>4. count'.finished <= count'.built + count'.failed + count'.cancelled
      BY <1>5, <2>2
    <3>5. Cardinality(In(All!Working)') <= Workers
      BY <1>5, <2>5
    <3>6. bar' < count'.started
      BY <2>1, <2>2, SumsAre
    <3> QED
      BY <3>1, <3>2, <3>3, <3>4, <3>5, <3>6 DEF Sums, All!Outcome
  <2> QED
    BY <2>4, <2>6 DEF RunInv
<1> QED
  BY <1>6, <1>7

LEMMA TakeHolds == ASSUME RunInv, All!Take PROVE RunInv'
<1>1. PICK i \in DOMAIN Tiles : Tiles[i] \in queue /\ queue' = queue \ {Tiles[i]} /\ All!Go(Tiles[i], "taken")
  BY DEF All!Take
<1> DEFINE t == Tiles[i]
<1>2. /\ vm' = vm /\ run' = run /\ ctx' = ctx /\ runs' = runs /\ tileFaults' = tileFaults /\ count' = count /\ bar' = bar
      /\ shown' = shown /\ gone' = gone /\ destroy' = destroy /\ Cardinality(In(All!Working)) < Workers
  <2>1. Cardinality(In(All!Working)) < Workers
    <3>1. In(All!Working) = {u \in All!Tile : tile[u] \in All!Working}
      BY DEF In
    <3>2. All!Cardinality({u \in All!Tile : tile[u] \in All!Working}) < Workers
      BY Zenon DEF All!Take
    <3> QED
      BY <3>1, <3>2, SameCount
  <2> QED
    BY <2>1 DEF All!Take, All!destroyVars
<1>3. t \in queue /\ queue' = queue \ {t} /\ All!Go(t, "taken") /\ queue \in SUBSET All!Tile
  BY <1>1 DEF RunInv, RunTypes
<1> HIDE DEF t
<1>4. t \in All!Tile /\ tile[t] = "idle" /\ run = "on" /\ destroy = "idle" /\ vm[t].st = "none"
  BY <1>3 DEF RunInv, RunTypes, NoRunNoWork, Vms
<1>5. /\ "taken" \in All!Working /\ "taken" \notin Busy /\ "taken" \notin All!Outcome
      /\ "idle" \notin All!Working /\ "idle" \notin Busy /\ "idle" \notin All!Outcome
  BY DEF All!Working, Busy, All!Outcome
<1>6. /\ tile' \in [All!Tile -> {"idle"} \cup All!Working \cup All!Outcome]
      /\ tile'[t] = "taken" /\ \A u \in All!Tile \ {t} : tile'[u] = tile[u]
  BY <1>3, <1>4, <1>5 DEF All!Go, RunInv, RunTypes
<1>7. RunTypes'
  BY <1>2, <1>3, <1>6 DEF RunInv, RunTypes, All!Tile
<1>8. NoRunNoWork'
  <2>1. \A u \in queue' : tile'[u] = "idle"
    BY <1>3, <1>6 DEF RunInv, NoRunNoWork
  <2> QED
    BY <1>2, <1>4, <2>1 DEF NoRunNoWork
<1>9. Vms'
  <2> SUFFICES ASSUME NEW u \in All!Tile
               PROVE  /\ run' = "on" /\ (u \in queue' \/ tile'[u] \in {"taken", "build", "cancelled"}) => vm'[u].st = "none"
                      /\ tile'[u] \in {"enrol", "off", "built"} => vm'[u].recipe \in {"ok", "none"}
    BY DEF Vms, All!Tile
  <2>1. CASE u = t
    BY <1>2, <1>4, <1>6, <2>1
  <2>2. CASE u # t
    BY <1>2, <1>3, <1>6, <2>2 DEF RunInv, Vms
  <2> QED
    BY <2>1, <2>2
<1>10. Dialog'
  BY <1>2, <1>4 DEF Dialog
<1>11. Sums'
  <2>1. Cardinality(In(All!Working)') = Cardinality(In(All!Working)) + 1 /\ In(Busy)' = In(Busy)
        /\ \A r \in All!Outcome : In({r})' = In({r})
    BY <1>3, <1>4, <1>5, TileMoves, ThenIs DEF RunInv
  <2>2. Cardinality(queue') = Cardinality(queue) - 1
    BY <1>3, SizeOf, FS_RemoveElement
  <2>3. /\ count.todo = Cardinality(queue) + Cardinality(In(All!Working)) + count.built + count.failed + count.cancelled
    BY DEF RunInv, Sums
  <2>4. count'.todo = Cardinality(queue') + Cardinality(In(All!Working)') + count'.built + count'.failed + count'.cancelled
    BY <1>2, <2>1, <2>2, <2>3, SumsAre
  <2>5. Cardinality(In(All!Working)') <= Workers
    BY <1>2, <2>1, SumsAre, RunFacts
  <2> QED
    BY <1>2, <2>1, <2>4, <2>5 DEF RunInv, Sums, All!Outcome
<1> QED
  BY <1>7, <1>8, <1>9, <1>10, <1>11 DEF RunInv

LEMMA StartRunHolds == ASSUME RunInv, All!StartRun PROVE RunInv'
<1>1. /\ run = "idle" /\ destroy = "idle" /\ runs' = runs + 1 /\ runs < MaxTimes
      /\ queue' = All!Tile \ All!Exists /\ (run' = "on" \/ (run' = "idle" /\ queue' = {}))
      /\ ctx' = FALSE /\ count' = [All!Zero EXCEPT !.todo = Cardinality(queue')] /\ bar' = 0
      /\ tile' = [t \in All!Tile |-> "idle"]
      /\ vm' = vm /\ shown' = shown /\ gone' = gone /\ destroy' = destroy /\ tileFaults' = tileFaults
  <2>1. /\ run = "idle" /\ destroy = "idle" /\ runs' = runs + 1 /\ runs < MaxTimes
        /\ queue' = All!Tile \ All!Exists /\ ctx' = FALSE /\ bar' = 0
        /\ tile' = [t \in All!Tile |-> "idle"]
        /\ vm' = vm /\ shown' = shown /\ gone' = gone /\ destroy' = destroy /\ tileFaults' = tileFaults
    BY DEF All!StartRun, All!Todo, All!destroyVars
  <2>2. run' = IF All!Todo = {} THEN "idle" ELSE "on"
    BY DEF All!StartRun
  <2>3. count' = [All!Zero EXCEPT !.todo = Cardinality(All!Todo)] /\ queue' = All!Todo
    BY SameCount DEF All!StartRun
  <2> QED
    BY <2>1, <2>2, <2>3
<1>2. queue' \in SUBSET All!Tile /\ Cardinality(queue') \in Nat
  BY <1>1, SizeOf
<1>3. /\ count' \in CountRec /\ count'.todo = Cardinality(queue') /\ count'.started = 0 /\ count'.finished = 0
      /\ count'.built = 0 /\ count'.failed = 0 /\ count'.cancelled = 0
  BY <1>1, <1>2 DEF All!Zero, CountRec
<1>4. "idle" \notin All!Working /\ "idle" \notin Busy /\ "idle" \notin All!Outcome
  BY DEF All!Working, Busy, All!Outcome
<1>5. In(All!Working)' = {} /\ In(Busy)' = {} /\ \A r \in All!Outcome : In({r})' = {}
  BY <1>1, <1>4, ThenIs DEF Then
<1>6. RunTypes'
  <2>1. runs' \in 0..MaxTimes
    BY <1>1, RunFacts DEF RunInv, RunTypes
  <2> QED
    BY <1>1, <1>2, <1>3, <2>1 DEF RunInv, RunTypes, All!Tile
<1>7. NoRunNoWork'
  BY <1>1, <1>2, <1>5 DEF NoRunNoWork
<1>8. Vms'
  BY <1>1 DEF Vms, All!Exists, All!Tile
<1>9. Dialog'
  BY <1>1 DEF Dialog
<1>10. Sums'
  <2>1. Cardinality({}) = 0
    BY FS_EmptySet
  <2>2. \A r \in All!Outcome : count'[r] = 0
    BY <1>3 DEF All!Outcome
  <2>3. \A r \in All!Outcome : count'[r] = Cardinality(In({r})')
    BY <1>5, <2>1, <2>2
  <2>4. count'.todo = Cardinality(queue') + Cardinality(In(All!Working)') + count'.built + count'.failed + count'.cancelled
    BY <1>2, <1>3, <1>5, <2>1
  <2>5. /\ count'.started = count'.finished + Cardinality(In(Busy)')
        /\ count'.finished <= count'.built + count'.failed + count'.cancelled
        /\ Cardinality(In(All!Working)') <= Workers
        /\ bar' <= count'.finished
    BY <1>1, <1>3, <1>5, <2>1, RunFacts
  <2> QED
    BY <2>3, <2>4, <2>5 DEF Sums, All!Outcome
<1> QED
  BY <1>6, <1>7, <1>8, <1>9, <1>10 DEF RunInv

\* What moves neither tiles nor sums.
LEMMA SumsStay ==
  ASSUME RunInv, tile' = tile, queue' = queue, count' = count, bar' = bar PROVE Sums'
  BY DEF RunInv, Sums, In, All!Tile, All!Working, All!Outcome

LEMMA RunEdges == ASSUME RunInv, All!Cancel \/ All!EndRun PROVE RunInv'
<1>1. /\ vm' = vm /\ tile' = tile /\ queue' = queue /\ count' = count /\ bar' = bar /\ runs' = runs /\ tileFaults' = tileFaults
      /\ shown' = shown /\ gone' = gone /\ destroy' = destroy /\ run = "on"
      /\ \/ run' = run /\ ctx' = TRUE
         \/ run' = "idle" /\ ctx' = ctx /\ queue = {} /\ \A t \in All!Tile : tile[t] \notin All!Working
  <2>1. CASE All!Cancel
    BY <2>1 DEF All!Cancel, All!destroyVars
  <2>2. CASE All!EndRun
    BY <2>2 DEF All!EndRun, All!destroyVars
  <2> QED
    BY <2>1, <2>2
<1>2. RunTypes'
  BY <1>1 DEF RunInv, RunTypes, All!Tile
<1>3. NoRunNoWork' /\ Dialog'
  BY <1>1 DEF RunInv, NoRunNoWork, Dialog, In
<1>4. Vms'
  BY <1>1 DEF RunInv, Vms, All!Tile
<1> QED
  BY <1>1, <1>2, <1>3, <1>4, SumsStay DEF RunInv

\* The guest of a tile goes on by itself.
LEMMA GuestMoves ==
  ASSUME RunInv, NEW t \in All!Tile, All!Answers(t) \/ All!RecipeEnds(t) PROVE RunInv'
<1>1. /\ vm[t].st = "on" /\ tile' = tile /\ queue' = queue /\ run' = run /\ ctx' = ctx /\ count' = count /\ bar' = bar
      /\ runs' = runs /\ shown' = shown /\ gone' = gone /\ destroy' = destroy /\ tileFaults' = tileFaults
  BY DEF All!Answers, All!RecipeEnds, All!runVars, All!destroyVars
<1>2. vm[t] \in VmRec /\ vm \in [All!Tile -> VmRec]
  BY VmFacts DEF RunInv, RunTypes
<1>3. PICK r \in VmRec : /\ vm' = [vm EXCEPT ![t] = r] /\ r.st = "on"
                        /\ (r.recipe = vm[t].recipe \/ vm[t].recipe = "runs")
  <2>1. CASE All!Answers(t)
    <3> DEFINE r == [vm[t] EXCEPT !.answers = TRUE]
    <3>1. r \in VmRec /\ r.st = "on" /\ r.recipe = vm[t].recipe
      BY <1>1, <1>2 DEF VmRec
    <3>2. vm' = [vm EXCEPT ![t] = r]
      BY <2>1 DEF All!Answers
    <3> QED
      BY <3>1, <3>2
  <2>2. CASE All!RecipeEnds(t)
    <3>1. PICK x \in {"ok", "bad"} : vm' = [vm EXCEPT ![t].recipe = x]
      BY <2>2 DEF All!RecipeEnds
    <3> DEFINE r == [vm[t] EXCEPT !.recipe = x]
    <3>2. r \in VmRec /\ r.st = "on"
      BY <1>1, <1>2 DEF VmRec
    <3>3. vm' = [vm EXCEPT ![t] = r] /\ vm[t].recipe = "runs"
      BY <2>2, <3>1 DEF All!RecipeEnds
    <3> QED
      BY <3>2, <3>3
  <2> QED
    BY <2>1, <2>2
<1>4. /\ vm' \in [All!Tile -> VmRec] /\ vm'[t] = r /\ \A u \in All!Tile \ {t} : vm'[u] = vm[u]
  BY <1>3, VmFacts
<1>5. RunTypes'
  BY <1>1, <1>4 DEF RunInv, RunTypes, All!Tile
<1>6. NoRunNoWork'
  BY <1>1 DEF RunInv, NoRunNoWork, In, All!Tile, All!Working
<1>7. Vms'
  <2> SUFFICES ASSUME NEW u \in All!Tile
               PROVE  /\ run' = "on" /\ (u \in queue' \/ tile'[u] \in {"taken", "build", "cancelled"}) => vm'[u].st = "none"
                      /\ tile'[u] \in {"enrol", "off", "built"} => vm'[u].recipe \in {"ok", "none"}
    BY DEF Vms, All!Tile
  <2>1. CASE u = t
    BY <1>1, <1>3, <1>4, <2>1 DEF RunInv, Vms
  <2>2. CASE u # t
    BY <1>1, <1>4, <2>2 DEF RunInv, Vms
  <2> QED
    BY <2>1, <2>2
<1>8. Dialog'
  <2>1. \A u \in All!Tile : vm'[u].st = "none" <=> vm[u].st = "none"
    BY <1>1, <1>3, <1>4
  <2>2. All!Exists' = All!Exists
    BY <2>1 DEF All!Exists, All!Tile
  <2> QED
    BY <1>1, <2>2 DEF RunInv, Dialog
<1> QED
  BY <1>1, <1>5, <1>6, <1>7, <1>8, SumsStay DEF RunInv

\* The dialog of destroy-all, which is open only while no run is on.
LEMMA DialogMoves ==
  ASSUME RunInv, All!Ask \/ All!Decline \/ All!Confirm PROVE RunInv'
<1>1. /\ vm' = vm /\ tile' = tile /\ queue' = queue /\ run' = run /\ ctx' = ctx /\ count' = count /\ bar' = bar
      /\ runs' = runs /\ tileFaults' = tileFaults /\ run = "idle"
      /\ \/ shown' = All!Exists /\ gone' = {} /\ destroy' = "ask"
         \/ shown' = {} /\ gone' = gone /\ destroy' = "idle"
         \/ shown' = shown /\ gone' = All!Exists /\ destroy' = "on" /\ destroy = "ask"
  <2>1. CASE All!Ask
    BY <2>1 DEF All!Ask, All!runVars
  <2>2. CASE All!Decline
    BY <2>2 DEF All!Decline, All!runVars, RunInv, NoRunNoWork
  <2>3. CASE All!Confirm
    BY <2>3 DEF All!Confirm, All!runVars, RunInv, NoRunNoWork
  <2> QED
    BY <2>1, <2>2, <2>3
<1>2. All!Exists \subseteq All!Tile
  BY DEF All!Exists
<1>3. RunTypes'
  BY <1>1, <1>2 DEF RunInv, RunTypes, All!Tile
<1>4. NoRunNoWork'
  BY <1>1 DEF RunInv, NoRunNoWork, In, All!Tile, All!Working
<1>5. Vms'
  BY <1>1 DEF RunInv, Vms, All!Tile
<1>6. Dialog'
  <2>1. All!Exists' = All!Exists
    BY <1>1 DEF All!Exists, All!Tile
  <2> QED
    BY <1>1, <2>1 DEF RunInv, Dialog
<1> QED
  BY <1>1, <1>3, <1>4, <1>5, <1>6, SumsStay DEF RunInv

LEMMA DestroyHolds == ASSUME RunInv, All!Destroy PROVE RunInv'
<1>1. /\ tile' = tile /\ queue' = queue /\ run' = run /\ ctx' = ctx /\ count' = count /\ bar' = bar
      /\ runs' = runs /\ tileFaults' = tileFaults /\ run = "idle" /\ shown' = shown /\ gone' = gone /\ destroy' = "idle"
      /\ vm' = [t \in All!Tile |-> IF t \in gone THEN All!NoVM ELSE vm[t]]
  BY DEF All!Destroy, All!runVars, RunInv, NoRunNoWork
<1>2. vm \in [All!Tile -> VmRec] /\ All!NoVM \in VmRec /\ All!NoVM.recipe = "none"
  BY DEF RunInv, RunTypes, VmRec, All!NoVM
<1>3. RunTypes'
  <2>1. vm' \in [All!Tile -> VmRec]
    BY <1>1, <1>2
  <2> QED
    BY <1>1, <2>1 DEF RunInv, RunTypes, All!Tile
<1>4. NoRunNoWork' /\ Dialog'
  BY <1>1 DEF RunInv, NoRunNoWork, In, All!Tile, All!Working, Dialog
<1>5. Vms'
  BY <1>1, <1>2 DEF RunInv, Vms, All!Tile
<1> QED
  BY <1>1, <1>3, <1>4, <1>5, SumsStay DEF RunInv

LEMMA RunInitHolds == All!Init => RunInv
<1> SUFFICES ASSUME All!Init PROVE RunInv
  OBVIOUS
<1>1. /\ tile = [t \in All!Tile |-> "idle"] /\ queue = {} /\ run = "idle" /\ ctx = FALSE /\ count = All!Zero /\ bar = 0
      /\ shown = {} /\ gone = {} /\ destroy = "idle" /\ runs = 0 /\ tileFaults = 0
  BY DEF All!Init
<1>2. "idle" \notin All!Working /\ "idle" \notin Busy /\ "idle" \notin All!Outcome
  BY DEF All!Working, Busy, All!Outcome
<1>3. In(All!Working) = {} /\ In(Busy) = {} /\ \A r \in All!Outcome : In({r}) = {}
  BY <1>1, <1>2 DEF In
<1>4. /\ count \in CountRec /\ count.todo = 0 /\ count.started = 0 /\ count.finished = 0 /\ count.built = 0
      /\ count.failed = 0 /\ count.cancelled = 0 /\ \A r \in All!Outcome : count[r] = 0
  BY <1>1 DEF All!Zero, CountRec, All!Outcome
<1>5. RunTypes
  <2>1. vm \in [All!Tile -> VmRec]
    <3>1. PICK old \in SUBSET All!Tile :
            vm = [t \in All!Tile |-> IF t \in old THEN [st |-> "off", answers |-> FALSE, recipe |-> "ok"] ELSE All!NoVM]
      BY DEF All!Init
    <3> QED
      BY <3>1 DEF VmRec, All!NoVM
  <2>2. runs \in 0..MaxTimes /\ tileFaults \in 0..MaxOther
    BY <1>1, RunFacts
  <2> QED
    BY <1>1, <1>4, <2>1, <2>2 DEF RunTypes
<1>6. NoRunNoWork /\ Vms /\ Dialog
  BY <1>1, <1>3 DEF NoRunNoWork, Vms, Dialog
<1>7. Sums
  <2>1. Cardinality({}) = 0
    BY FS_EmptySet
  <2> QED
    BY <1>1, <1>3, <1>4, <2>1, RunFacts DEF Sums
<1> QED
  BY <1>5, <1>6, <1>7 DEF RunInv

LEMMA RunInductive == RunInv /\ [All!Next]_tileVars => RunInv'
<1> SUFFICES ASSUME RunInv, [All!Next]_tileVars PROVE RunInv'
  OBVIOUS
<1>1. ASSUME NEW t \in All!Tile, All!Step(t) PROVE RunInv'
  BY <1>1, StartTileHolds, BuildTileHolds, WaitHolds, VerdictHolds, EnrolTileHolds, PowerOffHolds DEF All!Step
<1>2. CASE UNCHANGED tileVars
  BY <1>2 DEF tileVars, RunInv, RunTypes, NoRunNoWork, Vms, Sums, Dialog, In, All!Tile, All!Working, All!Outcome, All!Exists
<1>3. CASE All!Next
  BY <1>1, <1>3, StartRunHolds, RunEdges, TakeHolds, GuestMoves, DialogMoves, DestroyHolds DEF All!Next
<1> QED
  BY <1>2, <1>3

\* What is claimed of it.
LEMMA RunIsSound ==
  ASSUME RunInv PROVE All!TypeOK /\ All!Accounted /\ All!BuiltIsVerified /\ All!CancelledIsGone
<1>1. /\ count.todo = Cardinality(queue) + Cardinality(In(All!Working)) + count.built + count.failed + count.cancelled
      /\ count.finished <= count.built + count.failed + count.cancelled
      /\ count.started = count.finished + Cardinality(In(Busy))
      /\ bar <= count.finished \/ bar < count.started
      /\ \A r \in All!Outcome : count[r] = Cardinality(In({r}))
  BY DEF RunInv, Sums
<1>2. Cardinality(In(Busy)) <= Cardinality(In(All!Working))
  <2>1. In(Busy) \in SUBSET In(All!Working) /\ In(All!Working) \in SUBSET All!Tile
    BY DEF In, Busy, All!Working
  <2> QED
    BY <2>1, SizeOf, FS_Subset
<1>3. count.started <= count.todo /\ count.finished <= count.started /\ bar \in 0..count.todo
  <2> DEFINE s == count.built + count.failed + count.cancelled
  <2>1. s \in Nat /\ count.finished <= s /\ count.todo = Cardinality(queue) + Cardinality(In(All!Working)) + s
    BY <1>1, SumsAre
  <2> HIDE DEF s
  <2> QED
    BY <1>1, <1>2, <2>1, SumsAre
<1>4. All!TypeOK
  BY <1>3 DEF RunInv, RunTypes, VmRec, All!TypeOK
<1>5. All!Accounted
  <2> SUFFICES ASSUME run = "idle"
               PROVE  /\ count.built + count.failed + count.cancelled = count.todo
                      /\ \A r \in All!Outcome : count[r] = Cardinality({t \in All!Tile : tile[t] = r})
    BY SameCount DEF All!Accounted
  <2>1. queue = {} /\ In(All!Working) = {} /\ Cardinality({}) = 0
    BY FS_EmptySet DEF RunInv, NoRunNoWork
  <2>2. \A r \in All!Outcome : In({r}) = {t \in All!Tile : tile[t] = r}
    BY DEF In
  <2>3. \A r \in All!Outcome : count[r] = Cardinality({t \in All!Tile : tile[t] = r})
    BY <1>1, <2>2
  <2>4. count.todo = 0 + 0 + count.built + count.failed + count.cancelled
    BY <1>1, <2>1
  <2>5. count.built + count.failed + count.cancelled = count.todo
    BY <2>4, SumsAre
  <2> QED
    BY <2>3, <2>5
<1>6. All!BuiltIsVerified /\ All!CancelledIsGone
  BY DEF RunInv, Vms, All!BuiltIsVerified, All!CancelledIsGone
<1> QED
  BY <1>4, <1>5, <1>6
-----------------------------------------------------------------------------
(* Build all and destroy all: what its steps never do.                     *)

\* A busy tile is one of few: with two workers the tile that is finished next is
\* the next or the one after it.
LEMMA BarIsClose ==
  ASSUME RunInv, Workers <= 2 PROVE bar <= count.finished + 1 /\ bar <= count.started
<1>1. /\ count.started = count.finished + Cardinality(In(Busy)) /\ Cardinality(In(All!Working)) <= Workers
      /\ bar <= count.finished \/ bar < count.started
  BY DEF RunInv, Sums
<1>2. Cardinality(In(Busy)) <= Cardinality(In(All!Working)) /\ Cardinality(In(Busy)) \in Nat /\ Cardinality(In(All!Working)) \in Nat
  <2>1. In(Busy) \in SUBSET In(All!Working) /\ In(All!Working) \in SUBSET All!Tile /\ In(Busy) \in SUBSET All!Tile
    BY DEF In, Busy, All!Working
  <2> QED
    BY <2>1, SizeOf, FS_Subset
<1>3. Cardinality(In(Busy)) <= 2
  BY <1>1, <1>2, RunFacts
<1> QED
  BY <1>1, <1>2, <1>3, SumsAre

LEMMA BarRises ==
  ASSUME RunInv, [All!Next]_tileVars, run = "on", run' = "on", Workers <= 2 PROVE bar' >= bar
<1>1. bar <= count.finished + 1 /\ bar <= count.started /\ bar \in Nat /\ count \in CountRec
  BY BarIsClose DEF RunInv, RunTypes
<1>2. count.finished \in Nat /\ count.started \in Nat
  BY <1>1 DEF CountRec
<1>3. ASSUME NEW t \in All!Tile, NEW res \in All!Outcome, All!Finish(t, res) PROVE bar' >= bar
  <2>1. count'.finished = count.finished + 1
    BY <1>1, <1>3 DEF All!Finish, CountRec, All!Outcome
  <2> QED
    BY <1>1, <1>2, <1>3, <2>1 DEF All!Finish
<1>4. ASSUME NEW t \in All!Tile, All!Step(t)
      PROVE  bar' = bar \/ bar' = count.started \/ \E res \in All!Outcome : All!Finish(t, res)
  BY <1>4 DEF All!Step, All!StartTile, All!BuildTile, All!Wait, All!Verdict, All!EnrolTile, All!PowerOff, All!Outcome
<1>5. \/ bar' = bar
      \/ \E t \in All!Tile : All!Step(t)
  BY DEF All!Next, All!StartRun, All!Cancel, All!Take, All!EndRun, All!Answers, All!RecipeEnds, All!Ask, All!Decline,
         All!Confirm, All!Destroy, All!runVars, tileVars
<1> QED
  BY <1>1, <1>2, <1>3, <1>4, <1>5

LEMMA NothingBegins ==
  ASSUME RunInv, [All!Next]_tileVars, NEW t \in All!Tile, ctx, tile'[t] = "build" PROVE tile[t] = "build"
<1>1. tile \in [All!Tile -> {"idle"} \cup All!Working \cup All!Outcome]
  BY DEF RunInv, RunTypes
<1> DEFINE Elsewhere == (All!Working \cup All!Outcome) \ {"build"}
<1>2. ASSUME NEW u \in All!Tile, NEW q \in Elsewhere, All!Go(u, q) PROVE tile[t] = "build"
  BY <1>1, <1>2 DEF All!Go
<1>3. ASSUME NEW u \in All!Tile, All!Step(u) PROVE \E q \in Elsewhere : All!Go(u, q)
  <2>1. CASE All!StartTile(u)
    BY <2>1 DEF All!StartTile, All!Outcome
  <2>2. CASE All!BuildTile(u)
    BY <2>2 DEF All!BuildTile, All!Finish, All!Outcome, All!Working
  <2>3. CASE All!Wait(u)
    BY <2>3 DEF All!Wait, All!Finish, All!Outcome, All!Working
  <2>4. CASE All!Verdict(u)
    BY <2>4 DEF All!Verdict, All!Finish, All!Outcome, All!Working
  <2>5. CASE All!EnrolTile(u)
    BY <2>5 DEF All!EnrolTile, All!Finish, All!Outcome, All!Working
  <2>6. CASE All!PowerOff(u)
    BY <2>6 DEF All!PowerOff, All!Finish, All!Outcome
  <2> QED
    BY <1>3, <2>1, <2>2, <2>3, <2>4, <2>5, <2>6 DEF All!Step
<1>4. ASSUME All!Take PROVE \E u \in All!Tile, q \in Elsewhere : All!Go(u, q)
  <2>1. queue \subseteq All!Tile
    BY DEF RunInv, RunTypes
  <2> QED
    BY <1>4, <2>1 DEF All!Take, All!Working
<1>5. CASE All!StartRun
  BY <1>5 DEF All!StartRun
<1>6. CASE tile' = tile
  BY <1>6
<1>7. \/ tile' = tile \/ All!StartRun \/ All!Take
      \/ \E u \in All!Tile : All!Step(u)
  BY DEF All!Next, All!Cancel, All!EndRun, All!Answers, All!RecipeEnds, All!Ask, All!Decline, All!Confirm, All!Destroy, tileVars
<1> HIDE DEF Elsewhere
<1> QED
  BY <1>2, <1>3, <1>4, <1>5, <1>6, <1>7

LEMMA DestroyLeavesNothing ==
  ASSUME RunInv, [All!Next]_tileVars, destroy = "on", destroy' = "idle", NEW t \in shown PROVE vm'[t].st = "none"
<1>1. run = "idle" /\ shown \subseteq gone /\ shown \subseteq All!Tile /\ queue = {} /\ In(All!Working) = {}
  BY DEF RunInv, NoRunNoWork, Dialog, RunTypes
<1>2. All!Destroy
  <2>1. ASSUME NEW u \in All!Tile, All!Step(u) PROVE destroy' = destroy
    BY <2>1 DEF All!Step, All!StartTile, All!BuildTile, All!Wait, All!Verdict, All!EnrolTile, All!PowerOff, All!destroyVars
  <2> QED
    BY <2>1 DEF All!Next, All!StartRun, All!Cancel, All!Take, All!EndRun, All!Answers, All!RecipeEnds, All!Ask, All!Decline,
                All!Confirm, All!destroyVars, tileVars
<1> QED
  BY <1>1, <1>2 DEF All!Destroy, All!NoVM

\* The part moves by its own steps.
LEMMA RunPart == [BuildingNext]_all => [All!Next]_tileVars
  BY DEF BuildingNext, all

\* Destroy-all leaves nothing of what its dialog showed, no tile is begun in a
\* cancelled run, and the bar of one or two workers does not go back: for any
\* catalogue, number of workers, runs and failures (DestroyAllAppliances,
\* BuildAllAppliances).
THEOREM DestroyedStaysGone == BuildingSpec => DestroyedIsGone
<1>1. BuildingInit => RunInv
  BY RunInitHolds DEF BuildingInit
<1>2. RunInv /\ [BuildingNext]_all => RunInv'
  BY RunPart, RunInductive
<1>3. RunInv /\ [BuildingNext]_all =>
        [destroy = "on" /\ destroy' = "idle" => \A t \in shown : vm'[t].st = "none"]_(All!vars)
  BY RunPart, DestroyLeavesNothing
<1>4. RunInv /\ [BuildingNext]_all =>
        [\A t \in All!Tile : ctx /\ tile'[t] = "build" => tile[t] = "build"]_(All!vars)
  BY RunPart, NothingBegins
<1>5. RunInv /\ [BuildingNext]_all => [run = "on" /\ run' = "on" /\ Workers <= 2 => bar' >= bar]_(All!vars)
  BY RunPart, BarRises
<1>6. BuildingSpec => All!DestroyedIsGone
  BY <1>1, <1>2, <1>3, PTL DEF BuildingSpec, All!DestroyedIsGone
<1>7. BuildingSpec => All!NothingStartsCancelled
  BY <1>1, <1>2, <1>4, PTL DEF BuildingSpec, All!NothingStartsCancelled
<1>8. BuildingSpec => All!BarNeverBack
  BY <1>1, <1>2, <1>5, PTL DEF BuildingSpec, All!BarNeverBack
<1> QED
  BY <1>6, <1>7, <1>8 DEF DestroyedIsGone

-----------------------------------------------------------------------------
(* The recipes of the tiles.                                               *)

StepKinds == {"pool", "data", "pkg", "optional", "serve", "more", "check", "mount", "summary", "free53", "answers", "die"}
Words == App!AllData \cup {"", "nginx", "fpm", "httpd", "soapy", "mediamtx", "session", "xrdp"}
StepRec == [do : StepKinds, of : Words]
Starters == {"pkg", "optional", "serve"}

Some(s, kind) == \E k \in 1..Len(s) : s[k].do = kind

\* A recipe has its datasets before what is kept in them, the pool before the
\* datasets, and checks before it sums up.
Tidy(s) ==
  /\ s \in Seq(StepRec)
  /\ \A i \in 1..Len(s) : s[i].do = "data" => s[i].of \in App!AllData
  /\ \A i \in 1..Len(s) : s[i].do = "data" => \E k \in 1..Len(s) : k < i /\ s[k].do = "pool"
  /\ \A i, j \in 1..Len(s) : s[i].do = "data" /\ s[j].do \in Starters /\ s[i].of = s[j].of => i < j
  /\ \A i \in 1..Len(s) : s[i].do = "summary" => \E k \in 1..Len(s) : k < i /\ s[k].do = "check"

LEMMA DoIs ==
  ASSUME NEW kind \in StepKinds, NEW names \in Seq(Words)
  PROVE  LET t == App!Do(kind, names)
         IN t \in Seq(StepRec) /\ Len(t) = Len(names) /\ \A i \in 1..Len(t) : t[i].do = kind /\ t[i].of = names[i]
<1> DEFINE t == App!Do(kind, names)
<1>1. PICK n \in Nat : n = Len(names)
  BY LenProperties
<1>2. \A i \in 1..n : names[i] \in Words
  BY <1>1, ElementOfSeq
<1>3. t = [i \in 1..n |-> [do |-> kind, of |-> names[i]]]
  BY <1>1 DEF App!Do
<1>4. t \in Seq(StepRec) /\ Len(t) = n
  <2>1. \A i \in 1..n : [do |-> kind, of |-> names[i]] \in StepRec
    BY <1>2 DEF StepRec
  <2> QED
    BY <1>3, <2>1, IsASeq
<1> QED
  BY <1>1, <1>3, <1>4

\* What a sequence of one kind is appended to.
LEMMA Cat ==
  ASSUME NEW s \in Seq(StepRec), NEW t \in Seq(StepRec)
  PROVE  /\ s \o t \in Seq(StepRec) /\ Len(s \o t) = Len(s) + Len(t) /\ Len(s) \in Nat /\ Len(t) \in Nat
         /\ \A i \in 1..Len(s) : (s \o t)[i] = s[i] /\ i \in 1..Len(s \o t)
         /\ \A i \in 1..Len(t) : (s \o t)[Len(s) + i] = t[i] /\ Len(s) + i \in 1..Len(s \o t)
         /\ \A i \in 1..Len(s \o t) : i \in 1..Len(s) \/ \E j \in 1..Len(t) : i = Len(s) + j
<1>1. PICK m \in Nat, n \in Nat : m = Len(s) /\ n = Len(t)
  BY LenProperties
<1>2. s \o t \in Seq(StepRec) /\ Len(s \o t) = m + n
  BY <1>1, ConcatProperties
<1>3. \A i \in 1..(m + n) : (s \o t)[i] = IF i <= m THEN s[i] ELSE t[i - m]
  BY <1>1, ConcatProperties
<1>4. \A i \in 1..m : (s \o t)[i] = s[i] /\ i \in 1..(m + n)
  <2> TAKE i \in 1..m
  <2>1. i \in 1..(m + n) /\ i <= m
    OBVIOUS
  <2> QED
    BY <1>3, <2>1
<1>5. \A i \in 1..n : (s \o t)[m + i] = t[i] /\ m + i \in 1..(m + n)
  <2> TAKE i \in 1..n
  <2>1. m + i \in 1..(m + n) /\ ~(m + i <= m) /\ (m + i) - m = i
    OBVIOUS
  <2> QED
    BY <1>3, <2>1
<1>6. \A i \in 1..(m + n) : i \in 1..m \/ \E j \in 1..n : i = m + j
  <2> TAKE i \in 1..(m + n)
  <2>1. CASE i <= m
    BY <2>1
  <2>2. CASE ~(i <= m)
    <3>1. i - m \in 1..n /\ i = m + (i - m)
      BY <2>2
    <3> QED
      BY <3>1
  <2> QED
    BY <2>1, <2>2
<1> QED
  BY <1>1, <1>2, <1>4, <1>5, <1>6

LEMMA SomeCat ==
  ASSUME NEW s \in Seq(StepRec), NEW t \in Seq(StepRec), NEW kind
  PROVE  Some(s \o t, kind) <=> Some(s, kind) \/ Some(t, kind)
<1> DEFINE c == s \o t
<1>1. /\ \A i \in 1..Len(s) : c[i] = s[i] /\ i \in 1..Len(c)
      /\ \A i \in 1..Len(t) : c[Len(s) + i] = t[i] /\ Len(s) + i \in 1..Len(c)
      /\ \A i \in 1..Len(c) : i \in 1..Len(s) \/ \E j \in 1..Len(t) : i = Len(s) + j
  BY Cat
<1> HIDE DEF c
<1>2. ASSUME NEW k \in 1..Len(s), s[k].do = kind PROVE \E i \in 1..Len(c) : c[i].do = kind
  BY <1>1, <1>2
<1>3. ASSUME NEW k \in 1..Len(t), t[k].do = kind PROVE \E i \in 1..Len(c) : c[i].do = kind
  <2>1. Len(s) + k \in 1..Len(c) /\ c[Len(s) + k].do = kind
    BY <1>1, <1>3
  <2> QED
    BY <2>1
<1>4. ASSUME NEW i \in 1..Len(c), c[i].do = kind
      PROVE  (\E k \in 1..Len(s) : s[k].do = kind) \/ (\E k \in 1..Len(t) : t[k].do = kind)
  <2>1. CASE i \in 1..Len(s)
    BY <1>1, <1>4, <2>1
  <2>2. CASE \E j \in 1..Len(t) : i = Len(s) + j
    BY <1>1, <1>4, <2>2
  <2> QED
    BY <1>1, <2>1, <2>2
<1> QED
  BY <1>2, <1>3, <1>4 DEF Some, c


\* A recipe goes on with what has its pool and its checks in the recipe or before
\* it, and no data of what the recipe already keeps.
LEMMA GoesOn ==
  ASSUME NEW s, Tidy(s), NEW t \in Seq(StepRec),
         \A j \in 1..Len(t) : t[j].do = "data" =>
           /\ Some(s, "pool") /\ t[j].of \in App!AllData
           /\ \A i \in 1..Len(s) : s[i].do \in Starters => s[i].of # t[j].of
           /\ \A k \in 1..Len(t) : t[k].do \notin Starters,
         \A j \in 1..Len(t) : t[j].do = "summary" =>
           Some(s, "check") \/ \E k \in 1..Len(t) : k < j /\ t[k].do = "check"
  PROVE  Tidy(s \o t)
<1> DEFINE c == s \o t
<1>0. s \in Seq(StepRec)
  BY DEF Tidy
<1>1. /\ c \in Seq(StepRec) /\ Len(c) = Len(s) + Len(t) /\ Len(s) \in Nat /\ Len(t) \in Nat
      /\ \A i \in 1..Len(s) : c[i] = s[i] /\ i \in 1..Len(c)
      /\ \A i \in 1..Len(t) : c[Len(s) + i] = t[i] /\ Len(s) + i \in 1..Len(c)
      /\ \A i \in 1..Len(c) : i \in 1..Len(s) \/ \E j \in 1..Len(t) : i = Len(s) + j
  BY <1>0, Cat
<1> HIDE DEF c
<1>5. \A i \in 1..Len(c) : c[i].do = "data" => c[i].of \in App!AllData
  <2> SUFFICES ASSUME NEW i \in 1..Len(c), c[i].do = "data" PROVE c[i].of \in App!AllData
    OBVIOUS
  <2>1. CASE i \in 1..Len(s)
    BY <1>1, <2>1 DEF Tidy
  <2>2. CASE \E j \in 1..Len(t) : i = Len(s) + j
    BY <1>1, <2>2
  <2> QED
    BY <1>1, <2>1, <2>2
<1>2. \A i \in 1..Len(c) : c[i].do = "data" => \E k \in 1..Len(c) : k < i /\ c[k].do = "pool"
  <2> SUFFICES ASSUME NEW i \in 1..Len(c), c[i].do = "data" PROVE \E k \in 1..Len(c) : k < i /\ c[k].do = "pool"
    OBVIOUS
  <2>1. CASE i \in 1..Len(s)
    <3>1. PICK k \in 1..Len(s) : k < i /\ s[k].do = "pool"
      BY <1>1, <2>1 DEF Tidy
    <3> QED
      BY <1>1, <3>1
  <2>2. CASE \E j \in 1..Len(t) : i = Len(s) + j
    <3>1. PICK k \in 1..Len(s) : s[k].do = "pool"
      BY <1>1, <2>2 DEF Some
    <3>2. k < i
      BY <1>1, <2>2
    <3> QED
      BY <1>1, <3>1, <3>2
  <2> QED
    BY <1>1, <2>1, <2>2
<1>3. \A i, j \in 1..Len(c) : c[i].do = "data" /\ c[j].do \in Starters /\ c[i].of = c[j].of => i < j
  <2> SUFFICES ASSUME NEW i \in 1..Len(c), NEW j \in 1..Len(c), c[i].do = "data", c[j].do \in Starters, c[i].of = c[j].of
               PROVE  i < j
    OBVIOUS
  <2>1. CASE i \in 1..Len(s) /\ j \in 1..Len(s)
    BY <1>1, <2>1 DEF Tidy
  <2>2. CASE i \in 1..Len(s) /\ \E k \in 1..Len(t) : j = Len(s) + k
    BY <1>1, <2>2
  <2>3. CASE j \in 1..Len(s) /\ \E k \in 1..Len(t) : i = Len(s) + k
    <3>1. PICK k \in 1..Len(t) : i = Len(s) + k
      BY <2>3
    <3>2. t[k].do = "data" /\ s[j].do \in Starters /\ s[j].of = t[k].of
      BY <1>1, <2>3, <3>1
    <3> QED
      BY <2>3, <3>2
  <2>4. CASE (\E k \in 1..Len(t) : j = Len(s) + k) /\ \E k \in 1..Len(t) : i = Len(s) + k
    BY <1>1, <2>4
  <2> QED
    BY <1>1, <2>1, <2>2, <2>3, <2>4
<1>4. \A i \in 1..Len(c) : c[i].do = "summary" => \E k \in 1..Len(c) : k < i /\ c[k].do = "check"
  <2> SUFFICES ASSUME NEW i \in 1..Len(c), c[i].do = "summary" PROVE \E k \in 1..Len(c) : k < i /\ c[k].do = "check"
    OBVIOUS
  <2>1. CASE i \in 1..Len(s)
    <3>1. PICK k \in 1..Len(s) : k < i /\ s[k].do = "check"
      BY <1>1, <2>1 DEF Tidy
    <3> QED
      BY <1>1, <3>1
  <2>2. CASE \E j \in 1..Len(t) : i = Len(s) + j
    <3>1. PICK j \in 1..Len(t) : i = Len(s) + j
      BY <2>2
    <3>2. t[j].do = "summary"
      BY <1>1, <3>1
    <3>3. CASE Some(s, "check")
      <4>1. PICK k \in 1..Len(s) : s[k].do = "check"
        BY <3>3 DEF Some
      <4>2. k < i
        BY <1>1, <3>1
      <4> QED
        BY <1>1, <4>1, <4>2
    <3>4. CASE \E k \in 1..Len(t) : k < j /\ t[k].do = "check"
      <4>1. PICK k \in 1..Len(t) : k < j /\ t[k].do = "check"
        BY <3>4
      <4>2. Len(s) + k \in 1..Len(c) /\ c[Len(s) + k] = t[k] /\ Len(s) + k < i
        BY <1>1, <3>1, <4>1
      <4> QED
        BY <4>1, <4>2
    <3> QED
      BY <3>2, <3>3, <3>4
  <2> QED
    BY <1>1, <2>1, <2>2
<1> QED
  BY <1>1, <1>2, <1>3, <1>4, <1>5 DEF Tidy, c

\* What neither keeps data nor sums up can be done at any time.
LEMMA Plainly ==
  ASSUME NEW s, Tidy(s), NEW kind \in StepKinds, kind \notin {"data", "summary"}, NEW names \in Seq(Words)
  PROVE  Tidy(s \o App!Do(kind, names))
<1> DEFINE t == App!Do(kind, names)
<1>1. t \in Seq(StepRec) /\ \A i \in 1..Len(t) : t[i].do = kind
  BY DoIs
<1>2. Tidy(s \o t)
  <2> HIDE DEF t
  <2> QED
    BY <1>1, GoesOn
<1> QED
  BY <1>2

LEMMA AloneTidy ==
  ASSUME NEW kind \in StepKinds, kind \notin {"data", "summary"}, NEW names \in Seq(Words)
  PROVE  Tidy(App!Do(kind, names))
<1> DEFINE t == App!Do(kind, names)
<1>1. t \in Seq(StepRec) /\ \A i \in 1..Len(t) : t[i].do = kind
  BY DoIs
<1> HIDE DEF t
<1> QED
  BY <1>1 DEF Tidy, t

\* The names of one step, and of several.
LEMMA One == ASSUME NEW S, NEW x \in S PROVE <<x>> \in Seq(S) /\ Len(<<x>>) = 1
  OBVIOUS
LEMMA Two == ASSUME NEW S, NEW x \in S, NEW y \in S PROVE <<x, y>> \in Seq(S) /\ Len(<<x, y>>) = 2
  OBVIOUS
LEMMA Three == ASSUME NEW S, NEW x \in S, NEW y \in S, NEW z \in S PROVE <<x, y, z>> \in Seq(S)
  OBVIOUS
LEMMA Four == ASSUME NEW S, NEW x \in S, NEW y \in S, NEW z \in S, NEW w \in S PROVE <<x, y, z, w>> \in Seq(S)
  OBVIOUS

LEMMA Nameless == "" \in Words /\ <<"">> \in Seq(Words) /\ Len(<<"">>) = 1
<1>1. "" \in Words
  BY DEF Words
<1> QED
  BY <1>1, One

\* What the recipes are put together from.
LEMMA Pieces ==
  ASSUME NEW s, Tidy(s)
  PROVE  /\ \A names \in Seq(Words) : Tidy(s \o App!Pkg(names)) /\ Tidy(s \o App!Serve(names))
         /\ Tidy(s \o App!More) /\ Tidy(s \o App!Check)
         /\ \A d \in Words : Tidy(s \o App!Mounted(d))
         /\ \A kind \in {"die", "answers", "optional"}, d \in Words : Tidy(s \o App!Do(kind, <<d>>))
  BY Plainly, One, Nameless DEF StepKinds, App!Pkg, App!Serve, App!More, App!Check, App!Mounted

LEMMA Tiers ==
  ASSUME NEW names \in Seq(App!AllData)
  PROVE  Tidy(App!Pool \o App!Data(names))
<1> DEFINE s == App!Pool
           t == App!Data(names)
<1>1. Tidy(s)
  BY AloneTidy, Nameless DEF StepKinds, App!Pool
<1>2. s \in Seq(StepRec) /\ Len(s) = 1 /\ \A i \in 1..Len(s) : s[i].do = "pool"
  <2>1. "pool" \in StepKinds
    BY DEF StepKinds
  <2>2. Len(s) = Len(<<"">>) /\ s \in Seq(StepRec) /\ \A i \in 1..Len(s) : s[i].do = "pool"
    BY <2>1, Nameless, DoIs DEF App!Pool
  <2> QED
    BY <2>2, Nameless
<1>3. t \in Seq(StepRec) /\ \A i \in 1..Len(t) : t[i].do = "data" /\ t[i].of \in App!AllData
  <2>1. PICK n \in Nat : n = Len(names)
    BY LenProperties
  <2>2. \A i \in 1..n : names[i] \in App!AllData
    BY <2>1, ElementOfSeq
  <2>3. \A i \in 1..n : names[i] \in Words
    BY <2>2 DEF Words
  <2>4. names = [i \in 1..n |-> names[i]]
    BY <2>1, LenProperties
  <2>5. names \in Seq(Words)
    BY <2>3, <2>4, IsASeq
  <2>6. "data" \in StepKinds
    BY DEF StepKinds
  <2> QED
    BY <2>1, <2>2, <2>5, <2>6, DoIs DEF App!Data
<1>4. Some(s, "pool")
  <2>1. 1 \in 1..Len(s)
    BY <1>2
  <2> QED
    BY <1>2, <2>1 DEF Some
<1>5. Tidy(s \o t)
  <2> HIDE DEF s, t
  <2> QED
    BY <1>1, <1>2, <1>3, <1>4, GoesOn DEF Starters
<1> QED
  BY <1>5

\* A recipe that has checked may sum up.
LEMMA SumsUp ==
  ASSUME NEW s, Tidy(s), Some(s, "check")
  PROVE  Tidy(s \o App!Summary)
<1> DEFINE t == App!Summary
<1>1. t \in Seq(StepRec) /\ \A i \in 1..Len(t) : t[i].do = "summary"
  BY ZenonT(60), DoIs, Nameless DEF StepKinds, App!Summary
<1>2. Tidy(s \o t)
  <2> HIDE DEF t
  <2> QED
    BY <1>1, GoesOn
<1> QED
  BY <1>2

LEMMA Checked ==
  ASSUME NEW s, Tidy(s)
  PROVE  Some(s \o App!Check, "check")
<1> DEFINE t == App!Check
<1>1. t \in Seq(StepRec) /\ Len(t) = 1 /\ \A i \in 1..Len(t) : t[i].do = "check"
  <2>1. "check" \in StepKinds
    BY DEF StepKinds
  <2>2. Len(t) = Len(<<"">>) /\ t \in Seq(StepRec) /\ \A i \in 1..Len(t) : t[i].do = "check"
    BY <2>1, Nameless, DoIs DEF App!Check
  <2> QED
    BY <2>2, Nameless
<1>2. Some(t, "check")
  <2>1. 1 \in 1..Len(t)
    BY <1>1
  <2> QED
    BY <1>1, <2>1 DEF Some
<1>3. Some(s \o t, "check")
  <2> HIDE DEF t
  <2> QED
    BY <1>1, <1>2, SomeCat DEF Tidy
<1> QED
  BY <1>3

LEMMA StillSome ==
  ASSUME NEW s, Tidy(s), NEW kind, Some(s, kind), NEW t \in Seq(StepRec)
  PROVE  Some(s \o t, kind)
  BY SomeCat DEF Tidy

LEMMA OneStep ==
  ASSUME NEW kind \in StepKinds, NEW d \in Words
  PROVE  App!Do(kind, <<d>>) \in Seq(StepRec)
  BY DoIs, One

LEMMA Ends ==
  ASSUME NEW s, Tidy(s)
  PROVE  /\ Tidy(s \o App!Check \o App!More \o App!Summary)
         /\ \A d \in Words : Tidy(s \o App!Check \o App!Mounted(d) \o App!More \o App!Summary)
<1> DEFINE c == s \o App!Check
<1>1. Tidy(c) /\ Some(c, "check")
  BY Pieces, Checked
<1> HIDE DEF c
<1>2. App!More \in Seq(StepRec) /\ \A d \in Words : App!Mounted(d) \in Seq(StepRec)
  BY OneStep, Nameless DEF StepKinds, App!More, App!Mounted
<1>3. Tidy(c \o App!More) /\ Some(c \o App!More, "check")
  BY <1>1, <1>2, Pieces, StillSome
<1>4. Tidy(c \o App!More \o App!Summary)
  BY <1>3, SumsUp
<1>5. ASSUME NEW d \in Words PROVE Tidy(c \o App!Mounted(d) \o App!More \o App!Summary)
  <2>1. Tidy(c \o App!Mounted(d)) /\ Some(c \o App!Mounted(d), "check")
    BY <1>1, <1>2, Pieces, StillSome
  <2>2. Tidy(c \o App!Mounted(d) \o App!More) /\ Some(c \o App!Mounted(d) \o App!More, "check")
    BY <1>2, <2>1, Pieces, StillSome
  <2> QED
    BY <2>2, SumsUp
<1> QED
  BY <1>4, <1>5 DEF c

LEMMA GoesOnDry ==
  ASSUME NEW s, Tidy(s), NEW t, Tidy(t), ~Some(t, "data")
  PROVE  Tidy(s \o t)
<1>1. t \in Seq(StepRec) /\ \A j \in 1..Len(t) : t[j].do # "data"
  BY DEF Tidy, Some
<1>2. \A j \in 1..Len(t) : t[j].do = "summary" => \E k \in 1..Len(t) : k < j /\ t[k].do = "check"
  BY DEF Tidy
<1> QED
  BY <1>1, <1>2, GoesOn

\* Pieces that begin with none of a pool's: no data in them.
Dry(t) == Tidy(t) /\ ~Some(t, "data")

LEMMA DryStep ==
  ASSUME NEW kind \in StepKinds, kind # "data", NEW names \in Seq(Words)
  PROVE  ~Some(App!Do(kind, names), "data")
<1> DEFINE t == App!Do(kind, names)
<1>1. \A i \in 1..Len(t) : t[i].do = kind
  BY DoIs
<1> HIDE DEF t
<1>2. ~Some(t, "data")
  BY <1>1 DEF Some
<1> QED
  BY <1>2 DEF t

LEMMA DryCat ==
  ASSUME NEW s \in Seq(StepRec), NEW t \in Seq(StepRec), ~Some(s, "data"), ~Some(t, "data")
  PROVE  ~Some(s \o t, "data")
  BY SomeCat

\* The lists of the recipes.
LEMMA Lists ==
  /\ \A d \in App!AllData : d \in Words
  /\ <<"pg", "cache", "www">> \in Seq(App!AllData) /\ <<"mysql", "www">> \in Seq(App!AllData) /\ <<"jellyfin", "media">> \in Seq(App!AllData)
  /\ <<"media", "plex">> \in Seq(App!AllData) /\ <<"syncthing">> \in Seq(App!AllData) /\ <<"landing", "apps">> \in Seq(App!AllData)
  /\ <<"station">> \in Seq(App!AllData) /\ <<"captures", "webrx">> \in Seq(App!AllData) /\ <<"recordings", "tvh">> \in Seq(App!AllData)
  /\ <<"nginx", "pg", "fpm", "cache">> \in Seq(Words) /\ <<"pg">> \in Seq(Words) /\ <<"cache">> \in Seq(Words)
  /\ <<"fpm", "nginx">> \in Seq(Words) /\ <<"httpd", "mysql">> \in Seq(Words) /\ <<"mysql">> \in Seq(Words)
  /\ <<"httpd">> \in Seq(Words) /\ <<"jellyfin">> \in Seq(Words) /\ <<"plex">> \in Seq(Words)
  /\ <<"adguard">> \in Seq(Words) /\ <<"syncthing">> \in Seq(Words) /\ <<"apps">> \in Seq(Words)
  /\ <<"station">> \in Seq(Words) /\ <<"webrx">> \in Seq(Words) /\ <<"soapy">> \in Seq(Words)
  /\ <<"tvh">> \in Seq(Words) /\ <<"", "nginx">> \in Seq(Words) /\ <<"mediamtx">> \in Seq(Words)
  /\ <<"session", "nginx">> \in Seq(Words) /\ <<"", "xrdp">> \in Seq(Words) /\ <<"xrdp">> \in Seq(Words)
  BY One, Two, Three, Four DEF Words, App!AllData

LEMMA StacksAreTidy == Tidy(App!webStack) /\ Tidy(App!lampStack)
<1>1. Tidy(App!webTiers)
  BY Lists, Tiers, Pieces DEF App!webTiers
<1>2. Dry(App!webStores)
  <2> DEFINE a == App!Serve(<<"pg">>)
             b == a \o App!More
             c == b \o App!Serve(<<"cache">>)
  <2>1. Tidy(a) /\ ~Some(a, "data")
    BY Lists, AloneTidy, DryStep DEF App!Serve, StepKinds
  <2>2. App!More \in Seq(StepRec) /\ ~Some(App!More, "data")
    BY Nameless, DryStep, DoIs DEF App!More, StepKinds
  <2>3. App!Serve(<<"cache">>) \in Seq(StepRec) /\ ~Some(App!Serve(<<"cache">>), "data")
    BY Lists, DryStep, DoIs DEF App!Serve, StepKinds
  <2> HIDE DEF a
  <2>4. Tidy(b) /\ ~Some(b, "data")
    <3>1. a \in Seq(StepRec)
      BY <2>1 DEF Tidy
    <3> QED
      BY <2>1, <2>2, <3>1, Pieces, DryCat
  <2> HIDE DEF b
  <2>5. Tidy(c) /\ ~Some(c, "data")
    <3>1. b \in Seq(StepRec)
      BY <2>4 DEF Tidy
    <3> QED
      BY <2>3, <2>4, <3>1, Lists, Pieces, DryCat
  <2> QED
    BY <2>5 DEF a, b, c, Dry, App!webStores
<1>3. Dry(App!webFront)
  <2> DEFINE a == App!More \o App!Serve(<<"fpm", "nginx">>)
             b == a \o App!Check
             c == b \o App!More
             d == c \o App!Summary
  <2>1. Tidy(App!More)
    BY Nameless, AloneTidy DEF App!More, StepKinds
  <2>2. App!More \in Seq(StepRec) /\ ~Some(App!More, "data")
    BY Nameless, DryStep, DoIs DEF App!More, StepKinds
  <2>3. App!Serve(<<"fpm", "nginx">>) \in Seq(StepRec) /\ ~Some(App!Serve(<<"fpm", "nginx">>), "data")
    BY Lists, DryStep, DoIs DEF App!Serve, StepKinds
  <2>4. Tidy(a) /\ ~Some(a, "data")
    BY <2>1, <2>2, <2>3, Lists, Pieces, DryCat
  <2> HIDE DEF a
  <2>5. Tidy(d)
    BY <2>4, Ends
  <2>6. App!Check \in Seq(StepRec) /\ ~Some(App!Check, "data")
    BY Nameless, DryStep, DoIs DEF App!Check, StepKinds
  <2>7. App!Summary \in Seq(StepRec) /\ ~Some(App!Summary, "data")
    BY Nameless, DryStep, DoIs DEF App!Summary, StepKinds
  <2>8. b \in Seq(StepRec) /\ ~Some(b, "data")
    BY <2>4, <2>6, DryCat, Pieces DEF Tidy
  <2> HIDE DEF b
  <2>9. c \in Seq(StepRec) /\ ~Some(c, "data")
    BY <2>2, <2>8, DryCat, Cat
  <2> HIDE DEF c
  <2>10. ~Some(d, "data")
    BY <2>7, <2>9, DryCat
  <2> QED
    BY <2>5, <2>10 DEF a, b, c, d, Dry, App!webFront
<1>4. Tidy(App!webStack)
  BY <1>1, <1>2, <1>3, GoesOnDry DEF Dry, App!webStack
<1>5. Tidy(App!lampTiers)
  <2>1. Tidy(App!Pool \o App!Data(<<"mysql", "www">>))
    BY Lists, Tiers
  <2>2. Tidy(App!Pool \o App!Data(<<"mysql", "www">>) \o App!Pkg(<<"httpd", "mysql">>))
    BY <2>1, Lists, Pieces
  <2> QED
    BY <2>2, Lists, Pieces DEF App!lampTiers
<1>6. Tidy(App!lampTiers \o App!More \o App!Serve(<<"httpd">>))
  <2>1. Tidy(App!lampTiers \o App!More)
    BY <1>5, Pieces
  <2> QED
    BY <2>1, Lists, Pieces
<1>7. Tidy(App!lampStack)
  BY <1>6, Ends DEF App!lampStack
<1> QED
  BY <1>4, <1>7
LEMMA JellyfinIsTidy == Tidy(App!jellyfin)
<1>1. Tidy(App!Pool \o App!Data(<<"jellyfin", "media">>))
  BY Lists, Tiers
<1>2. Tidy(App!Pool \o App!Data(<<"jellyfin", "media">>) \o App!Pkg(<<"jellyfin">>))
  BY <1>1, Lists, Pieces
<1>3. Tidy(App!jellyfinTiers)
  BY <1>2 DEF App!jellyfinTiers
<1>4. Tidy(App!jellyfinTiers \o App!More)
  BY <1>3, Lists, Pieces
<1>5. Tidy(App!jellyfinTiers \o App!More \o App!Serve(<<"jellyfin">>))
  BY <1>4, Lists, Pieces
<1>6. Tidy(App!jellyfinTiers \o App!More \o App!Serve(<<"jellyfin">>) \o App!More)
  BY <1>5, Lists, Pieces
<1> QED
  BY <1>6, Ends DEF App!jellyfin

LEMMA PlexIsTidy == Tidy(App!plex)
<1>1. Tidy(App!Pool \o App!Data(<<"media", "plex">>))
  BY Lists, Tiers
<1>2. Tidy(App!Pool \o App!Data(<<"media", "plex">>) \o App!Pkg(<<"plex">>))
  BY <1>1, Lists, Pieces
<1>3. Tidy(App!Pool \o App!Data(<<"media", "plex">>) \o App!Pkg(<<"plex">>) \o App!More)
  BY <1>2, Lists, Pieces
<1>4. Tidy(App!Pool \o App!Data(<<"media", "plex">>) \o App!Pkg(<<"plex">>) \o App!More \o App!Serve(<<"plex">>))
  BY <1>3, Lists, Pieces
<1> QED
  BY <1>4, Ends DEF App!plex

LEMMA SyncthingIsTidy == Tidy(App!syncthing)
<1>1. Tidy(App!Pool \o App!Data(<<"syncthing">>))
  BY Lists, Tiers
<1>2. Tidy(App!Pool \o App!Data(<<"syncthing">>) \o App!Pkg(<<"syncthing">>))
  BY <1>1, Lists, Pieces
<1>3. Tidy(App!Pool \o App!Data(<<"syncthing">>) \o App!Pkg(<<"syncthing">>) \o App!Serve(<<"syncthing">>))
  BY <1>2, Lists, Pieces
<1>4. Tidy(App!Pool \o App!Data(<<"syncthing">>) \o App!Pkg(<<"syncthing">>) \o App!Serve(<<"syncthing">>) \o App!More)
  BY <1>3, Lists, Pieces
<1>5. Tidy(App!Pool \o App!Data(<<"syncthing">>) \o App!Pkg(<<"syncthing">>) \o App!Serve(<<"syncthing">>) \o App!More \o App!Do("answers", <<"">>))
  BY <1>4, Lists, Nameless, Pieces
<1> QED
  BY <1>5 DEF App!syncthing

LEMMA AdguardHomeIsTidy == Tidy(App!adguardHome)
<1>1. Tidy(App!Do("free53", <<"">>))
  BY Lists, Nameless, AloneTidy DEF StepKinds, App!Pkg
<1>2. Tidy(App!Do("free53", <<"">>) \o App!Pkg(<<"adguard">>))
  BY <1>1, Lists, Pieces
<1>3. Tidy(App!Do("free53", <<"">>) \o App!Pkg(<<"adguard">>) \o App!Serve(<<"adguard">>))
  BY <1>2, Lists, Pieces
<1>4. Tidy(App!Do("free53", <<"">>) \o App!Pkg(<<"adguard">>) \o App!Serve(<<"adguard">>) \o App!Do("answers", <<"">>))
  BY <1>3, Lists, Nameless, Pieces
<1> QED
  BY <1>4 DEF App!adguardHome

LEMMA SeedboxIsTidy == Tidy(App!seedbox)
<1>1. Tidy(App!Pool \o App!Data(<<"landing", "apps">>))
  BY Lists, Tiers
<1>2. Tidy(App!Pool \o App!Data(<<"landing", "apps">>) \o App!Pkg(<<"apps">>))
  BY <1>1, Lists, Pieces
<1>3. Tidy(App!Pool \o App!Data(<<"landing", "apps">>) \o App!Pkg(<<"apps">>) \o App!More)
  BY <1>2, Lists, Pieces
<1>4. Tidy(App!Pool \o App!Data(<<"landing", "apps">>) \o App!Pkg(<<"apps">>) \o App!More \o App!Serve(<<"apps">>))
  BY <1>3, Lists, Pieces
<1>5. "landing" \in Words
  BY DEF Words, App!AllData
<1> QED
  BY <1>4, <1>5, Ends DEF App!seedbox

LEMMA VdiDesktopIsTidy == Tidy(App!vdiDesktop)
<1>1. Tidy(App!Pkg(<<"", "nginx">>))
  BY Lists, Nameless, AloneTidy DEF StepKinds, App!Pkg
<1>2. Tidy(App!Pkg(<<"", "nginx">>) \o App!More)
  BY <1>1, Lists, Pieces
<1>3. Tidy(App!Pkg(<<"", "nginx">>) \o App!More \o App!Serve(<<"mediamtx">>))
  BY <1>2, Lists, Pieces
<1>4. Tidy(App!vdiTiers)
  BY <1>3 DEF App!vdiTiers
<1>5. Tidy(App!vdiTiers \o App!More)
  BY <1>4, Lists, Pieces
<1>6. Tidy(App!vdiTiers \o App!More \o App!Serve(<<"session", "nginx">>))
  BY <1>5, Lists, Pieces
<1>7. Tidy(App!vdiTiers \o App!More \o App!Serve(<<"session", "nginx">>) \o App!Check)
  BY <1>6, Lists, Pieces
<1> QED
  BY <1>7 DEF App!vdiDesktop

LEMMA RdpDesktopIsTidy == Tidy(App!rdpDesktop)
<1>1. Tidy(App!Pkg(<<"", "xrdp">>))
  BY Lists, Nameless, AloneTidy DEF StepKinds, App!Pkg
<1>2. Tidy(App!Pkg(<<"", "xrdp">>) \o App!More)
  BY <1>1, Lists, Pieces
<1>3. Tidy(App!Pkg(<<"", "xrdp">>) \o App!More \o App!Serve(<<"xrdp">>))
  BY <1>2, Lists, Pieces
<1>4. Tidy(App!Pkg(<<"", "xrdp">>) \o App!More \o App!Serve(<<"xrdp">>) \o App!Check)
  BY <1>3, Lists, Pieces
<1> QED
  BY <1>4 DEF App!rdpDesktop

LEMMA DoOne ==
  ASSUME NEW kind \in StepKinds, NEW d \in Words
  PROVE  LET t == App!Do(kind, <<d>>)
         IN t \in Seq(StepRec) /\ Len(t) = 1 /\ \A i \in 1..Len(t) : t[i].do = kind /\ t[i].of = d
<1> DEFINE n == <<d>>
           t == App!Do(kind, n)
<1>1. n \in Seq(Words) /\ Len(n) = 1 /\ n[1] = d
  BY One
<1>2. t \in Seq(StepRec) /\ Len(t) = Len(n) /\ \A i \in 1..Len(t) : t[i].do = kind /\ t[i].of = n[i]
  BY <1>1, DoIs
<1>3. \A i \in 1..1 : i = 1
  OBVIOUS
<1> HIDE DEF t, n
<1>4. t \in Seq(StepRec) /\ Len(t) = 1 /\ \A i \in 1..Len(t) : t[i].do = kind /\ t[i].of = d
  BY <1>1, <1>2, <1>3
<1> QED
  BY <1>4 DEF t, n

LEMMA DoNameless ==
  ASSUME NEW kind \in StepKinds
  PROVE  LET t == App!Do(kind, <<"">>)
         IN t \in Seq(StepRec) /\ Len(t) = 1 /\ \A i \in 1..Len(t) : t[i].do = kind /\ t[i].of # "station"
<1>1. "" \in Words /\ "" # "station"
  BY Nameless
<1>2. PICK u : u = "" /\ u \in Words /\ u # "station"
  BY <1>1
<1>3. u \in Words /\ u # "station"
  BY <1>2
<1> DEFINE r == App!Do(kind, <<u>>)
<1>4. r \in Seq(StepRec) /\ Len(r) = 1 /\ \A i \in 1..Len(r) : r[i].do = kind /\ r[i].of # "station"
  BY <1>3, DoOne
<1>5. App!Do(kind, <<"">>) = r
  BY <1>2
<1> HIDE DEF r
<1> QED
  BY <1>4, <1>5

LEMMA IcecastIsTidy == Tidy(App!icecast)
<1> DEFINE s == App!Pool \o App!Pkg(<<"">>)
           t == App!Data(<<"station">>)
<1>1. Tidy(s)
  <2>1. Tidy(App!Pool)
    BY Nameless, AloneTidy DEF App!Pool, StepKinds
  <2> QED
    BY <2>1, Nameless, Pieces
<1>2. /\ Some(s, "pool")
      /\ \A i \in 1..Len(s) : s[i].of # "station"
  <2> DEFINE a == App!Pool
             b == App!Pkg(<<"">>)
  <2>1. a \in Seq(StepRec) /\ Len(a) = 1 /\ \A i \in 1..Len(a) : a[i].do = "pool" /\ a[i].of # "station"
    BY DoNameless DEF App!Pool, StepKinds
  <2>2. b \in Seq(StepRec) /\ Len(b) = 1 /\ \A i \in 1..Len(b) : b[i].do = "pkg" /\ b[i].of # "station"
    BY DoNameless DEF App!Pkg, StepKinds
  <2> HIDE DEF a, b
  <2>4. Some(a, "pool")
    <3>1. 1 \in 1..Len(a)
      BY <2>1
    <3> QED
      BY <2>1, <3>1 DEF Some
  <2>5. \A i \in 1..Len(a \o b) : (a \o b)[i].of # "station"
    <3> DEFINE c == a \o b
    <3>1. /\ \A i \in 1..Len(a) : c[i] = a[i]
          /\ \A i \in 1..Len(b) : c[Len(a) + i] = b[i]
          /\ \A i \in 1..Len(c) : i \in 1..Len(a) \/ \E j \in 1..Len(b) : i = Len(a) + j
      BY <2>1, <2>2, Cat
    <3> HIDE DEF c
    <3>2. \A i \in 1..Len(c) : c[i].of # "station"
      BY <2>1, <2>2, <3>1
    <3> QED
      BY <3>2 DEF c
  <2> QED
    BY <2>1, <2>2, <2>4, <2>5, StillSome, SomeCat DEF a, b
<1>3. t \in Seq(StepRec) /\ \A i \in 1..Len(t) : t[i].do = "data" /\ t[i].of = "station"
  <2>1. "data" \in StepKinds /\ "station" \in Words
    BY DEF StepKinds, Words, App!AllData
  <2> QED
    BY <2>1, DoOne DEF App!Data
<1>4. "station" \in App!AllData
  BY DEF App!AllData
<1>5. Tidy(s \o t)
  <2> HIDE DEF s, t
  <2> QED
    BY <1>1, <1>2, <1>3, <1>4, GoesOn DEF Starters
<1>6. Tidy(s \o t \o App!Serve(<<"station">>))
  BY <1>5, Lists, Pieces
<1> QED
  BY <1>6, Ends DEF App!icecast

LEMMA SdrStationIsTidy == Tidy(App!sdrStation)
<1> DEFINE s == App!Pool \o App!Data(<<"captures", "webrx">>) \o App!Pkg(<<"">>)
           t == IF family = "deb" THEN App!Do("optional", <<"webrx">>) \o App!Serve(<<"webrx">>) ELSE <<>>
<1>1. Tidy(App!Pool \o App!Data(<<"captures", "webrx">>))
  BY Lists, Tiers
<1>2. Tidy(s)
  BY <1>1, Nameless, Pieces
<1>3. Tidy(s \o t)
  <2>1. CASE family = "deb"
    <3> DEFINE a == App!Do("optional", <<"webrx">>)
               b == App!Serve(<<"webrx">>)
    <3>1. Tidy(a) /\ ~Some(a, "data") /\ a \in Seq(StepRec)
      BY Lists, AloneTidy, DryStep, DoIs DEF StepKinds
    <3>2. b \in Seq(StepRec) /\ ~Some(b, "data")
      BY Lists, DryStep, DoIs DEF App!Serve, StepKinds
    <3>3. Tidy(a \o b)
      <4> HIDE DEF a
      <4> QED
        BY <3>1, Lists, Pieces
    <3>4. ~Some(a \o b, "data")
      <4> HIDE DEF a, b
      <4> QED
        BY <3>1, <3>2, DryCat
    <3>5. t = a \o b
      BY <2>1
    <3> HIDE DEF s, t, a, b
    <3> QED
      BY <1>2, <3>3, <3>4, <3>5, GoesOnDry
  <2>2. CASE family # "deb"
    <3>1. t = <<>>
      BY <2>2
    <3> HIDE DEF s, t
    <3>2. s \o <<>> = s
      BY <1>2, ConcatEmptySeq DEF Tidy
    <3> QED
      BY <1>2, <3>1, <3>2
  <2> QED
    BY <2>1, <2>2
<1>4. Tidy(s \o t \o App!Serve(<<"soapy">>))
  <2> HIDE DEF s, t
  <2> QED
    BY <1>3, Lists, Pieces
<1>5. Tidy(s \o t \o App!Serve(<<"soapy">>) \o App!Check \o App!Mounted("captures") \o App!More \o App!Summary)
  <2> HIDE DEF s, t
  <2>1. "captures" \in Words
    BY DEF Words, App!AllData
  <2> QED
    BY <1>4, <2>1, Ends
<1> QED
  BY <1>5 DEF App!sdrStation

LEMMA TvheadendIsTidy == Tidy(App!tvheadend)
<1> DEFINE s == App!Pool \o App!Data(<<"recordings", "tvh">>)
           t == IF family = "rpm" THEN App!Do("die", <<"">>) ELSE App!Pkg(<<"tvh">>)
<1>1. Tidy(s)
  BY Lists, Tiers
<1>2. Tidy(s \o t)
  <2>1. CASE family = "rpm"
    <3>1. t = App!Do("die", <<"">>)
      BY <2>1
    <3> HIDE DEF s, t
    <3> QED
      BY <1>1, <3>1, Nameless, Pieces
  <2>2. CASE family # "rpm"
    <3>1. t = App!Pkg(<<"tvh">>)
      BY <2>2
    <3> HIDE DEF s, t
    <3> QED
      BY <1>1, <3>1, Lists, Pieces
  <2> QED
    BY <2>1, <2>2
<1>3. Tidy(s \o t \o App!Serve(<<"tvh">>))
  <2> HIDE DEF s, t
  <2> QED
    BY <1>2, Lists, Pieces
<1>4. Tidy(s \o t \o App!Serve(<<"tvh">>) \o App!Check \o App!Mounted("recordings") \o App!More \o App!Summary)
  <2> HIDE DEF s, t
  <2>1. "recordings" \in Words
    BY DEF Words, App!AllData
  <2> QED
    BY <1>3, <2>1, Ends
<1> QED
  BY <1>4 DEF App!tvheadend

\* Every recipe of the catalogue, on either family, is laid out so.
LEMMA RecipeIsTidy ==
  ASSUME recipe \in {"webStack", "lampStack", "jellyfin", "plex", "adguardHome", "syncthing", "seedbox", "icecast",
                     "sdrStation", "tvheadend", "vdiDesktop", "rdpDesktop"}
  PROVE  Tidy(App!Recipe)
  BY StacksAreTidy, JellyfinIsTidy, PlexIsTidy, AdguardHomeIsTidy, SyncthingIsTidy, SeedboxIsTidy, IcecastIsTidy,
     SdrStationIsTidy, TvheadendIsTidy, VdiDesktopIsTidy, RdpDesktopIsTidy DEF App!Recipe

-----------------------------------------------------------------------------
(* What holds of a tile while its recipe runs, dies and runs again.        *)

Steps == 1..Len(App!Recipe)
Doing(i, kind) == App!Recipe[i].do = kind
Data == {d \in App!AllData : \E i \in Steps : Doing(i, "data") /\ App!Recipe[i].of = d}

RecipeTypes ==
  /\ recipe \in {"webStack", "lampStack", "jellyfin", "plex", "adguardHome", "syncthing", "seedbox", "icecast",
                 "sdrStation", "tvheadend", "vdiDesktop", "rdpDesktop"}
  /\ pc \in Nat /\ attempts \in Nat /\ attempts > 0
  /\ below \in [App!AllData -> {"empty", "init", "used"}]

\* As long as no run went on without a pool: nothing lies in the directories of
\* the datasets, what keeps its data in one runs on it, the datasets before the
\* step the recipe is at are made, and there is the pool its first step made.
Kept ==
  /\ made \subseteq Data
  /\ ~plain =>
       /\ \A d \in Data : below[d] = "empty" /\ (d \in services => d \in made)
       /\ \A i \in Steps : i < pc /\ Doing(i, "data") => App!Recipe[i].of \in made
       /\ \A i \in Steps : i < pc /\ Doing(i, "pool") => pool

\* A run that found nothing wrong so far, and a verdict, have seen every service.
Serving == \A i \in Steps : Doing(i, "serve") => App!Recipe[i].of \in services
Seen ==
  /\ \A i \in Steps : i < pc /\ Doing(i, "check") /\ ~failed => Serving
  /\ purpose # "golden" /\ result = "VERIFIED" => Serving /\ (attempts = 1 => pc = 0)
  /\ purpose = "all" /\ host = "built" /\ App!HasSummary => result = "VERIFIED"

\* What lies in the directory of a dataset a service laid there after a run had gone
\* on without a pool, and that is all the history records.
LaidOut ==
  /\ bare \subseteq App!AllData
  /\ \A d \in bare : below[d] # "empty"
  /\ \A d \in Data : below[d] # "empty" => d \in bare

RecipeInv == RecipeTypes /\ Kept /\ LaidOut /\ Seen

Alike == recipe' = recipe /\ family' = family /\ purpose' = purpose

LEMMA SameRecipe ==
  ASSUME Alike PROVE App!Recipe' = App!Recipe
  BY DEF Alike, App!Recipe, App!webStack, App!webTiers, App!webStores, App!webFront, App!lampStack, App!lampTiers,
    App!jellyfin, App!jellyfinTiers, App!plex, App!adguardHome, App!syncthing, App!seedbox, App!icecast,
    App!sdrStation, App!tvheadend, App!vdiDesktop, App!vdiTiers, App!rdpDesktop,
    App!Do, App!Pool, App!Data, App!Pkg, App!More, App!Serve, App!Check, App!Mounted, App!Summary

LEMMA SameSteps ==
  ASSUME Alike
  PROVE  /\ App!Recipe' = App!Recipe /\ Steps' = Steps /\ Data' = Data /\ (App!HasSummary' <=> App!HasSummary)
         /\ \A i, kind : Doing(i, kind)' <=> Doing(i, kind)
  BY SameRecipe DEF Steps, Doing, Data, App!HasSummary, App!Steps, App!AllData

LEMMA NextIsAlike == ASSUME App!Next PROVE Alike
  BY DEF App!Next, Alike, App!Host, App!Turns, App!AppPoolInit, App!AppDataset, App!AppPkg, App!AppEnable, App!Configures,
    App!GivesUp, App!AppCheck, App!AppSummary, App!Again, App!Attach, App!Use, App!PowerCut, App!WaitAppliance, App!Takes

\* The recipe's order, of the steps of this tile.
LEMMA Order ==
  ASSUME RecipeTypes
  PROVE  /\ Len(App!Recipe) \in Nat /\ Steps = 1..Len(App!Recipe)
         /\ \A i \in Steps : Doing(i, "data") => App!Recipe[i].of \in Data
         /\ \A i \in Steps : Doing(i, "data") => \E k \in Steps : k < i /\ Doing(k, "pool")
         /\ \A j \in Steps : App!Recipe[j].do \in Starters /\ App!Recipe[j].of \in Data =>
              \E i \in Steps : i < j /\ Doing(i, "data") /\ App!Recipe[i].of = App!Recipe[j].of
         /\ \A i \in Steps : Doing(i, "summary") => \E k \in Steps : k < i /\ Doing(k, "check")
<1>1. Tidy(App!Recipe)
  BY RecipeIsTidy DEF RecipeTypes
<1>2. Len(App!Recipe) \in Nat
  BY <1>1, LenProperties DEF Tidy
<1> QED
  BY <1>1, <1>2 DEF Tidy, Steps, Doing, Data

LEMMA Went ==
  ASSUME RecipeTypes, pc \in Steps, App!Goes
  PROVE  pc' \in Nat /\ \A i \in Steps : i < pc' => i < pc \/ i = pc
<1>1. PICK n \in Nat : n = Len(App!Recipe)
  BY Order
<1>2. pc \in 1..n
  BY <1>1 DEF Steps
<1>3. pc' = IF pc = n THEN 0 ELSE pc + 1
  BY <1>1 DEF App!Goes
<1>4. pc' \in Nat /\ \A i \in 1..n : i < pc' => i < pc \/ i = pc
  BY <1>2, <1>3
<1> QED
  BY <1>1, <1>4 DEF Steps

LEMMA AtStep ==
  ASSUME RecipeTypes, NEW kind, App!At(kind)
  PROVE  pc \in Steps /\ pc \in Nat /\ pc > 0 /\ Doing(pc, kind)
<1>1. PICK n \in Nat : n = Len(App!Recipe)
  BY Order
<1>2. pc \in Nat /\ pc > 0 /\ pc <= n
  BY <1>1 DEF App!At, RecipeTypes
<1>3. pc \in 1..n
  BY <1>2
<1> QED
  BY <1>1, <1>2, <1>3 DEF App!At, App!Step, Doing, Steps

LEMMA FilledIs ==
  ASSUME NEW store \in [App!AllData -> {"empty", "init", "used"}], NEW ds
  PROVE  /\ App!Filled(store, ds) \in [App!AllData -> {"empty", "init", "used"}]
         /\ \A d \in App!AllData : d \notin ds => App!Filled(store, ds)[d] = store[d]
  BY DEF App!Filled

LEMMA RecipeTypesStep ==
  ASSUME RecipeTypes, App!Next PROVE RecipeTypes'
<1>1. Alike
  BY NextIsAlike
<1>2. App!Recipe' = App!Recipe /\ recipe' = recipe
  BY <1>1, SameRecipe DEF Alike
<1>3. pc \in Nat /\ attempts \in Nat /\ attempts > 0 /\ below \in [App!AllData -> {"empty", "init", "used"}]
  BY DEF RecipeTypes
<1>5. pc' \in Nat
  <2>1. pc' = pc \/ pc' = pc + 1 \/ pc' = 0 \/ pc' = 1
    BY DEF App!Next, App!Host, App!Turns, App!Goes, App!Dies, App!AppPoolInit, App!AppDataset, App!AppPkg, App!AppEnable,
      App!Configures, App!GivesUp, App!AppCheck, App!AppSummary, App!Again, App!Attach, App!Use, App!PowerCut,
      App!WaitAppliance, App!Takes
  <2> QED
    BY <1>3, <2>1
<1>6. attempts' \in Nat /\ attempts' > 0
  <2>1. attempts' = attempts \/ attempts' = attempts + 1
    BY DEF App!Next, App!Host, App!Turns, App!AppPoolInit, App!AppDataset, App!AppPkg, App!AppEnable, App!Configures,
      App!GivesUp, App!AppCheck, App!AppSummary, App!Again, App!Attach, App!Use, App!PowerCut, App!WaitAppliance, App!Takes
  <2> QED
    BY <1>3, <2>1
<1>7. below' \in [App!AllData -> {"empty", "init", "used"}]
  <2>1. CASE below' = below
    BY <1>3, <2>1
  <2>2. CASE \E ds : below' = App!Filled(below, ds)
    BY <1>3, <2>2, FilledIs
  <2>3. CASE \E d \in App!AllData : below' = [below EXCEPT ![d] = "used"]
    BY <1>3, <2>3
  <2>4. below' = below \/ (\E ds : below' = App!Filled(below, ds)) \/ (\E d \in App!AllData : below' = [below EXCEPT ![d] = "used"])
    BY DEF App!Next, App!guest, App!Starts, App!Dies, App!Turns, App!AppPoolInit, App!AppDataset, App!AppPkg, App!AppEnable,
      App!Configures, App!GivesUp, App!AppCheck, App!AppSummary, App!Again, App!Attach, App!Use, App!PowerCut,
      App!WaitAppliance, App!Takes
  <2> QED
    BY <2>1, <2>2, <2>3, <2>4
<1> QED
  BY <1>2, <1>5, <1>6, <1>7 DEF RecipeTypes, App!AllData

\* A service that keeps data starts after its dataset was made, if there is one;
\* what starts fills only what has none.
LEMMA StartKeeps ==
  ASSUME RecipeTypes, Kept, ~plain, NEW ss, App!Starts(ss), made' = made,
         \A d \in Data : d \in ss => d \in made
  PROVE  \A d \in Data : below'[d] = "empty" /\ (d \in services' => d \in made')
<1> SUFFICES ASSUME NEW d \in Data PROVE below'[d] = "empty" /\ (d \in services' => d \in made')
  OBVIOUS
<1>1. d \in App!AllData /\ below[d] = "empty" /\ (d \in services => d \in made) /\ (d \in ss => d \in made)
  BY DEF Kept, Data
<1>2. services' = services \cup ss /\ below' = App!Filled(below, (ss \cap App!AllData) \ made)
  BY DEF App!Starts
<1>3. d \notin (ss \cap App!AllData) \ made
  BY <1>1
<1>4. below \in [App!AllData -> {"empty", "init", "used"}]
  BY DEF RecipeTypes
<1>5. below'[d] = below[d]
  BY <1>1, <1>2, <1>3, <1>4, FilledIs
<1> QED
  BY <1>1, <1>2, <1>5

\* The step at pc starts something of its own name.
LEMMA StarterKeeps ==
  ASSUME RecipeTypes, Kept, ~plain, pc \in Steps, App!Recipe[pc].do \in Starters, App!Recipe[pc].of \in Data
  PROVE  App!Recipe[pc].of \in made
<1>1. PICK i \in Steps : i < pc /\ Doing(i, "data") /\ App!Recipe[i].of = App!Recipe[pc].of
  BY Order
<1> QED
  BY <1>1 DEF Kept

\* A service that starts, or is used, in a directory: after a run without a pool it is
\* recorded, before it there is no dataset of its name to come.
LEMMA StartLays ==
  ASSUME RecipeTypes, Kept, LaidOut, NEW ss, App!Starts(ss), ~plain => \A d \in Data : d \in ss => d \in made, Data' = Data
  PROVE  LaidOut'
<1> DEFINE S == (ss \cap App!AllData) \ made
<1>1. below' = App!Filled(below, S) /\ bare' = IF plain THEN bare \cup S ELSE bare
  BY DEF App!Starts, App!Lays
<1>2. \A d \in App!AllData : below'[d] = IF d \in S /\ below[d] = "empty" THEN "init" ELSE below[d]
  BY <1>1 DEF App!Filled
<1>3. \A d \in Data : d \in App!AllData /\ (d \in S => plain)
  BY DEF Data
<1>4. S \subseteq App!AllData
  OBVIOUS
<1> HIDE DEF S
<1>5. bare' \subseteq App!AllData /\ \A d \in bare' : below'[d] # "empty"
  BY <1>1, <1>2, <1>4 DEF LaidOut
<1>6. \A d \in Data : below'[d] # "empty" => d \in bare'
  BY <1>1, <1>2, <1>3 DEF LaidOut
<1>7. App!AllData' = App!AllData
  BY DEF App!AllData
<1> QED
  BY <1>5, <1>6, <1>7 DEF LaidOut

LEMMA UseLays ==
  ASSUME RecipeTypes, Kept, LaidOut, NEW s \in App!AllData, App!Use(s), Data' = Data
  PROVE  LaidOut'
<1>1. /\ s \in services
      /\ below' = IF s \in made THEN below ELSE [below EXCEPT ![s] = "used"]
      /\ bare' = IF plain THEN bare \cup ({s} \ made) ELSE bare
  BY DEF App!Use, App!Lays
<1>2. below \in [App!AllData -> {"empty", "init", "used"}]
  BY DEF RecipeTypes
<1>3. s \in Data /\ s \notin made => plain
  BY <1>1 DEF Kept
<1>4. \A d \in Data : d \in App!AllData
  BY DEF Data
<1>5. bare' \subseteq App!AllData /\ \A d \in bare' : below'[d] # "empty"
  BY <1>1, <1>2 DEF LaidOut
<1>6. \A d \in Data : below'[d] # "empty" => d \in bare'
  BY <1>1, <1>2, <1>3, <1>4 DEF LaidOut
<1>7. App!AllData' = App!AllData
  BY DEF App!AllData
<1> QED
  BY <1>5, <1>6, <1>7 DEF LaidOut

LEMMA LaidStep ==
  ASSUME RecipeTypes, Kept, LaidOut, App!Next PROVE LaidOut'
<1>1. Data' = Data /\ App!AllData' = App!AllData
  BY NextIsAlike, SameSteps DEF App!AllData
<1>2. CASE below' = below /\ bare' = bare
  BY <1>1, <1>2 DEF LaidOut
<1>3. CASE \E ss : App!Starts(ss) /\ (~plain => \A d \in Data : d \in ss => d \in made)
  BY <1>1, <1>3, StartLays
<1>4. CASE \E s \in App!AllData : App!Use(s)
  BY <1>1, <1>4, UseLays
<1>5. CASE App!AppPkg
  <2>1. pc \in Steps /\ App!Recipe[pc].do \in Starters
    BY <1>5, AtStep DEF App!AppPkg, Starters, Doing
  <2>2. CASE App!Starts(IF App!StartsItself(App!Step.of) THEN {App!Step.of} ELSE {})
    <3>1. ~plain => \A d \in Data : d \in (IF App!StartsItself(App!Step.of) THEN {App!Step.of} ELSE {}) => d \in made
      BY <2>1, StarterKeeps DEF App!Step
    <3> QED
      BY <1>3, <2>2, <3>1
  <2> QED
    BY <1>2, <1>5, <2>2 DEF App!AppPkg, App!Dies, App!guest
<1>6. CASE App!AppEnable
  <2>1. pc \in Steps /\ App!Recipe[pc].do \in Starters
    BY <1>6, AtStep DEF App!AppEnable, Starters, Doing
  <2>2. CASE App!Starts({App!Step.of})
    <3>1. ~plain => \A d \in Data : d \in {App!Step.of} => d \in made
      BY <2>1, StarterKeeps DEF App!Step
    <3> QED
      BY <1>3, <2>2, <3>1
  <2> QED
    BY <1>2, <1>6, <2>2 DEF App!AppEnable, App!guest
<1>7. CASE App!PowerCut
  <2>1. App!Starts(services)
    BY <1>7 DEF App!PowerCut
  <2>2. ~plain => \A d \in Data : d \in services => d \in made
    BY DEF Kept
  <2> QED
    BY <1>3, <2>1, <2>2
<1>8. \/ App!AppPkg \/ App!AppEnable \/ App!PowerCut \/ (\E s \in App!AllData : App!Use(s))
      \/ below' = below /\ bare' = bare
  BY DEF App!Next, App!guest, App!Dies, App!Turns, App!AppPoolInit, App!AppDataset, App!Configures,
    App!GivesUp, App!AppCheck, App!AppSummary, App!Again, App!Attach, App!WaitAppliance, App!Takes
<1> QED
  BY <1>2, <1>4, <1>5, <1>6, <1>7, <1>8

LEMMA KeptStep ==
  ASSUME RecipeTypes, Kept, App!Next PROVE Kept'
<1>1. /\ App!Recipe' = App!Recipe /\ Steps' = Steps /\ Data' = Data
      /\ \A i, kind : Doing(i, kind)' <=> Doing(i, kind)
  BY NextIsAlike, SameSteps
<1> DEFINE Ds == \A d \in Data : below[d] = "empty" /\ (d \in services => d \in made)
           Ms == \A i \in Steps : i < pc /\ Doing(i, "data") => App!Recipe[i].of \in made
           Ps == \A i \in Steps : i < pc /\ Doing(i, "pool") => pool
           New == made' \subseteq Data /\ (~plain' =>
             /\ \A d \in Data : below'[d] = "empty" /\ (d \in services' => d \in made')
             /\ \A i \in Steps : i < pc' /\ Doing(i, "data") => App!Recipe[i].of \in made'
             /\ \A i \in Steps : i < pc' /\ Doing(i, "pool") => pool')
<1>2. New => Kept'
  BY <1>1 DEF Kept
<1>3. made \subseteq Data /\ (~plain => Ds /\ Ms /\ Ps) /\ pc \in Nat /\ Steps \subseteq Nat
  BY Order DEF Kept, RecipeTypes
\* What does not run is before no step.
<1>4. \A i \in Steps : ~(i < 0) /\ ~(i < 1)
  BY Order DEF Steps
<1>5. CASE App!AppPoolInit
  <2>1. pc \in Steps /\ App!Goes /\ Doing(pc, "pool")
    BY <1>5, AtStep DEF App!AppPoolInit
  <2>2. \A i \in Steps : i < pc' => i < pc \/ i = pc
    BY <2>1, Went
  <2>3. made' = made /\ below' = below /\ services' = services /\ (plain' <=> plain \/ ~pool')
    BY <1>5 DEF App!AppPoolInit
  <2>4. ~plain' => \A i \in Steps : i < pc' /\ Doing(i, "data") => App!Recipe[i].of \in made'
    <3>1. ~Doing(pc, "data")
      BY <2>1 DEF Doing
    <3> QED
      BY <1>3, <2>2, <2>3, <3>1
  <2>5. New
    BY <1>3, <2>3, <2>4
  <2> QED
    BY <1>2, <2>5
<1>6. CASE App!Goes /\ pc \in Steps /\ ~Doing(pc, "data") /\ ~Doing(pc, "pool") /\ pool' = pool /\ plain' = plain /\ made' = made
           /\ \/ below' = below /\ services' = services
              \/ \E ss : App!Starts(ss) /\ (~plain => \A d \in Data : d \in ss => d \in made)
  <2>1. \A i \in Steps : i < pc' => i < pc \/ i = pc
    BY <1>6, Went
  <2>2. ~plain => \A d \in Data : below'[d] = "empty" /\ (d \in services' => d \in made')
    <3>1. CASE below' = below /\ services' = services
      BY <1>3, <1>6, <3>1
    <3>2. CASE \E ss : App!Starts(ss) /\ (~plain => \A d \in Data : d \in ss => d \in made)
      BY <1>6, <3>2, StartKeeps
    <3> QED
      BY <1>6, <3>1, <3>2
  <2>3. New
    BY <1>3, <1>6, <2>1, <2>2
  <2> QED
    BY <1>2, <2>3
<1>7. CASE pc' = 0 /\ pool' = pool /\ plain' = plain /\ made' = made
           /\ \/ below' = below /\ services' = services
              \/ services' = {} /\ below' = below
              \/ \E ss : App!Starts(ss) /\ (~plain => \A d \in Data : d \in ss => d \in made)
  <2>2. ~plain => \A d \in Data : below'[d] = "empty" /\ (d \in services' => d \in made')
    <3>1. CASE below' = below /\ (services' = services \/ services' = {})
      BY <1>3, <1>7, <3>1
    <3>2. CASE \E ss : App!Starts(ss) /\ (~plain => \A d \in Data : d \in ss => d \in made)
      BY <1>7, <3>2, StartKeeps
    <3> QED
      BY <1>7, <3>1, <3>2
  <2>3. New
    BY <1>3, <1>4, <1>7, <2>2
  <2> QED
    BY <1>2, <2>3
<1>8. CASE App!AppDataset
  <2>1. pc \in Steps /\ Doing(pc, "data")
    BY <1>8, AtStep DEF App!AppDataset
  <2>2. CASE App!Dies
    BY <1>7, <2>2 DEF App!Dies, App!guest
  <2>3. CASE ~App!Dies
    <3>1. /\ App!Goes /\ pool' = pool /\ below' = below /\ services' = services /\ plain' = plain
          /\ made' = IF pool THEN made \cup {App!Recipe[pc].of} ELSE made
      BY <1>8, <2>3 DEF App!AppDataset, App!Step
    <3>2. \A i \in Steps : i < pc' => i < pc \/ i = pc
      BY <2>1, <3>1, Went
    <3>3. App!Recipe[pc].of \in Data
      BY <2>1, Order
    <3>4. ~plain => pool
      <4>1. PICK k \in Steps : k < pc /\ Doing(k, "pool")
        BY <2>1, Order
      <4> QED
        BY <1>3, <4>1
    <3>5. ~Doing(pc, "pool")
      BY <2>1 DEF Doing
    <3>6. made' \subseteq Data /\ made \subseteq made' /\ (~plain => App!Recipe[pc].of \in made')
      BY <1>3, <3>1, <3>3, <3>4
    <3>7. New
      BY <1>3, <3>1, <3>2, <3>5, <3>6
    <3> QED
      BY <1>2, <3>7
  <2> QED
    BY <2>2, <2>3
<1>9. CASE App!AppPkg
  <2>1. pc \in Steps /\ App!Recipe[pc].do \in Starters /\ ~Doing(pc, "data") /\ ~Doing(pc, "pool")
    BY <1>9, AtStep DEF App!AppPkg, Starters, Doing
  <2>2. CASE App!Dies
    BY <1>7, <2>2 DEF App!Dies, App!guest
  <2>3. CASE App!Goes /\ UNCHANGED <<App!guest, failed, plain>>
    BY <1>6, <2>1, <2>3 DEF App!guest
  <2>4. CASE App!Goes /\ pool' = pool /\ made' = made /\ plain' = plain
             /\ App!Starts(IF App!StartsItself(App!Step.of) THEN {App!Step.of} ELSE {})
    <3>1. ~plain => \A d \in Data : d \in (IF App!StartsItself(App!Step.of) THEN {App!Step.of} ELSE {}) => d \in made
      BY <2>1, StarterKeeps DEF App!Step
    <3> QED
      BY <1>6, <2>1, <2>4, <3>1
  <2> QED
    BY <1>9, <2>2, <2>3, <2>4 DEF App!AppPkg
<1>10. CASE App!AppEnable
  <2>1. pc \in Steps /\ App!Recipe[pc].do \in Starters /\ ~Doing(pc, "data") /\ ~Doing(pc, "pool")
    BY <1>10, AtStep DEF App!AppEnable, Starters, Doing
  <2>2. App!Goes /\ plain' = plain
    BY <1>10 DEF App!AppEnable
  <2>3. CASE UNCHANGED App!guest
    BY <1>6, <2>1, <2>2, <2>3 DEF App!guest
  <2>4. CASE pool' = pool /\ made' = made /\ App!Starts({App!Step.of})
    <3>1. ~plain => \A d \in Data : d \in {App!Step.of} => d \in made
      BY <2>1, StarterKeeps DEF App!Step
    <3> QED
      BY <1>6, <2>1, <2>2, <2>4, <3>1
  <2> QED
    BY <1>10, <2>3, <2>4 DEF App!AppEnable
<1>11. CASE App!Configures
  <2>1. pc \in Steps /\ ~Doing(pc, "data") /\ ~Doing(pc, "pool")
    BY <1>11, AtStep DEF App!Configures, Doing
  <2> QED
    BY <1>6, <1>7, <1>11, <2>1 DEF App!Configures, App!Dies, App!guest
<1>12. CASE App!GivesUp
  <2>1. CASE pc' = 0
    BY <1>7, <1>12, <2>1 DEF App!GivesUp, App!guest
  <2>2. CASE App!At("free53") /\ App!Goes
    <3>1. pc \in Steps /\ ~Doing(pc, "data") /\ ~Doing(pc, "pool")
      BY <2>2, AtStep DEF Doing
    <3> QED
      BY <1>6, <1>12, <2>2, <3>1 DEF App!GivesUp, App!guest
  <2> QED
    BY <1>12, <2>1, <2>2 DEF App!GivesUp
<1>13. CASE App!AppCheck
  <2>1. pc \in Steps /\ ~Doing(pc, "data") /\ ~Doing(pc, "pool")
    BY <1>13, AtStep DEF App!AppCheck, Doing
  <2> QED
    BY <1>6, <1>13, <2>1 DEF App!AppCheck, App!guest
<1>14. CASE App!AppSummary
  BY <1>7, <1>14 DEF App!AppSummary, App!guest
<1>15. CASE App!Again
  <2>1. pc' = 1 /\ pool' = pool /\ plain' = plain /\ made' = made /\ below' = below /\ services' = services
    BY <1>15 DEF App!Again, App!guest
  <2>2. New
    BY <1>3, <1>4, <2>1
  <2> QED
    BY <1>2, <2>2
<1>16. CASE pc' = pc /\ pool' = pool /\ plain' = plain /\ made' = made /\ services' = services
            /\ (below' = below \/ \E s \in services \ made : below' = [below EXCEPT ![s] = "used"])
  <2>1. ~plain => \A d \in Data : below'[d] = "empty"
    <3>1. below \in [App!AllData -> {"empty", "init", "used"}]
      BY DEF RecipeTypes
    <3>2. Data \subseteq App!AllData
      BY DEF Data
    <3> QED
      BY <1>3, <1>16, <3>1, <3>2
  <2>2. New
    BY <1>3, <1>16, <2>1
  <2> QED
    BY <1>2, <2>2
<1>17. CASE (\E d \in {"blank", "foreign"} : App!Attach(d)) \/ App!WaitAppliance
  BY <1>16, <1>17 DEF App!Attach, App!WaitAppliance, App!Turns, App!guest
<1>18. CASE \E s \in App!AllData : App!Use(s)
  BY <1>16, <1>18 DEF App!Use
<1>19. CASE App!PowerCut
  <2>1. ~plain => \A d \in Data : d \in services => d \in made
    BY <1>3
  <2> QED
    BY <1>7, <1>19, <2>1 DEF App!PowerCut
<1>20. CASE App!Takes
  <2>1. CASE purpose = "golden"
    BY <1>7, <1>20, <2>1 DEF App!Takes, App!Turns
  <2>2. CASE purpose # "golden"
    BY <1>16, <1>20, <2>2 DEF App!Takes, App!Turns, App!guest
  <2> QED
    BY <2>1, <2>2
<1> QED
  BY <1>5, <1>8, <1>9, <1>10, <1>11, <1>12, <1>13, <1>14, <1>15, <1>17, <1>18, <1>19, <1>20 DEF App!Next

LEMMA SeenStep ==
  ASSUME RecipeTypes, Seen, App!Next PROVE Seen'
<1>1. /\ App!Recipe' = App!Recipe /\ Steps' = Steps /\ (App!HasSummary' <=> App!HasSummary)
      /\ purpose' = purpose /\ \A i, kind : Doing(i, kind)' <=> Doing(i, kind)
  BY NextIsAlike, SameSteps DEF Alike
<1> DEFINE Cs == \A i \in Steps : i < pc /\ Doing(i, "check") /\ ~failed => Serving
           New == /\ \A i \in Steps : i < pc' /\ Doing(i, "check") /\ ~failed' => Serving'
                  /\ purpose # "golden" /\ result' = "VERIFIED" => Serving' /\ (attempts' = 1 => pc' = 0)
                  /\ purpose = "all" /\ host' = "built" /\ App!HasSummary => result' = "VERIFIED"
<1>2. New => Seen'
  BY <1>1 DEF Seen
<1>3. /\ pc \in Nat /\ attempts \in Nat /\ attempts > 0 /\ Steps \subseteq Nat
      /\ \A i \in Steps : ~(i < 0) /\ ~(i < 1)
  BY Order DEF RecipeTypes, Steps
<1>4. services \subseteq services' => (Serving => Serving')
  BY <1>1 DEF Serving
\* A step that is no check and no summary, and whatever only ends the recipe.
<1>5. CASE /\ services \subseteq services' /\ attempts' = attempts /\ result' = result /\ host' = host
           /\ \/ pc' = 0
              \/ pc' = pc /\ failed' = failed
              \/ pc \in Steps /\ pc > 0 /\ App!Goes /\ ~Doing(pc, "check") /\ (failed' = failed \/ failed' = TRUE)
  <2>1. \A i \in Steps : i < pc' /\ Doing(i, "check") /\ ~failed' => i < pc /\ ~failed
    BY <1>3, <1>5, Went
  <2>2. purpose # "golden" /\ result = "VERIFIED" => Serving /\ (attempts = 1 => pc' = 0)
    BY <1>3, <1>5 DEF Seen
  <2>3. New
    BY <1>4, <1>5, <2>1, <2>2 DEF Seen
  <2> QED
    BY <1>2, <2>3
<1>6. CASE App!AppPoolInit \/ App!AppDataset \/ App!AppPkg \/ App!AppEnable \/ App!Configures \/ App!GivesUp
  <2>1. App!At("pool") \/ App!At("data") \/ App!At("pkg") \/ App!At("optional") \/ App!At("serve") \/ App!At("more")
        \/ App!At("die") \/ App!At("free53") \/ App!At("answers")
    BY <1>6 DEF App!AppPoolInit, App!AppDataset, App!AppPkg, App!AppEnable, App!Configures, App!GivesUp
  <2>2. pc \in Steps /\ pc > 0 /\ ~Doing(pc, "check")
    BY <2>1, AtStep DEF Doing
  <2>3. services \subseteq services' /\ attempts' = attempts /\ result' = result /\ host' = host /\ failed' = failed
    BY <1>6 DEF App!AppPoolInit, App!AppDataset, App!AppPkg, App!AppEnable, App!Configures, App!GivesUp, App!Host,
      App!Dies, App!guest, App!Starts
  <2>4. pc' = 0 \/ App!Goes
    BY <1>6 DEF App!AppPoolInit, App!AppDataset, App!AppPkg, App!AppEnable, App!Configures, App!GivesUp, App!Dies
  <2> QED
    BY <1>5, <2>2, <2>3, <2>4
<1>7. CASE App!AppCheck
  <2>1. App!Goes /\ services' = services /\ attempts' = attempts /\ result' = result /\ host' = host
    BY <1>7 DEF App!AppCheck, App!guest
  <2>2. CASE App!At("check")
    <3>1. pc \in Steps /\ pc > 0 /\ Doing(pc, "check")
      BY <2>2, AtStep
    <3>2. failed' = (failed \/ ~(App!Of({"serve"}) \subseteq services))
      BY <1>7, <2>2 DEF App!AppCheck
    <3>3. App!Of({"serve"}) \subseteq services => Serving
      BY DEF App!Of, App!Steps, Serving, Steps, Doing
    <3>4. ~failed' => Serving
      BY <3>2, <3>3
    <3>5. purpose # "golden" /\ result = "VERIFIED" => Serving /\ (attempts = 1 => FALSE)
      BY <1>3, <3>1 DEF Seen
    <3>6. New
      BY <1>4, <2>1, <3>4, <3>5 DEF Seen
    <3> QED
      BY <1>2, <3>6
  <2>3. CASE ~App!At("check")
    <3>1. App!At("mount")
      BY <1>7, <2>3 DEF App!AppCheck
    <3>2. pc \in Steps /\ pc > 0 /\ Doing(pc, "mount")
      BY <3>1, AtStep
    <3>3. failed' = (failed \/ App!Step.of \notin made)
      BY <1>7, <2>3 DEF App!AppCheck
    <3>4. ~Doing(pc, "check")
      BY <3>2 DEF Doing
    <3>5. \A i \in Steps : i < pc' => i < pc \/ i = pc
      BY <2>1, <3>2, Went
    <3>6. purpose # "golden" /\ result = "VERIFIED" => Serving /\ (attempts = 1 => FALSE)
      BY <1>3, <3>2 DEF Seen
    <3>7. New
      BY <1>4, <2>1, <3>3, <3>4, <3>5, <3>6 DEF Seen
    <3> QED
      BY <1>2, <3>7
  <2> QED
    BY <2>2, <2>3
<1>8. CASE App!AppSummary
  <2>1. /\ pc' = 0 /\ services' = services /\ attempts' = attempts /\ host' = host /\ failed' = failed
        /\ result' = IF attempts = 1 THEN (IF failed THEN "INCOMPLETE" ELSE "VERIFIED") ELSE result
    BY <1>8 DEF App!AppSummary, App!guest
  <2>2. pc \in Steps /\ pc > 0 /\ Doing(pc, "summary")
    BY <1>8, AtStep DEF App!AppSummary
  <2>3. PICK k \in Steps : k < pc /\ Doing(k, "check")
    BY <2>2, Order
  <2>4. ~failed => Serving
    BY <2>3 DEF Seen
  <2>5. purpose # "golden" /\ result = "VERIFIED" => attempts # 1
    BY <1>3, <2>2 DEF Seen
  <2>6. purpose # "golden" /\ result' = "VERIFIED" => Serving
    BY <2>1, <2>4 DEF Seen
  <2>7. purpose = "all" /\ host' = "built" /\ App!HasSummary => result' = "VERIFIED"
    BY <2>1, <2>5 DEF Seen
  <2>8. New
    BY <1>3, <1>4, <2>1, <2>6, <2>7
  <2> QED
    BY <1>2, <2>8
<1>9. CASE App!Again
  <2>1. pc' = 1 /\ services' = services /\ attempts' = attempts + 1 /\ result' = result /\ host' = host
    BY <1>9 DEF App!Again, App!guest
  <2>2. attempts' # 1
    BY <1>3, <2>1
  <2>3. New
    BY <1>3, <1>4, <2>1, <2>2 DEF Seen
  <2> QED
    BY <1>2, <2>3
<1>10. CASE (\E d \in {"blank", "foreign"} : App!Attach(d)) \/ (\E s \in App!AllData : App!Use(s)) \/ App!PowerCut
  <2>1. services \subseteq services' /\ attempts' = attempts /\ result' = result /\ host' = host
        /\ (pc' = 0 \/ (pc' = pc /\ failed' = failed))
    BY <1>10 DEF App!Attach, App!Use, App!PowerCut, App!Host, App!Starts
  <2> QED
    BY <1>5, <2>1
<1>11. CASE App!WaitAppliance
  <2>1. pc' = pc /\ services' = services /\ attempts' = attempts /\ result' = result /\ failed' = failed
        /\ host' \in {"answered", "failed"}
    BY <1>11 DEF App!WaitAppliance, App!Turns, App!guest
  <2>2. New
    BY <1>4, <2>1 DEF Seen
  <2> QED
    BY <1>2, <2>2
<1>12. CASE App!Takes
  <2>1. attempts' = attempts /\ result' = result /\ failed' = failed
    BY <1>12 DEF App!Takes, App!Turns
  <2>2. CASE purpose = "golden"
    <3>1. pc' = 0
      BY <1>12, <2>2 DEF App!Takes
    <3>2. New
      BY <1>3, <2>2, <3>1
    <3> QED
      BY <1>2, <3>2
  <2>3. CASE purpose # "golden"
    <3>1. pc' = pc /\ services' = services /\ host' = IF purpose = "all" THEN App!Taken ELSE "built"
      BY <1>12, <2>3 DEF App!Takes, App!Turns, App!guest
    <3>2. purpose = "all" /\ host' = "built" /\ App!HasSummary => result' = "VERIFIED"
      BY <2>1, <3>1 DEF App!Taken
    <3>3. New
      BY <1>4, <2>1, <3>1, <3>2 DEF Seen
    <3> QED
      BY <1>2, <3>3
  <2> QED
    BY <2>2, <2>3
<1> QED
  BY <1>6, <1>7, <1>8, <1>9, <1>10, <1>11, <1>12 DEF App!Next

LEMMA RecipesBegin == ASSUME BuildingInit PROVE RecipeInv
<1>1. RecipeTypes
  <2>1. recipe \in {"webStack", "lampStack", "jellyfin", "plex", "adguardHome", "syncthing", "seedbox", "icecast",
                   "sdrStation", "tvheadend", "vdiDesktop", "rdpDesktop"}
    BY DEF BuildingInit, App!Init
  <2>2. pc = 1 /\ attempts = 1 /\ below = [d \in App!AllData |-> "empty"]
    BY DEF BuildingInit, App!Init
  <2>3. below \in [App!AllData -> {"empty", "init", "used"}]
    BY <2>2
  <2>4. pc \in Nat /\ attempts \in Nat /\ attempts > 0
    BY <2>2
  <2> QED
    BY <2>1, <2>3, <2>4 DEF RecipeTypes
<1>2. Kept /\ LaidOut /\ Seen
  <2>1. Data \subseteq App!AllData
    BY DEF Data
  <2>2. \A i \in Steps : ~(i < 1)
    BY <1>1, Order DEF Steps
  <2> QED
    BY <2>1, <2>2 DEF BuildingInit, App!Init, Kept, LaidOut, Seen
<1> QED
  BY <1>1, <1>2 DEF RecipeInv

LEMMA RecipesGoOn == ASSUME RecipeInv, [BuildingNext]_all PROVE RecipeInv'
<1>1. CASE App!Next
  BY <1>1, RecipeTypesStep, KeptStep, LaidStep, SeenStep DEF RecipeInv
<1>2. CASE UNCHANGED recipeVars
  <2>1. Alike
    BY <1>2 DEF recipeVars, Alike
  <2>2. /\ App!Recipe' = App!Recipe /\ Steps' = Steps /\ Data' = Data /\ (App!HasSummary' <=> App!HasSummary)
        /\ \A i, kind : Doing(i, kind)' <=> Doing(i, kind)
    BY <2>1, SameSteps
  <2>3. RecipeTypes'
    BY <1>2 DEF recipeVars, RecipeInv, RecipeTypes, App!AllData
  <2>4. Kept'
    BY <1>2, <2>2 DEF recipeVars, RecipeInv, Kept
  <2>5. Seen'
    BY <1>2, <2>2 DEF recipeVars, RecipeInv, Seen, Serving
  <2>6. LaidOut'
    BY <1>2, <2>2 DEF recipeVars, RecipeInv, LaidOut, App!AllData
  <2> QED
    BY <2>3, <2>4, <2>5, <2>6 DEF RecipeInv
<1> QED
  BY <1>1, <1>2 DEF BuildingNext, all

\* However often a recipe dies, loses power or is run again, on whatever disk it
\* finds, a dataset lies over what a service keeps in its directory exactly where
\* the service was there after a run that had gone on without a pool: such a rerun
\* hides what it finds, and no other does (appDataset, the order of the recipes).
THEOREM DataStaysInside == BuildingSpec => []DataInside
<1>1. RecipeInv => DataInside
  BY DEF RecipeInv, Kept, LaidOut, DataInside, App!DataInside
<1> QED
  BY <1>1, RecipesBegin, RecipesGoOn, PTL DEF BuildingSpec

\* What build-all counts as built serves (recipeVerdict).
LEMMA VerdictSaysServing == BuildingSpec => []App!BuiltIsServing
<1>1. RecipeInv => App!BuiltIsServing
  <2> SUFFICES ASSUME RecipeInv PROVE App!BuiltIsServing
    OBVIOUS
  <2>1. Serving => App!Of({"serve"}) \subseteq services
    BY DEF App!Of, App!Steps, Serving, Steps, Doing
  <2> QED
    BY <2>1 DEF RecipeInv, Seen, App!BuiltIsServing
<1> QED
  BY <1>1, RecipesBegin, RecipesGoOn, PTL DEF BuildingSpec

-----------------------------------------------------------------------------
(* What is said to be built.                                               *)

\* Within one process what boots is an image that VerifyImage has passed or the file
\* a failed fetch has left in the cache, never one under way; the sums of a run are
\* those of its tiles, built is what its recipe says has come up and serves, and a
\* tile that was cancelled is gone (imageFetchMu, BuildAllAppliances, recipeVerdict).
\* With two processes the mutex is not one: see Build.
THEOREM BuiltStaysVerified == (\A p, q \in Builders : p = q) => (BuildingSpec => []BuiltIsVerified)
<1> SUFFICES ASSUME \A p, q \in Builders : p = q PROVE BuildingSpec => []BuiltIsVerified
  OBVIOUS
<1> DEFINE I == BuildInv /\ Cached /\ UndoNeeded /\ RunInv
<1>1. BuildingInit => I
  BY BuildInitHolds, CacheBegins, UndoBegins, RunInitHolds DEF BuildingInit
<1>2. I /\ [BuildingNext]_all => I'
  BY BuildPart, BuildInductive, CacheHolds, UndoStays, RunPart, RunInductive
<1>3. I /\ App!BuiltIsServing => BuiltIsVerified
  BY BuildSound, RunIsSound DEF BuiltIsVerified
<1> HIDE DEF I
<1> QED
  BY <1>1, <1>2, <1>3, VerdictSaysServing, PTL DEF BuildingSpec
=============================================================================
