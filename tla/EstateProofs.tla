----------------------------- MODULE EstateProofs -----------------------------
(***************************************************************************)
(* For any machines, microVMs, disks and goldens, and any failures: what    *)
(* --reconcile may take away and what its exit 0 means, what the demo's     *)
(* lanes see and tell of, what the window of a batch shows, and that one    *)
(* resize at a time keeps every layer of a disk inside the one below it.    *)
(***************************************************************************)
EXTENDS MCEstate, FiniteSetTheorems, TLAPS

-----------------------------------------------------------------------------
(* The resize of a disk (DiskResize).                                      *)

\* One dialog at a time; what TLC's run has.
OneAtATime == \A o, p \in Op : o = p

PC   == {"idle", "dialog", "refused", "set", "block", "script", "fs", "ok", "failed"}
GiB  == Nat \cup {None}
Task == [pc : PC, cur : GiB, on : BOOLEAN, want : GiB, before : GiB, full : BOOLEAN]

Types ==
  /\ disk \in Nat /\ dev \in Nat /\ part \in Nat /\ fs \in Nat /\ up \in BOOLEAN
  /\ task \in [Op -> Task]

\* The size a dialog has read is still the disk's until its own command sets it, and
\* what is set is more.
FreshTask(t, d) ==
  /\ t.pc \in {"dialog", "set"} => t.cur = d
  /\ t.pc = "set" => t.want \in Nat /\ t.want > d

Fresh == \A o \in Op : FreshTask(task[o], disk)

IInv == Types /\ Fresh /\ LayersInOrder

\* A field of a task takes any value of its type.
LEMMA TaskFields ==
  ASSUME NEW r \in Task, NEW s \in PC, NEW g \in GiB, NEW whole \in BOOLEAN
  PROVE  /\ [r EXCEPT !.pc = s] \in Task
         /\ [r EXCEPT !.pc = s, !.want = g] \in Task
         /\ [r EXCEPT !.pc = s, !.before = g] \in Task
         /\ [r EXCEPT !.pc = s, !.before = g, !.full = whole] \in Task
<1>1. [r EXCEPT !.pc = s] \in Task
  BY DEF Task
<1>2. \A q \in Task : [q EXCEPT !.want = g] \in Task /\ [q EXCEPT !.before = g] \in Task
  BY DEF Task
<1>3. \A q \in Task : [q EXCEPT !.full = whole] \in Task
  BY DEF Task
<1> QED
  BY <1>1, <1>2, <1>3

\* The image as it was installed, and no dialog.
LEMMA InitHolds == Init => IInv
<1> SUFFICES ASSUME Init PROVE IInv
  OBVIOUS
<1>1. Idle \in Task
  <2>1. None \in GiB
    BY DEF GiB
  <2> QED
    BY <2>1 DEF Idle, Task, PC
<1>2. Types
  BY <1>1 DEF Init, Types
<1>3. Fresh
  BY DEF Init, Fresh, FreshTask, Idle
<1> QED
  BY <1>2, <1>3 DEF Init, IInv, LayersInOrder

\* What is left to show when the one task becomes another.
LEMMA TaskSteps ==
  ASSUME OneAtATime, IInv, NEW o \in Op, NEW t \in Task, Put(o, t),
         disk' \in Nat, dev' \in Nat, part' \in Nat, fs' \in Nat, up' \in BOOLEAN,
         FreshTask(t, disk'), LayersInOrder'
  PROVE  IInv'
<1>1. Types'
  BY DEF IInv, Types, Put
<1>2. \A p \in Op : task'[p] = t
  BY DEF IInv, Types, Put, OneAtATime
<1>3. Fresh'
  BY <1>2 DEF Fresh
<1> QED
  BY <1>1, <1>3 DEF IInv

\* The steps of the one dialog, of the guest's script, of the guest.
LEMMA StepHolds == OneAtATime /\ IInv /\ [Next]_vars => IInv'
<1> SUFFICES ASSUME OneAtATime, IInv, [Next]_vars PROVE IInv'
  OBVIOUS
<1>a. Types /\ Fresh /\ LayersInOrder
  BY DEF IInv
<1>b. ASSUME NEW o \in Op
      PROVE /\ task[o] \in Task
            /\ \A s \in PC : [task[o] EXCEPT !.pc = s] \in Task
            /\ FreshTask(task[o], disk)
  BY <1>a DEF Types, Task, Fresh
<1>c. ASSUME NEW o \in Op, NEW s \in PC, s \notin {"dialog", "set"}, Go(o, s),
             disk' \in Nat, dev' \in Nat, part' \in Nat, fs' \in Nat, up' \in BOOLEAN, LayersInOrder'
      PROVE  IInv'
  <2> DEFINE t == [task[o] EXCEPT !.pc = s]
  <2>1. t \in Task /\ t.pc = s
    BY <1>b DEF Task
  <2>2. FreshTask(t, disk')
    BY <2>1, <1>c DEF FreshTask
  <2>3. Put(o, t)
    BY <1>c DEF Go
  <2> QED
    BY <2>1, <2>2, <2>3, <1>c, TaskSteps
<1>1. CASE UNCHANGED vars
  BY <1>1, <1>a DEF vars, guest, IInv, Types, Fresh, LayersInOrder
<1>2. ASSUME NEW o \in Op, Ask(o) PROVE IInv'
  <2> DEFINE t == [Idle EXCEPT !.pc = "dialog", !.cur = disk, !.on = up]
  <2>1. Put(o, t) /\ UNCHANGED <<disk, guest, up>>
    BY <1>2 DEF Ask
  <2>2. up \in BOOLEAN
    BY <1>a DEF Types
  <2>3. t \in Task /\ FreshTask(t, disk)
    BY <1>a, <2>2 DEF Types, Task, PC, GiB, Idle, FreshTask
  <2> QED
    BY <2>1, <2>3, <1>a, TaskSteps DEF guest, Types, LayersInOrder
<1>3. ASSUME NEW o \in Op, NEW g \in Size, Plan(o, g) PROVE IInv'
  <2> DEFINE t == [task[o] EXCEPT !.pc = IF Refused(o, g) THEN "refused" ELSE "set", !.want = g]
  <2>1. Put(o, t) /\ UNCHANGED <<disk, guest, up>> /\ task[o].pc = "dialog"
    BY <1>3 DEF Plan, At
  <2>2. t \in Task
    <3>1. g \in GiB
      BY DEF GiB, Size
    <3> QED
      BY <1>b, <3>1, TaskFields DEF PC
  <2>3. FreshTask(t, disk)
    BY <2>1, <1>a, <1>b DEF FreshTask, Refused, Size, Task, Types
  <2> QED
    BY <2>1, <2>2, <2>3, <1>a, TaskSteps DEF guest, Types, LayersInOrder
<1>4. ASSUME NEW o \in Op, SetSize(o) PROVE IInv'
  <2>1. CASE disk' = task[o].want /\ Go(o, "block")
    <3>1. disk' \in Nat /\ disk' > disk /\ UNCHANGED <<guest, up>>
      BY <1>4, <2>1, <1>b DEF SetSize, At, FreshTask
    <3> QED
      BY <2>1, <3>1, <1>a, <1>c DEF guest, Types, LayersInOrder, PC
  <2>2. CASE Go(o, "failed") /\ UNCHANGED disk
    BY <1>4, <2>2, <1>a, <1>c DEF SetSize, guest, Types, LayersInOrder, PC
  <2> QED
    BY <2>1, <2>2, <1>4 DEF SetSize
<1>5. ASSUME NEW o \in Op, BlockResize(o) PROVE IInv'
  <2>1. (Go(o, "script") \/ Go(o, "failed")) /\ (dev' = disk \/ dev' = dev)
        /\ UNCHANGED <<disk, part, fs, up>>
    BY <1>5 DEF BlockResize
  <2> QED
    BY <2>1, <1>a, <1>c DEF Types, LayersInOrder, PC
<1>6. ASSUME NEW o \in Op, GrowPart(o) PROVE IInv'
  <2>a. fs \in GiB
    BY <1>a DEF Types, GiB
  <2>1. UNCHANGED <<disk, dev, fs, up>> /\ (part' = part \/ part' = Larger(part, dev))
    BY <1>6 DEF GrowPart
  <2>2. part' \in Nat /\ LayersInOrder'
    BY <2>1, <1>a DEF Types, LayersInOrder, Larger
  <2>3. PICK t \in Task : Put(o, t) /\ FreshTask(t, disk)
    <3>1. CASE Put(o, [task[o] EXCEPT !.pc = "fs", !.before = fs, !.full = (part >= dev)])
      <4>1. ASSUME NEW whole \in BOOLEAN
            PROVE  [task[o] EXCEPT !.pc = "fs", !.before = fs, !.full = whole] \in Task
        BY <1>b, <2>a, TaskFields DEF PC
      <4>2. (part >= dev) \in BOOLEAN
        OBVIOUS
      <4> [task[o] EXCEPT !.pc = "fs", !.before = fs, !.full = (part >= dev)] \in Task
        BY <4>1, <4>2
      <4> QED
        BY <3>1, <1>b DEF FreshTask, Task
    <3>2. CASE Put(o, [task[o] EXCEPT !.pc = "fs", !.before = fs])
      <4> [task[o] EXCEPT !.pc = "fs", !.before = fs] \in Task
        BY <1>b, <2>a, TaskFields DEF PC
      <4> QED
        BY <3>2, <1>b DEF FreshTask, Task
    <3>3. CASE Go(o, "failed")
      <4> [task[o] EXCEPT !.pc = "failed"] \in Task
        BY <1>b DEF PC
      <4> QED
        BY <3>3, <1>b DEF FreshTask, Task, Go
    <3> QED
      BY <3>1, <3>2, <3>3, <1>6 DEF GrowPart
  <2> QED
    BY <2>1, <2>2, <2>3, <1>a, TaskSteps DEF Types
<1>7. ASSUME NEW o \in Op, GrowFs(o) PROVE IInv'
  <2>1. UNCHANGED <<disk, dev, part, up>> /\ (fs' = fs \/ fs' = Larger(fs, part))
    BY <1>7 DEF GrowFs
  <2>2. fs' \in Nat /\ LayersInOrder'
    BY <2>1, <1>a DEF Types, LayersInOrder, Larger
  <2>3. Go(o, "ok") \/ Go(o, "failed")
    BY <1>7 DEF GrowFs, Outcome
  <2> QED
    BY <2>1, <2>2, <2>3, <1>a, <1>c DEF Types, PC
<1>8. CASE Stop
  BY <1>8, <1>a DEF Stop, guest, IInv, Types, Fresh, LayersInOrder
<1>9. CASE Boot
  BY <1>9, <1>a DEF Boot, Larger, IInv, Types, Fresh, LayersInOrder
<1> QED
  BY <1>1, <1>2, <1>3, <1>4, <1>5, <1>6, <1>7, <1>8, <1>9 DEF Next

\* A partition never reaches past its device, nor a filesystem past its partition.
THEOREM LayersStay == OneAtATime => (Spec => []LayersInOrder)
<1> SUFFICES ASSUME OneAtATime PROVE Spec => []LayersInOrder
  OBVIOUS
<1>1. Init => IInv
  BY InitHolds
<1>2. IInv /\ [Next]_vars => IInv'
  BY StepHolds
<1>3. IInv => LayersInOrder
  BY DEF IInv
<1> QED
  BY <1>1, <1>2, <1>3, PTL DEF Spec

-----------------------------------------------------------------------------
(* vmx --reconcile (Reconcile).                                            *)

Volume == Names \X Kinds
ReadPC == {"idle", "list", "stats", "xml", "failed"}

\* A definition names all disks of its machine or was not read.
Whole(set) == \A n \in Names : Rec!Disks(n) \subseteq set \/ Rec!Disks(n) \cap set = {}

\* A read knows disks of machines it has listed.
ReadIsWhole ==
  LET r == rd["rec"] IN
  /\ r.doms \subseteq Names /\ r.todo \subseteq r.doms
  /\ r.disks \subseteq Volume /\ Whole(r.disks)
  /\ \A v \in r.disks : v[1] \in r.doms
  /\ r.pc \in {"list", "stats"} => r.todo = {} /\ r.disks = {}

ReadRec == [pc : ReadPC, doms : SUBSET Names, on : SUBSET Names, todo : SUBSET Names, disks : SUBSET Volume]

RecTypes ==
  /\ rd \in [Readers -> ReadRec]
  /\ vols \in SUBSET Volume /\ pool \in SUBSET Volume /\ reg \in SUBSET Names
  /\ gone \in [vols : SUBSET Volume, names : SUBSET Names, missed : SUBSET Volume]
  /\ named \in SUBSET Volume /\ pass \in {1, 2}

\* What may be cleared: a name none of whose disks was named, a disk that was not.
Clearable(w) ==
  \/ \E n \in Names : w = <<n, "ghost", "absent", FALSE>> /\ Rec!Disks(n) \cap named = {}
  \/ \E v \in Volume : w = <<v, "orphan", "no domain", TRUE>> /\ v \notin named

\* Nothing is taken before the read to act on was joined, and then what may be.
Acts ==
  /\ pass = 1 /\ pc \in {"estate", "register"} => gone.vols = {} /\ gone.names = {}
  /\ pc = "clear" => pass = 1 /\ \A w \in todo : Clearable(w)
  /\ Whole(named)

\* The answer is the last step.
Answers == (pc # "done" => left = {}) /\ Rec!ExitZeroMeansClear

RecInv == RecTypes /\ ReadIsWhole /\ Acts /\ Answers /\ Rec!ClearsNoKnownMachine

LEMMA RecFacts ==
  /\ "rec" \in Readers /\ "root" \in Kinds /\ MicroVMs \subseteq Names
  /\ \A n \in Names : Rec!Disks(n) \in SUBSET Volume /\ \A v \in Rec!Disks(n) : v[1] = n
  BY HostAssumption DEF Rec!EstateAssumption, Rec!ReconcileAssumption, Rec!Disks, Volume

LEMMA RecInitHolds == Rec!Init => RecInv
<1> SUFFICES ASSUME Rec!Init PROVE RecInv
  OBVIOUS
<1> USE RecFacts DEF Rec!Init, Rec!EstateInit
<1>1. rd["rec"] = Rec!NoRead
  OBVIOUS
<1>2. ReadIsWhole
  BY <1>1 DEF ReadIsWhole, Rec!NoRead, Whole
<1>3. RecTypes
  <2>1. vols \in SUBSET Volume
    OBVIOUS
  <2> QED
    BY <2>1 DEF RecTypes, ReadRec, Rec!NoRead, ReadPC
<1>4. Acts /\ Answers /\ Rec!ClearsNoKnownMachine
  BY DEF Acts, Answers, Whole, Rec!ExitZeroMeansClear, Rec!ClearsNoKnownMachine
<1> QED
  BY <1>2, <1>3, <1>4 DEF RecInv

\* Another read, or the same one further on, of whatever the host has by then.
LEMMA ReadingHolds ==
  ASSUME RecTypes, ReadIsWhole, Rec!Reading
  PROVE  ReadIsWhole' /\ rd' \in [Readers -> ReadRec]
<1>0. Rec!Defined \in SUBSET Names
  BY DEF Rec!Defined, Rec!VM
<1> DEFINE r0 == rd["rec"]
           Sound(r) == /\ r \in ReadRec /\ r.todo \subseteq r.doms /\ Whole(r.disks)
                       /\ \A v \in r.disks : v[1] \in r.doms
                       /\ r.pc \in {"list", "stats"} => r.todo = {} /\ r.disks = {}
<1>1. r0 \in ReadRec /\ Sound(r0) /\ rd \in [Readers -> ReadRec] /\ "rec" \in Readers
  BY RecFacts DEF ReadIsWhole, RecTypes
<1>2. ASSUME NEW r, Sound(r), rd' = [rd EXCEPT !["rec"] = r]
      PROVE  ReadIsWhole' /\ rd' \in [Readers -> ReadRec]
  <2>1. rd'["rec"] = r
    BY <1>1, <1>2
  <2>2. rd' \in [Readers -> ReadRec]
    BY <1>1, <1>2
  <2>3. r.doms \subseteq Names /\ r.disks \subseteq Volume
    BY <1>2 DEF ReadRec
  <2> QED
    BY <1>2, <2>1, <2>2, <2>3 DEF ReadIsWhole, Whole
<1>3. CASE Rec!Begin("rec")
  <2> DEFINE q == [Rec!NoRead EXCEPT !.pc = "list"]
  <2>1. q \in ReadRec /\ q.todo = {} /\ q.disks = {}
    BY DEF Rec!NoRead, ReadRec, ReadPC
  <2>2. Sound(q)
    BY <2>1 DEF Whole
  <2>3. rd' = [rd EXCEPT !["rec"] = q]
    BY <1>3 DEF Rec!Begin, Rec!Step
  <2> HIDE DEF Sound, q
  <2> QED
    BY <1>2, <2>2, <2>3
<1>4. Sound(Rec!Failed("rec"))
  <2>1. Rec!Failed("rec") = [r0 EXCEPT !.pc = "failed"]
    BY DEF Rec!Failed
  <2> DEFINE q == [r0 EXCEPT !.pc = "failed"]
  <2>2. q \in ReadRec /\ q.pc = "failed" /\ q.doms = r0.doms /\ q.todo = r0.todo /\ q.disks = r0.disks
    BY <1>1 DEF ReadRec, ReadPC
  <2>3. Sound(q)
    BY <1>1, <2>2
  <2> HIDE DEF Sound
  <2> QED
    BY <2>1, <2>3
<1>5. CASE Rec!List("rec")
  <2> DEFINE q == [r0 EXCEPT !.pc = "stats", !.doms = Rec!Defined]
  <2>1. r0.todo = {} /\ r0.disks = {}
    BY <1>1, <1>5 DEF Rec!List
  <2>2. q \in ReadRec /\ q.todo = {} /\ q.disks = {}
    BY <1>0, <1>1, <2>1 DEF ReadRec, ReadPC
  <2>3. Sound(q)
    BY <2>2 DEF Whole
  <2>4. rd' = [rd EXCEPT !["rec"] = q] \/ rd' = [rd EXCEPT !["rec"] = Rec!Failed("rec")]
    BY <1>5 DEF Rec!List, Rec!Listed, Rec!Step
  <2> HIDE DEF Sound, q
  <2> QED
    BY <1>2, <1>4, <2>3, <2>4
<1>6. CASE Rec!Stats("rec")
  <2> DEFINE there == r0.doms \cap Rec!Defined
             q == [r0 EXCEPT !.pc = "xml", !.doms = there, !.on = there \cap Rec!Running, !.todo = there]
  <2>1. r0.disks = {}
    BY <1>1, <1>6 DEF Rec!Stats
  <2>2. q \in ReadRec /\ q.todo = q.doms /\ q.disks = {} /\ q.pc = "xml"
    <3>1. there \in SUBSET Names /\ there \cap Rec!Running \in SUBSET Names
      BY <1>0
    <3> HIDE DEF there
    <3> QED
      BY <1>1, <2>1, <3>1 DEF ReadRec, ReadPC
  <2>3. Sound(q)
    BY <2>2 DEF Whole
  <2>4. rd' = [rd EXCEPT !["rec"] = q] \/ rd' = [rd EXCEPT !["rec"] = Rec!Failed("rec")]
    BY <1>6 DEF Rec!Stats, Rec!Step
  <2> HIDE DEF Sound, q
  <2> QED
    BY <1>2, <1>4, <2>3, <2>4
<1>7. ASSUME NEW n \in Names, Rec!Definition("rec", n) PROVE ReadIsWhole' /\ rd' \in [Readers -> ReadRec]
  <2> DEFINE more == IF LvOf["rec"] \in alive /\ n \in Rec!Defined THEN r0.disks \cup Rec!Disks(n) ELSE r0.disks
             q == [r0 EXCEPT !.todo = r0.todo \ {n}, !.disks = more]
  <2>1. r0.pc = "xml" /\ n \in r0.todo /\ rd' = [rd EXCEPT !["rec"] = q]
    BY <1>7 DEF Rec!Definition, Rec!Step
  <2>2. more \in SUBSET Volume /\ Whole(more) /\ \A v \in more : v[1] \in r0.doms
    <3>1. n \in r0.doms /\ r0.disks \in SUBSET Volume /\ Whole(r0.disks) /\ \A v \in r0.disks : v[1] \in r0.doms
      BY <1>1, <2>1 DEF ReadRec
    <3>2. \A m \in Names : Rec!Disks(m) \in SUBSET Volume /\ \A v \in Rec!Disks(m) : v[1] = m
      BY RecFacts
    <3>3. Whole(r0.disks \cup Rec!Disks(n))
      <4> SUFFICES ASSUME NEW m \in Names
                   PROVE  \/ Rec!Disks(m) \subseteq r0.disks \cup Rec!Disks(n)
                          \/ Rec!Disks(m) \cap (r0.disks \cup Rec!Disks(n)) = {}
        BY DEF Whole
      <4> QED
        BY <3>1, <3>2 DEF Whole
    <3> QED
      BY <3>1, <3>2, <3>3
  <2> HIDE DEF more
  <2>3. q \in ReadRec /\ q.doms = r0.doms /\ q.pc = "xml" /\ q.todo = r0.todo \ {n} /\ q.disks = more
    BY <1>1, <2>1, <2>2 DEF ReadRec
  <2>4. Sound(q)
    BY <1>1, <2>2, <2>3
  <2> HIDE DEF Sound, q
  <2> QED
    BY <1>2, <2>1, <2>4
<1> QED
  BY <1>3, <1>5, <1>6, <1>7 DEF Rec!Reading, Rec!Me

\* The host goes on and leaves what --reconcile has read and planned.
LEMMA OthersHold == ASSUME RecInv, Rec!Others PROVE RecInv'
<1>1. vols' \in SUBSET Volume /\ reg' \in SUBSET Names
  <2>1. vols \in SUBSET Volume /\ reg \in SUBSET Names
    BY DEF RecInv, RecTypes
  <2> QED
    BY <2>1, RecFacts DEF Rec!Others, Rec!World, Rec!MakeDisks, Rec!Define, Rec!Power, Rec!Undefine, Rec!Down,
       Rec!Up, Rec!Changes, Rec!host
<1>2. UNCHANGED <<rd, pc, pass, pool, todo, code, blind, named, gone, left>>
  BY DEF Rec!Others, Rec!World, Rec!MakeDisks, Rec!Define, Rec!Power, Rec!Undefine, Rec!Down,
     Rec!Up, Rec!Changes, Rec!local
<1> QED
  BY <1>1, <1>2 DEF RecInv, RecTypes, ReadIsWhole, Acts, Answers, Whole, Clearable, Rec!ExitZeroMeansClear,
     Rec!ClearsNoKnownMachine

\* The answer to the second read: 0 is given only where no name is left.
LEMMA AnswerTells ==
  ASSUME NEW rows, NEW n, <<n, "ghost", "absent", FALSE>> \in rows
  PROVE  Rec!Answer(rows) # 0
BY DEF Rec!Answer

LEMMA LoadHolds == ASSUME RecInv, Rec!LoadAnnotations PROVE RecInv'
<1>1. PICK regs \in {reg, {}} :
        /\ IF regs = reg THEN UNCHANGED <<recFaults, blind>>
                         ELSE recFaults < MaxCommand /\ recFaults' = recFaults + 1 /\ blind' = TRUE
        /\ IF pass = 1
           THEN /\ todo' = Rec!Unreconciled(regs) /\ named' = Rec!r0.disks
                /\ IF todo' = {} THEN Rec!Exit(0) ELSE pc' = "clear" /\ UNCHANGED code
                /\ UNCHANGED left
           ELSE /\ left' = reg \ Rec!r0.doms
                /\ Rec!Exit(Rec!Answer(Rec!Unreconciled(regs)))
                /\ UNCHANGED <<todo, named>>
  BY DEF Rec!LoadAnnotations
<1>2. /\ RecTypes /\ ReadIsWhole /\ Acts /\ Answers /\ Rec!ClearsNoKnownMachine
      /\ pc = "register" /\ UNCHANGED <<vols, reg, rd, pass, pool, gone>>
  BY DEF RecInv, Rec!LoadAnnotations, Rec!estateVars, Rec!host
<1>3. rd["rec"].disks \in SUBSET Volume /\ Whole(rd["rec"].disks) /\ rd["rec"] = Rec!r0 /\ left = {}
  BY <1>2 DEF ReadIsWhole, Answers, Rec!r0, Rec!Me
<1>4. RecTypes' /\ ReadIsWhole'
  BY <1>1, <1>2, <1>3 DEF RecTypes, ReadIsWhole, Whole
<1>5. CASE pass = 1
  <2>1. named' = rd["rec"].disks /\ left' = {} /\ todo' = Rec!Unreconciled(regs)
        /\ (pc' = "done" \/ pc' = "clear") /\ pass' = 1 /\ gone' = gone /\ gone.vols = {} /\ gone.names = {}
    BY <1>1, <1>2, <1>3, <1>5 DEF Rec!Exit, Acts
  <2>2. \A w \in todo' : Clearable(w)'
    <3> SUFFICES ASSUME NEW w \in todo' PROVE Clearable(w)'
      OBVIOUS
    <3>1. regs \in SUBSET Names /\ pool \in SUBSET Volume
      BY <1>2 DEF RecTypes
    <3>2. CASE w \in Rec!Ghosts(rd["rec"].doms, regs)
      <4>1. PICK n \in regs \ rd["rec"].doms : w = <<n, "ghost", "absent", FALSE>>
        BY <3>2 DEF Rec!Ghosts
      <4>2. Rec!Disks(n) \cap rd["rec"].disks = {}
        BY <4>1, <1>2, <3>1, RecFacts DEF ReadIsWhole
      <4>3. n \in Names /\ Rec!Disks(n) \cap named' = {}
        BY <4>1, <4>2, <3>1, <2>1
      <4> QED
        BY <4>1, <4>3 DEF Clearable
    <3>3. CASE w \in Rec!Orphans(rd["rec"].disks, pool)
      <4>1. PICK v \in pool \ rd["rec"].disks : w = <<v, "orphan", "no domain", TRUE>>
        BY <3>3 DEF Rec!Orphans
      <4> QED
        BY <4>1, <3>1, <2>1 DEF Clearable
    <3> QED
      BY <2>1, <3>2, <3>3, <1>3 DEF Rec!Unreconciled
  <2>3. Whole(named')
    BY <2>1, <1>3
  <2> QED
    BY <1>4, <2>1, <2>2, <2>3 DEF RecInv, Acts, Answers, Rec!ExitZeroMeansClear, Rec!ClearsNoKnownMachine, Whole
<1>6. CASE pass = 2
  <2>1. /\ left' = reg \ rd["rec"].doms /\ pc' = "done" /\ pass' = 2 /\ named' = named /\ gone' = gone
        /\ code' = Rec!Answer(Rec!Unreconciled(regs))
    BY <1>1, <1>2, <1>3, <1>6 DEF Rec!Exit
  <2>2. Acts' /\ Rec!ClearsNoKnownMachine'
    BY <2>1, <1>2 DEF Acts, Whole, Rec!ClearsNoKnownMachine
  <2>3. code' = 0 => left' = {} \/ blind'
    <3> SUFFICES ASSUME code' = 0, left' # {}, ~blind' PROVE FALSE
      OBVIOUS
    <3>1. regs = reg
      BY <1>1
    <3>2. PICK n \in reg \ rd["rec"].doms : TRUE
      BY <2>1
    <3>3. <<n, "ghost", "absent", FALSE>> \in Rec!Unreconciled(regs)
      BY <3>1, <3>2, <1>3 DEF Rec!Unreconciled, Rec!Ghosts
    <3> QED
      BY <3>3, <2>1, AnswerTells
  <2> QED
    BY <1>4, <2>1, <2>2, <2>3 DEF RecInv, Answers, Rec!ExitZeroMeansClear
<1> QED
  BY <1>2, <1>5, <1>6 DEF RecTypes

\* One row of those that may be cleared.
LEMMA ClearHolds == ASSUME RecInv, NEW w \in todo, Rec!Forget(w) \/ Rec!DestroyOrphan(w) PROVE RecInv'
<1>1. /\ RecTypes /\ ReadIsWhole /\ Acts /\ Answers /\ Rec!ClearsNoKnownMachine
      /\ pc = "clear" /\ UNCHANGED <<rd, pc, pass, pool, named, code, left, blind>> /\ todo' = todo \ {w}
  BY DEF RecInv, Rec!Forget, Rec!DestroyOrphan
<1>2. pass = 1 /\ Clearable(w) /\ Whole(named) /\ left = {} /\ named \in SUBSET Volume
  BY <1>1 DEF Acts, Answers, RecTypes
<1>3. /\ gone \in [vols : SUBSET Volume, names : SUBSET Names, missed : SUBSET Volume]
      /\ vols \in SUBSET Volume /\ reg \in SUBSET Names
  BY <1>1 DEF RecTypes
<1>4. /\ vols' \in SUBSET Volume /\ reg' \in SUBSET Names
      /\ gone' \in [vols : SUBSET Volume, names : SUBSET Names, missed : SUBSET Volume]
      /\ Rec!ClearsNoKnownMachine'
  <2>1. CASE Rec!Forget(w)
    <3>1. CASE UNCHANGED <<reg, gone>>
      BY <2>1, <3>1, <1>1, <1>3 DEF Rec!Forget, Rec!ClearsNoKnownMachine
    <3>2. CASE Rec!Forgets(w[1])
      <4>1. PICK n \in Names : w = <<n, "ghost", "absent", FALSE>> /\ Rec!Disks(n) \cap named = {}
        <5>1. w[2] = "ghost"
          BY <2>1 DEF Rec!Forget
        <5>2. ASSUME NEW v \in Volume, w = <<v, "orphan", "no domain", TRUE>> PROVE FALSE
          BY <5>1, <5>2
        <5> QED
          BY <5>2, <1>2 DEF Clearable
      <4>2. gone' = [gone EXCEPT !.names = gone.names \cup {n}] /\ reg' = reg \ {n} /\ vols' = vols
        BY <2>1, <3>2, <4>1 DEF Rec!Forgets, Rec!Forget
      <4>3. gone'.vols = gone.vols /\ gone'.names = gone.names \cup {n}
            /\ gone' \in [vols : SUBSET Volume, names : SUBSET Names, missed : SUBSET Volume]
        BY <4>2, <1>3
      <4> QED
        BY <4>1, <4>2, <4>3, <1>1, <1>3 DEF Rec!ClearsNoKnownMachine
    <3> QED
      BY <2>1, <3>1, <3>2 DEF Rec!Forget
  <2>2. CASE Rec!DestroyOrphan(w)
    <3>1. CASE UNCHANGED <<vols, reg, gone>>
      BY <3>1, <1>1, <1>3 DEF Rec!ClearsNoKnownMachine
    <3>2. CASE ~UNCHANGED <<vols, reg, gone>>
      <4>1. PICK v \in Volume : w = <<v, "orphan", "no domain", TRUE>> /\ v \notin named
        <5>1. w[2] = "orphan"
          BY <2>2 DEF Rec!DestroyOrphan
        <5>2. ASSUME NEW n \in Names, w = <<n, "ghost", "absent", FALSE>> PROVE FALSE
          BY <5>1, <5>2
        <5> QED
          BY <5>2, <1>2 DEF Clearable
      <4> DEFINE n == v[1]
                 names == IF v[2] = "root" THEN gone.names \cup {n} ELSE gone.names
                 missed == IF mach[n] = "none" THEN gone.missed ELSE gone.missed \cup {v}
      <4>2. /\ vols' = vols \ {v} /\ reg' = (IF v[2] = "root" THEN reg \ {n} ELSE reg)
            /\ gone' = [vols |-> gone.vols \cup {v}, names |-> names, missed |-> missed]
        BY <2>2, <3>2, <4>1 DEF Rec!DestroyOrphan
      <4>3. n \in Names /\ v \in Rec!Disks(n)
        BY DEF Volume, Rec!Disks
      <4>4. Rec!Disks(n) \cap named = {}
        BY <4>1, <4>3, <1>2 DEF Whole
      <4>5. names \in SUBSET Names /\ missed \in SUBSET Volume
            /\ \A m \in names : m \in gone.names \/ m = n
        BY <1>3, <4>3
      <4> HIDE DEF names, missed
      <4> QED
        BY <4>1, <4>2, <4>3, <4>4, <4>5, <1>1, <1>3 DEF Rec!ClearsNoKnownMachine
    <3> QED
      BY <3>1, <3>2
  <2> QED
    BY <2>1, <2>2
<1>5. RecTypes' /\ ReadIsWhole'
  BY <1>1, <1>4 DEF RecTypes, ReadIsWhole, Whole
<1>6. Acts'
  BY <1>1, <1>2 DEF Acts, Clearable, Whole
<1>7. Answers'
  BY <1>1 DEF Answers, Rec!ExitZeroMeansClear
<1> QED
  BY <1>4, <1>5, <1>6, <1>7 DEF RecInv

\* Every step of --reconcile keeps what its two clauses rest on.
LEMMA RecStepHolds == RecInv /\ [Rec!Next]_Rec!vars => RecInv'
<1> SUFFICES ASSUME RecInv, [Rec!Next]_Rec!vars PROVE RecInv'
  OBVIOUS
<1>1. RecTypes /\ ReadIsWhole /\ Acts /\ Answers /\ Rec!ClearsNoKnownMachine
  BY DEF RecInv
<1>2. CASE Rec!Reading
  <2>1. UNCHANGED <<vols, reg, pc, pass, pool, todo, code, named, gone, left, blind>>
    BY <1>2 DEF Rec!Reading, Rec!Begin, Rec!List, Rec!Stats, Rec!Definition, Rec!Step, Rec!host, Rec!local
  <2>2. ReadIsWhole' /\ RecTypes'
    BY <1>1, <1>2, <2>1, ReadingHolds DEF RecTypes
  <2> QED
    BY <1>1, <2>1, <2>2 DEF RecInv, Acts, Answers, Whole, Clearable, Rec!ExitZeroMeansClear, Rec!ClearsNoKnownMachine
<1>3. CASE Rec!NoEstate
  <2>1. UNCHANGED <<vols, reg, rd, pass, pool, todo, named, gone, left, blind>> /\ pc' = "done" /\ code' = 1
        /\ left = {}
    BY <1>1, <1>3 DEF Rec!NoEstate, Rec!Exit, Rec!estateVars, Rec!host, Rec!local, Answers
  <2> QED
    BY <1>1, <2>1 DEF RecInv, RecTypes, ReadIsWhole, Acts, Answers, Whole, Rec!ExitZeroMeansClear,
       Rec!ClearsNoKnownMachine
<1>4. CASE Rec!ListDatasets
  <2>1. UNCHANGED <<vols, reg, rd, pass, todo, code, named, gone, left>> /\ pc' = "register" /\ pc = "estate"
        /\ (pool' = vols \/ pool' = {}) /\ (blind' = blind \/ blind' = TRUE)
    BY <1>4 DEF Rec!ListDatasets, Rec!estateVars, Rec!host, Rec!local
  <2> QED
    BY <1>1, <2>1 DEF RecInv, RecTypes, ReadIsWhole, Acts, Answers, Whole, Rec!ExitZeroMeansClear,
       Rec!ClearsNoKnownMachine
<1>5. CASE Rec!Again
  <2>1. UNCHANGED <<vols, reg, pool, todo, code, named, gone, left, blind>> /\ pc' = "estate" /\ pass' = 2 /\ pc = "clear"
        /\ rd' = [rd EXCEPT !["rec"] = Rec!NoRead]
    BY <1>5 DEF Rec!Again, Rec!host, Rec!local, Rec!Me
  <2>2. rd'["rec"] = Rec!NoRead /\ RecTypes'
    BY <1>1, <2>1, RecFacts DEF RecTypes, ReadRec, ReadPC, Rec!NoRead
  <2>3. ReadIsWhole'
    BY <2>2 DEF ReadIsWhole, Rec!NoRead, Whole
  <2> QED
    BY <1>1, <2>1, <2>2, <2>3 DEF RecInv, Acts, Answers, Whole, Rec!ExitZeroMeansClear, Rec!ClearsNoKnownMachine
<1>6. CASE UNCHANGED Rec!vars
  BY <1>1, <1>6 DEF Rec!vars, Rec!estateVars, Rec!host, RecInv, RecTypes, ReadIsWhole, Acts, Answers, Whole,
     Clearable, Rec!ExitZeroMeansClear, Rec!ClearsNoKnownMachine
<1> QED
  BY <1>2, <1>3, <1>4, <1>5, <1>6, OthersHold, LoadHolds, ClearHolds DEF Rec!Next

-----------------------------------------------------------------------------
(* The job of "Deploy the demo estate" (Demo).                             *)

LanePC  == {"clone", "old", "ask", "judge", "land", "done"}
LaneRec == [pc : LanePC, made : Nat, tries : Nat, fresh : SUBSET Dem!Machine]
Asking  == {"old", "ask", "judge"}

Awaited(l) == {l} \X (1..Count[l])

\* The read under way, and the cache, have all that the lane waits for.
SlowHas(l)  == slow.busy => Awaited(l) \subseteq slow.got
CacheHas(l) == Awaited(l) \subseteq cached.got

DemTypes ==
  /\ addressed \in SUBSET Dem!Machine /\ everything \in SUBSET Dem!Machine
  /\ slow \in [busy : BOOLEAN, got : SUBSET Dem!Machine]
  /\ cached \in [got : SUBSET Dem!Machine, young : BOOLEAN]
  /\ lane \in [Lanes -> LaneRec] /\ good \in [Lanes -> Nat]

\* What a lane knows of its g readings since all that it waits for had addresses:
\* after the first, no read under way is older than that; after the second, no
\* young cache is.
Knows(l, p, g) ==
  /\ g >= 1 => Awaited(l) \subseteq addressed
  /\ p \in {"clone", "done"} => g = 0
  /\ p \in Asking => g <= 2
  /\ g = 1 /\ p = "ask" => (cached.young => SlowHas(l))
  /\ g = 1 /\ p = "judge" => SlowHas(l)
  /\ g = 2 /\ p \in Asking => SlowHas(l)
  /\ g = 2 /\ p = "ask" => (cached.young => CacheHas(l))
  /\ g = 2 /\ p = "judge" => CacheHas(l)

LaneTold(l) ==
  \/ l \in errs \/ l \in notes
  \/ /\ Awaited(l) \subseteq everything
     /\ "wall" \in Follow[l] \/ Awaited(l) \subseteq opened

LaneInv(l) ==
  /\ Knows(l, lane[l].pc, good[l])
  /\ lane[l].fresh \subseteq Awaited(l)
  /\ lane[l].pc = "done" => LaneTold(l)

DemInv ==
  /\ DemTypes /\ \A l \in Lanes : LaneInv(l)
  /\ summary => \A l \in Lanes : lane[l].pc = "done"

LEMMA DemSameCount == \A S : Dem!Cardinality(S) = Cardinality(S)
  BY DEF Dem!Cardinality, Cardinality

\* A lane's microVMs are those it asks for, Count[l] of them.
LEMMA AwaitedIs ==
  ASSUME NEW l \in Lanes
  PROVE  /\ Dem!Of(l, Dem!Machine) = Awaited(l) /\ Awaited(l) \subseteq Dem!Machine
         /\ Count[l] \in Nat \ {0}
         /\ \A S \in SUBSET Dem!Machine : Dem!Of(l, S) = S \cap Awaited(l)
<1>1. Count[l] \in Nat \ {0}
  BY WindowAssumption DEF Dem!DemoAssumption
<1>2. \A m : m \in Dem!Machine <=> \E k \in Lanes : m \in {k} \X (1..Count[k])
  BY DEF Dem!Machine
<1>3. Awaited(l) \subseteq Dem!Machine
  BY <1>2 DEF Awaited
<1>4. \A m \in Dem!Machine : m[1] = l <=> m \in Awaited(l)
  BY <1>2 DEF Awaited
<1> QED
  BY <1>1, <1>3, <1>4 DEF Dem!Of

LEMMA AllOfThem ==
  ASSUME NEW l \in Lanes, NEW S \in SUBSET Awaited(l), ~(Dem!Cardinality(S) < Count[l])
  PROVE  S = Awaited(l)
<1>1. Count[l] \in Nat
  BY AwaitedIs
<1>2. IsFiniteSet(Awaited(l)) /\ Cardinality(Awaited(l)) = Count[l]
  <2>1. IsFiniteSet({l}) /\ Cardinality({l}) = 1
    BY FS_Singleton
  <2>2. IsFiniteSet(1..Count[l]) /\ Cardinality(1..Count[l]) = Count[l]
    BY <1>1, FS_Interval
  <2>3. Cardinality({l} \X (1..Count[l])) = 1 * Count[l] /\ IsFiniteSet({l} \X (1..Count[l]))
    BY <2>1, <2>2, FS_Product
  <2> QED
    BY <1>1, <2>3 DEF Awaited
<1>3. Cardinality(S) \in Nat /\ ~(Cardinality(S) < Count[l]) /\ Cardinality(S) <= Count[l]
  BY <1>2, FS_Subset, FS_CardinalityType, DemSameCount
<1> QED
  BY <1>1, <1>2, <1>3, FS_Subset

LEMMA DemInitHolds == Dem!Init => DemInv
<1> SUFFICES ASSUME Dem!Init PROVE DemInv
  OBVIOUS
<1>1. DemTypes
  BY DEF Dem!Init, DemTypes, LaneRec, LanePC, Dem!First, Dem!Free
<1>2. ASSUME NEW l \in Lanes PROVE LaneInv(l)
  BY DEF Dem!Init, LaneInv, Knows, Asking, Dem!First
<1>3. ~summary
  BY DEF Dem!Init
<1> QED
  BY <1>1, <1>2, <1>3 DEF DemInv

\* What others do to the cache and the addresses, that a lane does not notice.
Unnoticed(l) ==
  /\ addressed \subseteq addressed'
  /\ good[l] >= 1 /\ SlowHas(l) => SlowHas(l)'
  /\ SlowHas(l) /\ CacheHas(l) => CacheHas(l)'
  /\ good[l] >= 1 /\ (cached.young => SlowHas(l)) => (cached'.young => SlowHas(l)')
  /\ SlowHas(l) /\ (cached.young => CacheHas(l)) => (cached'.young => CacheHas(l)')

LEMMA RestingLane ==
  ASSUME DemInv, NEW l \in Lanes, Unnoticed(l), lane'[l] = lane[l], good'[l] = good[l],
         errs \subseteq errs', notes \subseteq notes', everything \subseteq everything', opened \subseteq opened'
  PROVE  LaneInv(l)'
<1>1. LaneInv(l) /\ good[l] \in Nat
  BY DEF DemInv, DemTypes
<1>2. Knows(l, lane[l].pc, good[l])'
  BY <1>1 DEF LaneInv, Knows, Unnoticed, Asking
<1>3. LaneTold(l) => LaneTold(l)'
  BY DEF LaneTold
<1> QED
  BY <1>1, <1>2, <1>3 DEF LaneInv, Awaited

\* After a failed read or a Destroy all a lane counts from the beginning.
LEMMA ResetLane ==
  ASSUME DemInv, NEW l \in Lanes, lane' = lane, good' = [k \in Lanes |-> 0], UNCHANGED <<errs, notes, everything, opened>>
  PROVE  LaneInv(l)'
BY DEF DemInv, LaneInv, LaneTold, Knows, Asking, Awaited

\* Steps of the host, the cache and the window: no lane moves.
LEMMA CacheHolds ==
  ASSUME DemInv,
         \/ \E m \in Dem!Machine : Dem!Addressed(m)
         \/ Dem!DestroyAll \/ Dem!Begin \/ Dem!Store \/ Dem!Ages \/ Dem!Cancel \/ Dem!Summary
  PROVE  DemInv'
<1>1. /\ DemTypes /\ \A l \in Lanes : LaneInv(l)
      /\ summary => \A l \in Lanes : lane[l].pc = "done"
  BY DEF DemInv
<1>2. UNCHANGED <<lane, errs, notes, everything, opened>>
  BY DEF Dem!Addressed, Dem!DestroyAll, Dem!Begin, Dem!Store, Dem!Ages, Dem!Cancel, Dem!Summary, Dem!jobVars
<1>3. summary' => \A l \in Lanes : lane'[l].pc = "done"
  BY <1>1, <1>2 DEF Dem!Addressed, Dem!DestroyAll, Dem!Begin, Dem!Store, Dem!Ages, Dem!Cancel, Dem!Summary
<1>4. \A l \in Lanes : good[l] >= 1 => Awaited(l) \subseteq addressed
  BY <1>1 DEF LaneInv, Knows
<1>5. CASE \E m \in Dem!Machine : Dem!Addressed(m)
  <2>1. PICK m \in Dem!Machine : addressed' = addressed \cup {m} /\ UNCHANGED <<cached, slow, good>>
    BY <1>5 DEF Dem!Addressed
  <2>2. DemTypes'
    BY <1>1, <1>2, <2>1 DEF DemTypes
  <2>3. \A l \in Lanes : Unnoticed(l)
    BY <2>1 DEF Unnoticed, SlowHas, CacheHas, Awaited
  <2> QED
    BY <1>2, <1>3, <2>1, <2>2, <2>3, RestingLane DEF DemInv
<1>6. CASE Dem!DestroyAll
  <2>1. addressed' = {} /\ good' = [l \in Lanes |-> 0] /\ slow' = slow
        /\ (cached' = cached \/ cached' = [cached EXCEPT !.young = FALSE])
    BY <1>6 DEF Dem!DestroyAll
  <2>2. DemTypes'
    BY <1>1, <1>2, <2>1 DEF DemTypes
  <2> QED
    BY <1>2, <1>3, <2>1, <2>2, ResetLane DEF DemInv
<1>7. CASE Dem!Begin
  <2>1. slow' = [busy |-> TRUE, got |-> addressed] /\ UNCHANGED <<addressed, cached, good>>
    BY <1>7 DEF Dem!Begin, Dem!hostVars
  <2>2. DemTypes'
    BY <1>1, <1>2, <2>1 DEF DemTypes
  <2>3. \A l \in Lanes : Unnoticed(l)
    BY <1>4, <1>7, <2>1 DEF Unnoticed, SlowHas, CacheHas, Awaited, Dem!Begin
  <2> QED
    BY <1>2, <1>3, <2>1, <2>2, <2>3, RestingLane DEF DemInv
<1>8. CASE Dem!Store
  <2>1. slow.busy /\ slow' = [busy |-> FALSE, got |-> {}] /\ addressed' = addressed
    BY <1>8 DEF Dem!Store, Dem!Free, Dem!hostVars
  <2>2. CASE cached' = [got |-> slow.got, young |-> TRUE] /\ good' = good
    <3>1. DemTypes'
      BY <1>1, <1>2, <2>1, <2>2 DEF DemTypes
    <3>2. \A l \in Lanes : Unnoticed(l)
      BY <2>1, <2>2 DEF Unnoticed, SlowHas, CacheHas, Awaited
    <3> QED
      BY <1>2, <1>3, <2>2, <3>1, <3>2, RestingLane DEF DemInv
  <2>3. CASE cached' = [got |-> {}, young |-> TRUE] /\ good' = [l \in Lanes |-> 0]
    <3>1. DemTypes'
      BY <1>1, <1>2, <2>1, <2>3 DEF DemTypes
    <3> QED
      BY <1>2, <1>3, <2>3, <3>1, ResetLane DEF DemInv
  <2> QED
    BY <1>8, <2>2, <2>3 DEF Dem!Store
<1>9. CASE Dem!Ages
  <2>1. cached' = [cached EXCEPT !.young = FALSE] /\ UNCHANGED <<addressed, slow, good>>
    BY <1>9 DEF Dem!Ages, Dem!hostVars
  <2>2. DemTypes' /\ cached'.got = cached.got /\ ~cached'.young
    BY <1>1, <1>2, <2>1 DEF DemTypes
  <2>3. \A l \in Lanes : Unnoticed(l)
    BY <2>1, <2>2 DEF Unnoticed, SlowHas, CacheHas, Awaited
  <2> QED
    BY <1>2, <1>3, <2>1, <2>2, <2>3, RestingLane DEF DemInv
<1>10. CASE Dem!Cancel \/ Dem!Summary
  <2>1. UNCHANGED <<addressed, cached, slow, good>>
    BY <1>10 DEF Dem!Cancel, Dem!Summary, Dem!hostVars
  <2>2. DemTypes'
    BY <1>1, <1>2, <2>1 DEF DemTypes
  <2>3. \A l \in Lanes : Unnoticed(l)
    BY <2>1 DEF Unnoticed, SlowHas, CacheHas, Awaited
  <2> QED
    BY <1>2, <1>3, <2>1, <2>2, <2>3, RestingLane DEF DemInv
<1> QED
  BY <1>5, <1>6, <1>7, <1>8, <1>9, <1>10

\* A lane that moves on, and the others: what is left to show is the lane's own.
LEMMA LaneMoves ==
  ASSUME DemInv, NEW l \in Lanes, NEW x \in LaneRec, NEW g \in Nat,
         lane[l].pc # "done",
         lane' = [lane EXCEPT ![l] = x], good' = [good EXCEPT ![l] = g],
         UNCHANGED <<addressed, slow, summary>>,
         cached' = cached \/ cached' = [cached EXCEPT !.young = FALSE],
         errs \subseteq errs', notes \subseteq notes', everything \subseteq everything', opened \subseteq opened',
         everything' \in SUBSET Dem!Machine,
         Knows(l, x.pc, g)', x.fresh \subseteq Awaited(l), x.pc = "done" => LaneTold(l)'
  PROVE  DemInv'
<1>1. DemTypes /\ ~summary
  BY DEF DemInv
<1>2. cached'.got = cached.got /\ (cached'.young => cached.young)
      /\ cached' \in [got : SUBSET Dem!Machine, young : BOOLEAN]
  BY <1>1 DEF DemTypes
<1>3. DemTypes' /\ lane'[l] = x /\ good'[l] = g
      /\ \A k \in Lanes \ {l} : lane'[k] = lane[k] /\ good'[k] = good[k]
  BY <1>1, <1>2 DEF DemTypes
<1>4. \A k \in Lanes : Unnoticed(k)
  BY <1>2 DEF Unnoticed, SlowHas, CacheHas, Awaited
<1>5. \A k \in Lanes \ {l} : LaneInv(k)'
  BY <1>3, <1>4, RestingLane
<1>6. LaneInv(l)'
  BY <1>3 DEF LaneInv, Awaited
<1> QED
  BY <1>1, <1>3, <1>5, <1>6 DEF DemInv

\* The clone: one more, all, or none, by a failure or the Cancel button.
LEMMA CloneHolds ==
  ASSUME DemInv, NEW l \in Lanes, Dem!Cloned(l) \/ Dem!CloneEnds(l) \/ Dem!CloneFails(l)
  PROVE  DemInv'
<1>1. /\ DemTypes /\ LaneInv(l) /\ lane[l] \in LaneRec /\ lane[l].pc = "clone" /\ good[l] = 0
      /\ UNCHANGED <<addressed, slow, summary, cached, notes, everything, opened, good>>
  BY DEF DemInv, DemTypes, LaneInv, Knows, Dem!Cloned, Dem!CloneEnds, Dem!CloneFails, Dem!hostVars, Dem!jobVars
<1>2. good' = [good EXCEPT ![l] = 0] /\ everything' \in SUBSET Dem!Machine
  BY <1>1 DEF DemTypes
<1>u. /\ UNCHANGED <<addressed, slow, summary, cached, notes, everything, opened>>
      /\ lane[l].pc # "done"
  BY <1>1
<1>3. ASSUME NEW p \in LanePC PROVE Knows(l, p, 0)'
  BY DEF Knows
<1>4. CASE Dem!Cloned(l)
  <2> DEFINE x == [lane[l] EXCEPT !.made = @ + 1]
  <2>1. x \in LaneRec /\ x.pc = "clone" /\ x.fresh = lane[l].fresh
    BY <1>1 DEF LaneRec
  <2>2. lane' = [lane EXCEPT ![l] = x] /\ errs' = errs
    BY <1>1, <1>4 DEF Dem!Cloned, Dem!jobVars, DemTypes
  <2>3. PICK y \in LaneRec : y.pc \in LanePC \ {"done"} /\ y.fresh = lane[l].fresh /\ lane' = [lane EXCEPT ![l] = y]
    BY <2>1, <2>2 DEF LanePC
  <2>4. Knows(l, y.pc, 0)' /\ y.fresh \subseteq Awaited(l) /\ y.pc # "done"
    BY <1>1, <1>3, <2>3 DEF LaneInv
  <2> HIDE DEF x
  <2> QED
    BY <1>u, <1>2, <2>2, <2>3, <2>4, LaneMoves
<1>5. CASE Dem!CloneEnds(l)
  <2> DEFINE x == [lane[l] EXCEPT !.pc = "old"]
  <2>1. x \in LaneRec /\ x.pc = "old" /\ x.fresh = lane[l].fresh
    BY <1>1 DEF LaneRec, LanePC
  <2>2. lane' = [lane EXCEPT ![l] = x] /\ errs' = errs
    BY <1>1, <1>5 DEF Dem!CloneEnds, Dem!Goes, Dem!jobVars, DemTypes
  <2>3. PICK y \in LaneRec : y.pc \in LanePC \ {"done"} /\ y.fresh = lane[l].fresh /\ lane' = [lane EXCEPT ![l] = y]
    BY <2>1, <2>2 DEF LanePC
  <2>4. Knows(l, y.pc, 0)' /\ y.fresh \subseteq Awaited(l) /\ y.pc # "done"
    BY <1>1, <1>3, <2>3 DEF LaneInv
  <2> HIDE DEF x
  <2> QED
    BY <1>u, <1>2, <2>2, <2>3, <2>4, LaneMoves
<1>6. CASE Dem!CloneFails(l)
  <2> DEFINE x == [Dem!First EXCEPT !.pc = "done"]
  <2>1. x \in LaneRec /\ x.pc = "done" /\ x.fresh = {}
    BY DEF LaneRec, LanePC, Dem!First
  <2>2. lane' = [lane EXCEPT ![l] = x] /\ errs' = errs \cup {l}
    BY <1>6 DEF Dem!CloneFails
  <2>3. LaneTold(l)'
    BY <2>2 DEF LaneTold
  <2>4. PICK y \in LaneRec : y.pc = "done" /\ y.fresh = {} /\ lane' = [lane EXCEPT ![l] = y]
    BY <2>1, <2>2
  <2>5. Knows(l, y.pc, 0)'
    BY <1>3, <2>4 DEF LanePC
  <2> HIDE DEF x
  <2> QED
    BY <1>u, <1>2, <2>2, <2>3, <2>4, <2>5, LaneMoves
<1> QED
  BY <1>4, <1>5, <1>6

\* The wait: the cache is declared old, and asked until it is young and nobody reads.
LEMMA AskHolds ==
  ASSUME DemInv, NEW l \in Lanes, Dem!Invalidate(l) \/ Dem!Ask(l)
  PROVE  DemInv'
<1>1. /\ DemTypes /\ LaneInv(l) /\ lane[l] \in LaneRec
      /\ UNCHANGED <<addressed, slow, summary, errs, notes, everything, opened, good>>
  BY DEF DemInv, DemTypes, Dem!Invalidate, Dem!Ask, Dem!hostVars, Dem!jobVars
<1>2. PICK g \in Nat : g = good[l] /\ good' = [good EXCEPT ![l] = g]
  BY <1>1 DEF DemTypes
<1>u. UNCHANGED <<addressed, slow, summary, errs, notes, everything, opened>>
  BY <1>1
<1>3. everything' \in SUBSET Dem!Machine
  BY <1>1 DEF DemTypes
<1>4. cached' = cached \/ cached' = [cached EXCEPT !.young = FALSE]
  BY DEF Dem!Invalidate, Dem!Ask
<1>5. ASSUME NEW p \in {"ask", "judge"}, lane' = [lane EXCEPT ![l].pc = p], Knows(l, p, g)', lane[l].pc # "done"
      PROVE  DemInv'
  <2> DEFINE x == [lane[l] EXCEPT !.pc = p]
  <2>1. x \in LaneRec /\ x.pc = p /\ x.fresh = lane[l].fresh /\ lane' = [lane EXCEPT ![l] = x]
    BY <1>1, <1>5 DEF LaneRec, LanePC, DemTypes
  <2>2. PICK y \in LaneRec : y.pc = p /\ y.fresh = lane[l].fresh /\ lane' = [lane EXCEPT ![l] = y]
    BY <2>1
  <2>3. Knows(l, y.pc, g)' /\ y.fresh \subseteq Awaited(l) /\ y.pc # "done"
    BY <1>1, <1>5, <2>2 DEF LaneInv
  <2> QED
    BY <1>u, <1>2, <1>3, <1>4, <1>5, <2>2, <2>3, LaneMoves
<1>6. CASE Dem!Invalidate(l)
  <2>1. lane[l].pc = "old" /\ cached' = [cached EXCEPT !.young = FALSE] /\ lane' = [lane EXCEPT ![l].pc = "ask"]
    BY <1>6 DEF Dem!Invalidate, Dem!Goes
  <2>2. ~cached'.young
    BY <1>1, <2>1 DEF DemTypes
  <2>3. /\ g >= 1 => Awaited(l) \subseteq addressed
        /\ g <= 2 /\ (g = 2 => SlowHas(l))
    BY <1>1, <1>2, <2>1 DEF LaneInv, Knows, Asking
  <2>4. Knows(l, "ask", g)'
    BY <1>1, <2>2, <2>3 DEF Knows, Asking, SlowHas, Awaited
  <2> QED
    BY <1>5, <2>1, <2>4
<1>7. CASE Dem!Ask(l)
  <2>1. lane[l].pc = "ask" /\ cached' = cached /\ ~slow.busy /\ cached.young /\ lane' = [lane EXCEPT ![l].pc = "judge"]
    BY <1>7 DEF Dem!Ask, Dem!Goes
  <2>2. /\ g >= 1 => Awaited(l) \subseteq addressed
        /\ g <= 2 /\ (g = 2 => CacheHas(l))
    BY <1>1, <1>2, <2>1 DEF LaneInv, Knows, Asking
  <2>3. Knows(l, "judge", g)'
    BY <1>1, <2>1, <2>2 DEF Knows, Asking, SlowHas, CacheHas, Awaited
  <2> QED
    BY <1>5, <2>1, <2>3
<1> QED
  BY <1>6, <1>7

\* What the cache has is counted: the third time it has all of them.
LEMMA JudgeHolds == ASSUME DemInv, NEW l \in Lanes, Dem!Judge(l) PROVE DemInv'
<1>1. /\ DemTypes /\ LaneInv(l) /\ lane[l] \in LaneRec /\ good[l] \in Nat /\ lane[l].pc = "judge"
      /\ UNCHANGED <<addressed, slow, cached, summary, errs, notes, everything, opened>>
      /\ good' = [good EXCEPT ![l] = IF Dem!Of(l, Dem!Machine) \subseteq addressed THEN @ + 1 ELSE 0]
  BY DEF DemInv, DemTypes, Dem!Judge, Dem!hostVars, Dem!jobVars
<1>2. PICK g \in Nat : /\ good' = [good EXCEPT ![l] = g]
                       /\ g = 0 \/ (g = good[l] + 1 /\ Awaited(l) \subseteq addressed)
  <2>1. Dem!Of(l, Dem!Machine) = Awaited(l)
    BY AwaitedIs
  <2>2. CASE Awaited(l) \subseteq addressed
    <3>1. good' = [good EXCEPT ![l] = good[l] + 1] /\ good[l] + 1 \in Nat
      BY <1>1, <2>1, <2>2 DEF DemTypes
    <3> QED
      BY <2>2, <3>1
  <2>3. CASE ~(Awaited(l) \subseteq addressed)
    <3>1. good' = [good EXCEPT ![l] = 0]
      BY <1>1, <2>1, <2>3 DEF DemTypes
    <3> QED
      BY <3>1
  <2> QED
    BY <2>2, <2>3
<1>3. PICK fresh \in SUBSET Dem!Machine :
        /\ fresh = Dem!Of(l, cached.got) /\ fresh = cached.got \cap Awaited(l)
  BY <1>1, AwaitedIs DEF DemTypes
<1>4. Dem!Of(l, Dem!Machine) = Awaited(l) /\ everything' \in SUBSET Dem!Machine
  BY <1>1, AwaitedIs DEF DemTypes
<1>5. CASE lane' = [lane EXCEPT ![l].pc = "land", ![l].fresh = fresh]
  <2> DEFINE x == [lane[l] EXCEPT !.pc = "land", !.fresh = fresh]
  <2>1. x \in LaneRec /\ x.pc = "land" /\ x.fresh = fresh /\ lane' = [lane EXCEPT ![l] = x]
    BY <1>1, <1>5 DEF LaneRec, LanePC, DemTypes
  <2>2. PICK y \in LaneRec : y.pc = "land" /\ y.fresh = fresh /\ lane' = [lane EXCEPT ![l] = y]
    BY <2>1
  <2>3. Knows(l, y.pc, g)'
    BY <1>1, <1>2, <2>2 DEF Knows, Asking, Awaited
  <2>4. y.fresh \subseteq Awaited(l) /\ y.pc # "done" /\ lane[l].pc # "done"
    BY <1>1, <1>3, <2>2
  <2> QED
    BY <1>1, <1>2, <1>4, <2>2, <2>3, <2>4, LaneMoves
<1>6. CASE fresh # Awaited(l) /\ lane' = [lane EXCEPT ![l].pc = "old", ![l].tries = @ + 1]
  <2> DEFINE x == [lane[l] EXCEPT !.pc = "old", !.tries = @ + 1]
  <2>1. x \in LaneRec /\ x.pc = "old" /\ x.fresh = lane[l].fresh
    <3>1. lane[l].tries + 1 \in Nat
      BY <1>1 DEF LaneRec
    <3> QED
      BY <1>1, <3>1 DEF LaneRec, LanePC
  <2>2. lane' = [lane EXCEPT ![l] = x]
    BY <1>1, <1>6 DEF DemTypes
  <2>3. PICK y \in LaneRec : y.pc = "old" /\ y.fresh = lane[l].fresh /\ lane' = [lane EXCEPT ![l] = y]
    BY <2>1, <2>2
  <2>4. ~CacheHas(l)
    BY <1>3, <1>6 DEF CacheHas
  <2>5. good[l] <= 2 /\ (good[l] = 1 => SlowHas(l)) /\ (good[l] = 2 => CacheHas(l))
    BY <1>1 DEF LaneInv, Knows, Asking
  <2>6. g <= 2 /\ (g = 2 => SlowHas(l)) /\ (g >= 1 => Awaited(l) \subseteq addressed)
    BY <1>1, <1>2, <2>4, <2>5
  <2>7. Knows(l, y.pc, g)'
    BY <1>1, <1>2, <2>3, <2>6 DEF Knows, Asking, SlowHas, Awaited
  <2>8. y.fresh \subseteq Awaited(l) /\ y.pc # "done" /\ lane[l].pc # "done"
    BY <1>1, <2>3 DEF LaneInv
  <2> QED
    BY <1>1, <1>2, <1>4, <2>3, <2>7, <2>8, LaneMoves
<1> QED
  BY <1>3, <1>4, <1>5, <1>6 DEF Dem!Judge

\* What is missing is noted, in whichever way the others are shown.
LEMMA LandHolds == ASSUME DemInv, NEW l \in Lanes, Dem!Land(l) PROVE DemInv'
<1> DEFINE x == [Dem!First EXCEPT !.pc = "done"]
           fresh == lane[l].fresh
<1>1. /\ DemTypes /\ LaneInv(l) /\ lane[l] \in LaneRec /\ lane[l].pc = "land"
      /\ UNCHANGED <<addressed, slow, cached, summary, errs>>
      /\ everything' = everything \cup fresh
      /\ good' = [good EXCEPT ![l] = 0] /\ lane' = [lane EXCEPT ![l] = x] /\ Dem!Surface(l)
  BY DEF DemInv, DemTypes, Dem!Land, Dem!hostVars
<1>2. x \in LaneRec /\ x.pc = "done" /\ x.fresh = {}
  BY DEF LaneRec, LanePC, Dem!First
<1>3. PICK y \in LaneRec : y.pc = "done" /\ y.fresh = {} /\ lane' = [lane EXCEPT ![l] = y]
  BY <1>1, <1>2
<1>4. fresh \subseteq Awaited(l) /\ everything' \in SUBSET Dem!Machine
  BY <1>1 DEF LaneInv, DemTypes, LaneRec
<1>5. Knows(l, y.pc, 0)'
  BY <1>3 DEF Knows, Asking
<1>6. \/ ~(Dem!Cardinality(fresh) < Count[l]) /\ fresh = Awaited(l)
      \/ Dem!Cardinality(fresh) < Count[l]
  BY <1>4, AllOfThem
<1>7. Dem!Told(l, TRUE) => l \in notes'
  BY DEF Dem!Told
<1>8. ASSUME NEW bad \in BOOLEAN, notes' = IF bad \/ Dem!Cardinality(fresh) < Count[l] THEN notes \cup {l} ELSE notes
      PROVE  notes \subseteq notes' /\ (l \in notes' \/ (~bad /\ fresh = Awaited(l)))
  BY <1>6, <1>8
<1>9. notes \subseteq notes' /\ opened \subseteq opened' /\ LaneTold(l)'
  <2>1. CASE Dem!Told(l, TRUE) /\ UNCHANGED opened
    BY <1>8, <2>1 DEF LaneTold, Dem!Told
  <2>2. CASE "wall" \in Follow[l] /\ Dem!Wall(l)
    <3>1. notes \subseteq notes' /\ (l \in notes' \/ fresh = Awaited(l)) /\ opened' = opened
      BY <1>8, <2>2 DEF Dem!Wall, Dem!Told
    <3> QED
      BY <1>1, <2>2, <3>1 DEF LaneTold, Awaited
  <2>3. CASE Dem!Seats(l)
    <3>1. PICK started \in SUBSET fresh, tiled \in BOOLEAN : \E dead \in SUBSET started :
            /\ opened' = opened \cup (started \ dead)
            /\ Dem!Told(l, started # fresh \/ dead # {} \/ ~tiled)
      BY <2>3 DEF Dem!Seats
    <3>2. PICK dead \in SUBSET started :
            /\ opened' = opened \cup (started \ dead)
            /\ Dem!Told(l, started # fresh \/ dead # {} \/ ~tiled)
      BY <3>1
    <3>3. notes' = IF (started # fresh \/ dead # {} \/ ~tiled) \/ Dem!Cardinality(fresh) < Count[l]
                   THEN notes \cup {l} ELSE notes
      BY <3>2 DEF Dem!Told
    <3>4. notes \subseteq notes' /\ (l \in notes' \/ (started = fresh /\ dead = {} /\ fresh = Awaited(l)))
      BY <3>3, <1>6
    <3> QED
      BY <1>1, <3>2, <3>4 DEF LaneTold, Awaited
  <2>4. CASE Dem!Tabs(l)
    <3>1. PICK ok \in BOOLEAN : opened' = (IF ok THEN opened \cup fresh ELSE opened) /\ Dem!Told(l, ~ok)
      BY <2>4 DEF Dem!Tabs
    <3>2. notes' = IF ~ok \/ Dem!Cardinality(fresh) < Count[l] THEN notes \cup {l} ELSE notes
      BY <3>1 DEF Dem!Told
    <3>3. notes \subseteq notes' /\ (l \in notes' \/ (ok /\ fresh = Awaited(l)))
      BY <3>2, <1>6
    <3> QED
      BY <1>1, <3>1, <3>3 DEF LaneTold, Awaited
  <2> QED
    BY <1>1, <2>1, <2>2, <2>3, <2>4 DEF Dem!Surface
<1> HIDE DEF x
<1> QED
  BY <1>1, <1>3, <1>4, <1>5, <1>9, LaneMoves

LEMMA DemStepHolds == DemInv /\ [Dem!Next]_Dem!demoVars => DemInv'
<1> SUFFICES ASSUME DemInv, [Dem!Next]_Dem!demoVars PROVE DemInv'
  OBVIOUS
<1>1. CASE UNCHANGED Dem!demoVars
  BY <1>1 DEF Dem!demoVars, Dem!hostVars, Dem!jobVars, DemInv, DemTypes, LaneInv, LaneTold, Knows, SlowHas, CacheHas,
     Awaited
<1>2. ASSUME NEW l \in Lanes, Dem!LaneStep(l) PROVE DemInv'
  BY <1>2, CloneHolds, AskHolds, JudgeHolds, LandHolds DEF Dem!LaneStep
<1> QED
  BY <1>1, <1>2, CacheHolds DEF Dem!Next

\* The two clauses of the run.
LEMMA DemTold == DemInv => Dem!AddressedIsSeen /\ Dem!LanesTold
<1> SUFFICES ASSUME DemInv PROVE Dem!AddressedIsSeen /\ Dem!LanesTold
  OBVIOUS
<1>1. Dem!AddressedIsSeen
  BY DEF DemInv, LaneInv, Knows, Asking, Dem!AddressedIsSeen
<1>2. ASSUME NEW l \in Lanes, LaneTold(l)
      PROVE  \/ l \in errs \/ l \in notes
             \/ /\ Dem!Of(l, everything) = Dem!Of(l, Dem!Machine)
                /\ "wall" \in Follow[l] \/ Dem!Of(l, Dem!Machine) \subseteq opened
  <2>1. everything \in SUBSET Dem!Machine
    BY DEF DemInv, DemTypes
  <2>2. Dem!Of(l, everything) = everything \cap Awaited(l) /\ Dem!Of(l, Dem!Machine) = Awaited(l)
    BY <2>1, AwaitedIs
  <2> QED
    BY <1>2, <2>2 DEF LaneTold
<1>3. Dem!LanesTold
  BY <1>2 DEF DemInv, LaneInv, Dem!LanesTold
<1> QED
  BY <1>1, <1>3

-----------------------------------------------------------------------------
(* The window of a verb over many machines (BatchWindow).                  *)

WinState == {"none", "open", "closed"}
JobState == {"none", "running", "returned", "ended", "over"}

WinRec == [st : WinState, busy : BOOLEAN, closeAsked : BOOLEAN, stop : Bat!Run \cup {0}, closing : BOOLEAN]
LogRec == [lines : Nat, dirty : BOOLEAN, label : Nat]
JobRec == [st : JobState, win : Bat!Win \cup {0}, live : BOOLEAN, lines : Nat]

BatTypes ==
  /\ win \in [Bat!Win -> WinRec] /\ log \in [Bat!Win -> LogRec] /\ job \in [Bat!Run -> JobRec]
  /\ \A r \in Bat!Run : job[r].st = "none" <=> job[r].win = 0
  /\ \A w \in Bat!Win : win[w].st = "open" => win[w].stop \in Bat!Run

BatInv == BatTypes /\ Bat!BusyIsTrue /\ Bat!SummaryShown

LEMMA BatFacts == MaxWin \in Nat /\ MaxRun \in Nat /\ AutoClose \in BOOLEAN /\ 0 \notin Bat!Win
  BY WindowAssumption DEF Bat!BatchWindowAssumption, Bat!Win

LEMMA BatInitHolds == Bat!Init => BatInv
<1> SUFFICES ASSUME Bat!Init PROVE BatInv
  OBVIOUS
<1>1. BatTypes
  BY BatFacts DEF Bat!Init, BatTypes, WinRec, LogRec, JobRec, WinState, JobState, Bat!NoWin, Bat!NoLog, Bat!NoJob
<1>2. Bat!BusyIsTrue /\ Bat!SummaryShown
  BY DEF Bat!Init, Bat!BusyIsTrue, Bat!SummaryShown, Bat!NoWin
<1> QED
  BY <1>1, <1>2 DEF BatInv

\* A job begins in a window that opens or has none that goes on.
LEMMA BeginsHolds ==
  ASSUME BatInv, NEW w \in Bat!Win, NEW r \in Bat!Run, Bat!Press(w, r) \/ Bat!Again(w, r)
  PROVE  BatInv'
<1>1. /\ BatTypes /\ Bat!BusyIsTrue /\ Bat!SummaryShown
      /\ job[r].st = "none" /\ log' = log
      /\ job' = [job EXCEPT ![r] = [st |-> "running", win |-> w, live |-> TRUE, lines |-> 0]]
  BY DEF BatInv, Bat!Press, Bat!Again, Bat!Starts
<1> DEFINE j == [st |-> "running", win |-> w, live |-> TRUE, lines |-> 0]
<1>2. j \in JobRec /\ j.st = "running" /\ j.win = w
  BY DEF JobRec, JobState
<1>3. PICK x \in WinRec : win' = [win EXCEPT ![w] = x] /\ x.busy /\ x.stop = r
  <2>1. CASE Bat!Press(w, r)
    <3> DEFINE x == [Bat!NoWin EXCEPT !.st = "open", !.busy = TRUE, !.stop = r]
    <3>1. x \in WinRec /\ x.busy /\ x.stop = r
      BY DEF Bat!NoWin, WinRec, WinState
    <3>2. win' = [win EXCEPT ![w] = x]
      BY <2>1 DEF Bat!Press
    <3> HIDE DEF x
    <3> QED
      BY <3>1, <3>2
  <2>2. CASE Bat!Again(w, r)
    <3> DEFINE x == [win[w] EXCEPT !.busy = TRUE, !.stop = r]
    <3>1. x \in WinRec /\ x.busy /\ x.stop = r
      BY <1>1 DEF BatTypes, WinRec
    <3>2. win' = [win EXCEPT ![w] = x]
      BY <1>1, <2>2 DEF Bat!Again, BatTypes
    <3> HIDE DEF x
    <3> QED
      BY <3>1, <3>2
  <2> QED
    BY <2>1, <2>2
<1> HIDE DEF j
<1>4. /\ job' \in [Bat!Run -> JobRec] /\ job'[r] = j /\ \A q \in Bat!Run : q # r => job'[q] = job[q]
      /\ win' \in [Bat!Win -> WinRec] /\ win'[w] = x /\ \A v \in Bat!Win : v # w => win'[v] = win[v]
  BY <1>1, <1>2, <1>3 DEF j, BatTypes
<1>5. BatTypes'
  BY <1>1, <1>2, <1>3, <1>4, BatFacts DEF BatTypes
<1>6. Bat!BusyIsTrue'
  BY <1>1, <1>2, <1>4 DEF Bat!BusyIsTrue
<1>7. Bat!SummaryShown'
  <2> SUFFICES ASSUME NEW v \in Bat!Win, win'[v].st = "open",
                      \A q \in Bat!Run : job'[q].win = v => job'[q].st = "over"
               PROVE  log'[v].label = log'[v].lines
    BY DEF Bat!SummaryShown
  <2>1. v # w
    BY <1>2, <1>4
  <2>2. win[v].st = "open" /\ \A q \in Bat!Run : job[q].win = v => job[q].st = "over"
    BY <1>1, <1>4, <2>1, BatFacts DEF BatTypes
  <2> QED
    BY <1>1, <2>2 DEF Bat!SummaryShown
<1> QED
  BY <1>5, <1>6, <1>7 DEF BatInv

\* The window's own buttons and timer: it closes, or tells its job to end.
LEMMA ButtonsHold ==
  ASSUME BatInv, NEW w \in Bat!Win, Bat!Cancel(w) \/ Bat!X(w) \/ Bat!Closes(w)
  PROVE  BatInv'
<1>1. BatTypes /\ Bat!BusyIsTrue /\ Bat!SummaryShown /\ log' = log
  BY DEF BatInv, Bat!Cancel, Bat!X, Bat!Closes
<1>2. /\ job' \in [Bat!Run -> JobRec]
      /\ \A r \in Bat!Run : job'[r].st = job[r].st /\ job'[r].win = job[r].win
  <2>1. CASE UNCHANGED job
    BY <1>1, <2>1 DEF BatTypes
  <2>2. CASE job' = [job EXCEPT ![win[w].stop].live = FALSE]
    BY <1>1, <2>2 DEF BatTypes, JobRec
  <2> QED
    BY <2>1, <2>2 DEF Bat!Cancel, Bat!X, Bat!Closes
<1>3. /\ win' \in [Bat!Win -> WinRec]
      /\ \A v \in Bat!Win : /\ win'[v].busy = win[v].busy /\ win'[v].stop = win[v].stop
                            /\ win'[v].st = "open" => win[v].st = "open"
  <2>1. CASE UNCHANGED win
    BY <1>1, <2>1 DEF BatTypes
  <2>2. CASE win' = [win EXCEPT ![w].closeAsked = TRUE]
    BY <1>1, <2>2 DEF BatTypes, WinRec
  <2>3. CASE win' = [win EXCEPT ![w].st = "closed"]
    BY <1>1, <2>3 DEF BatTypes, WinRec, WinState
  <2>4. CASE win' = [win EXCEPT ![w].st = "closed", ![w].closing = FALSE]
    BY ZenonT(60), <1>1, <2>4 DEF BatTypes, WinRec, WinState
  <2> QED
    BY <2>1, <2>2, <2>3, <2>4 DEF Bat!Cancel, Bat!X, Bat!Closes
<1>4. BatTypes'
  BY <1>1, <1>2, <1>3 DEF BatTypes
<1>5. Bat!BusyIsTrue' /\ Bat!SummaryShown'
  BY <1>1, <1>2, <1>3 DEF Bat!BusyIsTrue, Bat!SummaryShown
<1> QED
  BY <1>4, <1>5 DEF BatInv

\* The painter.
LEMMA TickHolds == ASSUME BatInv, NEW w \in Bat!Win, Bat!Tick(w) PROVE BatInv'
<1>1. BatTypes /\ Bat!BusyIsTrue /\ Bat!SummaryShown /\ UNCHANGED <<win, job>>
      /\ log' = [log EXCEPT ![w].label = log[w].lines, ![w].dirty = FALSE]
  BY DEF BatInv, Bat!Tick, Bat!Flushed
<1>2. /\ log' \in [Bat!Win -> LogRec]
      /\ \A v \in Bat!Win : log'[v] = log[v] \/ log'[v].label = log'[v].lines
  BY <1>1 DEF BatTypes, LogRec
<1>3. BatTypes'
  BY <1>1, <1>2 DEF BatTypes
<1>4. Bat!BusyIsTrue' /\ Bat!SummaryShown'
  BY <1>1, <1>2 DEF Bat!BusyIsTrue, Bat!SummaryShown
<1> QED
  BY <1>3, <1>4 DEF BatInv

\* The job: a line, its return, its summary, what it leaves for the window.
LEMMA JobHolds ==
  ASSUME BatInv, NEW r \in Bat!Run, Bat!Line(r) \/ Bat!Returns(r) \/ Bat!Ends(r) \/ Bat!Last(r)
  PROVE  BatInv'
<1> DEFINE w == job[r].win
<1>1. BatTypes /\ Bat!BusyIsTrue /\ Bat!SummaryShown /\ w \in Bat!Win /\ job[r] \in JobRec
  <2>1. job[r].st # "none"
    BY DEF Bat!Line, Bat!Returns, Bat!Ends, Bat!Last
  <2> QED
    BY <2>1 DEF BatInv, BatTypes, JobRec
<1>2. /\ job' \in [Bat!Run -> JobRec]
      /\ \A q \in Bat!Run : q # r => job'[q] = job[q]
      /\ job'[r].win = w /\ job'[r].st # "none"
      /\ Bat!Line(r) => job'[r].st = job[r].st
      /\ ~Bat!Line(r) => job'[r].st # "running"
      /\ ~Bat!Last(r) => job'[r].st # "over"
  <2>1. CASE Bat!Line(r)
    BY <1>1, <2>1 DEF Bat!Line, BatTypes, JobRec, JobState
  <2>2. CASE Bat!Returns(r)
    BY <1>1, <2>2 DEF Bat!Returns, Bat!Line, BatTypes, JobRec, JobState
  <2>3. CASE Bat!Ends(r)
    BY <1>1, <2>3 DEF Bat!Ends, Bat!Line, BatTypes, JobRec, JobState
  <2>4. CASE Bat!Last(r)
    BY <1>1, <2>4 DEF Bat!Last, Bat!Line, BatTypes, JobRec, JobState
  <2> QED
    BY <2>1, <2>2, <2>3, <2>4
<1>3. /\ win' \in [Bat!Win -> WinRec]
      /\ \A v \in Bat!Win : win'[v].st = win[v].st /\ win'[v].stop = win[v].stop
      /\ \A v \in Bat!Win : win'[v].busy => win[v].busy
      /\ ~win'[w].busy \/ job[r].st # "running" \/ Bat!Line(r)
  <2>1. CASE Bat!Line(r) \/ Bat!Ends(r)
    BY <1>1, <2>1 DEF Bat!Line, Bat!Ends, BatTypes, WinRec
  <2>2. CASE Bat!Returns(r)
    BY <1>1, <2>2 DEF Bat!Returns, BatTypes, WinRec
  <2>3. CASE Bat!Last(r)
    <3>1. PICK ok \in BOOLEAN : win' = [win EXCEPT ![w].closing = @ \/ (AutoClose /\ ok)]
      BY <2>3 DEF Bat!Last
    <3> DEFINE c == win[w].closing \/ (AutoClose /\ ok)
    <3>2. win' = [win EXCEPT ![w].closing = c] /\ c \in BOOLEAN
      BY <1>1, <3>1 DEF BatTypes
    <3> HIDE DEF c
    <3>3. job[r].st = "ended"
      BY <2>3 DEF Bat!Last
    <3> QED
      BY <1>1, <3>2, <3>3 DEF BatTypes, WinRec
  <2> QED
    BY <2>1, <2>2, <2>3
<1>4. /\ log' \in [Bat!Win -> LogRec]
      /\ \A v \in Bat!Win : v # w => log'[v] = log[v]
      /\ Bat!Last(r) => log'[w].label = log'[w].lines
  BY SMTT(30), <1>1 DEF Bat!Line, Bat!Returns, Bat!Ends, Bat!Last, Bat!Appended, Bat!Flushed, BatTypes, LogRec
<1> HIDE DEF w
<1>5. BatTypes'
  BY <1>1, <1>2, <1>3, <1>4, BatFacts DEF BatTypes, w
<1>6. Bat!BusyIsTrue'
  <2> SUFFICES ASSUME NEW v \in Bat!Win, win'[v].busy
               PROVE  \E q \in Bat!Run : job'[q].win = v /\ job'[q].st = "running"
    BY DEF Bat!BusyIsTrue
  <2>1. PICK q \in Bat!Run : job[q].win = v /\ job[q].st = "running"
    BY <1>1, <1>3 DEF Bat!BusyIsTrue
  <2> QED
    BY <1>2, <1>3, <2>1 DEF w
<1>7. Bat!SummaryShown'
  <2> SUFFICES ASSUME NEW v \in Bat!Win, win'[v].st = "open",
                      \A q \in Bat!Run : job'[q].win = v => job'[q].st = "over"
               PROVE  log'[v].label = log'[v].lines
    BY DEF Bat!SummaryShown
  <2>1. CASE v = w
    BY <1>2, <1>4, <2>1
  <2>2. CASE v # w
    BY <1>1, <1>2, <1>3, <1>4, <2>2 DEF Bat!SummaryShown, w
  <2> QED
    BY <2>1, <2>2
<1> QED
  BY <1>5, <1>6, <1>7 DEF BatInv

LEMMA BatStepHolds == BatInv /\ [Bat!Next]_Bat!windowVars => BatInv'
<1> SUFFICES ASSUME BatInv, [Bat!Next]_Bat!windowVars PROVE BatInv'
  OBVIOUS
<1>1. CASE UNCHANGED Bat!windowVars
  BY <1>1 DEF Bat!windowVars, BatInv, BatTypes, Bat!BusyIsTrue, Bat!SummaryShown
<1> QED
  BY <1>1, BeginsHolds, ButtonsHold, TickHolds, JobHolds DEF Bat!Next

-----------------------------------------------------------------------------
(* The run.                                                                *)

\* --reconcile destroys no disk that a definition of its first read named and
\* forgets no machine that has one, and exits 0 only if the second read, unless it
\* missed the register or the pool, left no name without a domain (runReconcile).
THEOREM ReconcileStaysTrue == EstateMCSpec => []ReconcileIsTrue
<1> DEFINE I == side = "reconcile" => RecInv
<1>1. EstateMCInit => I
  BY RecInitHolds DEF EstateMCInit
<1>2. I /\ [EstateMCNext]_all => I'
  <2> SUFFICES ASSUME I, [EstateMCNext]_all, side' = "reconcile" PROVE RecInv'
    OBVIOUS
  <2>1. side = "reconcile" /\ [Rec!Next]_Rec!vars
    BY DEF EstateMCNext, all, shared, clearVars, Rec!vars, Rec!estateVars, Rec!host
  <2> QED
    BY <2>1, RecStepHolds
<1>3. I => ReconcileIsTrue
  BY DEF ReconcileIsTrue, RecInv, Answers
<1> HIDE DEF I
<1> QED
  BY <1>1, <1>2, <1>3, PTL DEF EstateMCSpec

\* At most two readings of a demo's lane miss addresses that are there, and every lane
\* is told of in the end; the window of a batch is busy only while its job runs and
\* has shown every line when its button can be pressed (RunDemoLanes, batchLogWindow).
THEOREM BatchStaysTold == EstateMCSpec => []BatchIsTold
<1> DEFINE I == DemInv /\ BatInv
<1>1. EstateMCInit => I
  BY DemInitHolds, BatInitHolds DEF EstateMCInit
<1>2. I /\ [EstateMCNext]_all => I'
  <2> SUFFICES ASSUME I, [EstateMCNext]_all PROVE I'
    OBVIOUS
  <2>1. [Dem!Next]_Dem!demoVars
    BY DEF EstateMCNext, all, demoVars, Dem!demoVars, Dem!hostVars, Dem!jobVars
  <2>2. [Bat!Next]_Bat!windowVars
    BY DEF EstateMCNext, all, batchVars, Bat!windowVars
  <2> QED
    BY <2>1, <2>2, DemStepHolds, BatStepHolds
<1>3. I => BatchIsTold
  BY DemTold DEF BatchIsTold, BatInv
<1> HIDE DEF I
<1> QED
  BY <1>1, <1>2, <1>3, PTL DEF EstateMCSpec
=============================================================================
