---------------------------- MODULE BackupProofs ----------------------------
(***************************************************************************)
(* Proofs about Backup, for any number of disks, destinations, backups and *)
(* failures.                                                               *)
(***************************************************************************)
EXTENDS MCBackup, FiniteSetTheorems, WellFoundedInduction, TLAPS

\* While BackupDisks runs, its name is the newest there is.
Named == run.pc \notin {"idle", "dialog"} => run.name = now /\ now \in Point

\* What is left of a loop over the disks is part of the disks.
TodoOK ==
  /\ run.pc \in {"snap", "send", "undo", "pruneSrc"} => run.todo \subseteq run.disks
  /\ run.pc = "prune" => run.todo \subseteq run.disks \cup {0}

TypeInv == TypeOK /\ Named /\ TodoOK

LEMMA UpdateOnce ==
  ASSUME NEW A, NEW B, NEW f \in [A -> B], NEW a \in A, NEW b \in B
  PROVE  [f EXCEPT ![a] = b] \in [A -> B]
  OBVIOUS

LEMMA UpdateTwice ==
  ASSUME NEW A, NEW B, NEW C, NEW f \in [A -> [B -> C]], NEW a \in A, NEW b \in B,
         NEW c \in C
  PROVE  [f EXCEPT ![a][b] = c] \in [A -> [B -> C]]
<1>1. [f[a] EXCEPT ![b] = c] \in [B -> C]
  OBVIOUS
<1>. QED
  BY <1>1

LEMMA SomeDest == (CHOOSE t \in Dest : TRUE) \in Dest
  BY BackupAssumption

LEMMA FaultType == TypeOK /\ (Fault \/ NoFault) => faults' \in 0..MaxFault
  BY BackupAssumption DEF TypeOK, Fault, NoFault

LEMMA TypeInit == Init => TypeInv
<1> SUFFICES ASSUME Init PROVE TypeInv
  OBVIOUS
<1>1. now \in 0..MaxPoint /\ faults \in 0..MaxFault
  BY BackupAssumption DEF Init
<1>2. 0 \in 0..MaxPoint
  BY BackupAssumption
<1>3. IdleRun \in RunState /\ IdleRestore \in RestoreState
  BY <1>2, SomeDest DEF IdleRun, IdleRestore, RunState, RestoreState, RunPC, RestorePC
<1>4. TypeOK
  BY <1>1, <1>2, <1>3 DEF Init, TypeOK, NoVolume, Foreign
<1>. QED
  BY <1>4 DEF TypeInv, Named, TodoOK, Init, IdleRun

LEMMA RunTyped ==
  ASSUME TypeInv
  PROVE  /\ run.dest \in Dest
         /\ run.disks \in SUBSET Disk
         /\ run.todo \in SUBSET (Disk \cup {0})
         /\ run.pc \notin {"idle", "dialog"} => run.name \in Point
  BY DEF TypeInv, TypeOK, RunState, Named

LEMMA StoresTyped ==
  ASSUME TypeInv
  PROVE  /\ src \in [Disk -> SUBSET Point]
         /\ dst \in [Dest -> [Disk -> SUBSET Point]]
         /\ listed \in [Dest -> SUBSET Point]
         /\ stored \in [Dest -> SUBSET Point]
  BY DEF TypeInv, TypeOK

\* A step of BackupDisks keeps the types of the snapshot stores.
LEMMA StoresStep ==
  ASSUME TypeInv, BackupStep
  PROVE  /\ src' \in [Disk -> SUBSET Point]
         /\ dst' \in [Dest -> [Disk -> SUBSET Point]]
         /\ listed' \in [Dest -> SUBSET Point]
         /\ stored' \in [Dest -> SUBSET Point]
<1> USE RunTyped, StoresTyped DEF destVars
<1>1. CASE SnapTogether
  BY <1>1 DEF SnapTogether
<1>2. CASE SnapFails \/ MakeTree \/ PruneListFails
  BY <1>2 DEF SnapFails, MakeTree, PruneListFails
<1>3. CASE SnapParent
  <2>1. listed' = listed \/ listed' = [listed EXCEPT ![run.dest] = @ \cup {run.name}]
    BY <1>3 DEF SnapParent
  <2>. QED
    BY <1>3, <2>1 DEF SnapParent
<1>4. CASE StoreDefinition
  <2>1. stored' = stored \/ stored' = [stored EXCEPT ![run.dest] = @ \cup {run.name}]
    BY <1>4 DEF StoreDefinition
  <2>. QED
    BY <1>4, <2>1 DEF StoreDefinition
<1>5. ASSUME NEW d \in Disk, SnapOne(d) \/ UndoDisk(d) \/ SendRefused(d) \/ PruneSrc(d)
      PROVE  /\ src' \in [Disk -> SUBSET Point]
             /\ UNCHANGED <<dst, listed, stored>>
  <2>1. CASE SnapOne(d) \/ SendRefused(d)
    BY <2>1 DEF SnapOne, SendRefused
  <2>2. CASE UndoDisk(d)
    <3>1. src' = src \/ src' = [src EXCEPT ![d] = @ \ {run.name}]
      BY <2>2 DEF UndoDisk
    <3>. QED
      BY <2>2, <3>1 DEF UndoDisk
  <2>3. CASE PruneSrc(d)
    <3>1. PICK gone : src' = [src EXCEPT ![d] = @ \ gone]
      BY <2>3 DEF PruneSrc
    <3>. QED
      BY <2>3, <3>1 DEF PruneSrc
  <2>. QED
    BY <1>5, <2>1, <2>2, <2>3
<1>6. ASSUME NEW d \in Disk, Send(d) \/ SendFails(d)
      PROVE  /\ dst' \in [Dest -> [Disk -> SUBSET Point]]
             /\ UNCHANGED <<src, listed, stored>>
  <2>1. dst' = dst \/ dst' = [dst EXCEPT ![run.dest][d] = @ \cup {run.name}]
    BY <1>6 DEF Send, SendFails, Received
  <2>2. run.name \in Point
    BY <1>6 DEF Send, SendFails
  <2>3. dst' \in [Dest -> [Disk -> SUBSET Point]]
    <3>1. dst[run.dest][d] \cup {run.name} \in SUBSET Point
      BY <2>2
    <3>2. [dst[run.dest] EXCEPT ![d] = dst[run.dest][d] \cup {run.name}] \in [Disk -> SUBSET Point]
      BY <3>1
    <3>. QED
      BY <2>1, <3>2
  <2>. QED
    BY <1>6, <2>3 DEF Send, SendFails
<1>7. ASSUME NEW d \in Disk \cup {0}, Prune(d)
      PROVE  /\ dst' \in [Dest -> [Disk -> SUBSET Point]]
             /\ listed' \in [Dest -> SUBSET Point]
             /\ stored' \in [Dest -> SUBSET Point]
             /\ UNCHANGED src
  <2>1. CASE d = 0
    <3>1. PICK gone : /\ listed' = [listed EXCEPT ![run.dest] = @ \ gone]
                      /\ stored' = [stored EXCEPT ![run.dest] = @ \ gone]
      BY <1>7, <2>1 DEF Prune
    <3>. QED
      BY <1>7, <2>1, <3>1 DEF Prune
  <2>2. CASE d # 0
    <3>1. PICK gone : dst' = [dst EXCEPT ![run.dest][d] = @ \ gone]
      BY <1>7, <2>2 DEF Prune
    <3>. QED
      BY <1>7, <2>2, <3>1 DEF Prune
  <2>. QED
    BY <2>1, <2>2
<1>. QED
  BY <1>1, <1>2, <1>3, <1>4, <1>5, <1>6, <1>7 DEF BackupStep

\* ... and what the run is told by its name and its disks.
LEMMA RunStep ==
  ASSUME TypeInv, BackupStep
  PROVE  run' \in RunState /\ Named' /\ TodoOK' /\ faults' \in 0..MaxFault
         /\ UNCHANGED <<attached, defn, now, restore, vol, defined>>
<1> USE FaultType DEF TypeInv, RunState, RunPC, Named, TodoOK, restoreVars, ToUndo
<1>0. run \in RunState /\ TypeOK /\ faults \in 0..MaxFault
  BY DEF TypeOK
<1>1. CASE SnapTogether \/ SnapFails \/ MakeTree \/ PruneListFails
  <2>1. CASE SnapTogether
    BY <1>0, <2>1 DEF SnapTogether
  <2>2. CASE SnapFails
    BY <1>0, <2>2 DEF SnapFails
  <2>3. CASE MakeTree
    BY <1>0, <2>3 DEF MakeTree
  <2>4. CASE PruneListFails
    BY <1>0, <2>4 DEF PruneListFails
  <2>. QED
    BY <1>1, <2>1, <2>2, <2>3, <2>4
<1>2. CASE SnapParent
  BY <1>0, <1>2 DEF SnapParent
<1>3. CASE StoreDefinition
  <2>1. {0} \cup run.disks \in SUBSET (Disk \cup {0})
    BY <1>0
  <2>2. /\ run.pc = "props" /\ faults' \in 0..MaxFault
        /\ UNCHANGED <<attached, defn, now, restore, vol, defined>>
    BY <1>0, <1>3 DEF StoreDefinition
  <2>3. CASE run' = [run EXCEPT !.pc = "prune", !.todo = {0} \cup run.disks]
    BY <1>0, <2>1, <2>2, <2>3
  <2>4. CASE ToUndo(FALSE)
    BY <1>0, <2>2, <2>4
  <2>. QED
    BY <1>3, <2>3, <2>4 DEF StoreDefinition
<1>4. ASSUME NEW d \in Disk, SnapOne(d) \/ Send(d) \/ SendFails(d)
      PROVE  run' \in RunState /\ Named' /\ TodoOK' /\ faults' \in 0..MaxFault
             /\ UNCHANGED <<attached, defn, now, restore, vol, defined>>
  <2>1. CASE SnapOne(d)
    BY <1>0, <2>1 DEF SnapOne
  <2>2. CASE Send(d)
    BY <1>0, <2>2 DEF Send
  <2>3. CASE SendFails(d)
    BY <1>0, <2>3 DEF SendFails
  <2>. QED
    BY <1>4, <2>1, <2>2, <2>3
<1>5. ASSUME NEW d \in Disk, SendRefused(d) \/ UndoDisk(d)
      PROVE  run' \in RunState /\ Named' /\ TodoOK' /\ faults' \in 0..MaxFault
             /\ UNCHANGED <<attached, defn, now, restore, vol, defined>>
  <2>1. CASE SendRefused(d)
    BY <1>0, <2>1 DEF SendRefused
  <2>2. CASE UndoDisk(d)
    <3>1. Fault \/ NoFault
      BY <2>2 DEF UndoDisk
    <3>2. faults' \in 0..MaxFault
      BY <1>0, <3>1
    <3>3. run' = [run EXCEPT !.todo = @ \ {d},
                             !.pc = IF run.todo = {d} THEN "idle" ELSE "undo"]
      BY <2>2 DEF UndoDisk
    <3>4. run.pc = "undo" /\ UNCHANGED <<attached, defn, now, restore, vol, defined>>
      BY <2>2 DEF UndoDisk
    <3>5. run' \in RunState
      BY <1>0, <3>3
    <3>6. Named' /\ TodoOK'
      BY <1>0, <3>3, <3>4
    <3>. QED
      BY <3>2, <3>4, <3>5, <3>6
  <2>. QED
    BY <1>5, <2>1, <2>2
<1>6. ASSUME NEW d \in Disk, PruneSrc(d)
      PROVE  run' \in RunState /\ Named' /\ TodoOK' /\ faults' \in 0..MaxFault
             /\ UNCHANGED <<attached, defn, now, restore, vol, defined>>
  <2>1. PICK ok \in BOOLEAN :
          run' = [run EXCEPT !.todo = @ \ {d},
                             !.pc = IF run.todo = {d} THEN "idle" ELSE "pruneSrc",
                             !.clean = ok]
    BY <1>0, <1>6 DEF PruneSrc
  <2>2. run' \in RunState /\ Named' /\ TodoOK'
    BY <1>0, <1>6, <2>1 DEF PruneSrc
  <2>3. faults' \in 0..MaxFault
    BY <1>0, <1>6 DEF PruneSrc
  <2>. QED
    BY <1>6, <2>2, <2>3 DEF PruneSrc
<1>7. ASSUME NEW d \in Disk \cup {0}, Prune(d)
      PROVE  run' \in RunState /\ Named' /\ TodoOK' /\ faults' \in 0..MaxFault
             /\ UNCHANGED <<attached, defn, now, restore, vol, defined>>
  <2>1. PICK ok \in BOOLEAN :
          run' = [run EXCEPT !.todo = IF run.todo = {d} THEN run.disks ELSE @ \ {d},
                             !.pc = IF run.todo = {d} THEN "pruneSrc" ELSE "prune",
                             !.clean = ok]
    BY <1>0, <1>7 DEF Prune
  <2>2. run' \in RunState /\ Named' /\ TodoOK'
    BY <1>0, <1>7, <2>1 DEF Prune
  <2>3. faults' \in 0..MaxFault
    BY <1>0, <1>7 DEF Prune
  <2>. QED
    BY <1>7, <2>2, <2>3 DEF Prune
<1>. QED
  BY <1>1, <1>2, <1>3, <1>4, <1>5, <1>6, <1>7 DEF BackupStep

LEMMA TypeBackupStep ==
  ASSUME TypeInv, BackupStep
  PROVE  TypeInv'
  BY StoresStep, RunStep DEF TypeInv, TypeOK

LEMMA TypeDialog ==
  ASSUME TypeInv,
         Begin \/ CancelDialog \/ (\E t \in Dest : OpenDialog(t)) \/ (\E d \in Disk : Reattach(d))
  PROVE  TypeInv'
<1> USE BackupAssumption, SomeDest
    DEF TypeInv, TypeOK, RunState, RunPC, Named, TodoOK, restoreVars, destVars, IdleRun, Point
<1>1. CASE Begin
  <2>1. now + 1 \in Point /\ now + 1 \in 0..MaxPoint
    BY <1>1 DEF Begin
  <2>. QED
    BY <1>1, <2>1 DEF Begin
<1>2. CASE CancelDialog
  BY <1>2 DEF CancelDialog
<1>3. ASSUME NEW t \in Dest, OpenDialog(t) PROVE TypeInv'
  <2>1. attached \in SUBSET Disk /\ 0 \in 0..MaxPoint
    OBVIOUS
  <2>. QED
    BY <1>3, <2>1 DEF OpenDialog
<1>4. CASE \E d \in Disk : Reattach(d)
  BY <1>4 DEF Reattach
<1>. QED
  BY <1>1, <1>2, <1>3, <1>4

\* A restore only adds and removes zvols of its own.
LEMMA TypeRestore ==
  ASSUME TypeInv, NEW v \in NewVM,
         RestoreStep(v) \/ \E t \in Dest, p \in Point : RestoreBegin(v, t, p)
  PROVE  TypeInv'
<1>1. /\ restore \in [NewVM -> RestoreState]
      /\ vol \in [NewVM -> [Disk -> {NoVolume, Foreign} \cup Point]]
      /\ defined \in [NewVM -> 0..MaxPoint]
      /\ dst \in [Dest -> [Disk -> SUBSET Point]]
  BY DEF TypeInv, TypeOK
<1>2. UNCHANGED restoreOnly
  BY DEF RestoreStep, RestoreBegin, RestoreFails, RestoreDefine, RestoreDisk,
         RestoreRefused, RestoreUndo
<1>3. faults' \in 0..MaxFault
  <2>1. Fault \/ NoFault
    BY DEF RestoreStep, RestoreBegin, RestoreFails, RestoreDefine, RestoreDisk,
           RestoreRefused, RestoreUndo, NoFault
  <2>. QED
    BY <2>1, FaultType DEF TypeInv
<1>4. /\ restore' \in [NewVM -> RestoreState]
      /\ vol' \in [NewVM -> [Disk -> {NoVolume, Foreign} \cup Point]]
      /\ defined' \in [NewVM -> 0..MaxPoint]
  <2> USE <1>1 DEF RestoreState, RestorePC, RestoreToUndo, restoreOnly
  <2>1. CASE RestoreFails(v)
    <3>1. vol' = vol \/ \E d \in Disk : /\ restore[v].point \in dst[restore[v].dest][d]
                                        /\ vol' = [vol EXCEPT ![v][d] = restore[v].point]
      BY <2>1 DEF RestoreFails
    <3>2. vol' \in [NewVM -> [Disk -> {NoVolume, Foreign} \cup Point]]
      <4>1. CASE vol' = vol
        BY <4>1
      <4>2. ASSUME NEW d \in Disk, restore[v].point \in dst[restore[v].dest][d],
                   vol' = [vol EXCEPT ![v][d] = restore[v].point]
            PROVE  vol' \in [NewVM -> [Disk -> {NoVolume, Foreign} \cup Point]]
        <5>1. restore[v].point \in {NoVolume, Foreign} \cup Point
          BY <4>2
        <5>. QED
          BY <4>2, <5>1, UpdateTwice
      <4>. QED
        BY <3>1, <4>1, <4>2
    <3>3. RestoreToUndo(v) /\ UNCHANGED defined
      BY <2>1 DEF RestoreFails
    <3>. QED
      <4>1. [restore[v] EXCEPT !.pc = IF restore[v].made = {} THEN "idle" ELSE "undo",
                               !.todo = restore[v].made] \in RestoreState
        OBVIOUS
      <4>2. restore' \in [NewVM -> RestoreState]
        <5> HIDE DEF RestoreState
        <5>. QED
          BY <3>3, <4>1, UpdateOnce
      <4>. QED
        BY <3>2, <3>3, <4>2
  <2>2. CASE RestoreDefine(v)
    <3>1. [restore[v] EXCEPT !.pc = "idle"] \in RestoreState
      OBVIOUS
    <3>2. restore[v].point \in 0..MaxPoint
      OBVIOUS
    <3>3. restore' \in [NewVM -> RestoreState]
      <4> HIDE DEF RestoreState
      <4>. QED
        BY <2>2, <3>1, UpdateOnce DEF RestoreDefine
    <3>4. defined' \in [NewVM -> 0..MaxPoint] /\ vol' = vol
      BY <2>2, <3>2, UpdateOnce DEF RestoreDefine
    <3>. QED
      BY <3>3, <3>4
  <2>3. ASSUME NEW t \in Dest, NEW p \in Point, RestoreBegin(v, t, p)
        PROVE  /\ restore' \in [NewVM -> RestoreState]
               /\ vol' = vol /\ defined' = defined
    <3>1. Volumes(t) \in SUBSET Disk /\ p \in 0..MaxPoint
      BY BackupAssumption DEF Volumes, Point
    <3>2. PICK r \in RestoreState : restore' = [restore EXCEPT ![v] = r]
      BY <2>3, <3>1 DEF RestoreBegin, IdleRestore
    <3>3. restore' \in [NewVM -> RestoreState]
      <4> HIDE DEF RestoreState
      <4>. QED
        BY <3>2, UpdateOnce
    <3>. QED
      BY <2>3, <3>3 DEF RestoreBegin
  <2>4. ASSUME NEW d \in Disk, RestoreDisk(v, d)
        PROVE  /\ restore' \in [NewVM -> RestoreState]
               /\ vol' \in [NewVM -> [Disk -> {NoVolume, Foreign} \cup Point]]
               /\ defined' = defined
    <3>1. restore[v].point \in Point
      BY <2>4 DEF RestoreDisk
    <3>2. vol' \in [NewVM -> [Disk -> {NoVolume, Foreign} \cup Point]]
      BY <2>4, <3>1, UpdateTwice DEF RestoreDisk
    <3> DEFINE r == [restore[v] EXCEPT !.todo = @ \ {d}, !.made = @ \cup {d},
                       !.pc = IF restore[v].todo = {d} THEN "define" ELSE "recv"]
    <3>3. r \in RestoreState
      OBVIOUS
    <3>4. restore' = [restore EXCEPT ![v] = r] /\ defined' = defined
      BY <2>4 DEF RestoreDisk
    <3>5. restore' \in [NewVM -> RestoreState] /\ defined' = defined
      <4> HIDE DEF RestoreState, r
      <4>. QED
        BY <3>3, <3>4, UpdateOnce
    <3>. QED
      BY <3>2, <3>5
  <2>5. ASSUME NEW d \in Disk, RestoreRefused(v, d)
        PROVE  /\ restore' \in [NewVM -> RestoreState]
               /\ vol' = vol /\ defined' = defined
    <3> DEFINE r == [restore[v] EXCEPT
                       !.pc = IF restore[v].made = {} THEN "idle" ELSE "undo",
                       !.todo = restore[v].made]
    <3>1. restore' = [restore EXCEPT ![v] = r] /\ vol' = vol /\ defined' = defined
      BY <2>5 DEF RestoreRefused
    <3>2. r \in RestoreState
      OBVIOUS
    <3>3. restore' \in [NewVM -> RestoreState]
      <4> HIDE DEF RestoreState, r
      <4>. QED
        BY <3>1, <3>2, UpdateOnce
    <3>. QED
      BY <3>1, <3>3
  <2>6. ASSUME NEW d \in Disk, RestoreUndo(v, d)
        PROVE  /\ restore' \in [NewVM -> RestoreState]
               /\ vol' \in [NewVM -> [Disk -> {NoVolume, Foreign} \cup Point]]
               /\ defined' = defined
    <3>1. vol' = vol \/ vol' = [vol EXCEPT ![v][d] = NoVolume]
      BY <2>6 DEF RestoreUndo
    <3>2. vol' \in [NewVM -> [Disk -> {NoVolume, Foreign} \cup Point]]
      <4>1. NoVolume \in {NoVolume, Foreign} \cup Point
        OBVIOUS
      <4>. QED
        <5>1. CASE vol' = vol
          BY <5>1
        <5>2. CASE vol' = [vol EXCEPT ![v][d] = NoVolume]
          BY <4>1, <5>2, UpdateTwice
        <5>. QED
          BY <3>1, <5>1, <5>2
    <3>3. PICK gone \in BOOLEAN : restore' = [restore EXCEPT ![v] =
            [restore[v] EXCEPT !.todo = @ \ {d}, !.tidy = @ /\ gone,
                      !.pc = IF restore[v].todo = {d} THEN "idle" ELSE "undo"]]
      BY <2>6 DEF RestoreUndo
    <3> DEFINE r == [restore[v] EXCEPT !.todo = @ \ {d}, !.tidy = @ /\ gone,
                       !.pc = IF restore[v].todo = {d} THEN "idle" ELSE "undo"]
    <3>4. r \in RestoreState
      OBVIOUS
    <3>5. restore' \in [NewVM -> RestoreState]
      <4>1. restore' = [restore EXCEPT ![v] = r]
        BY <3>3
      <4> HIDE DEF RestoreState, r
      <4>. QED
        BY <3>4, <4>1, UpdateOnce
    <3>6. UNCHANGED defined
      BY <2>6 DEF RestoreUndo
    <3>. QED
      BY <3>2, <3>5, <3>6
  <2>. QED
    BY <2>1, <2>2, <2>3, <2>4, <2>5, <2>6 DEF RestoreStep
<1>. QED
  BY <1>2, <1>3, <1>4 DEF restoreOnly, destVars, TypeInv, TypeOK, Named, TodoOK

LEMMA TypeCrash == TypeInv /\ Crash => TypeInv'
<1> SUFFICES ASSUME TypeInv, Crash PROVE TypeInv'
  OBVIOUS
<1>1. run' \in RunState /\ Named' /\ TodoOK'
  BY DEF Crash, TypeInv, TypeOK, RunState, RunPC, Named, TodoOK
<1>2. restore' \in [NewVM -> RestoreState]
  <2>1. ASSUME NEW v \in NewVM
        PROVE  [restore[v] EXCEPT !.pc = "idle",
                                  !.tidy = @ /\ restore[v].pc = "idle"] \in RestoreState
    <3>1. restore[v] \in RestoreState
      BY DEF TypeInv, TypeOK
    <3>. QED
      BY <3>1 DEF RestoreState, RestorePC
  <2>. QED
    BY <2>1 DEF Crash
<1>. QED
  BY <1>1, <1>2, FaultType DEF Crash, TypeInv, TypeOK, destVars

LEMMA TypeStep == TypeInv /\ [Next]_vars => TypeInv'
<1> SUFFICES ASSUME TypeInv, [Next]_vars PROVE TypeInv'
  OBVIOUS
<1>1. CASE UNCHANGED vars
  BY <1>1 DEF vars, TypeInv, TypeOK, Named, TodoOK
<1>. QED
  BY <1>1, TypeBackupStep, TypeDialog, TypeRestore, TypeCrash DEF Next

\* Type correctness.
THEOREM TypeCorrect == Spec => []TypeOK
<1>1. TypeInv => TypeOK
  BY DEF TypeInv
<1>. QED
  BY <1>1, TypeInit, TypeStep, PTL DEF Spec

-----------------------------------------------------------------------------
(* The chain: the next incremental has its base.                           *)

\* No snapshot is newer than the newest name used.
Bounded ==
  /\ \A d \in Disk : \A p \in src[d] : p <= now
  /\ \A t \in Dest, d \in Disk : \A p \in dst[t][d] : p <= now
  /\ \A t \in Dest : \A p \in listed[t] \cup stored[t] : p <= now

\* What the run has sent so far is at its destination.
Sent ==
  /\ run.pc = "send" => \A d \in run.disks \ run.todo : run.name \in dst[run.dest][d]
  /\ run.pc \in {"parent", "props", "prune", "pruneSrc"} =>
       \A d \in run.disks : run.name \in dst[run.dest][d]
  /\ run.pc = "props" => run.name \in listed[run.dest]

ChainInv == TypeInv /\ Bounded /\ Sent /\ ChainIntact

\* The newest backup with a definition is in every disk of its destination.
NewestComplete ==
  /\ attached = Disk
  /\ run.pc # "idle" => run.disks = Disk
  /\ \A t \in Dest : \A p \in stored[t] :
       IsNewest(p, stored[t]) => \A d \in Disk : p \in dst[t][d]
  /\ run.pc \in {"prune", "pruneSrc"} => run.name \in stored[run.dest]

NewestInv == TypeInv /\ Bounded /\ Sent /\ NewestComplete

\* Retention never removes the newest of what it lists.
LEMMA NewestKept ==
  ASSUME NEW S, NEW n \in Int, \A q \in S : q \in Int /\ q <= n
  PROVE  n \notin Excess(S)
<1>1. {q \in S : q > n} = {}
  OBVIOUS
<1>2. Cardinality({q \in S : q > n}) = 0
  BY <1>1, FS_EmptySet
<1>. QED
  BY <1>2, BackupAssumption DEF Excess

LEMMA OnlyNewest ==
  ASSUME NEW S, NEW n \in Int, n \in S, \A q \in S : q \in Int /\ q <= n
  PROVE  \A p \in S : IsNewest(p, S) => p = n
  BY DEF IsNewest

\* What each step of BackupDisks may do to the snapshots, as inclusions.
LEMMA StepShape ==
  ASSUME TypeInv, BackupStep
  PROVE  /\ now' = now
         /\ run'.dest = run.dest /\ run'.name = run.name /\ run'.disks = run.disks
         /\ run.pc \notin {"idle", "dialog"}
         /\ run'.pc \notin {"dialog"}
<1> USE DEF TypeInv, TypeOK, RunState, ToUndo
<1>1. CASE SnapTogether \/ SnapFails \/ MakeTree \/ PruneListFails \/ SnapParent \/ StoreDefinition
  BY <1>1 DEF SnapTogether, SnapFails, MakeTree, PruneListFails, SnapParent, StoreDefinition
<1>2. ASSUME NEW d \in Disk, SnapOne(d) \/ Send(d) \/ SendFails(d) \/ SendRefused(d) \/ UndoDisk(d)
      PROVE  /\ now' = now
             /\ run'.dest = run.dest /\ run'.name = run.name /\ run'.disks = run.disks
             /\ run.pc \notin {"idle", "dialog"}
             /\ run'.pc \notin {"dialog"}
  BY <1>2 DEF SnapOne, Send, SendFails, SendRefused, UndoDisk
<1>3. ASSUME NEW d \in Disk, PruneSrc(d)
      PROVE  /\ now' = now
             /\ run'.dest = run.dest /\ run'.name = run.name /\ run'.disks = run.disks
             /\ run.pc \notin {"idle", "dialog"}
             /\ run'.pc \notin {"dialog"}
  BY <1>3 DEF PruneSrc
<1>4. ASSUME NEW d \in Disk \cup {0}, Prune(d)
      PROVE  /\ now' = now
             /\ run'.dest = run.dest /\ run'.name = run.name /\ run'.disks = run.disks
             /\ run.pc \notin {"idle", "dialog"}
             /\ run'.pc \notin {"dialog"}
  BY <1>4 DEF Prune
<1>. QED
  BY <1>1, <1>2, <1>3, <1>4 DEF BackupStep

\* The stores only gain the run's own name.
LEMMA StoresGain ==
  ASSUME TypeInv, BackupStep
  PROVE  /\ \A d \in Disk : src'[d] \subseteq src[d] \cup {run.name}
         /\ \A t \in Dest, d \in Disk : dst'[t][d] \subseteq dst[t][d] \cup {run.name}
         /\ \A t \in Dest : listed'[t] \subseteq listed[t] \cup {run.name}
         /\ \A t \in Dest : stored'[t] \subseteq stored[t] \cup {run.name}
<1> USE RunTyped, StoresTyped DEF destVars
<1> DEFINE Gain ==
         /\ \A d \in Disk : src'[d] \subseteq src[d] \cup {run.name}
         /\ \A t \in Dest, d \in Disk : dst'[t][d] \subseteq dst[t][d] \cup {run.name}
         /\ \A t \in Dest : listed'[t] \subseteq listed[t] \cup {run.name}
         /\ \A t \in Dest : stored'[t] \subseteq stored[t] \cup {run.name}
<1>1. CASE SnapTogether \/ SnapFails \/ MakeTree \/ PruneListFails
  BY <1>1 DEF SnapTogether, SnapFails, MakeTree, PruneListFails
<1>2. CASE SnapParent
  BY <1>2 DEF SnapParent
<1>3. CASE StoreDefinition
  BY <1>3 DEF StoreDefinition
<1>4. ASSUME NEW d \in Disk, SnapOne(d) \/ SendRefused(d)
      PROVE  Gain
  BY <1>4 DEF SnapOne, SendRefused
<1>5. ASSUME NEW d \in Disk, Send(d) \/ SendFails(d)
      PROVE  Gain
  <2>1. dst' = dst \/ dst' = [dst EXCEPT ![run.dest][d] = @ \cup {run.name}]
    BY <1>5 DEF Send, SendFails, Received
  <2>2. UNCHANGED <<src, listed, stored>>
    BY <1>5 DEF Send, SendFails
  <2>. QED
    BY <2>1, <2>2
<1>6. ASSUME NEW d \in Disk, UndoDisk(d)
      PROVE  Gain
  <2>1. src' = src \/ src' = [src EXCEPT ![d] = @ \ {run.name}]
    BY <1>6 DEF UndoDisk
  <2>. QED
    BY <1>6, <2>1 DEF UndoDisk
<1>7. ASSUME NEW d \in Disk, PruneSrc(d)
      PROVE  Gain
  <2>1. PICK gone : src' = [src EXCEPT ![d] = @ \ gone]
    BY <1>7 DEF PruneSrc
  <2>. QED
    BY <1>7, <2>1 DEF PruneSrc
<1>8. ASSUME NEW d \in Disk \cup {0}, Prune(d)
      PROVE  Gain
  <2>1. CASE d = 0
    <3>1. PICK gone : /\ listed' = [listed EXCEPT ![run.dest] = @ \ gone]
                      /\ stored' = [stored EXCEPT ![run.dest] = @ \ gone]
      BY <1>8, <2>1 DEF Prune
    <3>. QED
      BY <1>8, <2>1, <3>1 DEF Prune
  <2>2. CASE d # 0
    <3>1. PICK gone : dst' = [dst EXCEPT ![run.dest][d] = @ \ gone]
      BY <1>8, <2>2 DEF Prune
    <3>. QED
      BY <1>8, <2>2, <3>1 DEF Prune
  <2>. QED
    BY <2>1, <2>2
<1>. QED
  BY <1>1, <1>2, <1>3, <1>4, <1>5, <1>6, <1>7, <1>8 DEF BackupStep

LEMMA BoundedStep ==
  ASSUME TypeInv, Bounded, BackupStep
  PROVE  Bounded'
<1>1. run.name = now /\ now' = now /\ now \in Int
  BY StepShape, BackupAssumption DEF TypeInv, TypeOK, Named
<1>. QED
  BY <1>1, StoresGain DEF Bounded

\* Pruning a disk at the destination leaves the run's own backup there.
LEMMA PruneKeepsName ==
  ASSUME TypeInv, Bounded, NEW d \in Disk \cup {0}, Prune(d)
  PROVE  /\ \A t \in Dest, e \in Disk :
              run.name \in dst[t][e] => run.name \in dst'[t][e]
         /\ \A t \in Dest : run.name \in stored[t] => run.name \in stored'[t]
<1>1. run.name = now /\ now \in Int
  BY BackupAssumption DEF Prune, TypeInv, TypeOK, Named
<1>2. ASSUME NEW S \in SUBSET Point, \A q \in S : q <= now
      PROVE  run.name \notin Excess(S)
  <2>1. \A q \in S : q \in Int /\ q <= run.name
    BY <1>1, <1>2 DEF Point
  <2>2. run.name \in Int
    BY <1>1
  <2>. QED
    BY <2>1, <2>2, NewestKept
<1>3. CASE d = 0
  <2>1. run.name \notin Excess(listed[run.dest])
    BY <1>2, RunTyped, StoresTyped DEF Bounded
  <2>2. PICK gone \in SUBSET Excess(listed[run.dest]) :
             stored' = [stored EXCEPT ![run.dest] = @ \ gone]
    BY <1>3 DEF Prune
  <2>3. dst' = dst
    BY <1>3 DEF Prune
  <2>. QED
    BY <2>1, <2>2, <2>3, StoresTyped
<1>4. CASE d # 0
  <2>1. d \in Disk
    BY <1>4
  <2>2. run.name \notin Excess(dst[run.dest][d])
    BY <1>2, <2>1, RunTyped, StoresTyped DEF Bounded
  <2>3. PICK gone \in SUBSET Excess(dst[run.dest][d]) :
             dst' = [dst EXCEPT ![run.dest][d] = @ \ gone]
    BY <1>4 DEF Prune
  <2>4. stored' = stored
    BY <1>4 DEF Prune
  <2>. QED
    BY <2>1, <2>2, <2>3, <2>4, StoresTyped, RunTyped
<1>. QED
  BY <1>3, <1>4

LEMMA SentStep ==
  ASSUME TypeInv, Bounded, Sent, BackupStep
  PROVE  Sent'
<1> USE RunTyped, StoresTyped DEF Sent, ToUndo, destVars
<1>0. run \in RunState
  BY DEF TypeInv, TypeOK
<1>1. CASE SnapTogether \/ SnapFails \/ MakeTree \/ PruneListFails
  BY <1>0, <1>1 DEF SnapTogether, SnapFails, MakeTree, PruneListFails, RunState
<1>2. CASE SnapParent
  <2>1. dst' = dst /\ run.pc = "parent"
    BY <1>2 DEF SnapParent
  <2>2. CASE run' = [run EXCEPT !.pc = "props"]
    <3>1. listed' = [listed EXCEPT ![run.dest] = @ \cup {run.name}]
      BY <1>0, <1>2, <2>2 DEF SnapParent, RunState
    <3>. QED
      BY <1>0, <2>1, <2>2, <3>1 DEF RunState
  <2>3. CASE ToUndo(FALSE)
    BY <1>0, <2>1, <2>3 DEF RunState
  <2>. QED
    BY <1>2, <2>2, <2>3 DEF SnapParent
<1>3. CASE StoreDefinition
  BY <1>0, <1>3 DEF StoreDefinition, RunState
<1>4. ASSUME NEW d \in Disk, SnapOne(d) \/ SendRefused(d) \/ UndoDisk(d)
      PROVE  Sent'
  BY <1>0, <1>4 DEF SnapOne, SendRefused, UndoDisk, RunState
<1>5. ASSUME NEW d \in Disk, Send(d)
      PROVE  Sent'
  <2>1. dst' = [dst EXCEPT ![run.dest][d] = @ \cup {run.name}] /\ UNCHANGED listed
    BY <1>5 DEF Send, Received
  <2>2. run' = [run EXCEPT !.todo = @ \ {d},
                        !.pc = IF run.todo = {d} THEN "parent" ELSE "send"]
    BY <1>5 DEF Send
  <2>3. run.pc = "send"
    BY <1>5 DEF Send
  <2>4. \A e \in run.disks \ (run.todo \ {d}) : run.name \in dst'[run.dest][e]
    BY <2>1, <2>3
  <2>. QED
    BY <1>0, <2>1, <2>2, <2>3, <2>4 DEF RunState
<1>6. ASSUME NEW d \in Disk, SendFails(d)
      PROVE  Sent'
  BY <1>0, <1>6 DEF SendFails, RunState
<1>7. ASSUME NEW d \in Disk, PruneSrc(d)
      PROVE  Sent'
  BY <1>0, <1>7 DEF PruneSrc, RunState
<1>8. ASSUME NEW d \in Disk \cup {0}, Prune(d)
      PROVE  Sent'
  <2>1. run'.pc \in {"prune", "pruneSrc"} /\ run.pc = "prune"
    BY <1>0, <1>8 DEF Prune, RunState
  <2>. QED
    BY <1>8, <2>1, StepShape, PruneKeepsName
<1>. QED
  BY <1>1, <1>2, <1>3, <1>4, <1>5, <1>6, <1>7, <1>8 DEF BackupStep

\* The heart of it.  An undo leaves what the destination has, the hypervisor is
\* pruned down to a snapshot every disk at the destination has, and that one is
\* the newest there.  It takes one destination and an undo whose probe of the
\* destination answers.
LEMMA ChainStep ==
  ASSUME ChainInv, BackupStep, ~ProbeFaults, \A t, u \in Dest : t = u
  PROVE  ChainIntact'
<1> USE RunTyped, StoresTyped DEF ChainInv, destVars
<1>0. run.name = now /\ now \in Int
  BY StepShape, BackupAssumption DEF TypeInv, TypeOK, Named
<1>1. CASE SnapTogether
  <2>1. dst' = dst
    BY <1>1 DEF SnapTogether
  <2>2. \A d \in Disk : src[d] \subseteq src'[d]
    BY <1>1 DEF SnapTogether
  <2>. QED
    BY <2>1, <2>2 DEF ChainIntact
<1>2. CASE SnapFails \/ MakeTree \/ PruneListFails \/ SnapParent \/ StoreDefinition
  <2>1. src' = src /\ dst' = dst
    BY <1>2 DEF SnapFails, MakeTree, PruneListFails, SnapParent, StoreDefinition
  <2>. QED
    BY <2>1 DEF ChainIntact
<1>3. ASSUME NEW d \in Disk, SnapOne(d) \/ SendRefused(d)
      PROVE  ChainIntact'
  BY <1>3 DEF SnapOne, SendRefused, ChainIntact
<1>4. ASSUME NEW d \in Disk, Send(d) \/ SendFails(d)
      PROVE  ChainIntact'
  <2>1. src' = src
    BY <1>4 DEF Send, SendFails
  <2>2. CASE dst' = dst
    BY <2>1, <2>2 DEF ChainIntact
  <2>3. CASE run.name \in src[d] /\ dst' = [dst EXCEPT ![run.dest][d] = @ \cup {run.name}]
    <3>1. \A p \in dst'[run.dest][d] : IsNewest(p, dst'[run.dest][d]) => p = run.name
      BY <2>3, <1>0 DEF IsNewest, Bounded, Point
    <3>2. \A t \in Dest, e \in Disk : e # d => dst'[t][e] = dst[t][e]
      BY <2>3
    <3>3. \A t \in Dest : t = run.dest
      OBVIOUS
    <3>. QED
      BY <2>1, <2>3, <3>1, <3>2, <3>3 DEF ChainIntact
  <2>. QED
    BY <1>4, <2>2, <2>3 DEF Send, SendFails, Received
<1>5. ASSUME NEW d \in Disk, UndoDisk(d)
      PROVE  ChainIntact'
  <2>1. dst' = dst
    BY <1>5 DEF UndoDisk
  <2>2. \/ src' = src
        \/ run.name \notin dst[run.dest][d] /\ src' = [src EXCEPT ![d] = @ \ {run.name}]
    BY <1>5 DEF UndoDisk
  <2>3. \A t \in Dest : t = run.dest
    OBVIOUS
  <2>. QED
    BY <2>1, <2>2, <2>3 DEF ChainIntact
<1>6. ASSUME NEW d \in Disk, PruneSrc(d)
      PROVE  ChainIntact'
  <2>1. dst' = dst
    BY <1>6 DEF PruneSrc
  <2>2. PICK gone \in SUBSET (src[d] \ {run.name}) : src' = [src EXCEPT ![d] = @ \ gone]
    BY <1>6 DEF PruneSrc
  <2>3. d \in run.disks
    BY <1>6 DEF PruneSrc, IsNext, TypeInv, TodoOK
  <2>4. run.name \in dst[run.dest][d]
    BY <1>6, <2>3 DEF PruneSrc, Sent
  <2>5. \A p \in dst[run.dest][d] : IsNewest(p, dst[run.dest][d]) => p = run.name
    BY <1>0, <2>4 DEF IsNewest, Bounded, Point
  <2>6. \A t \in Dest : t = run.dest
    OBVIOUS
  <2>. QED
    BY <2>1, <2>2, <2>4, <2>5, <2>6 DEF ChainIntact
<1>7. ASSUME NEW d \in Disk \cup {0}, Prune(d)
      PROVE  ChainIntact'
  <2>1. src' = src
    BY <1>7 DEF Prune
  <2>2. CASE d = 0
    BY <1>7, <2>1, <2>2 DEF Prune, ChainIntact
  <2>3. CASE d # 0
    <3>1. d \in run.disks
      BY <1>7, <2>3 DEF Prune, IsNext, TypeInv, TodoOK
    <3>2. run.name \in dst[run.dest][d]
      BY <1>7, <3>1 DEF Prune, Sent
    <3>3. run.name \in dst'[run.dest][d]
      BY <1>7, <3>2, <2>3, PruneKeepsName
    <3>4. PICK gone : dst' = [dst EXCEPT ![run.dest][d] = @ \ gone]
      BY <1>7, <2>3 DEF Prune
    <3>5. dst'[run.dest][d] \subseteq dst[run.dest][d]
      BY <3>4, <2>3
    <3>6. \A p \in dst'[run.dest][d] : IsNewest(p, dst'[run.dest][d]) => p = run.name
      BY <1>0, <3>3, <3>5, <2>3 DEF IsNewest, Bounded, Point
    <3>7. IsNewest(run.name, dst[run.dest][d])
      BY <1>0, <3>2, <2>3 DEF IsNewest, Bounded
    <3>8. run.name \in src[d]
      BY <3>2, <3>7, <2>3 DEF ChainIntact
    <3>9. \A t \in Dest, e \in Disk : e # d => dst'[t][e] = dst[t][e]
      BY <3>4, <2>3
    <3>10. \A t \in Dest : t = run.dest
      OBVIOUS
    <3>. QED
      BY <2>1, <3>6, <3>8, <3>9, <3>10 DEF ChainIntact
  <2>. QED
    BY <2>2, <2>3
<1>. QED
  BY <1>1, <1>2, <1>3, <1>4, <1>5, <1>6, <1>7 DEF BackupStep

\* The steps that are not BackupDisks: the dialogs, restores and crashes.
OtherStep ==
  \/ \E d \in Disk : Reattach(d)
  \/ \E t \in Dest : OpenDialog(t)
  \/ CancelDialog
  \/ Begin
  \/ \E v \in NewVM, t \in Dest, p \in Point : RestoreBegin(v, t, p)
  \/ \E v \in NewVM : RestoreStep(v)
  \/ Crash
  \/ UNCHANGED vars

LEMMA GoesIdle ==
  ASSUME TypeInv, CancelDialog \/ Crash
  PROVE  run'.pc = "idle"
<1>1. CASE CancelDialog
  <2>1. run' = IdleRun
    BY <1>1 DEF CancelDialog
  <2>. QED
    BY <2>1 DEF IdleRun
<1>2. CASE Crash
  <2>1. run' = [run EXCEPT !.pc = "idle", !.clean = FALSE]
    BY <1>2 DEF Crash
  <2>. QED
    BY <2>1 DEF TypeInv, TypeOK, RunState
<1>. QED
  BY <1>1, <1>2

\* None of them touches a backup snapshot, and none moves a run to a point
\* where it has sent anything.
LEMMA OtherShape ==
  ASSUME TypeInv, OtherStep
  PROVE  /\ UNCHANGED <<src, dst, listed, stored>>
         /\ now' \in Int /\ now <= now'
         /\ \/ run' = run
            \/ run'.pc \in {"idle", "dialog"}
            \/ run'.pc = "snap" /\ run.pc = "dialog" /\ run'.disks = run.disks
<1> USE DEF TypeInv, TypeOK, RunState, destVars
<1>1. CASE (\E d \in Disk : Reattach(d)) \/ UNCHANGED vars
  BY <1>1, BackupAssumption DEF Reattach, vars
<1>7. CASE Crash \/ CancelDialog
  <2>1. run'.pc = "idle"
    BY <1>7, GoesIdle
  <2>2. UNCHANGED <<src, dst, listed, stored, now>>
    BY <1>7 DEF Crash, CancelDialog
  <2>. QED
    BY <2>1, <2>2, BackupAssumption
<1>2. ASSUME NEW t \in Dest, OpenDialog(t)
      PROVE  UNCHANGED <<src, dst, listed, stored, now>> /\ run'.pc = "dialog"
  BY <1>2 DEF OpenDialog, IdleRun
<1>3. CASE Begin
  BY <1>3, BackupAssumption DEF Begin
<1>4. ASSUME NEW v \in NewVM, NEW t \in Dest, NEW p \in Point, RestoreBegin(v, t, p)
      PROVE  UNCHANGED <<src, dst, listed, stored, now, run>>
  BY <1>4 DEF RestoreBegin, restoreOnly
<1>5. ASSUME NEW v \in NewVM, RestoreStep(v)
      PROVE  UNCHANGED <<src, dst, listed, stored, now, run>>
  BY <1>5 DEF RestoreStep, RestoreFails, RestoreDefine, RestoreDisk, RestoreRefused,
              RestoreUndo, restoreOnly
<1>6. now \in Int
  BY BackupAssumption
<1>. QED
  BY <1>1, <1>2, <1>3, <1>4, <1>5, <1>6, <1>7 DEF OtherStep

LEMMA BoundedOther ==
  ASSUME TypeInv, Bounded, OtherStep
  PROVE  Bounded'
<1>1. now \in Int /\ now' \in Int /\ now <= now'
  BY OtherShape, BackupAssumption DEF TypeInv, TypeOK
<1>2. UNCHANGED <<src, dst, listed, stored>>
  BY OtherShape
<1> USE StoresTyped DEF Bounded, Point
<1>3. \A d \in Disk : \A p \in src'[d] : p <= now'
  BY <1>1, <1>2
<1>4. \A t \in Dest, d \in Disk : \A p \in dst'[t][d] : p <= now'
  BY <1>1, <1>2
<1>5. \A t \in Dest : \A p \in listed'[t] \cup stored'[t] : p <= now'
  BY <1>1, <1>2
<1>. QED
  BY <1>3, <1>4, <1>5

LEMMA SentOther ==
  ASSUME TypeInv, Sent, OtherStep
  PROVE  Sent'
  BY OtherShape DEF Sent

LEMMA NextSplit == [Next]_vars => BackupStep \/ OtherStep
  BY DEF Next, OtherStep

LEMMA ChainInit == Init => Bounded /\ Sent /\ ChainIntact
<1> SUFFICES ASSUME Init PROVE Bounded /\ Sent /\ ChainIntact
  OBVIOUS
<1>1. \A t \in Dest, d \in Disk : src[d] = {} /\ dst[t][d] = {}
  BY DEF Init
<1>2. \A t \in Dest : listed[t] = {} /\ stored[t] = {}
  BY DEF Init
<1>3. \A d \in Disk : src[d] = {}
  BY DEF Init
<1>4. run.pc = "idle"
  BY DEF Init, IdleRun
<1>. QED
  BY <1>1, <1>2, <1>3, <1>4 DEF Bounded, Sent, ChainIntact

LEMMA ChainKept ==
  ASSUME ~ProbeFaults, \A t, u \in Dest : t = u, ChainInv, [Next]_vars
  PROVE  ChainInv'
<1>1. TypeInv'
  BY TypeStep DEF ChainInv
<1>2. CASE BackupStep
  BY <1>1, <1>2, BoundedStep, SentStep, ChainStep DEF ChainInv
<1>3. CASE OtherStep
  <2>1. ChainIntact'
    BY <1>3, OtherShape DEF ChainInv, ChainIntact
  <2>. QED
    BY <1>1, <1>3, <2>1, BoundedOther, SentOther DEF ChainInv
<1>. QED
  BY <1>2, <1>3, NextSplit

\* With one destination, and an undo whose look at the destination answers,
\* no failure and no crash breaks the chain of incrementals.
THEOREM ChainStays ==
  ASSUME ~ProbeFaults, \A t, u \in Dest : t = u
  PROVE  Spec => []ChainIntact
<1>1. Init => ChainInv
  BY TypeInit, ChainInit DEF ChainInv
<1>2. ChainInv /\ [Next]_vars => ChainInv'
  BY ChainKept
<1>3. ChainInv => ChainIntact
  BY DEF ChainInv
<1>. QED
  BY <1>1, <1>2, <1>3, PTL DEF Spec

-----------------------------------------------------------------------------
(* The newest backup can be restored.                                      *)

\* A point's definition is stored only when every disk is there, and
\* retention never takes the newest.
LEMMA NewestStep ==
  ASSUME NewestInv, BackupStep
  PROVE  NewestComplete'
<1> USE RunTyped, StoresTyped DEF NewestInv, destVars
<1>0. run.name = now /\ now \in Int /\ run.disks = Disk
  BY StepShape, BackupAssumption DEF TypeInv, TypeOK, Named, NewestComplete
<1>1. run'.disks = Disk /\ run'.dest = run.dest /\ run'.name = run.name
  BY <1>0, StepShape
<1>2. attached' = Disk
  BY DEF NewestComplete, BackupStep, SnapTogether, SnapFails, MakeTree, SnapParent,
         StoreDefinition, PruneListFails, SnapOne, Send, SendRefused, SendFails,
         UndoDisk, PruneSrc, Prune
<1>3. CASE StoreDefinition
  <2>1. dst' = dst /\ run.pc = "props"
    BY <1>3 DEF StoreDefinition
  <2>2. \A d \in Disk : run.name \in dst[run.dest][d]
    BY <1>0, <2>1 DEF Sent
  <2>3. CASE stored' = [stored EXCEPT ![run.dest] = @ \cup {run.name}]
    <3>1. \A p \in stored'[run.dest] :
            IsNewest(p, stored'[run.dest]) => p = run.name
      <4>1. stored'[run.dest] = stored[run.dest] \cup {run.name}
        BY <2>3
      <4>2. \A q \in stored'[run.dest] : q \in Int /\ q <= run.name
        BY <1>0, <4>1 DEF Bounded, Point
      <4>. QED
        BY <1>0, <4>1, <4>2, OnlyNewest
    <3>2. \A t \in Dest : t # run.dest => stored'[t] = stored[t]
      BY <2>3
    <3>3. run.name \in stored'[run.dest]
      BY <2>3
    <3>. QED
      BY <1>1, <1>2, <2>1, <2>2, <3>1, <3>2, <3>3 DEF NewestComplete
  <2>4. CASE stored' = stored /\ run'.pc = "undo"
    BY <1>1, <1>2, <2>1, <2>4 DEF NewestComplete
  <2>. QED
    BY <1>3, <2>3, <2>4 DEF StoreDefinition, ToUndo, TypeInv, TypeOK, RunState
<1>4. ASSUME NEW d \in Disk \cup {0}, Prune(d)
      PROVE  NewestComplete'
  <2>1. run.name \in stored[run.dest] /\ \A e \in Disk : run.name \in dst[run.dest][e]
    BY <1>0, <1>4 DEF Prune, NewestComplete, Sent
  <2>2. run.name \in stored'[run.dest] /\ \A e \in Disk : run.name \in dst'[run.dest][e]
    BY <1>4, <2>1, PruneKeepsName
  <2>3. now' = now /\ Bounded'
    BY StepShape, BoundedStep
  <2>4. \A p \in stored'[run.dest] : IsNewest(p, stored'[run.dest]) => p = run.name
    <3>1. TypeInv'
      BY TypeStep DEF Next
    <3>2. stored'[run.dest] \subseteq Point
      BY <3>1 DEF TypeInv, TypeOK
    <3>3. \A q \in stored'[run.dest] : q \in Int /\ q <= run.name
      BY <1>0, <2>3, <3>2 DEF Bounded, Point
    <3>. QED
      BY <1>0, <2>2, <3>3, OnlyNewest
  <2>5. \A t \in Dest : t # run.dest => stored'[t] = stored[t] /\ dst'[t] = dst[t]
    <3>1. CASE d = 0
      <4>1. PICK gone : stored' = [stored EXCEPT ![run.dest] = @ \ gone]
        BY <1>4, <3>1 DEF Prune
      <4>. QED
        BY <1>4, <3>1, <4>1 DEF Prune
    <3>2. CASE d # 0
      <4>1. PICK gone : dst' = [dst EXCEPT ![run.dest][d] = @ \ gone]
        BY <1>4, <3>2 DEF Prune
      <4>. QED
        BY <1>4, <3>2, <4>1 DEF Prune
    <3>. QED
      BY <3>1, <3>2
  <2>. QED
    BY <1>1, <1>2, <2>2, <2>4, <2>5 DEF NewestComplete
<1>5. ASSUME NEW d \in Disk, Send(d) \/ SendFails(d)
      PROVE  NewestComplete'
  <2>1. stored' = stored /\ run.pc = "send" /\ run'.pc \notin {"prune", "pruneSrc"}
    BY <1>5 DEF Send, SendFails, ToUndo, TypeInv, TypeOK, RunState
  <2>2. dst' = dst \/ dst' = [dst EXCEPT ![run.dest][d] = @ \cup {run.name}]
    BY <1>5 DEF Send, SendFails, Received
  <2>3. \A t \in Dest, e \in Disk : dst[t][e] \subseteq dst'[t][e]
    BY <2>2
  <2>. QED
    BY <1>1, <1>2, <2>1, <2>3 DEF NewestComplete
<1>6. ASSUME NEW d \in Disk, PruneSrc(d)
      PROVE  NewestComplete'
  <2>1. dst' = dst /\ stored' = stored /\ run.pc = "pruneSrc"
    BY <1>6 DEF PruneSrc
  <2>. QED
    BY <1>1, <1>2, <2>1 DEF NewestComplete
<1>7. ASSUME NEW d \in Disk, SnapOne(d) \/ SendRefused(d) \/ UndoDisk(d)
      PROVE  NewestComplete'
  <2>1. dst' = dst /\ stored' = stored /\ run'.pc \notin {"prune", "pruneSrc"}
    BY <1>7 DEF SnapOne, SendRefused, UndoDisk, ToUndo, TypeInv, TypeOK, RunState
  <2>. QED
    BY <1>1, <1>2, <2>1 DEF NewestComplete
<1>8. CASE SnapTogether \/ SnapFails \/ MakeTree \/ SnapParent \/ PruneListFails
  <2>1. dst' = dst /\ stored' = stored /\ run'.pc \notin {"prune", "pruneSrc"}
    BY <1>8 DEF SnapTogether, SnapFails, MakeTree, SnapParent, PruneListFails, ToUndo,
                TypeInv, TypeOK, RunState
  <2>. QED
    BY <1>1, <1>2, <2>1 DEF NewestComplete
<1>. QED
  BY <1>3, <1>4, <1>5, <1>6, <1>7, <1>8 DEF BackupStep

LEMMA NewestOther ==
  ASSUME NewestInv, OtherStep, ~Reconfig
  PROVE  NewestComplete'
<1>1. UNCHANGED <<dst, stored>>
  BY OtherShape DEF NewestInv
<1>2. attached' = Disk
  BY DEF NewestInv, NewestComplete, OtherStep, Reattach, OpenDialog, CancelDialog, Begin,
         RestoreBegin, RestoreStep, RestoreFails, RestoreDefine, RestoreDisk,
         RestoreRefused, RestoreUndo, restoreOnly, Crash, vars
<1>3. run'.pc # "idle" => run'.disks = Disk
  <2>1. CASE \E t \in Dest : OpenDialog(t)
    BY <2>1 DEF OpenDialog, IdleRun, NewestInv, NewestComplete
  <2>2. CASE CancelDialog \/ Crash
    <3>1. run'.pc = "idle"
      BY <2>2, GoesIdle DEF NewestInv
    <3>. QED
      BY <3>1
  <2>3. CASE ~(\E t \in Dest : OpenDialog(t)) /\ ~CancelDialog /\ ~Crash
    <3>1. run'.disks = run.disks /\ (run'.pc = run.pc \/ run.pc = "dialog")
      BY <2>3 DEF OtherStep, Reattach, Begin, RestoreBegin, RestoreStep, RestoreFails,
         RestoreDefine, RestoreDisk, RestoreRefused, RestoreUndo, restoreOnly, vars,
         NewestInv, TypeInv, TypeOK, RunState
    <3>. QED
      BY <3>1 DEF NewestInv, NewestComplete
  <2>. QED
    BY <2>1, <2>2, <2>3
<1>4. \/ run' = run
      \/ run'.pc \notin {"prune", "pruneSrc"}
  BY OtherShape DEF NewestInv
<1>. QED
  BY <1>1, <1>2, <1>3, <1>4 DEF NewestInv, NewestComplete

LEMMA NewestInit == ASSUME ~Reconfig PROVE Init => NewestInv
<1> SUFFICES ASSUME Init PROVE NewestInv
  OBVIOUS
<1>1. TypeInv /\ Bounded /\ Sent
  BY TypeInit, ChainInit
<1>2. attached = Disk /\ run.pc = "idle" /\ \A t \in Dest : stored[t] = {}
  BY DEF Init, IdleRun
<1>. QED
  BY <1>1, <1>2 DEF NewestInv, NewestComplete

LEMMA NewestInvKept ==
  ASSUME ~Reconfig, NewestInv, [Next]_vars
  PROVE  NewestInv'
<1>1. TypeInv'
  BY TypeStep DEF NewestInv
<1>2. CASE BackupStep
  BY <1>1, <1>2, BoundedStep, SentStep, NewestStep DEF NewestInv
<1>3. CASE OtherStep
  BY <1>1, <1>3, BoundedOther, SentOther, NewestOther DEF NewestInv
<1>. QED
  BY <1>2, <1>3, NextSplit

\* While no disk is attached or detached, the newest backup with a definition
\* can be restored whole at every moment, to any number of destinations.
THEOREM NewestStays ==
  ASSUME ~Reconfig
  PROVE  Spec => []NewestRestorable
<1>1. Init => NewestInv
  BY NewestInit
<1>2. NewestInv /\ [Next]_vars => NewestInv'
  BY NewestInvKept
<1>3. NewestInv => NewestRestorable
  BY DEF NewestInv, NewestComplete, NewestRestorable, Volumes
<1>. QED
  BY <1>1, <1>2, <1>3, PTL DEF Spec

-----------------------------------------------------------------------------
(* Numbers.                                                                *)

LEMMA Least == ASSUME NEW S \in SUBSET Nat, S # {} PROVE \E x \in S : \A y \in S : x <= y
<1> DEFINE R == {ss \in Nat \X Nat : ss[1] < ss[2]}
<1>1. IsWellFoundedOn(R, Nat)
  BY NatLessThanWellFounded DEF OpToRel
<1>2. PICK x \in S : \A y \in S : ~ (<<y, x>> \in R)
  <2> HIDE DEF R
  <2> QED
    BY <1>1, WFMin
<1>3. ASSUME NEW y \in S PROVE x <= y
  <2>1. <<y, x>> \in Nat \X Nat /\ <<y, x>>[1] = y /\ <<y, x>>[2] = x
    OBVIOUS
  <2> QED
    BY <1>2, <2>1
<1> QED
  BY <1>3

LEMMA PointsAre == MaxPoint \in Nat /\ IsFiniteSet(Point) /\ \A x \in Point : x \in Nat /\ x <= MaxPoint
<1>1. MaxPoint \in Int /\ 1 \in Int /\ MaxPoint \in Nat
  BY BackupAssumption
<1>2. IsFiniteSet(1..MaxPoint)
  BY <1>1, FS_Interval
<1> QED
  BY <1>1, <1>2 DEF Point

LEMMA Greatest == ASSUME NEW S \in SUBSET Point, S # {} PROVE \E x \in S : IsNewest(x, S)
<1> DEFINE R == {MaxPoint - x : x \in S}
<1>1. R \in SUBSET Nat /\ R # {}
  <2>1. \A x \in S : MaxPoint - x \in Nat
    BY PointsAre
  <2> QED
    BY <2>1
<1>2. PICK m \in R : \A y \in R : m <= y
  BY <1>1, Least
<1>3. PICK x \in S : m = MaxPoint - x
  BY <1>2
<1>4. \A y \in S : y <= x
  <2> SUFFICES ASSUME NEW y \in S PROVE y <= x
    OBVIOUS
  <2>1. MaxPoint - y \in R /\ x \in Nat /\ y \in Nat /\ MaxPoint \in Nat
    BY PointsAre
  <2>2. m <= MaxPoint - y /\ x \in Nat
    BY <1>2, <2>1, PointsAre
  <2> QED
    BY <1>3, <2>1, <2>2
<1> QED
  BY <1>4 DEF IsNewest

\* What retention leaves of a dataset is no more than is kept.
LEMMA FewAreLeft == ASSUME NEW S \in SUBSET Point PROVE Cardinality(S \ Excess(S)) <= Keep
<1> DEFINE T == S \ Excess(S)
<1>1. IsFiniteSet(S) /\ Keep \in Nat \ {0}
  BY PointsAre, FS_Subset, BackupAssumption
<1>2. CASE T = {}
  BY <1>1, <1>2, FS_EmptySet
<1>3. CASE T # {}
  <2>0. T \in SUBSET Nat
    BY PointsAre
  <2>1. PICK m \in T : \A y \in T : m <= y
    BY <1>3, <2>0, Least
  <2> DEFINE G == {q \in S : q > m}
  <2>2. m \in S /\ ~(Cardinality(G) >= Keep)
    BY <2>1 DEF Excess
  <2>3. G \in SUBSET S /\ m \notin G /\ T \subseteq G \cup {m}
    <3>1. m \in Nat /\ ~(m > m) /\ \A y \in T : y \in Nat
      BY <2>0, <2>1
    <3>2. \A y \in T : y > m \/ y = m
      BY <2>1, <3>1
    <3> QED
      BY <2>2, <3>1, <3>2
  <2>4. IsFiniteSet(G) /\ Cardinality(G) \in Nat
    BY <1>1, <2>3, FS_Subset, FS_CardinalityType
  <2>5. IsFiniteSet(G \cup {m}) /\ Cardinality(G \cup {m}) = Cardinality(G) + 1
    BY <2>3, <2>4, FS_AddElement
  <2>6. Cardinality(T) <= Cardinality(G \cup {m}) /\ Cardinality(T) \in Nat
    BY <2>3, <2>5, FS_Subset, FS_CardinalityType
  <2> QED
    BY <1>1, <2>2, <2>4, <2>5, <2>6
<1> QED
  BY <1>2, <1>3

-----------------------------------------------------------------------------
(* A backup none of whose commands failed.                                 *)

\* A run none of whose commands failed: how far it has come.
Few(S) == Cardinality(S) <= Keep

CleanSoFar ==
  run.clean =>
    /\ run.pc \notin {"dialog", "undo"}
    /\ run.pc = "snap" => \A d \in run.disks \ run.todo : run.name \in src[d]
    /\ run.pc \in {"tree", "send", "parent", "props", "prune", "pruneSrc"} => \A d \in run.disks : run.name \in src[d]
    /\ run.pc \in {"prune", "pruneSrc", "idle"} => run.name \in stored[run.dest]
    /\ run.pc = "prune" => /\ 0 \notin run.todo => Few(listed[run.dest])
                           /\ \A d \in run.disks \ run.todo : Few(dst[run.dest][d])
    /\ run.pc \in {"pruneSrc", "idle"} => Few(listed[run.dest]) /\ \A d \in run.disks : Few(dst[run.dest][d])
    /\ run.pc = "pruneSrc" => \A d \in run.disks \ run.todo : src[d] = {run.name}
    /\ run.pc = "idle" => \A d \in run.disks : src[d] = {run.name}

CleanInv == ChainInv /\ CleanSoFar

\* While the chain holds nothing is refused.
LEMMA NeverRefused == ASSUME ChainInv, NEW t \in Dest, NEW d \in Disk PROVE CanSend(t, d)
<1>1. dst[t][d] \in SUBSET Point
  BY StoresTyped DEF ChainInv
<1>2. CASE dst[t][d] # {}
  <2>1. PICK b \in dst[t][d] : IsNewest(b, dst[t][d])
    BY <1>1, <1>2, Greatest
  <2> QED
    BY <2>1 DEF CanSend, HasBase, ChainInv, ChainIntact
<1> QED
  BY <1>2 DEF CanSend

\* What a step that fails leaves: a run that is not clean.
LEMMA CleanStep ==
  ASSUME CleanInv, BackupStep PROVE CleanSoFar'
<1> USE DEF destVars
<1>0. /\ run \in RunState /\ run.dest \in Dest /\ run.disks \in SUBSET Disk /\ run.todo \in SUBSET (Disk \cup {0})
      /\ run.pc \notin {"idle", "dialog"} /\ run.name \in Point /\ TypeInv /\ Bounded
      /\ run.pc \in {"snap", "send", "undo", "pruneSrc"} => run.todo \subseteq run.disks
      /\ run.pc = "prune" => run.todo \subseteq run.disks \cup {0}
  BY RunTyped, StepShape DEF CleanInv, ChainInv, TypeInv, TypeOK, TodoOK
<1>1. /\ run'.dest = run.dest /\ run'.name = run.name /\ run'.disks = run.disks
      /\ src \in [Disk -> SUBSET Point] /\ dst \in [Dest -> [Disk -> SUBSET Point]]
      /\ listed \in [Dest -> SUBSET Point] /\ stored \in [Dest -> SUBSET Point] /\ 0 \notin Disk
  BY <1>0, StepShape, StoresTyped DEF Disk
<1>2. CASE ~run'.clean
  BY <1>2 DEF CleanSoFar
<1> SUFFICES ASSUME run'.clean PROVE CleanSoFar'
  BY <1>2
<1>3. CASE SnapTogether
  <2>1. /\ run'.pc = "tree" /\ run'.todo = {} /\ run'.clean = run.clean
        /\ \A d \in run.disks : run.name \in src'[d]
    BY <1>0, <1>1, <1>3 DEF SnapTogether, RunState
  <2> QED
    BY <1>1, <2>1 DEF CleanSoFar
<1>4. CASE SnapFails \/ PruneListFails \/ ToUndo(FALSE)
  BY <1>0, <1>4 DEF SnapFails, PruneListFails, ToUndo, RunState
<1>5. CASE MakeTree /\ ~ToUndo(FALSE)
  <2>1. run.pc = "tree" /\ run'.pc = "send" /\ run'.clean = run.clean /\ src' = src
    BY <1>0, <1>5 DEF MakeTree, RunState
  <2> QED
    BY <1>1, <2>1 DEF CleanSoFar, CleanInv
<1>6. CASE SnapParent /\ ~ToUndo(FALSE)
  <2>1. run.pc = "parent" /\ run'.pc = "props" /\ run'.clean = run.clean /\ src' = src
    BY <1>0, <1>6 DEF SnapParent, RunState
  <2> QED
    BY <1>1, <2>1 DEF CleanSoFar, CleanInv
<1>7. CASE StoreDefinition /\ ~ToUndo(FALSE)
  <2>1. /\ run.pc = "props" /\ run'.pc = "prune" /\ run'.todo = {0} \cup run.disks /\ run'.clean = run.clean /\ src' = src
        /\ stored' = [stored EXCEPT ![run.dest] = @ \cup {run.name}]
    BY <1>0, <1>7 DEF StoreDefinition, RunState
  <2>2. run.name \in stored'[run.dest]
    BY <1>0, <1>1, <2>1
  <2> QED
    BY <1>1, <2>1, <2>2 DEF CleanSoFar, CleanInv
<1>8. ASSUME NEW d \in Disk, SnapOne(d) PROVE CleanSoFar'
  <2>1. /\ run.pc = "snap" /\ run'.pc \in {"snap", "tree"} /\ run'.todo = run.todo \ {d} /\ run'.clean = run.clean
        /\ src' = [src EXCEPT ![d] = @ \cup {run.name}] /\ (run'.pc = "tree" => run'.todo = {})
    BY <1>0, <1>8 DEF SnapOne, RunState
  <2>2. \A e \in run.disks \ run'.todo : run.name \in src'[e]
    BY <1>0, <1>1, <2>1 DEF CleanSoFar, CleanInv
  <2> QED
    BY <1>1, <2>1, <2>2 DEF CleanSoFar
<1>9. ASSUME NEW d \in Disk, Send(d) PROVE CleanSoFar'
  <2>1. run.pc = "send" /\ run'.pc \in {"send", "parent"} /\ run'.clean = run.clean /\ src' = src
    BY <1>0, <1>9 DEF Send, RunState
  <2> QED
    BY <1>1, <2>1 DEF CleanSoFar, CleanInv
<1>10. ASSUME NEW d \in Disk, SendRefused(d) \/ SendFails(d) PROVE CleanSoFar'
  BY <1>0, <1>4, <1>10, NeverRefused DEF SendRefused, SendFails, CleanInv
<1>11. ASSUME NEW d \in Disk, UndoDisk(d) PROVE CleanSoFar'
  <2>1. run.pc = "undo" /\ run'.clean = run.clean
    BY <1>0, <1>11 DEF UndoDisk, RunState
  <2> QED
    BY <2>1 DEF CleanSoFar, CleanInv
<1>12. ASSUME NEW d \in Disk \cup {0}, Prune(d) PROVE CleanSoFar'
  <2> DEFINE L == listed[run.dest]
             S == dst[run.dest][d]
  <2>1. PICK gone \in SUBSET Excess(IF d = 0 THEN L ELSE S) :
          /\ IF d = 0
             THEN /\ listed' = [listed EXCEPT ![run.dest] = @ \ gone]
                  /\ stored' = [stored EXCEPT ![run.dest] = @ \ gone]
                  /\ UNCHANGED dst
             ELSE dst' = [dst EXCEPT ![run.dest][d] = @ \ gone] /\ UNCHANGED <<listed, stored>>
          /\ run' = [run EXCEPT !.todo = IF run.todo = {d} THEN run.disks ELSE @ \ {d},
                                !.pc = IF run.todo = {d} THEN "pruneSrc" ELSE "prune",
                                !.clean = @ /\ gone = Excess(IF d = 0 THEN L ELSE S)]
    BY <1>12 DEF Prune
  <2>2. /\ run.pc = "prune" /\ src' = src /\ run.clean /\ gone = Excess(IF d = 0 THEN L ELSE S) /\ d \in run.todo
        /\ \/ run'.pc = "pruneSrc" /\ run'.todo = run.disks /\ run.todo = {d}
           \/ run'.pc = "prune" /\ run'.todo = run.todo \ {d} /\ run.todo # {d}
    BY <1>0, <1>12, <2>1 DEF Prune, IsNext, RunState
  <2>3. run.name \in stored'[run.dest]
    BY <1>0, <1>12, <2>2, PruneKeepsName DEF CleanSoFar, CleanInv
  <2>4. \A e \in run.disks : run.name \in src'[e]
    BY <2>2 DEF CleanSoFar, CleanInv
  <2>5. /\ 0 \notin run.todo \ {d} => Few(listed'[run.dest])
        /\ \A e \in run.disks \ (run.todo \ {d}) : Few(dst'[run.dest][e])
    <3>1. CASE d = 0
      <4>1. listed'[run.dest] = L \ Excess(L) /\ dst' = dst
        BY <1>0, <1>1, <2>1, <2>2, <3>1
      <4>2. Few(listed'[run.dest])
        BY <1>0, <1>1, <4>1, FewAreLeft DEF Few
      <4> QED
        BY <1>0, <1>1, <2>2, <3>1, <4>1, <4>2 DEF CleanSoFar, CleanInv
    <3>2. CASE d # 0
      <4>1. d \in Disk /\ listed' = listed /\ dst'[run.dest][d] = S \ Excess(S)
        BY <1>0, <1>1, <2>1, <2>2, <3>2
      <4>2. \A e \in Disk \ {d} : dst'[run.dest][e] = dst[run.dest][e]
        BY <1>0, <1>1, <2>1, <3>2
      <4>3. Few(dst'[run.dest][d])
        <5>1. S \in SUBSET Point
          BY <1>0, <1>1, <4>1
        <5> QED
          BY <4>1, <5>1, FewAreLeft DEF Few
      <4>4. ASSUME NEW e \in run.disks \ (run.todo \ {d}), e # d PROVE Few(dst'[run.dest][e])
        <5>1. Few(dst[run.dest][e])
          BY <2>2, <4>4 DEF CleanSoFar, CleanInv
        <5> QED
          BY <1>0, <4>2, <4>4, <5>1
      <4>5. 0 \notin run.todo \ {d} => Few(listed[run.dest])
        BY <2>2, <3>2 DEF CleanSoFar, CleanInv
      <4> QED
        BY <4>1, <4>3, <4>4, <4>5
    <3> QED
      BY <3>1, <3>2
  <2> HIDE DEF L, S
  <2>6. CASE run'.pc = "pruneSrc" /\ run'.todo = run.disks /\ run.todo = {d}
    BY <1>1, <2>3, <2>4, <2>5, <2>6 DEF CleanSoFar
  <2>7. CASE run'.pc = "prune" /\ run'.todo = run.todo \ {d}
    BY <1>1, <2>3, <2>4, <2>5, <2>7 DEF CleanSoFar
  <2> QED
    BY <2>2, <2>6, <2>7
<1>13. ASSUME NEW d \in Disk, PruneSrc(d) PROVE CleanSoFar'
  <2>1. PICK gone \in SUBSET (src[d] \ {run.name}) :
          /\ src' = [src EXCEPT ![d] = @ \ gone]
          /\ run' = [run EXCEPT !.todo = @ \ {d}, !.pc = IF run.todo = {d} THEN "idle" ELSE "pruneSrc",
                                !.clean = @ /\ gone = src[d] \ {run.name}]
    BY <1>13 DEF PruneSrc
  <2>2. /\ run.pc = "pruneSrc" /\ run.clean /\ gone = src[d] \ {run.name} /\ d \in run.todo
        /\ run'.todo = run.todo \ {d} /\ dst' = dst /\ listed' = listed /\ stored' = stored
        /\ \/ run'.pc = "idle" /\ run.todo = {d}
           \/ run'.pc = "pruneSrc"
    BY <1>0, <1>13, <2>1 DEF PruneSrc, IsNext, RunState
  <2>3. \A e \in run.disks : run.name \in src[e]
    BY <2>2 DEF CleanSoFar, CleanInv
  <2>4. src'[d] = {run.name} /\ \A e \in Disk \ {d} : src'[e] = src[e]
    BY <1>0, <1>1, <2>1, <2>2, <2>3
  <2>5. /\ \A e \in run.disks : run.name \in src'[e]
        /\ \A e \in run.disks \ (run.todo \ {d}) : src'[e] = {run.name}
    BY <1>0, <2>2, <2>3, <2>4 DEF CleanSoFar, CleanInv
  <2>6. /\ run.name \in stored[run.dest] /\ Few(listed[run.dest])
        /\ \A e \in run.disks : Few(dst[run.dest][e])
    BY <2>2 DEF CleanSoFar, CleanInv
  <2> QED
    BY <1>1, <2>2, <2>5, <2>6 DEF CleanSoFar
<1> QED
  BY <1>3, <1>4, <1>5, <1>6, <1>7, <1>8, <1>9, <1>10, <1>11, <1>12, <1>13 DEF BackupStep, MakeTree, SnapParent, StoreDefinition

LEMMA CleanOther == ASSUME CleanInv, OtherStep PROVE CleanSoFar'
<1>1. UNCHANGED <<src, dst, listed, stored>> /\ run \in RunState
  BY OtherShape DEF CleanInv, ChainInv, TypeInv, TypeOK
<1>2. \/ run' = run
      \/ run'.clean = FALSE
      \/ run'.pc = "snap" /\ run'.todo = run'.disks
  <2>1. CASE \E t \in Dest : OpenDialog(t)
    BY <2>1 DEF OpenDialog, IdleRun
  <2>2. CASE CancelDialog
    <3>1. run' = IdleRun
      BY <2>2 DEF CancelDialog
    <3> QED
      BY <3>1 DEF IdleRun
  <2>5. CASE Crash
    <3>1. run' = [run EXCEPT !.pc = "idle", !.clean = FALSE]
      BY <2>5 DEF Crash
    <3> QED
      BY <1>1, <3>1 DEF RunState
  <2>3. CASE Begin
    BY <1>1, <2>3 DEF Begin, RunState
  <2>4. CASE ~(\E t \in Dest : OpenDialog(t)) /\ ~CancelDialog /\ ~Crash /\ ~Begin
    BY <2>4 DEF OtherStep, Reattach, RestoreBegin, RestoreStep, RestoreFails, RestoreDefine, RestoreDisk, RestoreRefused,
                RestoreUndo, restoreOnly, vars
  <2> QED
    BY <2>1, <2>2, <2>3, <2>4, <2>5
<1> QED
  BY <1>1, <1>2 DEF CleanSoFar, CleanInv

\* With one destination, and an undo whose look at it answers: a backup none of whose
\* commands failed leaves no more than the next base and what is kept, whatever earlier
\* ones, which failed or were killed, had left in both places (BackupDisks).
THEOREM CleanConverges ==
  ASSUME ~ProbeFaults, \A t, u \in Dest : t = u
  PROVE  Spec => []CleanRunConverges
<1>1. Init => CleanInv
  <2> SUFFICES ASSUME Init PROVE CleanInv
    OBVIOUS
  <2>1. ~run.clean
    BY DEF Init, IdleRun
  <2> QED
    BY <2>1, TypeInit, ChainInit DEF CleanInv, ChainInv, CleanSoFar
<1>2. CleanInv /\ [Next]_vars => CleanInv'
  <2> SUFFICES ASSUME CleanInv, [Next]_vars PROVE CleanInv'
    OBVIOUS
  <2>1. CleanSoFar'
    BY CleanStep, CleanOther, NextSplit
  <2>2. ChainInv'
    BY ChainKept DEF CleanInv
  <2> QED
    BY <2>1, <2>2 DEF CleanInv
<1>3. CleanInv => CleanRunConverges
  BY DEF CleanInv, CleanSoFar, CleanRunConverges, Few
<1> QED
  BY <1>1, <1>2, <1>3, PTL DEF Spec

-----------------------------------------------------------------------------
(* Restores.  Each touches the entries of its own VM only.                 *)

\* The zvols of w that w's restore would remove are not ones that were there before.
OwnOnly(w) ==
  /\ restore[w].pc \in {"recv", "define"} => \A d \in restore[w].made : vol[w][d] # Foreign
  /\ restore[w].pc = "undo" => \A d \in restore[w].todo : vol[w][d] # Foreign

\* What w's restore has received is the point it was asked for, and the VM that was
\* defined from it has every disk.
Receiving(w) ==
  /\ defined[w] # 0 => restore[w].pc = "idle" /\ \A d \in Disk : vol[w][d] = defined[w]
  /\ restore[w].pc \in {"recv", "define"} =>
       /\ restore[w].point \in Point
       /\ \A d \in Disk \ restore[w].todo : vol[w][d] = restore[w].point
  /\ restore[w].pc = "define" => restore[w].todo = {}

\* What a restore that is tidy so far has made it knows of.
Known(w) ==
  /\ defined[w] # 0 => restore[w].pc = "idle"
  /\ restore[w].pc \in {"recv", "define"} => restore[w].point \in Point
  /\ restore[w].tidy =>
       \A d \in Disk : vol[w][d] \in Point =>
         \/ defined[w] # 0
         \/ restore[w].pc \in {"recv", "define"} /\ d \in restore[w].made
         \/ restore[w].pc = "undo" /\ d \in restore[w].todo

\* The entries of w are what they were.
SameOf(w) == restore'[w] = restore[w] /\ vol'[w] = vol[w] /\ defined'[w] = defined[w]

\* The step is one of v's restore.
OneRestore(v) == RestoreStep(v) \/ \E t \in Dest, p \in Point : RestoreBegin(v, t, p)

LEMMA RestoresTyped ==
  ASSUME TypeInv
  PROVE  /\ restore \in [NewVM -> RestoreState]
         /\ vol \in [NewVM -> [Disk -> {NoVolume, Foreign} \cup Point]]
         /\ defined \in [NewVM -> 0..MaxPoint]
  BY DEF TypeInv, TypeOK

LEMMA OthersAlone ==
  ASSUME TypeInv, NEW v \in NewVM, OneRestore(v), NEW w \in NewVM, w # v
  PROVE  SameOf(w)
<1> USE RestoresTyped DEF SameOf, RestoreToUndo
<1>1. ASSUME NEW t \in Dest, NEW p \in Point, RestoreBegin(v, t, p) PROVE SameOf(w)
  BY <1>1 DEF RestoreBegin
<1>2. CASE RestoreFails(v)
  <2>1. vol' = vol \/ \E d \in restore[v].todo : vol' = [vol EXCEPT ![v][d] = restore[v].point]
    BY <1>2 DEF RestoreFails
  <2> QED
    BY <1>2, <2>1 DEF RestoreFails
<1>3. CASE RestoreDefine(v)
  BY <1>3 DEF RestoreDefine
<1>4. ASSUME NEW d \in Disk, RestoreDisk(v, d) PROVE SameOf(w)
  BY <1>4 DEF RestoreDisk
<1>5. ASSUME NEW d \in Disk, RestoreRefused(v, d) PROVE SameOf(w)
  BY <1>5 DEF RestoreRefused
<1>6. ASSUME NEW d \in Disk, RestoreUndo(v, d) PROVE SameOf(w)
  <2>1. vol' = vol \/ vol' = [vol EXCEPT ![v][d] = NoVolume]
    BY <1>6 DEF RestoreUndo
  <2>2. restore'[w] = restore[w]
    BY <1>6 DEF RestoreUndo
  <2> QED
    BY <1>6, <2>1, <2>2 DEF RestoreUndo
<1> QED
  BY <1>1, <1>2, <1>3, <1>4, <1>5, <1>6 DEF OneRestore, RestoreStep

\* What each step of a restore does to its own entries.
Began(v) == \E t \in Dest, p \in Point :
  /\ restore[v].pc = "idle" /\ defined[v] = 0 /\ p \in stored[t]
  /\ restore'[v] = [IdleRestore EXCEPT !.pc = "recv", !.dest = t, !.point = p,
                                       !.todo = Volumes(t), !.tidy = restore[v].tidy]
  /\ vol'[v] = vol[v] /\ defined'[v] = defined[v]

TookDisk(v) == \E d \in Disk :
  /\ restore[v].pc = "recv" /\ d \in restore[v].todo /\ vol[v][d] = NoVolume
  /\ restore[v].point \in Point
  /\ vol'[v] = [vol[v] EXCEPT ![d] = restore[v].point] /\ defined'[v] = defined[v]
  /\ restore'[v] = [restore[v] EXCEPT !.todo = @ \ {d}, !.made = @ \cup {d},
                      !.pc = IF restore[v].todo = {d} THEN "define" ELSE "recv"]

GaveUp(v) ==
  /\ restore[v].pc \in {"recv", "define"} /\ defined'[v] = defined[v]
  /\ \/ vol'[v] = vol[v]
     \/ /\ LateDrop
        /\ \E d \in Disk : vol[v][d] = NoVolume /\ restore[v].point \in Point
                           /\ vol'[v] = [vol[v] EXCEPT ![d] = restore[v].point]
  /\ restore'[v] = [restore[v] EXCEPT !.pc = IF restore[v].made = {} THEN "idle" ELSE "undo",
                                      !.todo = restore[v].made]

Undid(v) == \E d \in Disk, gone \in BOOLEAN :
  /\ restore[v].pc = "undo" /\ d \in restore[v].todo /\ defined'[v] = defined[v]
  /\ vol'[v] = IF gone THEN [vol[v] EXCEPT ![d] = NoVolume] ELSE vol[v]
  /\ restore'[v] = [restore[v] EXCEPT !.todo = @ \ {d}, !.tidy = @ /\ gone,
                      !.pc = IF restore[v].todo = {d} THEN "idle" ELSE "undo"]

GotDefined(v) ==
  /\ restore[v].pc = "define" /\ vol'[v] = vol[v] /\ defined'[v] = restore[v].point
  /\ restore'[v] = [restore[v] EXCEPT !.pc = "idle"]

LEMMA OwnShape ==
  ASSUME TypeInv, NEW v \in NewVM, OneRestore(v)
  PROVE  Began(v) \/ TookDisk(v) \/ GaveUp(v) \/ Undid(v) \/ GotDefined(v)
<1> USE RestoresTyped, StoresTyped
<1>0. restore[v] \in RestoreState /\ restore[v].todo \in SUBSET Disk /\ restore[v].dest \in Dest
  BY DEF RestoreState
<1>1. ASSUME NEW t \in Dest, NEW p \in Point, RestoreBegin(v, t, p) PROVE Began(v)
  BY <1>1 DEF RestoreBegin, Began
<1>2. CASE RestoreFails(v)
  <2>1. CASE vol' = vol
    BY <1>2, <2>1 DEF RestoreFails, RestoreToUndo, GaveUp
  <2>2. CASE vol' # vol
    <3>1. PICK d \in restore[v].todo :
            /\ LateDrop /\ vol[v][d] = NoVolume
            /\ restore[v].point \in dst[restore[v].dest][d]
            /\ vol' = [vol EXCEPT ![v][d] = restore[v].point]
      BY <1>2, <2>2 DEF RestoreFails
    <3>2. d \in Disk /\ restore[v].point \in Point
      BY <1>0, <3>1
    <3>3. vol'[v] = [vol[v] EXCEPT ![d] = restore[v].point]
      BY <3>1
    <3> QED
      BY <1>2, <3>1, <3>2, <3>3 DEF RestoreFails, RestoreToUndo, GaveUp
  <2> QED
    BY <2>1, <2>2
<1>3. CASE RestoreDefine(v)
  BY <1>3 DEF RestoreDefine, GotDefined
<1>4. ASSUME NEW d \in Disk, RestoreDisk(v, d) PROVE TookDisk(v)
  <2>1. restore[v].point \in Point
    BY <1>0, <1>4 DEF RestoreDisk
  <2>2. vol'[v] = [vol[v] EXCEPT ![d] = restore[v].point]
    BY <1>4 DEF RestoreDisk
  <2> QED
    BY <1>4, <2>1, <2>2 DEF RestoreDisk, TookDisk, IsNext
<1>5. ASSUME NEW d \in Disk, RestoreRefused(v, d) PROVE GaveUp(v)
  BY <1>5 DEF RestoreRefused, RestoreToUndo, GaveUp
<1>6. ASSUME NEW d \in Disk, RestoreUndo(v, d) PROVE Undid(v)
  <2>1. PICK gone \in BOOLEAN :
          /\ vol' = IF gone THEN [vol EXCEPT ![v][d] = NoVolume] ELSE vol
          /\ restore' = [restore EXCEPT ![v] =
               [restore[v] EXCEPT !.todo = @ \ {d}, !.tidy = @ /\ gone,
                         !.pc = IF restore[v].todo = {d} THEN "idle" ELSE "undo"]]
    BY <1>6 DEF RestoreUndo
  <2>2. vol'[v] = IF gone THEN [vol[v] EXCEPT ![d] = NoVolume] ELSE vol[v]
    BY <2>1
  <2>3. restore'[v] = [restore[v] EXCEPT !.todo = @ \ {d}, !.tidy = @ /\ gone,
                         !.pc = IF restore[v].todo = {d} THEN "idle" ELSE "undo"]
    BY <2>1
  <2> QED
    BY <1>6, <2>2, <2>3 DEF RestoreUndo, Undid
<1> QED
  BY <1>1, <1>2, <1>3, <1>4, <1>5, <1>6 DEF OneRestore, RestoreStep

\* What a crash leaves of a restore.
Killed(v) ==
  /\ restore'[v] = [restore[v] EXCEPT !.pc = "idle", !.tidy = @ /\ restore[v].pc = "idle"]
  /\ vol'[v] = vol[v] /\ defined'[v] = defined[v]

\* Every step is one of these to a VM's entries.
LEMMA RestoreSplit ==
  ASSUME TypeInv, [Next]_vars, NEW w \in NewVM
  PROVE  \/ SameOf(w) \/ Killed(w)
         \/ Began(w) \/ TookDisk(w) \/ GaveUp(w) \/ Undid(w) \/ GotDefined(w)
<1>1. CASE BackupStep
  BY <1>1, RunStep DEF SameOf
<1>2. CASE Crash
  BY <1>2 DEF Crash, Killed
<1>3. ASSUME NEW v \in NewVM, OneRestore(v)
      PROVE  SameOf(w) \/ Began(w) \/ TookDisk(w) \/ GaveUp(w) \/ Undid(w) \/ GotDefined(w)
  BY <1>3, OthersAlone, OwnShape
<1>4. CASE (\E d \in Disk : Reattach(d)) \/ (\E t \in Dest : OpenDialog(t)) \/ CancelDialog \/ Begin \/ UNCHANGED vars
  BY <1>4 DEF Reattach, OpenDialog, CancelDialog, Begin, restoreVars, vars, SameOf
<1> QED
  BY <1>1, <1>2, <1>3, <1>4 DEF Next, OneRestore

LEMMA OwnKept ==
  ASSUME TypeInv, [Next]_vars, NEW w \in NewVM, OwnOnly(w) PROVE OwnOnly(w)'
<1> USE RestoresTyped DEF OwnOnly, RestoreState, NoVolume, Foreign
<1>0. restore[w] \in RestoreState /\ vol[w] \in [Disk -> {NoVolume, Foreign} \cup Point] /\ \A p \in Point : p # Foreign
  BY PointsAre
<1>1. CASE SameOf(w) \/ Killed(w)
  BY <1>0, <1>1 DEF SameOf, Killed
<1>2. CASE Began(w)
  <2>1. restore'[w].pc = "recv" /\ restore'[w].made = {}
    BY <1>2 DEF Began, IdleRestore
  <2> QED
    BY <2>1
<1>3. CASE TookDisk(w)
  BY <1>0, <1>3 DEF TookDisk
<1>4. CASE GaveUp(w)
  BY <1>0, <1>4 DEF GaveUp
<1>5. CASE Undid(w)
  BY <1>0, <1>5 DEF Undid
<1>6. CASE GotDefined(w)
  BY <1>0, <1>6 DEF GotDefined
<1> QED
  BY <1>1, <1>2, <1>3, <1>4, <1>5, <1>6, RestoreSplit

\* Every disk of the VM is under a destination that has a definition.
LEMMA Filled == ASSUME NewestInv, NEW t \in Dest, stored[t] # {} PROVE Volumes(t) = Disk
<1>1. stored[t] \in SUBSET Point
  BY StoresTyped DEF NewestInv
<1>2. PICK p \in stored[t] : IsNewest(p, stored[t])
  BY <1>1, Greatest
<1> QED
  BY <1>2 DEF NewestInv, NewestComplete, Volumes

LEMMA ReceivingKept ==
  ASSUME NewestInv, [Next]_vars, NEW w \in NewVM, Receiving(w) PROVE Receiving(w)'
<1> USE DEF Receiving
<1>0. /\ restore[w] \in RestoreState /\ vol[w] \in [Disk -> {NoVolume, Foreign} \cup Point] /\ TypeInv
      /\ \A p \in Point : p # 0
  BY RestoresTyped, PointsAre DEF NewestInv, Point
<1>1. CASE SameOf(w) \/ Killed(w)
  BY <1>0, <1>1 DEF SameOf, Killed, RestoreState
<1>2. CASE Began(w)
  <2>1. PICK t \in Dest, p \in Point :
          /\ p \in stored[t] /\ defined'[w] = 0
          /\ restore'[w] = [IdleRestore EXCEPT !.pc = "recv", !.dest = t, !.point = p,
                                               !.todo = Volumes(t), !.tidy = restore[w].tidy]
    BY <1>2 DEF Began
  <2>2. Volumes(t) = Disk
    BY <2>1, Filled
  <2>3. restore'[w].pc = "recv" /\ restore'[w].point = p /\ restore'[w].todo = Disk
    BY <2>1, <2>2 DEF IdleRestore
  <2> QED
    BY <2>1, <2>3
<1>3. CASE TookDisk(w)
  BY <1>0, <1>3 DEF TookDisk, RestoreState
<1>4. CASE GaveUp(w)
  <2>1. restore'[w].pc \in {"idle", "undo"} /\ defined'[w] = 0
    BY <1>0, <1>4 DEF GaveUp, RestoreState
  <2> QED
    BY <2>1
<1>5. CASE Undid(w)
  <2>1. restore'[w].pc \in {"idle", "undo"} /\ defined'[w] = 0
    BY <1>0, <1>5 DEF Undid, RestoreState
  <2> QED
    BY <2>1
<1>6. CASE GotDefined(w)
  BY <1>0, <1>6 DEF GotDefined, RestoreState
<1> QED
  BY <1>0, <1>1, <1>2, <1>3, <1>4, <1>5, <1>6, RestoreSplit

LEMMA KnownKept ==
  ASSUME TypeInv, [Next]_vars, ~LateDrop, NEW w \in NewVM, Known(w) PROVE Known(w)'
<1> USE DEF Known
<1>0. /\ restore[w] \in RestoreState /\ vol[w] \in [Disk -> {NoVolume, Foreign} \cup Point]
      /\ NoVolume \notin Point /\ 0 \notin Point
  BY RestoresTyped, PointsAre DEF Point, NoVolume
<1>1. CASE SameOf(w) \/ Killed(w)
  BY <1>0, <1>1 DEF SameOf, Killed, RestoreState
<1>2. CASE Began(w)
  <2>1. PICK t \in Dest, p \in Point :
          /\ restore[w].pc = "idle" /\ defined[w] = 0 /\ defined'[w] = 0 /\ vol'[w] = vol[w]
          /\ restore'[w] = [IdleRestore EXCEPT !.pc = "recv", !.dest = t, !.point = p,
                                               !.todo = Volumes(t), !.tidy = restore[w].tidy]
    BY <1>2 DEF Began
  <2>2. restore'[w].pc = "recv" /\ restore'[w].point = p /\ restore'[w].tidy = restore[w].tidy
    BY <2>1 DEF IdleRestore
  <2> QED
    BY <2>1, <2>2
<1>3. CASE TookDisk(w)
  BY <1>0, <1>3 DEF TookDisk, RestoreState
<1>4. CASE GaveUp(w)
  BY <1>0, <1>4 DEF GaveUp, RestoreState
<1>5. CASE Undid(w)
  BY <1>0, <1>5 DEF Undid, RestoreState
<1>6. CASE GotDefined(w)
  BY <1>0, <1>6 DEF GotDefined, RestoreState
<1> QED
  BY <1>1, <1>2, <1>3, <1>4, <1>5, <1>6, RestoreSplit

LEMMA RestoresInit == Init => \A w \in NewVM : OwnOnly(w) /\ Receiving(w) /\ Known(w)
<1> SUFFICES ASSUME Init, NEW w \in NewVM PROVE OwnOnly(w) /\ Receiving(w) /\ Known(w)
  OBVIOUS
<1>1. restore[w].pc = "idle" /\ defined[w] = 0
  BY DEF Init, IdleRestore
<1>2. \A d \in Disk : vol[w][d] \notin Point
  BY SMTT(30), PointsAre DEF Init, Point, NoVolume, Foreign
<1> QED
  BY <1>1, <1>2 DEF OwnOnly, Receiving, Known

\* No restore touches a zvol that was there before it, whatever fails (RestoreDisks:
\* undo removes what this restore made).
THEOREM ForeignStays == Spec => ForeignKept
<1> DEFINE Inv == TypeInv /\ \A w \in NewVM : OwnOnly(w)
<1>1. Init => Inv
  BY TypeInit, RestoresInit
<1>2. Inv /\ [Next]_vars => Inv'
  BY TypeStep, OwnKept
<1>3. Inv /\ [Next]_vars =>
        [\A v \in NewVM, d \in Disk : vol[v][d] = Foreign => vol'[v][d] = Foreign]_vars
  <2> SUFFICES ASSUME Inv, [Next]_vars, NEW v \in NewVM, NEW d \in Disk, vol[v][d] = Foreign
               PROVE  vol'[v][d] = Foreign
    OBVIOUS
  <2> USE RestoresTyped DEF NoVolume, Foreign
  <2>1. vol[v] \in [Disk -> {NoVolume, Foreign} \cup Point] /\ OwnOnly(v)
    OBVIOUS
  <2>2. CASE SameOf(v) \/ Killed(v) \/ Began(v) \/ GotDefined(v)
    BY <2>2 DEF SameOf, Killed, Began, GotDefined
  <2>3. CASE TookDisk(v) \/ GaveUp(v)
    <3>1. \/ vol'[v] = vol[v]
          \/ \E e \in Disk : vol[v][e] = NoVolume /\ vol'[v] = [vol[v] EXCEPT ![e] = restore[v].point]
      BY <2>3 DEF TookDisk, GaveUp
    <3>2. ASSUME NEW e \in Disk, vol[v][e] = NoVolume, vol'[v] = [vol[v] EXCEPT ![e] = restore[v].point]
          PROVE  vol'[v][d] = Foreign
      <4>1. e # d
        BY <3>2
      <4> QED
        BY <2>1, <3>2, <4>1
    <3> QED
      BY <3>1, <3>2
  <2>4. CASE Undid(v)
    BY <2>1, <2>4 DEF Undid, OwnOnly
  <2> QED
    BY <2>2, <2>3, <2>4, RestoreSplit
<1> HIDE DEF Inv
<1> QED
  BY <1>1, <1>2, <1>3, PTL DEF Spec, ForeignKept

\* While no disk is attached or detached a VM that was defined has every disk of the
\* one backup, in the middle of whatever else runs (RestoreBackup).
THEOREM RestoredIsWhole == ASSUME ~Reconfig PROVE Spec => []RestoredWhole
<1> DEFINE Inv == NewestInv /\ \A w \in NewVM : Receiving(w)
<1>1. Init => Inv
  BY NewestInit, RestoresInit
<1>2. Inv /\ [Next]_vars => Inv'
  BY NewestInvKept, ReceivingKept
<1>3. Inv => RestoredWhole
  <2> SUFFICES ASSUME Inv, NEW v \in NewVM, defined[v] # 0 PROVE \A d \in defn[defined[v]] : vol[v][d] = defined[v]
    BY DEF RestoredWhole
  <2>1. defined[v] \in Point
    BY RestoresTyped, BackupAssumption DEF NewestInv, Point
  <2>2. defn[defined[v]] \in SUBSET Disk
    BY <2>1 DEF NewestInv, TypeInv, TypeOK
  <2> QED
    BY <2>2 DEF Receiving
<1> HIDE DEF Inv
<1> QED
  BY <1>1, <1>2, <1>3, PTL DEF Spec

\* A restore that failed left nothing of its own, when what the commands say is what
\* they did and no removal failed (RestoreDisks).
THEOREM LeavesNothing == ASSUME ~LateDrop PROVE Spec => []RestoreLeavesNothing
<1> DEFINE Inv == TypeInv /\ \A w \in NewVM : Known(w)
<1>1. Init => Inv
  BY TypeInit, RestoresInit
<1>2. Inv /\ [Next]_vars => Inv'
  BY TypeStep, KnownKept
<1>3. Inv => RestoreLeavesNothing
  <2> SUFFICES ASSUME Inv, NEW v \in NewVM, NEW d \in Disk,
                      restore[v].pc = "idle", restore[v].tidy, defined[v] = 0
               PROVE  vol[v][d] \in {NoVolume, Foreign}
    BY DEF RestoreLeavesNothing
  <2> QED
    BY RestoresTyped DEF Known
<1> HIDE DEF Inv
<1> QED
  BY <1>1, <1>2, <1>3, PTL DEF Spec

\* Both: a restore is all or nothing.
THEOREM RestoreIsAllOrNothing ==
  ASSUME ~Reconfig, ~LateDrop PROVE Spec => []RestoreAllOrNothing
  BY RestoredIsWhole, LeavesNothing, PTL DEF RestoreAllOrNothing
=============================================================================
