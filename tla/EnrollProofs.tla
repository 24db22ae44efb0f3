---------------------------- MODULE EnrollProofs ----------------------------
(***************************************************************************)
(* The gate of the host and what is handed out behind it, for any number   *)
(* of guests, processes and meshes, any failures, kills and tear-downs.    *)
(***************************************************************************)
EXTENDS Enroll, WellFoundedInduction, TLAPS

PC == {"idle", "ssh", "mutex", "open", "install", "flock", "alloc", "up", "issue", "sign", "leave", "done", "gone"}
Enr == [pc : PC, proc : Proc \cup {None}, for : {"mesh", "cert"}, path : Path, fd : Nat,
        net : Subnet \cup {None}, idx : Nat \cup {None}]

\* Between enrollHostLock and gate.unlock.
Holds(g) == en[g].pc \in {"open", "install", "flock", "alloc", "up", "issue", "sign", "leave"}

Types ==
  /\ en \in [Guest -> Enr]
  /\ \A g \in Guest : en[g].pc # "idle" => en[g].proc \in Proc
  /\ \A g \in Guest : en[g].pc = "sign" => en[g].idx \in Nat
  /\ mu \in [Proc -> Guest \cup {None}]
  /\ flock \subseteq [ino : Nat, by : Guest]
  /\ file \in [Path -> Nat]
  /\ ino \in Nat

\* The mutex of the process is the holder's.
OwnMutex == \A g \in Guest : Holds(g) => mu[en[g].proc] = g

\* Where the lock file can be made without sudo there is only ever one, and nobody
\* does without it.
OneFile ==
  open => \A g \in Guest :
            /\ en[g].pc # "install" /\ (Holds(g) => en[g].path = 1)
            /\ (en[g].pc = "flock" \/ Critical(g)) => en[g].fd = file[1] /\ file[1] # 0

\* Who has the gate and a file open has the file's lock, and no lock has two owners.
OwnLock ==
  /\ \A g \in Guest : Critical(g) /\ en[g].fd # 0 => [ino |-> en[g].fd, by |-> g] \in flock
  /\ \A k, l \in flock : k.ino = l.ino => k = l

\* Elsewhere one process is at it.
OneProcess ==
  ~open => \A g, h \in Guest : ~Ended(g) /\ ~Ended(h) => en[g].proc = en[h].proc

\* What has been handed out.
Nets == iface \in [Mesh -> Subnet \cup {None}] /\ serial \in Nat /\ cert \in [Guest -> Nat \cup {None}]

IInv == Types /\ Nets /\ OwnMutex /\ OneFile /\ OwnLock /\ OneProcess

\* The file's lock where there is a file, the mutex of the process where there is not.
LEMMA Exclusion == IInv => MutualExclusion
<1> SUFFICES ASSUME IInv, NEW g \in Guest, NEW h \in Guest, Critical(g), Critical(h) PROVE g = h
  BY DEF MutualExclusion
<1>1. CASE open
  <2>1. en[g].fd = file[1] /\ en[h].fd = file[1] /\ file[1] # 0
    BY <1>1 DEF IInv, OneFile
  <2>2. [ino |-> file[1], by |-> g] \in flock /\ [ino |-> file[1], by |-> h] \in flock
    BY <2>1 DEF IInv, OwnLock
  <2>3. [ino |-> file[1], by |-> g] = [ino |-> file[1], by |-> h]
    BY <2>2 DEF IInv, OwnLock
  <2> QED
    BY <2>3
<1>2. CASE ~open
  <2>1. en[g].proc = en[h].proc
    BY <1>2 DEF IInv, OneProcess, Critical, Ended
  <2> QED
    BY <2>1 DEF IInv, OwnMutex, Critical, Holds
<1> QED
  BY <1>1, <1>2

\* Nobody is at it in the beginning.
LEMMA InitHolds == Init => IInv
<1> SUFFICES ASSUME Init PROVE IInv
  OBVIOUS
<1>1. NoEnrol \in Enr
  <2>1. 1 \in Path
    BY EnrollAssumption DEF Path
  <2> QED
    BY <2>1 DEF NoEnrol, Enr, PC
<1>2. \A g \in Guest : en[g] \in Enr /\ en[g].pc = "idle"
  BY <1>1 DEF Init, NoEnrol
<1>3. Types
  BY <1>1, <1>2 DEF Init, Types
<1> QED
  BY <1>2, <1>3 DEF Init, IInv, Nets, OwnMutex, OneFile, OwnLock, OneProcess, Holds, Critical, Ended

-----------------------------------------------------------------------------
(* What the steps do to the goroutines.                                    *)

\* A field takes any value of its type and leaves the others.
LEMMA PcField ==
  ASSUME NEW r \in Enr, NEW v \in PC
  PROVE  LET q == [r EXCEPT !.pc = v]
         IN /\ q \in Enr
            /\ q.pc = v /\ q.proc = r.proc /\ q.for = r.for /\ q.path = r.path
            /\ q.fd = r.fd /\ q.net = r.net /\ q.idx = r.idx
<1>1. [r EXCEPT !.pc = v] \in Enr
  BY DEF Enr
<1> QED
  BY <1>1 DEF Enr

\* ... nor the process ...
LEMMA ProcField ==
  ASSUME NEW r \in Enr, NEW v \in Proc
  PROVE  LET q == [r EXCEPT !.proc = v]
         IN /\ q \in Enr
            /\ q.pc = r.pc /\ q.proc = v /\ q.for = r.for /\ q.path = r.path
            /\ q.fd = r.fd /\ q.net = r.net /\ q.idx = r.idx
<1>1. [r EXCEPT !.proc = v] \in Enr
  BY DEF Enr
<1> QED
  BY <1>1 DEF Enr

\* ... the half that is done ...
LEMMA ForField ==
  ASSUME NEW r \in Enr, NEW v \in {"mesh", "cert"}
  PROVE  LET q == [r EXCEPT !.for = v]
         IN /\ q \in Enr
            /\ q.pc = r.pc /\ q.proc = r.proc /\ q.for = v /\ q.path = r.path
            /\ q.fd = r.fd /\ q.net = r.net /\ q.idx = r.idx
<1>1. [r EXCEPT !.for = v] \in Enr
  BY DEF Enr
<1> QED
  BY <1>1 DEF Enr

\* ... the lock file that is tried ...
LEMMA PathField ==
  ASSUME NEW r \in Enr, NEW v \in Path
  PROVE  LET q == [r EXCEPT !.path = v]
         IN /\ q \in Enr
            /\ q.pc = r.pc /\ q.proc = r.proc /\ q.for = r.for /\ q.path = v
            /\ q.fd = r.fd /\ q.net = r.net /\ q.idx = r.idx
<1>1. [r EXCEPT !.path = v] \in Enr
  BY DEF Enr
<1> QED
  BY <1>1 DEF Enr

\* ... the file that is open ...
LEMMA FdField ==
  ASSUME NEW r \in Enr, NEW v \in Nat
  PROVE  LET q == [r EXCEPT !.fd = v]
         IN /\ q \in Enr
            /\ q.pc = r.pc /\ q.proc = r.proc /\ q.for = r.for /\ q.path = r.path
            /\ q.fd = v /\ q.net = r.net /\ q.idx = r.idx
<1>1. [r EXCEPT !.fd = v] \in Enr
  BY DEF Enr
<1> QED
  BY <1>1 DEF Enr

\* ... the subnet ...
LEMMA NetField ==
  ASSUME NEW r \in Enr, NEW v \in Subnet \cup {None}
  PROVE  LET q == [r EXCEPT !.net = v]
         IN /\ q \in Enr
            /\ q.pc = r.pc /\ q.proc = r.proc /\ q.for = r.for /\ q.path = r.path
            /\ q.fd = r.fd /\ q.net = v /\ q.idx = r.idx
<1>1. [r EXCEPT !.net = v] \in Enr
  BY DEF Enr
<1> QED
  BY <1>1 DEF Enr

\* ... and the index.
LEMMA IdxField ==
  ASSUME NEW r \in Enr, NEW v \in Nat \cup {None}
  PROVE  LET q == [r EXCEPT !.idx = v]
         IN /\ q \in Enr
            /\ q.pc = r.pc /\ q.proc = r.proc /\ q.for = r.for /\ q.path = r.path
            /\ q.fd = r.fd /\ q.net = r.net /\ q.idx = v
<1>1. [r EXCEPT !.idx = v] \in Enr
  BY DEF Enr
<1> QED
  BY <1>1 DEF Enr

\* Two fields: of EnrollGuestAt,
LEMMA PcProc ==
  ASSUME NEW r \in Enr, NEW v1 \in PC, NEW v2 \in Proc
  PROVE  LET q == [r EXCEPT !.pc = v1, !.proc = v2]
         IN /\ q \in Enr
            /\ q.pc = v1 /\ q.proc = v2 /\ q.for = r.for /\ q.path = r.path
            /\ q.fd = r.fd /\ q.net = r.net /\ q.idx = r.idx
<1> DEFINE q1 == [r EXCEPT !.pc = v1]
<1>1. q1 \in Enr /\ q1.pc = v1 /\ q1.proc = r.proc /\ q1.for = r.for /\ q1.path = r.path
      /\ q1.fd = r.fd /\ q1.net = r.net /\ q1.idx = r.idx
  BY PcField
<1> HIDE DEF q1
<1> DEFINE q2 == [q1 EXCEPT !.proc = v2]
<1>2. q2 \in Enr /\ q2.pc = v1 /\ q2.proc = v2 /\ q2.for = r.for /\ q2.path = r.path
      /\ q2.fd = r.fd /\ q2.net = r.net /\ q2.idx = r.idx
  BY <1>1, ProcField
<1> HIDE DEF q2
<1> QED
  BY <1>2 DEF q1, q2

\* and of the lock file opened.
LEMMA ToFlock ==
  ASSUME NEW r \in Enr, NEW v2 \in Nat
  PROVE  LET q == [r EXCEPT !.pc = "flock", !.fd = v2]
         IN /\ q \in Enr
            /\ q.pc = "flock" /\ q.proc = r.proc /\ q.for = r.for /\ q.path = r.path
            /\ q.fd = v2 /\ q.net = r.net /\ q.idx = r.idx
<1> DEFINE q1 == [r EXCEPT !.pc = "flock"]
<1>1. q1 \in Enr /\ q1.pc = "flock" /\ q1.proc = r.proc /\ q1.for = r.for /\ q1.path = r.path
      /\ q1.fd = r.fd /\ q1.net = r.net /\ q1.idx = r.idx
  BY PcField DEF PC
<1> HIDE DEF q1
<1> DEFINE q2 == [q1 EXCEPT !.fd = v2]
<1>2. q2 \in Enr /\ q2.pc = "flock" /\ q2.proc = r.proc /\ q2.for = r.for /\ q2.path = r.path
      /\ q2.fd = v2 /\ q2.net = r.net /\ q2.idx = r.idx
  BY <1>1, FdField
<1> HIDE DEF q2
<1> QED
  BY <1>2 DEF q1, q2

\* One goroutine moves.
Moves(g, r) == en' \in [Guest -> Enr] /\ en'[g] = r /\ \A h \in Guest : h # g => en'[h] = en[h]

\* A goroutine that becomes another of the type, and no other moves.
LEMMA Moved ==
  ASSUME Types, NEW g \in Guest, NEW r \in Enr, en' = [en EXCEPT ![g] = r]
  PROVE  Moves(g, r)
  BY DEF Types, Moves

-----------------------------------------------------------------------------
(* The invariant is kept.                                                  *)

\* Nobody comes to have picked a subnet or read the index.
Quiet == \A g \in Guest : en'[g].pc \in {"up", "sign"} => en'[g] = en[g]

\* A step in which one goroutine moves outside the critical sections and the locks
\* stay as they are.
LEMMA Outside ==
  ASSUME IInv, NEW g \in Guest, NEW r \in Enr, Moves(g, r), UNCHANGED <<mu, file, ino, flock, open>>, Nets',
         r.pc \notin {"idle", "open", "install", "flock", "alloc", "up", "issue", "sign", "leave"},
         r.proc \in Proc,
         r.pc \notin {"done", "gone"} /\ ~open => \A h \in Guest : ~Ended(h) => en[h].proc = r.proc
  PROVE  IInv' /\ Quiet
<1>1. Types'
  BY DEF IInv, Types, Moves
<1>2. OwnMutex' /\ OneFile'
  BY DEF IInv, OwnMutex, OneFile, Moves, Holds, Critical
<1>3. OwnLock'
  BY DEF IInv, OwnLock, Moves, Critical
<1>4. OneProcess'
  BY DEF IInv, OneProcess, Moves, Ended
<1>5. Quiet
  BY DEF Moves, Quiet
<1> QED
  BY <1>1, <1>2, <1>3, <1>4, <1>5 DEF IInv

\* A step of the holder inside its critical section.
LEMMA Inside ==
  ASSUME IInv, NEW g \in Guest, NEW r \in Enr, Moves(g, r), UNCHANGED <<mu, file, ino, flock, open>>, Nets',
         Critical(g), r.pc \in {"alloc", "up", "issue", "sign", "leave"},
         r.proc = en[g].proc, r.path = en[g].path, r.fd = en[g].fd, r.pc = "sign" => r.idx \in Nat
  PROVE  IInv'
<1>1. Types'
  BY DEF IInv, Types, Moves, Critical
<1>2. OwnMutex' /\ OneFile'
  BY DEF IInv, OwnMutex, OneFile, Moves, Holds, Critical
<1>3. OwnLock'
  BY DEF IInv, OwnLock, Moves, Critical
<1>4. OneProcess'
  BY DEF IInv, OneProcess, Moves, Ended, Critical
<1> QED
  BY <1>1, <1>2, <1>3, <1>4 DEF IInv

\* A new one waits for ssh, in the one process where the lock file is not to be had.
LEMMA EnrolHolds == ASSUME IInv, ~Race, NEW g \in Guest, NEW p \in Proc, Enrol(g, p) PROVE IInv' /\ Quiet
<1> DEFINE r == [en[g] EXCEPT !.pc = "ssh", !.proc = p]
<1>0. en[g] \in Enr /\ "ssh" \in PC
  BY DEF IInv, Types, PC
<1>1. r \in Enr /\ r.pc = "ssh" /\ r.proc = p
  BY <1>0, PcProc
<1>2. Moves(g, r)
  BY <1>1, Moved DEF IInv, Enrol
<1> QED
  BY <1>1, <1>2, Outside DEF Enrol, lockVars, netVars, IInv, Nets

\* It wants the gate, or is gone.
LEMMA SshHolds == ASSUME IInv, NEW g \in Guest, Ssh(g) PROVE IInv' /\ Quiet
<1>1. ASSUME NEW s \in {"mutex", "gone"}, Go(g, s) PROVE IInv' /\ Quiet
  <2> DEFINE r == [en[g] EXCEPT !.pc = s]
  <2>0. en[g] \in Enr /\ s \in PC
    BY DEF IInv, Types, PC
  <2>1. r \in Enr /\ r.pc = s /\ r.proc = en[g].proc
    BY <2>0, PcField
  <2>2. Moves(g, r)
    BY <2>1, <1>1, Moved DEF IInv, Go
  <2>3. r.proc \in Proc
    BY <2>1 DEF IInv, Types, Ssh
  <2>4. ~open => \A h \in Guest : ~Ended(h) => en[h].proc = r.proc
    BY <2>1 DEF IInv, OneProcess, Ssh, Ended
  <2> QED
    BY <2>1, <2>2, <2>3, <2>4, Outside DEF Ssh, lockVars, netVars, IInv, Nets
<1> QED
  BY <1>1 DEF Ssh

\* The mutex is free and becomes its own; the first path is tried.
LEMMA LockMutexHolds == ASSUME IInv, NEW g \in Guest, LockMutex(g) PROVE IInv' /\ Quiet
<1> DEFINE r == [en[g] EXCEPT !.pc = "open", !.path = 1]
<1>0. en[g] \in Enr /\ "open" \in PC /\ 1 \in Path
  BY EnrollAssumption DEF IInv, Types, PC, Path
<1>1. r \in Enr /\ r.pc = "open" /\ r.proc = en[g].proc /\ r.path = 1
  <2> DEFINE q == [en[g] EXCEPT !.pc = "open"]
  <2>1. q \in Enr /\ q.pc = "open" /\ q.proc = en[g].proc
    BY <1>0, PcField
  <2>2. r = [q EXCEPT !.path = 1]
    OBVIOUS
  <2> HIDE DEF q, r
  <2>3. r \in Enr /\ r.pc = q.pc /\ r.proc = q.proc /\ r.path = 1
    BY <1>0, <2>1, <2>2, PathField
  <2> QED
    BY <2>1, <2>3
<1>2. Moves(g, r) /\ en[g].pc = "mutex" /\ en[g].proc \in Proc
  BY <1>1, Moved DEF IInv, Types, LockMutex
<1>3. Types'
  BY <1>1, <1>2 DEF IInv, Types, Moves, LockMutex
<1>4. OwnMutex'
  BY <1>1, <1>2, EnrollAssumption DEF IInv, Types, OwnMutex, Moves, Holds, LockMutex
<1>5. OneFile' /\ OwnLock'
  BY <1>1, <1>2 DEF IInv, OneFile, OwnLock, Moves, Holds, Critical, LockMutex
<1>6. OneProcess'
  BY <1>1, <1>2 DEF IInv, OneProcess, Moves, Ended, LockMutex
<1>7. Nets'
  BY DEF IInv, Nets, LockMutex, netVars
<1>99. Quiet
  BY <1>1, <1>2 DEF Quiet, Moves
<1> QED
  BY <1>99, <1>3, <1>4, <1>5, <1>6, <1>7 DEF IInv

\* The file that is there, the one that is made, or sudo.
LEMMA OpenLockHolds == ASSUME IInv, NEW g \in Guest, OpenLock(g) PROVE IInv' /\ Quiet
<1>1. PICK r \in Enr :
        /\ Moves(g, r) /\ r.proc = en[g].proc /\ r.path = en[g].path
        /\ \/ /\ r.pc = "flock" /\ file[r.path] # 0 /\ r.fd = file[r.path] /\ UNCHANGED <<file, ino>>
           \/ /\ r.pc = "flock" /\ open /\ file[r.path] = 0 /\ r.fd = ino + 1 /\ ino' = ino + 1
              /\ file' = [file EXCEPT ![r.path] = ino + 1]
           \/ r.pc = "install" /\ ~open /\ UNCHANGED <<file, ino>>
  <2> DEFINE i == en[g].path
  <2>0. /\ en[g] \in Enr /\ i \in Path /\ file[i] \in Nat /\ ino + 1 \in Nat
        /\ "flock" \in PC /\ "install" \in PC
    BY DEF IInv, Types, Enr, PC
  <2> DEFINE Q(v) == [en[g] EXCEPT !.pc = "flock", !.fd = v]
  <2>4. ASSUME NEW v \in Nat
        PROVE  Q(v) \in Enr /\ Q(v).pc = "flock" /\ Q(v).proc = en[g].proc /\ Q(v).path = i /\ Q(v).fd = v
    BY <2>0, ToFlock
  <2>1. CASE file[i] # 0 /\ en' = [en EXCEPT ![g].pc = "flock", ![g].fd = file[i]] /\ UNCHANGED <<file, ino>>
    <3>1. en' = [en EXCEPT ![g] = Q(file[i])]
      BY <2>1
    <3> HIDE DEF Q
    <3>2. Moves(g, Q(file[i]))
      BY <2>0, <2>4, <3>1, Moved DEF IInv
    <3> QED
      BY <2>0, <2>1, <2>4, <3>2
  <2>2. CASE /\ file[i] = 0 /\ open /\ ino' = ino + 1 /\ file' = [file EXCEPT ![i] = ino + 1]
             /\ en' = [en EXCEPT ![g].pc = "flock", ![g].fd = ino + 1]
    <3>1. en' = [en EXCEPT ![g] = Q(ino + 1)]
      BY <2>2
    <3> HIDE DEF Q
    <3>2. Moves(g, Q(ino + 1))
      BY <2>0, <2>4, <3>1, Moved DEF IInv
    <3> QED
      BY <2>0, <2>2, <2>4, <3>2
  <2>3. CASE ~open /\ Go(g, "install") /\ UNCHANGED <<file, ino>>
    <3> DEFINE r == [en[g] EXCEPT !.pc = "install"]
    <3>1. r \in Enr /\ r.pc = "install" /\ r.proc = en[g].proc /\ r.path = i
      BY <2>0, PcField, Zenon
    <3>2. Moves(g, r)
      BY <2>3, <3>1, Moved DEF IInv, Go
    <3> QED
      BY <2>3, <3>1, <3>2
  <2> QED
    BY <2>1, <2>2, <2>3 DEF OpenLock
<1>2. en[g].pc = "open" /\ UNCHANGED <<mu, flock, open>>
  BY DEF OpenLock
<1>3. Types'
  BY <1>1, <1>2 DEF IInv, Types, Moves, Enr
<1>4. OwnMutex'
  BY <1>1, <1>2 DEF IInv, OwnMutex, Moves, Holds
<1>5. OneFile'
  <2>1. open => r.path = 1 /\ r.pc = "flock" /\ r.fd = file'[1] /\ file'[1] # 0
    BY <1>1, <1>2 DEF IInv, Types, OneFile, Holds, Enr
  <2>2. open /\ file[1] # 0 => file' = file
    BY <1>1, <1>2, <2>1
  <2> QED
    BY <1>1, <1>2, <2>1, <2>2 DEF IInv, OneFile, Moves, Holds, Critical
<1>6. OwnLock' /\ OneProcess'
  BY <1>1, <1>2 DEF IInv, OwnLock, OneProcess, Moves, Ended, Critical
<1>7. Nets'
  BY DEF IInv, Nets, OpenLock, netVars
<1>99. Quiet
  BY <1>1 DEF Quiet, Moves
<1> QED
  BY <1>99, <1>3, <1>4, <1>5, <1>6, <1>7 DEF IInv

\* What a refused sudo makes of the goroutine.
LEMMA NextPath ==
  ASSUME Types, NEW g \in Guest, NEW a \in PC, NEW b \in Path,
         en' = [en EXCEPT ![g].pc = a, ![g].path = b, ![g].fd = 0]
  PROVE  \E r \in Enr : Moves(g, r) /\ r.pc = a /\ r.proc = en[g].proc /\ r.fd = 0
<1> DEFINE e == en[g]
<1>0. e \in Enr
  BY DEF Types
<1> HIDE DEF e
<1> DEFINE q1 == [e EXCEPT !.pc = a]
<1>1. q1 \in Enr /\ q1.pc = a /\ q1.proc = e.proc /\ q1.for = e.for /\ q1.path = e.path
      /\ q1.fd = e.fd /\ q1.net = e.net /\ q1.idx = e.idx
  BY <1>0, PcField
<1> HIDE DEF q1
<1> DEFINE q2 == [q1 EXCEPT !.path = b]
<1>2. q2 \in Enr /\ q2.pc = a /\ q2.proc = e.proc /\ q2.for = e.for /\ q2.path = b
      /\ q2.fd = e.fd /\ q2.net = e.net /\ q2.idx = e.idx
  BY <1>1, PathField
<1> HIDE DEF q2
<1> DEFINE q3 == [q2 EXCEPT !.fd = 0]
<1>3. q3 \in Enr /\ q3.pc = a /\ q3.proc = e.proc /\ q3.for = e.for /\ q3.path = b
      /\ q3.fd = 0 /\ q3.net = e.net /\ q3.idx = e.idx
  BY <1>2, FdField
<1> HIDE DEF q3
<1>4. en' = [en EXCEPT ![g] = q3]
  BY DEF q1, q2, q3, e
<1>5. Moves(g, q3)
  BY <1>3, <1>4, Moved
<1> QED
  BY <1>3, <1>5 DEF e

\* A new file in the place of the old one, the next path, or the mutex alone.
LEMMA InstallLockHolds == ASSUME IInv, NEW g \in Guest, InstallLock(g) PROVE IInv' /\ Quiet
<1>0. en[g] \in Enr /\ en[g].pc = "install" /\ ~open /\ UNCHANGED <<mu, flock, open>>
  BY DEF IInv, Types, OneFile, InstallLock
<1>1. PICK r \in Enr :
        /\ Moves(g, r) /\ r.proc = en[g].proc
        /\ r.pc \in {"flock", "open", "alloc", "issue"}
        /\ r.pc # "flock" => r.fd = 0
  <2>1. CASE en' = [en EXCEPT ![g].pc = "flock", ![g].fd = ino + 1]
    <3> DEFINE q == [en[g] EXCEPT !.pc = "flock", !.fd = ino + 1]
    <3>1. ino + 1 \in Nat
      BY DEF IInv, Types
    <3>2. q \in Enr /\ q.pc = "flock" /\ q.proc = en[g].proc
      BY <1>0, <3>1, ToFlock
    <3>3. en' = [en EXCEPT ![g] = q]
      BY <2>1
    <3> HIDE DEF q
    <3>4. Moves(g, q)
      BY <3>2, <3>3, Moved DEF IInv
    <3> QED
      BY <3>2, <3>4
  <2>2. CASE en' = [en EXCEPT ![g].pc = IF en[g].path < Paths THEN "open" ELSE Enter(g),
                              ![g].path = IF en[g].path < Paths THEN en[g].path + 1 ELSE en[g].path, ![g].fd = 0]
    <3> DEFINE a == IF en[g].path < Paths THEN "open" ELSE Enter(g)
               b == IF en[g].path < Paths THEN en[g].path + 1 ELSE en[g].path
    <3>1. a \in {"open", "alloc", "issue"} /\ a \in PC
      BY DEF Enter, PC
    <3>2. b \in Path
      BY <1>0, EnrollAssumption DEF Path, Enr
    <3>3. en' = [en EXCEPT ![g].pc = a, ![g].path = b, ![g].fd = 0]
      BY <2>2
    <3> HIDE DEF a, b
    <3>4. \E r \in Enr : Moves(g, r) /\ r.pc = a /\ r.proc = en[g].proc /\ r.fd = 0
      BY <3>1, <3>2, <3>3, NextPath DEF IInv
    <3> QED
      BY <3>1, <3>4
  <2> QED
    BY <2>1, <2>2 DEF InstallLock
<1>2. Types'
  <2>1. file' \in [Path -> Nat] /\ ino' \in Nat
    BY DEF IInv, Types, InstallLock
  <2> QED
    BY <1>0, <1>1, <2>1 DEF IInv, Types, Moves
<1>3. OwnMutex' /\ OneFile' /\ Nets'
  BY <1>0, <1>1 DEF IInv, OwnMutex, OneFile, Nets, Moves, Holds, InstallLock, netVars
<1>4. OwnLock' /\ OneProcess'
  BY <1>0, <1>1 DEF IInv, OwnLock, OneProcess, Moves, Ended, Critical
<1>99. Quiet
  BY <1>1 DEF Quiet, Moves
<1> QED
  BY <1>99, <1>2, <1>3, <1>4 DEF IInv

\* No one else has the file's lock, and it is in.
LEMMA FlockHolds == ASSUME IInv, NEW g \in Guest, Flock(g) PROVE IInv' /\ Quiet
<1> DEFINE a == Enter(g)
           r == [en[g] EXCEPT !.pc = a]
           l == [ino |-> en[g].fd, by |-> g]
<1>0. /\ en[g] \in Enr /\ en[g].pc = "flock" /\ en[g].fd \in Nat /\ a \in PC /\ a \in {"alloc", "issue"}
      /\ UNCHANGED <<mu, file, ino, open>>
  BY DEF IInv, Types, Enr, Flock, Enter, PC
<1>3. en' = [en EXCEPT ![g] = r]
  BY DEF Flock, Go
<1> HIDE DEF a
<1>1. r \in Enr /\ r.pc = a /\ r.proc = en[g].proc /\ r.path = en[g].path /\ r.fd = en[g].fd
  BY <1>0, PcField
<1> HIDE DEF r
<1>2. Moves(g, r)
  BY <1>1, <1>3, Moved DEF IInv
<1>4. flock' = flock \cup {l} /\ l.ino = en[g].fd /\ \A k \in flock : k.ino # l.ino
  BY DEF Flock
<1>5. Types'
  <2>1. l \in [ino : Nat, by : Guest]
    BY <1>0
  <2> HIDE DEF l
  <2> QED
    BY <1>0, <1>1, <1>2, <1>4, <2>1 DEF IInv, Types, Moves
<1>6. OwnMutex' /\ OneFile' /\ Nets'
  BY <1>0, <1>1, <1>2 DEF IInv, OwnMutex, OneFile, Nets, Moves, Holds, Critical, Flock, netVars
<1>7. OwnLock'
  <2>1. \A h \in Guest : Critical(h)' /\ en'[h].fd # 0 => [ino |-> en'[h].fd, by |-> h] \in flock'
    BY <1>1, <1>2, <1>4 DEF IInv, OwnLock, Moves, Critical
  <2> HIDE DEF l
  <2>2. \A k, m \in flock' : k.ino = m.ino => k = m
    BY <1>4 DEF IInv, OwnLock
  <2> QED
    BY <2>1, <2>2 DEF OwnLock
<1>8. OneProcess'
  BY <1>0, <1>1, <1>2 DEF IInv, OneProcess, Moves, Ended
<1>99. Quiet
  BY <1>0, <1>1, <1>2 DEF Quiet, Moves
<1> QED
  BY <1>99, <1>5, <1>6, <1>7, <1>8 DEF IInv

\* What gate.unlock makes of the goroutine.
LEMMA LeaveMoves ==
  ASSUME Types, NEW g \in Guest, NEW a \in PC,
         en' = [en EXCEPT ![g].pc = a, ![g].for = "cert", ![g].path = 1, ![g].fd = 0, ![g].net = None, ![g].idx = None]
  PROVE  \E r \in Enr : Moves(g, r) /\ r.pc = a /\ r.proc = en[g].proc /\ r.fd = 0
<1> DEFINE e == en[g]
<1>0. e \in Enr
  BY DEF Types
<1> HIDE DEF e
<1>9. 1 \in Path /\ None \in Nat \cup {None}
  BY EnrollAssumption DEF Path
<1> DEFINE q1 == [e EXCEPT !.pc = a]
<1>1. q1 \in Enr /\ q1.pc = a /\ q1.proc = e.proc /\ q1.for = e.for /\ q1.path = e.path
      /\ q1.fd = e.fd /\ q1.net = e.net /\ q1.idx = e.idx
  BY <1>0, PcField
<1> HIDE DEF q1
<1> DEFINE q2 == [q1 EXCEPT !.for = "cert"]
<1>2. q2 \in Enr /\ q2.pc = a /\ q2.proc = e.proc /\ q2.for = "cert" /\ q2.path = e.path
      /\ q2.fd = e.fd /\ q2.net = e.net /\ q2.idx = e.idx
  BY <1>1, ForField
<1> HIDE DEF q2
<1> DEFINE q3 == [q2 EXCEPT !.path = 1]
<1>3. q3 \in Enr /\ q3.pc = a /\ q3.proc = e.proc /\ q3.for = "cert" /\ q3.path = 1
      /\ q3.fd = e.fd /\ q3.net = e.net /\ q3.idx = e.idx
  BY <1>2, <1>9, PathField
<1> HIDE DEF q3
<1> DEFINE q4 == [q3 EXCEPT !.fd = 0]
<1>4. q4 \in Enr /\ q4.pc = a /\ q4.proc = e.proc /\ q4.for = "cert" /\ q4.path = 1
      /\ q4.fd = 0 /\ q4.net = e.net /\ q4.idx = e.idx
  BY <1>3, FdField
<1> HIDE DEF q4
<1> DEFINE q5 == [q4 EXCEPT !.net = None]
<1>5. q5 \in Enr /\ q5.pc = a /\ q5.proc = e.proc /\ q5.for = "cert" /\ q5.path = 1
      /\ q5.fd = 0 /\ q5.net = None /\ q5.idx = e.idx
  BY <1>4, NetField
<1> HIDE DEF q5
<1> DEFINE q6 == [q5 EXCEPT !.idx = None]
<1>6. q6 \in Enr /\ q6.pc = a /\ q6.proc = e.proc /\ q6.for = "cert" /\ q6.path = 1
      /\ q6.fd = 0 /\ q6.net = None /\ q6.idx = None
  BY <1>5, <1>9, IdxField
<1> HIDE DEF q6
<1>7. en' = [en EXCEPT ![g] = q6]
  BY DEF q1, q2, q3, q4, q5, q6, e
<1>8. Moves(g, q6)
  BY <1>6, <1>7, Moved
<1> QED
  BY <1>6, <1>8 DEF e

\* It gives both locks back, its own only.
LEMMA LeaveHolds == ASSUME IInv, NEW g \in Guest, Leave(g) PROVE IInv' /\ Quiet
<1>0. /\ en[g].pc = "leave" /\ en[g].proc \in Proc /\ UNCHANGED <<file, ino, open>>
      /\ flock' = {l \in flock : l.by # g} /\ mu' = [mu EXCEPT ![en[g].proc] = None]
  BY DEF IInv, Types, Leave, Release
<1> DEFINE a == IF en[g].for = "mesh" THEN "mutex" ELSE "done"
<1>1. a \in {"mutex", "done"} /\ a \in PC
  BY DEF PC
<1>2. en' = [en EXCEPT ![g].pc = a, ![g].for = "cert", ![g].path = 1, ![g].fd = 0, ![g].net = None, ![g].idx = None]
  BY DEF Leave
<1> HIDE DEF a
<1>3. PICK r \in Enr : Moves(g, r) /\ r.pc \in {"mutex", "done"} /\ r.proc = en[g].proc /\ r.fd = 0
  BY <1>1, <1>2, LeaveMoves DEF IInv
<1>4. Types' /\ Nets'
  BY <1>0, <1>3 DEF IInv, Types, Nets, Moves, Leave, netVars
<1>5. OwnMutex'
  BY <1>0, <1>3, EnrollAssumption DEF IInv, Types, OwnMutex, Moves, Holds
<1>6. OneFile'
  BY <1>0, <1>3 DEF IInv, OneFile, Moves, Holds, Critical
<1>7. OwnLock'
  BY <1>0, <1>3 DEF IInv, OwnLock, Moves, Critical
<1>8. OneProcess'
  BY <1>0, <1>3 DEF IInv, OneProcess, Moves, Ended
<1>99. Quiet
  BY <1>3 DEF Quiet, Moves
<1> QED
  BY <1>99, <1>4, <1>5, <1>6, <1>7, <1>8 DEF IInv

\* A set of numbers has a least one ...
LEMMA Least == ASSUME NEW S \in SUBSET Nat, S # {} PROVE \E x \in S : \A y \in S : x =< y
<1> DEFINE R == {ss \in Nat \X Nat : ss[1] < ss[2]}
<1>1. IsWellFoundedOn(R, Nat)
  BY NatLessThanWellFounded DEF OpToRel
<1>2. \E x \in S : \A y \in S : ~ (<<y, x>> \in R)
  <2> HIDE DEF R
  <2> QED
    BY <1>1, WFMin
<1>3. PICK x \in S : \A y \in S : ~ (<<y, x>> \in R)
  BY <1>2
<1>4. ASSUME NEW y \in S PROVE x =< y
  <2>1. <<y, x>> \in Nat \X Nat /\ <<y, x>>[1] = y /\ <<y, x>>[2] = x
    OBVIOUS
  <2> QED
    BY <1>3, <2>1
<1> QED
  BY <1>4

\* ... which is one of it.
LEMMA MinIsIn == ASSUME NEW S \in SUBSET Nat, S # {} PROVE Min(S) \in S
  BY Least DEF Min

\* What allocMeshSubnet finds: the mesh's own, or one that nobody is on.
LEMMA Found ==
  ASSUME Nets, NEW g \in Guest, Alloc(g)
  PROVE  \E n \in Subnet \cup {None} :
           /\ en' = [en EXCEPT ![g].net = n, ![g].pc = IF n = None THEN "leave" ELSE "up"]
           /\ n # None => iface[MeshOf[g]] = n \/ \A k \in Mesh : iface[k] # n
<1> DEFINE m == MeshOf[g]
           free == {n \in Subnet : \A k \in Mesh : iface[k] # n}
           n == IF iface[m] # None THEN iface[m] ELSE IF free # {} THEN Min(free) ELSE None
<1>1. en' = [en EXCEPT ![g].net = n, ![g].pc = IF n = None THEN "leave" ELSE "up"]
  BY DEF Alloc
<1>2. m \in Mesh /\ iface[m] \in Subnet \cup {None}
  BY EnrollAssumption DEF Nets
<1>3. free # {} => Min(free) \in free
  BY MinIsIn DEF Subnet
<1>4. n \in Subnet \cup {None} /\ (n # None => iface[m] = n \/ \A k \in Mesh : iface[k] # n)
  BY <1>2, <1>3
<1> HIDE DEF n
<1> QED
  BY <1>1, <1>4

\* Alloc, with what it found.
Picks(g, n, a) == en' = [en EXCEPT ![g].net = n, ![g].pc = a]

\* What a subnet, or none, makes of the goroutine.
LEMMA AllocMoves ==
  ASSUME IInv, NEW g \in Guest, NEW n \in Subnet \cup {None}, NEW a \in PC, Picks(g, n, a)
  PROVE  \E r \in Enr : /\ Moves(g, r) /\ r.pc = a /\ r.net = n
                         /\ r.proc = en[g].proc /\ r.path = en[g].path /\ r.fd = en[g].fd
<1> DEFINE e == en[g]
           p == [e EXCEPT !.net = n]
           q == [p EXCEPT !.pc = a]
<1>1. e \in Enr
  BY DEF IInv, Types
<1>2. en' = [en EXCEPT ![g] = q]
  BY DEF Picks
<1> HIDE DEF e
<1>5. p \in Enr /\ p.proc = e.proc /\ p.path = e.path /\ p.fd = e.fd /\ p.net = n
  BY <1>1, NetField
<1> HIDE DEF p
<1>3. q \in Enr /\ q.pc = a /\ q.proc = e.proc /\ q.path = e.path /\ q.fd = e.fd /\ q.net = n
  BY <1>5, PcField
<1> HIDE DEF q
<1>4. Moves(g, q)
  BY <1>2, <1>3, Moved DEF IInv
<1> QED
  BY <1>3, <1>4 DEF e

\* The choice of a subnet is made behind the gate.
LEMMA AllocHolds == ASSUME IInv, NEW g \in Guest, Alloc(g) PROVE IInv'
<1>1. PICK n \in Subnet \cup {None} : en' = [en EXCEPT ![g].net = n, ![g].pc = IF n = None THEN "leave" ELSE "up"]
  BY Found DEF IInv
<1> DEFINE a == IF n = None THEN "leave" ELSE "up"
<1>2. a \in {"leave", "up"} /\ a \in PC /\ Picks(g, n, a)
  BY <1>1 DEF PC, Picks
<1> HIDE DEF a
<1>3. PICK r \in Enr : /\ Moves(g, r) /\ r.pc = a /\ r.net = n
                       /\ r.proc = en[g].proc /\ r.path = en[g].path /\ r.fd = en[g].fd
  <2>1. a \in PC
    BY <1>2
  <2>2. Picks(g, n, a)
    BY <1>2
  <2> QED
    BY <2>1, <2>2, AllocMoves
<1>4. Critical(g) /\ UNCHANGED <<mu, file, ino, flock, open>> /\ Nets'
  BY DEF IInv, Nets, Alloc, Critical, lockVars, netVars
<1> QED
  BY <1>2, <1>3, <1>4, Inside

\* A step behind the gate after which it leaves.
LEMMA LeaveNext ==
  ASSUME IInv, NEW g \in Guest, Critical(g), Go(g, "leave"),
         UNCHANGED <<mu, file, ino, flock, open>>, Nets'
  PROVE  IInv' /\ Quiet
<1> DEFINE e == en[g]
           q == [e EXCEPT !.pc = "leave"]
<1>1. e \in Enr /\ "leave" \in PC
  BY DEF IInv, Types, PC
<1>2. en' = [en EXCEPT ![g] = q]
  BY DEF Go
<1> HIDE DEF e
<1>3. q \in Enr /\ q.pc = "leave" /\ q.proc = e.proc /\ q.path = e.path /\ q.fd = e.fd
  BY <1>1, PcField
<1> HIDE DEF q
<1>4. Moves(g, q)
  BY <1>2, <1>3, Moved DEF IInv
<1>99. Quiet
  BY <1>3, <1>4 DEF Quiet, Moves
<1> QED
  BY <1>99, <1>3, <1>4, Inside DEF e

\* kvm-mesh up, done or failed.
LEMMA MeshUpHolds == ASSUME IInv, NEW g \in Guest, MeshUp(g) PROVE IInv' /\ Quiet
<1>1. Critical(g) /\ Go(g, "leave") /\ UNCHANGED <<mu, file, ino, flock, open>>
  BY DEF MeshUp, Critical, lockVars
<1>2. Nets'
  BY DEF IInv, Types, Enr, Nets, MeshUp
<1> QED
  BY <1>1, <1>2, LeaveNext

\* The CA's index read, or not.
LEMMA IssueReadHolds == ASSUME IInv, NEW g \in Guest, IssueRead(g) PROVE IInv'
<1>1. Critical(g) /\ UNCHANGED <<mu, file, ino, flock, open>> /\ Nets' /\ en[g] \in Enr /\ serial \in Nat \cup {None}
  BY DEF IInv, Types, Nets, IssueRead, Critical, lockVars, netVars
<1>2. CASE Go(g, "leave")
  BY <1>1, <1>2, LeaveNext
<1>3. CASE en' = [en EXCEPT ![g].pc = "sign", ![g].idx = serial]
  <2> DEFINE e == en[g]
             q1 == [e EXCEPT !.pc = "sign"]
             q2 == [q1 EXCEPT !.idx = serial]
  <2>1. e \in Enr /\ "sign" \in PC
    BY <1>1 DEF PC
  <2>2. en' = [en EXCEPT ![g] = q2]
    BY <1>3
  <2> HIDE DEF e
  <2>3. q1 \in Enr /\ q1.pc = "sign" /\ q1.proc = e.proc /\ q1.path = e.path /\ q1.fd = e.fd
    BY <2>1, PcField
  <2> HIDE DEF q1
  <2>4. q2 \in Enr /\ q2.pc = "sign" /\ q2.proc = e.proc /\ q2.path = e.path /\ q2.fd = e.fd
    BY <1>1, <2>3, IdxField
  <2>6. q2.idx \in Nat
    BY <1>1, <2>3, IdxField DEF IInv, Nets
  <2> HIDE DEF q2
  <2>5. Moves(g, q2)
    BY <2>2, <2>4, Moved DEF IInv
  <2> QED
    BY <1>1, <2>4, <2>5, <2>6, Inside DEF e
<1> QED
  BY <1>2, <1>3 DEF IssueRead

\* The certificate written.
LEMMA IssueSignHolds == ASSUME IInv, NEW g \in Guest, IssueSign(g) PROVE IInv' /\ Quiet
<1>1. Critical(g) /\ Go(g, "leave") /\ UNCHANGED <<mu, file, ino, flock, open>>
  BY DEF IssueSign, Critical, lockVars
<1>2. Nets'
  BY DEF IInv, Types, Nets, IssueSign
<1> QED
  BY <1>1, <1>2, LeaveNext

\* A tear-down touches no lock.
LEMMA MeshDownHolds == ASSUME IInv, NEW m \in Mesh, MeshDown(m) PROVE IInv' /\ Quiet
<1>1. UNCHANGED <<en, mu, file, ino, flock, open>>
  BY DEF MeshDown, lockVars
<1>2. Nets'
  BY DEF IInv, Nets, MeshDown
<1>99. Quiet
  BY <1>1 DEF Quiet, Moves
<1> QED
  BY <1>99, <1>1, <1>2 DEF IInv, Types, OwnMutex, OneFile, OwnLock, OneProcess, Holds, Critical, Ended

\* The kernel gives back what a killed process held, and the others keep theirs.
LEMMA KilledHolds == ASSUME IInv, NEW p \in Proc, Killed(p) PROVE IInv' /\ Quiet
<1>1. \A g \in Guest :
        IF en[g].proc = p /\ ~Ended(g)
        THEN en'[g] \in Enr /\ en'[g].pc = "gone" /\ en'[g].proc = en[g].proc
        ELSE en'[g] = en[g]
  <2> TAKE g \in Guest
  <2>1. CASE en[g].proc = p /\ ~Ended(g)
    <3> DEFINE q == [en[g] EXCEPT !.pc = "gone"]
    <3>1. en[g] \in Enr /\ "gone" \in PC
      BY DEF IInv, Types, PC
    <3>2. q \in Enr /\ q.pc = "gone" /\ q.proc = en[g].proc
      BY <3>1, PcField
    <3>3. en'[g] = q
      BY <2>1 DEF Killed
    <3> QED
      BY <2>1, <3>2, <3>3
  <2>2. CASE ~(en[g].proc = p /\ ~Ended(g))
    BY <2>2 DEF Killed
  <2> QED
    BY <2>1, <2>2
<1>2. /\ UNCHANGED <<file, ino, open>> /\ mu' = [mu EXCEPT ![p] = None]
      /\ flock' = {l \in flock : en[l.by].proc # p}
  BY DEF Killed
<1>3. en' \in [Guest -> Enr]
  <2>1. \A g \in Guest : en'[g] \in Enr
    BY <1>1 DEF IInv, Types
  <2>2. en' = [g \in Guest |-> en'[g]]
    BY DEF Killed
  <2> QED
    BY <2>1, <2>2
<1>4. Types' /\ Nets'
  BY <1>1, <1>2, <1>3 DEF IInv, Types, Nets, Ended, Killed, netVars
<1>5. \A g \in Guest : Holds(g)' => en[g].proc # p /\ en'[g] = en[g] /\ en[g].proc \in Proc
  BY <1>1 DEF IInv, Types, Holds, Ended
<1>6. OwnMutex'
  BY <1>2, <1>5 DEF IInv, Types, OwnMutex, Holds
<1>7. OneFile'
  BY <1>1, <1>2, <1>5 DEF IInv, OneFile, Holds, Critical
<1>8. OwnLock'
  <2>1. \A g \in Guest : Critical(g)' => Critical(g) /\ en[g].proc # p /\ en'[g] = en[g]
    BY <1>5 DEF Holds, Critical
  <2>2. \A g \in Guest : Critical(g)' /\ en'[g].fd # 0 => [ino |-> en'[g].fd, by |-> g] \in flock'
    BY <1>2, <2>1 DEF IInv, OwnLock
  <2> QED
    BY <1>2, <2>2 DEF IInv, OwnLock
<1>9. OneProcess'
  BY <1>1, <1>2 DEF IInv, OneProcess, Ended
<1>10. Quiet
  BY <1>1 DEF Quiet
<1> QED
  BY <1>4, <1>6, <1>7, <1>8, <1>9, <1>10 DEF IInv

\* Every step keeps the invariant.
LEMMA NextHolds == ASSUME ~Race, IInv, [Next]_enrollVars PROVE IInv'
<1>1. CASE UNCHANGED enrollVars
  BY <1>1 DEF enrollVars, lockVars, netVars, IInv, Types, Nets, OwnMutex, OneFile, OwnLock, OneProcess, Holds, Critical, Ended
<1>2. ASSUME NEW g \in Guest, Step(g) PROVE IInv'
  BY <1>2, SshHolds, LockMutexHolds, OpenLockHolds, InstallLockHolds, FlockHolds, AllocHolds, MeshUpHolds,
     IssueReadHolds, IssueSignHolds, LeaveHolds DEF Step
<1> QED
  BY <1>1, <1>2, EnrolHolds, MeshDownHolds, KilledHolds DEF Next

\* However many processes, goroutines and meshes there are, whatever fails, is killed
\* or taken down: of the enrolments of a host one at most is behind the gate, where
\* the lock's directory is the account's or one process enrols (enrollHostLock).
THEOREM GateIsExclusive == ~Race => (Spec => []MutualExclusion)
<1> SUFFICES ASSUME ~Race PROVE Spec => []MutualExclusion
  OBVIOUS
<1>1. IInv /\ [Next]_enrollVars => IInv'
  BY NextHolds
<1> QED
  BY InitHolds, Exclusion, <1>1, PTL DEF Spec

-----------------------------------------------------------------------------
(* What is handed out behind the gate.                                     *)

\* The subnet that was picked is still nobody else's, the index that was read is
\* still the CA's, and all serials given are behind it.
Handed ==
  /\ \A g \in Guest : en[g].pc = "up" =>
       en[g].net \in Subnet /\ \A k \in Mesh : k # MeshOf[g] => iface[k] # en[g].net
  /\ \A g \in Guest : en[g].pc = "sign" => en[g].idx = serial
  /\ \A g \in Guest : cert[g] # None => cert[g] < serial
  /\ OwnSubnet /\ SerialOnce

\* Where Go leads.
LEMMA GoesTo == ASSUME IInv, NEW g \in Guest, NEW a \in PC, Go(g, a) PROVE en'[g].pc = a
<1> DEFINE q == [en[g] EXCEPT !.pc = a]
<1>1. en[g] \in Enr /\ en'[g] = q
  BY DEF IInv, Types, Go
<1> QED
  BY <1>1, PcField

\* A step that hands nothing out.
LEMMA QuietHanded == ASSUME Handed, Quiet, UNCHANGED netVars PROVE Handed'
  BY DEF Handed, Quiet, netVars, OwnSubnet, SerialOnce

\* The interface comes up on the subnet that was picked: nobody else has picked one.
LEMMA MeshUpHanded == ASSUME IInv, Handed, NEW g \in Guest, MeshUp(g) PROVE Handed'
<1>1. Quiet /\ en[g].pc = "up" /\ UNCHANGED <<serial, cert>>
  BY MeshUpHolds DEF MeshUp
<1>2. CASE UNCHANGED iface
  BY <1>1, <1>2, QuietHanded DEF netVars
<1>3. CASE iface' = [iface EXCEPT ![MeshOf[g]] = en[g].net]
  <2>1. en'[g].pc = "leave"
    BY GoesTo DEF MeshUp, PC
  <2>2. \A h \in Guest : en'[h].pc # "up"
    BY <1>1, <2>1, Exclusion DEF MutualExclusion, Critical, Quiet
  <2>3. OwnSubnet'
    BY <1>1, <1>3, EnrollAssumption DEF IInv, Nets, Handed, OwnSubnet
  <2> QED
    BY <1>1, <2>2, <2>3 DEF Handed, Quiet, SerialOnce
<1> QED
  BY <1>2, <1>3 DEF MeshUp

\* The index moves on: nobody else has read the old one.
LEMMA IssueSignHanded == ASSUME IInv, Handed, NEW g \in Guest, IssueSign(g) PROVE Handed'
<1>1. Quiet /\ en[g].pc = "sign" /\ UNCHANGED iface
  BY IssueSignHolds DEF IssueSign
<1>2. en[g].idx = serial /\ serial' = serial + 1 /\ cert' = [cert EXCEPT ![g] = serial] /\ serial \in Nat
  BY <1>1 DEF IInv, Nets, Handed, IssueSign
<1>3. en'[g].pc = "leave"
  BY GoesTo DEF IssueSign, PC
<1>4. \A h \in Guest : en'[h].pc # "sign"
  BY <1>1, <1>3, Exclusion DEF MutualExclusion, Critical, Quiet
<1>5. \A h \in Guest : cert'[h] # None => cert'[h] < serial'
  BY <1>2 DEF IInv, Nets, Handed
<1>6. SerialOnce'
  BY <1>2 DEF IInv, Nets, Handed, SerialOnce
<1> QED
  BY <1>1, <1>4, <1>5, <1>6 DEF Handed, Quiet, OwnSubnet

\* A subnet that is given back is nobody's.
LEMMA MeshDownHanded == ASSUME IInv, Handed, NEW m \in Mesh, MeshDown(m) PROVE Handed'
<1>1. Quiet /\ UNCHANGED <<en, serial, cert>> /\ iface' = [iface EXCEPT ![m] = None]
  BY MeshDownHolds DEF MeshDown
<1>2. \A k \in Mesh : iface'[k] = iface[k] \/ iface'[k] = None
  BY <1>1 DEF IInv, Nets
<1>3. \A g \in Guest : en[g].pc = "up" => en[g].net # None
  BY EnrollAssumption DEF Handed, Subnet
<1> QED
  BY <1>1, <1>2, <1>3 DEF Handed, OwnSubnet, SerialOnce

\* The subnet picked is the mesh's own or nobody's.
LEMMA AllocHanded == ASSUME IInv, Handed, NEW g \in Guest, Alloc(g) PROVE Handed'
<1>1. PICK n \in Subnet \cup {None} :
        /\ en' = [en EXCEPT ![g].net = n, ![g].pc = IF n = None THEN "leave" ELSE "up"]
        /\ n # None => iface[MeshOf[g]] = n \/ \A k \in Mesh : iface[k] # n
  BY Found DEF IInv
<1> DEFINE a == IF n = None THEN "leave" ELSE "up"
<1>2. a \in PC /\ (a = "up" => n # None) /\ a # "sign" /\ Picks(g, n, a)
  BY <1>1 DEF PC, Picks
<1> HIDE DEF a
<1>3. PICK r \in Enr : /\ Moves(g, r) /\ r.pc = a /\ r.net = n
                       /\ r.proc = en[g].proc /\ r.path = en[g].path /\ r.fd = en[g].fd
  <2>1. a \in PC
    BY <1>2
  <2>2. Picks(g, n, a)
    BY <1>2
  <2> QED
    BY <2>1, <2>2, AllocMoves
<1>4. UNCHANGED <<iface, serial, cert>>
  BY DEF Alloc, netVars
<1>5. n # None => n \in Subnet /\ \A k \in Mesh : k # MeshOf[g] => iface[k] # n
  BY <1>1, EnrollAssumption DEF Handed, OwnSubnet
<1> QED
  BY <1>2, <1>3, <1>4, <1>5 DEF Handed, Moves, OwnSubnet, SerialOnce

\* The index read is the CA's.
LEMMA IssueReadHanded == ASSUME IInv, Handed, NEW g \in Guest, IssueRead(g) PROVE Handed'
<1>1. UNCHANGED <<iface, serial, cert>> /\ serial \in Nat \cup {None} /\ en[g] \in Enr /\ en[g].pc = "issue"
  BY DEF IssueRead, netVars, IInv, Nets, Types
<1>2. \A h \in Guest : h # g => en'[h] = en[h]
  BY DEF IssueRead, Go, IInv, Types
<1>3. CASE Go(g, "leave")
  <2>1. en'[g].pc = "leave"
    BY <1>3, GoesTo DEF PC
  <2> QED
    BY <1>1, <1>2, <2>1 DEF Handed, OwnSubnet, SerialOnce
<1>4. CASE en' = [en EXCEPT ![g].pc = "sign", ![g].idx = serial]
  <2> DEFINE e == en[g]
             q1 == [e EXCEPT !.pc = "sign"]
             q2 == [q1 EXCEPT !.idx = serial]
  <2>1. e \in Enr /\ "sign" \in PC
    BY <1>1 DEF PC
  <2>2. en'[g] = q2
    BY <1>4 DEF IInv, Types
  <2> HIDE DEF e
  <2>3. q1 \in Enr /\ q1.pc = "sign"
    BY <2>1, PcField
  <2> HIDE DEF q1
  <2>4. q2.pc = "sign" /\ q2.idx = serial
    BY <1>1, <2>3, IdxField
  <2> HIDE DEF q2
  <2> QED
    BY <1>1, <1>2, <2>2, <2>4 DEF Handed, OwnSubnet, SerialOnce
<1> QED
  BY <1>3, <1>4 DEF IssueRead

\* Every step keeps what was handed out apart.
LEMMA NextHanded == ASSUME ~Race, IInv, Handed, [Next]_enrollVars PROVE Handed'
<1>1. CASE UNCHANGED enrollVars
  BY <1>1 DEF enrollVars, netVars, Handed, OwnSubnet, SerialOnce
<1>2. ASSUME NEW g \in Guest, NEW p \in Proc, Enrol(g, p) PROVE Handed'
  BY <1>2, EnrolHolds, QuietHanded DEF Enrol
<1>3. ASSUME NEW g \in Guest, Step(g) PROVE Handed'
  <2>1. CASE Ssh(g)
    BY <2>1, SshHolds, QuietHanded DEF Ssh
  <2>2. CASE LockMutex(g)
    BY <2>2, LockMutexHolds, QuietHanded DEF LockMutex
  <2>3. CASE OpenLock(g)
    BY <2>3, OpenLockHolds, QuietHanded DEF OpenLock
  <2>4. CASE InstallLock(g)
    BY <2>4, InstallLockHolds, QuietHanded DEF InstallLock
  <2>5. CASE Flock(g)
    BY <2>5, FlockHolds, QuietHanded DEF Flock
  <2>6. CASE Leave(g)
    BY <2>6, LeaveHolds, QuietHanded DEF Leave
  <2> QED
    BY <1>3, <2>1, <2>2, <2>3, <2>4, <2>5, <2>6, AllocHanded, MeshUpHanded, IssueReadHanded, IssueSignHanded DEF Step
<1>4. ASSUME NEW p \in Proc, Killed(p) PROVE Handed'
  BY <1>4, KilledHolds, QuietHanded DEF Killed
<1> QED
  BY <1>1, <1>2, <1>3, <1>4, MeshDownHanded DEF Next

\* Nothing is handed out in the beginning.
LEMMA InitHanded == Init => Handed
  BY DEF Init, Handed, NoEnrol, OwnSubnet, SerialOnce

\* No two meshes are ever on one subnet (allocMeshSubnet reads what is up, and
\* kvm-mesh up follows under the same gate) ...
THEOREM SubnetsAreOwn == ~Race => (Spec => []OwnSubnet)
<1> SUFFICES ASSUME ~Race PROVE Spec => []OwnSubnet
  OBVIOUS
<1>1. IInv /\ Handed /\ [Next]_enrollVars => (IInv /\ Handed)'
  BY NextHolds, NextHanded
<1>2. Handed => OwnSubnet
  BY DEF Handed
<1> QED
  BY InitHolds, InitHanded, <1>1, <1>2, PTL DEF Spec

\* ... and the CA gives no serial twice (kldload-ca issue, under the gate).
THEOREM SerialsAreOwn == ~Race => (Spec => []SerialOnce)
<1> SUFFICES ASSUME ~Race PROVE Spec => []SerialOnce
  OBVIOUS
<1>1. IInv /\ Handed /\ [Next]_enrollVars => (IInv /\ Handed)'
  BY NextHolds, NextHanded
<1>2. Handed => SerialOnce
  BY DEF Handed
<1> QED
  BY InitHolds, InitHanded, <1>1, <1>2, PTL DEF Spec

-----------------------------------------------------------------------------
(* The bounds of the types.                                                *)

\* No file is open that was never made, and nobody waits for the lock of none.
Within ==
  /\ open \in BOOLEAN
  /\ \A i \in Path : file[i] <= ino
  /\ \A g \in Guest : en[g].fd <= ino /\ (en[g].pc = "flock" => en[g].fd # 0)
  /\ \A l \in flock : l.ino \in 1..ino
  /\ downs \in 0..MaxDown /\ faults \in 0..MaxFault

\* Within the bounds the types are those of TypeOK.
LEMMA TypesAreWithin == IInv /\ Within => TypeOK
<1> SUFFICES ASSUME IInv, Within PROVE TypeOK
  OBVIOUS
<1>1. ASSUME NEW g \in Guest
      PROVE  /\ DOMAIN en[g] = DOMAIN NoEnrol
             /\ en[g].pc \in PC /\ en[g].proc \in Proc \cup {None} /\ en[g].for \in {"mesh", "cert"}
             /\ en[g].path \in Path /\ en[g].fd \in 0..ino
             /\ en[g].net \in Subnet \cup {None} /\ en[g].idx \in Nat \cup {None}
  <2>1. en[g] \in Enr /\ en[g].fd <= ino /\ ino \in Nat
    BY DEF IInv, Types, Within
  <2>2. DOMAIN en[g] = DOMAIN NoEnrol
    BY <2>1 DEF Enr, NoEnrol
  <2>3. en[g].fd \in 0..ino
    BY <2>1 DEF Enr
  <2> QED
    BY <2>1, <2>2, <2>3 DEF Enr
<1>2. file \in [Path -> 0..ino]
  BY DEF IInv, Types, Within
<1>3. flock \subseteq [ino : 1..ino, by : Guest]
  <2> SUFFICES ASSUME NEW l \in flock PROVE l \in [ino : 1..ino, by : Guest]
    OBVIOUS
  <2>1. l \in [ino : Nat, by : Guest] /\ l.ino \in 1..ino
    BY DEF IInv, Types, Within
  <2> QED
    BY <2>1
<1> QED
  BY <1>1, <1>2, <1>3 DEF IInv, Types, Nets, Within, TypeOK, PC

\* What a step does to the files that are open: each stays, is closed, or is one
\* that is there.
Opens ==
  \A g \in Guest :
    \/ en'[g].fd = en[g].fd /\ (en'[g].pc = "flock" => en[g].pc = "flock")
    \/ en'[g].fd = 0 /\ en'[g].pc # "flock"
    \/ en'[g].fd \in 1..ino'

\* It is enough that the steps do that, and keep the files they do not make.
LEMMA OpensWithin ==
  ASSUME IInv, IInv', Within, Opens, open' = open,
         \/ UNCHANGED <<file, ino>>
         \/ \E i \in Path : ino' = ino + 1 /\ file' = [file EXCEPT ![i] = ino + 1],
         \A l \in flock' : l \in flock \/ l.ino \in 1..ino',
         downs' \in 0..MaxDown, faults' \in 0..MaxFault
  PROVE  Within'
<1>0. ino \in Nat /\ ino' \in Nat /\ ino <= ino'
  BY DEF IInv, Types
<1>1. \A i \in Path : file'[i] <= ino'
  BY <1>0 DEF IInv, Types, Within
<1>2. \A g \in Guest : en'[g].fd <= ino' /\ (en'[g].pc = "flock" => en'[g].fd # 0)
  <2> TAKE g \in Guest
  <2>1. en[g].fd \in Nat /\ en'[g].fd \in Nat
    BY DEF IInv, Types, Enr
  <2> QED
    BY <1>0, <2>1 DEF Within, Opens
<1>3. \A l \in flock' : l.ino \in 1..ino'
  BY <1>0 DEF Within
<1> QED
  BY <1>1, <1>2, <1>3 DEF Within

\* Where only the place in the code moves no file is opened.
LEMMA GoOpens ==
  ASSUME IInv, NEW g \in Guest, NEW a \in PC, Go(g, a), a # "flock"
  PROVE  Opens
<1> DEFINE q == [en[g] EXCEPT !.pc = a]
<1>1. en[g] \in Enr /\ en'[g] = q /\ \A h \in Guest : h # g => en'[h] = en[h]
  BY DEF IInv, Types, Go
<1>2. en'[g].pc = a /\ en'[g].fd = en[g].fd
  BY <1>1, PcField
<1> QED
  BY <1>1, <1>2 DEF Opens

\* What the commands that fail and the meshes taken down count.
LEMMA Counted ==
  ASSUME Within, Fault \/ NoFault
  PROVE  downs' \in 0..MaxDown /\ faults' \in 0..MaxFault
  BY EnrollAssumption DEF Within, Fault, NoFault, boundVars

\* A step that makes no file and takes no lock.
LEMMA PlainWithin ==
  ASSUME IInv, IInv', Within, Opens, UNCHANGED <<file, ino, open>>, flock' \subseteq flock, Fault \/ NoFault
  PROVE  Within'
  BY Counted, OpensWithin

\* No step of an enrolment leaves the bounds: not its begin ...
LEMMA EnrolWithin == ASSUME IInv, IInv', Within, NEW g \in Guest, NEW p \in Proc, Enrol(g, p) PROVE Within'
<1>0. en[g] \in Enr /\ "ssh" \in PC
  BY DEF IInv, Types, PC
<1>1. \A h \in Guest : h # g => en'[h] = en[h]
  BY DEF IInv, Types, Enrol
<1> DEFINE e == en[g]
           q1 == [e EXCEPT !.pc = "ssh"]
           q  == [q1 EXCEPT !.proc = p]
<1>2. en'[g] = q
  BY DEF IInv, Types, Enrol
<1> HIDE DEF e
<1>5. q1 \in Enr /\ q1.pc = "ssh" /\ q1.fd = e.fd
  BY <1>0, PcField DEF e
<1> HIDE DEF q1
<1>3. q.pc = "ssh" /\ q.fd = en[g].fd
  BY <1>5, ProcField DEF e
<1> HIDE DEF q
<1>4. Opens
  BY <1>1, <1>2, <1>3 DEF Opens
<1> QED
  BY <1>4, PlainWithin DEF Enrol, lockVars, NoFault, Fault

\* ... nor the wait for ssh ...
LEMMA SshWithin == ASSUME IInv, IInv', Within, NEW g \in Guest, Ssh(g) PROVE Within'
<1>1. Opens
  BY GoOpens DEF Ssh, PC
<1> QED
  BY <1>1, PlainWithin DEF Ssh, lockVars

\* ... nor the mutex ...
LEMMA LockMutexWithin == ASSUME IInv, IInv', Within, NEW g \in Guest, LockMutex(g) PROVE Within'
<1> DEFINE q == [en[g] EXCEPT !.pc = "open"]
           r == [q EXCEPT !.path = 1]
<1>1. en[g] \in Enr /\ "open" \in PC /\ 1 \in Path /\ \A h \in Guest : h # g => en'[h] = en[h]
  BY EnrollAssumption DEF IInv, Types, PC, Path, LockMutex
<1>2. en'[g] = r
  BY DEF IInv, Types, LockMutex
<1>3. q \in Enr /\ q.pc = "open" /\ q.fd = en[g].fd
  BY <1>1, PcField
<1> HIDE DEF q
<1>4. r.pc = "open" /\ r.fd = en[g].fd
  BY <1>1, <1>3, PathField
<1> HIDE DEF r
<1>5. Opens
  BY <1>1, <1>2, <1>4 DEF Opens
<1> QED
  BY <1>5, PlainWithin DEF LockMutex, NoFault, Fault

\* ... nor the lock file that is there or is made ...
LEMMA OpenLockWithin == ASSUME IInv, IInv', Within, NEW g \in Guest, OpenLock(g) PROVE Within'
<1> DEFINE i == en[g].path
           Q(v) == [en[g] EXCEPT !.pc = "flock", !.fd = v]
<1>0. /\ en[g] \in Enr /\ i \in Path /\ file[i] \in Nat /\ file[i] <= ino /\ ino \in Nat /\ ino + 1 \in Nat
      /\ ino + 1 >= 1 /\ (file[i] # 0 => file[i] >= 1)
      /\ \A h \in Guest : h # g => en'[h] = en[h]
  BY DEF IInv, Types, Enr, Within, OpenLock, Go
<1>1. ASSUME NEW v \in Nat, en' = [en EXCEPT ![g].pc = "flock", ![g].fd = v] PROVE en'[g].fd = v
  <2>1. en'[g] = Q(v)
    BY <1>1 DEF IInv, Types
  <2>2. Q(v) \in Enr /\ Q(v).pc = "flock" /\ Q(v).fd = v
    BY <1>0, ToFlock
  <2> QED
    BY <2>1, <2>2
<1>2. CASE file[i] # 0 /\ en' = [en EXCEPT ![g].pc = "flock", ![g].fd = file[i]] /\ UNCHANGED <<file, ino>>
  <2>1. en'[g].fd = file[i]
    BY <1>0, <1>1, <1>2
  <2>3. en'[g].fd \in 1..ino'
    BY <1>0, <1>2, <2>1
  <2>2. Opens
    BY <1>0, <2>3 DEF Opens
  <2> QED
    BY <1>2, <2>2, PlainWithin DEF OpenLock, NoFault, Fault
<1>3. CASE /\ ino' = ino + 1 /\ file' = [file EXCEPT ![i] = ino + 1]
           /\ en' = [en EXCEPT ![g].pc = "flock", ![g].fd = ino + 1]
  <2>1. en'[g].fd = ino + 1
    BY <1>0, <1>1, <1>3
  <2>3. en'[g].fd \in 1..ino'
    BY <1>0, <1>3, <2>1
  <2>2. Opens
    BY <1>0, <2>3 DEF Opens
  <2> QED
    BY <1>0, <1>3, <2>2, OpensWithin, Counted DEF OpenLock, NoFault, Fault
<1>4. CASE Go(g, "install") /\ UNCHANGED <<file, ino>>
  <2>1. Opens
    BY <1>4, GoOpens DEF PC
  <2> QED
    BY <1>4, <2>1, PlainWithin DEF OpenLock, NoFault, Fault
<1> QED
  BY <1>2, <1>3, <1>4 DEF OpenLock

\* ... nor the one sudo puts there, or does not ...
LEMMA InstallLockWithin == ASSUME IInv, IInv', Within, NEW g \in Guest, InstallLock(g) PROVE Within'
<1> DEFINE i == en[g].path
<1>0. /\ en[g] \in Enr /\ i \in Path /\ ino \in Nat /\ ino + 1 \in Nat
      /\ \A h \in Guest : h # g => en'[h] = en[h]
  BY DEF IInv, Types, Enr, InstallLock
<1>1. CASE /\ ino' = ino + 1 /\ file' = [file EXCEPT ![i] = ino + 1]
           /\ en' = [en EXCEPT ![g].pc = "flock", ![g].fd = ino + 1] /\ NoFault
  <2> DEFINE Q == [en[g] EXCEPT !.pc = "flock", !.fd = ino + 1]
  <2>1. en'[g] = Q
    BY <1>1 DEF IInv, Types
  <2>2. Q.fd = ino + 1
    BY <1>0, ToFlock
  <2> HIDE DEF Q
  <2>4. en'[g].fd \in 1..ino'
    BY <1>0, <1>1, <2>1, <2>2
  <2>3. Opens
    BY <1>0, <2>4 DEF Opens
  <2> QED
    BY <1>0, <1>1, <2>3, OpensWithin, Counted DEF InstallLock
<1>2. CASE /\ en' = [en EXCEPT ![g].pc = IF i < Paths THEN "open" ELSE Enter(g),
                               ![g].path = IF i < Paths THEN i + 1 ELSE i, ![g].fd = 0]
           /\ Fault /\ UNCHANGED <<file, ino>>
  <2> DEFINE a == IF i < Paths THEN "open" ELSE Enter(g)
             b == IF i < Paths THEN i + 1 ELSE i
  <2>1. a \in {"open", "alloc", "issue"} /\ a \in PC
    BY DEF Enter, PC
  <2>2. b \in Path
    BY <1>0, EnrollAssumption DEF Path, Enr
  <2>3. en' = [en EXCEPT ![g].pc = a, ![g].path = b, ![g].fd = 0]
    BY <1>2
  <2> HIDE DEF a, b
  <2>4. \E r \in Enr : Moves(g, r) /\ r.pc = a /\ r.proc = en[g].proc /\ r.fd = 0
    BY <2>1, <2>2, <2>3, NextPath DEF IInv
  <2>5. Opens
    BY <1>0, <2>1, <2>4 DEF Opens, Moves
  <2> QED
    BY <1>2, <2>5, PlainWithin DEF InstallLock
<1> QED
  BY <1>1, <1>2 DEF InstallLock

\* ... nor its lock, which is of a file that is there ...
LEMMA FlockWithin == ASSUME IInv, IInv', Within, NEW g \in Guest, Flock(g) PROVE Within'
<1>1. Enter(g) \in PC /\ Enter(g) # "flock"
  BY DEF Enter, PC
<1>2. Opens
  BY <1>1, GoOpens DEF Flock
<1>3. en[g].fd \in 1..ino
  BY DEF IInv, Types, Enr, Within, Flock
<1>4. \A l \in flock' : l \in flock \/ l.ino \in 1..ino'
  BY <1>3 DEF Flock
<1> QED
  BY <1>2, <1>4, OpensWithin, Counted DEF Flock, NoFault, Fault

\* ... nor the subnet picked ...
LEMMA AllocWithin == ASSUME IInv, IInv', Within, NEW g \in Guest, Alloc(g) PROVE Within'
<1>1. PICK n \in Subnet \cup {None} : en' = [en EXCEPT ![g].net = n, ![g].pc = IF n = None THEN "leave" ELSE "up"]
  BY Found DEF IInv
<1> DEFINE a == IF n = None THEN "leave" ELSE "up"
<1>2. a \in {"leave", "up"} /\ a \in PC /\ Picks(g, n, a)
  BY <1>1 DEF PC, Picks
<1> HIDE DEF a
<1>3. PICK r \in Enr : /\ Moves(g, r) /\ r.pc = a /\ r.net = n
                       /\ r.proc = en[g].proc /\ r.path = en[g].path /\ r.fd = en[g].fd
  <2>1. a \in PC
    BY <1>2
  <2>2. Picks(g, n, a)
    BY <1>2
  <2> QED
    BY <2>1, <2>2, AllocMoves
<1>4. Opens
  BY <1>2, <1>3 DEF Opens, Moves
<1> QED
  BY <1>4, PlainWithin DEF Alloc, lockVars, NoFault, Fault

\* ... nor the interface, the index or the certificate ...
LEMMA IssueWithin ==
  ASSUME IInv, IInv', Within, NEW g \in Guest, MeshUp(g) \/ IssueRead(g) \/ IssueSign(g)
  PROVE  Within'
<1>1. CASE Go(g, "leave")
  <2>1. Opens
    BY <1>1, GoOpens DEF PC
  <2> QED
    BY <2>1, PlainWithin DEF MeshUp, IssueRead, IssueSign, lockVars, NoFault, Fault
<1>2. CASE en' = [en EXCEPT ![g].pc = "sign", ![g].idx = serial] /\ IssueRead(g)
  <2> DEFINE q == [en[g] EXCEPT !.pc = "sign"]
             r == [q EXCEPT !.idx = serial]
  <2>1. en[g] \in Enr /\ "sign" \in PC /\ serial \in Nat \cup {None} /\ \A h \in Guest : h # g => en'[h] = en[h]
    BY <1>2 DEF IInv, Types, Nets, PC
  <2>2. en'[g] = r
    BY <1>2 DEF IInv, Types
  <2>3. q \in Enr /\ q.pc = "sign" /\ q.fd = en[g].fd
    BY <2>1, PcField
  <2> HIDE DEF q
  <2>4. r.pc = "sign" /\ r.fd = en[g].fd
    BY <2>1, <2>3, IdxField
  <2> HIDE DEF r
  <2>5. Opens
    BY <2>1, <2>2, <2>4 DEF Opens
  <2> QED
    BY <1>2, <2>5, PlainWithin DEF IssueRead, lockVars
<1> QED
  BY <1>1, <1>2 DEF MeshUp, IssueRead, IssueSign

\* ... nor the way out.
LEMMA LeaveWithin == ASSUME IInv, IInv', Within, NEW g \in Guest, Leave(g) PROVE Within'
<1> DEFINE a == IF en[g].for = "mesh" THEN "mutex" ELSE "done"
<1>1. a \in {"mutex", "done"} /\ a \in PC
  BY DEF PC
<1>2. en' = [en EXCEPT ![g].pc = a, ![g].for = "cert", ![g].path = 1, ![g].fd = 0, ![g].net = None, ![g].idx = None]
  BY DEF Leave
<1> HIDE DEF a
<1>3. PICK r \in Enr : Moves(g, r) /\ r.pc \in {"mutex", "done"} /\ r.proc = en[g].proc /\ r.fd = 0
  BY <1>1, <1>2, LeaveMoves DEF IInv
<1>4. Opens
  BY <1>3 DEF Opens, Moves
<1> QED
  BY <1>4, PlainWithin DEF Leave, Release, NoFault, Fault

\* A tear-down counts.
LEMMA MeshDownWithin == ASSUME IInv, IInv', Within, NEW m \in Mesh, MeshDown(m) PROVE Within'
<1>1. Opens
  BY DEF MeshDown, Opens
<1>2. downs' \in 0..MaxDown /\ faults' \in 0..MaxFault
  BY EnrollAssumption DEF MeshDown, Within
<1> QED
  BY <1>1, <1>2, OpensWithin DEF MeshDown, lockVars

\* A kill opens nothing.
LEMMA KilledWithin == ASSUME IInv, IInv', Within, NEW p \in Proc, Killed(p) PROVE Within'
<1>1. ASSUME NEW g \in Guest
      PROVE  en'[g].fd = en[g].fd /\ (en'[g].pc = "flock" => en[g].pc = "flock")
  <2>1. CASE en[g].proc = p /\ ~Ended(g)
    <3> DEFINE q == [en[g] EXCEPT !.pc = "gone"]
    <3>1. en[g] \in Enr /\ "gone" \in PC
      BY DEF IInv, Types, PC
    <3>2. q.pc = "gone" /\ q.fd = en[g].fd
      BY <3>1, PcField
    <3>3. en'[g] = q
      BY <2>1 DEF Killed
    <3> QED
      BY <3>2, <3>3
  <2>2. CASE ~(en[g].proc = p /\ ~Ended(g))
    BY <2>2 DEF Killed
  <2> QED
    BY <2>1, <2>2
<1>2. Opens
  BY <1>1 DEF Opens
<1> QED
  BY <1>2, PlainWithin DEF Killed

\* Every step keeps the bounds.
LEMMA NextWithin == ASSUME ~Race, IInv, Within, [Next]_enrollVars PROVE Within'
<1>0. IInv'
  BY NextHolds
<1>1. CASE UNCHANGED enrollVars
  BY <1>1 DEF enrollVars, lockVars, boundVars, Within
<1>2. ASSUME NEW g \in Guest, Step(g) PROVE Within'
  BY <1>0, <1>2, SshWithin, LockMutexWithin, OpenLockWithin, InstallLockWithin, FlockWithin, AllocWithin,
     IssueWithin, LeaveWithin DEF Step
<1> QED
  BY <1>0, <1>1, <1>2, EnrolWithin, MeshDownWithin, KilledWithin DEF Next

\* Nothing is open in the beginning.
LEMMA InitWithin == Init => Within
  BY EnrollAssumption DEF Init, Within, NoEnrol

\* Nothing leaves its range: no lock is on a file that was never made, every subnet
\* is one of those there are.
THEOREM EnrolmentIsTyped == ~Race => (Spec => []TypeOK)
<1> SUFFICES ASSUME ~Race PROVE Spec => []TypeOK
  OBVIOUS
<1>1. IInv /\ Within /\ [Next]_enrollVars => (IInv /\ Within)'
  BY NextHolds, NextWithin
<1> QED
  BY InitHolds, InitWithin, TypesAreWithin, <1>1, PTL DEF Spec
=============================================================================
