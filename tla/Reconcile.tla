------------------------------ MODULE Reconcile ------------------------------
(***************************************************************************)
(* vmx --reconcile (reconcile_cmd.go): one read of the estate, what is     *)
(* unreconciled in it forgotten or destroyed row by row, and a second read *)
(* that decides the exit code.  The host goes on meanwhile.                *)
(***************************************************************************)
EXTENDS Estate

CONSTANTS
  MaxFault, \* bound: commands that fail, or succeed and do nothing
  None

ReconcileAssumption == MaxFault \in Nat /\ "rec" \in Reader

VARIABLES
  pc,       \* runReconcile: "estate", "pool", "register", "clear", "done"
  pass,     \* 1, the read to act on, or 2, the read to answer by
  orphansToo, \* --orphans was given
  pool,     \* the zvols ListDatasets returned
  todo,     \* rows to be cleared
  failed,   \* a command failed
  code,     \* the exit code, None before
  named,    \* history: the disks named by the definitions the first read had
  gone,     \* history: the zvols destroyed, the names forgotten, and those of a machine that is there
  left,     \* history: the names registered at the second read that were of no domain
  blind,    \* history: the register or the pool could not be read, which no one is told
  faults

vars == <<estateVars, pc, pass, orphansToo, pool, todo, failed, code, named, gone, left, blind, faults>>
local == <<orphansToo, named, gone, left>>

Me == "rec"
r0 == rd[Me]

Init ==
  /\ EstateInit
  /\ pc = "estate" /\ pass = 1 /\ orphansToo \in BOOLEAN
  /\ pool = {} /\ todo = {} /\ failed = FALSE /\ code = None
  /\ named = {} /\ gone = [vols |-> {}, names |-> {}, missed |-> {}] /\ left = {} /\ blind = FALSE
  /\ faults = 0

Exit(c) == pc' = "done" /\ code' = c

-----------------------------------------------------------------------------
(* reconcileEstate.                                                        *)

Reading ==
  /\ pc = "estate"
  /\ Begin(Me) \/ List(Me) \/ Stats(Me) \/ \E n \in Name : Definition(Me, n)
  /\ UNCHANGED <<pc, pass, pool, todo, failed, code, blind, faults>> /\ UNCHANGED local

\* No estate, no answer: exit 1, the second time as well.
NoEstate ==
  /\ pc = "estate" /\ r0.pc = "failed"
  /\ Exit(1)
  /\ UNCHANGED <<estateVars, pass, pool, todo, failed, blind, faults>> /\ UNCHANGED local

\* An error of zfs list is dropped: no datasets then.
ListDatasets ==
  /\ pc = "estate" /\ Read(Me)
  /\ pc' = "register"
  /\ \/ pool' = vols /\ UNCHANGED <<faults, blind>>
     \/ faults < MaxFault /\ faults' = faults + 1 /\ pool' = {} /\ blind' = TRUE
  /\ UNCHANGED <<estateVars, pass, todo, failed, code>> /\ UNCHANGED local

Unreconciled(regs) == Ghosts(r0.doms, regs) \cup Orphans(r0.disks, pool)

\* Mutant: what the commands returned is the answer.
AnswerByCommands(rows) == IF failed THEN 1 ELSE 0

Answer(rows) ==
  IF failed \/ \E w \in rows : w[2] = "ghost" THEN 1 ELSE IF rows # {} THEN 2 ELSE 0

\* LoadAnnotations, which no register that cannot be read stops; the split, or
\* the answer.
LoadAnnotations ==
  /\ pc = "register"
  /\ \E regs \in {reg, {}} :
       /\ IF regs = reg THEN UNCHANGED <<faults, blind>>
                        ELSE faults < MaxFault /\ faults' = faults + 1 /\ blind' = TRUE
       /\ IF pass = 1
          THEN /\ todo' = Unreconciled(regs) /\ named' = r0.disks
               /\ IF todo' = {} THEN Exit(0) ELSE pc' = "clear" /\ UNCHANGED code
               /\ UNCHANGED left
          ELSE /\ left' = reg \ r0.doms
               /\ Exit(Answer(Unreconciled(regs)))
               /\ UNCHANGED <<todo, named>>
  /\ UNCHANGED <<estateVars, pass, pool, failed, orphansToo, gone>>

-----------------------------------------------------------------------------
(* The rows, ghosts first.                                                 *)

Forgets(n) ==
  /\ reg' = reg \ {n}
  /\ gone' = [gone EXCEPT !.names = @ \cup {n}]

\* kldload-db vm-delete: done; failed, which is counted; or an UPDATE that
\* matched nothing and succeeds.
Forget(w) ==
  /\ pc = "clear" /\ w \in todo /\ w[2] = "ghost"
  /\ todo' = todo \ {w}
  /\ \/ Forgets(w[1]) /\ UNCHANGED <<failed, faults>>
     \/ /\ faults < MaxFault /\ faults' = faults + 1
        /\ failed' \in {failed, TRUE}
        /\ UNCHANGED <<reg, gone>>
  /\ UNCHANGED <<mach, vols, libvirtd, alive, rd, changes, restarts, pc, pass, orphansToo, pool, code, named, left, blind>>

\* planReconcile and runPlan: zfs destroy, which a machine that runs refuses
\* to the end, and the name forgotten after it.
DestroyOrphan(w) ==
  /\ pc = "clear" /\ w \in todo /\ w[2] = "orphan" /\ \A g \in todo : g[2] = "orphan"
  /\ todo' = todo \ {w}
  /\ LET v == w[1]
         n == v[1]
     IN IF ~orphansToo THEN UNCHANGED <<vols, reg, gone, failed>>
        ELSE IF v \notin vols \/ n \in Running THEN failed' = TRUE /\ UNCHANGED <<vols, reg, gone>>
        ELSE /\ vols' = vols \ {v}
             /\ reg' = IF v[2] = "root" THEN reg \ {n} ELSE reg
             /\ gone' = [vols |-> gone.vols \cup {v},
                         names |-> IF v[2] = "root" THEN gone.names \cup {n} ELSE gone.names,
                         missed |-> IF mach[n] = "none" THEN gone.missed ELSE gone.missed \cup {v}]
             /\ UNCHANGED failed
  /\ UNCHANGED <<mach, libvirtd, alive, rd, changes, restarts, pc, pass, orphansToo, pool, code, named, left, blind, faults>>

Again ==
  /\ pc = "clear" /\ todo = {}
  /\ pc' = "estate" /\ pass' = 2
  /\ rd' = [rd EXCEPT ![Me] = NoRead]
  /\ UNCHANGED <<host, libvirtd, alive, changes, restarts, pool, todo, failed, code, blind, faults>> /\ UNCHANGED local

Others == World /\ UNCHANGED <<pc, pass, pool, todo, failed, code, blind, faults>> /\ UNCHANGED local

Next ==
  \/ Reading \/ NoEstate \/ ListDatasets \/ LoadAnnotations
  \/ \E w \in todo : Forget(w) \/ DestroyOrphan(w)
  \/ Again \/ Others

Spec == Init /\ [][Next]_vars

-----------------------------------------------------------------------------

TypeOK ==
  /\ mach \in [Name -> {"none", "shut off", "running"}] /\ vols \subseteq Name \X Kind /\ reg \subseteq Name
  /\ rd[Me].doms \subseteq VM /\ rd[Me].on \subseteq rd[Me].doms /\ rd[Me].todo \subseteq rd[Me].doms
  /\ pool \subseteq Name \X Kind /\ code \in {None, 0, 1, 2} /\ (code # None <=> pc = "done")

\* A machine whose definition the read had loses no disk to --reconcile, not the
\* second one either, and stays registered (BuildEstate: onyx, 2026-09-04).
ClearsNoKnownMachine ==
  /\ gone.vols \cap named = {}
  /\ \A n \in gone.names : Disks(n) \cap named = {}

\* Exit 0 means that nothing was left: no name stayed registered without a domain,
\* whatever the commands had answered, if the second read could see it
\* (runReconcile: "Outcome, not exit code").
ExitZeroMeansClear == code = 0 => left = {} \/ blind

\* What --orphans destroys is no machine's: "a volume that no domain references"
\* (model.go), "a register row for a VM libvirt does not have, nothing on disk".
OrphansOnly == gone.missed = {}
=============================================================================
