-------------------------------- MODULE Verbs --------------------------------
(***************************************************************************)
(* The mutation verbs (verbs.go, golden.go): a verb builds a plan from the *)
(* row the operator sees, which may be behind the host, and runPlan runs   *)
(* its commands one by one, in a goroutine of its own, beside other plans, *)
(* the guests, sanoid and other tools.                                     *)
(***************************************************************************)
EXTENDS Host, SequencesExt

CONSTANTS
  Proc,      \* plans that may run at once
  Offered,   \* the verbs the operator uses
  MaxFire,   \* bound: plans fired
  MaxFault,  \* bound: commands that fail without an effect
  MaxOther,  \* bound: what guests, sanoid and other tools do
  Retries,   \* busyDestroyRetries
  Remote     \* the target is another host: zfs is run there, over ssh

ASSUME VerbsAssumption ==
  /\ Offered \subseteq {"start", "forceoff", "delete", "clone", "goldenclone", "golden", "rollback"}
  /\ MaxFire \in Nat /\ MaxFault \in Nat /\ MaxOther \in Nat /\ Retries \in Nat
  /\ Remote \in BOOLEAN

VARIABLES
  rows,   \* the estate as last read
  plan,   \* plan[p]
  reg,    \* the inventory's rows
  fired, faults, others

vars == <<host, rows, plan, reg, fired, faults, others>>

NoCmd == [op |-> "none"]
Idle  == [kind |-> "none", vm |-> "none", new |-> "none", steps |-> <<>>, k |-> 0, tries |-> 0,
          id |-> 0, phase |-> "idle", outcome |-> "none", at |-> 0, broken |-> {}]

\* A row of the estate: a domain, or what is left of a VM without one, a zvol
\* or a line of the inventory.
RowOf(n) == [listed |-> n \in reg, state |-> dom[n].state, pers |-> dom[n].pers, disks |-> dom[n].disks,
             ds |-> V(n, "root") \in vols, snaps |-> SnapsOf(V(n, "root"))]

Synthetic(r) == r.state = "none"

\* VMs that run, and zvols of theirs; some name is free or taken by others.
Init ==
  /\ \E up \in SUBSET Name : \E owned \in SUBSET Name : \E spare \in SUBSET (Vol \ [vm : owned, kind : Kind]) :
       /\ owned # {} /\ up \subseteq owned /\ Cardinality(spare) <= 1
       /\ dom = [n \in Name |-> IF n \in owned THEN [state |-> IF n \in up THEN "running" ELSE "off",
                                                     pers |-> TRUE, disks |-> Kind] ELSE NoDom]
       /\ vols = [vm : owned, kind : Kind] \cup spare
       /\ reg = owned
  /\ snaps = {} /\ origin = [v \in Vol |-> NoSnap] /\ maker = [v \in Vol |-> 0] /\ hold = [v \in Vol |-> 0]
  /\ rows = [n \in Name |-> RowOf(n)]
  /\ plan = [p \in Proc |-> Idle]
  /\ fired = 0 /\ faults = 0 /\ others = 0

-----------------------------------------------------------------------------
(* Commands and the plans made of them.                                    *)

Cmd(op, n)       == [op |-> op, vm |-> n]
ZCmd(op, v)      == [op |-> op, vol |-> v]
SCmd(op, v, t)   == [op |-> op, vol |-> v, tag |-> t]
CCmd(v, t, new)  == [op |-> "zclone", vol |-> v, tag |-> t, new |-> new]
DCmd(n, new, fs) == [op |-> "virtclone", vm |-> n, new |-> new, files |-> fs]

\* A step and the command that reverses it.
Step(c, u)  == [do |-> c, undo |-> u]
Steps(cs)   == [i \in DOMAIN cs |-> Step(cs[i], NoCmd)]
When(b, cs) == IF b THEN cs ELSE <<>>

\* The disks, the system disk first, and what p says for each of them.
DiskList(r)       == <<"root">> \o SetToSeq(r.disks \ {"root"})
ForDisks(r, p(_)) == FlattenSeq([i \in DOMAIN DiskList(r) |-> p(DiskList(r)[i])])

\* planDelete: off, undefined, the system disk, the disk called -data.
DeleteSteps(n, r) ==
  Steps(When(r.state # "off", <<Cmd("destroy", n)>>)
        \o When(r.pers, <<Cmd("undefine", n)>>)
        \o When(r.ds, <<ZCmd("zdestroy", V(n, "root"))>>)
        \o When(r.ds /\ "data" \in Kind /\ V(n, "data") \in vols, <<ZCmd("zdestroy", V(n, "data"))>>))

\* planReconcile: a row without a domain.
ReconcileSteps(n, r) == Steps(When(r.ds, <<ZCmd("zdestroy", V(n, "root"))>>))

\* planCloneFrom: a clone of every disk, of @golden where that is asked for and
\* there, else of a snapshot taken now; then the domain.
CloneSteps(n, r, new, sealed) ==
  ForDisks(r, LAMBDA k :
      IF sealed /\ HasSnap(V(n, k), "golden")
      THEN <<Step(CCmd(V(n, k), "golden", V(new, k)), ZCmd("zdestroy", V(new, k)))>>
      ELSE <<Step(SCmd("snapshot", V(n, k), new), SCmd("dsnap", V(n, k), new)),
             Step(CCmd(V(n, k), new, V(new, k)), ZCmd("zdestroy", V(new, k)))>>)
  \o <<Step(DCmd(n, new, {V(new, k) : k \in r.disks}), NoCmd)>>

\* MakeGolden: off, then @golden of every disk, replacing the one there is.
GoldenSteps(n, r) ==
  Steps(<<Cmd("shutdown", n)>>
        \o ForDisks(r, LAMBDA k : <<SCmd("reseal", V(n, k), "golden"), SCmd("snapshot", V(n, k), "golden")>>))

Fire(p, kind, n, new, steps) ==
  /\ plan[p].phase = "idle" /\ fired < MaxFire
  /\ fired' = fired + 1
  /\ plan' = [plan EXCEPT ![p] = [Idle EXCEPT !.kind = kind, !.vm = n, !.new = new, !.steps = steps,
                                              !.k = 1, !.id = fired + 1, !.phase = "run"]]
  /\ UNCHANGED <<host, rows, reg, faults, others>>

FireStart(p, n) ==
  /\ "start" \in Offered
  /\ ~Synthetic(rows[n]) /\ rows[n].state # "running"
  /\ Fire(p, "start", n, n, Steps(<<Cmd("start", n)>>))

FireForceOff(p, n) ==
  /\ "forceoff" \in Offered
  /\ ~Synthetic(rows[n]) /\ rows[n].state # "off" /\ rows[n].pers
  /\ Fire(p, "forceoff", n, n, Steps(<<Cmd("destroy", n)>>))

FireDelete(p, n) ==
  IF Synthetic(rows[n])
  THEN /\ rows[n].ds \/ rows[n].listed   \* there is such a row
       /\ "delete" \in Offered
       /\ Fire(p, "reconcile", n, n, ReconcileSteps(n, rows[n]))
  ELSE /\ "delete" \in Offered
       /\ Fire(p, "delete", n, n, DeleteSteps(n, rows[n]))

FireClone(p, n, new, sealed) ==
  /\ (IF sealed THEN "goldenclone" ELSE "clone") \in Offered
  /\ ~Synthetic(rows[n]) /\ rows[n].ds /\ new # n
  /\ \A k \in rows[n].disks : V(n, k) \in vols
  /\ sealed => HasSnap(V(n, "root"), "golden")
  /\ Fire(p, IF sealed THEN "goldenclone" ELSE "clone", n, new, CloneSteps(n, rows[n], new, sealed))

FireGolden(p, n) ==
  /\ "golden" \in Offered
  /\ ~Synthetic(rows[n]) /\ rows[n].ds
  /\ Fire(p, "golden", n, n, GoldenSteps(n, rows[n]))

\* planRollback, to a snapshot of the row's list.
FireRollback(p, n, s) ==
  /\ "rollback" \in Offered
  /\ rows[n].ds
  /\ Synthetic(rows[n]) \/ rows[n].state = "off"
  /\ s \in rows[n].snaps
  /\ Fire(p, "rollback", n, n, Steps(<<SCmd("rollback", V(n, "root"), s.tag)>>))

-----------------------------------------------------------------------------
(* runPlan.                                                                *)

\* A command that does nothing and fails: sudo without a credential, ssh, a
\* full disk.
Fails(reply) ==
  /\ faults < MaxFault /\ faults' = faults + 1
  /\ reply = "failed" /\ Unchanged

\* MakeGolden waits for a shutdown it asked for, two minutes; a domain that
\* does not run is not waited for.
Shutdown(n, asked, reply) ==
  /\ \/ ~asked /\ dom[n].state = "running"  /\ reply = "asked"
     \/ ~asked /\ dom[n].state # "running" /\ reply = "ok"
     \/ asked  /\ dom[n].state = "off"       /\ reply = "ok"
     \/ asked  /\ dom[n].state # "off"       /\ reply = "refused"
  /\ Unchanged

Exec(c, p, reply) ==
  \/ /\ \/ c.op = "start"     /\ Start(c.vm, reply)
        \/ c.op = "destroy"   /\ Destroy(c.vm, reply)
        \/ c.op = "undefine"  /\ Undefine(c.vm, reply)
        \/ c.op = "virtclone" /\ VirtClone(c.vm, c.new, c.files, reply)
        \/ c.op = "shutdown"  /\ Shutdown(c.vm, p.tries > 0, reply)
        \/ c.op = "zdestroy"  /\ DestroyVol(c.vol, reply)
        \/ c.op = "zclone"    /\ CloneVol(c.vol, c.tag, c.new, p.id, reply)
        \/ c.op = "snapshot"  /\ Snapshot(c.vol, c.tag, p.id, reply)
        \/ c.op = "dsnap"     /\ DestroySnap(c.vol, c.tag, reply)
        \/ c.op = "rollback"  /\ RollbackVol(c.vol, c.tag, reply)
        \/ /\ c.op = "reseal"
           /\ IF HasSnap(c.vol, c.tag) THEN DestroySnap(c.vol, c.tag, reply)
                                       ELSE reply = "ok" /\ Unchanged
     /\ UNCHANGED faults
  \/ Fails(reply)

Replies == {"ok", "refused", "busy", "not running", "no domain", "asked", "failed"}

\* alreadyInDesiredState, and domainGone in a delete.
Forgiven(p, reply) ==
  \/ reply = "not running"
  \/ reply = "no domain" /\ p.kind = "delete"

\* Mutants: one retry too few; no bound.
RetryOneLess(p, reply) == (reply = "busy" /\ ~Remote /\ p.tries + 1 < Retries) \/ reply = "asked"
RetryForever(p, reply) == (reply = "busy" /\ ~Remote) \/ reply = "asked"

\* busyDestroy, or a shutdown that is waited for.  Over ssh the zfs command is
\* one quoted word, in which busyDestroy does not find it.
Retry(p, reply) ==
  \/ reply = "busy" /\ ~Remote /\ p.tries < Retries
  \/ reply = "asked"

\* Mutant: the unwinding begins with the command that failed.
UnwindFrom1(p) == p.k + 1

\* unwind(p, i): the commands before the one that failed.
UnwindFrom(p) == p.k

RunCmd(i) ==
  LET p == plan[i]
  IN /\ p.phase = "run" /\ p.k <= Len(p.steps)
     /\ \E reply \in Replies :
          /\ Exec(p.steps[p.k].do, p, reply)
          /\ plan' = [plan EXCEPT ![i] =
               IF reply = "ok" \/ Forgiven(p, reply) THEN [p EXCEPT !.k = @ + 1, !.tries = 0]
               ELSE IF Retry(p, reply) THEN [p EXCEPT !.tries = IF @ < Retries THEN @ + 1 ELSE @]
               ELSE [p EXCEPT !.phase = "unwind", !.at = p.k, !.k = UnwindFrom(p), !.tries = 0]]
     /\ UNCHANGED <<rows, reg, fired, others>>

\* Mutant: an undo step that fails ends the unwinding.
AfterUndoStops(p, c, reply) ==
  IF reply = "ok" THEN [p EXCEPT !.k = @ - 1] ELSE [p EXCEPT !.k = 1, !.broken = @ \cup {c}]

\* An undo step that fails is reported, and the next one is tried.
AfterUndo(p, c, reply) ==
  [p EXCEPT !.k = @ - 1, !.broken = IF reply = "ok" THEN @ ELSE @ \cup {c}]

\* The newest first.
Unwind(i) ==
  LET p == plan[i]
      c == p.steps[p.k - 1].undo
  IN /\ p.phase = "unwind" /\ p.k > 1
     /\ IF c = NoCmd
        THEN /\ plan' = [plan EXCEPT ![i].k = @ - 1]
             /\ Unchanged /\ UNCHANGED faults
        ELSE \E reply \in Replies :
               /\ Exec(c, p, reply)
               /\ plan' = [plan EXCEPT ![i] = AfterUndo(p, c, reply)]
     /\ UNCHANGED <<rows, reg, fired, others>>

Failed(i) ==
  /\ plan[i].phase = "unwind" /\ plan[i].k <= 1
  /\ plan' = [plan EXCEPT ![i] = [Idle EXCEPT !.outcome = "failed"]]
  /\ UNCHANGED <<host, rows, reg, fired, faults, others>>

\* dbRegisterClone, dbUnregisterVM.
Post(p) ==
  IF p.kind \in {"clone", "goldenclone"} THEN reg \cup {p.new}
  ELSE IF p.kind \in {"delete", "reconcile"} THEN reg \ {p.vm} ELSE reg

\* The bookkeeping cannot fail the plan.
Succeeded(i) ==
  /\ plan[i].phase = "run" /\ plan[i].k > Len(plan[i].steps)
  /\ \/ reg' = Post(plan[i]) /\ UNCHANGED faults
     \/ faults < MaxFault /\ faults' = faults + 1 /\ UNCHANGED reg
  /\ plan' = [plan EXCEPT ![i] = [Idle EXCEPT !.outcome = "ok"]]
  /\ UNCHANGED <<host, rows, fired, others>>

-----------------------------------------------------------------------------
(* The rest of the world, and the refresh.                                 *)

RefreshTo(r) ==
  /\ rows' = r /\ rows' # rows
  /\ UNCHANGED <<host, plan, reg, fired, faults, others>>

\* Libvirt is read every two seconds and when a plan ends ...
RefreshEstate ==
  RefreshTo([n \in Name |-> [rows[n] EXCEPT !.state = dom[n].state, !.pers = dom[n].pers, !.disks = dom[n].disks]])

\* ... the pool and the inventory every thirty, beside it.
RefreshZFS ==
  RefreshTo([n \in Name |-> [rows[n] EXCEPT !.ds = RowOf(n).ds, !.snaps = RowOf(n).snaps, !.listed = n \in reg]])

Other == others < MaxOther /\ others' = others + 1 /\ UNCHANGED <<rows, plan, reg, fired, faults>>

GuestOff(n) == Other /\ dom[n].state = "running" /\ PowerOff(n)

OtherStart(n) == Other /\ dom[n].state = "off" /\ Start(n, "ok")

Suspend(n) ==
  /\ Other /\ dom[n].state = "running"
  /\ dom' = [dom EXCEPT ![n].state = "paused"]
  /\ UNCHANGED <<vols, snaps, origin, maker, hold>>

AutoSnap(v) == Other /\ v \in vols /\ Snapshot(v, "auto", 0, "ok")

-----------------------------------------------------------------------------
FireAny(p, n) ==
  \/ FireStart(p, n) \/ FireForceOff(p, n) \/ FireDelete(p, n) \/ FireGolden(p, n)
  \/ \E new \in Name : FireClone(p, n, new, FALSE) \/ FireClone(p, n, new, TRUE)
  \/ \E s \in rows[n].snaps : FireRollback(p, n, s)

PlanStep(p) == RunCmd(p) \/ Unwind(p) \/ Failed(p) \/ Succeeded(p)

Next ==
  \/ \E p \in Proc, n \in Name : FireAny(p, n)
  \/ \E p \in Proc : PlanStep(p)
  \/ RefreshEstate \/ RefreshZFS
  \/ \E n \in Name : GuestOff(n) \/ OtherStart(n) \/ Suspend(n)
  \/ \E v \in Vol : AutoSnap(v)

\* A plan's goroutine runs, and every command it starts returns.
Spec == Init /\ [][Next]_vars /\ \A p \in Proc : WF_vars(PlanStep(p))

-----------------------------------------------------------------------------
(* Properties.                                                             *)

\* Every variable has its type.
TypeOK ==
  /\ dom \in [Name -> [state : {"none", "off", "running", "paused"}, pers : BOOLEAN, disks : SUBSET Kind]]
  /\ vols \subseteq Vol
  /\ snaps \subseteq [vol : vols, tag : Tag, at : 1..MaxAt, by : 0..MaxFire]
  /\ origin \in [Vol -> snaps \cup {NoSnap}]
  /\ maker \in [Vol -> 0..MaxFire] /\ \A v \in Vol : maker[v] = 0 <=> origin[v] = NoSnap
  /\ hold \in [Vol -> 0..MaxHold]
  /\ \A p \in Proc :
       /\ plan[p].phase \in {"idle", "run", "unwind"} /\ plan[p].tries \in 0..Retries
       /\ plan[p].k \in 0..(IF plan[p].phase = "unwind" THEN plan[p].at ELSE Len(plan[p].steps) + 1)
  /\ reg \subseteq Name /\ fired \in 0..MaxFire /\ faults \in 0..MaxFault /\ others \in 0..MaxOther

IsClone(p)   == p.kind \in {"clone", "goldenclone"}
\* A clone, its unwinding included, destroys only what it made: a name that is
\* taken costs the machine that has it nothing.
CloneTouchesOwn ==
  [][\A p \in Proc : IsClone(plan[p]) /\ plan'[p] # plan[p] =>
       /\ \A v \in vols \ vols' : maker[v] = plan[p].id
       /\ \A s \in snaps \ snaps' : s.vol \in vols' => s.by = plan[p].id]_vars

\* What an undo would remove is still there, and this plan's.
Remains(u, id) == \/ u.op = "zdestroy" /\ u.vol \in vols /\ maker[u.vol] = id
                  \/ u.op = "dsnap" /\ \E s \in snaps : s.vol = u.vol /\ s.tag = u.tag /\ s.by = id

\* A clone that failed put everything back but what it reports: what is left
\* of it once unwound is in the list of what to clean up by hand.
NoSilentLitter ==
  \A p \in Proc : IsClone(plan[p]) /\ plan[p].phase = "unwind" /\ plan[p].k <= 1 =>
    \A i \in 1..(plan[p].at - 1) :
      LET u == plan[p].steps[i].undo
      IN Remains(u, plan[p].id) => u \in plan[p].broken

Succeeds(p) == plan[p].phase = "run" /\ plan[p].k > Len(plan[p].steps)

\* A clone that succeeded is a domain with every disk of its source, each of
\* them there and a clone of the source's.
CloneOkMeansWhole ==
  \A p \in Proc : IsClone(plan[p]) /\ Succeeds(p) =>
    /\ Defined(plan[p].new) /\ dom[plan[p].new].disks = Kind
    /\ \A v \in DisksOf(plan[p].new) : v \in vols /\ origin[v].vol = V(plan[p].vm, v.kind)

DestroysDisks(p) == \E i \in DOMAIN p.steps : p.steps[i].do.op = "zdestroy"

\* A delete that succeeded left neither the domain nor a disk of it, if the row
\* it was built from had the system disk.
DeleteOkMeansGone ==
  \A p \in Proc : plan[p].kind = "delete" /\ Succeeds(p) /\ DestroysDisks(plan[p]) =>
    ~Defined(plan[p].vm) /\ \A v \in vols : v.vm # plan[p].vm

\* On a target that is this host, a delete that stops does not stop with the
\* domain gone and its disk there, unless another VM is a clone of it: qemu lets
\* go of the disk while the plan still tries.  Over ssh it does not try.
NeverHalfDeleted ==
  ~Remote => \A p \in Proc : plan[p].kind = "delete" /\ plan[p].phase = "unwind" =>
    LET root == V(plan[p].vm, "root")
    IN Defined(plan[p].vm) \/ root \notin vols \/ Dependents(SnapsOf(root)) # {}

\* A golden that succeeded is one: every disk of the domain was sealed by it, so
\* that a clone of it never pairs a new system with old data.
GoldenOkMeansWhole ==
  \A p \in Proc : plan[p].kind = "golden" /\ Succeeds(p) =>
    \A v \in DisksOf(plan[p].vm) : HasSnap(v, "golden") /\ TheSnap(v, "golden").by = plan[p].id

\* No ghosts: one plan at a time and no command failing by itself, a VM the
\* inventory lists is there, or a disk of it is.
NoGhosts ==
  (faults = 0 /\ \A p \in Proc : plan[p].phase = "idle") =>
    \A n \in reg : Defined(n) \/ \E v \in vols : v.vm = n

\* Every plan ends, done or unwound, however the host replies.
PlanEnds == \A p \in Proc : plan[p].phase # "idle" ~> plan[p].phase = "idle"

=============================================================================
