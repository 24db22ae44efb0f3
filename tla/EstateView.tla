------------------------------ MODULE EstateView ------------------------------
(***************************************************************************)
(* The estate as the window shows it (gui.go's refresh, firecracker.go's   *)
(* cache): a goroutine that reads libvirt every two seconds and ZFS every  *)
(* thirty, one more read after each verb, a goroutine that keeps the cache *)
(* of microVMs, and the window's own, which joins what they bring.         *)
(***************************************************************************)
EXTENDS Estate, Sequences

CONSTANT
  MaxQueue  \* bound: what waits for the window when a ticker is served

EstateViewAssumption == MaxQueue \in Nat /\ {"tick", "now"} \subseteq Reader

VARIABLES
  st,       \* st.dss and st.ann
  zfs,      \* fetchZFS: at the start by a goroutine of its own, then by the loop
  queue,    \* fyne.Do: what the window is to apply, in order
  shown,    \* the rows on the screen
  status,   \* the status line: "" before the first read, "error" or "estate"
  fc,       \* fcCached and whether fcAt is young
  kfire     \* the kfire read under way

viewVars == <<st, zfs, queue, shown, status, fc, kfire>>
vars == <<estateVars, viewVars>>

NoPool == [vols |-> {}, reg |-> {}]
NoFC   == [micros |-> {}, on |-> {}]

Init ==
  /\ EstateInit
  /\ st = NoPool /\ zfs = [pc |-> "ann", got |-> NoPool]
  /\ queue = <<>> /\ shown = {} /\ status = ""
  /\ fc = [got |-> NoFC, young |-> FALSE] /\ kfire = [pc |-> "idle", got |-> NoFC]

-----------------------------------------------------------------------------
(* fetchEstate, by the loop and by refreshNow.                             *)

LoopFree == Len(queue) < MaxQueue

\* The fast ticker.
Tick == LoopFree /\ Begin("tick") /\ UNCHANGED viewVars

Reading(r) ==
  /\ List(r) \/ Stats(r) \/ \E n \in Name : Definition(r, n)
  /\ UNCHANGED viewVars

Do(m) == queue' = Append(queue, m)

\* The rows go to the window, with the microVMs as last cached.
Fetched(r) ==
  /\ Read(r)
  /\ Do([kind |-> "estate", doms |-> rd[r].doms, on |-> rd[r].on, disks |-> rd[r].disks, fc |-> fc.got])
  /\ Step(r, NoRead) /\ UNCHANGED alive
  /\ UNCHANGED <<st, zfs, shown, status, fc, kfire>>

\* Or the error does: what is shown stays.
FetchFailed(r) ==
  /\ rd[r].pc = "failed"
  /\ Do([kind |-> "error"])
  /\ Step(r, NoRead) /\ UNCHANGED alive
  /\ UNCHANGED <<st, zfs, shown, status, fc, kfire>>

-----------------------------------------------------------------------------
(* fetchZFS.                                                               *)

\* The slow ticker.
SlowTick ==
  /\ LoopFree
  /\ zfs.pc = "idle" /\ zfs' = [pc |-> "ann", got |-> NoPool]
  /\ UNCHANGED estateVars /\ UNCHANGED <<st, queue, shown, status, fc, kfire>>

\* The register first, then the pool.
FetchAnn ==
  /\ zfs.pc = "ann"
  /\ zfs' = [pc |-> "list", got |-> [vols |-> {}, reg |-> reg]]
  /\ UNCHANGED estateVars /\ UNCHANGED <<st, queue, shown, status, fc, kfire>>

FetchPool ==
  /\ zfs.pc = "list"
  /\ Do([kind |-> "zfs", got |-> [zfs.got EXCEPT !.vols = vols]])
  /\ zfs' = [pc |-> "idle", got |-> NoPool]
  /\ UNCHANGED estateVars /\ UNCHANGED <<st, shown, status, fc, kfire>>

-----------------------------------------------------------------------------
(* The cache of microVMs.                                                  *)

\* fcRefresh, of a cache that is not young any more: no lock is held while
\* kfire runs.
Kfire ==
  /\ kfire.pc = "idle" /\ ~fc.young
  /\ kfire' = [pc |-> "read", got |-> [micros |-> Micros, on |-> Micros \cap Running]]
  /\ UNCHANGED estateVars /\ UNCHANGED <<st, zfs, queue, shown, status, fc>>

KfireStored ==
  /\ kfire.pc = "read"
  /\ fc' = [got |-> kfire.got, young |-> TRUE]
  /\ kfire' = [pc |-> "idle", got |-> NoFC]
  /\ UNCHANGED estateVars /\ UNCHANGED <<st, zfs, queue, shown, status>>

\* Ten seconds.
Ages ==
  /\ fc.young /\ fc' = [fc EXCEPT !.young = FALSE]
  /\ UNCHANGED estateVars /\ UNCHANGED <<st, zfs, queue, shown, status, kfire>>

-----------------------------------------------------------------------------
(* The window.                                                             *)

\* Mutant: the join is made of what came first.
ApplyOnce(m) ==
  /\ shown' = IF shown # {} THEN shown
              ELSE WithoutFCGhosts(BuildEstate(m.doms, m.on, m.disks, st.vols, st.reg), m.fc.micros)
                   \cup MicroRows(m.fc.micros, m.fc.on)
  /\ status' = "estate" /\ UNCHANGED st

\* apply: domains and microVMs of this read, zvols and register of the last one.
Apply(m) ==
  /\ shown' = WithoutFCGhosts(BuildEstate(m.doms, m.on, m.disks, st.vols, st.reg), m.fc.micros)
              \cup MicroRows(m.fc.micros, m.fc.on)
  /\ status' = "estate" /\ UNCHANGED st

Window ==
  /\ queue # <<>> /\ queue' = Tail(queue)
  /\ LET m == Head(queue)
     IN \/ m.kind = "estate" /\ Apply(m)
        \/ m.kind = "error" /\ status' = "error" /\ UNCHANGED <<st, shown>>
        \/ m.kind = "zfs" /\ st' = m.got /\ UNCHANGED <<shown, status>>
  /\ UNCHANGED estateVars /\ UNCHANGED <<zfs, fc, kfire>>

\* Delete, of a row that has a dataset behind it or not, then refreshNow: of
\* libvirt alone, and of the microVMs when kfire was run.
Delete(w) ==
  /\ w \in shown /\ w[2] \in {"domain", "microvm"} /\ mach[w[1]] # "none"
  /\ changes < MaxChange /\ changes' = changes + 1
  /\ rd["now"].pc = "idle" /\ rd' = [rd EXCEPT !["now"] = [NoRead EXCEPT !.pc = "list"]]
  /\ mach' = [mach EXCEPT ![w[1]] = "none"] /\ reg' = reg \ {w[1]}
  /\ vols' = IF w[4] THEN vols \ Disks(w[1]) ELSE vols
  /\ fc' = IF w[2] = "microvm" THEN [fc EXCEPT !.young = FALSE] ELSE fc
  /\ UNCHANGED <<libvirtd, alive, restarts, st, zfs, queue, shown, status, kfire>>

Next ==
  \/ World /\ UNCHANGED viewVars
  \/ Tick \/ SlowTick
  \/ \E r \in Reader : Reading(r) \/ Fetched(r) \/ FetchFailed(r)
  \/ FetchAnn \/ FetchPool
  \/ Kfire \/ KfireStored \/ Ages
  \/ Window \/ \E w \in shown : Delete(w)

\* Both tickers are served in the end: select picks at random among those that
\* fired.  libvirt comes back; the host and the operator owe nothing.
Fairness ==
  /\ SF_vars(Tick) /\ SF_vars(SlowTick)
  /\ \A r \in Reader : WF_vars(Reading(r)) /\ WF_vars(Fetched(r)) /\ WF_vars(FetchFailed(r))
  /\ WF_vars(FetchAnn) /\ WF_vars(FetchPool)
  /\ WF_vars(Kfire) /\ WF_vars(KfireStored) /\ WF_vars(Ages)
  /\ WF_vars(Window)
  /\ WF_vars(Up /\ UNCHANGED viewVars)

Spec == Init /\ [][Next]_vars /\ Fairness

-----------------------------------------------------------------------------

Truth ==
  WithoutFCGhosts(BuildEstate(Defined, Defined \cap Running, UNION {Disks(n) : n \in Defined}, vols, reg), Micros)
  \cup MicroRows(Micros, Micros \cap Running)

\* However libvirt restarted, caches lagged and reads overtook one another, the
\* rows come to be those of the host and stay so once it is left alone (libvirt.go,
\* 2026-08-12: "every domain displayed as running indefinitely").
ShowsTheTruth == <>[](shown = Truth /\ status = "estate")

TypeOK ==
  /\ status \in {"", "error", "estate"} /\ Len(queue) <= 6
  /\ \A w \in shown : w[2] \in {"domain", "ghost", "orphan", "microvm"}
=============================================================================
