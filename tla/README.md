# vmxplore in TLA+

vmxplore is a GUI and a TUI over libvirt and ZFS; `vmx` (`cmd/vmx`) is a
terminal console for the same host. Neither keeps a daemon or a database: the
state is libvirt's domains, ZFS's datasets and snapshots, the inventory, kfire's
microVMs, and the guests. The program reads them on timers, joins them into
rows, and runs commands (`virsh`, `zfs`, `virt-clone`, ssh) planned from those
rows. What can go wrong is the order in which commands run, what is left when
one of them fails or the program dies between two, what was read before
something else changed, and goroutines that answer late.

Paths below are relative to the repository root (`src/` in `PROJECT.json`).

## Inventory

| component | files | state | operations and interactions | what is hard | what makes it correct |
|---|---|---|---|---|---|
| **Backup and restore** | `backup.go`, two dialogs of `gui.go` | snapshots on the hypervisor and at destinations; definitions stored on snapshots | back up, prune, restore; zfs here and over ssh | failure on either of two hosts, the base of the next incremental, retention beside a restore | the chain of incrementals stays whole; the newest complete backup can be restored; a restore is all or nothing |
| **VNC connection** | `vnc.go` | the outbound queue, the socket, the framebuffer, the button mask | read loop, write loop, senders, Close, guest resize, repaint | five goroutines on one socket, a guest that stops reading, a queue at its limit | no input lost silently, one update request under way, last frame shown, sizes agree |
| **Console pane** | `gui.go`, `gui_only.go` | the selection, the console shown, the ssh forward | select, connect, deliver, detach, watch for the end, re-follow after a refresh | answers that come after the selection moved | the screen shown is the selected machine's; no forward outlives its console; "connecting" ends |
| **Verbs and goldens** | `verbs.go`, `golden.go`, their dialogs in `gui.go` | rows, plans, domains, zvols, snapshots, the inventory | start, force-off, delete, reconcile, clone, golden, rollback; runPlan with retries and unwinding | stale rows, plans beside each other, a command failing in the middle, qemu holding a disk | a delete is whole, a clone touches only its own and leaves nothing unreported |
| **Estate join and reconcile** | `model.go`, `reconcile.go`, `reconcile_cmd.go`, `zfs.go`, `rules.go`, `once.go` | none: a function of four readings taken at different times | BuildEstate, `--reconcile` | a machine that is defined, or whose definition is lost, between two readings looks like an orphan | what is cleared was nobody's; exit 0 means that nothing is left |
| **Firecracker** | `firecracker*.go`, `fcfollow*.go`, `fcdemo*.go` | a cache of instances, ten seconds old at most | refresh, invalidate; deploy lanes of clones and open windows on them | an invalidation during a slow read; three lanes through one cache | what came up is seen, and what did not is told |
| **libvirt connection, targets** | `libvirt.go`, `remote.go` | one RPC connection, the process-wide target | estate read, redial; another host is another process (`gui.go:5164`) | a daemon that restarts between two calls | the windows recover by themselves |
| **Building a VM** | `newvm.go`, `rollback.go`, `verify.go`, `firmware.go`, `validate.go` | the undo stack, the image cache | BuildNewVM | failing at any step, two builds and one download, a kill | a failed build leaves nothing and takes nothing that was there; no disk is filled from an image under way |
| **Fleet, reseed, factory** | `fleet.go`, `reseed.go`, `factory.go`, `desktop.go` | what the guests keep across boots | build, seal, clone n times, reseed, start; cloud-init and the desktop's finisher in the guests | failing at the k-th clone, sealing too early, a boot with the wrong seed | every clone that runs has an identity of its own, and there is a way in |
| **Enrolment** | `kldload_enroll.go` | lock files, mesh interfaces, the CA's index | lock, pick a subnet, bring the mesh up, issue a certificate | many processes at once | no two meshes share a subnet, no serial is given twice |
| **Disk resize** | `resize.go`, `resize_size.go` | size of the zvol, of the device, of the partition, of the filesystem | commands in two machines, each of which can fail | retry after a partial failure, a guest that reboots meanwhile | a layer stays inside the one below |
| **TUI** | `tui.go`, `marks.go`, `actions.go`, `manual*.go` | marks, cursor, folds, overlays | mark, batch verbs, navigation; reads that arm the next | rows that move every two seconds | a mark is used once; the cursor keeps to its machine |
| **GUI tables and windows** | rest of `gui*.go`, `vdiwall.go` | widgets, last readings, one window per batch job | refresh on two timers, dialogs, job windows | readings applied out of order, a window closed and reopened | the table comes to show the host; a job's window says when it ended |
| **vmx console** | `cmd/vmx/{tui,console,vnc,screen,data,machines,verbs,...}.go` | sections, questions, jobs, its own RFB client | load, run verbs, jobs of several commands, a display drawn in text | loads overtaking each other, panes left and replaced, keys cut into reads | consent holds for the rows it was asked of; nothing runs unseen; a key cut into reads arrives whole |
| **vmx install form** | `cmd/vmx/install.go` | the step, the answers, the secrets typed, the answers file | a key or a message moves the form; the installer takes the terminal | going back from anywhere and answering otherwise | what is installed was typed twice and chosen from what is listed; the end is told as it was |
| vmx sections | `cmd/vmx/{network,metrics,observe,storage,wizard}.go` | a wizard's step | read a tool and draw it | little | |
| **Appliances, catalogue** | `appliances.go`, `appliance_substrate.go`, `homelab.go`, `lamp.go` | datasets, services and data in a guest | recipes run at a first boot and again | a recipe that dies half-way, services that write meanwhile | a dataset hides no data but where a run went on without a pool; VERIFIED means that it serves |
| Host probes, set-up | `setup.go`, `capabilities.go`, `sysdiag*.go`, `gpu.go`, `audio.go`, `usb_attach.go`, `main.go` | none | one-shot probes | sequential | |
| **Self-test** | `selftest.go` | work queue, counters | parallel builds, destroy-all | a shared estate, a cancel | every tile is accounted for |

What is in bold is modelled, wholly or in part (`PROJECT.json` says which).

## Modules

| module | models | how state and actions correspond |
|---|---|---|
| `Backup` | `backup.go` and the backup and restore dialogs | one action per zfs call of `BackupDisks` and `RestoreDisks` and per dialog step; `run` is the backup window's program counter and locals, `restore[v]` those of the window restoring as `v`; `src`, `dst`, `listed`, `stored` are the snapshots of the two hosts. Names of backups are ordered timestamps, hence numbers. |
| `RfbConn` | `rfbConn` of `vnc.go`: `send`, `writeLoop`, `readLoop`, `key`, `pointer`, `Close` | one process per goroutine; `out` is the channel, `wire` the socket, `closer` the three steps of `Close`. The server and the guest are external. |
| `FramePaint` | `blitRaw`, `frameCoalescer` and the repaint | the image is written and uploaded row by row, without a lock, as in the code |
| `RfbResize` | `vncViewer.Resize`, `requestSize`, the ExtendedDesktopSize branch of `readLoop` | the test and the write of `requestSize` are two actions because the read loop runs between them; `Own` is the guest, which takes a mode by itself |
| `Keyboard` | `KeyDown`, `KeyUp`, `FocusLost`, `TypedRune`, `TypedKey`, `TypedShortcut` and `pasteText` of `vnc.go` | one action per key event; `down` is what the guest takes to be held, `paste[i]` the goroutine that types a paste's Ctrl+V |
| `ConsolePane` | `attachVNC`, `detachVNC`, `installVNC`, `followConsole`, `apply` and `fetchEstate` of `gui.go` | each `fyne.Do` callback is an action; `dial[i]` is a connect and then the console it made |
| `Host` | what `virsh`, `virt-clone` and `zfs` do, as `verbs.go` relies on it | an operator per command, with the reply it gives; all external |
| `Verbs` | `verbs.go`, `golden.go`, `firePlan` and the dialogs | plans are sequences of commands with their undos; `RunCmd` is one turn of `runPlan`'s loop, `Unwind` one of `unwind`'s; `RefreshEstate` and `RefreshZFS` update the two halves of a row at their own times |
| `AllOrNothing` | what an operation of several steps promises | abstract: a job's phase, the parts it needs and the parts of its own that exist |
| `Build` | `BuildNewVM`, `rollback`, the image cache, `VerifyImage` | one action per external command; `job[b].undo` is the rollback's stack, `mu` is `imageFetchMu` of each process, `owner` and `dom` say who made what is on the host. `Crash` kills a process: its defers do not run. |
| `BuildAll` | `BuildAllAppliances`, `DestroyAllAppliances`, `waitAppliance` | `queue` is the set of tiles the feeder has not handed over, taken in catalogue order, `tile[t]` where the worker on `t` is. A build is what `AllOrNothing` promises. |
| `Fleet` | `buildFleet`, sealing, `ReseedClone`, `userData`'s boots, the desktop's finisher | machine 0 is the golden; `mach[m]` is what the guest's disk remembers (instance-id, host name, machine-id, scripts run), which clones inherit |
| `Appliance` | the twelve recipes over `appliance_substrate.go`, and the host's three uses of the verdict | a recipe is a sequence of named steps; `below` and `inside` are the data that services wrote before and after a dataset was mounted |
| `Enroll` | `EnrollGuestAt` and `enrollGate` | one action per step that another process can see; `file` maps a path to an inode, `flock` is held on inodes, `mu` is the process's mutex |
| `Estate` | one read of libvirt, `listDatasets`, `BuildEstate` | extended by the next two; `rd[r]` is the read under way, call by call; `libvirtd` may restart between two calls |
| `Reconcile` | `runReconcile` | EXTENDS `Estate`; two passes, `pass` 1 to act on and 2 to answer by |
| `EstateView` | the window's refresh goroutines, `fcCached`, `apply` | EXTENDS `Estate`; `queue` is what `fyne.Do` has accepted, in order |
| `DiskResize` | `planResizeDisk`, the dialog, `growRootScript` | four sizes, a task per dialog |
| `Demo` | `RunDemoLanes`, `DemoFreshWithAddresses`, the seats and walls, the instance cache | a lane is a goroutine; the cache has one reader at a time |
| `BatchWindow` | `batchLogWindow` | the job's goroutine, the painter and the window's queue |
| `Tui` | `tui.go`, `marks.go` | one action per message to `Update`; rows are computed from `doms`, `dss` and `ann` as there; `Chain` are reads that arm one another |
| `VmxTui` | tables, loads, questions and drills of `cmd/vmx/tui.go` | one action per message; two tabs stand for all |
| `VmxPanes` | consoles, jobs, ticks of `cmd/vmx` | what `Update` does to one message may be cut in two by the end of a job |
| `VmxScreen` | `runScreen`, `input`, the read loop of `cmd/vmx/vnc.go` | bytes arrive cut anywhere: `stdin` and `chunks` |
| `Install` | `installModel` of `cmd/vmx/install.go` | one action per key or message; `m` is what is answered, `file` the answers file, `typed` a history of the last two entries of each secret |
| `VmxRender` | the three renderers' placement and `mouse` | integer divisions as in the code |
| `BackupProofs`, `VerbsProofs`, `EnrollProofs`, `VmxTuiProofs` | | theorems about the module they are named after |
| `ViewerProofs`, `BuildingProofs`, `EstateProofs`, `TerminalsProofs` | | theorems about the components that `MCViewer`, `MCBuilding`, `MCEstate` and `MCTerminals` put side by side |
| `MCBackup`, `MCVerbs`, `MCVmxTui`, `MCReconcile` | | model-checking modules |
| `MCViewer`, `MCBuilding`, `MCTerminals`, `MCEstate` | | several components in one run |

In each module operators marked "Mutant" are wrong versions of a definition;
nothing uses them. They show that the property named beside them in
`PROJECT.json` notices that mistake.

How they compose. `Reconcile` and `EstateView` act on one `Estate`; `Verbs` on
one `Host`; `BuildAll` uses of a build what `AllOrNothing` promises, and `Build`
is checked to implement that (`BuildIsAllOrNothing`, an `INSTANCE ... WITH` whose
mapping says which parts on the host are a build's own). The modules named
`MC...` that hold several components put *independent* ones beside each other: a
variable `part` (or `side`), chosen at the start, names the one that moves and
the others stay in one initial state. That is a sum of state spaces and not a
product, and shows nothing about their interaction; components that do interact
are modelled in one module.

Abstractions worth knowing: `ConsolePane` treats a Firecracker row like a
machine that is off (it shows a placeholder). `FramePaint` has an image of one
size. In `Verbs` a disk is the system disk, the disk called `-data`, or one with
another name; an orphan zvol is the row of the VM it is named after; a golden's
sealing tool runs inside the guest's image and is part of the step that takes
the snapshot. `runPlan`'s audit log and the mesh and seed clean-up after a
delete change nothing the model has. `Build` has one distro, hence one image;
`Demo` assumes that nobody else clones its goldens; `Tui` has neither orphans nor
microVMs (its rows treat them as ghosts). `Fleet`'s poll of a first boot is a
count; its cap is a bound on it.

## Runs

| run | bounds | shows |
|---|---|---|
| `backup_chain` | 2 disks, attached and detached at will, 1 destination, 3 backups, 2 failures or crashes; a command may finish and be reported failed | the next incremental always has its base on the hypervisor; a clean run removes what failed ones left |
| `backup_restore` | 2 disks on different pools, 2 destinations keeping 1 backup each, 3 backups, 1 restored name, 2 failures, the destination's probe included | restores are all or nothing and touch nothing that was there, beside pruning; the newest complete backup can be restored; every backup ends |
| `viewer` | frames: 3 rows, 4 frames. Connection: queue and socket of 1 message, 2 inputs, 1 motion, 1 stall. Resize: 3 sizes of which the driver sets 2, 2 resizes (`MaxResize`), 1 mode that the guest takes by itself (`MaxOwn`). Pane: 2 machines, 2 connects at once, 2 estate reads that may overtake each other (`MaxFetch`). Keyboard: 2 modifiers pressed, 2 shortcuts, 2 pastes, 1 loss of focus | the last frame is shown whole and one repaint is queued at most; nothing but motion is lost or overtaken without an error, one update request is under way, a detach is no error, Close ends both loops; both ends agree on the size, and the guest ends at the size the operator stopped at or at one it took by itself since; the screen is the selected machine's, a forward has its console, "connecting" ends; no modifier sticks in the guest, a shortcut and a paste arrive as typed |
| `verbs_delete` | a target that is this host, 2 names, 2 kinds of disk, 4 verbs one after the other (start, force off, delete, clone, clone of a golden, golden, rollback), 2 retries, a disk held for up to 2 attempts | delete is whole or does not start; a golden is whole; no ghosts in the inventory; plans end |
| `verbs_clone` | a target over ssh, 2 names, 2 plans at once (clone, clone of a golden, golden), 1 failing command, 1 act of a guest, sanoid or another tool | a clone destroys only what it made, reports what it leaves, and is whole when it says so |
| `building` | builds: 2 of one name in 1 process (`Builders`), 2 failures or kills (`MaxBuildFault`). Build-all: 3 tiles (`Tiles`), 2 workers (`Workers`), machines stopped when done (`KeepRunning`), 2 runs (`MaxTimes`), a destroy-all between, 1 failure (`MaxOther`). Fleet: 2 clones, both sealing tools (`Tools`), 4 polls, 1 failure. Recipes: 12 tiles on two families, run twice, 1 failure or power cut. Enrolment: 3 guests of which 2 share a mesh, 2 processes, 1 subnet, 1 failure or kill, 1 tear-down | builds implement `AllOrNothing` and take nothing that was there; a disk is filled from an image that passed verification or from what a failed fetch left, never from one under way; nobody who waits waits for ever; a tile is reported built when its recipe said so and it serves, a cancelled one is gone, destroy-all leaves nothing it showed; a dataset hides a service's data exactly where a run without a pool had let the service begin; fleets have identities and ways in, and the operator's script ran unless the desktop could not be armed; one enrolment behind the gate, no subnet or serial twice |
| `estate` | reconcile: a machine and a microVM of 2 disks each, 2 changes by others, 1 restart of libvirt, 1 command that fails or does nothing. Window: 2 running machines, 1 change, 1 restart, 1 waiting callback. Resize: 5 GiB, 1 dialog at a time, 4 failures, stops or boots. Demo: lanes of 2 and 1 microVMs, 3 polls (`MaxTry`: a lane that reads three times is what `BatchIsTold` is about), 1 fault. Batch window: 2 windows, 3 jobs of 1 line | `--reconcile` takes away nothing that is known to be somebody's, and 0 means clear; the window comes to show the host and stays so; the layers of a disk stay inside each other; every lane sees its addresses and is told of; a job's window shows its last line and is busy only while it works |
| `terminals` | TUI: 2 machines, 3 keys, 1 batch verb, 1 failure. Panes: 3 consoles and jobs, 2 commands each, a list of 1, 2 tick chains. Display: 3 frames, 1 resize, 2 sizes; 3 keys of 6. Render: terminals of 10 or 11 by 4 cells of 3 by 5 dots, guests of 7 or 33 by 3 or 20, 3 renderers. Form: a disk, a zvol and the medium, told apart or not; secrets of 3, 4, 8 and 9 characters | a mark is used once, the cursor keeps its machine; the newest chain of ticks is there and a retired one ends, no hidden console, a running job can be gone back to; the newest frame is drawn, keys arrive as typed in every cut but behind an escape, a click lands in its cell; secrets were typed twice whatever was gone back to, the cursor is on a choice, an end is told as it was |
| `vmx` | 2 machines, 1 file with 1 snapshot, 4 keys, 2 loads at once, 1 change, 1 command | what was typed back acts on the rows it was asked of, the cursor keeps to a name, the live table catches up |
| `reconcile_orphans` | violates `OrphansOnly` | `--reconcile --orphans` destroys the disk of a defined machine whose definition the read could not get |
| `resize_shrink` | violates `NeverShrinks` | two dialogs on one disk: the second cuts it under the filesystem the first one grew |
| `window_unseen` | violates `NoUnseenRun` | X over the second job of a window closes it over the run |
Why these bounds. Every fault argument here has the shape "a failure, then an
operation that meets what it left, then one that should repair it": three backups and
two failures hold two such rounds, two builds of one name with two faults one round
beside an interleaving, two runs of a recipe with one fault one round. A queue and a
socket of one message are full after one, so that every combination of full and empty
occurs; two inputs are enough for an order and for a loss between two. Two machines
and two connects are what a late answer needs to be mistaken for another; two loads
what one needs to overtake another. Two resizes and one mode of the guest's own are
what a request needs to cross an answer and to be overtaken by a mode nobody asked
for; two estate reads, for the older one to come last. Four verbs hold clone, golden,
clone of it, delete of either. The retry bound equals the hold bound because what
matters is whether the plan outlasts qemu; the code has eight tries. Three tiles and
two workers leave one queued when a cancel comes. Three guests over two meshes and one
subnet make the pool run out, be shared, and be free again. Three jobs and a list of
one make the trimming happen at every combination of running, failed and read. The
sizes of `VmxRender` were chosen for pictures that fit in both directions, in one, and
in none, at cells that do not divide them. TLC takes from seconds to three and a half
minutes for each.

`CHECK_DEADLOCK FALSE` stands where the system may really stop: no more
frames, no more resizes, a closed connection, no more verbs, a run that is over.

Symmetry is used in `verbs_clone` (names and plans) and `terminals` (consoles and
jobs), whose properties are invariants and step properties.

## Fairness

Weak fairness, of one goroutine at a time, for goroutines that nothing outside
holds up: the backup window (a command ends, if only by failing), the loops and
senders of a connection (timers and deadlines are in the code), the window's
goroutine, timers, and plans. Never of the operator, of the guest, of other
tools or of failures. `qemu` answers a resize request (`Serve`) because it does
so from its own event loop. A guest that has stalled need not resume:
`CloseEndsAll` rests on the timers. `ConnectSettles` needs a connect to return,
which its timeouts justify, its delivery and the watcher of its end to run, one
fairness a dial (`DialStep`); nothing is assumed of the estate's reads.

`EstateView` assumes that libvirt comes back after a restart (`Up`), that a read
of kfire ends and ages, and strong fairness of the two tickers: they are two
branches of one `select`, which Go chooses from at random, so that a ticker that
is ready again and again is served. Without it the faster ticker could starve the
slower. `VmxTui` assumes that loads and commands end (they have timeouts or end
with their tool) and that the tick of the live table goes on.

Where a component owes only that nobody waits for ever, `NothingStuck` says it as
an invariant: while something is under way, some step of it is enabled. It does
not rest on fairness. `Reconcile`, `DiskResize`, `Demo` and `BatchWindow` state no
fairness and nothing that would need it.

## What is proved

Checked by TLAPS, for all values of the constants. Assumptions on constants are
the named `ASSUME`s and `...Assumption` of the modules (sizes are numbers, sets
are not empty, switches are Booleans); what a theorem assumes beyond them stands
in its statement and is named here. In every case the safety property is not
inductive as it stands; what it was strengthened with is the argument.

**Backup and restore** (`BackupProofs`), any number of disks, destinations,
restores, backups and failures.

* `TypeCorrect` (`TypeOK`), with `Named` (while a backup runs its name is the
  newest) and `TodoOK` (loops run over the backup's disks).
* `ChainStays` (`ChainIntact`), assuming one destination and one that answers
  the undo. A prune removes snapshots of the hypervisor; that these are never the
  newest of the destination needs `Sent`, what each phase of a backup knows to
  have arrived, and `Bounded`, that nothing is newer than the backup under way.
  Both assumptions are needed: the undo of a failed backup takes a destination
  that does not answer for one without the snapshot, and alternating destinations
  prune each other's base.
* `CleanConverges` (`CleanRunConverges`), under the same assumptions. `CleanSoFar`
  says how far a run none of whose commands failed has come; that no send of it
  is refused is `ChainIntact` (`NeverRefused`), and that retention leaves at most
  `Keep` is a fact about finite sets of any size (`FewAreLeft`).
* `NewestStays` (`NewestRestorable`) while no disk is attached or detached;
  inductive with `NewestComplete`, which speaks of the definition being stored
  only after every disk arrived.
* `RestoreIsAllOrNothing` (`RestoreAllOrNothing`): `RestoredIsWhole`, while no
  disk is attached or detached, from `NewestComplete` (a destination with a
  definition has every disk, so that a restore lists them all) and `Receiving`;
  and `LeavesNothing`, where a command that is reported failed did fail
  (`~LateDrop`: the zvol of a receive whose link dropped at the end is in nobody's
  list), from `Known`.
* `ForeignStays` (`ForeignKept`), with no such assumption: what an undo removes is
  what this restore made (`OwnOnly`).

**Verbs** (`VerbsProofs`), any names, disks, plans at once, verbs fired, failures
and acts of guests, sanoid and other tools. The first two theorems let everything
happen at once but deletes; the last two are about one plan at a time, deletes included.

* `CloneStaysWhole` (`CloneIsWhole`), where nothing is deleted. `IInv` needs not even
  that: a plan of a clone has the shape `planCloneFrom` gives it (`CloneShape`: each
  disk by a zfs clone, the domain last), two plans that run have two numbers, and
  what an unwinding has passed is gone or reported (`Reported`), since an undo makes
  nothing and another plan's commands make nothing of this plan's number. `OwnInv`
  adds that the source is there, that each step taken and not taken back has its
  zvol, made by this plan and by this step only, and that no domain is called after
  the clone before the last step: zvols of a domain are all there (`Standing`), so
  that `zfs clone` onto one of them is refused. With `"delete"` offered it is not so:
  a delete takes the source away, or the clone's own disks as an orphan's.
* `CloneKeepsOff` (`CloneTouchesOwn`), where nothing is rolled back either.
  `SnapInv`: each snapshot step taken has its snapshot, by this plan, one a disk.
  What an unwinding destroys is therefore its own; what another unwinding clone
  destroys is that one's, or a zvol that no domain has; and a golden only replaces
  `@golden`. With `"rollback"` offered it is not so (see below), and that is why
  `verbs_clone` does not offer it.
* `NothingHalfDone` (the last three conjuncts of `DeleteIsWhole`), under `Alone`: a
  target that is this host (`~Remote`: over ssh nothing is tried again, see below), one
  plan at a time, no command that fails by itself and no other tool, as in
  `verbs_delete`, and qemu lets go of a disk within the retries; any names, kinds of
  disk, verbs and number of them, and rows as far behind as one likes. `WholeInv`
  says of a delete that the disk called `-data` comes last and never without the
  system disk (`DelShape`), that what it has destroyed is gone, and that its tries
  and what qemu still holds do not exceed the bound (`Waits`), so that a disk that is
  busy to the end belongs to a domain that is up; of a golden, that what it has
  sealed is sealed or will be again (`GoldRun`); of a clone, that what it makes is
  not what its name already had (`NewRun`), or its unwinding would leave a line of
  the inventory with nothing behind it; and of the inventory, that what it lists has
  a zvol or is being struck off (`RegKept`). What the plans are made of, `FlattenSeq`
  and all, is `DeleteShape`, `ReconcileShape` and `GoldenShape`.
* `DeleteStaysWhole` (`DeleteIsWhole`), where moreover nothing is started and a VM has
  no disk but the two that `planDelete` knows of. `OffInv`: domains are persistent and a row
  shows what is up (`OffHost`), a delete asks to undefine, after switching off
  (`OffShape`), and once it has, there is no domain (`OffRun`). Both assumptions
  are needed. A third disk is left behind by every delete. With `"start"` offered, a
  delete from a row that still says "off" undefines a domain that runs, and leaves it
  transient; a row read then asks for no undefining, and still says so after that
  VM was deleted and its name cloned again: TLC finds the delete that succeeds and
  leaves the new domain with the fifth verb, one more than `verbs_delete` fires, if
  libvirt is read once in all of it (the code reads it every two seconds).

**The viewer** (`ViewerProofs`), with nothing assumed but
`ViewerAssumption`: any number of rows, frames, machines, connects, sizes, inputs,
any capacity of queue and socket. Each part has its invariant, and a step of
another part leaves it alone.

* `AtMostOneRepaint`, `LastFrame`: from `IInv`, which says who owns the pending
  flag (`OnePending`), what has been blitted (`Blitted`) and what the repaint
  under way has uploaded or will be told to (`Uploaded`).
* `ScreenHolds` (`ScreenIsTrue`), from `PanInv`: which connect owns a console and
  a forward at each of its steps (`DialOwns`), and that the pane's console, the
  machine it wants and the one it was told to follow are the same (`Followed`).
* `SizesHold` (`SizesAgree`), modes that the guest takes by itself included, from
  `FitInv`: what the framebuffer will be when the answers on their way are read
  (`Settled`), that a request follows an announcement (`Announced`), and that the
  request under way is the only one (`Alone`).
* `MessagesHold` (`MessagesKept`), from `RfbInv`. `Roles`: who may wait with what, and
  what a loop that ended has left. `Kept`: the inputs of one sender, read along their
  way from what the server has got over the socket, the writer's hand and the queue to
  what waits to be queued, carry successive numbers; every action moves a message from
  one segment to the next. `Tokens`: the one update request is a token that is
  somewhere on the same way, or with the server, or in the reader's hand.
* `KeysHold` (`KeysAsHeld`), from `KeysInv`: what the guest takes to be held is
  held, or is the Ctrl of a paste that is being typed (`HeldOrTyped`).
* `NothingHappensForNothing` (`NothingForNothing`), a property of steps, from the
  three invariants above.

**Making machines** (`BuildingProofs`), any number of builds,
names, guests, clones, tiles, workers and runs, any bound on faults and kills.

* `AllOrNothingKept` (`BuildIsAllOrNothing`): `Build` implements `AllOrNothing`, every
  step of it being a step of it or a stutter, and leaves what was there before.
  `Stacked`: the undo stack of a build is, in order and once each, what it has made;
  `Due`: by its program counter it has made what comes before; so that whole is what
  reaches the end and nothing what an unwinding leaves. `Apart`: two builds of one
  name at once are both on ZFS, where `zfs create` lets one through. As in the run, a
  command that fails leaves no half of a disk or seed (`Torn`; of the image it may)
  and one name is not taken between a look and a write (`Clash`): in both the code
  leaves something (see below). `PromiseKept` says what follows for each build: done
  has every part, failed has none.
* `BuiltStaysVerified` (`BuiltIsVerified`), where all builds are of one process.
  `Cached`: who holds `imageFetchMu` is the one between the look at the cache and
  the end of the verification, and outside that section the file in the cache is one
  that passed, or one that a fetch left which failed or was killed. The second boots,
  too (see below): the theorem says that nothing else does, and not that every image
  was verified. Two processes have a mutex each, and one may boot what the other is
  still verifying; the run has one process, too. The part of it that is about a
  catalogue, `RunInv`, is below.
* `DestroyedStaysGone` (`DestroyedIsGone`), from `RunInv`: the counts that the
  window shows are the cardinalities of the sets of tiles in each state (`Sums`),
  a run that is over has no worker on a tile (`NoRunNoWork`), what a tile's state
  says of its machine (`Vms`), and what the dialog showed (`Dialog`).
* `DataStaysInside` (`DataInside`), for each of the twelve recipes on both families,
  run any number of times. `RecipeIsTidy` is a lemma about the recipes: its datasets
  come after the pool and before the packages and services that would write there, and
  a check before the summary. From the order of the steps follows what has been done
  when the recipe is at one of them (`Kept`, `Seen`), power cuts included. `LaidOut`:
  a directory has data under its dataset only if a service kept it there after a run
  that went on without a pool (the history `bare`), and always then, since nothing
  moves it.
* `FleetStaysSound` (`FleetIsSound`): `Sound` for each machine, of what its disk
  remembers and of the boot it is in; `Course`, of what the batch has done by its
  program counter.
* `HandedOutOnceKept`, `GateKept`: the theorems of `EnrollProofs` beside the rest.
* `EnrollProofs!GateIsExclusive` (`MutualExclusion`), for any number of guests,
  processes, meshes and lock files, any failures, kills and tear-downs. The
  argument is about inodes: `OwnMutex` (who is behind the gate holds his
  process's mutex), `OneFile` (where the directory is the account's, the lock
  file is made in place, there is only ever one and nobody does without it),
  `OwnLock` (who has the file open has its lock, and a lock has one owner), and
  `OneProcess` for the other kind of host. The assumption `~Race` excludes the
  case in which the code has a gap: where only root may write the directory, two
  processes that both found no file each have `sudo install` put one there, and
  hold "the" lock of two inodes (`kldload_enroll.go:182` against `161-166`).
  `SubnetsAreOwn` and `SerialsAreOwn` follow from it and from what the process
  behind the gate knows: what it picked is still nobody's.

**The estate and its windows** (`EstateProofs`), any machines, microVMs, disks and
goldens, any bounds.

* `ReconcileStaysTrue` (`ReconcileIsTrue`), while others make, define, stop and
  undefine machines and libvirt restarts between any two calls. `ReadIsWhole`: a
  read has all disks of a machine or none (`Whole`), and only of machines it has
  listed. So a name of the register that the read did not list has no disk among
  those named, and neither has a zvol that is not one of them: what is to be
  cleared is `Clearable`, and stays so while the host goes on, for `named` and
  `todo` are the read's. `Again` begins the second read with nothing of the first.
* `BatchStaysTold` (`BatchIsTold`). For the lanes, `Knows`: `good[l]` counts the
  readings since all that lane l waits for had addresses; after the first of them
  no read under way is older than that, since a lane only reads when nobody does
  (`fcSlowMu`), and after the second no young cache is. So the third has them
  all, whatever other lanes and the window declare old in between; and who shows
  fewer than asked for has noted it, a sum of `Cardinality` (`AllOfThem`). For the
  windows, which job runs for which (`BatTypes`).
* `LayersStay` (`LayersInOrder`), for any sizes and any failures, stops and boots.
  Inductive with `Fresh`: the size a dialog has read is still the disk's until its
  own command sets it. This needs one dialog at a time (`OneAtATime`);
  `resize_shrink` shows what happens with two.

**The console's tables** (`VmxTuiProofs`), any machines, files, snapshots, keys,
filters and loads that overlap.

* `ConsentStays` (`ConsentHolds`), from `IInv`. `Asked`: an open question asks for
  the name of the row it was put of, or for how many they are; those rows were
  captured then, so that no load, filter or change of tab before the answer puts
  others in their place. `Ordered`: each command that was ordered runs on the row,
  or the number of rows, that was typed for it. `ViewsOK` and `TablesOK`: the rows of
  a table, and of a load under way, are rows of that table.
* `CursorStaysOnName` (`CursorKeepsName`), a property of steps: a load finds the
  name again in the filtered rows of the new table, whatever their order (`Nth` of
  a set of rows of any size).

**The terminals** (`TerminalsProofs`), one invariant a part, and a step of another
part leaves it alone.

* `PanesStayTrue` (`PanesAreTrue`) and `RetiredStay` (`RetiredEnds`), any
  consoles, jobs, commands and ticks, from `PanesInv`: a console on its way is not
  open and comes once (`AskedOK`); a console that runs is the one shown
  (`ShownOK`); a job that runs is listed (`ListOK`); what is between the two halves
  of a tick is of the newest generation and that generation's tick is not in
  flight beside it (`ChainOK`), so that what a step begins or goes on with is the newest
  chain; a kept picture was made no earlier than its number says (`CacheOK`), although
  a reader writes to the screen first and counts then.
* `EstateKeepsName` (`CursorKeepsName`), any machines, clones, rules and folds.
  Most of it is about what `BuildEstate` and `navItems` compute: each machine is in
  one group, a group's rows stand together under its header, and so a name that
  is shown is shown once (`ItemsAre`, `HeaderAt`, `StepsIn`).
* `TuiStaysSound` (`TuiIsSound`), for the estate from `TuiInv` (the cursor is on an
  item, no mark that was used is there), and for the form from `FormInv`: by the step
  that is asked, which secrets have been entered once and which twice (`Entered`),
  that the disk is one that was listed (`Chosen`), and how an end is told (`Ending`).
  Going back clears what the step gone back to would leave half entered.
* `ScreenStaysSound` (`ScreenIsSound`), any pictures, sizes, keys, reads, cells and
  terminals; of keys it says something until a read has parted an escape from what it
  begins, or taken more behind an Escape key, or the menu or the probe has taken part of
  a key (the history `astray`). `FrameInv`: a number read before its frame was drawn
  that is still the newest stands for the frame shown; a frame that is published
  and not counted is the reader's. `KeyInv`: every byte that is on its way, in the
  terminal, a read or what `input` kept, is a byte of a key that was typed, each in
  its place (`Owns`), and what has been taken is what the keys before it mean
  (`Tells`); `one` takes the bytes of exactly one key, or waits because the end of
  its sequence has not been read. `ClickInv`: the
  quotients of `mouse` and of the renderers, for any sizes (`QuotientIs`): the
  pixel that a click is sent for is one that its cell shows. It needs
  the terminal to be no smaller than `fit` lets it be.

Only model-checked: liveness under fairness (`BackupEnds`, `PlanEnds`,
`ComesToAnEnd`, `ConnectSettles`, `LiveTable`, `ShowsTheTruth`) and `ENABLED`
(`NothingStuck`), which are out of the prover's reach; and `DeleteOkMeansGone` where
things are started, up to four verbs.

## Seen while modelling, without a run of its own

Disagreements between the code and its comments that the models reproduced
while being written; their properties were given up in favour of the runs above
or are stated so as to exclude them.

Backup, connection, verbs:

* Two destinations used in turn: the prune of one removes the base of the
  other (`backup.go:358`). Retention counts partial backups (`backup.go:344`).
  A detached disk keeps its old points, and a restore wants every volume
  (`backup.go:472`). A failing `zfs set` leaves a listed point without a
  definition (`backup.go:326`). A disk attached while the dialog is open is in
  the definition and not in the backup (`gui.go:4558`). A receive that finished
  and was reported failed leaves its zvol (`backup.go:509`).
* Input given up after a second of a full queue is followed by later input
  (`vnc.go:447`, comment at 421). A console whose machine restarted is not
  attached again although the refresh noticed (`gui.go:1702`, comment at 5064).
  A resize asked for while an answer is in flight is dropped (`vnc.go:324`,
  comment at 707). After ten quiet seconds `requestSize` fails on the deadline
  the last message left (`vnc.go:342`, `vnc.go:458`).
* `planDelete` knows two disk names; a VM with a third keeps it
  (`verbs.go:273`), as does one whose row lost its system disk. A VM that has
  clones is undefined before zfs refuses (`verbs.go:262`, warning at 263).
  Undefining by a stale row leaves a running transient domain. Rollback
  believes the row (`verbs.go:581`) and the count in it (`verbs.go:588`). A
  golden is taken of a paused domain, or of one started meanwhile
  (`golden.go:47`), and one refused half-way mixes generations
  (`golden.go:125`).
* Over ssh a delete is not tried again when qemu still holds the disk: the command is `ssh`
  and one quoted word (`remote.go:214-241`), in which `busyDestroy` (`verbs.go:843-852`)
  does not find `zfs` and `destroy`. It stops with the domain gone and the disk there,
  against the comment at `verbs.go:719-729`. `NeverHalfDeleted` is of a target that is this
  host (`Remote`).
* A clone takes `@clone-n` of its source, a rollback of the source to an older
  snapshot removes it (`verbs.go:587`), another clone of the same name takes it
  again, and the first one's unwinding destroys the other's (`verbs.go:467`: the
  undo knows the name only). It takes three plans at once over one VM;
  `CloneTouchesOwn` is checked and proved without rollbacks.
* The undo of a failed backup takes a destination that does not answer for one
  without the snapshot (`backup.go:275`). A write error ends the writer of a
  connection and nothing else (`vnc.go:449`, comment at 462). A, B, A selected:
  two connects to A are installed (`gui.go:1747`, comment at 1688). A zvol of a
  clone in flight is deleted as an orphan after its domain was defined.

* Ctrl+V and then another shortcut with Ctrl still held sends the bare letter: the
  paste has let go of every modifier (`vnc.go:964` against the comment at
  1037-1040), which is why `Keyboard` asks only for modifiers pressed since.
  Modifiers held when the focus comes back are not told; Caps Lock is not among
  `modSyms`; a chord that Fyne turns into a shortcut which `TypedShortcut` does
  not name is eaten.
* A guest that takes another mode by itself keeps it, whatever the pane's size is, until the
  pane is resized again: only `Resize` asks (`vnc.go:758-779`), the read loop adopts what
  comes (`vnc.go:519-526`, 556). `FitsInTheEnd` exempts that (`crossed`).
* The port of a display is read before it is dialled, so that a machine that was
  started in between may have it. The local end of a forward is a port that was
  free and released; when another program takes it the dial may reach that one
  before ssh has exited (`gui_only.go:136-139` says that it cannot).

Estate:

* The window joins fresh domains with datasets up to thirty seconds old, so that
  a delete planned from such a row leaves a disk behind (`gui.go:5110`,
  `docs/vmxplore.1:486`). `vmx --reconcile` does not hide Firecracker's ghosts, and
  answers 0 when the second read of the register or of ZFS failed. Two redials at
  once can leave a connection open. An `fcInvalidate` during a slow read is lost
  for ten seconds.
* Run again after a failure of the guest's half, a resize is refused as "already"
  (`resize.go:291`, comment at 73). The script ends with 0 and "already at full
  size" when the filesystem's command failed, and says "grown" when `growpart`
  did. A guest's old address, given to another, has the other one grown.
  `qemu-img resize` of a running file-backed guest fails on the image's lock while
  stopped guests are refused.
* `autoClose` closes a window over a job that was started within its three
  seconds. `OpenRDPSeats` returns 0 when a later client cannot be started though
  windows are up. A cancel during the wait for addresses does not stop it, and
  windows still open. The lanes read the window's rows from their own goroutine
  (`gui.go:3811`). The wall reports as many desktops as were cloned. Clones made by
  somebody else meanwhile count as the lane's own.
* In the window's batch list the busy flag is cleared before the marks are, so that a
  press in between runs the same rows again (`gui.go:4808-4835`); marks set
  during a batch are cleared by its end.

Building:

* A `qemu-img convert` that fails after it has written leaves its half of a disk
  (`newvm.go:886`, `README.md:495`), which the next build of that name takes for one
  that was there before. A name checked by `fileAbsent` may be taken before it is
  written (`newvm.go:767`). A fetch that fails may leave its file, and whatever is in
  the cache and not empty is a hit that verifies nothing (`newvm.go:832`,
  `cachedImage`): what a `curl -o` has got that breaks off (842-845), the image whose
  manifest or sum cannot be had (`verify.go:156-167`), one with a wrong sum where
  `os.Remove`, whose error is dropped (173), may not, since curl may run under sudo, and
  what a kill leaves. The next build boots it, against "A failure here deletes the file,
  so a retry re-downloads instead of reusing bad bytes" (`newvm.go:846-848`,
  `verify.go:30-31`). `Build` has all of these, and `ImagesSettled` says what is left:
  such a file, but never one that is still being fetched. An image that another tool put
  into one of the caches is taken as it is. A download has no time limit while it holds
  `imageFetchMu`. Errors of an undo are dropped, and a busy zvol is not tried again.
* Destroy-all lists again after its dialog, so that a tile that a build-all has
  made since goes with those shown (`selftest.go:998`, comment at 978). It also
  takes every dataset that ends in the VM's name, local backups included. A
  `virsh list` that fails makes everything "to do". A machine that could not be
  shut down is reported as off. A failed tile keeps its larger size. The progress
  bar goes back with three or more workers.
* The first fifteen characters name a mesh, so that guests may share one. The finisher
  of a desktop does not come back after a power cut during its install. A key of
  blanks gives no way in. Nothing guards the `cat`, `chmod`, `systemctl daemon-reload`
  and `enable` that arm the desktop's finisher (`desktop.go:294-371`), and one that
  fails ends the script under `set -Eeuo pipefail` (`newvm.go:703`): no desktop, and
  the operator's script behind it does not run, against "NOTHING HERE MAY ABORT THE
  SCRIPT" (`desktop.go:320`). `ArmFails` does this, and `OperatorRan` says that
  nothing else costs that script its run. The operator's script runs again in each
  clone.
* A recipe that is run again with a new generated secret breaks the role's
  password (web stack) or leaves stations on the old one (icecast); AdGuard's
  second run dies on its own port 53. A tile may be sealed before its recipe is over
  (`appliances.go:589`, 603), as VDI and RDP answer before theirs is. A recipe that
  finds no disk goes on with directories and says "attach one and re-run"
  (`appliance_substrate.go:254-255`, 29-30): the run that finds it mounts its datasets over
  what the services have kept there since, which is hidden and not moved in. `DataInside`
  says that data is hidden there and nowhere else. Some
  tiles are INCOMPLETE without a pool although the substrate says directories
  work. A snapshot that fails ends the recipe before its summary.

Terminals:

* In `vmx` a batch `d` goes past the twice-within-three-seconds guard
  (`cmd/vmx/verbs.go:137`, `cmd/vmx/tui.go:1019`). A job of several commands that is
  killed between two of them goes on with the next (`cmd/vmx/console.go:222`), the end
  of a job that has left the list is not told (`cmd/vmx/tui.go:392`), and a follow
  whose pane is replaced goes on unseen (`cmd/vmx/tui.go:1978`). Going back restores a
  row by its index. Trimming the list drops the oldest job that has ended, one that
  failed and was not read too (`cmd/vmx/tui.go:439-446`), or a new one that has just
  ended. A killed `sudo` leaves kfire running, and the wait with it.
* The first size that the display asks for is asked before the server announced that
  it may be (`cmd/vmx/vnc.go:344-356`), so that a guest need not come to fit the
  terminal. A read that ends behind the ESC of a longer key makes that ESC the Escape
  key, and the rest is sent as keys of its own (`cmd/vmx/screen.go:519-524`): an arrow
  cut there arrives as Esc, [, A; and Escape with another key behind it in one read is
  taken for alt with that key, and the Escape is lost. The menu takes one byte of
  whatever comes (`cmd/vmx/screen.go:515`, comment at 249); Esc Esc typed quickly
  arrives as one; keys typed during the 300 ms probe are swallowed. The main loop
  reads the size that the read loop writes. There is no write deadline, so a guest
  that stops reading freezes the viewer.
* A console or a job that becomes ready while the help or the palette is up has
  the keys although the overlay is drawn (`cmd/vmx/tui.go:1204-1208` against
  519-522). A wizard's next question comes by a message (`cmd/vmx/wizard.go:66-73`),
  so that keys typed ahead reach the table.
* The installation form shows a passphrase row after going back from an encrypted
  pool to a plain one (`cmd/vmx/install.go`, `passph` is not cleared); the
  installer is not given it. A dry run says "answers written" when writing
  failed (lines 511-512). "q for the menu" leaves the program. A medium that
  `findmnt` cannot name is offered as a disk.
* In the TUI each verb's own read starts a chain of polls that never ends; an
  input line acts on the row under the cursor when Enter comes; a row that moves
  into a folded group loses the cursor; marks of a name that was deleted hold for
  the machine that takes the name next (`marks.go:104`).

## What is not modelled
Drawing, themes, key tables, wording and logs; the VNC handshake, keysyms and
coordinate mapping of the GUI's viewer; the encoding of definitions; the text of
recipes and of cloud-init; what one command of zfs, libvirt, kfire, kvm-mesh or
kldload-ca does inside; the serial pane, which attaches on the window's goroutine; the
change of target: the window hands over to a new process (`gui.go:5164`), and
`ConnectTarget` has no caller but a test; the one-command verbs, which decide nothing;
following a single new microVM (`fcfollow.go`), which is one lane of the demo. `vmx`'s
other sections and the host probes read a tool and draw or print what it said: no
state outlives the call. The vendored toolkit is not this program's.

## Plan

What is left, by worth:

1. Proofs: `DeleteOkMeansGone` where things are started, for rows that are only so
   far behind. All other safety properties of the runs are theorems, where the
   prover can state them.
2. A fleet and an enrolment of its clones in one instance, over one `Enroll`.
