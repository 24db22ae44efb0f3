---------------------------- MODULE ConsolePane -----------------------------
(***************************************************************************)
(* The Screen pane of the window (gui.go: attachVNC, detachVNC, installVNC,*)
(* followConsole and the refresh that re-follows).                         *)
(*                                                                         *)
(* The pane follows the selection.  A connect (port lookup, ssh forward,   *)
(* dial) runs in a goroutine of its own and its outcome is delivered to    *)
(* the window's goroutine later, when the selection may have moved on; a   *)
(* goroutine per connection watches for its end; and the estate is read by *)
(* goroutines whose answers are applied in the order they arrive.          *)
(*                                                                         *)
(* A display belongs to one qemu process: when its machine stops, the       *)
(* connections to it are dead, whatever starts under that name later.      *)
(***************************************************************************)
EXTENDS Naturals, FiniteSets

CONSTANTS
  VM,       \* the machines
  MaxCPU,   \* bound: the CPU counter of a process
  Counted,  \* bound: the machines that use any CPU
  MaxDial,  \* bound: connects and consoles there are at once
  MaxFetch  \* bound: estate reads under way at once

NoVM == "none"

PaneAssumption ==
  /\ VM # {} /\ NoVM \notin VM /\ MaxCPU \in Nat /\ Counted \subseteq VM
  /\ MaxDial \in Nat /\ MaxFetch \in Nat \ {0}

Dial == 1..MaxDial

VARIABLES
  up, cpu,       \* the machines: running, the CPU counter of the process
  rows,          \* rows[v]: running, as the last applied read says
  fetched,       \* reads whose apply is not run yet
  sel,           \* st.selName
  con,           \* conName and conState
  last,          \* conLastName and conCPU
  dial,          \* dial[i]: a connect, and then the console it made
  want,          \* vncWant
  conn, name,    \* vncConn (the dial that made it, 0 for nil), vncName
  tunnel,        \* vncTunnel (likewise)
  openConn, openTunnel, \* sockets and ssh forwards not closed here
  pane           \* what the pane shows

machineVars == <<up, cpu>>
estateVars  == <<rows, fetched, sel, con, last>>
paneVars    == <<want, conn, name, tunnel, pane>>
vars == <<machineVars, estateVars, dial, paneVars, openConn, openTunnel>>

NoDial  == [vm |-> NoVM, st |-> "none", live |-> FALSE]
Text(k) == [kind |-> k, id |-> 0]

Init ==
  /\ up \in [VM -> BOOLEAN] /\ cpu = [v \in VM |-> 0]
  /\ rows = up /\ fetched = {}
  /\ sel = NoVM /\ con = [name |-> NoVM, run |-> FALSE] /\ last = [name |-> NoVM, cpu |-> 0]
  /\ dial = [i \in Dial |-> NoDial]
  /\ want = NoVM /\ conn = 0 /\ name = NoVM /\ tunnel = 0
  /\ openConn = {} /\ openTunnel = {}
  /\ pane = Text("hint")

-----------------------------------------------------------------------------
(* The machines.                                                           *)

Start(v) ==
  /\ ~up[v]
  /\ up' = [up EXCEPT ![v] = TRUE]
  /\ UNCHANGED <<cpu, estateVars, dial, paneVars, openConn, openTunnel>>

\* libvirt reports no CPU time for it then, and a new process starts at none.
Stop(v) ==
  /\ up[v]
  /\ up' = [up EXCEPT ![v] = FALSE]
  /\ cpu' = [cpu EXCEPT ![v] = 0]
  /\ dial' = [i \in Dial |-> IF dial[i].vm = v THEN [dial[i] EXCEPT !.live = FALSE] ELSE dial[i]]
  /\ UNCHANGED <<estateVars, paneVars, openConn, openTunnel>>

Burn(v) ==
  /\ up[v] /\ v \in Counted /\ cpu[v] < MaxCPU
  /\ cpu' = [cpu EXCEPT ![v] = @ + 1]
  /\ UNCHANGED <<up, estateVars, dial, paneVars, openConn, openTunnel>>

-----------------------------------------------------------------------------
(* attachVNC and detachVNC: parts of the steps that follow.                *)

\* The console and its ssh forward are closed.
DetachVNC ==
  /\ openConn' = openConn \ {conn}
  /\ openTunnel' = openTunnel \ {tunnel}
  /\ conn' = 0 /\ name' = NoVM /\ tunnel' = 0 /\ want' = NoVM
  /\ dial' = IF conn = 0 THEN dial ELSE [dial EXCEPT ![conn] = NoDial]

IsFree(i)  == dial[i] = NoDial
IsNext(i)  == IsFree(i) /\ \A j \in Dial : j < i => ~IsFree(j)

AttachVNC(v) ==
  IF \/ name = v /\ conn # 0       \* attached to it already
     \/ want = v /\ conn = 0       \* a connect is in flight
  THEN UNCHANGED <<dial, paneVars, openConn, openTunnel>>
  ELSE \E i \in Dial :
         /\ IsNext(i)
         /\ openConn' = openConn \ {conn}
         /\ openTunnel' = openTunnel \ {tunnel}
         /\ conn' = 0 /\ name' = NoVM /\ tunnel' = 0
         /\ want' = v
         /\ dial' = [j \in Dial |-> IF j = i THEN [vm |-> v, st |-> "dialling", live |-> FALSE]
                                   ELSE IF j = conn THEN NoDial ELSE dial[j]]
         /\ pane' = Text("connecting")

\* followConsole(r), r saying that v runs or not.
Follow(v, running) ==
  /\ con' = [name |-> v, run |-> running]
  /\ IF running THEN AttachVNC(v) ELSE DetachVNC /\ pane' = Text("off")

-----------------------------------------------------------------------------
(* The window's goroutine.                                                 *)

\* A row is selected, with what the last read said of it.
Select(v) ==
  /\ sel # v
  /\ sel' = v
  /\ Follow(v, rows[v])
  /\ UNCHANGED <<machineVars, rows, fetched, last>>

\* apply(): the rows, then the selected machine.  A new name, a new state or a
\* CPU counter that went backwards means following again.
Apply(s) ==
  /\ s \in fetched
  /\ fetched' = fetched \ {s}
  /\ rows' = s.up
  /\ IF sel = NoVM
     THEN UNCHANGED <<con, last, dial, paneVars, openConn, openTunnel>>
     ELSE /\ last' = [name |-> sel, cpu |-> s.cpu[sel]]
          /\ IF \/ sel # con.name
                \/ s.up[sel] # con.run
                \/ sel = last.name /\ s.cpu[sel] < last.cpu
             THEN Follow(sel, s.up[sel])
             ELSE UNCHANGED <<con, dial, paneVars, openConn, openTunnel>>
  /\ UNCHANGED <<machineVars, sel>>

Install(i) ==
  /\ dial' = [dial EXCEPT ![i].st = "shown"]
  /\ conn' = i /\ name' = dial[i].vm /\ tunnel' = i
  /\ pane' = [kind |-> "screen", id |-> i]
  /\ UNCHANGED <<want, openConn, openTunnel>>

ShowError(i) ==
  /\ dial' = [dial EXCEPT ![i] = NoDial]
  /\ want' = NoVM
  /\ pane' = Text("error")
  /\ UNCHANGED <<conn, name, tunnel, openConn, openTunnel>>

\* Mutant: a connect that is late is shown all the same.
DeliverAny(i) ==
  /\ \/ dial[i].st = "failed" /\ ShowError(i)
     \/ dial[i].st = "ready" /\ Install(i)
  /\ UNCHANGED <<machineVars, estateVars>>

DeliverQuietly(i) ==
  /\ \/ /\ dial[i].st = "failed" \/ (dial[i].st = "ready" /\ want # dial[i].vm)
        /\ dial' = [dial EXCEPT ![i] = NoDial]
        /\ openConn' = openConn \ {i} /\ openTunnel' = openTunnel \ {i}
        /\ UNCHANGED paneVars
     \/ dial[i].st = "ready" /\ want = dial[i].vm /\ Install(i)
  /\ UNCHANGED <<machineVars, estateVars>>

\* A connect is over.  One whose machine is no longer wanted is dropped; an
\* error goes in the pane; a connection is installed, with its forward.
Deliver(i) ==
  /\ \/ /\ dial[i].st \in {"ready", "failed"} /\ want # dial[i].vm
        /\ dial' = [dial EXCEPT ![i] = NoDial]
        /\ openConn' = openConn \ {i} /\ openTunnel' = openTunnel \ {i}
        /\ UNCHANGED paneVars
     \/ dial[i].st = "failed" /\ want = dial[i].vm /\ ShowError(i)
     \/ dial[i].st = "ready" /\ want = dial[i].vm /\ Install(i)
  /\ UNCHANGED <<machineVars, estateVars>>

\* Mutant: the watcher does not ask whether its console is still the pane's.
ConsoleEndedAny(i) ==
  /\ dial[i].st = "shown" /\ ~dial[i].live
  /\ dial' = [dial EXCEPT ![i].st = "ended"]
  /\ pane' = Text("ended")
  /\ UNCHANGED <<machineVars, estateVars, want, conn, name, tunnel, openConn, openTunnel>>

\* The watcher of a console that ended by itself: done is closed and Err() is
\* set.  It says so only if the console is still the pane's.
ConsoleEnded(i) ==
  /\ dial[i].st = "shown" /\ ~dial[i].live
  /\ dial' = [dial EXCEPT ![i].st = "ended"]
  /\ pane' = IF conn = i THEN Text("ended") ELSE pane
  /\ UNCHANGED <<machineVars, estateVars, want, conn, name, tunnel, openConn, openTunnel>>

-----------------------------------------------------------------------------
(* Other goroutines.                                                       *)

\* lv.Estate(), by the ticker or by refreshNow.
Fetch ==
  /\ Cardinality(fetched) < MaxFetch
  /\ fetched' = fetched \cup {[up |-> up, cpu |-> cpu]}
  /\ UNCHANGED <<machineVars, rows, sel, con, last, dial, paneVars, openConn, openTunnel>>

\* The connect itself: port, forward, dial.  It may fail, and closes the
\* forward again then.
Connect(i) ==
  /\ dial[i].st = "dialling"
  /\ \/ /\ up[dial[i].vm]
        /\ dial' = [dial EXCEPT ![i].st = "ready", ![i].live = TRUE]
        /\ openConn' = openConn \cup {i}
        /\ openTunnel' = openTunnel \cup {i}
     \/ dial' = [dial EXCEPT ![i].st = "failed"] /\ UNCHANGED <<openConn, openTunnel>>
  /\ UNCHANGED <<machineVars, estateVars, paneVars>>

-----------------------------------------------------------------------------
Next ==
  \/ \E v \in VM : Start(v) \/ Stop(v) \/ Burn(v) \/ Select(v)
  \/ \E s \in fetched : Apply(s)
  \/ \E i \in Dial : Deliver(i) \/ ConsoleEnded(i) \/ Connect(i)
  \/ Fetch

\* A connect, its delivery and the watcher of what it made, one after the other.
DialStep(i) == Connect(i) \/ Deliver(i) \/ ConsoleEnded(i)

\* Goroutines run to their end; the machines, the operator and the ticker are free.
Fairness == \A i \in Dial : WF_vars(DialStep(i))

Spec == Init /\ [][Next]_vars /\ Fairness

-----------------------------------------------------------------------------
(* Properties.                                                             *)

\* Every variable has its type, and nothing is open that no connect owns.
TypeOK ==
  /\ up \in [VM -> BOOLEAN] /\ cpu \in [VM -> 0..MaxCPU]
  /\ rows \in [VM -> BOOLEAN]
  /\ fetched \subseteq [up : [VM -> BOOLEAN], cpu : [VM -> 0..MaxCPU]]
  /\ sel \in VM \cup {NoVM} /\ want \in VM \cup {NoVM} /\ name \in VM \cup {NoVM}
  /\ con \in [name : VM \cup {NoVM}, run : BOOLEAN]
  /\ last \in [name : VM \cup {NoVM}, cpu : 0..MaxCPU]
  /\ dial \in [Dial -> [vm : VM \cup {NoVM}, live : BOOLEAN,
                        st : {"none", "dialling", "ready", "failed", "shown", "ended"}]]
  /\ conn \in 0..MaxDial /\ tunnel \in 0..MaxDial
  /\ openConn \subseteq Dial /\ openTunnel \subseteq Dial
  /\ \A i \in Dial : IsFree(i) => i \notin openConn \cup openTunnel \cup {conn, tunnel}
  /\ pane \in [kind : {"hint", "off", "connecting", "error", "ended", "screen"}, id : 0..MaxDial]

\* The screen in the pane is the followed machine's, over a connection and a
\* forward this program has not closed: what is typed there goes to the
\* machine the operator selected, however late a connect came back.
ScreenIsTheSelected ==
  pane.kind = "screen" =>
    /\ dial[pane.id].vm = con.name
    /\ con.run
    /\ conn = pane.id /\ pane.id \in openConn /\ pane.id \in openTunnel

\* A console that went away without being installed took its forward along.
ForwardHasConsole == openTunnel \subseteq openConn

\* A console that ended by itself is announced only while it is the pane's:
\* the end of an older one does not replace the screen of a newer.
EndIsOwn ==
  [][pane'.kind = "ended" /\ pane.kind # "ended" => conn # 0 /\ ~dial[conn].live]_vars

\* "connecting" gives way to a screen, an error or another machine.
ConnectSettles ==
  \A v \in VM : pane.kind = "connecting" /\ want = v ~> pane.kind # "connecting" \/ want # v

=============================================================================
