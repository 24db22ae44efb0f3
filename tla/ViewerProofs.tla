---------------------------- MODULE ViewerProofs ----------------------------
(***************************************************************************)
(* The screen of a machine in the window, for every number of machines,    *)
(* connects, sizes and messages: what MCViewer's run checks on a small one.*)
(* Each part has its invariant, and a step of another part leaves it alone.*)
(***************************************************************************)
EXTENDS MCViewer, FiniteSetTheorems, SequenceTheorems, TLAPS

-----------------------------------------------------------------------------
(* The painting (FramePaint): the repaints are bounded and the last frame   *)
(* is shown, for every number of rows and frames.                          *)

USE DEF Row

\* The first row is one, and a loop over the rows begins there.
LEMMA FirstRow == 1 \in Row /\ 1 \in 1..(Rows + 1) /\ 0 \in 0..MaxFrame
<1>1. Rows \in Nat /\ Rows # 0 /\ MaxFrame \in Nat
  BY PaintAssumption
<1> QED BY <1>1

\* The initial state: an empty image, nothing under way.
LEMMA InitIInv == Init => IInv
<1> SUFFICES ASSUME Init PROVE IInv
  OBVIOUS
<1>1. TypeOK
  <2>1. 1 \in 1..(Rows + 1) /\ 0 \in 0..MaxFrame
    BY FirstRow
  <2>2. [r \in Row |-> 0] \in [Row -> 0..MaxFrame]
    BY <2>1
  <2>3. img \in [Row -> 0..MaxFrame] /\ shown \in [Row -> 0..MaxFrame]
    BY <2>2 DEF Init
  <2>4. reader = "read" /\ frame = 0 /\ row = 1 /\ pending = FALSE
           /\ queue = 0 /\ ui = "idle" /\ urow = 1
    BY DEF Init
  <2>5. pending \in BOOLEAN
    BY <2>4
  <2>6. frame \in 0..MaxFrame /\ row \in 1..(Rows + 1) /\ urow \in 1..(Rows + 1)
    BY <2>1, <2>4
  <2>7. queue \in 0..1
    BY <2>4
  <2>8. reader \in {"read", "blit", "trigger", "queue"} /\ ui \in {"idle", "start", "paint"}
    BY <2>4
  <2> QED BY <2>3, <2>5, <2>6, <2>7, <2>8 DEF TypeOK
<1>2. OnePending /\ Blitted /\ Uploaded
  <2>1. OnePending
    BY DEF Init, OnePending
  <2>2. Blitted /\ Uploaded
    BY DEF Init, Blitted, Uploaded
  <2> QED BY <2>1, <2>2
<1> QED BY <1>1, <1>2 DEF IInv

\* What the read loop does keeps the invariant (Update, Blit, Trigger, Queue).
LEMMA ReaderKeepsIInv == IInv /\ ReaderStep => IInv'
<1> SUFFICES ASSUME IInv, ReaderStep PROVE IInv'
  OBVIOUS
<1>0. TypeOK /\ OnePending /\ Blitted /\ Uploaded
  BY DEF IInv
<1>1. CASE Update
  <2>1. TypeOK'
    BY <1>0, <1>1, PaintAssumption DEF TypeOK, Update, paintVars
  <2>2. OnePending'
    BY <1>0, <1>1 DEF OnePending, Update, paintVars
  <2>3. Blitted' /\ Uploaded'
    BY <1>0, <1>1, PaintAssumption DEF TypeOK, Blitted, Uploaded, Update, paintVars
  <2> QED BY <2>1, <2>2, <2>3 DEF IInv
<1>2. CASE Blit
  <2>1. row \in Row
    BY <1>0, <1>2 DEF Blitted, Blit
  <2>2. TypeOK'
    BY <1>0, <1>2, <2>1, PaintAssumption DEF TypeOK, Blit, paintVars
  <2>3. OnePending'
    BY <1>0, <1>2 DEF OnePending, Blit, paintVars
  <2>4. \A r \in Row : r < row + 1 => img'[r] = frame
    BY <1>0, <1>2, <2>1, PaintAssumption DEF TypeOK, Blitted, Blit
  <2>5. Blitted' /\ Uploaded'
    BY <1>0, <1>2, <2>1, <2>4, PaintAssumption DEF TypeOK, Blitted, Uploaded, Blit, paintVars
  <2> QED BY <2>2, <2>3, <2>5 DEF IInv
<1>3. CASE Trigger
  <2>1. TypeOK'
    BY <1>0, <1>3 DEF TypeOK, Trigger, paintVars
  <2>2. OnePending'
    BY <1>0, <1>3 DEF TypeOK, OnePending, Trigger, paintVars
  <2>3. Blitted' /\ Uploaded'
    BY <1>0, <1>3 DEF TypeOK, Blitted, Uploaded, Trigger, paintVars
  <2> QED BY <2>1, <2>2, <2>3 DEF IInv
<1>4. CASE Queue
  <2>1. queue = 0 /\ pending
    BY <1>0, <1>4 DEF OnePending, Queue
  <2>2. TypeOK'
    BY <1>0, <1>4, <2>1 DEF TypeOK, Queue, paintVars
  <2>3. OnePending'
    BY <1>0, <1>4, <2>1 DEF TypeOK, OnePending, Queue, paintVars
  <2>4. Blitted' /\ Uploaded'
    BY <1>0, <1>4, <2>1 DEF TypeOK, Blitted, Uploaded, Queue, paintVars
  <2> QED BY <2>2, <2>3, <2>4 DEF IInv
<1> QED BY <1>1, <1>2, <1>3, <1>4 DEF ReaderStep

\* What the window's goroutine does keeps it (Dequeue, Clear, Upload).
LEMMA UiKeepsIInv == IInv /\ UiStep => IInv'
<1> SUFFICES ASSUME IInv, UiStep PROVE IInv'
  OBVIOUS
<1>0. TypeOK /\ OnePending /\ Blitted /\ Uploaded
  BY DEF IInv
<1>1. CASE Dequeue
  <2>1. queue = 1
    BY <1>0, <1>1 DEF TypeOK, Dequeue
  <2>2. TypeOK' /\ OnePending'
    BY <1>0, <1>1, <2>1 DEF TypeOK, OnePending, Dequeue, readVars
  <2>3. Blitted' /\ Uploaded'
    BY <1>0, <1>1, <2>1 DEF TypeOK, Blitted, Uploaded, Dequeue, readVars
  <2> QED BY <2>2, <2>3 DEF IInv
<1>2. CASE Clear
  <2>0. reader # "queue" /\ queue = 0
    BY <1>0, <1>2 DEF TypeOK, OnePending, Clear
  <2>1. TypeOK' /\ OnePending'
    <3>1. TypeOK'
      BY <1>0, <1>2, FirstRow DEF TypeOK, Clear, readVars
    <3>2. OnePending'
      BY <2>0, <1>2 DEF OnePending, Clear, readVars
    <3> QED BY <3>1, <3>2
  <2>2. Blitted' /\ Uploaded'
    BY <1>0, <1>2, PaintAssumption DEF TypeOK, Blitted, Uploaded, Clear, readVars
  <2> QED BY <2>1, <2>2 DEF IInv
<1>3. CASE Upload
  <2>1. urow \in Row
    BY <1>0, <1>3 DEF Uploaded, Upload
  <2>2. TypeOK' /\ OnePending'
    BY <1>0, <1>3, <2>1, PaintAssumption DEF TypeOK, OnePending, Upload, readVars
  <2>3. Blitted'
    BY <1>0, <1>3 DEF TypeOK, Blitted, Upload, readVars
  <2>4. reader = "read" /\ ~pending => \A r \in Row : r < urow + 1 => shown'[r] = frame
    BY <1>0, <1>3, <2>1, PaintAssumption DEF TypeOK, Blitted, Uploaded, Upload
  <2>5. Uploaded'
    BY <1>0, <1>3, <2>1, <2>4, PaintAssumption DEF TypeOK, Uploaded, Upload, readVars
  <2> QED BY <2>2, <2>3, <2>5 DEF IInv
<1> QED BY <1>1, <1>2, <1>3 DEF UiStep

LEMMA PaintStepHolds == IInv /\ [Next]_vars => IInv'
<1> SUFFICES ASSUME IInv, [Next]_vars PROVE IInv'
  OBVIOUS
<1>1. CASE ReaderStep
  BY <1>1, ReaderKeepsIInv
<1>2. CASE UiStep
  BY <1>2, UiKeepsIInv
<1>3. CASE UNCHANGED vars
  BY <1>3 DEF vars, IInv, TypeOK, OnePending, Blitted, Uploaded
<1> QED
  BY <1>1, <1>2, <1>3 DEF Next

\* The last frame is on the screen when the invariant holds and nothing is under way.
LEMMA PaintShows == IInv => TypeOK /\ LastFrameShown
  BY DEF IInv, TypeOK, OnePending, Uploaded, LastFrameShown, Quiet

HIDE DEF Row

-----------------------------------------------------------------------------
(* The pane that follows the selection (ConsolePane).                      *)

Holding == {"ready", "shown", "ended"}

\* What each connect holds: a connection and a forward together, from the connect's
\* return until they are closed here.
DialOwns(i) ==
  /\ dial[i].st = "none" <=> dial[i] = Pan!NoDial
  /\ dial[i].st # "none" => dial[i].vm \in VM
  /\ i \in openConn <=> dial[i].st \in Holding
  /\ i \in openTunnel <=> dial[i].st \in Holding

\* The console of the pane, the machine that is wanted and the one the pane was told to
\* follow are the same, as far as they are there.
Followed ==
  /\ tunnel = conn
  /\ conn # 0 => /\ dial[conn].st \in {"shown", "ended"} /\ dial[conn].vm = name
                 /\ con = [name |-> name, run |-> TRUE] /\ want \in {name, Pan!NoVM}
  /\ want # Pan!NoVM => con = [name |-> want, run |-> TRUE]
  /\ screen.kind = "screen" => conn # 0 /\ screen.id = conn

PanInv == Pan!TypeOK /\ (\A i \in Pan!Dial : DialOwns(i)) /\ Followed

\* The screen is right when the invariant holds.
LEMMA PanShows == PanInv => Pan!ScreenIsTheSelected /\ Pan!ForwardHasConsole
<1> SUFFICES ASSUME PanInv PROVE Pan!ScreenIsTheSelected /\ Pan!ForwardHasConsole
  OBVIOUS
<1>1. Pan!ScreenIsTheSelected
  BY DEF PanInv, Pan!TypeOK, Pan!Dial, DialOwns, Followed, Holding, Pan!ScreenIsTheSelected
<1>2. Pan!ForwardHasConsole
  BY DEF PanInv, Pan!TypeOK, DialOwns, Pan!ForwardHasConsole
<1> QED
  BY <1>1, <1>2

\* Nothing is followed and nothing is open at the beginning.
LEMMA PanInitHolds == Pan!Init => PanInv
<1> SUFFICES ASSUME Pan!Init PROVE PanInv
  OBVIOUS
<1>1. MaxCPU \in Nat /\ MaxDial \in Nat /\ Pan!NoVM \notin VM
  BY ViewerAssumption DEF Pan!PaneAssumption
<1>2. Pan!TypeOK
  BY <1>1 DEF Pan!Init, Pan!TypeOK, Pan!NoDial, Pan!Text, Pan!IsFree, Pan!Dial
<1> QED
  BY <1>1, <1>2 DEF Pan!Init, PanInv, DialOwns, Followed, Pan!NoDial, Pan!Text, Holding, Pan!Dial

\* A machine is followed that runs: attached already, on its way, or a connect begins.
LEMMA PanAttach ==
  ASSUME PanInv, NEW v \in VM, Pan!Follow(v, TRUE),
         up' \in [VM -> BOOLEAN], cpu' \in [VM -> 0..MaxCPU], rows' \in [VM -> BOOLEAN],
         fetched' \subseteq [up : [VM -> BOOLEAN], cpu : [VM -> 0..MaxCPU]],
         sel' \in VM \cup {Pan!NoVM}, last' \in [name : VM \cup {Pan!NoVM}, cpu : 0..MaxCPU]
  PROVE  PanInv'
<1>1. con' = [name |-> v, run |-> TRUE] /\ Pan!AttachVNC(v)
  BY DEF Pan!Follow
<1>2. Pan!NoVM \notin VM /\ MaxDial \in Nat
  BY ViewerAssumption DEF Pan!PaneAssumption
<1>3. CASE \/ name = v /\ conn # 0
           \/ want = v /\ conn = 0
  BY <1>1, <1>2, <1>3 DEF PanInv, Pan!TypeOK, DialOwns, Followed, Pan!AttachVNC, Pan!paneVars,
    Pan!IsFree, Pan!Dial
<1>4. ASSUME ~(\/ name = v /\ conn # 0
               \/ want = v /\ conn = 0)
      PROVE PanInv'
  <2>1. PICK i \in Pan!Dial :
         /\ Pan!IsNext(i)
         /\ openConn' = openConn \ {conn}
         /\ openTunnel' = openTunnel \ {tunnel}
         /\ conn' = 0 /\ name' = Pan!NoVM /\ tunnel' = 0
         /\ want' = v
         /\ dial' = [j \in Pan!Dial |-> IF j = i THEN [vm |-> v, st |-> "dialling", live |-> FALSE]
                                   ELSE IF j = conn THEN Pan!NoDial ELSE dial[j]]
         /\ screen' = Pan!Text("connecting")
    BY <1>1, <1>4 DEF Pan!AttachVNC
  <2>2. i # conn /\ dial[i] = Pan!NoDial /\ tunnel = conn
    BY <2>1 DEF PanInv, Pan!TypeOK, Pan!IsNext, Pan!IsFree, Followed
  <2>3. \A j \in Pan!Dial : DialOwns(j)'
    BY <2>1, <2>2, <1>2 DEF PanInv, DialOwns, Holding, Pan!NoDial
  <2>4. Pan!TypeOK'
    <3>1. dial' \in [Pan!Dial -> [vm : VM \cup {Pan!NoVM}, live : BOOLEAN,
                        st : {"none", "dialling", "ready", "failed", "shown", "ended"}]]
      BY <2>1 DEF PanInv, Pan!TypeOK, Pan!NoDial
    <3>2. \A j \in Pan!Dial : Pan!IsFree(j)' => j \notin (openConn \cup openTunnel \cup {conn, tunnel})'
      <4> SUFFICES ASSUME NEW j \in Pan!Dial, Pan!IsFree(j)'
                   PROVE j \notin (openConn \cup openTunnel \cup {conn, tunnel})'
        OBVIOUS
      <4>1. dial'[j].st \notin Holding
        BY DEF Pan!IsFree, Pan!NoDial, Holding
      <4>2. j \notin openConn' /\ j \notin openTunnel'
        BY <2>3, <4>1 DEF DialOwns
      <4> QED
        BY <2>1, <4>2, <1>2 DEF Pan!Dial
    <3> QED
      BY <1>1, <1>2, <2>1, <3>1, <3>2 DEF PanInv, Pan!TypeOK, Pan!Text
  <2>5. Followed'
    BY <1>1, <2>1, <1>2 DEF Followed, Pan!Text
  <2> QED
    BY <2>3, <2>4, <2>5 DEF PanInv
<1> QED
  BY <1>3, <1>4

\* A machine is followed that does not run: the console and its forward are closed.
LEMMA PanDetach ==
  ASSUME PanInv, NEW v \in VM, Pan!Follow(v, FALSE),
         up' \in [VM -> BOOLEAN], cpu' \in [VM -> 0..MaxCPU], rows' \in [VM -> BOOLEAN],
         fetched' \subseteq [up : [VM -> BOOLEAN], cpu : [VM -> 0..MaxCPU]],
         sel' \in VM \cup {Pan!NoVM}, last' \in [name : VM \cup {Pan!NoVM}, cpu : 0..MaxCPU]
  PROVE  PanInv'
<1>1. con' = [name |-> v, run |-> FALSE] /\ Pan!DetachVNC /\ screen' = Pan!Text("off")
  BY DEF Pan!Follow
<1>2. Pan!NoVM \notin VM /\ MaxDial \in Nat
  BY ViewerAssumption DEF Pan!PaneAssumption
<1>3. dial' = [j \in Pan!Dial |-> IF j = conn THEN Pan!NoDial ELSE dial[j]]
  <2>1. dial = [j \in Pan!Dial |-> dial[j]] /\ 0 \notin Pan!Dial
    BY <1>2 DEF PanInv, Pan!TypeOK, Pan!Dial
  <2>2. CASE conn = 0
    BY <1>1, <2>1, <2>2 DEF Pan!DetachVNC
  <2>3. CASE conn # 0
    BY <1>1, <2>1, <2>3 DEF Pan!DetachVNC
  <2> QED
    BY <2>2, <2>3
<1>4. \A j \in Pan!Dial : DialOwns(j)'
  <2> SUFFICES ASSUME NEW j \in Pan!Dial PROVE DialOwns(j)'
    OBVIOUS
  <2>1. DialOwns(j) /\ tunnel = conn
    BY DEF PanInv, Followed
  <2>2. openConn' = openConn \ {conn} /\ openTunnel' = openTunnel \ {tunnel}
    BY <1>1 DEF Pan!DetachVNC
  <2> QED
    BY <1>3, <2>1, <2>2 DEF DialOwns, Holding, Pan!NoDial
<1>5. dial' \in [Pan!Dial -> [vm : VM \cup {Pan!NoVM}, live : BOOLEAN,
                      st : {"none", "dialling", "ready", "failed", "shown", "ended"}]]
  BY <1>3 DEF PanInv, Pan!TypeOK, Pan!NoDial
<1>6. \A j \in Pan!Dial : Pan!IsFree(j)' => j \notin (openConn \cup openTunnel \cup {conn, tunnel})'
  <2> SUFFICES ASSUME NEW j \in Pan!Dial, Pan!IsFree(j)'
               PROVE j \notin (openConn \cup openTunnel \cup {conn, tunnel})'
    OBVIOUS
  <2>1. dial'[j].st \notin Holding
    BY DEF Pan!IsFree, Pan!NoDial, Holding
  <2>2. j \notin openConn' /\ j \notin openTunnel'
    BY <1>4, <2>1 DEF DialOwns
  <2> QED
    BY <1>1, <2>2, <1>2 DEF Pan!Dial, Pan!DetachVNC
<1>7. Pan!TypeOK'
  BY <1>1, <1>2, <1>5, <1>6 DEF PanInv, Pan!TypeOK, Pan!Text, Pan!DetachVNC
<1>8. Followed'
  BY <1>1, <1>2 DEF Followed, Pan!Text, Pan!DetachVNC
<1> QED
  BY <1>4, <1>7, <1>8 DEF PanInv

\* Every step of the pane, of its goroutines and of the machines.
LEMMA PanStepHolds == PanInv /\ [Pan!Next]_paneVars => PanInv'
<1> SUFFICES ASSUME PanInv, [Pan!Next]_paneVars PROVE PanInv'
  OBVIOUS
<1>a. Pan!TypeOK /\ (\A i \in Pan!Dial : DialOwns(i)) /\ Followed
  BY DEF PanInv
<1>b. Pan!NoVM \notin VM /\ MaxDial \in Nat /\ MaxCPU \in Nat
  BY ViewerAssumption DEF Pan!PaneAssumption
<1> USE DEF Pan!machineVars, Pan!estateVars, Pan!paneVars
<1>1. CASE UNCHANGED paneVars
  BY <1>1, <1>a DEF paneVars, PanInv, Pan!TypeOK, DialOwns, Followed, Pan!IsFree
<1>2. ASSUME NEW v \in VM, Pan!Start(v) PROVE PanInv'
  BY <1>2, <1>a DEF Pan!Start, PanInv, Pan!TypeOK, DialOwns, Followed, Pan!IsFree
<1>3. ASSUME NEW v \in VM, Pan!Stop(v) PROVE PanInv'
  <2>1. \A i \in Pan!Dial : /\ dial'[i].vm = dial[i].vm /\ dial'[i].st = dial[i].st
                            /\ dial'[i] = Pan!NoDial <=> dial[i] = Pan!NoDial
    <3> SUFFICES ASSUME NEW i \in Pan!Dial
                 PROVE  /\ dial'[i].vm = dial[i].vm /\ dial'[i].st = dial[i].st
                        /\ dial'[i] = Pan!NoDial <=> dial[i] = Pan!NoDial
      OBVIOUS
    <3>1. dial'[i] = IF dial[i].vm = v THEN [dial[i] EXCEPT !.live = FALSE] ELSE dial[i]
      BY <1>3 DEF Pan!Stop
    <3>2. dial[i] \in [vm : VM \cup {Pan!NoVM}, live : BOOLEAN,
                       st : {"none", "dialling", "ready", "failed", "shown", "ended"}]
      BY <1>a DEF Pan!TypeOK
    <3> QED
      BY <3>1, <3>2, <1>b DEF Pan!NoDial
  <2>2. dial' \in [Pan!Dial -> [vm : VM \cup {Pan!NoVM}, live : BOOLEAN,
                        st : {"none", "dialling", "ready", "failed", "shown", "ended"}]]
    <3>1. \A i \in Pan!Dial : [dial[i] EXCEPT !.live = FALSE] \in
                 [vm : VM \cup {Pan!NoVM}, live : BOOLEAN,
                  st : {"none", "dialling", "ready", "failed", "shown", "ended"}]
      BY ZenonT(60), <1>a DEF Pan!TypeOK
    <3> QED
      BY <1>3, <3>1, <1>a DEF Pan!Stop, Pan!TypeOK
  <2>3. cpu' \in [VM -> 0..MaxCPU] /\ up' \in [VM -> BOOLEAN]
    BY <1>3, <1>a, <1>b DEF Pan!Stop, Pan!TypeOK
  <2>4. Pan!TypeOK'
    BY <1>3, <1>a, <2>1, <2>2, <2>3 DEF Pan!Stop, Pan!TypeOK, Pan!IsFree
  <2>5. (\A i \in Pan!Dial : DialOwns(i)') /\ Followed'
    BY <1>3, <1>a, <2>1 DEF Pan!Stop, DialOwns, Followed, Pan!TypeOK, Pan!Dial
  <2> QED
    BY <2>4, <2>5 DEF PanInv
<1>4. ASSUME NEW v \in VM, Pan!Burn(v) PROVE PanInv'
  BY <1>4, <1>a, <1>b DEF Pan!Burn, PanInv, Pan!TypeOK, DialOwns, Followed, Pan!IsFree
<1>5. ASSUME NEW v \in VM, Pan!Select(v) PROVE PanInv'
  <2>1. rows[v] \in BOOLEAN
    BY <1>a DEF Pan!TypeOK
  <2>2. CASE rows[v] = TRUE
    BY ZenonT(60), <1>5, <2>2, <1>a, PanAttach DEF Pan!Select, Pan!TypeOK
  <2>3. CASE rows[v] = FALSE
    BY <1>5, <2>3, <1>a, PanDetach DEF Pan!Select, Pan!TypeOK
  <2> QED
    BY <2>1, <2>2, <2>3
<1>6. ASSUME NEW s \in fetched, Pan!Apply(s) PROVE PanInv'
  <2>1. s \in [up : [VM -> BOOLEAN], cpu : [VM -> 0..MaxCPU]]
    BY <1>a DEF Pan!TypeOK
  <2>2. UNCHANGED <<up, cpu, sel>> /\ fetched' = fetched \ {s} /\ rows' = s.up
    BY <1>6 DEF Pan!Apply
  <2>3. CASE UNCHANGED <<con, dial, want, conn, name, tunnel, screen, openConn, openTunnel>>
    <3>1. last' \in [name : VM \cup {Pan!NoVM}, cpu : 0..MaxCPU]
      BY <1>6, <1>a, <2>1 DEF Pan!Apply, Pan!TypeOK
    <3> QED
      BY <2>1, <2>2, <2>3, <3>1, <1>a DEF PanInv, Pan!TypeOK, DialOwns, Followed, Pan!IsFree
  <2>4. CASE sel # Pan!NoVM /\ last' = [name |-> sel, cpu |-> s.cpu[sel]] /\ Pan!Follow(sel, s.up[sel])
    <3>1. sel \in VM /\ s.up[sel] \in BOOLEAN /\ s.cpu[sel] \in 0..MaxCPU
      BY <2>1, <2>4, <1>a DEF Pan!TypeOK
    <3>2. /\ up' \in [VM -> BOOLEAN] /\ cpu' \in [VM -> 0..MaxCPU] /\ rows' \in [VM -> BOOLEAN]
          /\ fetched' \subseteq [up : [VM -> BOOLEAN], cpu : [VM -> 0..MaxCPU]]
          /\ sel' \in VM \cup {Pan!NoVM} /\ last' \in [name : VM \cup {Pan!NoVM}, cpu : 0..MaxCPU]
      BY <2>1, <2>2, <2>4, <3>1, <1>a DEF Pan!TypeOK
    <3>3. CASE s.up[sel] = TRUE
      <4>1. Pan!Follow(sel, TRUE)
        BY <2>4, <3>3
      <4> QED
        BY <3>1, <3>2, <4>1, PanAttach
    <3>4. CASE s.up[sel] = FALSE
      <4>1. Pan!Follow(sel, FALSE)
        BY <2>4, <3>4
      <4> QED
        BY <3>1, <3>2, <4>1, PanDetach
    <3> QED
      BY <3>1, <3>3, <3>4
  <2> QED
    BY <1>6, <2>3, <2>4 DEF Pan!Apply
<1>7. ASSUME NEW i \in Pan!Dial, Pan!Deliver(i) PROVE PanInv'
  <2>t. dial[i] \in [vm : VM \cup {Pan!NoVM}, live : BOOLEAN,
                     st : {"none", "dialling", "ready", "failed", "shown", "ended"}]
    BY <1>a DEF Pan!TypeOK
  <2>1. CASE /\ dial[i].st \in {"ready", "failed"} /\ want # dial[i].vm
             /\ dial' = [dial EXCEPT ![i] = Pan!NoDial]
             /\ openConn' = openConn \ {i} /\ openTunnel' = openTunnel \ {i}
             /\ UNCHANGED <<want, conn, name, tunnel, screen>>
    <3>1. i # conn /\ tunnel = conn
      BY <2>1, <1>a, <1>b DEF Followed, Pan!Dial
    <3>2. \A j \in Pan!Dial : DialOwns(j)'
      BY <2>1, <1>a DEF DialOwns, Holding, Pan!NoDial, Pan!TypeOK
    <3>3. Pan!TypeOK'
      BY <1>7, <2>1, <3>1, <1>a DEF Pan!Deliver, Pan!TypeOK, Pan!IsFree, Pan!NoDial
    <3>4. Followed'
      BY <1>7, <2>1, <3>1, <1>a DEF Pan!Deliver, Followed, Pan!TypeOK, Pan!Dial
    <3> QED
      BY <3>2, <3>3, <3>4 DEF PanInv
  <2>2. CASE dial[i].st = "failed" /\ want = dial[i].vm /\ Pan!ShowError(i)
    <3>1. i # conn /\ tunnel = conn /\ i \notin openConn /\ i \notin openTunnel
      BY <2>2, <1>a, <1>b DEF Followed, Pan!Dial, DialOwns, Holding
    <3>2. \A j \in Pan!Dial : DialOwns(j)'
      BY <2>2, <1>a DEF Pan!ShowError, DialOwns, Holding, Pan!NoDial, Pan!TypeOK
    <3>3. Pan!TypeOK'
      BY <1>7, <2>2, <3>1, <1>a, <1>b DEF Pan!ShowError, Pan!Deliver, Pan!TypeOK, Pan!IsFree, Pan!NoDial, Pan!Text
    <3>4. Followed'
      BY <1>7, <2>2, <3>1, <1>a DEF Pan!ShowError, Pan!Deliver, Followed, Pan!TypeOK, Pan!Dial, Pan!Text
    <3> QED
      BY <3>2, <3>3, <3>4 DEF PanInv
  <2>3. CASE dial[i].st = "ready" /\ want = dial[i].vm /\ Pan!Install(i)
    <3>1. dial[i].vm \in VM /\ i \in openConn /\ i \in openTunnel /\ i # 0
      BY <2>3, <1>a, <1>b DEF DialOwns, Holding, Pan!Dial
    <3>2. /\ dial' = [dial EXCEPT ![i] = [@ EXCEPT !.st = "shown"]]
          /\ dial'[i].st = "shown" /\ dial'[i].vm = dial[i].vm
          /\ \A j \in Pan!Dial : j # i => dial'[j] = dial[j]
      BY <2>3, <2>t, <1>a DEF Pan!Install, Pan!TypeOK
    <3>3. \A j \in Pan!Dial : DialOwns(j)'
      <4>1. dial'[i] # Pan!NoDial
        BY <3>2 DEF Pan!NoDial
      <4> QED
        BY <2>3, <3>1, <3>2, <4>1, <1>a DEF Pan!Install, DialOwns, Holding
    <3>4. Pan!TypeOK'
      <4>1. dial' \in [Pan!Dial -> [vm : VM \cup {Pan!NoVM}, live : BOOLEAN,
                        st : {"none", "dialling", "ready", "failed", "shown", "ended"}]]
        BY <3>2, <2>t, <1>a DEF Pan!TypeOK
      <4>2. dial'[i] # Pan!NoDial
        BY <3>2 DEF Pan!NoDial
      <4>3. \A j \in Pan!Dial : Pan!IsFree(j)' => j \notin (openConn \cup openTunnel \cup {conn, tunnel})'
        BY <2>3, <3>2, <4>2, <1>a DEF Pan!Install, Pan!TypeOK, Pan!IsFree
      <4>4. screen' = [kind |-> "screen", id |-> i] /\ i \in 0..MaxDial
        BY <2>3, <1>b DEF Pan!Install, Pan!Dial
      <4> QED
        BY <1>7, <2>3, <2>t, <3>1, <4>1, <4>3, <4>4, <1>a DEF Pan!Install, Pan!Deliver, Pan!TypeOK
    <3>5. Followed'
      BY <1>7, <2>3, <3>1, <3>2, <1>a, <1>b DEF Pan!Install, Pan!Deliver, Followed
    <3> QED
      BY <3>3, <3>4, <3>5 DEF PanInv
  <2> QED
    BY <1>7, <2>1, <2>2, <2>3 DEF Pan!Deliver
<1>8. ASSUME NEW i \in Pan!Dial, Pan!ConsoleEnded(i) PROVE PanInv'
  <2>1. /\ dial'[i].st = "ended" /\ dial'[i].vm = dial[i].vm
        /\ \A j \in Pan!Dial : j # i => dial'[j] = dial[j]
    BY <1>8, <1>a DEF Pan!ConsoleEnded, Pan!TypeOK
  <2>2. \A j \in Pan!Dial : DialOwns(j)'
    <3>1. dial'[i] # Pan!NoDial
      BY <2>1 DEF Pan!NoDial
    <3> QED
      BY <1>8, <2>1, <3>1, <1>a DEF Pan!ConsoleEnded, DialOwns, Holding
  <2>3. Pan!TypeOK'
    BY <1>8, <2>1, <1>a, <1>b DEF Pan!ConsoleEnded, Pan!TypeOK, Pan!IsFree, Pan!NoDial, Pan!Text
  <2>4. Followed'
    BY <1>8, <2>1, <1>a, <1>b DEF Pan!ConsoleEnded, Followed, Pan!Text, Pan!TypeOK, Pan!Dial
  <2> QED
    BY <2>2, <2>3, <2>4 DEF PanInv
<1>9. ASSUME NEW i \in Pan!Dial, Pan!Connect(i) PROVE PanInv'
  <2>1. i # conn /\ dial[i].st = "dialling"
    BY <1>9, <1>a, <1>b DEF Pan!Connect, Followed, Pan!Dial
  <2>2. /\ dial'[i].st \in {"ready", "failed"} /\ dial'[i].vm = dial[i].vm
        /\ \A j \in Pan!Dial : j # i => dial'[j] = dial[j]
        /\ dial' \in [Pan!Dial -> [vm : VM \cup {Pan!NoVM}, live : BOOLEAN,
                        st : {"none", "dialling", "ready", "failed", "shown", "ended"}]]
    BY <1>9, <1>a DEF Pan!Connect, Pan!TypeOK
  <2>3. \A j \in Pan!Dial : DialOwns(j)'
    BY <1>9, <2>1, <2>2, <1>a DEF Pan!Connect, DialOwns, Holding, Pan!NoDial, Pan!TypeOK
  <2>4. Pan!TypeOK'
    BY <1>9, <2>1, <2>2, <1>a, <1>b DEF Pan!Connect, Pan!TypeOK, Pan!IsFree, Pan!NoDial
  <2>5. Followed'
    BY <1>9, <2>1, <2>2, <1>a, <1>b DEF Pan!Connect, Followed, Pan!TypeOK, Pan!Dial
  <2> QED
    BY <2>3, <2>4, <2>5 DEF PanInv
<1>10. CASE Pan!Fetch
  BY <1>10, <1>a DEF Pan!Fetch, PanInv, Pan!TypeOK, DialOwns, Followed, Pan!IsFree
<1> QED
  BY <1>1, <1>2, <1>3, <1>4, <1>5, <1>6, <1>7, <1>8, <1>9, <1>10 DEF Pan!Next

\* Only the watcher of the pane's own console says that it ended.
LEMMA PanEnds ==
  PanInv /\ [Pan!Next]_paneVars =>
    (screen'.kind = "ended" /\ screen.kind # "ended" => conn # 0 /\ ~dial[conn].live)
<1> SUFFICES ASSUME PanInv, Pan!Next, screen'.kind = "ended", screen.kind # "ended"
             PROVE  conn # 0 /\ ~dial[conn].live
  BY DEF paneVars
<1> USE DEF Pan!paneVars, Pan!Text
<1>1. ASSUME NEW v \in VM, NEW r \in BOOLEAN, Pan!Follow(v, r) PROVE FALSE
  BY <1>1 DEF Pan!Follow, Pan!AttachVNC
<1>2. ASSUME NEW v \in VM, Pan!Start(v) \/ Pan!Stop(v) \/ Pan!Burn(v) PROVE FALSE
  BY <1>2 DEF Pan!Start, Pan!Stop, Pan!Burn
<1>3. ASSUME NEW v \in VM, Pan!Select(v) PROVE FALSE
  BY <1>3, <1>1 DEF Pan!Select, PanInv, Pan!TypeOK
<1>4. ASSUME NEW s \in fetched, Pan!Apply(s) PROVE FALSE
  <2>1. s \in [up : [VM -> BOOLEAN], cpu : [VM -> 0..MaxCPU]] /\ sel \in VM \cup {Pan!NoVM}
    BY DEF PanInv, Pan!TypeOK
  <2>2. sel \in VM /\ Pan!Follow(sel, s.up[sel])
    BY <2>1, <1>4 DEF Pan!Apply
  <2> QED
    BY <2>1, <2>2, <1>1
<1>5. ASSUME NEW i \in Pan!Dial, Pan!Deliver(i) \/ Pan!Connect(i) PROVE FALSE
  BY <1>5 DEF Pan!Deliver, Pan!Install, Pan!ShowError, Pan!Connect
<1>6. ASSUME NEW i \in Pan!Dial, Pan!ConsoleEnded(i) PROVE conn # 0 /\ ~dial[conn].live
  <2>1. conn = i /\ i # 0
    BY <1>6, ViewerAssumption DEF Pan!ConsoleEnded, Pan!Dial, Pan!PaneAssumption
  <2> QED
    BY <1>6, <2>1 DEF Pan!ConsoleEnded
<1>7. ASSUME Pan!Fetch PROVE FALSE
  BY <1>7 DEF Pan!Fetch
<1> QED
  BY <1>2, <1>3, <1>4, <1>5, <1>6, <1>7 DEF Pan!Next

-----------------------------------------------------------------------------
(* The guest's screen follows the pane (RfbResize).                        *)

\* What the framebuffer will be when the answers on their way are read: that of the
\* last one that is not a refusal, or what it is, and it is the guest's.
Settled ==
  \/ \E i \in DOMAIN toClient : /\ toClient[i].ok /\ toClient[i].size = guest
                                /\ \A j \in DOMAIN toClient : j > i => ~toClient[j].ok
  \/ fb = guest /\ \A i \in DOMAIN toClient : ~toClient[i].ok

\* A server is asked that announced, and one that has answered had.
Announced == (toServer # <<>> \/ \E a \in ask : a.checked) => extOK

\* A request that crossed nothing is alone: nobody has looked at it yet, it was
\* found to be for another size, or it is on its way to a guest of another size.
Alone ==
  ~crossed =>
    \/ /\ toServer = <<>> /\ toClient = <<>>
       /\ \A a, b \in ask : a = b
       /\ \A a \in ask : a.checked => a.size # guest
    \/ ask = {} /\ toClient = <<>> /\ Len(toServer) = 1 /\ Head(toServer) # guest
    \/ ask = {} /\ toServer = <<>>

FitInv == Fit!TypeOK /\ Settled /\ Announced /\ Alone

LEMMA FitAgrees == FitInv => Fit!SizesAgree /\ Fit!AskedOnlyIfAnnounced
  BY DEF FitInv, Settled, Announced, Fit!SizesAgree, Fit!AskedOnlyIfAnnounced

\* A server announces before anything is asked, or it never does.
LEMMA FitInitHolds == Fit!Init => FitInv
<1> SUFFICES ASSUME Fit!Init PROVE FitInv
  OBVIOUS
<1>1. MaxResize \in Nat /\ MaxOwn \in Nat /\ guest \in Size /\ extends \in BOOLEAN
  BY ViewerAssumption DEF Fit!ResizeAssumption, Fit!Init
<1>2. toClient \in Seq(Fit!Rect) /\ toServer = <<>> /\ ask = {} /\ fb = guest
  <2>1. [ext |-> TRUE, ok |-> TRUE, size |-> guest] \in Fit!Rect
    BY <1>1 DEF Fit!Rect
  <2>2. \A r \in Fit!Rect : <<r>> \in Seq(Fit!Rect)
    OBVIOUS
  <2>3. <<>> \in Seq(Fit!Rect)
    OBVIOUS
  <2>4. toClient = <<>> \/ toClient = <<[ext |-> TRUE, ok |-> TRUE, size |-> guest]>>
    BY DEF Fit!Init
  <2>5. toServer = <<>> /\ ask = {} /\ fb = guest
    BY DEF Fit!Init
  <2> QED
    BY <2>1, <2>2, <2>3, <2>4, <2>5
<1>3. Fit!TypeOK
  <2>1. extOK = FALSE /\ lapsed = FALSE /\ err = FALSE /\ crossed = FALSE
    BY DEF Fit!Init
  <2>2. pane \in Size /\ timer \in Size /\ resizes = 0 /\ fb \in Size /\ ask = {}
    BY <1>1 DEF Fit!Init
  <2>3. toServer \in Seq(Size) /\ 0 \in 0..MaxResize /\ 0 \in 0..MaxOwn /\ owns = 0 /\ extends \in BOOLEAN
    BY <1>1, <1>2 DEF Fit!Init
  <2> QED
    BY <1>1, <1>2, <2>1, <2>2, <2>3 DEF Fit!TypeOK
<1>4. Settled
  <2>1. CASE toClient = <<>>
    BY <1>2, <2>1 DEF Settled
  <2>2. CASE toClient = <<[ext |-> TRUE, ok |-> TRUE, size |-> guest]>>
    <3>1. DOMAIN toClient = {1} /\ toClient[1].ok /\ toClient[1].size = guest
      BY <2>2
    <3> QED
      BY <3>1 DEF Settled
  <2> QED
    BY <2>1, <2>2 DEF Fit!Init
<1> QED
  BY <1>2, <1>3, <1>4 DEF FitInv, Announced, Alone

\* Every step of the viewer, the connection and the server.
LEMMA FitStepHolds == FitInv /\ [Fit!Next]_fitVars => FitInv'
<1> SUFFICES ASSUME FitInv, [Fit!Next]_fitVars PROVE FitInv'
  OBVIOUS
<1>a. Fit!TypeOK /\ Settled /\ Announced /\ Alone
  BY DEF FitInv
<1>b. MaxResize \in Nat /\ MaxOwn \in Nat /\ Mode \subseteq Size /\ Fit!NoSize \notin Size
  BY ViewerAssumption DEF Fit!ResizeAssumption
<1>c. toServer \in Seq(Size) /\ toClient \in Seq(Fit!Rect) /\ ask \subseteq [size : Size, checked : BOOLEAN]
  BY <1>a DEF Fit!TypeOK
<1> USE DEF Fit!operatorVars, Fit!serverVars, Fit!ownVars
<1>1. CASE UNCHANGED fitVars
  BY <1>1, <1>a DEF fitVars, FitInv, Fit!TypeOK, Settled, Announced, Alone
<1>2. ASSUME NEW s \in Size, Fit!Resize(s) PROVE FitInv'
  BY <1>2, <1>a, <1>b DEF Fit!Resize, FitInv, Fit!TypeOK, Settled, Announced, Alone
<1>3. CASE Fit!Fire
  <2>1. Fit!TypeOK'
    <3>1. crossed' \in BOOLEAN
      BY <1>3 DEF Fit!Fire
    <3>2. [size |-> timer, checked |-> FALSE] \in [size : Size, checked : BOOLEAN]
      BY <1>3, <1>a DEF Fit!Fire, Fit!TypeOK
    <3> QED
      BY <1>3, <1>a, <3>1, <3>2 DEF Fit!Fire, Fit!TypeOK
  <2>2. Settled' /\ Announced'
    BY <1>3, <1>a DEF Fit!Fire, Settled, Announced
  <2>3. Alone'
    <3> SUFFICES ASSUME ~crossed' PROVE Alone'
      BY DEF Alone
    <3>1. toServer = <<>> /\ toClient = <<>> /\ ask = {}
      BY <1>3 DEF Fit!Fire, Fit!Answered
    <3>2. toServer' = <<>> /\ toClient' = <<>> /\ ask' = {[size |-> timer, checked |-> FALSE]}
      BY <1>3, <3>1 DEF Fit!Fire
    <3> QED
      BY <3>2 DEF Alone
  <2> QED
    BY <2>1, <2>2, <2>3 DEF FitInv
<1>4. ASSUME NEW a \in ask, Fit!Check(a) PROVE FitInv'
  <2>1. /\ a \in [size : Size, checked : BOOLEAN]
        /\ ask' \subseteq (ask \ {a}) \cup {[a EXCEPT !.checked = TRUE]}
        /\ [a EXCEPT !.checked = TRUE] \in ask' => (extOK /\ fb # a.size) \/ [a EXCEPT !.checked = TRUE] \in ask
        /\ [a EXCEPT !.checked = TRUE].size = a.size
    BY <1>4, <1>c DEF Fit!Check
  <2>2. Fit!TypeOK' /\ Settled'
    BY <1>4, <2>1, <1>a, <1>c DEF Fit!Check, Fit!TypeOK, Settled
  <2>3. Announced'
    BY <1>4, <2>1, <1>a DEF Fit!Check, Announced
  <2>4. Alone'
    <3> SUFFICES ASSUME ~crossed PROVE Alone'
      BY <1>4 DEF Alone, Fit!Check
    <3>1. toServer = <<>> /\ toClient = <<>> /\ (\A b \in ask : b = a)
      BY <1>a DEF Alone
    <3>2. fb = guest
      BY <3>1, <1>a DEF Settled
    <3>3. ask' = {} \/ (ask' = {[a EXCEPT !.checked = TRUE]} /\ fb # a.size)
      BY <1>4, <3>1 DEF Fit!Check
    <3>4. UNCHANGED <<toServer, toClient, guest>>
      BY <1>4 DEF Fit!Check
    <3> QED
      BY <2>1, <3>1, <3>2, <3>3, <3>4 DEF Alone
  <2> QED
    BY <2>2, <2>3, <2>4 DEF FitInv
<1>5. ASSUME NEW a \in ask, Fit!Send(a) PROVE FitInv'
  <2>1. a \in [size : Size, checked : BOOLEAN] /\ a.checked /\ ask' = ask \ {a} /\ extOK
    BY <1>5, <1>a, <1>c DEF Fit!Send, Announced
  <2>2. UNCHANGED <<toClient, guest, fb, extOK, crossed>> /\ (toServer' = toServer \/ toServer' = Append(toServer, a.size))
    BY <1>5 DEF Fit!Send
  <2>3. Fit!TypeOK'
    <3>1. toServer' \in Seq(Size) /\ ask' \subseteq [size : Size, checked : BOOLEAN]
      BY <2>1, <2>2, <1>c
    <3>2. err' \in BOOLEAN
      BY <1>5, <1>a DEF Fit!Send, Fit!TypeOK
    <3> QED
      BY <1>5, <3>1, <3>2, <1>a DEF Fit!Send, Fit!TypeOK
  <2>4. Settled' /\ Announced'
    BY <2>1, <2>2, <1>a DEF Settled, Announced
  <2>5. Alone'
    <3> SUFFICES ASSUME ~crossed PROVE Alone'
      BY <2>2 DEF Alone
    <3>1. toServer = <<>> /\ toClient = <<>> /\ (\A b \in ask : b = a) /\ a.size # guest
      BY <2>1, <1>a DEF Alone
    <3>2. ask' = {} /\ toClient' = <<>>
      BY <2>1, <2>2, <3>1
    <3>3. CASE toServer' = toServer
      BY <3>1, <3>2, <3>3 DEF Alone
    <3>4. CASE toServer' = Append(toServer, a.size)
      <4>1. Append(<<>>, a.size) = <<a.size>> /\ Len(<<a.size>>) = 1 /\ Head(<<a.size>>) = a.size
        OBVIOUS
      <4>2. toServer' = <<a.size>> /\ guest' = guest
        BY <2>2, <3>1, <3>4, <4>1
      <4> QED
        BY <3>1, <3>2, <4>1, <4>2 DEF Alone
    <3> QED
      BY <2>2, <3>3, <3>4
  <2> QED
    BY <2>3, <2>4, <2>5 DEF FitInv
<1>6. CASE Fit!ReadRect
  <2>1. /\ toClient # <<>> /\ toClient' = Tail(toClient) /\ extOK' = (extOK \/ Head(toClient).ext)
        /\ fb' = IF Head(toClient).ok THEN Head(toClient).size ELSE fb
        /\ UNCHANGED <<pane, resizes, timer, ask, guest, owns, extends, toServer, err, crossed>> /\ lapsed' = FALSE
    BY <1>6 DEF Fit!ReadRect
  <2>2. /\ Head(toClient) = toClient[1] /\ toClient[1] \in Fit!Rect /\ toClient' \in Seq(Fit!Rect)
        /\ Len(toClient) \in Nat \ {0} /\ Len(toClient') = Len(toClient) - 1
        /\ \A i \in 1..Len(toClient') : toClient'[i] = toClient[i + 1]
        /\ DOMAIN toClient = 1..Len(toClient) /\ DOMAIN toClient' = 1..Len(toClient')
    BY <2>1, <1>c
  <2>3. Fit!TypeOK'
    BY <2>1, <2>2, <1>a DEF Fit!TypeOK, Fit!Rect
  <2>4. Settled'
    <3>1. CASE fb = guest /\ \A i \in DOMAIN toClient : ~toClient[i].ok
      BY <2>1, <2>2, <3>1 DEF Settled
    <3>2. ASSUME NEW i \in DOMAIN toClient, toClient[i].ok, toClient[i].size = guest,
                 \A j \in DOMAIN toClient : j > i => ~toClient[j].ok
          PROVE  Settled'
      <4>1. CASE i = 1
        BY <2>1, <2>2, <3>2, <4>1 DEF Settled
      <4>2. CASE i # 1
        <5>1. i - 1 \in DOMAIN toClient' /\ toClient'[i - 1] = toClient[i]
          BY <2>2, <4>2
        <5>2. \A j \in DOMAIN toClient' : j > i - 1 => ~toClient'[j].ok
          BY <2>2, <3>2
        <5> QED
          BY <2>1, <3>2, <5>1, <5>2 DEF Settled
      <4> QED
        BY <4>1, <4>2
    <3> QED
      BY <3>1, <3>2, <1>a DEF Settled
  <2>5. Announced' /\ Alone'
    BY <2>1, <2>2, <1>a DEF Announced, Alone
  <2> QED
    BY <2>3, <2>4, <2>5 DEF FitInv
<1>7. CASE Fit!Traffic \/ Fit!Lapse
  BY <1>7, <1>a DEF Fit!Traffic, Fit!Lapse, FitInv, Fit!TypeOK, Settled, Announced, Alone
<1>8. CASE Fit!Serve
  <2>1. /\ toServer # <<>> /\ toServer' = Tail(toServer) /\ toServer' \in Seq(Size) /\ Head(toServer) \in Size
        /\ UNCHANGED <<pane, resizes, timer, ask, extOK, fb, owns, extends, lapsed, err, crossed>>
        /\ Len(toServer) = 1 => toServer' = <<>>
    BY <1>8, <1>c DEF Fit!Serve
  <2>2. PICK r \in Fit!Rect :
          /\ toClient' = Append(toClient, r)
          /\ \/ r.ok /\ guest' = r.size
             \/ ~r.ok /\ guest' = guest
    <3>1. CASE Head(toServer) \in Mode
      <4>1. [ext |-> extends, ok |-> TRUE, size |-> Head(toServer)] \in Fit!Rect
        BY <2>1, <1>a DEF Fit!Rect, Fit!TypeOK
      <4> QED
        BY <1>8, <3>1, <4>1 DEF Fit!Serve
    <3>2. CASE Head(toServer) \notin Mode
      <4>1. PICK any \in Size : toClient' = Append(toClient, [ext |-> extends, ok |-> FALSE, size |-> any]) /\ guest' = guest
        BY <1>8, <3>2 DEF Fit!Serve
      <4>2. [ext |-> extends, ok |-> FALSE, size |-> any] \in Fit!Rect
        BY <1>a DEF Fit!Rect, Fit!TypeOK
      <4> QED
        BY <4>1, <4>2
    <3> QED
      BY <3>1, <3>2
  <2>3. /\ toClient' \in Seq(Fit!Rect) /\ Len(toClient) \in Nat /\ Len(toClient') = Len(toClient) + 1
        /\ \A i \in 1..Len(toClient) : toClient'[i] = toClient[i]
        /\ toClient'[Len(toClient')] = r
        /\ DOMAIN toClient = 1..Len(toClient) /\ DOMAIN toClient' = 1..Len(toClient')
    BY <2>2, <1>c
  <2>4. Fit!TypeOK'
    BY <2>1, <2>2, <2>3, <1>a DEF Fit!TypeOK, Fit!Rect
  <2>5. Settled'
    <3>1. CASE r.ok
      BY <2>1, <2>2, <2>3, <3>1 DEF Settled
    <3>2. CASE ~r.ok
      BY <2>1, <2>2, <2>3, <3>2, <1>a DEF Settled
    <3> QED
      BY <3>1, <3>2
  <2>6. Announced' /\ Alone'
    BY <2>1, <1>a DEF Announced, Alone
  <2> QED
    BY <2>4, <2>5, <2>6 DEF FitInv
<1>9. ASSUME NEW s \in Size, Fit!Own(s) PROVE FitInv'
  <2> DEFINE r == [ext |-> extends, ok |-> TRUE, size |-> s]
  <2>1. /\ guest' = s /\ owns < MaxOwn /\ owns' = owns + 1 /\ crossed' = TRUE /\ toClient' = Append(toClient, r)
        /\ UNCHANGED <<pane, resizes, timer, ask, extOK, fb, extends, toServer, lapsed, err>>
    BY <1>9 DEF Fit!Own
  <2>2. r \in Fit!Rect /\ r.ok /\ r.size = s
    BY <1>a DEF Fit!Rect, Fit!TypeOK
  <2> HIDE DEF r
  <2>3. /\ toClient' \in Seq(Fit!Rect) /\ Len(toClient) \in Nat /\ Len(toClient') = Len(toClient) + 1
        /\ toClient'[Len(toClient')] = r /\ DOMAIN toClient' = 1..Len(toClient')
    BY <2>1, <2>2, <1>c
  <2>4. owns' \in 0..MaxOwn
    BY <2>1, <1>a, <1>b DEF Fit!TypeOK
  <2>5. Fit!TypeOK'
    BY <2>1, <2>3, <2>4, <1>a DEF Fit!TypeOK
  <2>6. Settled'
    BY <2>1, <2>2, <2>3 DEF Settled
  <2>7. Announced' /\ Alone'
    BY <2>1, <1>a DEF Announced, Alone
  <2> QED
    BY <2>5, <2>6, <2>7 DEF FitInv
<1> QED
  BY <1>1, <1>2, <1>3, <1>4, <1>5, <1>6, <1>7, <1>8, <1>9 DEF Fit!Next

\* A request that the server takes is for another size than the guest's, unless it
\* crossed an answer.
LEMMA FitServes == FitInv => (~crossed /\ toServer # <<>> => Head(toServer) # guest)
  BY DEF FitInv, Alone

-----------------------------------------------------------------------------
(* The keyboard (Keyboard).                                                *)

Mods == down \cap Keys!modSyms
Told == IF focus THEN hand ELSE {}

\* What the guest takes to be held is, or a paste is typing its Control.
HeldOrTyped == Mods \subseteq Told \cup (IF Keys!Typing = {} THEN {} ELSE {"ctrl"})

\* What was pressed over the console with no paste since was told.
SureIsTold == sure \subseteq down /\ (sure # {} => Keys!NoPaste /\ focus)

\* A paste that nothing came between finds its own Control, or another paste's.
PasteAlone(i) ==
  ~paste[i].crossed =>
    /\ paste[i].pc \in {"wait", "ctrl"} => Mods \subseteq {"ctrl"}
    /\ paste[i].pc = "v" => Mods = {"ctrl"}

KeysInv ==
  /\ Keys!TypeOK /\ HeldOrTyped /\ SureIsTold /\ \A i \in Keys!Pastes : PasteAlone(i)
  /\ Keys!TapsAsHeld /\ Keys!PasteIsCtrlV

LEMMA KeysAgree == KeysInv => Keys!NoStuckModifier
  BY DEF KeysInv, HeldOrTyped, Mods, Told, Keys!NoStuckModifier

LEMMA KeysInitHolds == Keys!Init => KeysInv
<1> SUFFICES ASSUME Keys!Init PROVE KeysInv
  OBVIOUS
<1>1. 0 \in 0..MaxPress /\ 0 \in 0..MaxTap /\ 0 \in 0..MaxBlur
  BY ViewerAssumption DEF Keys!KeyboardAssumption
<1>2. Keys!TypeOK
  BY <1>1 DEF Keys!Init, Keys!TypeOK, Keys!Idle, Keys!Nothing
<1>3. HeldOrTyped /\ SureIsTold /\ \A i \in Keys!Pastes : PasteAlone(i)
  BY DEF Keys!Init, HeldOrTyped, SureIsTold, PasteAlone, Mods, Keys!Idle
<1> QED
  BY <1>2, <1>3 DEF Keys!Init, KeysInv, Keys!TapsAsHeld, Keys!PasteIsCtrlV, Keys!Nothing

\* What a step makes of the pastes that it comes between.
LEMMA CrossedPastes ==
  ASSUME Keys!TypeOK, NEW P
  PROVE  /\ Keys!Crossed(P) \in [Keys!Pastes -> [pc : {"none", "wait", "ctrl", "v", "up", "done"}, crossed : BOOLEAN]]
         /\ \A i \in Keys!Pastes : /\ Keys!Crossed(P)[i].pc = paste[i].pc
                                   /\ Keys!Crossed(P)[i].crossed = (i \in P \/ paste[i].crossed)
<1>1. ASSUME NEW i \in Keys!Pastes
      PROVE  LET r == IF i \in P THEN [paste[i] EXCEPT !.crossed = TRUE] ELSE paste[i]
             IN  /\ r \in [pc : {"none", "wait", "ctrl", "v", "up", "done"}, crossed : BOOLEAN]
                 /\ r.pc = paste[i].pc
                 /\ r.crossed = (i \in P \/ paste[i].crossed)
  <2>1. paste[i] \in [pc : {"none", "wait", "ctrl", "v", "up", "done"}, crossed : BOOLEAN]
    BY DEF Keys!TypeOK
  <2>2. CASE i \in P
    BY <2>1, <2>2
  <2>3. CASE i \notin P
    BY <2>1, <2>3
  <2> QED
    BY <2>2, <2>3
<1> QED
  BY <1>1 DEF Keys!Crossed

\* Every step of the operator and of a paste.
LEMMA KeysStepHolds == KeysInv /\ [Keys!Next]_keyVars => KeysInv'
<1> SUFFICES ASSUME KeysInv, [Keys!Next]_keyVars PROVE KeysInv'
  OBVIOUS
<1>a. /\ Keys!TypeOK /\ HeldOrTyped /\ SureIsTold /\ (\A i \in Keys!Pastes : PasteAlone(i))
      /\ Keys!TapsAsHeld /\ Keys!PasteIsCtrlV
  BY DEF KeysInv
<1>b. MaxPress \in Nat /\ MaxTap \in Nat /\ MaxPaste \in Nat /\ MaxBlur \in Nat
  BY ViewerAssumption DEF Keys!KeyboardAssumption
<1>c. Keys!modSyms = {"ctrl", "shift"} /\ Keys!modKeysyms = {"ctrl", "shift", "caps"}
  BY DEF Keys!modSyms, Keys!modKeysyms
<1>d. \A i \in Keys!Pastes : paste[i] \in [pc : {"none", "wait", "ctrl", "v", "up", "done"}, crossed : BOOLEAN]
  BY <1>a DEF Keys!TypeOK
<1> USE DEF Keys!Typing, Keys!Waiting, Keys!NoPaste, Keys!Types, Keys!Waits
<1>1. CASE UNCHANGED keyVars
  BY <1>1, <1>a DEF keyVars, KeysInv, Keys!TypeOK, HeldOrTyped, SureIsTold, PasteAlone, Mods, Told,
    Keys!TapsAsHeld, Keys!PasteIsCtrlV
<1>2. ASSUME NEW k \in Keys!modKeysyms, Keys!KeyDown(k) PROVE KeysInv'
  <2>1. CASE ~focus
    <3>1. Keys!TypeOK'
      BY <1>2, <2>1, <1>a, <1>b DEF Keys!KeyDown, Keys!TypeOK
    <3> QED
      BY <1>2, <2>1, <3>1, <1>a DEF Keys!KeyDown, KeysInv, HeldOrTyped, SureIsTold, PasteAlone, Mods, Told,
        Keys!TapsAsHeld, Keys!PasteIsCtrlV
  <2>2. CASE focus
    <3>1. paste' = Keys!Crossed(Keys!Waiting \cup Keys!Typing) /\ down' = down \cup {k} /\ hand' = hand \cup {k}
          /\ sure' = (IF Keys!NoPaste THEN sure \cup {k} ELSE sure) /\ UNCHANGED <<focus, arrived>>
      BY <1>2, <2>2 DEF Keys!KeyDown
    <3>2. Keys!TypeOK'
      BY <1>2, <3>1, <1>a, <1>b, CrossedPastes DEF Keys!KeyDown, Keys!TypeOK
    <3>3. /\ Keys!Typing' = Keys!Typing /\ Keys!NoPaste' = Keys!NoPaste
          /\ \A i \in Keys!Pastes : PasteAlone(i)'
      BY <3>1, <1>a, CrossedPastes DEF PasteAlone
    <3>4. HeldOrTyped' /\ SureIsTold'
      BY <3>1, <3>3, <2>2, <1>a DEF HeldOrTyped, SureIsTold, Mods, Told
    <3> QED
      BY <3>1, <3>2, <3>3, <3>4, <1>a DEF KeysInv, Keys!TapsAsHeld, Keys!PasteIsCtrlV
  <2> QED
    BY <2>1, <2>2
<1>3. ASSUME NEW k \in Keys!modKeysyms, Keys!KeyUp(k) PROVE KeysInv'
  <2>1. CASE ~focus
    <3>1. Keys!TypeOK'
      BY <1>3, <2>1, <1>a, <1>b DEF Keys!KeyUp, Keys!TypeOK
    <3> QED
      BY <1>3, <2>1, <3>1, <1>a DEF Keys!KeyUp, KeysInv, HeldOrTyped, SureIsTold, PasteAlone, Mods, Told,
        Keys!TapsAsHeld, Keys!PasteIsCtrlV
  <2>2. CASE focus
    <3>1. paste' = Keys!Crossed(Keys!Typing) /\ down' = down \ {k} /\ hand' = hand \ {k}
          /\ sure' = sure \ {k} /\ UNCHANGED <<focus, arrived>>
      BY <1>3, <2>2 DEF Keys!KeyUp
    <3>2. Keys!TypeOK'
      BY <1>3, <3>1, <1>a, <1>b, CrossedPastes DEF Keys!KeyUp, Keys!TypeOK
    <3>3. /\ Keys!Typing' = Keys!Typing /\ Keys!NoPaste' = Keys!NoPaste
          /\ \A i \in Keys!Pastes : PasteAlone(i)'
      BY <3>1, <1>a, CrossedPastes DEF PasteAlone, Mods
    <3>4. HeldOrTyped' /\ SureIsTold'
      BY <3>1, <3>3, <2>2, <1>a DEF HeldOrTyped, SureIsTold, Mods, Told
    <3> QED
      BY <3>1, <3>2, <3>3, <3>4, <1>a DEF KeysInv, Keys!TapsAsHeld, Keys!PasteIsCtrlV
  <2> QED
    BY <2>1, <2>2
<1>4. CASE Keys!FocusLost
  <2>1. paste' = Keys!Crossed(Keys!Typing) /\ down' = down \ Keys!modSyms /\ sure' = {} /\ UNCHANGED <<hand, arrived>>
    BY <1>4 DEF Keys!FocusLost
  <2>2. Keys!TypeOK'
    <3>1. paste' \in [Keys!Pastes -> [pc : {"none", "wait", "ctrl", "v", "up", "done"}, crossed : BOOLEAN]]
      BY <2>1, <1>a, CrossedPastes
    <3>2. blurs' \in 0..MaxBlur /\ focus' = FALSE /\ UNCHANGED <<open, presses, taps>>
      BY <1>4, <1>a, <1>b DEF Keys!FocusLost, Keys!TypeOK
    <3>3. down' \subseteq Keys!modKeysyms
      BY <2>1, <1>a DEF Keys!TypeOK
    <3> QED
      BY <2>1, <3>1, <3>2, <3>3, <1>a DEF Keys!TypeOK
  <2>3. \A i \in Keys!Pastes : PasteAlone(i)'
    BY <2>1, <1>a, CrossedPastes DEF PasteAlone, Mods
  <2>4. HeldOrTyped' /\ SureIsTold'
    BY <2>1 DEF HeldOrTyped, SureIsTold, Mods
  <2> QED
    BY <2>1, <2>2, <2>3, <2>4, <1>a DEF KeysInv, Keys!TapsAsHeld, Keys!PasteIsCtrlV
<1>5. CASE Keys!Focus \/ Keys!Quit
  <2>1. UNCHANGED <<hand, down, paste, presses, taps, blurs, sure, arrived>> /\ focus' = TRUE
    BY <1>5, <1>a DEF Keys!Focus, Keys!Quit, Keys!TypeOK
  <2>2. Keys!TypeOK'
    BY <1>5, <2>1, <1>a DEF Keys!Focus, Keys!Quit, Keys!TypeOK
  <2> QED
    BY <2>1, <2>2, <1>a DEF KeysInv, HeldOrTyped, SureIsTold, PasteAlone, Mods, Told,
      Keys!TapsAsHeld, Keys!PasteIsCtrlV
<1>6. CASE Keys!Typed \/ Keys!Shortcut
  <2>1. PICK kind \in {"text", "shortcut"} :
          /\ focus /\ taps < MaxTap /\ taps' = taps + 1
          /\ arrived' = [kind |-> kind, held |-> hand, sure |-> sure, seen |-> down, clear |-> Keys!NoPaste]
          /\ UNCHANGED <<hand, focus, down, paste, open, presses, blurs, sure>>
    BY <1>6 DEF Keys!Typed, Keys!Shortcut, Keys!TapKey
  <2>2. Keys!TypeOK'
    BY <2>1, <1>a, <1>b DEF Keys!TypeOK
  <2>3. Keys!TapsAsHeld' /\ Keys!PasteIsCtrlV'
    BY <2>1, <1>a DEF Keys!TapsAsHeld, Keys!PasteIsCtrlV, HeldOrTyped, SureIsTold, Mods, Told
  <2> QED
    BY <2>1, <2>2, <2>3, <1>a DEF KeysInv, HeldOrTyped, SureIsTold, PasteAlone, Mods, Told
<1>7. ASSUME NEW i \in Keys!Pastes, Keys!PasteText(i) PROVE KeysInv'
  <2>1. /\ paste' = [Keys!Crossed(Keys!Typing) EXCEPT ![i] = [pc |-> "wait", crossed |-> FALSE]]
        /\ down' = down \ Keys!modSyms /\ sure' = {} /\ UNCHANGED <<hand, focus, arrived>>
    BY <1>7 DEF Keys!PasteText
  <2>2. Keys!TypeOK'
    BY <1>7, <2>1, <1>a, <1>b, CrossedPastes DEF Keys!PasteText, Keys!TypeOK
  <2>3. \A j \in Keys!Pastes : PasteAlone(j)'
    BY <2>1, <1>a, CrossedPastes DEF PasteAlone, Mods
  <2>4. HeldOrTyped' /\ SureIsTold'
    BY <2>1 DEF HeldOrTyped, SureIsTold, Mods
  <2> QED
    BY <2>1, <2>2, <2>3, <2>4, <1>a DEF KeysInv, Keys!TapsAsHeld, Keys!PasteIsCtrlV
<1>8. ASSUME NEW i \in Keys!Pastes, Keys!PasteWakes(i) PROVE KeysInv'
  <2>1. /\ paste' = [paste EXCEPT ![i] = [@ EXCEPT !.pc = IF open THEN "ctrl" ELSE "done"]]
        /\ paste[i].pc = "wait"
        /\ UNCHANGED <<hand, focus, down, open, presses, taps, blurs, sure, arrived>>
    BY <1>8 DEF Keys!PasteWakes
  <2>2. /\ paste'[i].crossed = paste[i].crossed /\ paste'[i].pc \in {"ctrl", "done"}
        /\ \A j \in Keys!Pastes : j # i => paste'[j] = paste[j]
        /\ paste' \in [Keys!Pastes -> [pc : {"none", "wait", "ctrl", "v", "up", "done"}, crossed : BOOLEAN]]
    BY <2>1, <1>d, <1>a DEF Keys!TypeOK
  <2>3. Keys!TypeOK'
    BY <2>1, <2>2, <1>a DEF Keys!TypeOK
  <2>4. \A j \in Keys!Pastes : PasteAlone(j)'
    BY <2>1, <2>2, <1>a DEF PasteAlone, Mods
  <2>5. HeldOrTyped' /\ SureIsTold'
    <3>1. sure = {}
      BY <2>1, <1>a DEF SureIsTold
    <3>2. Keys!Typing # {} => Keys!Typing' # {}
      BY <2>1, <2>2
    <3> QED
      BY <2>1, <3>1, <3>2, <1>a DEF HeldOrTyped, SureIsTold, Mods, Told
  <2> QED
    BY <2>1, <2>3, <2>4, <2>5, <1>a DEF KeysInv, Keys!TapsAsHeld, Keys!PasteIsCtrlV
<1>9. ASSUME NEW i \in Keys!Pastes, Keys!PasteTypes(i) PROVE KeysInv'
  <2> DEFINE q == Keys!Crossed(Keys!Typing \ {i})
  <2>a. sure = {} /\ sure' = {} /\ paste[i].pc \in {"ctrl", "v", "up"} /\ UNCHANGED <<hand, focus, open, presses, taps, blurs>>
    BY <1>9, <1>a DEF Keys!PasteTypes, SureIsTold
  <2>b. /\ q \in [Keys!Pastes -> [pc : {"none", "wait", "ctrl", "v", "up", "done"}, crossed : BOOLEAN]]
        /\ \A j \in Keys!Pastes : /\ q[j].pc = paste[j].pc
                                  /\ q[j].crossed = (j \in Keys!Typing \ {i} \/ paste[j].crossed)
    BY <1>a, CrossedPastes
  <2>c. \A pc \in {"v", "up", "done"} :
          LET r == [q[i] EXCEPT !.pc = pc]
          IN  /\ r \in [pc : {"none", "wait", "ctrl", "v", "up", "done"}, crossed : BOOLEAN]
              /\ r.pc = pc /\ r.crossed = paste[i].crossed
    <3>1. q[i] \in [pc : {"none", "wait", "ctrl", "v", "up", "done"}, crossed : BOOLEAN] /\ q[i].crossed = paste[i].crossed
      BY <2>b, <1>d
    <3> QED
      BY <3>1
  <2>1. CASE paste[i].pc = "ctrl"
    <3>1. paste' = [q EXCEPT ![i] = [@ EXCEPT !.pc = "v"]] /\ down' = down \cup {"ctrl"} /\ arrived' = arrived
      BY <1>9, <2>1 DEF Keys!PasteTypes
    <3>2. /\ paste'[i].pc = "v" /\ paste'[i].crossed = paste[i].crossed
          /\ \A j \in Keys!Pastes : j # i => paste'[j] = q[j]
          /\ paste' \in [Keys!Pastes -> [pc : {"none", "wait", "ctrl", "v", "up", "done"}, crossed : BOOLEAN]]
      BY <3>1, <2>b, <2>c
    <3>3. Keys!TypeOK'
      BY <2>a, <3>1, <3>2, <1>a, <1>c DEF Keys!TypeOK
    <3>4. \A j \in Keys!Pastes : PasteAlone(j)'
      BY <2>1, <2>b, <3>1, <3>2, <1>a, <1>c DEF PasteAlone, Mods
    <3>5. HeldOrTyped' /\ SureIsTold'
      BY <2>1, <2>a, <3>1, <3>2, <1>a, <1>c DEF HeldOrTyped, SureIsTold, Mods, Told
    <3> QED
      BY <3>1, <3>3, <3>4, <3>5, <1>a DEF KeysInv, Keys!TapsAsHeld, Keys!PasteIsCtrlV
  <2>2. CASE paste[i].pc = "v"
    <3>1. /\ paste' = [q EXCEPT ![i] = [@ EXCEPT !.pc = "up"]] /\ down' = down
          /\ arrived' = [kind |-> "paste", held |-> hand, sure |-> {}, seen |-> down, clear |-> ~paste[i].crossed]
      BY <1>9, <2>2 DEF Keys!PasteTypes
    <3>2. /\ paste'[i].pc = "up" /\ paste'[i].crossed = paste[i].crossed
          /\ \A j \in Keys!Pastes : j # i => paste'[j] = q[j]
          /\ paste' \in [Keys!Pastes -> [pc : {"none", "wait", "ctrl", "v", "up", "done"}, crossed : BOOLEAN]]
      BY <3>1, <2>b, <2>c
    <3>3. Keys!TypeOK'
      BY <2>a, <3>1, <3>2, <1>a, <1>c DEF Keys!TypeOK
    <3>4. \A j \in Keys!Pastes : PasteAlone(j)'
      BY <2>2, <2>b, <3>1, <3>2, <1>a, <1>c DEF PasteAlone, Mods
    <3>5. HeldOrTyped' /\ SureIsTold'
      BY <2>2, <2>a, <3>1, <3>2, <1>a, <1>c DEF HeldOrTyped, SureIsTold, Mods, Told
    <3>6. Keys!TapsAsHeld' /\ Keys!PasteIsCtrlV'
      BY <2>2, <3>1, <1>a DEF Keys!TapsAsHeld, Keys!PasteIsCtrlV, PasteAlone, Mods
    <3> QED
      BY <3>3, <3>4, <3>5, <3>6 DEF KeysInv
  <2>3. CASE paste[i].pc = "up"
    <3>1. paste' = [q EXCEPT ![i] = [@ EXCEPT !.pc = "done"]] /\ down' = down \ {"ctrl"} /\ arrived' = arrived
      BY <1>9, <2>3 DEF Keys!PasteTypes
    <3>2. /\ paste'[i].pc = "done" /\ paste'[i].crossed = paste[i].crossed
          /\ \A j \in Keys!Pastes : j # i => paste'[j] = q[j]
          /\ paste' \in [Keys!Pastes -> [pc : {"none", "wait", "ctrl", "v", "up", "done"}, crossed : BOOLEAN]]
      BY <3>1, <2>b, <2>c
    <3>3. Keys!TypeOK'
      BY <2>a, <3>1, <3>2, <1>a, <1>c DEF Keys!TypeOK
    <3>4. \A j \in Keys!Pastes : PasteAlone(j)'
      BY <2>3, <2>b, <3>1, <3>2, <1>a, <1>c DEF PasteAlone, Mods
    <3>5. HeldOrTyped' /\ SureIsTold'
      BY <2>3, <2>a, <3>1, <3>2, <1>a, <1>c DEF HeldOrTyped, SureIsTold, Mods, Told
    <3> QED
      BY <3>1, <3>3, <3>4, <3>5, <1>a DEF KeysInv, Keys!TapsAsHeld, Keys!PasteIsCtrlV
  <2> QED
    BY <2>a, <2>1, <2>2, <2>3
<1> QED
  BY <1>1, <1>2, <1>3, <1>4, <1>5, <1>6, <1>7, <1>8, <1>9 DEF Keys!Next, Keys!Operator

-----------------------------------------------------------------------------
(* The connection (RfbConn).                                               *)

\* Numbers that come before others.
Before(A, B) == \A x \in A, y \in B : x < y

\* The number of an input of s, if m is one.
Number(m, s) == IF m.from = s /\ m.n > 0 THEN {m.n} ELSE {}

\* One message is in order.
LEMMA OneMessage ==
  ASSUME NEW m, NEW s
  PROVE  Rfb!Inputs(<<m>>, s) = Number(m, s) /\ Rfb!InOrder(<<m>>, s)
<1>1. Rfb!InputsAt(<<m>>, s) = IF m.from = s /\ m.n > 0 THEN {1} ELSE {}
  BY DEF Rfb!InputsAt
<1>2. <<m>>[1] = m
  OBVIOUS
<1> QED
  BY <1>1, <1>2 DEF Rfb!Inputs, Rfb!InOrder, Number

\* Two sequences of messages, one behind the other.
LEMMA InputsConcat ==
  ASSUME NEW a \in Seq(Rfb!Message), NEW b \in Seq(Rfb!Message), NEW s
  PROVE  /\ Rfb!Inputs(a \o b, s) = Rfb!Inputs(a, s) \cup Rfb!Inputs(b, s)
         /\ Rfb!InOrder(a \o b, s) <=> /\ Rfb!InOrder(a, s) /\ Rfb!InOrder(b, s)
                                       /\ Before(Rfb!Inputs(a, s), Rfb!Inputs(b, s))
<1>1. /\ Len(a) \in Nat /\ Len(b) \in Nat
      /\ DOMAIN (a \o b) = 1..(Len(a) + Len(b)) /\ DOMAIN a = 1..Len(a) /\ DOMAIN b = 1..Len(b)
      /\ \A i \in 1..Len(a) : (a \o b)[i] = a[i]
      /\ \A i \in 1..Len(b) : (a \o b)[Len(a) + i] = b[i]
  OBVIOUS
<1>2. \A i \in 1..(Len(a) + Len(b)) : i \in 1..Len(a) \/ (i - Len(a) \in 1..Len(b) /\ i = Len(a) + (i - Len(a)))
  BY <1>1
<1>3. /\ \A i \in Rfb!InputsAt(a \o b, s) :
           \/ i \in Rfb!InputsAt(a, s) /\ (a \o b)[i] = a[i]
           \/ i - Len(a) \in Rfb!InputsAt(b, s) /\ (a \o b)[i] = b[i - Len(a)] /\ i > Len(a)
      /\ \A i \in Rfb!InputsAt(a, s) : i \in Rfb!InputsAt(a \o b, s) /\ (a \o b)[i] = a[i] /\ i <= Len(a)
      /\ \A i \in Rfb!InputsAt(b, s) : Len(a) + i \in Rfb!InputsAt(a \o b, s) /\ (a \o b)[Len(a) + i] = b[i]
  BY <1>1, <1>2 DEF Rfb!InputsAt
<1>4. Rfb!InputsAt(a, s) \subseteq 1..Len(a) /\ Rfb!InputsAt(b, s) \subseteq 1..Len(b)
      /\ Rfb!InputsAt(a \o b, s) \subseteq 1..(Len(a) + Len(b))
  BY <1>1 DEF Rfb!InputsAt
<1>5. Rfb!Inputs(a \o b, s) = Rfb!Inputs(a, s) \cup Rfb!Inputs(b, s)
  <2>1. ASSUME NEW x \in Rfb!Inputs(a \o b, s) PROVE x \in Rfb!Inputs(a, s) \cup Rfb!Inputs(b, s)
    <3>1. PICK i \in Rfb!InputsAt(a \o b, s) : x = (a \o b)[i].n
      BY DEF Rfb!Inputs
    <3> QED
      BY <1>3, <3>1 DEF Rfb!Inputs
  <2>2. ASSUME NEW i \in Rfb!InputsAt(a, s) PROVE a[i].n \in Rfb!Inputs(a \o b, s)
    BY <1>3 DEF Rfb!Inputs
  <2>3. ASSUME NEW i \in Rfb!InputsAt(b, s) PROVE b[i].n \in Rfb!Inputs(a \o b, s)
    BY <1>3 DEF Rfb!Inputs
  <2> QED
    BY <2>1, <2>2, <2>3 DEF Rfb!Inputs
<1>6. ASSUME Rfb!InOrder(a \o b, s)
      PROVE  Rfb!InOrder(a, s) /\ Rfb!InOrder(b, s) /\ Before(Rfb!Inputs(a, s), Rfb!Inputs(b, s))
  <2>1. Rfb!InOrder(a, s)
    BY <1>3, <1>6 DEF Rfb!InOrder
  <2>2. Rfb!InOrder(b, s)
    <3> SUFFICES ASSUME NEW i \in Rfb!InputsAt(b, s), NEW j \in Rfb!InputsAt(b, s), i < j PROVE b[i].n < b[j].n
      BY DEF Rfb!InOrder
    <3>1. Len(a) + i < Len(a) + j
      BY <1>1, <1>4
    <3> QED
      BY <1>3, <1>6, <3>1 DEF Rfb!InOrder
  <2>3. Before(Rfb!Inputs(a, s), Rfb!Inputs(b, s))
    <3> SUFFICES ASSUME NEW i \in Rfb!InputsAt(a, s), NEW j \in Rfb!InputsAt(b, s) PROVE a[i].n < b[j].n
      BY DEF Before, Rfb!Inputs
    <3>1. i < Len(a) + j
      BY <1>1, <1>4
    <3> QED
      BY <1>3, <1>6, <3>1 DEF Rfb!InOrder
  <2> QED
    BY <2>1, <2>2, <2>3
<1>7. ASSUME Rfb!InOrder(a, s), Rfb!InOrder(b, s), Before(Rfb!Inputs(a, s), Rfb!Inputs(b, s))
      PROVE  Rfb!InOrder(a \o b, s)
  <2> SUFFICES ASSUME NEW i \in Rfb!InputsAt(a \o b, s), NEW j \in Rfb!InputsAt(a \o b, s), i < j
               PROVE  (a \o b)[i].n < (a \o b)[j].n
    BY DEF Rfb!InOrder
  <2>1. CASE i \in Rfb!InputsAt(a, s) /\ j \in Rfb!InputsAt(a, s)
    BY <1>3, <1>7, <2>1 DEF Rfb!InOrder
  <2>2. CASE i \in Rfb!InputsAt(a, s) /\ j > Len(a)
    <3>1. j \notin Rfb!InputsAt(a, s)
      BY <1>1, <1>4, <2>2
    <3>2. (a \o b)[i].n \in Rfb!Inputs(a, s) /\ (a \o b)[j].n \in Rfb!Inputs(b, s)
      BY <1>3, <2>2, <3>1 DEF Rfb!Inputs
    <3> QED
      BY <1>7, <3>2 DEF Before
  <2>3. CASE i > Len(a) /\ j > Len(a)
    <3>1. i \notin Rfb!InputsAt(a, s) /\ j \notin Rfb!InputsAt(a, s)
      BY <1>1, <1>4, <2>3
    <3>2. /\ i - Len(a) \in Rfb!InputsAt(b, s) /\ (a \o b)[i] = b[i - Len(a)]
          /\ j - Len(a) \in Rfb!InputsAt(b, s) /\ (a \o b)[j] = b[j - Len(a)]
      BY <1>3, <3>1
    <3>3. i - Len(a) < j - Len(a)
      BY <1>1, <1>4
    <3> QED
      BY <1>7, <3>2, <3>3 DEF Rfb!InOrder
  <2> QED
    BY <1>1, <1>3, <1>4, <2>1, <2>2, <2>3
<1> QED
  BY <1>5, <1>6, <1>7

\* One more at the end, one less at the front.
LEMMA InputsAppend ==
  ASSUME NEW q \in Seq(Rfb!Message), NEW m \in Rfb!Message, NEW s
  PROVE  /\ Rfb!Inputs(Append(q, m), s) = Rfb!Inputs(q, s) \cup Number(m, s)
         /\ Rfb!InOrder(Append(q, m), s) <=> Rfb!InOrder(q, s) /\ Before(Rfb!Inputs(q, s), Number(m, s))
<1>1. Append(q, m) = q \o <<m>> /\ <<m>> \in Seq(Rfb!Message)
  BY AppendIsConcat
<1>2. /\ Rfb!Inputs(q \o <<m>>, s) = Rfb!Inputs(q, s) \cup Rfb!Inputs(<<m>>, s)
      /\ Rfb!InOrder(q \o <<m>>, s) <=> /\ Rfb!InOrder(q, s) /\ Rfb!InOrder(<<m>>, s)
                                       /\ Before(Rfb!Inputs(q, s), Rfb!Inputs(<<m>>, s))
  BY <1>1, InputsConcat
<1>3. Rfb!Inputs(<<m>>, s) = Number(m, s) /\ Rfb!InOrder(<<m>>, s)
  BY OneMessage
<1> QED
  BY <1>1, <1>2, <1>3

LEMMA InputsTail ==
  ASSUME NEW q \in Seq(Rfb!Message), q # <<>>, NEW s
  PROVE  /\ Rfb!Inputs(q, s) = Number(Head(q), s) \cup Rfb!Inputs(Tail(q), s)
         /\ Rfb!InOrder(q, s) <=> Rfb!InOrder(Tail(q), s) /\ Before(Number(Head(q), s), Rfb!Inputs(Tail(q), s))
<1>1. /\ Head(q) \in Rfb!Message /\ Tail(q) \in Seq(Rfb!Message) /\ <<Head(q)>> \in Seq(Rfb!Message)
      /\ q = <<Head(q)>> \o Tail(q)
  OBVIOUS
<1> DEFINE h == Head(q)
           t == Tail(q)
<1>2. /\ Rfb!Inputs(<<h>> \o t, s) = Rfb!Inputs(<<h>>, s) \cup Rfb!Inputs(t, s)
      /\ Rfb!InOrder(<<h>> \o t, s) <=> /\ Rfb!InOrder(<<h>>, s) /\ Rfb!InOrder(t, s)
                                       /\ Before(Rfb!Inputs(<<h>>, s), Rfb!Inputs(t, s))
  BY <1>1, InputsConcat
<1>3. Rfb!Inputs(<<h>>, s) = Number(h, s) /\ Rfb!InOrder(<<h>>, s)
  BY OneMessage
<1> QED
  BY <1>1, <1>2, <1>3

\* RfbConn counts as everybody does.
LEMMA SameCount == \A S : Rfb!Cardinality(S) = Cardinality(S)
  BY DEF Rfb!Cardinality, Cardinality

LEMMA IfOne == /\ \A a, b : Rfb!OneIf(a = b) = IF a = b THEN 1 ELSE 0
               /\ \A a, b : Rfb!OneIf(a = b) \in {0, 1}
  BY DEF Rfb!OneIf

\* Update requests are counted in the same way.
LEMMA RequestsAppend ==
  ASSUME NEW q \in Seq(Rfb!Message), NEW m \in Rfb!Message
  PROVE  /\ Rfb!RequestsIn(q) \in Nat
         /\ Rfb!RequestsIn(Append(q, m)) = Rfb!RequestsIn(q) + Rfb!OneIf(m = Rfb!Request)
<1> DEFINE A == {i \in DOMAIN q : q[i] = Rfb!Request}
           B == {i \in DOMAIN Append(q, m) : Append(q, m)[i] = Rfb!Request}
<1>1. /\ Len(q) \in Nat /\ DOMAIN q = 1..Len(q) /\ DOMAIN Append(q, m) = 1..(Len(q) + 1)
      /\ Append(q, m)[Len(q) + 1] = m /\ \A i \in 1..Len(q) : Append(q, m)[i] = q[i]
  OBVIOUS
<1>2. IsFiniteSet(A) /\ Cardinality(A) \in Nat
  <2>1. IsFiniteSet(1..Len(q)) /\ A \in SUBSET (1..Len(q))
    BY <1>1, FS_Interval
  <2>2. IsFiniteSet(A)
    BY <2>1, FS_Subset
  <2> QED
    BY <2>2, FS_CardinalityType
<1>3. Len(q) + 1 \notin A
  BY <1>1
<1>4. CASE m = Rfb!Request
  <2>1. B = A \cup {Len(q) + 1}
    BY <1>1, <1>4
  <2> QED
    <3>1. Cardinality(B) = Cardinality(A) + 1
      BY <1>2, <1>3, <2>1, FS_AddElement
    <3>2. Rfb!RequestsIn(q) = Cardinality(A) /\ Rfb!RequestsIn(Append(q, m)) = Cardinality(B)
      BY SameCount DEF Rfb!RequestsIn
    <3> QED
      BY <1>2, <1>4, <3>1, <3>2, IfOne
<1>5. CASE m # Rfb!Request
  <2>1. B = A
    BY <1>1, <1>5
  <2> QED
    <3>1. Rfb!RequestsIn(q) = Cardinality(A) /\ Rfb!RequestsIn(Append(q, m)) = Cardinality(B)
      BY SameCount DEF Rfb!RequestsIn
    <3> QED
      <4>1. Rfb!RequestsIn(Append(q, m)) = Rfb!RequestsIn(q) /\ Rfb!RequestsIn(q) \in Nat
        BY <1>2, <2>1, <3>1
      <4>2. Rfb!OneIf(m = Rfb!Request) = 0
        BY <1>5, IfOne
      <4> QED
        BY <4>1, <4>2
<1> QED
  BY <1>4, <1>5

LEMMA RequestsTail ==
  ASSUME NEW q \in Seq(Rfb!Message), q # <<>>
  PROVE  /\ Rfb!RequestsIn(Tail(q)) \in Nat
         /\ Rfb!RequestsIn(q) = Rfb!OneIf(Head(q) = Rfb!Request) + Rfb!RequestsIn(Tail(q))
<1> DEFINE A == {i \in DOMAIN q : q[i] = Rfb!Request}
           B == {i \in DOMAIN Tail(q) : Tail(q)[i] = Rfb!Request}
           f == [i \in B |-> i + 1]
<1>1. /\ Len(q) \in Nat \ {0} /\ DOMAIN q = 1..Len(q) /\ DOMAIN Tail(q) = 1..(Len(q) - 1)
      /\ Head(q) = q[1] /\ \A i \in 1..(Len(q) - 1) : Tail(q)[i] = q[i + 1]
  OBVIOUS
<1>2. IsFiniteSet(A) /\ IsFiniteSet(B) /\ Cardinality(A) \in Nat /\ Cardinality(B) \in Nat
  <2>1. IsFiniteSet(1..Len(q)) /\ A \in SUBSET (1..Len(q)) /\ B \in SUBSET (1..Len(q))
    BY <1>1, FS_Interval
  <2>2. IsFiniteSet(A) /\ IsFiniteSet(B)
    BY <2>1, FS_Subset
  <2> QED
    BY <2>2, FS_CardinalityType
<1>3. Cardinality(A \ {1}) = Cardinality(B)
  <2>1. f \in [B -> A \ {1}]
    BY <1>1
  <2>2. \A i, j \in B : f[i] = f[j] => i = j
    BY <1>1
  <2>3. ASSUME NEW j \in A \ {1} PROVE \E i \in B : f[i] = j
    <3>1. j - 1 \in B /\ f[j - 1] = j
      BY <1>1
    <3> QED
      BY <3>1
  <2>4. f \in Bijection(B, A \ {1})
    BY <2>1, <2>2, <2>3 DEF Bijection, Injection, Surjection, IsInjective
  <2>5. ExistsBijection(B, A \ {1})
    BY <2>4 DEF ExistsBijection
  <2> QED
    BY <1>2, <2>5, FS_Bijection
<1>4. Cardinality(A \ {1}) = IF 1 \in A THEN Cardinality(A) - 1 ELSE Cardinality(A)
  BY <1>2, FS_RemoveElement
<1>5. 1 \in A <=> Head(q) = Rfb!Request
  BY <1>1
<1> QED
  <2>1. Rfb!RequestsIn(q) = Cardinality(A) /\ Rfb!RequestsIn(Tail(q)) = Cardinality(B)
    BY SameCount DEF Rfb!RequestsIn
  <2> QED
    <3>1. Rfb!OneIf(Head(q) = Rfb!Request) = IF 1 \in A THEN 1 ELSE 0
      BY <1>5, IfOne
    <3> HIDE DEF A, B
    <3> QED
      BY <1>2, <1>3, <1>4, <2>1, <3>1

\* Who may wait with what, and what a loop that ended has left behind.
Roles ==
  /\ \A s \in Rfb!Hand : rWait[s] # Rfb!None => rWait[s].from = s
  /\ \A s \in {"dial", "read"} : rWait[s] \in {Rfb!None, Rfb!Request}
  /\ rReader = "frame" => rWait["read"] = Rfb!None
  /\ rWriter # "write" => rInHand = Rfb!None
  /\ rLastMask \in {-1, rMask}
  /\ Rfb!Done => rErr # "none" \/ Rfb!Closing

\* Requests are never made, only moved, and lost only with an error or a Close.
Tokens == Rfb!UnderWay <= 1 /\ (rErr = "none" /\ ~Rfb!Closing => Rfb!UnderWay = 1)

\* The inputs of s that have not arrived, from the wire back to the hand.
WayOf(s) ==
  /\ Rfb!InOrder(rWire, s) /\ Rfb!InOrder(rOut, s)
  /\ Before(Rfb!Inputs(rWire, s), Number(rInHand, s))
  /\ Before(Rfb!Inputs(rWire, s) \cup Number(rInHand, s), Rfb!Inputs(rOut, s))
  /\ Before(Rfb!Inputs(rWire, s) \cup Number(rInHand, s) \cup Rfb!Inputs(rOut, s), Number(rWait[s], s))
  /\ Rfb!Inputs(rWire, s) \cup Number(rInHand, s) \cup Rfb!Inputs(rOut, s) \cup Number(rWait[s], s)
       = (Len(rGot[s]) + 1)..rSent[s]
  /\ Len(rGot[s]) <= rSent[s]

Kept == rErr = "none" /\ ~Rfb!Closing => \A s \in Rfb!Hand : Rfb!Contiguous(rGot[s]) /\ WayOf(s)

RfbInv == Rfb!TypeOK /\ Roles /\ Tokens /\ Kept

\* What the bounds are, and the messages that carry no input.
LEMMA RfbBounds ==
  /\ Cap \in Nat /\ Buffer \in Nat /\ MaxInput \in Nat /\ MaxMotion \in Nat /\ MaxStall \in Nat
  /\ Cap > 0 /\ Buffer > 0
  BY ViewerAssumption DEF Rfb!RfbAssumption

LEMMA RfbFacts ==
  /\ Rfb!None \in Rfb!Message /\ Rfb!Request \in Rfb!Message /\ Rfb!Motion \in Rfb!Message
  /\ Rfb!None # Rfb!Request /\ Rfb!Motion # Rfb!Request
  /\ \A s \in Rfb!Hand : Number(Rfb!None, s) = {} /\ Number(Rfb!Request, s) = {} /\ Number(Rfb!Motion, s) = {}
  /\ Rfb!Hand = {"ui", "paste"} /\ Rfb!Sender = {"ui", "paste", "dial", "read"}
  BY RfbBounds DEF Rfb!None, Rfb!Request, Rfb!Motion, Rfb!Message, Number, Rfb!Hand, Rfb!Sender

\* The way of the property is the invariant's, piece by piece.
LEMMA RfbAgrees == RfbInv => Rfb!NoSilentLoss /\ Rfb!OneRequest
<1> SUFFICES ASSUME RfbInv PROVE Rfb!NoSilentLoss /\ Rfb!OneRequest
  OBVIOUS
<1>1. Rfb!OneRequest
  BY DEF RfbInv, Tokens, Rfb!OneRequest
<1>2. ASSUME rErr = "none", ~Rfb!Closing, NEW s \in Rfb!Hand
      PROVE  LET way == rWire \o <<rInHand>> \o rOut \o <<rWait[s]>>
             IN  /\ Rfb!Contiguous(rGot[s])
                 /\ Rfb!InOrder(way, s)
                 /\ Rfb!Inputs(way, s) = (Len(rGot[s]) + 1)..rSent[s]
  <2> DEFINE a == rWire \o <<rInHand>>
             b == a \o rOut
             w == <<rWait[s]>>
  <2>1. Rfb!Contiguous(rGot[s]) /\ WayOf(s)
    BY <1>2 DEF RfbInv, Kept
  <2>2. /\ rWire \in Seq(Rfb!Message) /\ <<rInHand>> \in Seq(Rfb!Message) /\ rOut \in Seq(Rfb!Message)
        /\ w \in Seq(Rfb!Message)
    <3>1. /\ rInHand \in Rfb!Message /\ rWait[s] \in Rfb!Message
          /\ rWire \in Seq(Rfb!Message) /\ rOut \in Seq(Rfb!Message)
      BY RfbFacts DEF RfbInv, Rfb!TypeOK
    <3>2. \A m \in Rfb!Message : <<m>> \in Seq(Rfb!Message)
      OBVIOUS
    <3> QED
      BY <3>1, <3>2
  <2>3. /\ a \in Seq(Rfb!Message)
        /\ Rfb!Inputs(a, s) = Rfb!Inputs(rWire, s) \cup Number(rInHand, s)
        /\ Rfb!InOrder(a, s) <=> Rfb!InOrder(rWire, s) /\ Before(Rfb!Inputs(rWire, s), Number(rInHand, s))
    <3>1. Rfb!Inputs(<<rInHand>>, s) = Number(rInHand, s) /\ Rfb!InOrder(<<rInHand>>, s)
      BY OneMessage
    <3>2. /\ Rfb!Inputs(a, s) = Rfb!Inputs(rWire, s) \cup Rfb!Inputs(<<rInHand>>, s)
          /\ Rfb!InOrder(a, s) <=> /\ Rfb!InOrder(rWire, s) /\ Rfb!InOrder(<<rInHand>>, s)
                                   /\ Before(Rfb!Inputs(rWire, s), Rfb!Inputs(<<rInHand>>, s))
      BY <2>2, InputsConcat
    <3>3. a \in Seq(Rfb!Message)
      BY <2>2
    <3> QED
      BY <3>1, <3>2, <3>3
  <2>4. /\ b \in Seq(Rfb!Message)
        /\ Rfb!Inputs(b, s) = Rfb!Inputs(a, s) \cup Rfb!Inputs(rOut, s)
        /\ Rfb!InOrder(b, s) <=> Rfb!InOrder(a, s) /\ Rfb!InOrder(rOut, s) /\ Before(Rfb!Inputs(a, s), Rfb!Inputs(rOut, s))
    <3>1. a \in Seq(Rfb!Message)
      BY <2>3
    <3> HIDE DEF a
    <3>2. b \in Seq(Rfb!Message)
      BY <2>2, <3>1
    <3> QED
      BY <2>2, <3>1, <3>2, InputsConcat
  <2>5. /\ Rfb!Inputs(b \o w, s) = Rfb!Inputs(b, s) \cup Number(rWait[s], s)
        /\ Rfb!InOrder(b \o w, s) <=> Rfb!InOrder(b, s) /\ Before(Rfb!Inputs(b, s), Number(rWait[s], s))
    <3>1. Rfb!Inputs(w, s) = Number(rWait[s], s) /\ Rfb!InOrder(w, s)
      BY OneMessage
    <3>2. b \in Seq(Rfb!Message) /\ w \in Seq(Rfb!Message)
      BY <2>2, <2>4
    <3> HIDE DEF b, w
    <3>3. /\ Rfb!Inputs(b \o w, s) = Rfb!Inputs(b, s) \cup Rfb!Inputs(w, s)
          /\ Rfb!InOrder(b \o w, s) <=> /\ Rfb!InOrder(b, s) /\ Rfb!InOrder(w, s)
                                        /\ Before(Rfb!Inputs(b, s), Rfb!Inputs(w, s))
      BY <3>2, InputsConcat
    <3> QED
      BY <3>1, <3>3
  <2>6. Rfb!InOrder(b \o w, s) /\ Rfb!Inputs(b \o w, s) = (Len(rGot[s]) + 1)..rSent[s]
    <3> HIDE DEF a, b, w
    <3> QED
      BY <2>1, <2>3, <2>4, <2>5 DEF WayOf
  <2> QED
    BY <2>1, <2>6
<1> QED
  BY <1>1, <1>2 DEF Rfb!NoSilentLoss

\* One request, which dialRFB sends, and nothing else.
LEMMA RfbInitHolds == Rfb!Init => RfbInv
<1> SUFFICES ASSUME Rfb!Init PROVE RfbInv
  OBVIOUS
<1>a. <<>> \in Seq(Rfb!Message) /\ <<>> \in Seq(0..MaxInput) /\ Len(<<>>) = 0 /\ DOMAIN <<>> = {}
  OBVIOUS
<1>b. /\ rOut = <<>> /\ rWire = <<>> /\ rInHand = Rfb!None /\ rErr = "none" /\ rCloser = "no" /\ rReader = "read"
      /\ rAsked = 0 /\ rFrames = 0 /\ rWriter = "select" /\ rMask = 0 /\ rLastMask = -1 /\ rMoves = 0
      /\ rGuest = "reads" /\ rStalls = 0
      /\ rWait = [s \in Rfb!Sender |-> IF s = "dial" THEN Rfb!Request ELSE Rfb!None]
      /\ rSent = [s \in Rfb!Hand |-> 0] /\ rGot = [s \in Rfb!Hand |-> <<>>]
  BY DEF Rfb!Init
<1>1. Rfb!TypeOK
  <2>1. rWait \in [Rfb!Sender -> Rfb!Message] /\ rSent \in [Rfb!Hand -> 0..MaxInput]
        /\ rGot \in [Rfb!Hand -> Seq(0..MaxInput)]
    BY <1>a, <1>b, RfbFacts, RfbBounds
  <2>2. 0 \in 0..MaxMotion /\ 0 \in 0..MaxStall /\ 0 <= Cap /\ 0 <= Buffer
    BY RfbBounds
  <2> QED
    BY <1>a, <1>b, <2>1, <2>2, RfbFacts DEF Rfb!TypeOK
<1>2. Roles
  BY <1>b, RfbFacts DEF Roles, Rfb!Done
<1>3. Tokens
  <2>1. Rfb!RequestsIn(<<>>) = 0
    <3>1. {i \in DOMAIN <<>> : <<>>[i] = Rfb!Request} = {}
      BY <1>a
    <3> QED
      BY <3>1, SameCount, FS_EmptySet DEF Rfb!RequestsIn
  <2>2. rWait["dial"] = Rfb!Request /\ rWait["read"] = Rfb!None
    BY <1>b, RfbFacts
  <2>3. Rfb!UnderWay = 1
    BY <1>b, <2>1, <2>2, RfbFacts DEF Rfb!UnderWay, Rfb!OneIf
  <2> QED
    BY <2>3 DEF Tokens
<1>4. Kept
  <2> SUFFICES ASSUME NEW s \in Rfb!Hand PROVE Rfb!Contiguous(rGot[s]) /\ WayOf(s)
    BY DEF Kept
  <2>1. Rfb!Inputs(<<>>, s) = {} /\ Rfb!InOrder(<<>>, s)
    BY <1>a DEF Rfb!Inputs, Rfb!InOrder, Rfb!InputsAt
  <2>2. rGot[s] = <<>> /\ rSent[s] = 0 /\ rWait[s] = Rfb!None
    BY <1>b, RfbFacts
  <2>3. Number(Rfb!None, s) = {} /\ (0 + 1)..0 = {}
    BY RfbFacts
  <2> QED
    BY <1>a, <1>b, <2>1, <2>2, <2>3 DEF WayOf, Before, Rfb!Contiguous
<1> QED
  BY <1>1, <1>2, <1>3, <1>4 DEF RfbInv

\* TypeOK in three parts: what carries messages, what counts, and the rest.
Queues ==
  /\ rOut \in Seq(Rfb!Message) /\ Len(rOut) <= Cap /\ rWire \in Seq(Rfb!Message) /\ Len(rWire) <= Buffer
  /\ rWait \in [Rfb!Sender -> Rfb!Message] /\ rInHand \in Rfb!Message

Counts ==
  /\ rFrames \in 0..1 /\ rAsked \in 0..1 /\ rStalls \in 0..MaxStall /\ rMoves \in 0..MaxMotion
  /\ rSent \in [Rfb!Hand -> 0..MaxInput] /\ rGot \in [Rfb!Hand -> Seq(0..MaxInput)]

Places ==
  /\ rWriter \in {"select", "write", "gone"} /\ rReader \in {"read", "frame", "gone"}
  /\ rGuest \in {"reads", "stalled", "gone"} /\ rMask \in {0, 1} /\ rLastMask \in {-1, 0, 1}
  /\ rCloser \in {"no", "flag", "stop", "closed"} /\ rErr \in {"none", "stopped reading", "write", "read"}

LEMMA TypeParts == Rfb!TypeOK <=> Queues /\ Counts /\ Places
  BY DEF Rfb!TypeOK, Queues, Counts, Places

\* What the queues do is one of these.
LEMMA QueueMoves ==
  ASSUME Queues, NEW m \in Rfb!Message
  PROVE  /\ Append(rOut, m) \in Seq(Rfb!Message) /\ (Len(rOut) < Cap => Len(Append(rOut, m)) <= Cap)
         /\ Append(rWire, m) \in Seq(Rfb!Message) /\ (Len(rWire) < Buffer => Len(Append(rWire, m)) <= Buffer)
         /\ \A s \in Rfb!Sender : [rWait EXCEPT ![s] = m] \in [Rfb!Sender -> Rfb!Message]
<1>1. \A q \in Seq(Rfb!Message) : /\ Append(q, m) \in Seq(Rfb!Message)
                                  /\ Len(q) \in Nat /\ Len(Append(q, m)) = Len(q) + 1
  OBVIOUS
<1>2. Cap \in Nat /\ Buffer \in Nat
  BY RfbBounds
<1>3. rOut \in Seq(Rfb!Message) /\ rWire \in Seq(Rfb!Message) /\ rWait \in [Rfb!Sender -> Rfb!Message]
  BY DEF Queues
<1> QED
  BY <1>1, <1>2, <1>3

LEMMA QueueHeads ==
  ASSUME NEW q \in Seq(Rfb!Message), q # <<>>, NEW n \in Nat, Len(q) <= n
  PROVE  Head(q) \in Rfb!Message /\ Tail(q) \in Seq(Rfb!Message) /\ Len(Tail(q)) <= n
  OBVIOUS

LEMMA RfbPlaces == Places /\ Rfb!Next => Places'
<1> SUFFICES ASSUME Places, Rfb!Next PROVE Places'
  OBVIOUS
<1> USE DEF Places, Rfb!inputVars, Rfb!serverVars, Rfb!SetErr
<1>1. ASSUME NEW s \in Rfb!Hand, Rfb!Key(s) PROVE Places'
  BY <1>1 DEF Rfb!Key
<1>2. ASSUME NEW m \in {0, 1}, Rfb!Pointer(m) PROVE Places'
  BY <1>2 DEF Rfb!Pointer
<1>3. ASSUME NEW s \in Rfb!Sender, Rfb!SenderStep(s) PROVE Places'
  BY <1>3 DEF Rfb!SenderStep, Rfb!Enqueue, Rfb!GiveUp, Rfb!SendTimesOut
<1>4. CASE Rfb!WriterStep
  BY <1>4 DEF Rfb!WriterStep, Rfb!Take, Rfb!Write, Rfb!WriteFails, Rfb!WriterStops
<1>5. CASE Rfb!ReaderStep
  BY <1>5 DEF Rfb!ReaderStep, Rfb!ReadFrame, Rfb!AskNext, Rfb!ReadFails
<1>6. CASE Rfb!Close
  BY <1>6 DEF Rfb!Close
<1>7. CASE Rfb!Consume \/ Rfb!ServeFrame \/ Rfb!Stall \/ Rfb!Resume \/ Rfb!Vanish
  BY <1>7 DEF Rfb!Consume, Rfb!ServeFrame, Rfb!Stall, Rfb!Resume, Rfb!Vanish
<1> QED
  BY <1>1, <1>2, <1>3, <1>4, <1>5, <1>6, <1>7 DEF Rfb!Next

\* An input gets the number after the last, within the bound.
LEMMA RfbNumbers ==
  ASSUME Counts, NEW s \in Rfb!Hand, Rfb!MayInput
  PROVE  rSent[s] + 1 \in 0..MaxInput /\ Rfb!Input(s, rSent[s] + 1) \in Rfb!Message
<1>1. rSent["ui"] \in Nat /\ rSent["paste"] \in Nat /\ rSent["ui"] + rSent["paste"] < MaxInput /\ MaxInput \in Nat
  BY RfbFacts, RfbBounds DEF Counts, Rfb!MayInput
<1>2. s = "ui" \/ s = "paste"
  BY RfbFacts
<1>3. rSent[s] + 1 \in 0..MaxInput
  BY <1>1, <1>2
<1> QED
  BY <1>3 DEF Rfb!Input, Rfb!Message

\* The message of a pointer event is motion, or has the next number.
LEMMA PointerMessage ==
  ASSUME Counts, NEW m \in {0, 1}, Rfb!Pointer(m)
  PROVE  (IF m = rMask THEN Rfb!Motion ELSE Rfb!Input("ui", rSent'["ui"])) \in Rfb!Message
<1>1. CASE m = rMask
  BY <1>1, RfbFacts
<1>2. CASE m # rMask
  <2>1. Rfb!MayInput /\ rSent' = [rSent EXCEPT !["ui"] = @ + 1] /\ "ui" \in Rfb!Hand
    BY <1>2, RfbFacts DEF Rfb!Pointer
  <2>2. rSent'["ui"] = rSent["ui"] + 1
    BY <2>1 DEF Counts
  <2> QED
    BY <1>2, <2>1, <2>2, RfbNumbers
<1> QED
  BY <1>1, <1>2

LEMMA RfbQueues == Queues /\ Counts /\ Rfb!Next => Queues'
<1> SUFFICES ASSUME Queues, Counts, Rfb!Next PROVE Queues'
  OBVIOUS
<1> USE DEF Rfb!inputVars, Rfb!serverVars
<1>a. /\ Rfb!None \in Rfb!Message /\ Rfb!Request \in Rfb!Message /\ Rfb!Motion \in Rfb!Message
      /\ "ui" \in Rfb!Hand /\ "read" \in Rfb!Sender /\ \A s \in Rfb!Hand : s \in Rfb!Sender
  BY RfbFacts
<1>b. ASSUME NEW s \in Rfb!Sender, NEW m \in Rfb!Message, rWait' = [rWait EXCEPT ![s] = m],
             UNCHANGED <<rOut, rWire, rInHand>>
      PROVE  Queues'
  BY <1>b, QueueMoves DEF Queues
<1>c. ASSUME NEW m \in Rfb!Message, Len(rOut) < Cap, rOut' = Append(rOut, m), UNCHANGED <<rWire, rInHand>>,
             rWait' \in [Rfb!Sender -> Rfb!Message]
      PROVE  Queues'
  BY <1>c, QueueMoves DEF Queues
<1>1. ASSUME NEW s \in Rfb!Hand, Rfb!Key(s) PROVE Queues'
  <2>1. Rfb!Input(s, rSent[s] + 1) \in Rfb!Message
    BY <1>1, RfbNumbers DEF Rfb!Key
  <2>2. rWait' = [rWait EXCEPT ![s] = Rfb!Input(s, rSent[s] + 1)] /\ UNCHANGED <<rOut, rWire, rInHand>>
    BY <1>1 DEF Rfb!Key
  <2> QED
    BY <1>a, <1>b, <2>1, <2>2
<1>2. ASSUME NEW m \in {0, 1}, Rfb!Pointer(m) PROVE Queues'
  <2> DEFINE b == IF m = rMask THEN Rfb!Motion ELSE Rfb!Input("ui", rSent'["ui"])
  <2>1. b \in Rfb!Message
    BY <1>2, PointerMessage
  <2>2. /\ UNCHANGED <<rWire, rInHand>>
        /\ \/ rOut' = (IF Len(rOut) < Cap THEN Append(rOut, b) ELSE rOut) /\ UNCHANGED rWait
           \/ rWait' = [rWait EXCEPT !["ui"] = b] /\ UNCHANGED rOut
    BY <1>2 DEF Rfb!Pointer
  <2> HIDE DEF b
  <2>3. CASE rWait' = [rWait EXCEPT !["ui"] = b] /\ UNCHANGED rOut
    BY <2>1, <2>2, <2>3, <1>a, <1>b
  <2>4. CASE Len(rOut) < Cap /\ rOut' = Append(rOut, b) /\ UNCHANGED rWait
    <3>1. rWait' \in [Rfb!Sender -> Rfb!Message]
      BY <2>4 DEF Queues
    <3> QED
      BY <2>1, <2>2, <2>4, <3>1, <1>c
  <2>5. CASE UNCHANGED <<rOut, rWait>>
    BY <2>2, <2>5 DEF Queues
  <2> QED
    BY <2>2, <2>3, <2>4, <2>5
<1>3. ASSUME NEW s \in Rfb!Sender, Rfb!Enqueue(s) PROVE Queues'
  <2>1. /\ Len(rOut) < Cap /\ rOut' = Append(rOut, rWait[s]) /\ UNCHANGED <<rWire, rInHand>>
        /\ rWait' = [rWait EXCEPT ![s] = Rfb!None]
    BY <1>3 DEF Rfb!Enqueue
  <2>2. rWait[s] \in Rfb!Message /\ rWait' \in [Rfb!Sender -> Rfb!Message]
    BY <2>1, <1>a DEF Queues
  <2> QED
    BY <2>1, <2>2, <1>c
<1>4. ASSUME NEW s \in Rfb!Sender, Rfb!GiveUp(s) \/ Rfb!SendTimesOut(s) PROVE Queues'
  <2>1. rWait' = [rWait EXCEPT ![s] = Rfb!None] /\ UNCHANGED <<rOut, rWire, rInHand>>
    BY <1>4 DEF Rfb!GiveUp, Rfb!SendTimesOut
  <2> QED
    BY <2>1, <1>a, <1>b
<1>5. CASE Rfb!Take
  <2>1. rOut # <<>> /\ rInHand' = Head(rOut) /\ rOut' = Tail(rOut) /\ UNCHANGED <<rWait, rWire>>
    BY <1>5 DEF Rfb!Take
  <2>2. Head(rOut) \in Rfb!Message /\ Tail(rOut) \in Seq(Rfb!Message) /\ Len(Tail(rOut)) <= Cap
    BY <2>1, RfbBounds, QueueHeads DEF Queues
  <2> QED
    BY <2>1, <2>2 DEF Queues
<1>6. CASE Rfb!Write
  <2>1. /\ Len(rWire) < Buffer /\ rWire' = Append(rWire, rInHand) /\ rInHand' = Rfb!None
        /\ UNCHANGED <<rOut, rWait>> /\ rInHand \in Rfb!Message
    BY <1>6 DEF Rfb!Write, Queues
  <2>2. rWire' \in Seq(Rfb!Message) /\ Len(rWire') <= Buffer
    BY <2>1, QueueMoves
  <2> QED
    BY <2>1, <2>2, <1>a DEF Queues
<1>7. CASE Rfb!WriteFails \/ Rfb!WriterStops
  BY <1>7, <1>a DEF Rfb!WriteFails, Rfb!WriterStops, Queues
<1>8. CASE Rfb!ReadFrame \/ Rfb!ReadFails \/ Rfb!Close
  BY <1>8 DEF Rfb!ReadFrame, Rfb!ReadFails, Rfb!Close, Queues
<1>9. CASE Rfb!AskNext
  <2>1. rWait' = [rWait EXCEPT !["read"] = Rfb!Request] /\ UNCHANGED <<rOut, rWire, rInHand>>
    BY <1>9 DEF Rfb!AskNext
  <2> QED
    BY <2>1, <1>a, <1>b
<1>10. CASE Rfb!Consume
  <2>1. rWire # <<>> /\ rWire' = Tail(rWire) /\ UNCHANGED <<rOut, rWait, rInHand>>
    BY <1>10 DEF Rfb!Consume
  <2>2. Tail(rWire) \in Seq(Rfb!Message) /\ Len(Tail(rWire)) <= Buffer
    BY <2>1, RfbBounds, QueueHeads DEF Queues
  <2> QED
    BY <2>1, <2>2 DEF Queues
<1>11. CASE Rfb!ServeFrame \/ Rfb!Stall \/ Rfb!Resume \/ Rfb!Vanish
  BY <1>11 DEF Rfb!ServeFrame, Rfb!Stall, Rfb!Resume, Rfb!Vanish, Queues
<1> QED
  BY <1>1, <1>2, <1>3, <1>4, <1>5, <1>6, <1>7, <1>8, <1>9, <1>10, <1>11
  DEF Rfb!Next, Rfb!SenderStep, Rfb!WriterStep, Rfb!ReaderStep

\* What is counted of the requests are numbers, so a sum of at most one says
\* which of them are nothing.
LEMMA Terms ==
  ASSUME Queues
  PROVE  /\ Rfb!RequestsIn(rOut) \in Nat /\ Rfb!RequestsIn(rWire) \in Nat
         /\ rWire # <<>> => /\ Rfb!RequestsIn(Tail(rWire)) \in Nat
                            /\ Rfb!RequestsIn(rWire) = Rfb!OneIf(Head(rWire) = Rfb!Request) + Rfb!RequestsIn(Tail(rWire))
         /\ rOut # <<>>  => /\ Rfb!RequestsIn(Tail(rOut)) \in Nat
                            /\ Rfb!RequestsIn(rOut) = Rfb!OneIf(Head(rOut) = Rfb!Request) + Rfb!RequestsIn(Tail(rOut))
<1>1. rOut \in Seq(Rfb!Message) /\ rWire \in Seq(Rfb!Message) /\ Rfb!None \in Rfb!Message
  BY RfbFacts DEF Queues
<1>2. Rfb!RequestsIn(rOut) \in Nat /\ Rfb!RequestsIn(rWire) \in Nat
  BY <1>1, RequestsAppend
<1>3. ASSUME rWire # <<>>
      PROVE  /\ Rfb!RequestsIn(Tail(rWire)) \in Nat
             /\ Rfb!RequestsIn(rWire) = Rfb!OneIf(Head(rWire) = Rfb!Request) + Rfb!RequestsIn(Tail(rWire))
  BY <1>1, <1>3, RequestsTail
<1>4. ASSUME rOut # <<>>
      PROVE  /\ Rfb!RequestsIn(Tail(rOut)) \in Nat
             /\ Rfb!RequestsIn(rOut) = Rfb!OneIf(Head(rOut) = Rfb!Request) + Rfb!RequestsIn(Tail(rOut))
  BY <1>1, <1>4, RequestsTail
<1> QED
  BY <1>2, <1>3, <1>4

\* Once the server was asked nothing else is under way.
LEMMA OneAsked ==
  Queues /\ Counts /\ Tokens /\ rAsked > 0 => rFrames = 0 /\ Rfb!RequestsIn(rWire) = 0
<1> SUFFICES ASSUME Queues, Counts, Tokens, rAsked > 0 PROVE rFrames = 0 /\ Rfb!RequestsIn(rWire) = 0
  OBVIOUS
<1> DEFINE o == Rfb!RequestsIn(rOut)
           w == Rfb!RequestsIn(rWire)
           h == Rfb!OneIf(rInHand = Rfb!Request)
           d == Rfb!OneIf(rWait["dial"] = Rfb!Request)
           r == Rfb!OneIf(rWait["read"] = Rfb!Request)
           x == Rfb!OneIf(rReader = "frame")
<1>1. h \in {0, 1} /\ d \in {0, 1} /\ r \in {0, 1} /\ x \in {0, 1}
  BY IfOne
<1>2. o \in Nat /\ w \in Nat
  BY Terms
<1>3. o + w + h + d + r + rAsked + rFrames + x <= 1
  BY DEF Tokens, Rfb!UnderWay
<1>4. rAsked \in Nat /\ rFrames \in Nat
  BY DEF Counts
<1> HIDE DEF o, w, h, d, r, x
<1>5. rFrames = 0 /\ w = 0
  BY <1>1, <1>2, <1>3, <1>4
<1> QED
  BY <1>5 DEF w

\* A frame is one at a time because a request is.
LEMMA RfbCounts == Queues /\ Counts /\ Tokens /\ Rfb!Next => Counts'
<1> SUFFICES ASSUME Queues, Counts, Tokens, Rfb!Next PROVE Counts'
  OBVIOUS
<1> USE RfbBounds DEF Rfb!inputVars, Rfb!serverVars
<1>a. /\ rSent \in [Rfb!Hand -> 0..MaxInput] /\ rGot \in [Rfb!Hand -> Seq(0..MaxInput)]
      /\ rFrames \in 0..1 /\ rAsked \in 0..1 /\ rStalls \in 0..MaxStall /\ rMoves \in 0..MaxMotion
  BY DEF Counts
<1>1. ASSUME NEW s \in Rfb!Hand, Rfb!Key(s) PROVE Counts'
  <2>1. rSent[s] + 1 \in 0..MaxInput
    BY <1>1, RfbNumbers DEF Rfb!Key
  <2>2. rSent' = [rSent EXCEPT ![s] = rSent[s] + 1] /\ UNCHANGED <<rMoves, rFrames, rAsked, rStalls, rGot>>
    BY <1>1 DEF Rfb!Key
  <2>3. rSent' \in [Rfb!Hand -> 0..MaxInput]
    BY <1>a, <2>1, <2>2
  <2> QED
    BY <1>a, <2>2, <2>3 DEF Counts
<1>2. ASSUME NEW m \in {0, 1}, Rfb!Pointer(m) PROVE Counts'
  <2>1. UNCHANGED <<rFrames, rAsked, rStalls, rGot>>
    BY <1>2 DEF Rfb!Pointer
  <2>2. CASE m = rMask
    BY <1>2, <1>a, <2>1, <2>2 DEF Rfb!Pointer, Counts
  <2>3. CASE m # rMask
    <3>1. Rfb!MayInput /\ rSent' = [rSent EXCEPT !["ui"] = rSent["ui"] + 1] /\ UNCHANGED rMoves
      BY <1>2, <2>3 DEF Rfb!Pointer
    <3>2. "ui" \in Rfb!Hand
      BY RfbFacts
    <3>3. rSent["ui"] + 1 \in 0..MaxInput
      BY <3>1, <3>2, RfbNumbers
    <3>4. rSent' \in [Rfb!Hand -> 0..MaxInput]
      BY <1>a, <3>1, <3>3
    <3> QED
      BY <1>a, <2>1, <3>1, <3>4 DEF Counts
  <2> QED
    BY <2>2, <2>3
<1>3. ASSUME NEW s \in Rfb!Sender, Rfb!SenderStep(s) PROVE Counts'
  BY <1>3 DEF Rfb!SenderStep, Rfb!Enqueue, Rfb!GiveUp, Rfb!SendTimesOut, Counts
<1>4. CASE Rfb!WriterStep \/ Rfb!AskNext \/ Rfb!ReadFails \/ Rfb!Close
  BY <1>4 DEF Rfb!WriterStep, Rfb!Take, Rfb!Write, Rfb!WriteFails, Rfb!WriterStops,
    Rfb!AskNext, Rfb!ReadFails, Rfb!Close, Counts
<1>5. CASE Rfb!ReadFrame
  BY <1>5 DEF Rfb!ReadFrame, Counts
<1>6. CASE Rfb!Consume
  <2>1. rWire # <<>> /\ UNCHANGED <<rFrames, rStalls, rMoves, rSent>>
    BY <1>6 DEF Rfb!Consume
  <2>2. rAsked' \in 0..1
    <3>1. CASE Head(rWire) = Rfb!Request
      <4>1. Rfb!RequestsIn(rWire) >= 1
        <5>1. Rfb!OneIf(Head(rWire) = Rfb!Request) = 1
          BY <3>1, IfOne
        <5> QED
          BY <2>1, <5>1, Terms
      <4>2. rAsked = 0
        BY <1>a, <4>1, OneAsked
      <4> QED
        BY <1>6, <3>1, <4>2 DEF Rfb!Consume
    <3>2. CASE Head(rWire) # Rfb!Request
      BY <1>6, <1>a, <3>2 DEF Rfb!Consume
    <3> QED
      BY <3>1, <3>2
  <2>3. rGot' \in [Rfb!Hand -> Seq(0..MaxInput)]
    <3> DEFINE b == Head(rWire)
    <3>1. CASE b.n > 0
      <4>1. b \in Rfb!Message
        BY <2>1, QueueHeads, RfbBounds DEF Queues
      <4>2. b.from \in Rfb!Hand /\ b.n \in 0..MaxInput
        <5> HIDE DEF b
        <5> QED
          BY <3>1, <4>1 DEF Rfb!Message, Rfb!None, Rfb!Request
      <4>3. rGot' = [rGot EXCEPT ![b.from] = Append(rGot[b.from], b.n)]
        BY <1>6, <3>1 DEF Rfb!Consume
      <4> HIDE DEF b
      <4>4. Append(rGot[b.from], b.n) \in Seq(0..MaxInput)
        <5>1. rGot[b.from] \in Seq(0..MaxInput)
          BY <1>a, <4>2
        <5> QED
          BY <4>2, <5>1
      <4> QED
        BY <1>a, <4>2, <4>3, <4>4
    <3>2. CASE ~(b.n > 0)
      BY <1>6, <1>a, <3>2 DEF Rfb!Consume
    <3> QED
      BY <3>1, <3>2
  <2> QED
    BY <1>a, <2>1, <2>2, <2>3 DEF Counts
<1>7. CASE Rfb!ServeFrame
  <2>1. rAsked' = 0 /\ rAsked > 0 /\ rFrames' = rFrames + 1 /\ UNCHANGED <<rStalls, rMoves, rSent, rGot>>
    BY <1>7 DEF Rfb!ServeFrame
  <2>2. rFrames = 0
    BY <1>a, <2>1, OneAsked
  <2> QED
    BY <1>a, <2>1, <2>2 DEF Counts
<1>8. CASE Rfb!Stall
  BY <1>8, <1>a DEF Rfb!Stall, Counts
<1>9. CASE Rfb!Resume \/ Rfb!Vanish
  BY <1>9 DEF Rfb!Resume, Rfb!Vanish, Counts
<1> QED
  BY <1>1, <1>2, <1>3, <1>4, <1>5, <1>6, <1>7, <1>8, <1>9 DEF Rfb!Next, Rfb!ReaderStep

\* An error stays, and so does a Close.
LEMMA RfbOver ==
  RfbInv /\ Rfb!Next => /\ (rErr # "none" => rErr' # "none")
                        /\ (Rfb!Closing => Rfb!Closing' /\ rErr' = rErr)
<1> SUFFICES ASSUME Rfb!Next
             PROVE /\ (rErr # "none" => rErr' # "none")
                   /\ (Rfb!Closing => Rfb!Closing' /\ rErr' = rErr)
  OBVIOUS
<1> USE DEF Rfb!Closing
<1>1. ASSUME NEW s \in Rfb!Sender, Rfb!SenderStep(s)
      PROVE /\ (rErr # "none" => rErr' # "none")
            /\ (Rfb!Closing => Rfb!Closing' /\ rErr' = rErr)
  BY <1>1 DEF Rfb!SenderStep, Rfb!Enqueue, Rfb!GiveUp, Rfb!SendTimesOut, Rfb!SetErr
<1>2. CASE (\E s \in Rfb!Hand : Rfb!Key(s)) \/ (\E m \in {0, 1} : Rfb!Pointer(m))
  BY <1>2 DEF Rfb!Key, Rfb!Pointer
<1>3. CASE Rfb!WriterStep \/ Rfb!ReaderStep \/ Rfb!Close
  BY <1>3 DEF Rfb!WriterStep, Rfb!Take, Rfb!Write, Rfb!WriteFails, Rfb!WriterStops,
    Rfb!ReaderStep, Rfb!ReadFrame, Rfb!AskNext, Rfb!ReadFails, Rfb!SetErr, Rfb!Close
<1>4. CASE Rfb!Consume \/ Rfb!ServeFrame \/ Rfb!Stall \/ Rfb!Resume \/ Rfb!Vanish
  BY <1>4 DEF Rfb!Consume, Rfb!ServeFrame, Rfb!Stall, Rfb!Resume, Rfb!Vanish
<1> QED
  BY <1>1, <1>2, <1>3, <1>4 DEF Rfb!Next

\* Nobody waits with a message of another.
LEMMA RfbRoles == Queues /\ Places /\ Roles /\ Rfb!Next => Roles'
<1> SUFFICES ASSUME Queues, Places, Roles, Rfb!Next PROVE Roles'
  OBVIOUS
<1> USE DEF Rfb!inputVars, Rfb!serverVars
<1> DEFINE Waits(w) == /\ \A s \in Rfb!Hand : w[s] # Rfb!None => w[s].from = s
                       /\ \A s \in {"dial", "read"} : w[s] \in {Rfb!None, Rfb!Request}
<1>a. /\ Rfb!Hand = {"ui", "paste"} /\ Rfb!Sender = {"ui", "paste", "dial", "read"}
      /\ rWait \in [Rfb!Sender -> Rfb!Message]
  BY RfbFacts DEF Queues
<1>b. /\ Waits(rWait) /\ (rReader = "frame" => rWait["read"] = Rfb!None)
      /\ (rWriter # "write" => rInHand = Rfb!None) /\ rLastMask \in {-1, rMask}
      /\ (rReader = "gone" => rErr # "none" \/ rCloser # "no")
  BY DEF Roles, Rfb!Done, Rfb!Closing
<1>c. ASSUME Waits(rWait'), rReader' = "frame" => rWait'["read"] = Rfb!None,
             rWriter' # "write" => rInHand' = Rfb!None, rLastMask' \in {-1, rMask'},
             rReader' = "gone" => rErr' # "none" \/ rCloser' # "no"
      PROVE  Roles'
  BY <1>c DEF Roles, Rfb!Done, Rfb!Closing
<1>d. ASSUME NEW s \in Rfb!Hand, NEW m, m.from = s, rWait' = [rWait EXCEPT ![s] = m] PROVE Waits(rWait')
  BY <1>a, <1>b, <1>d
<1>e. ASSUME NEW s \in Rfb!Sender, rWait' = [rWait EXCEPT ![s] = Rfb!None] PROVE Waits(rWait')
  BY <1>a, <1>b, <1>e
<1>1. ASSUME NEW s \in Rfb!Hand, Rfb!Key(s) PROVE Roles'
  <2>1. /\ rWait' = [rWait EXCEPT ![s] = Rfb!Input(s, rSent[s] + 1)]
        /\ UNCHANGED <<rReader, rWriter, rInHand, rLastMask, rMask, rErr, rCloser>>
    BY <1>1 DEF Rfb!Key
  <2>2. Rfb!Input(s, rSent[s] + 1).from = s
    BY DEF Rfb!Input
  <2>3. Waits(rWait')
    BY <2>1, <2>2, <1>d
  <2>4. rWait'["read"] = rWait["read"]
    BY <2>1, <1>a
  <2> HIDE DEF Waits
  <2> QED
    BY <1>b, <1>c, <2>1, <2>3, <2>4
<1>2. ASSUME NEW m \in {0, 1}, Rfb!Pointer(m) PROVE Roles'
  <2> DEFINE b == IF m = rMask THEN Rfb!Motion ELSE Rfb!Input("ui", rSent'["ui"])
  <2>1. /\ rMask' = m /\ rLastMask' = m /\ UNCHANGED <<rReader, rWriter, rInHand, rErr, rCloser>>
        /\ \/ UNCHANGED rWait
           \/ rWait' = [rWait EXCEPT !["ui"] = b]
    BY <1>2 DEF Rfb!Pointer
  <2>2. b.from = "ui"
    BY DEF Rfb!Motion, Rfb!Input
  <2> HIDE DEF b
  <2>3. Waits(rWait') /\ rWait'["read"] = rWait["read"]
    <3>1. CASE UNCHANGED rWait
      BY <1>b, <3>1
    <3>2. CASE rWait' = [rWait EXCEPT !["ui"] = b]
      BY <1>a, <1>d, <2>2, <3>2
    <3> QED
      BY <2>1, <3>1, <3>2
  <2> HIDE DEF Waits
  <2> QED
    BY <1>b, <1>c, <2>1, <2>3
<1>3. ASSUME NEW s \in Rfb!Sender, Rfb!SenderStep(s) PROVE Roles'
  <2>1. /\ rWait' = [rWait EXCEPT ![s] = Rfb!None]
        /\ UNCHANGED <<rReader, rWriter, rInHand, rLastMask, rMask, rCloser>>
        /\ rErr' = rErr \/ rErr' # "none"
    BY <1>3 DEF Rfb!SenderStep, Rfb!Enqueue, Rfb!GiveUp, Rfb!SendTimesOut, Rfb!SetErr
  <2>2. Waits(rWait')
    BY <1>e, <2>1
  <2>3. rWait'["read"] = rWait["read"] \/ rWait'["read"] = Rfb!None
    BY <1>a, <2>1
  <2> HIDE DEF Waits
  <2> QED
    BY <1>b, <1>c, <2>1, <2>2, <2>3
<1>4. CASE Rfb!Take \/ Rfb!Write \/ Rfb!WriteFails \/ Rfb!WriterStops
  <2>1. /\ UNCHANGED <<rWait, rReader, rLastMask, rMask, rCloser>> /\ (rErr' = rErr \/ rErr' # "none")
        /\ (rWriter' # "write" => rInHand' = Rfb!None)
    BY <1>4, <1>b DEF Rfb!Take, Rfb!Write, Rfb!WriteFails, Rfb!WriterStops, Rfb!SetErr
  <2> HIDE DEF Waits
  <2> QED
    BY <1>b, <1>c, <2>1
<1>5. CASE Rfb!ReadFrame
  <2>1. UNCHANGED <<rWait, rWriter, rInHand, rLastMask, rMask, rCloser, rErr>> /\ rWait["read"] = Rfb!None /\ rReader' = "frame"
    BY <1>5 DEF Rfb!ReadFrame
  <2> HIDE DEF Waits
  <2> QED
    BY <1>b, <1>c, <2>1
<1>6. CASE Rfb!AskNext
  <2>1. /\ rWait' = [rWait EXCEPT !["read"] = Rfb!Request] /\ rReader' = "read"
        /\ UNCHANGED <<rWriter, rInHand, rLastMask, rMask, rCloser, rErr>>
    BY <1>6 DEF Rfb!AskNext
  <2>2. Waits(rWait')
    BY <1>a, <1>b, <2>1
  <2> HIDE DEF Waits
  <2> QED
    BY <1>b, <1>c, <2>1, <2>2
<1>7. CASE Rfb!ReadFails
  <2>1. /\ UNCHANGED <<rWait, rWriter, rInHand, rLastMask, rMask, rCloser>> /\ rReader' = "gone"
        /\ (rErr' # "none" \/ rCloser' # "no")
    BY <1>7 DEF Rfb!ReadFails, Rfb!SetErr, Rfb!Closing
  <2> HIDE DEF Waits
  <2> QED
    BY <1>b, <1>c, <2>1
<1>8. CASE Rfb!Close
  <2>1. UNCHANGED <<rWait, rWriter, rInHand, rLastMask, rMask, rErr, rReader>> /\ rCloser' # "no"
    BY <1>8 DEF Rfb!Close
  <2> HIDE DEF Waits
  <2> QED
    BY <1>b, <1>c, <2>1
<1>9. CASE Rfb!Consume \/ Rfb!ServeFrame \/ Rfb!Stall \/ Rfb!Resume \/ Rfb!Vanish
  <2>1. UNCHANGED <<rWait, rWriter, rInHand, rLastMask, rMask, rErr, rReader, rCloser>>
    BY <1>9 DEF Rfb!Consume, Rfb!ServeFrame, Rfb!Stall, Rfb!Resume, Rfb!Vanish
  <2> HIDE DEF Waits
  <2> QED
    BY <1>b, <1>c, <2>1
<1> QED
  BY <1>1, <1>2, <1>3, <1>4, <1>5, <1>6, <1>7, <1>8, <1>9 DEF Rfb!Next, Rfb!WriterStep, Rfb!ReaderStep

\* A step moves the request on, or loses it and says so.
LEMMA RfbTokens == RfbInv /\ Rfb!Next => Tokens'
<1> SUFFICES ASSUME RfbInv, Rfb!Next PROVE Tokens'
  OBVIOUS
<1> USE DEF Rfb!inputVars, Rfb!serverVars
<1> DEFINE Lost == rErr' # "none" \/ Rfb!Closing'
           h == Rfb!OneIf(rInHand = Rfb!Request)
           d == Rfb!OneIf(rWait["dial"] = Rfb!Request)
           r == Rfb!OneIf(rWait["read"] = Rfb!Request)
           x == Rfb!OneIf(rReader = "frame")
           o == Rfb!RequestsIn(rOut)
           w == Rfb!RequestsIn(rWire)
<1>a. Queues /\ Counts /\ Roles /\ Tokens
  BY TypeParts DEF RfbInv
<1>b. /\ Rfb!UnderWay  = o + w + h + d + r + rAsked + rFrames + x
      /\ Rfb!UnderWay' = o' + w' + h' + d' + r' + rAsked' + rFrames' + x'
  BY DEF Rfb!UnderWay
<1>c. /\ h \in {0, 1} /\ d \in {0, 1} /\ r \in {0, 1} /\ x \in {0, 1}
      /\ h' \in {0, 1} /\ d' \in {0, 1} /\ r' \in {0, 1} /\ x' \in {0, 1}
  BY IfOne
<1>d. o \in Nat /\ w \in Nat /\ rAsked \in 0..1 /\ rFrames \in 0..1
  BY <1>a, Terms DEF Counts
<1>e. /\ (rErr' = "none" => rErr = "none") /\ (~Rfb!Closing' => ~Rfb!Closing)
      /\ (Rfb!UnderWay <= 1) /\ (rErr = "none" /\ ~Rfb!Closing => Rfb!UnderWay = 1)
  BY <1>a, RfbOver DEF Tokens
<1>f. /\ Rfb!None # Rfb!Request /\ Rfb!Motion # Rfb!Request /\ Rfb!Hand = {"ui", "paste"}
      /\ Rfb!Sender = {"ui", "paste", "dial", "read"} /\ rWait \in [Rfb!Sender -> Rfb!Message]
      /\ \A n : Rfb!Input("ui", n) # Rfb!Request /\ Rfb!Input("paste", n) # Rfb!Request
  BY <1>a, RfbFacts DEF Queues, Rfb!Input, Rfb!Request
<1>g. ASSUME Rfb!UnderWay' = Rfb!UnderWay \/ (Rfb!UnderWay' <= Rfb!UnderWay /\ Lost) PROVE Tokens'
  <2> HIDE DEF h, d, r, x, o, w
  <2> QED
    BY <1>b, <1>c, <1>d, <1>e, <1>g DEF Tokens
<1>h. ASSUME NEW s \in Rfb!Sender, rWait' = [rWait EXCEPT ![s] = Rfb!None]
      PROVE  d' + r' + Rfb!OneIf(rWait[s] = Rfb!Request) = d + r
  <2>1. CASE s \in Rfb!Hand
    <3>1. rWait[s] # Rfb!Request
      BY <1>a, <1>f, <2>1 DEF Roles, Rfb!Request
    <3>2. rWait'["dial"] = rWait["dial"] /\ rWait'["read"] = rWait["read"]
      BY <1>f, <1>h, <2>1
    <3> QED
      BY <3>1, <3>2 DEF Rfb!OneIf
  <2>2. CASE s = "dial"
    <3>1. rWait'["dial"] = Rfb!None /\ rWait'["read"] = rWait["read"]
      BY <1>f, <1>h, <2>2
    <3> QED
      BY <1>f, <2>2, <3>1 DEF Rfb!OneIf
  <2>3. CASE s = "read"
    <3>1. rWait'["read"] = Rfb!None /\ rWait'["dial"] = rWait["dial"]
      BY <1>f, <1>h, <2>3
    <3> QED
      BY <1>f, <2>3, <3>1 DEF Rfb!OneIf
  <2> QED
    BY <1>f, <2>1, <2>2, <2>3
<1>1. ASSUME NEW s \in Rfb!Hand, Rfb!Key(s) PROVE Tokens'
  <2>1. UNCHANGED <<rOut, rWire, rInHand, rReader, rAsked, rFrames>> /\ d' = d /\ r' = r
    <3>1. UNCHANGED <<rOut, rWire, rInHand, rReader, rAsked, rFrames>>
          /\ rWait' = [rWait EXCEPT ![s] = Rfb!Input(s, rSent[s] + 1)]
      BY <1>1 DEF Rfb!Key
    <3>2. rWait'["dial"] = rWait["dial"] /\ rWait'["read"] = rWait["read"]
      BY <1>f, <3>1
    <3> QED
      BY <3>1, <3>2
  <2> QED
    BY <1>b, <1>g, <2>1
<1>2. ASSUME NEW m \in {0, 1}, Rfb!Pointer(m) PROVE Tokens'
  <2> DEFINE b == IF m = rMask THEN Rfb!Motion ELSE Rfb!Input("ui", rSent'["ui"])
  <2>1. /\ UNCHANGED <<rWire, rInHand, rReader, rAsked, rFrames>>
        /\ \/ rOut' = rOut \/ rOut' = Append(rOut, b)
        /\ \/ rWait' = rWait \/ rWait' = [rWait EXCEPT !["ui"] = b]
    BY <1>2 DEF Rfb!Pointer
  <2>2. b # Rfb!Request
    BY <1>f
  <2> HIDE DEF b
  <2>3. d' = d /\ r' = r
    <3>1. rWait'["dial"] = rWait["dial"] /\ rWait'["read"] = rWait["read"]
      BY <1>f, <2>1
    <3> QED
      BY <3>1
  <2>4. o' = o
    <3>1. CASE rOut' = Append(rOut, b)
      <4>1. b \in Rfb!Message
        BY <1>2, <1>a, PointerMessage DEF b
      <4>2. Rfb!RequestsIn(Append(rOut, b)) = Rfb!RequestsIn(rOut) + Rfb!OneIf(b = Rfb!Request)
            /\ Rfb!RequestsIn(rOut) \in Nat
        <5>1. rOut \in Seq(Rfb!Message)
          BY <1>a DEF Queues
        <5> QED
          BY <4>1, <5>1, RequestsAppend
      <4>3. Rfb!OneIf(b = Rfb!Request) = 0
        BY <2>2, IfOne
      <4> QED
        BY <3>1, <4>2, <4>3
    <3> QED
      BY <2>1, <3>1
  <2> QED
    BY <1>b, <1>g, <2>1, <2>3, <2>4
<1>3. ASSUME NEW s \in Rfb!Sender, Rfb!Enqueue(s) PROVE Tokens'
  <2>1. /\ rOut' = Append(rOut, rWait[s]) /\ rWait' = [rWait EXCEPT ![s] = Rfb!None]
        /\ UNCHANGED <<rWire, rInHand, rReader, rAsked, rFrames>>
    BY <1>3 DEF Rfb!Enqueue
  <2>2. o' = o + Rfb!OneIf(rWait[s] = Rfb!Request)
    <3>1. rOut \in Seq(Rfb!Message) /\ rWait[s] \in Rfb!Message
      BY <1>a, <1>f DEF Queues
    <3> QED
      BY <2>1, <3>1, RequestsAppend
  <2>3. d' + r' + Rfb!OneIf(rWait[s] = Rfb!Request) = d + r
    BY <1>h, <2>1
  <2>4. w' = w /\ h' = h /\ x' = x /\ rAsked' = rAsked /\ rFrames' = rFrames
    BY <2>1
  <2>5. Rfb!OneIf(rWait[s] = Rfb!Request) \in {0, 1}
    BY IfOne
  <2>6. Rfb!UnderWay' = Rfb!UnderWay
    <3> HIDE DEF h, d, r, x, o, w
    <3> QED
      BY <1>b, <1>c, <1>d, <2>2, <2>3, <2>4, <2>5
  <2> QED
    BY <1>g, <2>6
<1>4. ASSUME NEW s \in Rfb!Sender, Rfb!GiveUp(s) \/ Rfb!SendTimesOut(s) PROVE Tokens'
  <2>1. /\ rWait' = [rWait EXCEPT ![s] = Rfb!None] /\ UNCHANGED <<rOut, rWire, rInHand, rReader, rAsked, rFrames>>
    BY <1>4 DEF Rfb!GiveUp, Rfb!SendTimesOut
  <2>2. Lost
    <3>1. CASE Rfb!GiveUp(s)
      BY <1>a, <3>1 DEF Rfb!GiveUp, Rfb!Stopped, Rfb!Closing, Roles
    <3>2. CASE Rfb!SendTimesOut(s)
      BY <3>2 DEF Rfb!SendTimesOut, Rfb!SetErr, Rfb!Closing
    <3> QED
      BY <1>4, <3>1, <3>2
  <2>3. d' + r' + Rfb!OneIf(rWait[s] = Rfb!Request) = d + r /\ Rfb!OneIf(rWait[s] = Rfb!Request) \in {0, 1}
    BY <1>h, <2>1, IfOne
  <2>4. w' = w /\ h' = h /\ x' = x /\ o' = o /\ rAsked' = rAsked /\ rFrames' = rFrames
    BY <2>1
  <2>5. Rfb!UnderWay' <= Rfb!UnderWay
    <3> DEFINE e == Rfb!OneIf(rWait[s] = Rfb!Request)
    <3> HIDE DEF h, d, r, x, o, w, e
    <3>1. d' + r' + e = d + r /\ e \in {0, 1}
      BY <2>3 DEF e
    <3>2. Rfb!UnderWay' = o + w + h + d' + r' + rAsked + rFrames + x
      BY <1>b, <2>4
    <3>3. /\ o \in Int /\ w \in Int /\ h \in Int /\ d \in Int /\ r \in Int /\ x \in Int /\ rAsked \in Int /\ rFrames \in Int
          /\ d' \in Int /\ r' \in Int
      BY <1>c, <1>d
    <3>4. PICK d1 \in Int, r1 \in Int : d1 = d' /\ r1 = r'
      BY <3>3
    <3>5. d1 + r1 + e = d + r /\ e \in {0, 1}
      BY <3>1, <3>4
    <3>6. Rfb!UnderWay' = o + w + h + d1 + r1 + rAsked + rFrames + x
      BY <3>2, <3>4
    <3> QED
      BY <1>b, <3>3, <3>5, <3>6
  <2> QED
    BY <1>g, <2>2, <2>5
<1>5. CASE Rfb!Take
  <2>1. /\ rWriter = "select" /\ rOut # <<>> /\ rInHand' = Head(rOut) /\ rOut' = Tail(rOut)
        /\ UNCHANGED <<rWait, rWire, rReader, rAsked, rFrames>>
    BY <1>5 DEF Rfb!Take
  <2>2. h = 0
    BY <1>a, <1>f, <2>1 DEF Roles, Rfb!OneIf
  <2>3. o = h' + o' /\ o' \in Nat
    BY <1>a, <2>1, Terms
  <2>4. d' = d /\ r' = r /\ w' = w /\ x' = x /\ rAsked' = rAsked /\ rFrames' = rFrames
    BY <2>1
  <2>5. Rfb!UnderWay' = Rfb!UnderWay
    <3> HIDE DEF h, d, r, x, o, w
    <3> QED
      BY <1>b, <1>c, <1>d, <2>2, <2>3, <2>4
  <2> QED
    BY <1>g, <2>5
<1>6. CASE Rfb!Write
  <2>1. /\ rWire' = Append(rWire, rInHand) /\ rInHand' = Rfb!None
        /\ UNCHANGED <<rOut, rWait, rReader, rAsked, rFrames>>
    BY <1>6 DEF Rfb!Write
  <2>2. w' = w + h
    <3>1. rWire \in Seq(Rfb!Message) /\ rInHand \in Rfb!Message
      BY <1>a DEF Queues
    <3> QED
      BY <2>1, <3>1, RequestsAppend
  <2>3. h' = 0
    BY <1>f, <2>1 DEF Rfb!OneIf
  <2>4. d' = d /\ r' = r /\ o' = o /\ x' = x /\ rAsked' = rAsked /\ rFrames' = rFrames
    BY <2>1
  <2>5. Rfb!UnderWay' = Rfb!UnderWay
    <3> HIDE DEF h, d, r, x, o, w
    <3> QED
      BY <1>b, <1>c, <1>d, <2>2, <2>3, <2>4
  <2> QED
    BY <1>g, <2>5
<1>7. CASE Rfb!WriteFails
  <2>1. UNCHANGED <<rOut, rWait, rWire, rReader, rAsked, rFrames>> /\ rInHand' = Rfb!None /\ Lost
    BY <1>7 DEF Rfb!WriteFails, Rfb!SetErr, Rfb!Closing
  <2>2. h' = 0 /\ d' = d /\ r' = r /\ o' = o /\ w' = w /\ x' = x
    BY <1>f, <2>1 DEF Rfb!OneIf
  <2>3. Rfb!UnderWay' <= Rfb!UnderWay
    <3> HIDE DEF h, d, r, x, o, w
    <3> QED
      BY <1>b, <1>c, <1>d, <2>1, <2>2
  <2> QED
    BY <1>g, <2>1, <2>3
<1>8. CASE Rfb!WriterStops \/ Rfb!Close \/ Rfb!Stall \/ Rfb!Resume \/ Rfb!Vanish
  <2>1. UNCHANGED <<rOut, rWait, rWire, rReader, rAsked, rFrames, rInHand>>
    BY <1>8 DEF Rfb!WriterStops, Rfb!Close, Rfb!Stall, Rfb!Resume, Rfb!Vanish
  <2> QED
    BY <1>b, <1>g, <2>1
<1>9. CASE Rfb!ReadFrame
  <2>1. /\ UNCHANGED <<rOut, rWait, rWire, rAsked, rInHand>>
        /\ rReader = "read" /\ rReader' = "frame" /\ rFrames' = rFrames - 1
    BY <1>9 DEF Rfb!ReadFrame
  <2>2. x = 0 /\ x' = 1 /\ h' = h /\ d' = d /\ r' = r /\ o' = o /\ w' = w
    BY <2>1 DEF Rfb!OneIf
  <2>3. Rfb!UnderWay' = Rfb!UnderWay
    <3> HIDE DEF h, d, r, x, o, w
    <3> QED
      BY <1>b, <1>c, <1>d, <2>1, <2>2
  <2> QED
    BY <1>g, <2>3
<1>10. CASE Rfb!AskNext
  <2>1. /\ UNCHANGED <<rOut, rWire, rAsked, rFrames, rInHand>> /\ rReader = "frame" /\ rReader' = "read"
        /\ rWait' = [rWait EXCEPT !["read"] = Rfb!Request] /\ rWait["read"] = Rfb!None
    BY <1>10, <1>a DEF Rfb!AskNext, Roles
  <2>2. rWait'["read"] = Rfb!Request /\ rWait'["dial"] = rWait["dial"]
    BY <1>f, <2>1
  <2>3. x = 1 /\ x' = 0 /\ h' = h /\ d' = d /\ r = 0 /\ r' = 1 /\ o' = o /\ w' = w
    BY <1>f, <2>1, <2>2 DEF Rfb!OneIf
  <2>4. Rfb!UnderWay' = Rfb!UnderWay
    <3> HIDE DEF h, d, r, x, o, w
    <3> QED
      BY <1>b, <1>c, <1>d, <2>1, <2>3
  <2> QED
    BY <1>g, <2>4
<1>11. CASE Rfb!ReadFails
  <2>1. UNCHANGED <<rOut, rWait, rWire, rAsked, rFrames, rInHand>> /\ rReader = "read" /\ rReader' = "gone"
    BY <1>11 DEF Rfb!ReadFails
  <2>2. x = 0 /\ x' = 0
    BY <2>1 DEF Rfb!OneIf
  <2> QED
    BY <1>b, <1>g, <2>1, <2>2
<1>12. CASE Rfb!Consume
  <2>1. /\ UNCHANGED <<rOut, rWait, rFrames, rInHand, rReader>> /\ rWire # <<>> /\ rWire' = Tail(rWire)
        /\ rAsked' = IF Head(rWire) = Rfb!Request THEN rAsked + 1 ELSE rAsked
    BY <1>12 DEF Rfb!Consume
  <2>2. w = Rfb!OneIf(Head(rWire) = Rfb!Request) + w' /\ w' \in Nat
    BY <1>a, <2>1, Terms
  <2>3. rAsked' = rAsked + Rfb!OneIf(Head(rWire) = Rfb!Request) /\ Rfb!OneIf(Head(rWire) = Rfb!Request) \in {0, 1}
    BY <1>d, <2>1 DEF Rfb!OneIf
  <2>4. h' = h /\ d' = d /\ r' = r /\ o' = o /\ x' = x
    BY <2>1
  <2>5. Rfb!UnderWay' = Rfb!UnderWay
    <3> DEFINE e == Rfb!OneIf(Head(rWire) = Rfb!Request)
    <3> HIDE DEF h, d, r, x, o, w, e
    <3>1. w = e + w' /\ w' \in Nat /\ rAsked' = rAsked + e /\ e \in {0, 1} /\ rFrames' = rFrames
      BY <2>1, <2>2, <2>3 DEF e
    <3> QED
      BY <1>b, <1>c, <1>d, <2>4, <3>1
  <2> QED
    BY <1>g, <2>5
<1>13. CASE Rfb!ServeFrame
  <2>1. /\ UNCHANGED <<rOut, rWait, rWire, rInHand, rReader>> /\ rAsked > 0 /\ rAsked' = 0 /\ rFrames' = rFrames + 1
    BY <1>13 DEF Rfb!ServeFrame
  <2>2. h' = h /\ d' = d /\ r' = r /\ o' = o /\ w' = w /\ x' = x
    BY <2>1
  <2>3. Rfb!UnderWay' = Rfb!UnderWay
    <3> HIDE DEF h, d, r, x, o, w
    <3> QED
      BY <1>b, <1>c, <1>d, <2>1, <2>2
  <2> QED
    BY <1>g, <2>3
<1> QED
  BY <1>1, <1>2, <1>3, <1>4, <1>5, <1>6, <1>7, <1>8, <1>9, <1>10, <1>11, <1>12, <1>13
  DEF Rfb!Next, Rfb!SenderStep, Rfb!WriterStep, Rfb!ReaderStep

\* The next number goes behind the others; the first of them is the next.
LEMMA NextNumber ==
  ASSUME NEW g \in Nat, NEW n \in Nat, g <= n
  PROVE  ((g + 1)..n) \cup {n + 1} = (g + 1)..(n + 1) /\ Before((g + 1)..n, {n + 1})
  BY DEF Before

LEMMA FirstNumber ==
  ASSUME NEW g \in Nat, NEW n \in Nat, NEW b, NEW R, {b} \cup R = (g + 1)..n, Before({b}, R)
  PROVE  b = g + 1 /\ R = (g + 1 + 1)..n /\ g + 1 <= n
<1>1. b \in Nat /\ b >= g + 1 /\ b <= n
  OBVIOUS
<1>2. \A j \in R : j \in Nat /\ b < j /\ j >= g + 1 /\ j <= n
  BY DEF Before
<1>3. g + 1 \in {b} \cup R
  BY <1>1
<1>4. b = g + 1
  BY <1>1, <1>2, <1>3
<1>5. ASSUME NEW j \in (g + 1 + 1)..n PROVE j \in R
  <2>1. j \in (g + 1)..n /\ j # g + 1
    OBVIOUS
  <2> QED
    BY <1>4, <2>1
<1>6. ASSUME NEW j \in R PROVE j \in (g + 1 + 1)..n
  BY <1>2, <1>4, <1>6
<1> QED
  BY <1>1, <1>4, <1>5, <1>6

\* A step moves the inputs of s on; a press, a release or a key is the next of
\* them; what loses one says so.
LEMMA RfbWay == RfbInv /\ Rfb!Next => Kept'
<1> SUFFICES ASSUME RfbInv, Rfb!Next, rErr' = "none", ~Rfb!Closing', NEW s \in Rfb!Hand
             PROVE  Rfb!Contiguous(rGot'[s]) /\ WayOf(s)'
  BY DEF Kept
<1> USE DEF Rfb!inputVars, Rfb!serverVars
<1>a. Queues /\ Counts /\ Roles
  BY TypeParts DEF RfbInv
<1>b. rErr = "none" /\ ~Rfb!Closing
  BY RfbOver
<1>c. /\ Rfb!Contiguous(rGot[s])
      /\ Rfb!InOrder(rWire, s) /\ Rfb!InOrder(rOut, s)
      /\ Before(Rfb!Inputs(rWire, s), Number(rInHand, s))
      /\ Before(Rfb!Inputs(rWire, s) \cup Number(rInHand, s), Rfb!Inputs(rOut, s))
      /\ Before(Rfb!Inputs(rWire, s) \cup Number(rInHand, s) \cup Rfb!Inputs(rOut, s), Number(rWait[s], s))
      /\ Rfb!Inputs(rWire, s) \cup Number(rInHand, s) \cup Rfb!Inputs(rOut, s) \cup Number(rWait[s], s)
           = (Len(rGot[s]) + 1)..rSent[s]
      /\ Len(rGot[s]) <= rSent[s]
  BY <1>b DEF RfbInv, Kept, WayOf
<1>d. /\ rWire \in Seq(Rfb!Message) /\ rOut \in Seq(Rfb!Message) /\ rInHand \in Rfb!Message
      /\ rWait \in [Rfb!Sender -> Rfb!Message] /\ rGot[s] \in Seq(0..MaxInput)
      /\ Len(rGot[s]) \in Nat /\ rSent[s] \in Nat
      /\ rSent \in [Rfb!Hand -> 0..MaxInput] /\ rGot \in [Rfb!Hand -> Seq(0..MaxInput)]
  BY <1>a, RfbBounds DEF Queues, Counts
<1>e. /\ s \in Rfb!Sender /\ Rfb!Hand = {"ui", "paste"} /\ Rfb!Sender = {"ui", "paste", "dial", "read"}
      /\ Number(Rfb!None, s) = {} /\ Number(Rfb!Request, s) = {} /\ Number(Rfb!Motion, s) = {}
  BY RfbFacts
\* What of the way a step changes, and what it must then show.
<1>f. ASSUME UNCHANGED <<rWire, rInHand, rOut, rGot>>, rSent'[s] = rSent[s], rWait'[s] = rWait[s]
      PROVE  Rfb!Contiguous(rGot'[s]) /\ WayOf(s)'
  BY <1>c, <1>f DEF WayOf
<1>g. ASSUME UNCHANGED <<rWire, rInHand, rOut, rGot>>, rWait[s] = Rfb!None,
             rSent'[s] = rSent[s] + 1, rWait'[s] = Rfb!Input(s, rSent[s] + 1)
      PROVE  Rfb!Contiguous(rGot'[s]) /\ WayOf(s)'
  <2> DEFINE L == Rfb!Inputs(rWire, s) \cup Number(rInHand, s) \cup Rfb!Inputs(rOut, s)
  <2>1. L = (Len(rGot[s]) + 1)..rSent[s]
    BY <1>c, <1>e, <1>g
  <2>2. Number(rWait'[s], s) = {rSent[s] + 1}
    BY <1>d, <1>g DEF Number, Rfb!Input
  <2>3. L \cup {rSent[s] + 1} = (Len(rGot[s]) + 1)..(rSent[s] + 1) /\ Before(L, {rSent[s] + 1})
    <3> HIDE DEF L
    <3> QED
      BY <1>c, <1>d, <2>1, NextNumber
  <2>4. Len(rGot[s]) <= rSent[s] + 1
    BY <1>c, <1>d
  <2> QED
    BY <1>c, <1>g, <2>2, <2>3, <2>4 DEF WayOf
<1>h. ASSUME NEW m \in Rfb!Message, Number(m, s) = {}, UNCHANGED <<rWire, rInHand, rGot>>,
             rOut' = Append(rOut, m), rSent'[s] = rSent[s], rWait'[s] = rWait[s]
      PROVE  Rfb!Contiguous(rGot'[s]) /\ WayOf(s)'
  <2>1. /\ Rfb!Inputs(Append(rOut, m), s) = Rfb!Inputs(rOut, s) \cup Number(m, s)
        /\ Rfb!InOrder(Append(rOut, m), s) <=> Rfb!InOrder(rOut, s) /\ Before(Rfb!Inputs(rOut, s), Number(m, s))
    BY <1>d, InputsAppend
  <2>2. Rfb!Inputs(rOut', s) = Rfb!Inputs(rOut, s) /\ Rfb!InOrder(rOut', s)
    BY <1>c, <1>h, <2>1 DEF Before
  <2> QED
    BY <1>c, <1>h, <2>2 DEF WayOf
<1>1. ASSUME NEW t \in Rfb!Hand, Rfb!Key(t) PROVE Rfb!Contiguous(rGot'[s]) /\ WayOf(s)'
  <2>1. /\ UNCHANGED <<rWire, rInHand, rOut, rGot>> /\ rWait[t] = Rfb!None
        /\ rSent' = [rSent EXCEPT ![t] = @ + 1] /\ rWait' = [rWait EXCEPT ![t] = Rfb!Input(t, rSent[t] + 1)]
    BY <1>1 DEF Rfb!Key
  <2>2. CASE t = s
    <3>1. rSent'[s] = rSent[s] + 1 /\ rWait'[s] = Rfb!Input(s, rSent[s] + 1)
      BY <1>d, <1>e, <2>1, <2>2
    <3> QED
      BY <1>g, <2>1, <2>2, <3>1
  <2>3. CASE t # s
    <3>1. rSent'[s] = rSent[s] /\ rWait'[s] = rWait[s]
      BY <1>d, <1>e, <2>1, <2>3
    <3> QED
      BY <1>f, <2>1, <3>1
  <2> QED
    BY <2>2, <2>3
<1>2. ASSUME NEW m \in {0, 1}, Rfb!Pointer(m) PROVE Rfb!Contiguous(rGot'[s]) /\ WayOf(s)'
  <2>1. UNCHANGED <<rWire, rInHand, rGot>> /\ rWait["ui"] = Rfb!None
    BY <1>2 DEF Rfb!Pointer
  <2>2. CASE m = rMask
    <3>1. /\ rSent' = rSent
          /\ \/ rOut' = rOut /\ rWait' = rWait
             \/ rOut' = Append(rOut, Rfb!Motion) /\ rWait' = rWait
             \/ rOut' = rOut /\ rWait' = [rWait EXCEPT !["ui"] = Rfb!Motion]
      BY <1>2, <2>2 DEF Rfb!Pointer
    <3>2. CASE rOut' = rOut /\ rWait' = rWait
      BY <1>f, <2>1, <3>1, <3>2
    <3>3. CASE rOut' = Append(rOut, Rfb!Motion) /\ rWait' = rWait
      <4>1. Rfb!Motion \in Rfb!Message
        BY RfbFacts
      <4> QED
        BY <1>e, <1>h, <2>1, <3>1, <3>3, <4>1
    <3>4. CASE rOut' = rOut /\ rWait' = [rWait EXCEPT !["ui"] = Rfb!Motion]
      <4>1. Number(rWait'[s], s) = Number(rWait[s], s)
        BY <1>d, <1>e, <2>1, <3>4
      <4> QED
        BY <1>c, <2>1, <3>1, <3>4, <4>1 DEF WayOf
    <3> QED
      BY <3>1, <3>2, <3>3, <3>4
  <2>3. CASE m # rMask
    <3>1. ~Rfb!IsMotion(m)
      BY <1>a, <2>3 DEF Roles, Rfb!IsMotion
    <3>2. /\ rSent' = [rSent EXCEPT !["ui"] = @ + 1] /\ rOut' = rOut
          /\ rWait' = [rWait EXCEPT !["ui"] = Rfb!Input("ui", rSent'["ui"])]
      BY <1>2, <2>3, <3>1 DEF Rfb!Pointer
    <3>3. CASE s = "ui"
      <4>1. rSent'[s] = rSent[s] + 1
        BY <1>d, <3>2, <3>3
      <4>2. rWait'[s] = Rfb!Input(s, rSent[s] + 1)
        BY <1>d, <1>e, <3>2, <3>3, <4>1
      <4> QED
        BY <1>g, <2>1, <3>2, <3>3, <4>1, <4>2
    <3>4. CASE s # "ui"
      <4>1. rSent'[s] = rSent[s] /\ rWait'[s] = rWait[s]
        BY <1>d, <1>e, <3>2, <3>4
      <4> QED
        BY <1>f, <2>1, <3>2, <4>1
    <3> QED
      BY <3>3, <3>4
  <2> QED
    BY <2>2, <2>3
<1>3. ASSUME NEW t \in Rfb!Sender, Rfb!Enqueue(t) PROVE Rfb!Contiguous(rGot'[s]) /\ WayOf(s)'
  <2>1. /\ UNCHANGED <<rWire, rInHand, rGot, rSent>> /\ rOut' = Append(rOut, rWait[t])
        /\ rWait' = [rWait EXCEPT ![t] = Rfb!None]
    BY <1>3 DEF Rfb!Enqueue
  <2>2. CASE t = s
    <3>1. rWait[s] \in Rfb!Message /\ rWait'[s] = Rfb!None
      BY <1>d, <1>e, <2>1, <2>2
    <3>2. /\ Rfb!Inputs(Append(rOut, rWait[s]), s) = Rfb!Inputs(rOut, s) \cup Number(rWait[s], s)
          /\ Rfb!InOrder(Append(rOut, rWait[s]), s) <=>
               Rfb!InOrder(rOut, s) /\ Before(Rfb!Inputs(rOut, s), Number(rWait[s], s))
      BY <1>d, <3>1, InputsAppend
    <3>3. Rfb!InOrder(rOut', s)
      BY <1>c, <2>1, <2>2, <3>2 DEF Before
    <3>4. Before(Rfb!Inputs(rWire, s) \cup Number(rInHand, s), Rfb!Inputs(rOut', s))
      BY <1>c, <2>1, <2>2, <3>2 DEF Before
    <3>5. Number(rWait'[s], s) = {} /\ Rfb!Inputs(rOut', s) = Rfb!Inputs(rOut, s) \cup Number(rWait[s], s)
      BY <1>e, <2>1, <2>2, <3>1, <3>2
    <3>6. Before(Rfb!Inputs(rWire, s) \cup Number(rInHand, s) \cup Rfb!Inputs(rOut', s), Number(rWait'[s], s))
      BY <3>5 DEF Before
    <3>7. Rfb!Inputs(rWire, s) \cup Number(rInHand, s) \cup Rfb!Inputs(rOut', s) \cup Number(rWait'[s], s)
            = (Len(rGot[s]) + 1)..rSent[s]
      BY <1>c, <3>5
    <3> QED
      BY <1>c, <2>1, <3>3, <3>4, <3>6, <3>7 DEF WayOf
  <2>3. CASE t # s
    <3>1. rWait[t] \in Rfb!Message /\ rWait'[s] = rWait[s] /\ rSent'[s] = rSent[s]
      BY <1>d, <1>e, <2>1, <2>3
    <3>2. Number(rWait[t], s) = {}
      <4>1. rWait[t].from = t \/ rWait[t] \in {Rfb!None, Rfb!Request}
        BY <1>a, <1>e DEF Roles
      <4> QED
        BY <1>e, <2>3, <4>1 DEF Number
    <3> QED
      BY <1>h, <2>1, <3>1, <3>2
  <2> QED
    BY <2>2, <2>3
<1>4. ASSUME NEW t \in Rfb!Sender, Rfb!GiveUp(t) \/ Rfb!SendTimesOut(t) PROVE FALSE
  <2>1. ~Rfb!GiveUp(t)
    BY <1>a, <1>b DEF Rfb!GiveUp, Rfb!Stopped, Rfb!Closing, Roles
  <2>2. ~Rfb!SendTimesOut(t)
    BY <1>b DEF Rfb!SendTimesOut, Rfb!SetErr
  <2> QED
    BY <1>4, <2>1, <2>2
<1>5. CASE Rfb!Take
  <2>1. /\ rWriter = "select" /\ rOut # <<>> /\ rInHand' = Head(rOut) /\ rOut' = Tail(rOut)
        /\ UNCHANGED <<rWait, rWire, rGot, rSent>>
    BY <1>5 DEF Rfb!Take
  <2>2. Number(rInHand, s) = {}
    BY <1>a, <1>e, <2>1 DEF Roles
  <2>3. /\ Rfb!Inputs(rOut, s) = Number(rInHand', s) \cup Rfb!Inputs(rOut', s)
        /\ Rfb!InOrder(rOut, s) <=> Rfb!InOrder(rOut', s) /\ Before(Number(rInHand', s), Rfb!Inputs(rOut', s))
    BY <1>d, <2>1, InputsTail
  <2>4. /\ Rfb!InOrder(rOut', s)
        /\ Before(Rfb!Inputs(rWire, s), Number(rInHand', s))
        /\ Before(Rfb!Inputs(rWire, s) \cup Number(rInHand', s), Rfb!Inputs(rOut', s))
    BY <1>c, <2>3 DEF Before
  <2>5. Rfb!Inputs(rWire, s) \cup Number(rInHand', s) \cup Rfb!Inputs(rOut', s)
          = Rfb!Inputs(rWire, s) \cup Number(rInHand, s) \cup Rfb!Inputs(rOut, s)
    BY <2>2, <2>3
  <2> QED
    BY <1>c, <2>1, <2>4, <2>5 DEF WayOf
<1>6. CASE Rfb!Write
  <2>1. /\ rWire' = Append(rWire, rInHand) /\ rInHand' = Rfb!None /\ UNCHANGED <<rOut, rWait, rGot, rSent>>
    BY <1>6 DEF Rfb!Write
  <2>2. /\ Rfb!Inputs(Append(rWire, rInHand), s) = Rfb!Inputs(rWire, s) \cup Number(rInHand, s)
        /\ Rfb!InOrder(Append(rWire, rInHand), s) <=>
             Rfb!InOrder(rWire, s) /\ Before(Rfb!Inputs(rWire, s), Number(rInHand, s))
    BY <1>d, InputsAppend
  <2>3. Rfb!InOrder(rWire', s) /\ Rfb!Inputs(rWire', s) = Rfb!Inputs(rWire, s) \cup Number(rInHand, s)
    BY <1>c, <2>1, <2>2
  <2>4. Number(rInHand', s) = {} /\ Before(Rfb!Inputs(rWire', s), {})
    BY <1>e, <2>1 DEF Before
  <2>5. Rfb!Inputs(rWire', s) \cup Number(rInHand', s) = Rfb!Inputs(rWire, s) \cup Number(rInHand, s)
    BY <2>3, <2>4
  <2> QED
    BY <1>c, <2>1, <2>3, <2>4, <2>5 DEF WayOf
<1>7. CASE Rfb!WriteFails \/ Rfb!ReadFails
  BY <1>7, <1>b DEF Rfb!WriteFails, Rfb!ReadFails, Rfb!SetErr
<1>8. CASE Rfb!WriterStops \/ Rfb!ReadFrame \/ Rfb!Close \/ Rfb!ServeFrame \/ Rfb!Stall \/ Rfb!Resume \/ Rfb!Vanish
  <2>1. UNCHANGED <<rWire, rInHand, rOut, rGot, rSent, rWait>>
    BY <1>8 DEF Rfb!WriterStops, Rfb!ReadFrame, Rfb!Close, Rfb!ServeFrame, Rfb!Stall, Rfb!Resume, Rfb!Vanish
  <2> QED
    BY <1>f, <2>1
<1>9. CASE Rfb!AskNext
  <2>1. UNCHANGED <<rWire, rInHand, rOut, rGot, rSent>> /\ rWait' = [rWait EXCEPT !["read"] = Rfb!Request]
    BY <1>9 DEF Rfb!AskNext
  <2>2. rWait'[s] = rWait[s]
    BY <1>d, <1>e, <2>1
  <2> QED
    BY <1>f, <2>1, <2>2
<1>10. CASE Rfb!Consume
  <2> DEFINE b == Head(rWire)
  <2>1. /\ rWire # <<>> /\ rWire' = Tail(rWire) /\ UNCHANGED <<rInHand, rOut, rWait, rSent>>
        /\ rGot' = IF b.n > 0 THEN [rGot EXCEPT ![b.from] = Append(@, b.n)] ELSE rGot
    BY <1>10 DEF Rfb!Consume
  <2>2. /\ Rfb!Inputs(rWire, s) = Number(b, s) \cup Rfb!Inputs(rWire', s)
        /\ Rfb!InOrder(rWire, s) <=> Rfb!InOrder(rWire', s) /\ Before(Number(b, s), Rfb!Inputs(rWire', s))
    BY <1>d, <2>1, InputsTail
  <2> HIDE DEF b
  <2>3. /\ Rfb!InOrder(rWire', s)
        /\ Before(Rfb!Inputs(rWire', s), Number(rInHand, s))
        /\ Before(Rfb!Inputs(rWire', s) \cup Number(rInHand, s), Rfb!Inputs(rOut, s))
        /\ Before(Rfb!Inputs(rWire', s) \cup Number(rInHand, s) \cup Rfb!Inputs(rOut, s), Number(rWait[s], s))
    BY <1>c, <2>2 DEF Before
  <2>4. CASE b.from = s /\ b.n > 0
    <3> DEFINE R == Rfb!Inputs(rWire', s) \cup Number(rInHand, s) \cup Rfb!Inputs(rOut, s) \cup Number(rWait[s], s)
    <3>1. Number(b, s) = {b.n}
      BY <2>4 DEF Number
    <3>2. {b.n} \cup R = (Len(rGot[s]) + 1)..rSent[s]
      BY <1>c, <2>2, <3>1
    <3>3. Before({b.n}, R)
      BY <1>c, <2>2, <3>1 DEF Before
    <3>4. b.n = Len(rGot[s]) + 1 /\ R = (Len(rGot[s]) + 1 + 1)..rSent[s] /\ Len(rGot[s]) + 1 <= rSent[s]
      <4> HIDE DEF R
      <4> QED
        BY <1>d, <3>2, <3>3, FirstNumber
    <3>5. rGot'[s] = Append(rGot[s], Len(rGot[s]) + 1)
      BY <1>d, <2>1, <2>4, <3>4
    <3>6. Len(rGot'[s]) = Len(rGot[s]) + 1 /\ Rfb!Contiguous(rGot'[s])
      BY <1>c, <1>d, <3>5 DEF Rfb!Contiguous
    <3> QED
      BY <2>1, <2>3, <3>4, <3>6, <1>c DEF WayOf
  <2>5. CASE ~(b.from = s /\ b.n > 0)
    <3>1. Number(b, s) = {}
      BY <2>5 DEF Number
    <3>2. rGot'[s] = rGot[s]
      BY <1>d, <2>1, <2>5
    <3>3. Rfb!Inputs(rWire', s) = Rfb!Inputs(rWire, s)
      BY <2>2, <3>1
    <3> QED
      BY <1>c, <2>1, <2>3, <3>2, <3>3 DEF WayOf
  <2> QED
    BY <2>4, <2>5
<1> QED
  BY <1>1, <1>2, <1>3, <1>4, <1>5, <1>6, <1>7, <1>8, <1>9, <1>10
  DEF Rfb!Next, Rfb!SenderStep, Rfb!WriterStep, Rfb!ReaderStep

LEMMA RfbStepHolds == RfbInv /\ [Rfb!Next]_connVars => RfbInv'
<1>1. ASSUME RfbInv, Rfb!Next PROVE RfbInv'
  <2>1. Queues /\ Counts /\ Places /\ Roles /\ Tokens
    BY <1>1, TypeParts DEF RfbInv
  <2>2. Queues' /\ Counts' /\ Places'
    BY <1>1, <2>1, RfbQueues, RfbCounts, RfbPlaces
  <2>3. Rfb!TypeOK'
    BY <2>2 DEF Rfb!TypeOK, Queues, Counts, Places
  <2> QED
    BY <1>1, <2>1, <2>3, RfbRoles, RfbTokens, RfbWay DEF RfbInv
<1>2. ASSUME RfbInv, UNCHANGED connVars PROVE RfbInv'
  <2>1. UNCHANGED <<rOut, rWait, rWriter, rInHand, rWire, rReader, rFrames, rAsked, rGuest, rStalls,
                    rMask, rLastMask, rMoves, rSent, rGot, rCloser, rErr>>
    BY <1>2 DEF connVars
  <2>2. Rfb!TypeOK'
    BY ZenonT(60), <1>2, <2>1 DEF RfbInv, Rfb!TypeOK
  <2>3. Roles' /\ Tokens'
    BY <1>2, <2>1 DEF RfbInv, Roles, Tokens, Rfb!UnderWay, Rfb!Done, Rfb!Closing
  <2>4. Kept'
    BY <1>2, <2>1 DEF RfbInv, Kept, WayOf, Rfb!Closing
  <2> QED
    BY <2>2, <2>3, <2>4 DEF RfbInv
<1> QED
  BY <1>1, <1>2

-----------------------------------------------------------------------------
(* The window's screen (MCViewer).                                         *)

\* A step of the whole is a step of one part or leaves it alone.
LEMMA StepOfAPart ==
  [ViewerNext]_all => /\ [Next]_vars /\ [Rfb!Next]_connVars /\ [Fit!Next]_fitVars
                      /\ [Pan!Next]_paneVars /\ [Keys!Next]_keyVars
  BY DEF ViewerNext, all

LEMMA InitOfParts == ViewerInit => Init /\ Rfb!Init /\ Fit!Init /\ Pan!Init /\ Keys!Init
  BY DEF ViewerInit

\* Types, and never more than one repaint queued (frameCoalescer), for any number of
\* rows and frames.
THEOREM AtMostOneRepaint == ViewerSpec => []TypeOK
<1>1. ViewerInit => IInv
  BY InitOfParts, InitIInv
<1>2. IInv /\ [ViewerNext]_all => IInv'
  BY StepOfAPart, PaintStepHolds
<1> QED
  BY <1>1, <1>2, PaintShows, PTL DEF ViewerSpec

\* When painting comes to rest the last frame is on the screen, whole (frameCoalescer,
\* readLoop), though it was uploaded while the next one was blitted.
THEOREM LastFrame == ViewerSpec => []LastFrameShown
<1>1. ViewerInit => IInv
  BY InitOfParts, InitIInv
<1>2. IInv /\ [ViewerNext]_all => IInv'
  BY StepOfAPart, PaintStepHolds
<1> QED
  BY <1>1, <1>2, PaintShows, PTL DEF ViewerSpec

\* The screen shown is the selected machine's, over the connection that is still
\* open, and no forward outlives its console (followConsole, attachVNC, installVNC,
\* detachVNC), whatever connects are under way and in whatever order they return.
THEOREM ScreenHolds == ViewerSpec => []ScreenIsTrue
<1>1. ViewerInit => PanInv
  BY InitOfParts, PanInitHolds
<1>2. PanInv /\ [ViewerNext]_all => PanInv'
  BY StepOfAPart, PanStepHolds
<1>3. PanInv => ScreenIsTrue
  BY PanShows DEF PanInv, ScreenIsTrue
<1> QED
  BY <1>1, <1>2, <1>3, PTL DEF ViewerSpec

\* The framebuffer has the guest's size whenever no size is on its way to it, and a
\* server that did not announce is never asked (readLoop, Resize, requestSize),
\* for every number of resizes, the operator's and the guest's own, in whatever order
\* timers, requests and answers come.
THEOREM SizesHold == ViewerSpec => []SizesAgree
<1>1. ViewerInit => FitInv
  BY InitOfParts, FitInitHolds
<1>2. FitInv /\ [ViewerNext]_all => FitInv'
  BY StepOfAPart, FitStepHolds
<1>3. FitInv => SizesAgree
  BY FitAgrees DEF FitInv, SizesAgree
<1> QED
  BY <1>1, <1>2, <1>3, PTL DEF ViewerSpec

\* Until an error or a Close, every press, release and key has reached the guest or
\* is on its way, each of a goroutine's behind those before it, and one update
\* request is under way: motion is all that is dropped (send, pointer, writeLoop,
\* readLoop), for every capacity of the queue and of the socket.
THEOREM MessagesHold == ViewerSpec => []MessagesKept
<1>1. ViewerInit => RfbInv
  BY InitOfParts, RfbInitHolds
<1>2. RfbInv /\ [ViewerNext]_all => RfbInv'
  BY StepOfAPart, RfbStepHolds
<1>3. RfbInv => MessagesKept
  BY RfbAgrees DEF RfbInv, MessagesKept
<1> QED
  BY <1>1, <1>2, <1>3, PTL DEF ViewerSpec

\* The guest takes no modifier to be held that is not, a shortcut arrives with the
\* modifiers that are held, and a paste as Ctrl+V unless a key came between
\* (FocusLost, KeyDown, KeyUp, tapKey, pasteText), for every number of pastes.
THEOREM KeysHold == ViewerSpec => []KeysAsHeld
<1>1. ViewerInit => KeysInv
  BY InitOfParts, KeysInitHolds
<1>2. KeysInv /\ [ViewerNext]_all => KeysInv'
  BY StepOfAPart, KeysStepHolds
<1>3. KeysInv => KeysAsHeld
  BY KeysAgree DEF KeysInv, KeysAsHeld
<1> QED
  BY <1>1, <1>2, <1>3, PTL DEF ViewerSpec

\* No step of a detach leaves an error behind, none changes the guest's mode for
\* nothing unless requests crossed, and none lets the end of an older console
\* replace a newer screen (setErr, requestSize, installVNC).
THEOREM NothingHappensForNothing == ViewerSpec => NothingForNothing
<1>1. ViewerInit => RfbInv /\ FitInv /\ PanInv
  BY InitOfParts, RfbInitHolds, FitInitHolds, PanInitHolds
<1>2. RfbInv /\ FitInv /\ PanInv /\ [ViewerNext]_all => (RfbInv /\ FitInv /\ PanInv)'
  BY StepOfAPart, RfbStepHolds, FitStepHolds, PanStepHolds
<1>3. RfbInv /\ [ViewerNext]_all => [Rfb!Closing => rErr' = rErr]_Rfb!vars
  <2>1. RfbInv /\ [Rfb!Next]_connVars => (Rfb!Closing => rErr' = rErr)
    BY RfbOver DEF connVars
  <2> QED
    BY StepOfAPart, <2>1
<1>4. FitInv => [~crossed /\ toServer # <<>> /\ Len(toServer') < Len(toServer) => Head(toServer) # guest]_Fit!vars
  BY FitServes
<1>5. PanInv /\ [ViewerNext]_all =>
        [screen'.kind = "ended" /\ screen.kind # "ended" => conn # 0 /\ ~dial[conn].live]_Pan!vars
  BY StepOfAPart, PanEnds
<1>6. ViewerSpec => Rfb!DetachIsQuiet
  BY <1>1, <1>2, <1>3, PTL DEF ViewerSpec, Rfb!DetachIsQuiet
<1>7. ViewerSpec => Fit!NoFlicker
  BY <1>1, <1>2, <1>4, PTL DEF ViewerSpec, Fit!NoFlicker
<1>8. ViewerSpec => Pan!EndIsOwn
  BY <1>1, <1>2, <1>5, PTL DEF ViewerSpec, Pan!EndIsOwn
<1> QED
  BY <1>6, <1>7, <1>8 DEF NothingForNothing
=============================================================================
