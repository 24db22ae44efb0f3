------------------------------ MODULE Keyboard ------------------------------
(***************************************************************************)
(* The keyboard over a machine's screen (vncViewer of vnc.go).  The guest  *)
(* is told of modifiers when they go down and up, of everything else as    *)
(* taps, and guesses what is held from that.  Three things disagree with   *)
(* the hand: the focus comes and goes while keys are held, a paste lets go *)
(* of every modifier at once, and a goroutine of its own types the paste's *)
(* Ctrl+V when the clipboard had time to arrive.                           *)
(*                                                                         *)
(* What is sent arrives, in the order of the calls (RfbConn).              *)
(***************************************************************************)
EXTENDS Naturals, FiniteSets

CONSTANTS
  MaxPress,  \* bound: modifiers pressed
  MaxTap,    \* bound: shortcuts and characters typed
  MaxPaste,  \* bound: pastes
  MaxBlur    \* bound: times the focus is lost

KeyboardAssumption == {MaxPress, MaxTap, MaxPaste, MaxBlur} \subseteq Nat

modKeysyms == {"ctrl", "shift", "caps"}  \* two of a kind stand for the others
modSyms    == modKeysyms \ {"caps"}
Pastes     == 1..MaxPaste

VARIABLES
  hand,     \* the modifiers the operator holds
  focus,    \* the viewer has the keyboard
  down,     \* those the guest takes to be held
  paste,    \* paste[i]: what its goroutine does next; crossed, the operator or another paste came between
  open,     \* done is not closed
  presses, taps, blurs,
  sure,     \* history: pressed over the console, with neither a paste nor a loss of focus since
  arrived   \* history: the last tap, what was held and what the guest took to be

keyVars == <<hand, focus, down, paste, open, presses, taps, blurs, sure, arrived>>

Idle == [pc |-> "none", crossed |-> FALSE]
Nothing == [kind |-> "none", held |-> {}, sure |-> {}, seen |-> {}, clear |-> TRUE]

Waits(i)  == paste[i].pc = "wait"
Types(i)  == paste[i].pc \in {"ctrl", "v", "up"}
Waiting   == {i \in Pastes : Waits(i)}
Typing    == {i \in Pastes : Types(i)}
NoPaste   == Waiting \cup Typing = {}

\* What happens to the pastes P.
Crossed(P) == [i \in Pastes |-> IF i \in P THEN [paste[i] EXCEPT !.crossed = TRUE] ELSE paste[i]]

Init ==
  /\ hand = {} /\ focus = TRUE /\ down = {}
  /\ paste = [i \in Pastes |-> Idle] /\ open = TRUE
  /\ presses = 0 /\ taps = 0 /\ blurs = 0
  /\ sure = {} /\ arrived = Nothing

-----------------------------------------------------------------------------
(* The hand.                                                               *)

\* KeyDown: only where the focus is.
KeyDown(k) ==
  /\ k \notin hand /\ presses < MaxPress /\ presses' = presses + 1
  /\ hand' = hand \cup {k}
  /\ IF focus
     THEN /\ down' = down \cup {k}
          /\ sure' = IF NoPaste THEN sure \cup {k} ELSE sure
          /\ paste' = Crossed(Waiting \cup Typing)
     ELSE UNCHANGED <<down, sure, paste>>
  /\ UNCHANGED <<focus, open, taps, blurs, arrived>>

KeyUp(k) ==
  /\ k \in hand
  /\ hand' = hand \ {k} /\ sure' = sure \ {k}
  /\ IF focus THEN down' = down \ {k} /\ paste' = Crossed(Typing) ELSE UNCHANGED <<down, paste>>
  /\ UNCHANGED <<focus, open, presses, taps, blurs, arrived>>

\* Mutant: what is held stays held.
FocusLostKeeps ==
  /\ focus /\ blurs < MaxBlur /\ blurs' = blurs + 1
  /\ focus' = FALSE /\ sure' = {}
  /\ UNCHANGED <<hand, down, paste, open, presses, taps, arrived>>

\* Everything is let go of, but for what modSyms does not name.
FocusLost ==
  /\ focus /\ blurs < MaxBlur /\ blurs' = blurs + 1
  /\ focus' = FALSE /\ sure' = {}
  /\ down' = down \ modSyms /\ paste' = Crossed(Typing)
  /\ UNCHANGED <<hand, open, presses, taps, arrived>>

\* MouseDown and Tapped: the guest is not told what is held by then.
Focus ==
  /\ ~focus /\ focus' = TRUE
  /\ UNCHANGED <<hand, down, paste, open, presses, taps, blurs, sure, arrived>>

\* tapKey: down and up, over whatever the guest takes to be held.
TapKey(kind) ==
  /\ focus /\ taps < MaxTap /\ taps' = taps + 1
  /\ arrived' = [kind |-> kind, held |-> hand, sure |-> sure, seen |-> down, clear |-> NoPaste]

\* TypedRune and TypedKey.
Typed == "ctrl" \notin hand /\ TapKey("text") /\ UNCHANGED <<hand, focus, down, paste, open, presses, blurs, sure>>

-----------------------------------------------------------------------------
(* TypedShortcut: Fyne names the chord by what is held in the hand.        *)

\* Mutant: the chord is made whole first, and let go of.
ShortcutWhole ==
  /\ "ctrl" \in hand /\ TapKey("shortcut")
  /\ down' = down \ {"ctrl"}
  /\ UNCHANGED <<hand, focus, paste, open, presses, blurs, sure>>

\* Copy, cut and select all: the plain letter.
Shortcut ==
  /\ "ctrl" \in hand /\ TapKey("shortcut")
  /\ UNCHANGED <<hand, focus, down, paste, open, presses, blurs, sure>>

\* pasteText, for Ctrl+V: the clipboard, no modifier, and a goroutine.
PasteText(i) ==
  /\ focus /\ "ctrl" \in hand /\ paste[i] = Idle /\ \A j \in 1..(i - 1) : paste[j] # Idle
  /\ down' = down \ modSyms /\ sure' = {}
  /\ paste' = [Crossed(Typing) EXCEPT ![i] = [pc |-> "wait", crossed |-> FALSE]]
  /\ UNCHANGED <<hand, focus, open, presses, taps, blurs, arrived>>

\* The chord that quits closes the connection.
Quit ==
  /\ focus /\ "ctrl" \in hand /\ open
  /\ open' = FALSE
  /\ UNCHANGED <<hand, focus, down, paste, presses, taps, blurs, sure, arrived>>

\* The goroutine, after its pause: nothing to a console that has closed.
PasteWakes(i) ==
  /\ Waits(i)
  /\ paste' = [paste EXCEPT ![i].pc = IF open THEN "ctrl" ELSE "done"]
  /\ UNCHANGED <<hand, focus, down, open, presses, taps, blurs, sure, arrived>>

\* Control down, v down and up, Control up.
PasteTypes(i) ==
  /\ Types(i) /\ open
  /\ LET pc == paste[i].pc IN
     /\ paste' = [Crossed(Typing \ {i}) EXCEPT
                    ![i].pc = [ctrl |-> "v", v |-> "up", up |-> "done"][pc]]
     /\ down' = CASE pc = "ctrl" -> down \cup {"ctrl"} [] pc = "up" -> down \ {"ctrl"} [] OTHER -> down
     /\ arrived' = IF pc # "v" THEN arrived
                   ELSE [kind |-> "paste", held |-> hand, sure |-> {}, seen |-> down, clear |-> ~paste[i].crossed]
  /\ UNCHANGED <<hand, focus, open, presses, taps, blurs, sure>>

-----------------------------------------------------------------------------
Operator ==
  \/ \E k \in modKeysyms : KeyDown(k) \/ KeyUp(k)
  \/ FocusLost \/ Focus \/ Typed \/ Shortcut \/ Quit
  \/ \E i \in Pastes : PasteText(i)

\* Once the console has closed only the pauses of its pastes are left.
Next == (open /\ Operator) \/ \E i \in Pastes : PasteWakes(i) \/ PasteTypes(i)

Spec == Init /\ [][Next]_keyVars

-----------------------------------------------------------------------------
(* Properties.                                                             *)

\* Every variable has its type.
TypeOK ==
  /\ hand \subseteq modKeysyms /\ down \subseteq modKeysyms /\ sure \subseteq hand
  /\ focus \in BOOLEAN /\ open \in BOOLEAN
  /\ paste \in [Pastes -> [pc : {"none", "wait", "ctrl", "v", "up", "done"}, crossed : BOOLEAN]]
  /\ presses \in 0..MaxPress /\ taps \in 0..MaxTap /\ blurs \in 0..MaxBlur
  /\ arrived.kind \in {"none", "text", "shortcut", "paste"}

\* While no paste types, the guest takes nothing to be held that is not, and
\* nothing at all once the focus is gone, whatever a goroutine did last (FocusLost,
\* pasteText).
NoStuckModifier ==
  Typing = {} => down \cap modSyms \subseteq IF focus THEN hand ELSE {}

\* A shortcut reaches the guest with the modifiers that were pressed over the console
\* since the last paste, and a character typed with nothing held reaches it bare
\* (tapKey, TypedRune).
TapsAsHeld ==
  /\ arrived.kind = "shortcut" => arrived.sure \subseteq arrived.seen
  /\ arrived.kind = "text" /\ arrived.clear /\ arrived.held = {} => arrived.seen \cap modSyms = {}

\* A paste that nothing came between arrives as Ctrl+V and nothing else (pasteText).
PasteIsCtrlV == arrived.kind = "paste" /\ arrived.clear => arrived.seen \cap modSyms = {"ctrl"}

\* "The modifiers around it are whatever the operator is physically holding -
\* KeyDown/KeyUp already told the guest about those" (tapKey, vnc.go:1037-1038).
HeldIsTold == arrived.kind = "shortcut" => arrived.held \subseteq arrived.seen

=============================================================================
