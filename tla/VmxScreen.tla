------------------------------ MODULE VmxScreen ------------------------------
(***************************************************************************)
(* The machine's display full-screen in a terminal (cmd/vmx/screen.go over *)
(* cmd/vmx/vnc.go): a read loop publishes whole frames, the main loop      *)
(* draws the newest when its ticker finds a new number, asks the guest to  *)
(* become as large as the terminal, and decodes what the terminal sends,   *)
(* cut into reads anywhere, into keys for the guest.                       *)
(***************************************************************************)
EXTENDS Naturals, SequencesExt

CONSTANTS
  Key,       \* what may be typed
  Size,      \* sizes of the terminal and of the guest
  Sizable,   \* the guest's driver can change its mode
  MaxFrame,  \* bound: pictures the guest draws
  MaxKey,    \* bound: keys
  MaxWinch,  \* bound: resizes of the terminal
  None

ScreenAssumption ==
  /\ Key \subseteq {"a", "esc", "up", "alt", "press", "release", "menu", "x", "r", "d"}
  /\ Sizable \in BOOLEAN /\ MaxFrame \in Nat /\ MaxKey \in Nat /\ MaxWinch \in Nat

VARIABLES
  guest,              \* qemu: its picture and size, what it was asked for, what it sent last
  toGuest, toClient,
  reader, img, ext,   \* the read loop, its framebuffer and extOK
  pub, frames,        \* the published frame and the number of them
  main, seq, drawn, dirty, shown, \* the main loop
  term, winch, winches,  \* the terminal's size; a SIGWINCH to come
  typed, stdin, chunks, pending, menu, \* keys, and bytes on their way
  got,                \* history: keys and buttons the guest has received
  astray              \* history: a key the probe took or the menu tore, or an escape that a read
                      \* parted from what it begins or took together with what was typed after it

wire  == <<guest, toGuest, toClient>>
conn  == <<reader, img, ext, pub, frames>>
loop  == <<main, seq, drawn, dirty, shown>>
win   == <<term, winch, winches>>
input == <<typed, stdin, chunks, pending, menu, got, astray>>
vars  == <<wire, conn, loop, win, input>>

Init ==
  /\ \E s \in Size : guest = [pic |-> 1, size |-> s, asked |-> TRUE, sent |-> 0, told |-> 0]
  /\ toGuest = <<>> /\ toClient = <<>>
  /\ reader = "read" /\ img = None /\ ext = FALSE /\ pub = None /\ frames = 0
  /\ main = "probe" /\ seq = 0 /\ drawn = 0 /\ dirty = FALSE /\ shown = None
  /\ term \in Size /\ winch = FALSE /\ winches = 0
  /\ typed = <<>> /\ stdin = <<>> /\ chunks = <<>> /\ pending = <<>>
  /\ menu = FALSE /\ got = <<>> /\ astray = FALSE

-----------------------------------------------------------------------------
(* qemu.  It answers a request when there is something new.                *)

Paint ==
  /\ guest.pic < MaxFrame /\ guest' = [guest EXCEPT !.pic = @ + 1]
  /\ UNCHANGED <<toGuest, toClient, conn, loop, win, input>>

Answer ==
  /\ guest.asked /\ reader # "done"
  /\ guest.sent # guest.pic \/ guest.told # guest.size
  /\ toClient' = Append(toClient, [pic |-> guest.pic, size |-> guest.size])
  /\ guest' = [guest EXCEPT !.asked = FALSE, !.sent = guest.pic, !.told = guest.size]
  /\ UNCHANGED <<toGuest, conn, loop, win, input>>

Serve ==
  /\ toGuest # <<>> /\ toGuest' = Tail(toGuest)
  /\ LET m == Head(toGuest)
     IN guest' = CASE m.do = "update" -> [guest EXCEPT !.asked = TRUE, !.sent = IF m.of = 0 THEN 0 ELSE @]
                   [] m.do = "size" -> IF Sizable THEN [guest EXCEPT !.size = m.of] ELSE guest
  /\ UNCHANGED <<toClient, conn, loop, win, input>>

-----------------------------------------------------------------------------
(* readLoop.                                                               *)

Sends(m) == toGuest' = Append(toGuest, m)

\* The rects of one update: a size first, then the picture; a server that can be
\* sized says so with the first.
ReadUpdate ==
  /\ reader = "read" /\ toClient # <<>>
  /\ img' = Head(toClient) /\ ext' = (ext \/ Sizable) /\ toClient' = Tail(toClient)
  /\ reader' = "publish"
  /\ UNCHANGED <<guest, toGuest, pub, frames, loop, win, input>>

\* publish: the copy under the lock, and then the number.
Publish ==
  /\ reader = "publish" /\ reader' = "count" /\ pub' = img
  /\ UNCHANGED <<img, ext, frames, wire, loop, win, input>>

Count ==
  /\ reader = "count" /\ reader' = "ask" /\ frames' = frames + 1
  /\ UNCHANGED <<img, ext, pub, wire, loop, win, input>>

AskNext ==
  /\ reader = "ask" /\ reader' = "read" /\ Sends([do |-> "update", of |-> 1])
  /\ UNCHANGED <<img, ext, pub, frames, guest, toClient, loop, win, input>>

\* The machine is shut off: an error, unless Close was first.
Gone ==
  /\ reader = "read" /\ reader' = "done"
  /\ UNCHANGED <<img, ext, pub, frames, wire, loop, win, input>>

-----------------------------------------------------------------------------
(* The main loop.                                                          *)

\* probeTerminal: for 300 ms, or until the terminal has answered, what comes from the
\* terminal is read for its answers and for nothing else.
Probe ==
  /\ main = "probe" /\ chunks # <<>> /\ chunks' = <<>> /\ astray' = TRUE
  /\ UNCHANGED <<typed, stdin, pending, menu, got, wire, conn, loop, win>>

Probed ==
  /\ main = "probe" /\ main' = "fit"
  /\ UNCHANGED <<wire, conn, seq, drawn, dirty, shown, win, input>>

\* requestSize: only a server that announced it, and not for the size it has.
Wanted == ext /\ (pub = None \/ pub.size # term)

\* fit, at the start and on SIGWINCH: the terminal is cleared, so all is drawn again.
Fit ==
  /\ main = "fit" \/ (main = "select" /\ winch)
  /\ main' = "select" /\ winch' = FALSE
  /\ IF Wanted THEN Sends([do |-> "size", of |-> term]) ELSE UNCHANGED toGuest
  /\ dirty' = TRUE /\ drawn' = 0 /\ shown' = None
  /\ UNCHANGED <<guest, toClient, conn, seq, term, winches, input>>

Tick ==
  /\ main = "select" /\ (frames # drawn \/ dirty)
  /\ main' = "draw" /\ seq' = frames
  /\ UNCHANGED <<wire, conn, drawn, dirty, shown, win, input>>

\* draw: the published frame, whole, under its lock.
Draw ==
  /\ main = "draw" /\ main' = "noted" /\ shown' = pub
  /\ UNCHANGED <<wire, conn, seq, drawn, dirty, win, input>>

\* Mutant: the number is read after the frame was drawn.
SeenLate == frames

\* The number that was read before it.
Seen == seq

Noted ==
  /\ main = "noted" /\ main' = "select" /\ drawn' = Seen /\ dirty' = FALSE
  /\ UNCHANGED <<wire, conn, seq, shown, win, input>>

Done ==
  /\ main = "select" /\ reader = "done" /\ main' = "over"
  /\ UNCHANGED <<wire, conn, seq, drawn, dirty, shown, win, input>>

\* The operator resizes the terminal; signals of one kind are not counted.
Winch ==
  /\ winches < MaxWinch /\ winches' = winches + 1
  /\ winch' = TRUE /\ term' \in Size \ {term}
  /\ UNCHANGED <<wire, conn, loop, input>>

-----------------------------------------------------------------------------
(* Keys.                                                                   *)

\* The bytes of a key; the body of a mouse report is one of them here.  The byte that
\* is the Escape key, E, and the one that begins a longer key, e, are told apart by the
\* history alone.
Bytes(k) ==
  CASE k = "up" -> <<"e", "[", "A">> [] k = "press" -> <<"e", "[", "M">> [] k = "release" -> <<"e", "[", "m">>
    [] k = "alt" -> <<"e", "a">> [] k = "esc" -> <<"E">> [] k = "menu" -> <<"]">> [] OTHER -> <<k>>

Escape(x) == x \in {"E", "e"}

Type(k) ==
  /\ main # "over" /\ Len(typed) < MaxKey
  /\ k \in {"press", "release"} => shown # None
  /\ typed' = Append(typed, k) /\ stdin' = stdin \o Bytes(k)
  /\ UNCHANGED <<chunks, pending, menu, got, astray, wire, conn, loop, win>>

\* A read of s that ends behind the escape of a longer key, or that has more behind
\* the Escape key.
Torn(s) == s[Len(s)] = "e" \/ \E i \in 1..(Len(s) - 1) : s[i] = "E"

\* A read of the terminal gets what is there, cut anywhere.
ReadStdin(n) ==
  /\ n <= Len(stdin) /\ chunks = <<>>
  /\ chunks' = <<SubSeq(stdin, 1, n)>> /\ stdin' = SubSeq(stdin, n + 1, Len(stdin))
  /\ astray' = (astray \/ Torn(SubSeq(stdin, 1, n)))
  /\ UNCHANGED <<typed, pending, menu, got, wire, conn, loop, win>>

Is(n, out, up, quit) == [n |-> n, out |-> out, menu |-> up, quit |-> quit]

\* The key that a sequence's last byte stands for.
Final(x) == CASE x = "A" -> "up" [] x = "M" -> "press" [] x = "m" -> "release" [] OTHER -> x

\* One byte in the menu: a command, or back.
MenuTakes(b) ==
  CASE b[1] = "d" -> Is(Len(b), <<>>, FALSE, TRUE)
    [] b[1] = "x" -> Is(1, <<"ctrl+alt+del">>, FALSE, FALSE)
    [] b[1] = "]" -> Is(1, <<"ctrl+]">>, FALSE, FALSE)
    [] OTHER -> Is(1, <<>>, FALSE, FALSE)

\* The key at i of the bytes: a lone escape is the Escape key, and a sequence nothing
\* while its end has not come (one, csi).
At(b, i) ==
  IF b[i] = "]" THEN Is(i, <<>>, TRUE, FALSE)
  ELSE IF ~Escape(b[i]) THEN Is(i, <<b[i]>>, FALSE, FALSE)
  ELSE IF i = Len(b) THEN Is(i, <<"esc">>, FALSE, FALSE)
  ELSE IF i + 2 > Len(b) THEN Is(0, <<>>, FALSE, FALSE)
  ELSE Is(i + 2, <<Final(b[i + 2])>>, FALSE, FALSE)

\* An escape before anything but a sequence is alt, which is not passed on.
IsAlt(b, i) == Escape(b[i]) /\ i < Len(b) /\ b[i + 1] # "["

\* one: the next key or report of the bytes.
One(b, up) == IF up THEN MenuTakes(b) ELSE At(b, Min({i \in 1..Len(b) : ~IsAlt(b, i)}))

\* A step of input's loop over a chunk behind what was pending.
Input ==
  /\ main = "select" /\ chunks # <<>>
  /\ LET b == pending \o Head(chunks)
         o == One(b, menu)
     IN /\ pending' = IF o.n = 0 THEN b ELSE <<>>
        /\ chunks' = IF o.n \in {0, Len(b)} THEN <<>> ELSE <<SubSeq(b, o.n + 1, Len(b))>>
        /\ menu' = IF o.n = 0 THEN menu ELSE o.menu
        /\ got' = got \o o.out
        /\ astray' = (astray \/ (menu /\ Escape(b[1]) /\ Len(b) > 1))
        /\ main' = IF o.quit THEN "over" ELSE main
        /\ dirty' = (dirty \/ menu \/ menu')
        /\ IF menu /\ b[1] = "r" THEN Sends([do |-> "update", of |-> 0]) /\ shown' = None
                                 ELSE UNCHANGED <<toGuest, shown>>
  /\ UNCHANGED <<typed, stdin, guest, toClient, conn, seq, drawn, win>>

Next ==
  \/ Paint \/ Answer \/ Serve
  \/ ReadUpdate \/ Publish \/ Count \/ AskNext \/ Gone
  \/ Probe \/ Probed \/ Fit \/ Tick \/ Draw \/ Noted \/ Done \/ Winch
  \/ (\E k \in Key : Type(k)) \/ (\E n \in 1..3 : ReadStdin(n)) \/ Input

Spec == Init /\ [][Next]_vars

-----------------------------------------------------------------------------
(* Properties.                                                             *)

\* Where nothing is left to draw the terminal shows the frame that was published last,
\* although it is published and counted in two steps and drawn between them
\* (publish, runScreen's ticker).
FrameShown == main = "select" /\ drawn = frames /\ ~dirty /\ reader # "count" => shown = pub

\* What the keys mean, one after the other.
After(s, k) ==
  IF s.menu THEN [menu |-> FALSE, out |-> s.out \o (CASE k = "x" -> <<"ctrl+alt+del">> [] k = "menu" -> <<"ctrl+]">> [] OTHER -> <<>>)]
  ELSE IF k = "menu" THEN [menu |-> TRUE, out |-> s.out]
  ELSE [menu |-> FALSE, out |-> Append(s.out, IF k = "alt" THEN "a" ELSE k)]

Senses(keys) ==
  LET upto[i \in 0..Len(keys)] == IF i = 0 THEN [menu |-> FALSE, out |-> <<>>] ELSE After(upto[i - 1], keys[i])
  IN upto

Meant(keys) == Senses(keys)[Len(keys)]

Consumed == stdin = <<>> /\ chunks = <<>> /\ pending = <<>> /\ main # "over"

\* "Any other key back": every key reaches the guest once and as itself, in the order
\* typed, and one pressed in the menu does what the menu says or nothing.
AnyOtherKeyBack == Consumed => got = Meant(typed).out /\ menu = Meant(typed).menu

\* However the reads cut the bytes, but behind the escape of a longer key, where the
\* code takes it for the Escape key and sends the rest as keys of their own, or with
\* more behind an Escape key in one read, where it takes it for alt; and but for what
\* the probe swallowed and the menu tore (input's pending, one, csi).
KeysArrive == ~astray => AnyOtherKeyBack

=============================================================================
