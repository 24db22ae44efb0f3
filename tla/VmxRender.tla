------------------------------ MODULE VmxRender ------------------------------
(***************************************************************************)
(* Where the picture is in the terminal and where a click is in the        *)
(* picture (cmd/vmx/screen.go): three renderers scale the frame to the     *)
(* cells they have, a mouse report is scaled back by what the last drawing *)
(* noted.  In pixels of the guest, and in what a renderer calls a pixel.   *)
(***************************************************************************)
EXTENDS Naturals, FiniteSetsExt

CONSTANTS
  Cols, Lines,  \* of the terminal, the status line included
  CellW, CellH, \* pixels of a cell
  Wide, High,  \* of the guest's framebuffer
  None

\* fit takes a smaller terminal for one of 80 by 24.
RenderAssumption ==
  /\ Cols \cup Lines \cup Wide \cup High \cup {CellW, CellH} \subseteq Nat \ {0}
  /\ (\A c \in Cols : c >= 10) /\ (\A l \in Lines : l >= 3)

VARIABLES
  mode, cols, rows, fw, fh, \* the renderer, the terminal, the published frame
  drawn,                    \* what the last drawing left: its mode, place and sizes
  click                     \* the last report: the cell, and the guest's pixel

vars == <<mode, cols, rows, fw, fh, drawn, click>>

\* Dots of a cell.
Dots(m) == CASE m = "sixel" -> [x |-> CellW, y |-> CellH] [] m = "blocks" -> [x |-> 1, y |-> 2] [] m = "braille" -> [x |-> 2, y |-> 4]

Init ==
  /\ mode \in {"sixel", "blocks", "braille"} /\ cols \in Cols /\ rows \in Lines
  /\ fw \in Wide /\ fh \in High
  /\ drawn = None /\ click = None

\* The scale is the lesser of two fractions; a product of floats may come out one short.
Scaled(size, area, other, otherArea) ==
  LET n == Min({area, (size * otherArea) \div other}) IN {n, IF n > 0 THEN n - 1 ELSE 0}

Multiple(n, least, step) == LET up == Max({n, least}) IN up - (up % step)

\* drawSixel: at the top left, in whole bands of six; nothing where not one band fits.
Sixel(w, h) ==
  LET ow == Max({w, 1})
      oh == Multiple(h, 1, 6)
  IN [ow |-> ow, oh |-> oh, imgW |-> ow, imgH |-> oh, offX |-> 0, offY |-> 0]

\* A picture of cells, in the middle.
Cells(ow, oh, d) ==
  [ow |-> ow, oh |-> oh, imgW |-> ow \div d.x, imgH |-> oh \div d.y,
   offX |-> (cols - (ow \div d.x)) \div 2, offY |-> (rows - 1 - (oh \div d.y)) \div 2]

\* drawBlocks: one dot wide and two tall.
Blocks(w, h) == Cells(Max({w, 1}), Multiple(h, 2, 2), Dots("blocks"))

\* drawBraille: two wide and four tall.
Braille(w, h) == Cells(Multiple(w, 2, 2), Multiple(h, 4, 4), Dots("braille"))

Placed(w, h) == CASE mode = "sixel" -> Sixel(w, h) [] mode = "blocks" -> Blocks(w, h) [] mode = "braille" -> Braille(w, h)

Draw ==
  /\ LET aw == cols * Dots(mode).x
         ah == (rows - 1) * Dots(mode).y
     IN \E w \in Scaled(fw, aw, fh, ah), h \in Scaled(fh, ah, fw, aw) :
          LET p == Placed(w, h)
          IN IF p.oh = 0 \/ (mode = "sixel" /\ ah < 6)
             THEN drawn' = IF drawn = None THEN None ELSE [drawn EXCEPT !.fw = fw, !.fh = fh]
             ELSE drawn' = [place |-> p, mode |-> mode, fw |-> fw, fh |-> fh]
  /\ click' = None /\ UNCHANGED <<mode, cols, rows, fw, fh>>

\* SIGWINCH, the guest's own resize, and b in the menu.
Change ==
  /\ mode' \in (IF mode = "sixel" THEN {mode} ELSE {"blocks", "braille"})
  /\ cols' \in Cols /\ rows' \in Lines /\ fw' \in Wide /\ fh' \in High
  /\ click = None /\ UNCHANGED <<drawn, click>>

Clamp(n, top) == Min({n, top})

\* A cell before the picture counts as its first.
From(c, off) == IF c < off THEN 0 ELSE c - off

\* mouse.
Mouse(cx, cy) ==
  /\ drawn # None /\ click = None
  /\ LET fx == IF drawn.mode = "sixel" THEN (cx * CellW * drawn.fw) \div drawn.place.imgW
               ELSE (From(cx, drawn.place.offX) * drawn.fw) \div drawn.place.imgW
         fy == IF drawn.mode = "sixel" THEN (cy * CellH * drawn.fh) \div drawn.place.imgH
               ELSE (From(cy, drawn.place.offY) * drawn.fh) \div drawn.place.imgH
     IN click' = [cx |-> cx, cy |-> cy, fx |-> Clamp(fx, drawn.fw - 1), fy |-> Clamp(fy, drawn.fh - 1)]
  /\ UNCHANGED <<mode, cols, rows, fw, fh, drawn>>

Next ==
  \/ Draw \/ Change
  \/ \E cx \in 0..(cols - 1), cy \in 0..(rows - 1) : Mouse(cx, cy)

Spec == Init /\ [][Next]_vars

-----------------------------------------------------------------------------
(* Properties.                                                             *)

\* sample: the guest's pixels one drawn pixel shows.
Box(i, size, out) ==
  LET from == (i * size) \div out
      to   == ((i + 1) * size) \div out
  IN from .. (Min({size, Max({to, from + 1})}) - 1)

\* Those of a cell, the n-th of the picture.
CellBox(n, dots, size, out) == UNION {Box(i, size, out) : i \in {j \in n * dots .. n * dots + dots - 1 : j < out}}

\* What is pressed is what is seen: a click on a cell of the picture is at a pixel that
\* cell shows, in every mode and at every scale, and any other is at one the guest has.
ClickLands ==
  click # None =>
    LET d  == Dots(drawn.mode)
        nx == click.cx - drawn.place.offX
        ny == click.cy - drawn.place.offY
    IN /\ click.fx \in 0..(drawn.fw - 1) /\ click.fy \in 0..(drawn.fh - 1)
       /\ click.cx >= drawn.place.offX /\ nx * d.x < drawn.place.ow => click.fx \in CellBox(nx, d.x, drawn.fw, drawn.place.ow)
       /\ click.cy >= drawn.place.offY /\ ny * d.y < drawn.place.oh => click.fy \in CellBox(ny, d.y, drawn.fh, drawn.place.oh)
=============================================================================
