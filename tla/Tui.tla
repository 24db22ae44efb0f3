-------------------------------- MODULE Tui --------------------------------
(***************************************************************************)
(* The terminal estate (tui.go, marks.go, factory.go): rows under headers  *)
(* that fold, a cursor that must stay on its machine while they are read   *)
(* again, marks that one verb spends, and reads that arm the next one.     *)
(* Orphaned zvols and microVMs are rows as ghosts are; Estate has them.    *)
(***************************************************************************)
EXTENDS Naturals, FiniteSets, SequencesExt

CONSTANTS
  N,          \* names of machines, 1..N: the order of the rows
  Ruled,      \* those a rule puts into a group of its own
  Cloned,     \* those whose zvol has an origin
  Chain,      \* reads that arm one another
  Batch,      \* verbs that run at once
  MaxKey,     \* bound: keystrokes
  MaxFault,   \* bound: reads and commands that fail, deletions by others
  None

Name == 1..N

TuiAssumption ==
  /\ N \in Nat /\ Ruled \subseteq Name /\ Cloned \subseteq Name
  /\ {1, 2} \subseteq Chain /\ Chain \subseteq Nat /\ MaxKey \in Nat /\ MaxFault \in Nat

VARIABLES
  vm, reg,    \* libvirt's machines and their state; the names of the register
  doms, dss, ann, \* m.doms, the names in m.dss, and m.ann, as last read
  folded,     \* m.collapsed
  cursor,     \* m.cursor, from 1
  marks,      \* m.marks
  overlay,    \* m.overlay, and m.inputKind
  chain,      \* chain[c]: a read that is armed or has brought a message
  done,       \* execDoneMsg and verbDoneMsg on their way
  batch,      \* batch[b]: what is left of the plans of toRunAll, None when free
  spent,      \* history: names whose marks a verb used and nobody set again
  twice,      \* history: a verb took such a mark for a second time
  keys, faults

world == <<vm, reg>>
data  == <<doms, dss, ann>>
view  == <<folded, cursor, marks, overlay, spent, twice>>
work  == <<chain, done, batch>>
vars  == <<world, data, view, work, keys, faults>>

\* BuildEstate's group of a row; a ghost is unreconciled.
LabelOf(n, d, z) ==
  IF d[n] = "none" THEN "unreconciled"
  ELSE IF n \in Ruled THEN "lab"
  ELSE IF n \in Cloned \cap z THEN "clones" ELSE "ungrouped"

\* The i-th of S, and the rows of a group, in the order of the names.
Nth(S, i) == CHOOSE n \in S : Cardinality({k \in S : k < n}) = i - 1

Rows(l, d, z, a) ==
  LET under == {n \in Name : (d[n] # "none" \/ n \in a) /\ LabelOf(n, d, z) = l}
  IN [i \in 1..Cardinality(under) |-> Nth(under, i)]

Header(l) == [label |-> l, name |-> 0]

\* navItems: a header for every group that is not empty, its rows unless folded;
\* the groups in the order of their labels.
Group(l, rows, fold) ==
  IF rows = <<>> THEN <<>>
  ELSE <<Header(l)>> \o
       (IF l \in fold THEN <<>> ELSE [i \in 1..Len(rows) |-> [label |-> l, name |-> rows[i]]])

NavItems(d, z, a, fold) ==
  LET Of(l) == Group(l, Rows(l, d, z, a), fold)
  IN (Of("clones") \o Of("lab")) \o (Of("ungrouped") \o Of("unreconciled"))

Items == NavItems(doms, dss, ann, folded)
Onto  == IF cursor <= Len(Items) THEN Items[cursor] ELSE Header("")

\* curRow: 0 on a header.
CurRow == Onto.name

Synthetic(n) == doms[n] = "none"

Init ==
  /\ vm = [n \in Name |-> IF n \in Ruled THEN "on" ELSE "off"] /\ reg = Name
  /\ doms = [n \in Name |-> "none"] /\ dss = {} /\ ann = {}
  /\ folded = {} /\ cursor = 1 /\ marks = {} /\ overlay = ""
  /\ chain = [c \in Chain |-> [kind |-> IF c = 1 THEN "estate" ELSE IF c = 2 THEN "zfs" ELSE "none",
                               pc |-> "armed", got |-> None]]
  /\ done = 0 /\ batch = [b \in Batch |-> None]
  /\ spent = {} /\ twice = FALSE
  /\ keys = 0 /\ faults = 0

-----------------------------------------------------------------------------
(* rebuild.                                                                *)

FirstRow(items, from) == SelectInSeq(items, LAMBDA it : it.name # 0)

\* The row that moved up into the gap, or the last one before it.
Nearest(items, at) ==
  LET after  == {i \in at..Len(items) : items[i].name # 0}
      before == {i \in 1..at : items[i].name # 0}
  IN IF after # {} THEN Min(after) ELSE IF before # {} THEN Max(before) ELSE at

\* Mutant: the index is kept.
FollowIndex(old, items) == IF items = <<>> THEN 1 ELSE Min({cursor, Len(items)})

Follow(old, items) ==
  LET same == {i \in 1..Len(items) :
                 IF old.name = 0 THEN items[i].name = 0 /\ items[i].label = old.label
                                 ELSE items[i].name = old.name}
  IN IF same # {} THEN Min(same)
     ELSE IF old.name # 0 /\ items # <<>> THEN Nearest(items, Min({cursor, Len(items)}))
     ELSE IF old = Header("") /\ FirstRow(items, 1) # 0 THEN FirstRow(items, 1)
     ELSE 1

Rebuild(d, z, a) ==
  /\ doms' = d /\ dss' = z /\ ann' = a
  /\ cursor' = Follow(Onto, NavItems(d, z, a, folded))

-----------------------------------------------------------------------------
(* The reads.  Each ends in a message, and the message arms the next.      *)

Put(c, pc, got) == chain' = [chain EXCEPT ![c].pc = pc, ![c].got = got]

\* fetchEstate, at once or after two seconds.
FetchEstate(c) ==
  /\ chain[c].kind = "estate" /\ chain[c].pc = "armed"
  /\ \/ Put(c, "msg", vm) /\ UNCHANGED faults
     \/ faults < MaxFault /\ faults' = faults + 1 /\ Put(c, "msg", None)
  /\ UNCHANGED <<world, data, view, done, batch, keys>>

\* fetchZFS, at once or after thirty: the register, and the datasets, which may fail.
FetchZFS(c) ==
  /\ chain[c].kind = "zfs" /\ chain[c].pc = "armed"
  /\ \/ Put(c, "msg", [dss |-> {n \in Name : vm[n] # "none"}, ann |-> reg]) /\ UNCHANGED faults
     \/ faults < MaxFault /\ faults' = faults + 1 /\ Put(c, "msg", [dss |-> {0}, ann |-> reg])
  /\ UNCHANGED <<world, data, view, done, batch, keys>>

\* estateMsg: after an error the rows stay, and the next read is armed all the same.
EstateMsg(c) ==
  /\ chain[c].kind = "estate" /\ chain[c].pc = "msg"
  /\ Put(c, "armed", None)
  /\ IF chain[c].got = None THEN UNCHANGED <<doms, dss, ann, cursor>>
                            ELSE Rebuild(chain[c].got, dss, ann)

\* zfsMsg: after an error the datasets stay and the register does not.
ZfsMsg(c) ==
  /\ chain[c].kind = "zfs" /\ chain[c].pc = "msg"
  /\ Put(c, "armed", None)
  /\ Rebuild(doms, IF 0 \in chain[c].got.dss THEN dss ELSE chain[c].got.dss, chain[c].got.ann)

Arrives(c) ==
  /\ EstateMsg(c) \/ ZfsMsg(c)
  /\ UNCHANGED <<world, folded, marks, overlay, spent, twice, done, batch, keys, faults>>

Free == {c \in Chain : chain[c].kind = "none"}

\* execDoneMsg, verbDoneMsg: both halves are read now, by reads that go on for
\* good (two of Chain, while there are any).
Refresh ==
  /\ done > 0 /\ done' = done - 1
  /\ chain' = IF Cardinality(Free) < 2 THEN chain
              ELSE LET e == Min(Free)
                       z == Min(Free \ {e})
                   IN [chain EXCEPT ![e] = [kind |-> "estate", pc |-> "armed", got |-> None],
                                    ![z] = [kind |-> "zfs", pc |-> "armed", got |-> None]]
  /\ UNCHANGED <<world, data, view, batch, keys, faults>>

-----------------------------------------------------------------------------
(* Keys.                                                                   *)

Pressed == keys < MaxKey /\ keys' = keys + 1 /\ UNCHANGED <<world, data, faults>>
Looks   == overlay = "" /\ Pressed /\ UNCHANGED work
SameMarks == UNCHANGED <<marks, spent, twice>>

\* j k g G and the pages, and the wheel.
Move ==
  /\ Looks
  /\ cursor' \in {1, Max({1, cursor - 1}), Max({1, Min({Len(Items), cursor + 1})}), Max({1, Len(Items)})}
  /\ UNCHANGED <<folded, overlay>> /\ SameMarks

Toggle(l) == folded' = IF l \in folded THEN folded \ {l} ELSE folded \cup {l}

\* A click: a header folds, the row under the cursor opens, another is chosen.
Click(i) ==
  /\ Looks /\ i <= Len(Items) /\ cursor' = i
  /\ IF Items[i].name = 0 THEN Toggle(Items[i].label) ELSE UNCHANGED folded
  /\ overlay' = IF Items[i].name # 0 /\ i = cursor THEN "detail" ELSE overlay
  /\ SameMarks

\* Left: fold, or up to the header.
Left ==
  /\ Looks /\ cursor <= Len(Items)
  /\ IF CurRow = 0 THEN folded' = folded \cup {Onto.label} /\ UNCHANGED cursor
     ELSE cursor' = Max({i \in 1..cursor : Items[i].name = 0}) /\ UNCHANGED folded
  /\ UNCHANGED overlay /\ SameMarks

\* Right: unfold, step in, or the detail.
Right ==
  /\ Looks /\ cursor <= Len(Items)
  /\ IF CurRow # 0 THEN overlay' = "detail" /\ UNCHANGED <<folded, cursor>>
     ELSE IF Onto.label \in folded THEN folded' = folded \ {Onto.label} /\ UNCHANGED <<cursor, overlay>>
     ELSE cursor' = cursor + 1 /\ UNCHANGED <<folded, overlay>>
  /\ SameMarks

\* enter s a f: the overlays, of which all but the factory want a row.  Help is one
\* like detail.
Open(o) ==
  /\ Looks
  /\ o = "factory" \/ CurRow # 0
  /\ overlay' = o
  /\ UNCHANGED <<folded, cursor>> /\ SameMarks

\* q, left, esc.
CloseOverlay ==
  /\ overlay # "" /\ Pressed /\ UNCHANGED work
  /\ overlay' = "" /\ UNCHANGED <<folded, cursor>> /\ SameMarks

RowsUnder(l) == ToSet(Rows(l, doms, dss, ann))

\* Space: a row and one step down, or the whole group, folded or not.
Space ==
  /\ Looks /\ cursor <= Len(Items)
  /\ LET ns == IF CurRow # 0 THEN {CurRow} ELSE RowsUnder(Onto.label)
     IN /\ marks' = IF ns \subseteq marks THEN marks \ ns ELSE marks \cup ns
        /\ spent' = spent \ ns
  /\ cursor' = IF CurRow # 0 THEN Min({Len(Items), cursor + 1}) ELSE cursor
  /\ UNCHANGED <<folded, overlay, twice>>

Esc ==
  /\ Looks /\ marks # {} /\ marks' = {}
  /\ UNCHANGED <<folded, cursor, overlay, spent, twice>>

-----------------------------------------------------------------------------
(* Verbs: u and D stand for those of a set of rows, the kinds of input for *)
(* those of one.                                                           *)

\* The rows on the screen, in its order, folded ones too.
OnScreen == SelectSeq(NavItems(doms, dss, ann, {}), LAMBDA it : it.name # 0)
MarkedRows == SelectSeq(OnScreen, LAMBDA it : it.name \in marks)

\* verbTargets: marks of machines that are gone count for nothing.
Targets == IF MarkedRows # <<>> THEN [i \in 1..Len(MarkedRows) |-> MarkedRows[i].name] ELSE <<CurRow>>

Refused(v, n) == v = "u" /\ (Synthetic(n) \/ doms[n] = "on")

Start(plans) ==
  \E b \in Batch : /\ batch[b] = None
                   /\ b = Min({x \in Batch : batch[x] = None})
                   /\ batch' = [batch EXCEPT ![b] = plans]

\* Mutant: the marks stay.
SpendKept(all) == UNCHANGED marks

\* clearMarks, once every plan was made.
Spend(all) == marks' = {}

\* runOnTargets: one refusal and none is run; the marks are spent otherwise.
\* Stale marks go whether it is refused or not.
RunOnTargets(v) ==
  /\ overlay \in {"", "actions"} /\ Pressed
  /\ overlay' = "" /\ UNCHANGED <<folded, cursor, chain, done>>
  /\ IF CurRow = 0 THEN UNCHANGED batch /\ SameMarks
     ELSE LET taken == ToSet(Targets) \cap marks
          IN IF \E i \in 1..Len(Targets) : Refused(v, Targets[i])
             THEN /\ marks' = IF MarkedRows = <<>> THEN {} ELSE marks
                  /\ UNCHANGED <<batch, spent, twice>>
             ELSE /\ Start([i \in 1..Len(Targets) |-> <<v, Targets[i]>>])
                  /\ Spend(Targets)
                  /\ spent' = spent \cup taken
                  /\ twice' = (twice \/ taken \cap spent # {})

\* C + p v: an overlay that asks for a value, or two of them, for one row.
Ask(k) ==
  /\ overlay \in {"", "actions"} /\ Pressed /\ CurRow # 0
  /\ overlay' = IF Synthetic(CurRow) THEN "" ELSE k
  /\ UNCHANGED <<folded, cursor, work>> /\ SameMarks

NextRound == [clone |-> "cloneqty", cloneqty |-> "", vcpus |-> "mem", mem |-> "", snap |-> ""]
Asking    == overlay \in DOMAIN NextRound

\* Enter: the row is the one the cursor is on by now; without one the overlay
\* closes.  A clone is a new machine, and then another.
Enter(new) ==
  /\ Asking /\ Pressed
  /\ new = <<>> <=> overlay # "cloneqty"
  /\ overlay' = IF CurRow = 0 THEN "" ELSE NextRound[overlay]
  /\ IF CurRow = 0 \/ overlay' # "" \/ Synthetic(CurRow) THEN UNCHANGED batch
     ELSE Start(IF new = <<>> THEN <<<<overlay, CurRow>>>> ELSE [i \in 1..Len(new) |-> <<"C", new[i]>>])
  /\ UNCHANGED <<folded, cursor, chain, done>> /\ SameMarks

\* R in the snapshots: planRollback of the row under the cursor, refused while it runs.
Rollback ==
  /\ overlay = "snaps" /\ Pressed
  /\ IF CurRow = 0 THEN UNCHANGED <<overlay, batch>>
     ELSE /\ overlay' = ""
          /\ IF doms[CurRow] = "off" THEN Start(<<<<"R", CurRow>>>>) ELSE UNCHANGED batch
  /\ UNCHANGED <<folded, cursor, chain, done>> /\ SameMarks

\* The terminal is handed over until a program ends.
HandOver ==
  /\ Pressed /\ overlay' = "" /\ done' = done + 1
  /\ UNCHANGED <<folded, cursor, chain, batch>> /\ SameMarks

\* c and S: execConsole, execSSH.
Exec == overlay = "" /\ CurRow # 0 /\ HandOver

\* Enter in the factory.
KeyFactory == overlay = "factory" /\ HandOver

-----------------------------------------------------------------------------
(* runPlan, one plan after the other until one fails.                      *)

CanRun(p) ==
  \/ p[1] = "u" /\ vm[p[2]] = "off"
  \/ p[1] = "D"
  \/ p[1] = "C" /\ vm[p[2]] = "none"
  \/ p[1] \notin {"u", "D", "C"} /\ vm[p[2]] # "none"

Effect(p) ==
  /\ vm' = [vm EXCEPT ![p[2]] = CASE p[1] = "u" -> "on" [] p[1] = "D" -> "none" [] p[1] = "C" -> "off" [] OTHER -> @]
  /\ reg' = IF p[1] = "D" THEN reg \ {p[2]} ELSE IF p[1] = "C" THEN reg \cup {p[2]} ELSE reg

RunPlan(b) ==
  /\ batch[b] # None
  /\ LET p == Head(batch[b])
         last == Len(batch[b]) = 1
     IN \/ /\ CanRun(p) /\ Effect(p) /\ UNCHANGED faults
           /\ batch' = [batch EXCEPT ![b] = IF last THEN None ELSE Tail(@)]
           /\ done' = IF last THEN done + 1 ELSE done
        \/ /\ IF CanRun(p) THEN faults < MaxFault /\ faults' = faults + 1 ELSE UNCHANGED faults
           /\ batch' = [batch EXCEPT ![b] = None] /\ done' = done + 1
           /\ UNCHANGED world
  /\ UNCHANGED <<data, view, chain, keys>>

\* Another person, or a harness that does not tell the register.
Others(n) ==
  /\ vm[n] # "none" /\ faults < MaxFault /\ faults' = faults + 1
  /\ vm' = [vm EXCEPT ![n] = "none"] /\ reg' \in {reg, reg \ {n}}
  /\ UNCHANGED <<data, view, work, keys>>

Key ==
  \/ Move \/ Left \/ Right \/ Space \/ Esc \/ CloseOverlay \/ Rollback \/ Exec \/ KeyFactory
  \/ \E i \in 1..Len(Items) : Click(i)
  \/ \E o \in {"detail", "snaps", "actions", "factory"} : Open(o)
  \/ \E v \in {"u", "D"} : RunOnTargets(v)
  \/ \E k \in {"clone", "vcpus", "snap"} : Ask(k)
  \/ \E new \in {<<>>} \cup {<<n>> : n \in Name} \cup {s \in Name \X Name : s[1] < s[2]} : Enter(new)

Next ==
  \/ \E c \in Chain : FetchEstate(c) \/ FetchZFS(c) \/ Arrives(c)
  \/ Refresh \/ Key \/ \E b \in Batch : RunPlan(b)
  \/ \E n \in Name : Others(n)

Spec == Init /\ [][Next]_vars

-----------------------------------------------------------------------------
(* Properties.                                                             *)

Shown(items, n) == \E i \in 1..Len(items) : items[i].name = n

\* The cursor is on an item, or on none when there is none; what an index that
\* is not (curRow "indexes blindly") would do is crash.
CursorInRange == cursor \in 1..Max({1, Len(Items)})

\* "marks have been spent ... leaving them set means the next keystroke silently
\* repeats across the same batch" (runOnTargets).
SpentOnce == CursorInRange /\ ~twice

\* A refresh leaves the cursor on its machine while that is shown, whatever group
\* it is in by now, and on some machine when it is gone and one is shown
\* (rebuild, operator 2026-09-20).
CursorKeepsName ==
  [][data' # data /\ CurRow # 0 =>
       IF Shown(Items', CurRow) THEN CurRow' = CurRow
       ELSE (\E n \in Name : Shown(Items', n)) => CurRow' # 0]_vars
=============================================================================
