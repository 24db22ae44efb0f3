------------------------------- MODULE VmxTui -------------------------------
(***************************************************************************)
(* The tables of the console (cmd/vmx/tui.go): tabs with a context, loads  *)
(* that run off the update loop and come back as messages, a cursor, marks *)
(* and a filter, the way back out of a drill, and the verbs (verbs.go) on  *)
(* what is selected or marked.  The machines change meanwhile.             *)
(*                                                                         *)
(* Two tabs stand for all: "VMs", refreshed every three seconds, whose     *)
(* rows are machines; and "Versions", whose context is a file and whose    *)
(* rows are the snapshots that hold it.  Which snapshots those are, and    *)
(* the machines, are the world's.  One action is one message to Update.    *)
(***************************************************************************)
EXTENDS Integers, Sequences, FiniteSets, SequencesExt, FiniteSetsExt

CONSTANTS
  VM,         \* machines, as numbers in the order of their names
  File,       \* files whose versions may be listed
  Snaps,      \* Snaps[f]: the snapshots that hold file f, as numbers
  MaxLoad,    \* bound: loads under way
  MaxNav,     \* bound: frames of the way back (64 in the code)
  MaxChange,  \* bound: changes in the world
  MaxCmd,     \* bound: commands ordered
  MaxKey,     \* bound: keys pressed
  None

ASSUME VmxTuiAssumption ==
  /\ VM \subseteq Nat /\ IsFiniteSet(VM) /\ \A f \in File : Snaps[f] \subseteq Nat /\ IsFiniteSet(Snaps[f])
  /\ {MaxLoad, MaxNav, MaxChange, MaxCmd, MaxKey} \subseteq Nat
  /\ None \notin Nat \cup File

VARIABLES
  vm,         \* vm[n]: what the machine is
  active, ctx, row, view, marks, nav, armed,  \* the model's fields; view is the filter or the sort
  data, loading, refreshing,                          \* what was loaded
  loads,      \* loadSection calls under way, and what they have read
  prompt,     \* the question that waits, and the rows it was asked of
  cmds,       \* history: the commands ordered, and those still to run
  changes, keys

viewVars == <<active, ctx, row, view, nav>>
loadVars == <<data, loading, refreshing, loads>>
actVars  == <<marks, armed, prompt, cmds>>
worldVars == <<vm, changes>>
tuiVars == <<viewVars, loadVars, actVars, worldVars, keys>>

Tab == {"VMs", "Versions"}
Ctx == File \cup {None}

-----------------------------------------------------------------------------
(* Tables.                                                                 *)

\* The i-th of S, and all of it, in the order of the names.
Nth(S, i) == CHOOSE n \in S : Cardinality({k \in S : k < n}) = i - 1
ByName(S) == [i \in 1..Cardinality(S) |-> Nth(S, i)]

Line(n, st) == [name |-> n, state |-> st]

\* loadSection: the machines, those that run first; the snapshots of a file.
World(tab, c) ==
  IF tab = "VMs"
  THEN LET group(st) == [i \in 1..Cardinality({n \in VM : vm[n] = st}) |-> Line(ByName({n \in VM : vm[n] = st})[i], st)]
       IN group("running") \o group("off")
  ELSE IF c = None THEN <<>>
  ELSE [i \in 1..Cardinality(Snaps[c]) |-> Line(ByName(Snaps[c])[i], "-")]

All == [by |-> "all", name |-> None]
Views == {All, [by |-> "sort", name |-> None], [by |-> "name", name |-> Max(VM)]}

\* The row of a name, if it is there; a table has one at most.
Only(d, n) == IF \E r \in Range(d) : r.name = n THEN <<CHOOSE r \in Range(d) : r.name = n>> ELSE <<>>

\* rows: the table through the filter, or the sort.
Shown(d, v) ==
  CASE v.by = "all"  -> d
    [] v.by = "sort" -> Reverse(d)
    [] v.by = "name" -> Only(d, v.name)

Filtered == view.by = "name"

Cur == IF data[active] = None THEN <<>> ELSE data[active].rows
Rows == Shown(Cur, view)
HasRow == row \in 1..Len(Rows)
Selected == Rows[row]
Marked == SelectSeq(Rows, LAMBDA r : <<active, r.name>> \in marks)

Init ==
  /\ vm \in [VM -> {"running", "off"}]
  /\ active = "VMs" /\ ctx = [t \in Tab |-> None] /\ row = 1 /\ view = All
  /\ nav = <<>> /\ armed = None /\ marks = {} /\ prompt = None /\ cmds = {}
  /\ data = [t \in Tab |-> None] /\ loading = [t \in Tab |-> FALSE] /\ refreshing = FALSE
  /\ loads = {[id |-> 1, tab |-> "VMs", ctx |-> None, read |-> FALSE, rows |-> <<>>]}
  /\ changes = 0 /\ keys = 0

-----------------------------------------------------------------------------
(* Loads.                                                                  *)

FreeId == {i \in 1..MaxLoad : \A l \in loads : l.id # i}

\* reload, of a tab in a context.
Ask(tab, c) ==
  /\ FreeId # {}
  /\ loads' = loads \cup {[id |-> Min(FreeId), tab |-> tab, ctx |-> c, read |-> FALSE, rows |-> <<>>]}

AskNow(tab, c) == Ask(tab, c) /\ loading' = [loading EXCEPT ![tab] = TRUE]
NoLoad == UNCHANGED <<loads, loading>>

\* loadIfEmpty.
AskIfEmpty(tab, c) == IF data[tab] = None /\ ~loading[tab] THEN AskNow(tab, c) ELSE NoLoad

\* The load runs beside the update loop, and reads the world once.
LoadReads(l) ==
  /\ ~l.read
  /\ loads' = (loads \ {l}) \cup {[l EXCEPT !.read = TRUE, !.rows = World(l.tab, l.ctx)]}
  /\ UNCHANGED <<viewVars, data, loading, refreshing, actVars, worldVars>>

\* Mutant: the cursor stays at its index.
FollowIndex(was, rs) == IF row <= Len(rs) THEN row ELSE 1

\* apply: the cursor goes with the row's name.
Follow(was, rs) ==
  LET at == {i \in 1..Len(rs) : rs[i].name = was}
  IN IF at # {} THEN Min(at) ELSE IF row <= Len(rs) THEN row ELSE 1

\* Mutant: a background refresh that is never over.
AppliedStuck(l) ==
  /\ data' = [data EXCEPT ![l.tab] = [ctx |-> l.ctx, rows |-> l.rows]]
  /\ loading' = [loading EXCEPT ![l.tab] = FALSE]
  /\ UNCHANGED refreshing

Applied(l) ==
  /\ data' = [data EXCEPT ![l.tab] = [ctx |-> l.ctx, rows |-> l.rows]]
  /\ loading' = [loading EXCEPT ![l.tab] = FALSE]
  /\ refreshing' = FALSE

LoadArrives(l) ==
  /\ l.read
  /\ loads' = loads \ {l}
  /\ Applied(l)
  /\ IF l.tab = active
     THEN row' = Follow(IF HasRow THEN Selected.name ELSE None, Shown(l.rows, view))
     ELSE UNCHANGED row
  /\ UNCHANGED <<active, ctx, view, nav, actVars, worldVars>>

\* tickMsg: the live table, while nothing else is going on.
Tick ==
  /\ prompt = None /\ ~loading[active] /\ ~refreshing /\ data[active] # None
  /\ active = "VMs"
  /\ refreshing' = TRUE /\ Ask(active, ctx[active])
  /\ UNCHANGED <<viewVars, data, loading, actVars, worldVars>>

-----------------------------------------------------------------------------
(* Keys that move.  They reach the table when no question waits.           *)

Free == prompt = None

\* switchTo.
To(tab) == active' = tab /\ row' = 1 /\ view' = All

Frame == [active |-> active, ctx |-> ctx[active], row |-> row, view |-> IF view.by = "sort" THEN All ELSE view]

Push == nav' = LET n == Append(nav, Frame) IN IF Len(n) > MaxNav THEN Tail(n) ELSE n

\* The rail, the sub-tabs, the digits, and "go" of the palette.
Switch(tab) ==
  /\ Free /\ To(tab) /\ AskIfEmpty(tab, ctx[tab])
  /\ UNCHANGED <<ctx, nav, data, refreshing, actVars, worldVars>>

\* j k g G and the paging keys.
Move(r) ==
  /\ Free /\ r \in 1..Len(Rows) /\ r # row /\ row' = r
  /\ UNCHANGED <<active, ctx, view, nav, loadVars, actVars, worldVars>>

\* The filter as it is left, or the sort; both take the cursor to the top.
View(v) ==
  /\ Free /\ data[active] # None /\ v # view /\ view' = v /\ row' = 1
  /\ UNCHANGED <<active, ctx, nav, loadVars, actVars, worldVars>>

\* r.
Reload ==
  /\ Free /\ AskNow(active, ctx[active])
  /\ UNCHANGED <<viewVars, data, refreshing, actVars, worldVars>>

\* Enter, through the tabs between a machine's dataset and a file of it.
Drill(f) ==
  /\ Free /\ HasRow /\ active = "VMs"
  /\ Push /\ To("Versions") /\ ctx' = [ctx EXCEPT !["Versions"] = f] /\ AskNow("Versions", f)
  /\ UNCHANGED <<data, refreshing, actVars, worldVars>>

\* pop and afterPop: a table that was loaded for another context is loaded anew.
Pop ==
  LET f == Last(nav)
  IN /\ nav # <<>> /\ nav' = Front(nav)
     /\ active' = f.active /\ view' = f.view /\ row' = f.row
     /\ ctx' = [ctx EXCEPT ![f.active] = f.ctx]
     /\ IF data[f.active] = None \/ (data[f.active] # None /\ data[f.active].ctx # f.ctx)
        THEN AskNow(f.active, f.ctx) ELSE NoLoad

Back == Free /\ Pop /\ UNCHANGED <<data, refreshing, actVars, worldVars>>

\* esc: the marks, then the filter, then the way back, then the context.
Esc ==
  /\ Free
  /\ \/ /\ Marked # <<>>
        /\ marks' = {m \in marks : m[1] # active}
        /\ NoLoad /\ UNCHANGED viewVars
     \/ /\ Marked = <<>> /\ Filtered
        /\ view' = All /\ row' = 1
        /\ NoLoad /\ UNCHANGED <<active, ctx, nav, marks>>
     \/ Marked = <<>> /\ ~Filtered /\ Pop /\ UNCHANGED marks
     \/ /\ Marked = <<>> /\ ~Filtered /\ nav = <<>> /\ ctx[active] # None
        /\ ctx' = [ctx EXCEPT ![active] = None] /\ row' = 1 /\ AskNow(active, None)
        /\ UNCHANGED <<active, view, nav, marks>>
  /\ UNCHANGED <<data, refreshing, armed, prompt, cmds, worldVars>>

\* Space, and ctrl+a.
Mark ==
  /\ Free /\ HasRow /\ active = "VMs"   \* no verb takes the marks of the other
  /\ marks' = LET m == <<active, Selected.name>> IN IF m \in marks THEN marks \ {m} ELSE marks \cup {m}
  /\ row' = IF row < Len(Rows) THEN row + 1 ELSE row
  /\ UNCHANGED <<active, ctx, view, nav, loadVars, armed, prompt, cmds, worldVars>>

MarkAll ==
  /\ Free /\ active = "VMs"
  /\ LET all == {<<active, r.name>> : r \in Range(Rows)}
     IN marks' = IF all \subseteq marks THEN marks \ all ELSE marks \cup all
  /\ UNCHANGED <<viewVars, loadVars, armed, prompt, cmds, worldVars>>

-----------------------------------------------------------------------------
(* Verbs: delete and rollback of machines, restore of a file's version.    *)

Verb == [tab : {"VMs"}, verb : {"delete", "rollback"}] \cup [tab : {"Versions"}, verb : {"restore"}]
Confirms(verb) == verb # "delete"
Batches(verb)  == verb # "restore"   \* it has an argv, and asks nothing but consent

\* A command as ordered: of which rows of which table, after what was typed.
Order(verb, rs, typed, of) ==
  /\ Cardinality(cmds) < MaxCmd
  /\ cmds' = cmds \cup {[id |-> Cardinality(cmds), verb |-> verb, rows |-> rs, typed |-> typed, ctx |-> ctx[active],
                         of |-> of, ran |-> FALSE]}

Question(verb, rs) ==
  prompt' = [verb |-> verb, rows |-> rs, of |-> data[active].ctx, asks |-> IF Len(rs) = 1 THEN rs[1].name ELSE Len(rs)]

\* runVerb.  refuse looks at the selected row; more than one mark makes a
\* batch; a machine shown running is deleted by the second d in three seconds.
Refused(verb) == verb = "rollback" /\ HasRow /\ Selected.state = "running"

RunVerb(v) ==
  /\ Free /\ v.tab = active /\ ~Refused(v.verb)
  /\ \/ /\ Batches(v.verb) /\ Len(Marked) > 1
        /\ IF Confirms(v.verb) THEN Question(v.verb, Marked) /\ UNCHANGED cmds
           ELSE Order(v.verb, Marked, None, data[active].ctx) /\ UNCHANGED prompt
        /\ UNCHANGED armed
     \/ /\ ~(Batches(v.verb) /\ Len(Marked) > 1) /\ HasRow
        /\ IF v.verb = "delete" /\ Selected.state = "running" /\ armed # Selected.name
           THEN armed' = Selected.name /\ UNCHANGED <<prompt, cmds>>
           ELSE /\ armed' = IF v.verb = "delete" /\ Selected.state = "running" THEN None ELSE armed
                /\ IF Confirms(v.verb) THEN Question(v.verb, <<Selected>>) /\ UNCHANGED cmds
                   ELSE Order(v.verb, <<Selected>>, None, data[active].ctx) /\ UNCHANGED prompt
  /\ UNCHANGED <<viewVars, loadVars, marks, worldVars>>

\* armedAt.
Disarms == armed # None /\ armed' = None /\ UNCHANGED <<viewVars, loadVars, marks, prompt, cmds, worldVars>>

\* Mutant: of whatever is selected by now.
ConsentLate ==
  /\ prompt # None /\ prompt' = None
  /\ HasRow /\ Order(prompt.verb, IF Len(prompt.rows) = 1 THEN <<Selected>> ELSE prompt.rows, prompt.asks, prompt.of)
  /\ UNCHANGED <<viewVars, loadVars, marks, armed, worldVars>>

\* The name, or the count, typed back: pending runs on the rows it was asked of.
Consent ==
  /\ prompt # None /\ prompt' = None
  /\ Order(prompt.verb, prompt.rows, prompt.asks, prompt.of)
  /\ UNCHANGED <<viewVars, loadVars, marks, armed, worldVars>>

\* esc, or anything else typed (a doneMsg that says so).
Declined ==
  /\ prompt # None /\ prompt' = None
  /\ UNCHANGED <<viewVars, loadVars, marks, armed, cmds, worldVars>>

\* execVerb and execBatch: the commands run, the doneMsg reloads.  virsh,
\* kvm-delete and kvm-snap act on the machine as it is by then; a rollback
\* forces off one that runs.
Runs(c) ==
  /\ ~c.ran
  /\ cmds' = (cmds \ {c}) \cup {[c EXCEPT !.ran = TRUE]}
  /\ LET names == {r.name : r \in Range(c.rows)}
     IN vm' = CASE c.verb = "delete"   -> [n \in VM |-> IF n \in names THEN "absent" ELSE vm[n]]
                [] c.verb = "rollback" -> [n \in VM |-> IF n \in names /\ vm[n] = "running" THEN "off" ELSE vm[n]]
                [] c.verb = "restore"  -> vm
  /\ AskNow(active, ctx[active])
  /\ UNCHANGED <<viewVars, data, refreshing, marks, armed, prompt, changes>>

\* Others start, stop, make and delete machines.
Change(n, st) ==
  /\ changes < MaxChange /\ changes' = changes + 1 /\ vm[n] # st
  /\ vm' = [vm EXCEPT ![n] = st]
  /\ UNCHANGED <<viewVars, loadVars, actVars>>

-----------------------------------------------------------------------------

Keys ==
  \/ \E t \in Tab : Switch(t)
  \/ \E r \in 1..Len(Rows) : Move(r)
  \/ \E v \in Views : View(v)
  \/ Reload \/ Back \/ Esc \/ Mark \/ MarkAll
  \/ \E f \in File : Drill(f)
  \/ \E v \in Verb : RunVerb(v)
  \/ Consent \/ Declined

Loading == \E l \in loads : LoadReads(l) \/ LoadArrives(l)

Next ==
  \/ keys < MaxKey /\ keys' = keys + 1 /\ Keys
  \/ /\ UNCHANGED keys
     /\ \/ Loading \/ Tick \/ Disarms \/ (\E c \in cmds : Runs(c))
        \/ \E n \in VM, st \in {"running", "off", "absent"} : Change(n, st)

\* Loads and commands end, and the tick goes on; the operator owes nothing.
Spec == Init /\ [][Next]_tuiVars /\ WF_tuiVars(Loading /\ UNCHANGED keys)
  /\ WF_tuiVars(Tick /\ UNCHANGED keys) /\ WF_tuiVars((\E c \in cmds : Runs(c)) /\ UNCHANGED keys)

-----------------------------------------------------------------------------
(* Properties.                                                             *)

\* The values the fields may take; the way back is bounded, a question is of
\* rows, and the loads under way are told apart.
TypeOK ==
  /\ vm \in [VM -> {"running", "off", "absent"}] /\ active \in Tab /\ ctx \in [Tab -> Ctx] /\ ctx["VMs"] = None
  /\ Len(nav) <= MaxNav /\ row \in Nat \ {0} /\ armed \in VM \cup {None}
  /\ \A l, k \in loads : l.id = k.id => l = k
  /\ prompt = None \/ prompt.rows # <<>>

\* A load never carries the cursor off a row that is still in the table (apply:
\* "the cursor follows the row's name across a reload, not its index").
CursorKeepsName ==
  [][\A l \in loads : (LoadArrives(l) /\ l.tab = active /\ HasRow) =>
        LET was == Selected.name
            now == Shown(l.rows, view)
        IN (\E r \in Range(now) : r.name = was) => now[row'].name = was]_tuiVars

\* What a typed name or count sets off acts on that row, or on so many, whatever
\* was loaded since the question was put.
ConsentIsForThese ==
  \A c \in cmds : Confirms(c.verb) => c.typed = IF Len(c.rows) = 1 THEN c.rows[1].name ELSE Len(c.rows)

\* A background refresh ends, so that the live table, left alone, comes to show
\* the machines as they are.
LiveTable ==
  <>[](active = "VMs" /\ prompt = None) => <>[](data["VMs"] # None /\ data["VMs"].rows = World("VMs", None))

=============================================================================
