--------------------------- MODULE VmxTuiProofs ---------------------------
(***************************************************************************)
(* What the tables of the console keep to, for any machines, files and     *)
(* bounds (VmxTui): a question is put of rows and consented to for them    *)
(* (updatePrompt), and the cursor goes with its row's name (apply).        *)
(***************************************************************************)
EXTENDS MCVmxTui, FiniteSetTheorems, SequenceTheorems, WellFoundedInduction, TLAPS

-----------------------------------------------------------------------------
(* The least of some numbers, and the rows of a table by their names.      *)

LEMMA Least == ASSUME NEW S \in SUBSET Nat, S # {} PROVE \E x \in S : \A y \in S : x =< y
<1> DEFINE R == {ss \in Nat \X Nat : ss[1] < ss[2]}
<1>1. IsWellFoundedOn(R, Nat)
  BY NatLessThanWellFounded DEF OpToRel
<1>2. \E x \in S : \A y \in S : ~ (<<y, x>> \in R)
  <2> HIDE DEF R
  <2> QED
    BY <1>1, WFMin
<1>3. PICK x \in S : \A y \in S : ~ (<<y, x>> \in R)
  BY <1>2
<1>4. ASSUME NEW y \in S PROVE x =< y
  <2>1. <<y, x>> \in Nat \X Nat /\ <<y, x>>[1] = y /\ <<y, x>>[2] = x
    OBVIOUS
  <2> QED
    BY <1>3, <2>1
<1> QED
  BY <1>4

LEMMA LeastIs == ASSUME NEW S \in SUBSET Nat, S # {} PROVE Min(S) \in S /\ \A n \in S : Min(S) <= n
  BY Least DEF Min

\* Every place of a finite set of numbers has one (World).
LEMMA NthIsIn ==
  ASSUME NEW S \in SUBSET Nat, IsFiniteSet(S), NEW i \in 1..Cardinality(S)
  PROVE  Nth(S, i) \in S
<1> DEFINE Below(n) == {k \in S : k < n}
           Bad == {j \in 1..Cardinality(S) : ~\E n \in S : Cardinality(Below(n)) = j - 1}
<1>0. Cardinality(S) \in Nat /\ \A k \in S : k \in Nat
  BY FS_CardinalityType
<1>1. \A n : IsFiniteSet(Below(n)) /\ Cardinality(Below(n)) \in Nat
  BY FS_Subset, FS_CardinalityType
<1>2. Bad = {}
  <2> SUFFICES ASSUME Bad # {} PROVE FALSE
    OBVIOUS
  <2>1. Bad \in SUBSET Nat
    BY <1>0
  <2> DEFINE j == Min(Bad)
  <2>2. j \in Bad /\ \A x \in Bad : j <= x
    BY <2>1, LeastIs
  <2> HIDE DEF j
  <2>3. j \in 1..Cardinality(S) /\ ~\E n \in S : Cardinality(Below(n)) = j - 1
    BY <2>2
  <2>4. CASE j = 1
    <3>1. S # {}
      BY <2>3, <2>4, <1>0, FS_EmptySet
    <3>2. PICK low \in S : \A k \in S : low =< k
      BY <3>1, Least
    <3>3. \A k \in S : ~(k < low)
      BY <3>2, <1>0
    <3>4. Below(low) = {}
      BY <3>3
    <3>5. Cardinality(Below(low)) = 0
      BY <3>4, FS_EmptySet
    <3> HIDE DEF Below
    <3> QED
      BY <2>3, <2>4, <3>2, <3>5, <1>0
  <2>5. CASE j # 1
    <3>1. j - 1 \in 1..Cardinality(S)
      BY <2>3, <2>5, <1>0
    <3>2. ~(j - 1 \in Bad)
      BY <2>2, <2>3, <1>0, <3>1
    <3>3. PICK n \in S : Cardinality(Below(n)) = (j - 1) - 1
      BY <3>1, <3>2
    <3> DEFINE T == {k \in S : k > n}
               U == Below(n) \cup {n}
    <3>4. n \notin Below(n)
      BY <1>0
    <3>5. IsFiniteSet(U) /\ Cardinality(U) = j - 1
      <4>1. IsFiniteSet(Below(n)) /\ Cardinality(Below(n)) = j - 2 /\ j \in Nat
        BY <1>1, <3>3, <2>3, <1>0
      <4> HIDE DEF Below
      <4> QED
        BY <4>1, <3>4, FS_AddElement
    <3>6. T # {}
      <4> SUFFICES ASSUME T = {} PROVE FALSE
        OBVIOUS
      <4>1. \A k \in S : k < n \/ k = n
        BY <1>0
      <4>2. S = U
        BY <4>1
      <4> HIDE DEF U
      <4> QED
        BY <4>2, <3>5, <2>3, <1>0
    <3>7. T \in SUBSET Nat
      OBVIOUS
    <3> DEFINE m == Min(T)
    <3>8. m \in T /\ \A k \in T : m <= k
      BY <3>6, <3>7, LeastIs
    <3> HIDE DEF m
    <3>9. Below(m) = U
      <4>1. \A k \in S : k < m <=> k < n \/ k = n
        BY <3>8, <1>0
      <4> QED
        BY <4>1, <3>8
    <3>10. m \in S /\ Cardinality(Below(m)) = j - 1
      BY <3>5, <3>8, <3>9
    <3> QED
      BY <3>10, <2>3
  <2> QED
    BY <2>4, <2>5
<1>3. \E n \in S : Cardinality(Below(n)) = i - 1
  BY <1>2
<1> QED
  BY <1>3 DEF Nth

-----------------------------------------------------------------------------
(* The inductive invariant.                                                *)

\* Rows of a table: of machines, and of a file's snapshots.
RowOf(tab) == IF tab = "VMs" THEN {Line(n, st) : n \in VM, st \in {"running", "off"}} ELSE {Line(n, "-") : n \in Nat}

Frames == {f \in [active : Tab, ctx : Ctx, row : Nat \ {0}, view : Views] : f.active = "VMs" => f.ctx = None}

Verbs == {"delete", "rollback", "restore"}

\* The fields that are moved about.
ViewsOK ==
  /\ vm \in [VM -> {"running", "off", "absent"}] /\ active \in Tab /\ ctx \in [Tab -> Ctx] /\ ctx["VMs"] = None
  /\ nav \in Seq(Frames) /\ Len(nav) <= MaxNav /\ row \in Nat \ {0} /\ view \in Views

\* What was loaded, and what a load has read, are rows of its table.
TablesOK ==
  /\ data \in [Tab -> {None} \cup [ctx : Ctx, rows : UNION {Seq(RowOf(t)) : t \in Tab}]]
  /\ \A t \in Tab : data[t] # None => data[t].rows \in Seq(RowOf(t))
  /\ \A l \in loads : l \in [id : Nat, tab : Tab, ctx : Ctx, read : BOOLEAN, rows : UNION {Seq(RowOf(t)) : t \in Tab}]
                      /\ l.rows \in Seq(RowOf(l.tab)) /\ (l.tab = "VMs" => l.ctx = None)
  /\ \A l, k \in loads : l.id = k.id => l = k

\* A question asks for the row's name, or for how many they are ...
Asks(q) == IF Len(q) = 1 THEN q[1].name ELSE Len(q)

Asked ==
  prompt # None =>
    /\ prompt.verb \in Verbs /\ prompt.rows # <<>>
    /\ prompt.asks = Asks(prompt.rows)

\* ... and what was ordered after it was answered says so.
Ordered ==
  \A c \in cmds :
    /\ DOMAIN c = {"id", "verb", "rows", "typed", "ctx", "of", "ran"} /\ c.verb \in Verbs
    /\ Confirms(c.verb) => c.typed = Asks(c.rows)

Armed == armed \in VM \cup {None}

IInv == ViewsOK /\ TablesOK /\ Asked /\ Ordered /\ Armed

-----------------------------------------------------------------------------
(* Tables.                                                                 *)

\* A row has its name from where the table has it.
LEMMA RowFields ==
  ASSUME NEW tab \in Tab, NEW r \in RowOf(tab)
  PROVE  r = [name |-> r.name, state |-> r.state] /\ r.name \in Nat /\ (tab = "VMs" => r.name \in VM)
  BY VmxTuiAssumption DEF RowOf, Line, Tab

LEMMA NoRows == \A t : <<>> \in Seq(RowOf(t))
  OBVIOUS

\* What loadSection reads are rows of the table it was asked for.
LEMMA WorldRows ==
  ASSUME NEW tab \in Tab, NEW c \in Ctx
  PROVE  World(tab, c) \in Seq(RowOf(tab))
<1>1. CASE tab = "VMs"
  <2> DEFINE Those(st) == {n \in VM : vm[n] = st}
             group(st) == [i \in 1..Cardinality(Those(st)) |-> Line(ByName(Those(st))[i], st)]
  <2>1. ASSUME NEW st \in {"running", "off"} PROVE group(st) \in Seq(RowOf("VMs"))
    <3> DEFINE S == Those(st)
    <3>1. S \in SUBSET Nat /\ S \subseteq VM /\ IsFiniteSet(S) /\ Cardinality(S) \in Nat
      BY VmxTuiAssumption, FS_Subset, FS_CardinalityType
    <3> HIDE DEF S
    <3>2. ASSUME NEW i \in 1..Cardinality(S) PROVE Line(ByName(S)[i], st) \in RowOf("VMs")
      <4>1. ByName(S)[i] \in VM
        BY <3>1, NthIsIn DEF ByName
      <4> HIDE DEF ByName
      <4> QED
        BY <4>1 DEF RowOf
    <3> DEFINE g == [i \in 1..Cardinality(S) |-> Line(ByName(S)[i], st)]
    <3>3. g \in Seq(RowOf("VMs"))
      <4> HIDE DEF RowOf, Line, ByName
      <4> QED
        BY <3>1, <3>2, IsASeq
    <3> QED
      BY <3>3 DEF S
  <2>2. group("running") \o group("off") \in Seq(RowOf("VMs"))
    <3>1. group("running") \in Seq(RowOf("VMs")) /\ group("off") \in Seq(RowOf("VMs"))
      BY <2>1
    <3> HIDE DEF group
    <3> QED
      BY <3>1, ConcatProperties
  <2> QED
    BY <1>1, <2>2 DEF World
<1>2. CASE tab = "Versions" /\ c = None
  BY <1>2, NoRows DEF World
<1>3. CASE tab = "Versions" /\ c # None
  <2> DEFINE S == Snaps[c]
  <2>1. S \in SUBSET Nat /\ IsFiniteSet(S) /\ Cardinality(S) \in Nat
    BY <1>3, VmxTuiAssumption, FS_CardinalityType DEF Ctx
  <2> HIDE DEF S
  <2>2. ASSUME NEW i \in 1..Cardinality(S) PROVE Line(ByName(S)[i], "-") \in RowOf("Versions")
    <3>1. ByName(S)[i] \in Nat
      BY <2>1, NthIsIn DEF ByName
    <3> HIDE DEF ByName
    <3> QED
      BY <3>1 DEF RowOf
  <2> DEFINE g == [i \in 1..Cardinality(S) |-> Line(ByName(S)[i], "-")]
  <2>3. g \in Seq(RowOf("Versions"))
    <3> HIDE DEF RowOf, Line, ByName
    <3> QED
      BY <2>1, <2>2, IsASeq
  <2> QED
    BY <1>3, <2>3 DEF S, World
<1> QED
  BY <1>1, <1>2, <1>3 DEF Tab

\* So is what the filter and the sort leave of them.
LEMMA ShownRows ==
  ASSUME NEW tab \in Tab, NEW d \in Seq(RowOf(tab)), NEW v \in Views
  PROVE  Shown(d, v) \in Seq(RowOf(tab))
<1> HIDE DEF RowOf
<1>0. Len(d) \in Nat /\ \A i \in 1..Len(d) : d[i] \in RowOf(tab)
  BY ElementOfSeq, LenProperties
<1>1. CASE v.by = "all"
  BY <1>1 DEF Shown
<1>2. CASE v.by = "sort"
  <2>1. \A i \in 1..Len(d) : (Len(d) - i) + 1 \in 1..Len(d)
    BY <1>0
  <2>2. [i \in 1..Len(d) |-> d[(Len(d) - i) + 1]] \in Seq(RowOf(tab))
    BY <1>0, <2>1, IsASeq
  <2> QED
    BY <1>2, <2>2 DEF Shown, Reverse
<1>3. CASE v.by = "name"
  <2>1. Range(d) \subseteq RowOf(tab)
    BY <1>0, LenProperties DEF Range
  <2>2. Only(d, v.name) \in Seq(RowOf(tab))
    <3>1. CASE \E r \in Range(d) : r.name = v.name
      <4> DEFINE r == CHOOSE r \in Range(d) : r.name = v.name
      <4>1. r \in RowOf(tab)
        BY <2>1, <3>1
      <4> HIDE DEF r
      <4>2. <<r>> \in Seq(RowOf(tab))
        BY <4>1
      <4> QED
        BY <3>1, <4>2 DEF Only, r
    <3>2. CASE ~\E r \in Range(d) : r.name = v.name
      BY <3>2, NoRows DEF Only
    <3> QED
      BY <3>1, <3>2
  <2> QED
    BY <1>3, <2>2 DEF Shown
<1>4. v.by \in {"all", "sort", "name"}
  BY DEF Views, All
<1> QED
  BY <1>1, <1>2, <1>3, <1>4

\* The selected row is one of the active table's.
LEMMA SelectedRow ==
  ASSUME ViewsOK, TablesOK, HasRow
  PROVE  data[active] # None /\ Rows \in Seq(RowOf(active)) /\ Selected \in RowOf(active)
<1>1. active \in Tab /\ view \in Views
  BY DEF ViewsOK
<1>2. Cur \in Seq(RowOf(active))
  BY <1>1, NoRows DEF Cur, TablesOK
<1>3. Rows \in Seq(RowOf(active))
  BY <1>1, <1>2, ShownRows DEF Rows
<1>4. Selected \in RowOf(active)
  BY <1>3, ElementOfSeq DEF HasRow, Selected
<1>5. data[active] # None
  <2> SUFFICES ASSUME data[active] = None PROVE FALSE
    OBVIOUS
  <2>1. Cur = <<>>
    BY DEF Cur
  <2>2. ~\E r : r \in Range(<<>>)
    BY DEF Range
  <2>3. Reverse(<<>>) = <<>>
    BY DEF Reverse
  <2>4. view.by \in {"all", "sort", "name"}
    BY <1>1 DEF Views, All
  <2>5. Rows = <<>>
    BY <2>1, <2>2, <2>3, <2>4 DEF Rows, Shown, Only
  <2> QED
    BY <2>5 DEF HasRow
<1> QED
  BY <1>3, <1>4, <1>5

-----------------------------------------------------------------------------
(* Loads.                                                                  *)

\* A load that is asked for gets a number of its own (Ask).
LEMMA AskHolds ==
  ASSUME TablesOK, NEW tab \in Tab, NEW c \in Ctx, tab = "VMs" => c = None, Ask(tab, c), UNCHANGED data
  PROVE  TablesOK'
<1> DEFINE n == [id |-> Min(FreeId), tab |-> tab, ctx |-> c, read |-> FALSE, rows |-> <<>>]
<1>1. FreeId \in SUBSET Nat /\ FreeId # {} /\ loads' = loads \cup {n}
  BY VmxTuiAssumption DEF FreeId, Ask
<1>2. Min(FreeId) \in FreeId
  BY <1>1, LeastIs
<1>3. Min(FreeId) \in 1..MaxLoad /\ \A l \in loads : l.id # Min(FreeId)
  BY <1>2 DEF FreeId
<1>4. <<>> \in Seq(RowOf(tab)) /\ <<>> \in UNION {Seq(RowOf(t)) : t \in Tab}
  <2>1. <<>> \in Seq(RowOf(tab))
    BY NoRows
  <2> QED
    BY <2>1
<1>5. n \in [id : Nat, tab : Tab, ctx : Ctx, read : BOOLEAN, rows : UNION {Seq(RowOf(t)) : t \in Tab}]
      /\ n.rows \in Seq(RowOf(n.tab)) /\ (n.tab = "VMs" => n.ctx = None) /\ n.id = Min(FreeId)
  <2> HIDE DEF RowOf
  <2> QED
    BY <1>3, <1>4
<1> HIDE DEF n
<1>6. \A l \in loads' :
        l \in [id : Nat, tab : Tab, ctx : Ctx, read : BOOLEAN, rows : UNION {Seq(RowOf(t)) : t \in Tab}]
        /\ l.rows \in Seq(RowOf(l.tab)) /\ (l.tab = "VMs" => l.ctx = None)
  BY <1>1, <1>5 DEF TablesOK
<1>7. \A l, k \in loads' : l.id = k.id => l = k
  BY <1>1, <1>3, <1>5 DEF TablesOK
<1>8. RowOf("VMs")' = RowOf("VMs")
  OBVIOUS
<1> QED
  BY <1>6, <1>7 DEF TablesOK

LEMMA AskNowHolds ==
  ASSUME TablesOK, NEW tab \in Tab, NEW c \in Ctx, tab = "VMs" => c = None, AskNow(tab, c), UNCHANGED data
  PROVE  TablesOK'
  BY AskHolds DEF AskNow

LEMMA SameTables == ASSUME TablesOK, UNCHANGED <<data, loads>> PROVE TablesOK'
  BY DEF TablesOK

LEMMA AskIfEmptyHolds ==
  ASSUME TablesOK, NEW tab \in Tab, NEW c \in Ctx, tab = "VMs" => c = None, AskIfEmpty(tab, c), UNCHANGED data
  PROVE  TablesOK'
  BY AskNowHolds, SameTables DEF AskIfEmpty, NoLoad

LEMMA SameViews == ASSUME ViewsOK, UNCHANGED <<viewVars, vm>> PROVE ViewsOK'
  BY DEF ViewsOK, viewVars

LEMMA SameActs == ASSUME Asked, Ordered, Armed, UNCHANGED <<prompt, cmds, armed>> PROVE Asked' /\ Ordered' /\ Armed'
  BY DEF Asked, Ordered, Armed, Asks, Confirms

\* A context goes with its tab.
LEMMA CtxOfActive == ASSUME ViewsOK PROVE active \in Tab /\ ctx[active] \in Ctx /\ (active = "VMs" => ctx[active] = None)
  BY DEF ViewsOK

LEMMA LoadReadsHolds == ASSUME IInv, NEW l \in loads, LoadReads(l) PROVE IInv'
<1> DEFINE n == [l EXCEPT !.read = TRUE, !.rows = World(l.tab, l.ctx)]
           T == UNION {Seq(RowOf(t)) : t \in Tab}
<1>1. /\ l \in [id : Nat, tab : Tab, ctx : Ctx, read : BOOLEAN, rows : T]
      /\ (l.tab = "VMs" => l.ctx = None)
  BY DEF IInv, TablesOK
<1>2. World(l.tab, l.ctx) \in Seq(RowOf(l.tab)) /\ World(l.tab, l.ctx) \in T
  <2>1. l.tab \in Tab /\ l.ctx \in Ctx
    BY <1>1
  <2>2. World(l.tab, l.ctx) \in Seq(RowOf(l.tab))
    BY <2>1, WorldRows
  <2> HIDE DEF RowOf
  <2> QED
    BY <2>1, <2>2
<1> HIDE DEF T
<1>3. /\ n \in [id : Nat, tab : Tab, ctx : Ctx, read : BOOLEAN, rows : T]
      /\ n.rows \in Seq(RowOf(n.tab)) /\ (n.tab = "VMs" => n.ctx = None) /\ n.id = l.id
  BY <1>1, <1>2
<1> HIDE DEF n
<1>4. loads' = (loads \ {l}) \cup {n} /\ UNCHANGED <<viewVars, data, loading, refreshing, actVars, worldVars>>
  BY DEF LoadReads, n
<1>5. \A k \in loads' : k \in [id : Nat, tab : Tab, ctx : Ctx, read : BOOLEAN, rows : T]
                        /\ k.rows \in Seq(RowOf(k.tab)) /\ (k.tab = "VMs" => k.ctx = None)
  BY <1>3, <1>4 DEF IInv, TablesOK, T
<1>6. \A j, k \in loads' : j.id = k.id => j = k
  BY <1>3, <1>4 DEF IInv, TablesOK
<1>7. TablesOK'
  BY <1>4, <1>5, <1>6 DEF IInv, TablesOK, T
<1> QED
  BY <1>4, <1>7, SameViews, SameActs DEF IInv, actVars, worldVars

\* The cursor of apply is on a row, or at the top.
LEMMA FollowIs ==
  ASSUME row \in Nat \ {0}, NEW was, NEW rs, Len(rs) \in Nat
  PROVE  /\ Follow(was, rs) \in Nat \ {0}
         /\ (\E i \in 1..Len(rs) : rs[i].name = was) => rs[Follow(was, rs)].name = was
<1> DEFINE at == {i \in 1..Len(rs) : rs[i].name = was}
<1>1. at \in SUBSET Nat
  OBVIOUS
<1>2. CASE at # {}
  <2>1. Min(at) \in at
    BY <1>1, <1>2, LeastIs
  <2> QED
    BY <1>2, <2>1 DEF Follow
<1>3. CASE at = {}
  BY <1>3 DEF Follow
<1> QED
  BY <1>2, <1>3

LEMMA LoadArrivesHolds == ASSUME IInv, NEW l \in loads, LoadArrives(l) PROVE IInv'
<1> DEFINE T == UNION {Seq(RowOf(t)) : t \in Tab}
<1>1. /\ l \in [id : Nat, tab : Tab, ctx : Ctx, read : BOOLEAN, rows : T]
      /\ l.rows \in Seq(RowOf(l.tab)) /\ l.tab \in Tab
  BY DEF IInv, TablesOK
<1>2. /\ loads' = loads \ {l} /\ data' = [data EXCEPT ![l.tab] = [ctx |-> l.ctx, rows |-> l.rows]]
      /\ UNCHANGED <<active, ctx, view, nav, actVars, worldVars>>
  BY DEF LoadArrives, Applied
<1> HIDE DEF T
<1>3. data' \in [Tab -> {None} \cup [ctx : Ctx, rows : T]]
  BY <1>1, <1>2 DEF IInv, TablesOK, T
<1>4. \A t \in Tab : data'[t] # None => data'[t].rows \in Seq(RowOf(t))
  <2> HIDE DEF RowOf
  <2> QED
    BY <1>1, <1>2 DEF IInv, TablesOK
<1>5. TablesOK'
  BY <1>2, <1>3, <1>4 DEF IInv, TablesOK, T
<1>6. row' \in Nat \ {0}
  <2>1. CASE l.tab = active
    <3>1. Shown(l.rows, view) \in Seq(RowOf(l.tab))
      BY <1>1, ShownRows DEF IInv, ViewsOK
    <3>2. Len(Shown(l.rows, view)) \in Nat
      BY <3>1, LenProperties
    <3> QED
      BY <2>1, <3>2, FollowIs DEF LoadArrives, IInv, ViewsOK
  <2>2. CASE l.tab # active
    BY <2>2 DEF LoadArrives, IInv, ViewsOK
  <2> QED
    BY <2>1, <2>2
<1>7. ViewsOK'
  BY <1>2, <1>6 DEF IInv, ViewsOK, worldVars
<1> QED
  BY <1>2, <1>5, <1>7, SameActs DEF IInv, actVars

LEMMA TickHolds == ASSUME IInv, Tick PROVE IInv'
<1>1. TablesOK'
  BY CtxOfActive, AskHolds DEF IInv, Tick
<1> QED
  BY <1>1, SameViews, SameActs DEF IInv, Tick, actVars, worldVars

-----------------------------------------------------------------------------
(* Keys that move.                                                         *)

LEMMA ViewForms == /\ All \in Views /\ \A v \in Views : v.by \in {"all", "sort", "name"}
  BY DEF Views, All

LEMMA Where == "VMs" \in Tab /\ "Versions" \in Tab /\ None \in Ctx /\ File \subseteq Ctx
  BY DEF Tab, Ctx

LEMMA SwitchHolds == ASSUME IInv, NEW t \in Tab, Switch(t) PROVE IInv'
<1>1. ctx[t] \in Ctx /\ (t = "VMs" => ctx[t] = None)
  BY DEF IInv, ViewsOK
<1>2. TablesOK'
  BY <1>1, AskIfEmptyHolds DEF IInv, Switch
<1>3. ViewsOK'
  BY ViewForms DEF IInv, ViewsOK, Switch, To, worldVars
<1> QED
  BY <1>2, <1>3, SameActs DEF IInv, Switch, actVars

LEMMA MoveHolds == ASSUME IInv, NEW r, Move(r) PROVE IInv'
<1>1. r \in 1..Len(Rows) /\ row' = r /\ UNCHANGED <<active, ctx, view, nav, loadVars, actVars, worldVars>>
  BY DEF Move
<1>2. r \in Nat \ {0}
  BY <1>1
<1>3. ViewsOK'
  BY <1>1, <1>2 DEF IInv, ViewsOK, worldVars
<1> QED
  BY <1>1, <1>3, SameTables, SameActs DEF IInv, loadVars, actVars

LEMMA ViewHolds == ASSUME IInv, NEW v \in Views, View(v) PROVE IInv'
<1>1. ViewsOK'
  BY DEF IInv, ViewsOK, View, worldVars
<1> QED
  BY <1>1, SameTables, SameActs DEF IInv, View, loadVars, actVars

LEMMA ReloadHolds == ASSUME IInv, Reload PROVE IInv'
<1>1. TablesOK'
  BY CtxOfActive, AskNowHolds DEF IInv, Reload
<1> QED
  BY <1>1, SameViews, SameActs DEF IInv, Reload, actVars, worldVars

\* The way back is bounded, of places that are there.
LEMMA PushHolds == ASSUME ViewsOK, Push PROVE nav' \in Seq(Frames) /\ Len(nav') <= MaxNav
<1> DEFINE n == Append(nav, Frame)
<1>1. Frame \in Frames
  BY ViewForms, CtxOfActive DEF ViewsOK, Frame, Frames
<1>2. nav \in Seq(Frames) /\ Len(nav) \in Nat /\ MaxNav \in Nat /\ Len(nav) <= MaxNav
  BY VmxTuiAssumption, LenProperties DEF ViewsOK
<1> HIDE DEF Frames
<1>3. n \in Seq(Frames) /\ Len(n) = Len(nav) + 1 /\ n # <<>>
  BY <1>1, <1>2, AppendProperties
<1>4. Tail(n) \in Seq(Frames) /\ Len(Tail(n)) = Len(nav)
  BY <1>2, <1>3, HeadTailProperties
<1>5. nav' = IF Len(n) > MaxNav THEN Tail(n) ELSE n
  BY DEF Push
<1> HIDE DEF n
<1> QED
  BY <1>2, <1>3, <1>4, <1>5

LEMMA DrillHolds == ASSUME IInv, NEW f \in File, Drill(f) PROVE IInv'
<1>1. TablesOK'
  BY Where, AskNowHolds DEF IInv, Drill
<1>2. nav' \in Seq(Frames) /\ Len(nav') <= MaxNav
  BY PushHolds DEF IInv, Drill
<1>3. active' = "Versions" /\ row' = 1 /\ view' = All /\ vm' = vm
  BY DEF Drill, To, worldVars
<1>4. ctx' \in [Tab -> Ctx] /\ ctx'["VMs"] = None
  BY Where DEF IInv, ViewsOK, Drill, Tab
<1>5. ViewsOK'
  BY <1>2, <1>3, <1>4, ViewForms, Where DEF IInv, ViewsOK
<1> QED
  BY <1>1, <1>5, SameActs DEF IInv, Drill, actVars

LEMMA PopHolds ==
  ASSUME IInv, Pop, UNCHANGED <<data, refreshing, vm>>
  PROVE  ViewsOK' /\ TablesOK'
<1> DEFINE f == Last(nav)
<1>0. nav \in Seq(Frames) /\ Len(nav) \in Nat /\ nav # <<>> /\ MaxNav \in Nat /\ Len(nav) <= MaxNav
  BY VmxTuiAssumption, LenProperties DEF IInv, ViewsOK, Pop
<1>1. f \in Frames
  <2> HIDE DEF Frames
  <2>1. Len(nav) # 0
    BY <1>0, EmptySeq
  <2> QED
    BY <1>0, <2>1, ElementOfSeq DEF Last
<1>2. Front(nav) \in Seq(Frames) /\ Len(Front(nav)) <= MaxNav
  <2> HIDE DEF Frames
  <2>1. Len(nav) # 0
    BY <1>0, EmptySeq
  <2>2. Front(nav) = SubSeq(nav, 1, Len(nav) - 1)
    BY DEF Front
  <2>3. SubSeq(nav, 1, Len(nav) - 1) \in Seq(Frames) /\ Len(SubSeq(nav, 1, Len(nav) - 1)) = Len(nav) - 1
    <3>1. Len(nav) - 1 \in Int /\ 1 \in Int /\ \A i \in 1..(Len(nav) - 1) : i \in 1..Len(nav)
      BY <1>0
    <3>2. \A i \in 1..(Len(nav) - 1) : nav[i] \in Frames
      BY <1>0, <3>1, ElementOfSeq
    <3>3. SubSeq(nav, 1, Len(nav) - 1) \in Seq(Frames)
      BY <3>1, <3>2, SubSeqProperties
    <3>4. Len(SubSeq(nav, 1, Len(nav) - 1)) = IF 1 <= Len(nav) - 1 THEN (Len(nav) - 1) - 1 + 1 ELSE 0
      BY <3>1, <3>2, SubSeqProperties
    <3> QED
      <4>1. PICK n \in Nat : n = Len(nav) /\ n # 0 /\ n <= MaxNav
        BY <1>0, <2>1
      <4>2. Len(SubSeq(nav, 1, Len(nav) - 1)) = n - 1
        BY <3>4, <4>1
      <4> QED
        BY <1>0, <3>3, <4>1, <4>2
  <2> QED
    BY <1>0, <2>1, <2>2, <2>3
<1>3. /\ nav' = Front(nav) /\ active' = f.active /\ view' = f.view /\ row' = f.row
      /\ ctx' = [ctx EXCEPT ![f.active] = f.ctx]
      /\ AskNow(f.active, f.ctx) \/ NoLoad
  BY DEF Pop
<1> HIDE DEF f
<1>4. f.active \in Tab /\ f.ctx \in Ctx /\ (f.active = "VMs" => f.ctx = None) /\ f.row \in Nat \ {0} /\ f.view \in Views
  BY <1>1 DEF Frames
<1>5. ViewsOK'
  <2>1. ctx' \in [Tab -> Ctx] /\ ctx'["VMs"] = None
    BY <1>3, <1>4 DEF IInv, ViewsOK, Tab
  <2> HIDE DEF Frames
  <2> QED
    BY <1>2, <1>3, <1>4, <2>1 DEF IInv, ViewsOK
<1>6. TablesOK'
  BY <1>3, <1>4, AskNowHolds, SameTables DEF IInv, NoLoad
<1> QED
  BY <1>5, <1>6

LEMMA BackHolds == ASSUME IInv, Back PROVE IInv'
<1>1. ViewsOK' /\ TablesOK'
  BY PopHolds DEF Back, worldVars
<1> QED
  BY <1>1, SameActs DEF IInv, Back, actVars

LEMMA EscHolds == ASSUME IInv, Esc PROVE IInv'
<1>1. UNCHANGED <<data, refreshing, armed, prompt, cmds, vm>>
  BY DEF Esc, worldVars
<1>2. CASE NoLoad /\ UNCHANGED viewVars
  BY <1>1, <1>2, SameTables, SameViews, SameActs DEF IInv, NoLoad
<1>3. CASE view' = All /\ row' = 1 /\ NoLoad /\ UNCHANGED <<active, ctx, nav>>
  <2>1. ViewsOK'
    BY <1>1, <1>3, ViewForms DEF IInv, ViewsOK
  <2> QED
    BY <1>1, <1>3, <2>1, SameTables, SameActs DEF IInv, NoLoad
<1>4. CASE Pop
  <2>1. ViewsOK' /\ TablesOK'
    BY <1>1, <1>4, PopHolds
  <2> QED
    BY <1>1, <2>1, SameActs DEF IInv
<1>5. CASE /\ ctx' = [ctx EXCEPT ![active] = None] /\ row' = 1 /\ AskNow(active, None)
           /\ UNCHANGED <<active, view, nav>>
  <2>1. TablesOK'
    BY <1>1, <1>5, CtxOfActive, Where, AskNowHolds DEF IInv
  <2>2. ViewsOK'
    BY <1>1, <1>5, Where DEF IInv, ViewsOK
  <2> QED
    BY <1>1, <2>1, <2>2, SameActs DEF IInv
<1> QED
  BY <1>2, <1>3, <1>4, <1>5 DEF Esc

LEMMA MarkHolds == ASSUME IInv, Mark \/ MarkAll PROVE IInv'
<1>1. UNCHANGED <<active, ctx, view, nav, data, loads, armed, prompt, cmds, vm>>
  BY DEF Mark, MarkAll, viewVars, loadVars, worldVars
<1>2. row' = row \/ row' = row + 1
  BY DEF Mark, MarkAll, viewVars
<1>3. ViewsOK'
  BY <1>1, <1>2 DEF IInv, ViewsOK
<1> QED
  BY <1>1, <1>3, SameTables, SameActs DEF IInv

-----------------------------------------------------------------------------
(* Verbs.                                                                  *)

\* A command that was ordered without a question, or as the question said.
LEMMA OrderHolds ==
  ASSUME Ordered, NEW verb \in Verbs, NEW rs, NEW typed, NEW of, Order(verb, rs, typed, of),
         Confirms(verb) => typed = Asks(rs)
  PROVE  Ordered'
<1> DEFINE c == [id |-> Cardinality(cmds), verb |-> verb, rows |-> rs, typed |-> typed, ctx |-> ctx[active],
                 of |-> of, ran |-> FALSE]
<1>1. cmds' = cmds \cup {c}
  BY DEF Order
<1>2. /\ DOMAIN c = {"id", "verb", "rows", "typed", "ctx", "of", "ran"} /\ c.verb \in Verbs
      /\ Confirms(c.verb) => c.typed = Asks(c.rows)
  OBVIOUS
<1> HIDE DEF c
<1> QED
  BY <1>1, <1>2 DEF Ordered, Asks, Confirms

\* A question names the row, or the number of rows.
LEMMA QuestionHolds ==
  ASSUME NEW verb \in Verbs, NEW rs, rs # <<>>, Question(verb, rs)
  PROVE  Asked'
  BY DEF Question, Asked, Asks

LEMMA VerbForms ==
  ASSUME NEW v \in Verb
  PROVE  v.verb \in Verbs /\ (v.verb = "delete" => v.tab = "VMs") /\ (~Confirms(v.verb) => v.verb = "delete")
  BY DEF Verb, Verbs, Confirms

LEMMA SameAsked == ASSUME Asked, UNCHANGED prompt PROVE Asked'
  BY DEF Asked, Asks

LEMMA SameOrdered == ASSUME Ordered, UNCHANGED cmds PROVE Ordered'
  BY DEF Ordered, Asks, Confirms

LEMMA RunVerbHolds == ASSUME IInv, NEW v \in Verb, RunVerb(v) PROVE IInv'
<1>0. UNCHANGED <<viewVars, loadVars, marks, worldVars>> /\ v.tab = active
  BY DEF RunVerb
<1>1. ViewsOK' /\ TablesOK'
  BY <1>0, SameViews, SameTables DEF IInv, loadVars, worldVars
<1>2. v.verb \in Verbs /\ (~Confirms(v.verb) => v.verb = "delete")
  BY VerbForms
<1>3. CASE /\ Len(Marked) > 1 /\ UNCHANGED armed
           /\ IF Confirms(v.verb) THEN Question(v.verb, Marked) /\ UNCHANGED cmds
              ELSE Order(v.verb, Marked, None, data[active].ctx) /\ UNCHANGED prompt
  <2>1. Marked # <<>>
    <3> HIDE DEF Marked
    <3> QED
      BY <1>3
  <2>2. Asked' /\ Ordered'
    BY <1>2, <1>3, <2>1, QuestionHolds, OrderHolds, SameAsked, SameOrdered DEF IInv
  <2> QED
    BY <1>1, <1>3, <2>2 DEF IInv, Armed
<1>4. CASE /\ HasRow
           /\ IF Confirms(v.verb) THEN Question(v.verb, <<Selected>>) /\ UNCHANGED cmds
              ELSE Order(v.verb, <<Selected>>, None, data[active].ctx) /\ UNCHANGED prompt
           /\ armed' \in {None, armed}
  <2>1. Asked' /\ Ordered'
    BY <1>2, <1>4, QuestionHolds, OrderHolds, SameAsked, SameOrdered DEF IInv
  <2> QED
    BY <1>1, <1>4, <2>1 DEF IInv, Armed
<1>5. CASE HasRow /\ v.verb = "delete" /\ armed' = Selected.name /\ UNCHANGED <<prompt, cmds>>
  <2>1. Selected \in RowOf("VMs")
    BY <1>0, <1>5, VerbForms, SelectedRow DEF IInv
  <2>2. Selected.name \in VM
    BY <2>1, RowFields, Where
  <2> QED
    BY <1>1, <1>5, <2>2, SameAsked, SameOrdered DEF IInv, Armed
<1> QED
  BY <1>3, <1>4, <1>5 DEF RunVerb

LEMMA DisarmsHolds == ASSUME IInv, Disarms PROVE IInv'
  BY SameViews, SameTables, SameAsked, SameOrdered DEF IInv, Disarms, Armed, loadVars, worldVars

\* Consent: what was typed is what the question asked, of the rows it asked it of.
LEMMA ConsentKeeps == ASSUME IInv, Consent PROVE IInv'
<1>1. prompt # None /\ prompt' = None /\ Order(prompt.verb, prompt.rows, prompt.asks, prompt.of)
      /\ UNCHANGED <<viewVars, loadVars, marks, armed, worldVars>>
  BY DEF Consent
<1>2. prompt.verb \in Verbs /\ prompt.asks = Asks(prompt.rows)
  BY <1>1 DEF IInv, Asked
<1>3. Ordered'
  BY <1>1, <1>2, OrderHolds DEF IInv
<1> QED
  BY <1>1, <1>3, SameViews, SameTables DEF IInv, Asked, Armed, loadVars, worldVars

LEMMA DeclinedHolds == ASSUME IInv, Declined PROVE IInv'
  BY SameViews, SameTables, SameOrdered DEF IInv, Declined, Asked, Armed, loadVars, worldVars

LEMMA RunsHolds == ASSUME IInv, NEW c \in cmds, Runs(c) PROVE IInv'
<1> DEFINE d == [c EXCEPT !.ran = TRUE]
           names == {r.name : r \in Range(c.rows)}
<1>1. /\ cmds' = (cmds \ {c}) \cup {d} /\ AskNow(active, ctx[active])
      /\ UNCHANGED <<viewVars, data, refreshing, marks, armed, prompt, changes>>
      /\ vm' = CASE c.verb = "delete"   -> [n \in VM |-> IF n \in names THEN "absent" ELSE vm[n]]
                 [] c.verb = "rollback" -> [n \in VM |-> IF n \in names /\ vm[n] = "running" THEN "off" ELSE vm[n]]
                 [] c.verb = "restore"  -> vm
  BY DEF Runs
<1>2. /\ DOMAIN c = {"id", "verb", "rows", "typed", "ctx", "of", "ran"} /\ c.verb \in Verbs
      /\ Confirms(c.verb) => c.typed = Asks(c.rows)
  BY DEF IInv, Ordered
<1> HIDE DEF names
<1>3. DOMAIN d = DOMAIN c /\ d.verb = c.verb /\ d.rows = c.rows /\ d.typed = c.typed
  BY <1>2
<1>4. vm' \in [VM -> {"running", "off", "absent"}]
  <2> HIDE DEF names
  <2>1. vm \in [VM -> {"running", "off", "absent"}] /\ c.verb \in {"delete", "rollback", "restore"}
    BY <1>2 DEF IInv, ViewsOK, Verbs
  <2> QED
    BY <1>1, <2>1
<1> HIDE DEF d
<1>5. /\ DOMAIN d = {"id", "verb", "rows", "typed", "ctx", "of", "ran"} /\ d.verb \in Verbs
      /\ Confirms(d.verb) => d.typed = Asks(d.rows)
  BY <1>2, <1>3
<1>6. Ordered'
  BY <1>1, <1>5 DEF IInv, Ordered, Asks, Confirms
<1>7. TablesOK'
  BY <1>1, CtxOfActive, AskNowHolds DEF IInv
<1>8. ViewsOK'
  BY <1>1, <1>4 DEF IInv, ViewsOK, viewVars
<1> QED
  BY <1>1, <1>6, <1>7, <1>8, SameAsked DEF IInv, Armed

LEMMA ChangeHolds == ASSUME IInv, NEW n \in VM, NEW st \in {"running", "off", "absent"}, Change(n, st) PROVE IInv'
<1>1. ViewsOK'
  BY DEF IInv, ViewsOK, Change, viewVars
<1> QED
  BY <1>1, SameTables, SameActs DEF IInv, Change, loadVars, actVars

-----------------------------------------------------------------------------
(* Every step keeps the invariant.                                          *)

-----------------------------------------------------------------------------
(* The theorems.                                                           *)

LEMMA InitHolds == ASSUME Init PROVE IInv
<1>1. ViewsOK
  <2>1. nav \in Seq(Frames) /\ Len(nav) = 0
    BY EmptySeq DEF Init
  <2>2. MaxNav \in Nat
    BY VmxTuiAssumption
  <2> HIDE DEF Frames
  <2> QED
    BY <2>1, <2>2, ViewForms, Where DEF Init, ViewsOK
<1>2. TablesOK
  <2> DEFINE T == UNION {Seq(RowOf(t)) : t \in Tab}
             l == [id |-> 1, tab |-> "VMs", ctx |-> None, read |-> FALSE, rows |-> <<>>]
  <2>1. <<>> \in Seq(RowOf("VMs")) /\ <<>> \in T
    <3>1. <<>> \in Seq(RowOf("VMs"))
      BY NoRows
    <3> HIDE DEF RowOf
    <3> QED
      BY <3>1, Where
  <2> HIDE DEF T
  <2>2. l \in [id : Nat, tab : Tab, ctx : Ctx, read : BOOLEAN, rows : T]
        /\ l.rows \in Seq(RowOf(l.tab)) /\ (l.tab = "VMs" => l.ctx = None)
    <3> HIDE DEF RowOf
    <3> QED
      BY <2>1, Where
  <2> HIDE DEF l
  <2>3. loads = {l} /\ data = [t \in Tab |-> None]
    BY DEF Init, l
  <2> QED
    BY <2>2, <2>3 DEF TablesOK, T
<1> QED
  BY <1>1, <1>2 DEF Init, IInv, Asked, Ordered, Armed

LEMMA KeysHold == ASSUME IInv, Keys PROVE IInv'
<1>1. ASSUME NEW t \in Tab, Switch(t) PROVE IInv'
  BY <1>1, SwitchHolds
<1>2. ASSUME NEW r \in 1..Len(Rows), Move(r) PROVE IInv'
  BY <1>2, MoveHolds
<1>3. ASSUME NEW v \in Views, View(v) PROVE IInv'
  BY <1>3, ViewHolds
<1>4. ASSUME NEW f \in File, Drill(f) PROVE IInv'
  BY <1>4, DrillHolds
<1>5. ASSUME NEW v \in Verb, RunVerb(v) PROVE IInv'
  BY <1>5, RunVerbHolds
<1>6. ASSUME Reload \/ Back \/ Esc \/ Mark \/ MarkAll \/ Consent \/ Declined PROVE IInv'
  BY <1>6, ReloadHolds, BackHolds, EscHolds, MarkHolds, ConsentKeeps, DeclinedHolds
<1> QED
  BY <1>1, <1>2, <1>3, <1>4, <1>5, <1>6 DEF Keys

LEMMA NextHolds == ASSUME IInv, [Next]_tuiVars PROVE IInv'
<1>1. CASE Keys
  BY <1>1, KeysHold
<1>2. ASSUME NEW l \in loads, LoadReads(l) \/ LoadArrives(l) PROVE IInv'
  BY <1>2, LoadReadsHolds, LoadArrivesHolds
<1>3. CASE Tick \/ Disarms
  BY <1>3, TickHolds, DisarmsHolds
<1>4. ASSUME NEW c \in cmds, Runs(c) PROVE IInv'
  BY <1>4, RunsHolds
<1>5. ASSUME NEW n \in VM, NEW st \in {"running", "off", "absent"}, Change(n, st) PROVE IInv'
  BY <1>5, ChangeHolds
<1>6. CASE UNCHANGED tuiVars
  BY <1>6, SameViews, SameTables, SameActs DEF IInv, tuiVars, loadVars, actVars, worldVars
<1> QED
  BY <1>1, <1>2, <1>3, <1>4, <1>5, <1>6 DEF Next, Loading

LEMMA IInvStays == Spec => []IInv
<1>1. IInv /\ [Next]_tuiVars => IInv'
  BY NextHolds
<1> QED
  BY <1>1, InitHolds, PTL DEF Spec

\* What a name or a number typed back to a question sets off acts on the row of that
\* name, or on so many rows, whatever was loaded, filtered or switched to in between;
\* the fields keep their types (updatePrompt, runVerb).
THEOREM ConsentStays == Spec => []ConsentHolds
<1>1. IInv => ConsentHolds
  <2>1. ASSUME IInv PROVE TypeOK
    BY <2>1 DEF IInv, ViewsOK, TablesOK, Asked, Armed, TypeOK
  <2>2. ASSUME IInv PROVE ConsentIsForThese
    BY <2>2 DEF IInv, Ordered, Asks, ConsentIsForThese
  <2> QED
    BY <2>1, <2>2 DEF ConsentHolds
<1> QED
  BY <1>1, IInvStays, PTL

\* The cursor goes with its row's name over a load, through the filter and the sort
\* (apply).
THEOREM CursorStaysOnName == Spec => CursorKeepsName
<1> DEFINE Now(l) == Shown(l.rows, view)
           Kept == \A l \in loads : (LoadArrives(l) /\ l.tab = active /\ HasRow) =>
                     LET was == Selected.name
                         now == Shown(l.rows, view)
                     IN (\E r \in Range(now) : r.name = was) => now[row'].name = was
<1>1. ASSUME IInv PROVE Kept
  <2> SUFFICES ASSUME NEW l \in loads, LoadArrives(l), l.tab = active, HasRow,
                      \E r \in Range(Now(l)) : r.name = Selected.name
               PROVE  Now(l)[row'].name = Selected.name
    OBVIOUS
  <2>1. l.rows \in Seq(RowOf(l.tab)) /\ l.tab \in Tab /\ view \in Views /\ row \in Nat \ {0}
    BY <1>1 DEF IInv, TablesOK, ViewsOK
  <2>2. Now(l) \in Seq(RowOf(l.tab))
    BY <2>1, ShownRows
  <2>3. Len(Now(l)) \in Nat /\ DOMAIN Now(l) = 1..Len(Now(l))
    BY <2>2, LenProperties
  <2>4. row' = Follow(Selected.name, Now(l))
    BY DEF LoadArrives
  <2> HIDE DEF Now
  <2>5. \E i \in 1..Len(Now(l)) : Now(l)[i].name = Selected.name
    BY <2>3 DEF Range
  <2> QED
    BY <2>1, <2>3, <2>4, <2>5, FollowIs
<1>2. IInv /\ [Next]_tuiVars => [Kept]_tuiVars
  BY <1>1
<1> QED
  BY <1>2, IInvStays, PTL DEF Spec, CursorKeepsName

=============================================================================
