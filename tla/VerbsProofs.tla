----------------------------- MODULE VerbsProofs -----------------------------
(***************************************************************************)
(* What a clone promises, for any names, disks, plans at once and failures. *)
(***************************************************************************)
EXTENDS MCVerbs, FiniteSetTheorems, SequenceTheorems, WellFoundedInduction, TLAPS

-----------------------------------------------------------------------------
(* Sets and sequences.                                                     *)

\* A set of numbers has a least one.
LEMMA Least == ASSUME NEW S \in SUBSET Nat, S # {} PROVE \E x \in S : \A y \in S : x =< y
<1> DEFINE R == {ss \in Nat \X Nat : ss[1] < ss[2]}
<1>1. IsWellFoundedOn(R, Nat)
  BY NatLessThanWellFounded DEF OpToRel
<1>2. \E x \in S : \A y \in S : ~ (<<y, x>> \in R)
  <2> HIDE DEF R
  <2> QED
    BY <1>1, WFMin
<1>3. PICK x \in S : \A y \in S : ~ (<<y, x>> \in R)
  BY <1>2
<1>4. ASSUME NEW y \in S PROVE x =< y
  <2>1. <<y, x>> \in Nat \X Nat /\ <<y, x>>[1] = y /\ <<y, x>>[2] = x
    OBVIOUS
  <2> QED
    BY <1>3, <2>1
<1> QED
  BY <1>4

\* A bounded set of numbers has a greatest one.
LEMMA Greatest ==
  ASSUME NEW n \in Nat, NEW S \in SUBSET (0..n), S # {}
  PROVE  Max(S) \in S /\ \A y \in S : Max(S) >= y
<1> DEFINE T == {n - x : x \in S}
<1>1. T \in SUBSET Nat /\ T # {}
  <2>1. ASSUME NEW x \in S PROVE n - x \in Nat
    <3>1. x \in 0..n
      OBVIOUS
    <3> QED
      BY <3>1
  <2> QED
    BY <2>1
<1>2. PICK t \in T : \A y \in T : t =< y
  BY <1>1, Least
<1>3. PICK x \in S : t = n - x
  OBVIOUS
<1>4. ASSUME NEW y \in S PROVE x >= y
  <2>1. t =< n - y
    BY <1>2
  <2>2. x \in 0..n /\ y \in 0..n
    OBVIOUS
  <2> HIDE DEF T
  <2> QED
    BY <2>1, <2>2, <1>3
<1> QED
  BY <1>4 DEF Max

\* A finite set in a row: each of it is there.
LEMMA InARow ==
  ASSUME NEW S, IsFiniteSet(S)
  PROVE  SetToSeq(S) \in Seq(S) /\ \A x \in S : \E i \in DOMAIN SetToSeq(S) : SetToSeq(S)[i] = x
<1> DEFINE n == Cardinality(S)
           f == SetToSeq(S)
<1>1. n \in Nat /\ \E g : g \in Bijection(1..n, S)
  <2>1. n \in Nat
    BY FS_CardinalityType
  <2>2. \E m \in Nat : \E g : g \in Bijection(1..m, S)
    BY FS_NatBijection DEF ExistsBijection
  <2> QED
    BY <2>1, <2>2, FS_CountingElements DEF ExistsBijection
<1>2. PICK g : g \in Bijection(1..n, S)
  BY <1>1
<1>3. g \in [1..n -> S] /\ IsInjective(g)
  BY <1>2 DEF Bijection, Injection, Surjection
<1>4. f \in [1..n -> S] /\ IsInjective(f)
  BY <1>3 DEF SetToSeq
<1>5. f \in Injection(1..n, S)
  BY <1>4 DEF Injection
<1>6. Cardinality(1..n) = n
  BY <1>1, FS_Interval
<1>7. f \in Surjection(1..n, S)
  <2> HIDE DEF f, n
  <2> QED
    BY <1>5, <1>6, FS_Injection DEF n
<1> QED
  BY <1>1, <1>4, <1>7 DEF Surjection

\* FlattenSeq: the pieces one after the other.  The function it is made with is there
\* for every number of pieces ...
Flat(ss, f, n) ==
  /\ f = [i \in 1..n |-> IF i = 1 THEN ss[i] ELSE f[i-1] \o ss[i]]

LEMMA FlatThere ==
  ASSUME NEW S, NEW ss \in Seq(Seq(S)), NEW n \in Nat, n <= Len(ss)
  PROVE  \E f : Flat(ss, f, n)
<1> DEFINE Bad == {m \in 0..Len(ss) : ~ \E f : Flat(ss, f, m)}
<1>0. Len(ss) \in Nat
  OBVIOUS
<1>1. SUFFICES Bad = {}
  BY <1>0
<1>2. SUFFICES ASSUME Bad # {} PROVE FALSE
  OBVIOUS
<1>3. Bad \in SUBSET Nat
  BY <1>0
<1>4. PICK m \in Bad : \A y \in Bad : m =< y
  <2> HIDE DEF Bad
  <2> QED
    BY <1>2, <1>3, Least
<1>5. m \in Nat /\ m <= Len(ss)
  BY <1>0
<1>6. CASE m = 0
  <2>1. Flat(ss, <<>>, m)
    BY <1>6 DEF Flat
  <2> QED
    BY <2>1
<1>7. CASE m # 0
  <2>1. m - 1 \in 0..Len(ss) /\ m - 1 \notin Bad
    <3>1. m - 1 \in 0..Len(ss) /\ ~(m =< m - 1)
      BY <1>7, <1>5, <1>0
    <3> HIDE DEF Bad
    <3> QED
      BY <3>1, <1>4
  <2>2. PICK f : Flat(ss, f, m - 1)
    BY <2>1
  <2> DEFINE g == [i \in 1..m |-> IF i = m THEN (IF i = 1 THEN ss[i] ELSE f[i-1] \o ss[i]) ELSE f[i]]
  <2>3. ASSUME NEW i \in 1..m PROVE g[i] = IF i = 1 THEN ss[i] ELSE g[i-1] \o ss[i]
    <3>1. i \in Nat /\ i >= 1 /\ i <= m
      BY <1>5
    <3>2. CASE i = m
      <4>1. i # 1 => i - 1 \in 1..m /\ i - 1 # m
        BY <3>1, <1>5
      <4>2. i # 1 => g[i-1] = f[i-1]
        BY <4>1
      <4> QED
        BY <4>2, <3>2
    <3>3. CASE i # m
      <4>1. i \in 1..(m - 1)
        BY <3>1, <3>3, <1>5
      <4>2. f[i] = IF i = 1 THEN ss[i] ELSE f[i-1] \o ss[i]
        BY <2>2, <4>1 DEF Flat
      <4>3. i # 1 => i - 1 \in 1..m /\ i - 1 # m
        BY <3>1, <1>5
      <4>4. i # 1 => g[i-1] = f[i-1]
        BY <4>3
      <4> QED
        BY <4>2, <4>4, <3>3
    <3> QED
      BY <3>2, <3>3
  <2>4. g = [i \in 1..m |-> g[i]]
    OBVIOUS
  <2>5. Flat(ss, g, m)
    <3> HIDE DEF g
    <3> QED
      BY <2>3, <2>4 DEF Flat
  <2> QED
    BY <2>5
<1> QED
  BY <1>6, <1>7

\* Of two sequences in a row the elements of the first come first, the second's behind.
LEMMA InTwo ==
  ASSUME NEW S, NEW a \in Seq(S), NEW b \in Seq(S)
  PROVE  /\ \A i \in DOMAIN a : i \in DOMAIN (a \o b) /\ (a \o b)[i] = a[i]
         /\ \A l \in DOMAIN b : Len(a) + l \in DOMAIN (a \o b) /\ (a \o b)[Len(a) + l] = b[l]
<1>1. Len(a) \in Nat /\ Len(b) \in Nat /\ DOMAIN a = 1..Len(a) /\ DOMAIN b = 1..Len(b)
  BY LenProperties
<1>2. DOMAIN (a \o b) = 1..(Len(a) + Len(b))
  BY ConcatProperties, LenProperties
<1>3. \A i \in 1..(Len(a) + Len(b)) : (a \o b)[i] = IF i <= Len(a) THEN a[i] ELSE b[i - Len(a)]
  BY ConcatProperties
<1>4. ASSUME NEW l \in DOMAIN b PROVE Len(a) + l \in DOMAIN (a \o b) /\ (a \o b)[Len(a) + l] = b[l]
  <2>1. Len(a) + l \in 1..(Len(a) + Len(b)) /\ ~(Len(a) + l <= Len(a)) /\ (Len(a) + l) - Len(a) = l
    BY <1>1
  <2>2. (a \o b)[Len(a) + l] = b[(Len(a) + l) - Len(a)]
    BY <1>3, <2>1
  <2> QED
    BY <1>2, <2>1, <2>2
<1>5. ASSUME NEW i \in DOMAIN a PROVE i \in DOMAIN (a \o b) /\ (a \o b)[i] = a[i]
  <2>1. i \in 1..(Len(a) + Len(b)) /\ i <= Len(a)
    BY <1>1
  <2> QED
    BY <1>2, <1>3, <2>1
<1> QED
  BY <1>4, <1>5

\* ... and what flattening gives has what the pieces have, no more and no less.
LEMMA Flattened ==
  ASSUME NEW S, NEW ss \in Seq(Seq(S)), ss # <<>>
  PROVE  /\ FlattenSeq(ss) \in Seq(S)
         /\ \A i \in DOMAIN FlattenSeq(ss) :
              \E j \in DOMAIN ss : \E l \in DOMAIN ss[j] : FlattenSeq(ss)[i] = ss[j][l]
         /\ \A j \in DOMAIN ss : \A l \in DOMAIN ss[j] :
              \E i \in DOMAIN FlattenSeq(ss) : FlattenSeq(ss)[i] = ss[j][l]
<1> DEFINE n == Len(ss)
           f == CHOOSE f : Flat(ss, f, n)
           Good(m) == /\ f[m] \in Seq(S)
                      /\ \A i \in DOMAIN f[m] : \E j \in DOMAIN ss : \E l \in DOMAIN ss[j] : f[m][i] = ss[j][l]
                      /\ \A j \in 1..m : \A l \in DOMAIN ss[j] : \E i \in DOMAIN f[m] : f[m][i] = ss[j][l]
           Bad == {m \in 1..n : ~Good(m)}
<1>1. n \in Nat /\ n # 0
  OBVIOUS
<1>2. Flat(ss, f, n)
  BY <1>1, FlatThere
<1>3. FlattenSeq(ss) = f[n]
  BY <1>1 DEF FlattenSeq, Flat
<1>4. Bad = {}
  <2> SUFFICES ASSUME Bad # {} PROVE FALSE
    OBVIOUS
  <2>1. PICK m \in Bad : \A y \in Bad : m =< y
    <3>1. Bad \in SUBSET Nat
      BY <1>1
    <3> HIDE DEF Bad
    <3> QED
      BY <3>1, Least
  <2>2. m \in 1..n /\ m \in Nat /\ ~Good(m)
    <3>1. m \in 1..n /\ ~Good(m)
      OBVIOUS
    <3> HIDE DEF Good, n
    <3> QED
      BY <3>1, <1>1
  <2>3. f[m] = IF m = 1 THEN ss[m] ELSE f[m-1] \o ss[m]
    <3> HIDE DEF f
    <3> QED
      BY <1>2, <2>2 DEF Flat
  <2>4. ss[m] \in Seq(S) /\ m \in DOMAIN ss
    BY <2>2
  <2>5. CASE m = 1
    <3>1. f[m] = ss[m]
      BY <2>3, <2>5
    <3> HIDE DEF f
    <3>2. Good(m)
      BY <3>1, <2>4, <2>5
    <3> QED
      BY <3>2, <2>2
  <2>6. CASE m # 1
    <3>1. m - 1 \in 1..n /\ Good(m - 1)
      <4>1. m - 1 \in 1..n /\ ~(m =< m - 1)
        <5> HIDE DEF Good, n
        <5> QED
          BY <2>2, <2>6, <1>1
      <4>2. m - 1 \notin Bad
        <5> HIDE DEF Bad
        <5> QED
          BY <2>1, <4>1
      <4> HIDE DEF Good
      <4> QED
        BY <4>1, <4>2
    <3> HIDE DEF f
    <3>2. f[m] = f[m-1] \o ss[m] /\ f[m-1] \in Seq(S)
      BY <2>3, <2>6, <3>1
    <3> DEFINE a == f[m-1]
               b == ss[m]
    <3>3. a \in Seq(S) /\ b \in Seq(S) /\ f[m] = a \o b
      BY <3>2, <2>4
    <3>4. f[m] \in Seq(S) /\ Len(f[m]) = Len(a) + Len(b)
      BY <3>3
    <3>5. ASSUME NEW i \in DOMAIN f[m] PROVE \E j \in DOMAIN ss : \E l \in DOMAIN ss[j] : f[m][i] = ss[j][l]
      <4>1. CASE i <= Len(a)
        <5>1. i \in DOMAIN a /\ f[m][i] = a[i]
          BY <4>1, <3>3
        <5> QED
          BY <5>1, <3>1
      <4>2. CASE ~(i <= Len(a))
        <5>1. i - Len(a) \in DOMAIN b /\ f[m][i] = b[i - Len(a)]
          <6> HIDE DEF a, b
          <6> QED
            BY <4>2, <3>3, <3>4, ConcatProperties
        <5> QED
          BY <5>1, <2>4
      <4> QED
        BY <4>1, <4>2
    <3>6. ASSUME NEW j \in 1..m, NEW l \in DOMAIN ss[j] PROVE \E i \in DOMAIN f[m] : f[m][i] = ss[j][l]
      <4>1. CASE j = m
        <5>1. Len(a) + l \in DOMAIN f[m] /\ f[m][Len(a) + l] = b[l]
          <6>1. l \in DOMAIN b
            BY <4>1
          <6> HIDE DEF a, b, Good, Bad
          <6>2. \A y \in DOMAIN b : Len(a) + y \in DOMAIN (a \o b) /\ (a \o b)[Len(a) + y] = b[y]
            BY <3>3, InTwo, SMTT(60)
          <6> QED
            BY <6>1, <6>2, <3>3, Zenon
        <5> QED
          BY <5>1, <4>1
      <4>2. CASE j # m
        <5>1. j \in 1..(m-1)
          BY <4>2, <2>2
        <5>2. PICK i \in DOMAIN a : a[i] = ss[j][l]
          BY <5>1, <3>1
        <5>3. i \in DOMAIN f[m] /\ f[m][i] = a[i]
          <6>1. i \in DOMAIN a
            OBVIOUS
          <6> HIDE DEF a, b
          <6> QED
            BY <6>1, <3>3, InTwo
        <5> QED
          BY <5>2, <5>3
      <4> QED
        BY <4>1, <4>2
    <3>7. Good(m)
      BY <3>4, <3>5, <3>6
    <3> QED
      BY <3>7, <2>2
  <2> QED
    BY <2>5, <2>6
<1>5. n \in 1..n /\ 1..n = DOMAIN ss
  BY <1>1
<1>6. Good(n)
  <2> HIDE DEF Good
  <2> QED
    BY <1>4, <1>5
<1>7. \A j \in DOMAIN ss : \A l \in DOMAIN ss[j] : \E i \in DOMAIN f[n] : f[n][i] = ss[j][l]
  BY <1>5, <1>6
<1>8. f[n] \in Seq(S) /\ \A i \in DOMAIN f[n] : \E j \in DOMAIN ss : \E l \in DOMAIN ss[j] : f[n][i] = ss[j][l]
  BY <1>6
<1> HIDE DEF f, n
<1> QED
  BY <1>3, <1>7, <1>8

-----------------------------------------------------------------------------
(* What is always so: of the host, the rows, the plans.                    *)

SnapRec == [vol : Vol, tag : Tag, at : 1..MaxAt, by : 0..MaxFire]
DomRec  == [state : {"none", "off", "running", "paused"}, pers : BOOLEAN, disks : SUBSET Kind]
RowRec  == [listed : BOOLEAN, state : {"none", "off", "running", "paused"}, pers : BOOLEAN, disks : SUBSET Kind,
            ds : BOOLEAN, snaps : SUBSET SnapRec]

\* Commands, and those that undo one.
DisksFor(n) == {V(n, k) : k \in Kind}
VmCmds   == [op : {"start", "destroy", "undefine", "shutdown"}, vm : Name]
ZCmds    == [op : {"zdestroy"}, vol : Vol]
SCmds    == [op : {"snapshot", "dsnap", "reseal", "rollback"}, vol : Vol, tag : Tag]
CCmds    == [op : {"zclone"}, vol : Vol, tag : Tag, new : Vol]
DCmds    == [op : {"virtclone"}, vm : Name, new : Name, files : {DisksFor(n) : n \in Name}]
Cmds     == VmCmds \cup ZCmds \cup SCmds \cup CCmds \cup DCmds
Undos    == {NoCmd} \cup ZCmds \cup [op : {"dsnap"}, vol : Vol, tag : Tag]
StepRec  == [do : Cmds, undo : Undos]

\* The zvols and snapshots: one snapshot of a name, and what is not there is no clone.
ZfsOK ==
  /\ vols \in SUBSET Vol
  /\ snaps \in SUBSET SnapRec
  /\ \A s \in snaps : s.vol \in vols
  /\ \A s, t \in snaps : s.vol = t.vol /\ s.tag = t.tag => s = t
  /\ origin \in [Vol -> SnapRec \cup {NoSnap}]
  /\ \A v \in Vol : origin[v] # NoSnap => v \in vols /\ origin[v] \in snaps
  /\ maker \in [Vol -> 0..MaxFire]
  /\ \A v \in Vol : maker[v] = 0 <=> origin[v] = NoSnap

DomOK ==
  /\ dom \in [Name -> DomRec]
  /\ \A n \in Name : dom[n].state # "none" => dom[n].disks = Kind
  /\ hold \in [Vol -> 0..MaxHold]

HostOK == ZfsOK /\ DomOK

RowsOK ==
  /\ rows \in [Name -> RowRec]
  /\ \A n \in Name : rows[n].state # "none" => rows[n].disks = Kind

\* The steps of a clone: its disks, each by a zfs clone, and the domain last.
DiskStep(n, new) ==
  {Step(CCmd(V(n, k), t, V(new, k)), ZCmd("zdestroy", V(new, k))) : k \in Kind, t \in {"golden", new}}
  \cup {Step(SCmd("snapshot", V(n, k), new), SCmd("dsnap", V(n, k), new)) : k \in Kind}
LastStep(n, new) == Step(DCmd(n, new, DisksFor(new)), NoCmd)

IsZclone(st) == st.do.op = "zclone"
IsSnap(st)   == st.do.op = "snapshot"

CloneShape(p) ==
  /\ p.vm \in Name /\ p.new \in Name /\ p.vm # p.new
  /\ p.steps # <<>> /\ p.steps[Len(p.steps)] = LastStep(p.vm, p.new)
  /\ \A i \in 1..(Len(p.steps) - 1) : p.steps[i] \in DiskStep(p.vm, p.new)
  /\ \A k \in Kind : \E i \in 1..(Len(p.steps) - 1) :
       IsZclone(p.steps[i]) /\ p.steps[i].do.vol = V(p.vm, k) /\ p.steps[i].do.new = V(p.new, k)

PlanRec ==
  [kind : {"none", "start", "forceoff", "delete", "reconcile", "clone", "goldenclone", "golden", "rollback"},
   vm : Name \cup {"none"}, new : Name \cup {"none"}, steps : Seq(StepRec), k : Nat, tries : 0..Retries,
   id : 0..MaxFire, phase : {"idle", "run", "unwind"}, outcome : {"none", "ok", "failed"}, at : Nat,
   broken : SUBSET Undos]

\* What the other verbs ask for, and what of it is offered.
Touching(p, c) ==
  \/ p.kind \in {"delete", "reconcile"}
  \/ c.op \in {"start", "destroy", "shutdown"}
  \/ c.op \in {"reseal", "snapshot"} /\ c.tag = "golden"
  \/ c.op = "rollback" /\ p.kind = "rollback"

Busy(p) == p.phase # "idle"

PlanOK(p) ==
  /\ Busy(p) <=> p.kind # "none"
  /\ Busy(p) => p.id \in 1..fired /\ p.k >= 1
  /\ p.phase = "idle" => p.k = 0 /\ p.id = 0 /\ p.steps = <<>>
  /\ p.phase = "run" => p.k <= Len(p.steps) + 1
  /\ p.phase = "unwind" => p.k <= p.at /\ p.at <= Len(p.steps)
  /\ IsClone(p) => CloneShape(p)
  /\ Busy(p) /\ ~IsClone(p) => \A i \in 1..Len(p.steps) : p.steps[i].undo = NoCmd /\ Touching(p, p.steps[i].do)
  /\ p.kind \in {"delete", "reconcile"} => "delete" \in Offered
  /\ p.kind = "rollback" => "rollback" \in Offered

PlansOK ==
  /\ plan \in [Proc -> PlanRec]
  /\ \A p \in Proc : PlanOK(plan[p])
  /\ \A p, q \in Proc : Busy(plan[p]) /\ plan[p].id = plan[q].id => p = q

\* What has been unwound is gone, or reported.
Reported ==
  \A p \in Proc : IsClone(plan[p]) /\ plan[p].phase = "unwind" =>
    \A i \in plan[p].k..(plan[p].at - 1) :
      Remains(plan[p].steps[i].undo, plan[p].id) => plan[p].steps[i].undo \in plan[p].broken

Counters == reg \in SUBSET Name /\ fired \in 0..MaxFire /\ faults \in 0..MaxFault /\ others \in 0..MaxOther

IInv == HostOK /\ RowsOK /\ PlansOK /\ Reported /\ Counters

-----------------------------------------------------------------------------
(* What a command does to the host.                                        *)

\* The next snapshot has a number of its own.
LEMMA NextAtType == ASSUME HostOK, NEW v \in Vol PROVE NextAt(v) \in Nat /\ NextAt(v) >= 1
<1> DEFINE S == {0} \cup {s.at : s \in SnapsOf(v)}
<1>1. S \in SUBSET (0..MaxAt) /\ MaxAt \in Nat /\ S # {}
  <2>1. ASSUME NEW s \in SnapsOf(v) PROVE s.at \in 1..MaxAt
    BY DEF SnapsOf, HostOK, ZfsOK, SnapRec
  <2> QED
    BY <2>1 DEF MaxAt
<1>2. Max(S) \in 0..MaxAt
  <2> HIDE DEF S
  <2> QED
    BY <1>1, Greatest
<1> QED
  BY <1>1, <1>2 DEF NextAt

\* The snapshot of a name.
LEMMA TheOne ==
  ASSUME HostOK, NEW v \in Vol, NEW t \in Tag, HasSnap(v, t)
  PROVE  /\ TheSnap(v, t) \in snaps /\ TheSnap(v, t).vol = v /\ TheSnap(v, t).tag = t
         /\ \A s \in snaps : s.vol = v /\ s.tag = t => s = TheSnap(v, t)
  BY DEF HasSnap, TheSnap, HostOK, ZfsOK

\* Commands that act on domains leave the pool alone, and the other way round.
OnDomains == UNCHANGED <<vols, snaps, origin, maker>>
OnPool    == UNCHANGED dom

LEMMA StartType == ASSUME HostOK, NEW n \in Name, NEW r, Start(n, r) PROVE DomOK' /\ OnDomains
  BY DEF HostOK, DomOK, DomRec, Start, OnDomains, Unchanged, host

LEMMA PowerOffType == ASSUME HostOK, NEW n \in Name, dom[n].state # "none", PowerOff(n) PROVE DomOK' /\ OnDomains
<1>1. OnDomains
  BY DEF PowerOff, OnDomains
<1>2. dom' \in [Name -> DomRec] /\ \A m \in Name : dom'[m].state # "none" => dom'[m].disks = Kind
  <2> DEFINE d == IF dom[n].pers THEN [dom[n] EXCEPT !.state = "off"] ELSE NoDom
  <2>1. dom' = [dom EXCEPT ![n] = d]
    BY DEF PowerOff
  <2>2. d \in DomRec /\ (d.state # "none" => d.disks = Kind)
    BY DEF HostOK, DomOK, DomRec, NoDom
  <2> HIDE DEF d
  <2> QED
    BY <2>1, <2>2 DEF HostOK, DomOK
<1>3. hold' \in [Vol -> 0..MaxHold]
  BY DEF HostOK, DomOK, PowerOff
<1> QED
  BY <1>1, <1>2, <1>3 DEF DomOK

LEMMA DestroyType == ASSUME HostOK, NEW n \in Name, NEW r, Destroy(n, r) PROVE DomOK' /\ OnDomains
<1>1. CASE dom[n].state # "none" /\ PowerOff(n)
  BY <1>1, PowerOffType
<1>2. CASE Unchanged
  BY <1>2 DEF HostOK, DomOK, Unchanged, host, OnDomains
<1> QED
  BY <1>1, <1>2 DEF Destroy

LEMMA UndefineType == ASSUME HostOK, NEW n \in Name, NEW r, Undefine(n, r) PROVE DomOK' /\ OnDomains
<1>1. CASE Unchanged
  BY <1>1 DEF HostOK, DomOK, OnDomains, Unchanged, host
<1>2. CASE ~Unchanged
  <2> DEFINE d == IF dom[n].state = "off" THEN NoDom ELSE [dom[n] EXCEPT !.pers = FALSE]
  <2>1. dom' = [dom EXCEPT ![n] = d] /\ OnDomains /\ UNCHANGED hold /\ dom[n].state # "none"
    BY <1>2 DEF Undefine, Defined, OnDomains
  <2>2. d \in DomRec /\ (d.state # "none" => d.disks = Kind)
    BY <2>1 DEF HostOK, DomOK, DomRec, NoDom
  <2> HIDE DEF d
  <2> QED
    BY <2>1, <2>2 DEF HostOK, DomOK
<1> QED
  BY <1>1, <1>2

LEMMA VirtCloneType ==
  ASSUME HostOK, NEW n \in Name, NEW new \in Name, NEW m \in Name, NEW r, VirtClone(n, new, DisksFor(m), r)
  PROVE  DomOK' /\ OnDomains
<1>1. {v.kind : v \in DisksFor(m)} = Kind
  <2>1. \A k \in Kind : V(m, k) \in DisksFor(m) /\ V(m, k).kind = k
    BY DEF DisksFor, V
  <2>2. \A v \in DisksFor(m) : v.kind \in Kind
    BY DEF DisksFor, V
  <2> QED
    BY <2>1, <2>2
<1>2. CASE Unchanged
  BY <1>2 DEF HostOK, DomOK, OnDomains, Unchanged, host
<1>3. CASE ~Unchanged
  <2> DEFINE d == [state |-> "off", pers |-> TRUE, disks |-> Kind]
  <2>1. dom' = [dom EXCEPT ![new] = d] /\ OnDomains /\ UNCHANGED hold
    BY <1>1, <1>3 DEF VirtClone, OnDomains
  <2>2. d \in DomRec /\ d.disks = Kind
    BY DEF DomRec
  <2> HIDE DEF d
  <2> QED
    BY <2>1, <2>2 DEF HostOK, DomOK
<1> QED
  BY <1>2, <1>3

LEMMA DestroyVolType == ASSUME HostOK, NEW v \in Vol, NEW r, DestroyVol(v, r) PROVE HostOK' /\ OnPool
<1>1. CASE UNCHANGED <<vols, snaps, origin, maker, dom>> /\ hold' \in [Vol -> 0..MaxHold]
  BY <1>1 DEF HostOK, ZfsOK, DomOK, OnPool
<1>2. CASE /\ v \in vols /\ Dependents(SnapsOf(v)) = {}
           /\ vols' = vols \ {v} /\ snaps' = snaps \ SnapsOf(v)
           /\ origin' = [origin EXCEPT ![v] = NoSnap] /\ maker' = [maker EXCEPT ![v] = 0]
           /\ UNCHANGED <<dom, hold>>
  <2>1. DomOK' /\ OnPool
    BY <1>2 DEF HostOK, DomOK, OnPool
  <2>2. maker' \in [Vol -> 0..MaxFire]
    BY <1>2, VerbsAssumption DEF HostOK, ZfsOK
  <2>3. origin' \in [Vol -> SnapRec \cup {NoSnap}]
    BY <1>2 DEF HostOK, ZfsOK
  <2>4. ASSUME NEW w \in Vol, origin'[w] # NoSnap PROVE w \in vols' /\ origin'[w] \in snaps'
    <3>1. w # v /\ origin'[w] = origin[w] /\ w \in vols /\ origin[w] \in snaps
      BY <1>2, <2>4 DEF HostOK, ZfsOK
    <3>2. origin[w] \notin SnapsOf(v)
      BY <1>2, <3>1 DEF Dependents
    <3> QED
      BY <3>1, <3>2, <1>2
  <2>5. \A w \in Vol : maker'[w] = 0 <=> origin'[w] = NoSnap
    BY <1>2 DEF HostOK, ZfsOK
  <2>6. \A s \in snaps' : s.vol \in vols'
    BY <1>2 DEF HostOK, ZfsOK, SnapsOf
  <2>7. ZfsOK'
    BY <1>2, <2>2, <2>3, <2>4, <2>5, <2>6 DEF HostOK, ZfsOK
  <2> QED
    BY <2>1, <2>7 DEF HostOK
<1>3. CASE r = "busy" /\ hold' = [hold EXCEPT ![v] = IF @ > 0 THEN @ - 1 ELSE 0] /\ UNCHANGED <<dom, vols, snaps, origin, maker>>
  <2>1. hold' \in [Vol -> 0..MaxHold]
    BY <1>3, HostAssumption DEF HostOK, DomOK
  <2> QED
    BY <1>1, <1>3, <2>1
<1>4. CASE Unchanged
  BY <1>1, <1>4 DEF Unchanged, host, HostOK, DomOK
<1> QED
  BY <1>2, <1>3, <1>4 DEF DestroyVol

LEMMA DropSnaps ==
  ASSUME HostOK, NEW S \in SUBSET snaps, Dependents(S) = {}, snaps' = snaps \ S,
         UNCHANGED <<dom, vols, origin, maker, hold>>
  PROVE  HostOK' /\ OnPool
  BY DEF HostOK, ZfsOK, DomOK, OnPool, Dependents

LEMMA DestroySnapType ==
  ASSUME HostOK, NEW v \in Vol, NEW t \in Tag, NEW r, DestroySnap(v, t, r) PROVE HostOK' /\ OnPool
<1>1. CASE HasSnap(v, t) /\ Dependents({TheSnap(v, t)}) = {}
  BY <1>1, TheOne, DropSnaps DEF DestroySnap
<1>2. CASE ~(HasSnap(v, t) /\ Dependents({TheSnap(v, t)}) = {})
  <2>1. Unchanged
    BY <1>2 DEF DestroySnap
  <2> QED
    BY <2>1 DEF HostOK, ZfsOK, DomOK, OnPool, Unchanged, host
<1> QED
  BY <1>1, <1>2

LEMMA RollbackType ==
  ASSUME HostOK, NEW v \in Vol, NEW t \in Tag, NEW r, RollbackVol(v, t, r) PROVE HostOK' /\ OnPool
<1>1. CASE HasSnap(v, t) /\ Dependents(Newer(v, t)) = {}
  <2>1. Newer(v, t) \in SUBSET snaps
    BY DEF Newer, SnapsOf
  <2> QED
    BY <1>1, <2>1, DropSnaps DEF RollbackVol
<1>2. CASE ~(HasSnap(v, t) /\ Dependents(Newer(v, t)) = {})
  BY <1>2 DEF RollbackVol, HostOK, ZfsOK, DomOK, OnPool, Unchanged, host
<1> QED
  BY <1>1, <1>2

LEMMA SnapshotType ==
  ASSUME HostOK, NEW v \in Vol, NEW t \in Tag, NEW who \in 0..MaxFire, NEW r, Snapshot(v, t, who, r)
  PROVE  HostOK' /\ OnPool
<1>1. CASE v \in vols /\ ~HasSnap(v, t)
  <2> DEFINE s == [vol |-> v, tag |-> t, at |-> NextAt(v), by |-> who]
  <2>1. /\ NextAt(v) <= MaxAt /\ snaps' = snaps \cup {s}
        /\ UNCHANGED <<dom, vols, origin, maker, hold>>
    BY <1>1 DEF Snapshot
  <2>2. NextAt(v) \in 1..MaxAt
    BY <2>1, NextAtType DEF MaxAt
  <2>3. s \in SnapRec /\ s.vol = v /\ s.tag = t
    BY <2>2 DEF SnapRec
  <2> HIDE DEF s
  <2>4. ZfsOK'
    BY <1>1, <2>1, <2>3 DEF HostOK, ZfsOK, HasSnap
  <2> QED
    BY <2>1, <2>4 DEF HostOK, DomOK, OnPool
<1>2. CASE ~(v \in vols /\ ~HasSnap(v, t))
  BY <1>2 DEF Snapshot, HostOK, ZfsOK, DomOK, OnPool, Unchanged, host
<1> QED
  BY <1>1, <1>2

LEMMA CloneVolType ==
  ASSUME HostOK, NEW v \in Vol, NEW t \in Tag, NEW new \in Vol, NEW who \in 1..MaxFire, NEW r,
         CloneVol(v, t, new, who, r)
  PROVE  HostOK' /\ OnPool
<1>1. CASE HasSnap(v, t) /\ new \notin vols
  <2>1. /\ vols' = vols \cup {new} /\ origin' = [origin EXCEPT ![new] = TheSnap(v, t)]
        /\ maker' = [maker EXCEPT ![new] = who] /\ UNCHANGED <<dom, snaps, hold>>
    BY <1>1 DEF CloneVol
  <2>2. TheSnap(v, t) \in snaps /\ TheSnap(v, t) \in SnapRec
    BY <1>1, TheOne DEF HostOK, ZfsOK
  <2>3. TheSnap(v, t) # NoSnap
    <3>1. TheSnap(v, t).at \in 1..MaxAt
      BY <2>2 DEF SnapRec
    <3>2. NoSnap.at = 0
      BY DEF NoSnap
    <3> QED
      BY <3>1, <3>2
  <2>4. who \in 0..MaxFire /\ who # 0
    BY VerbsAssumption
  <2>5. ZfsOK'
    BY <2>1, <2>2, <2>3, <2>4 DEF HostOK, ZfsOK
  <2> QED
    BY <2>1, <2>5 DEF HostOK, DomOK, OnPool
<1>2. CASE ~(HasSnap(v, t) /\ new \notin vols)
  BY <1>2 DEF CloneVol, HostOK, ZfsOK, DomOK, OnPool, Unchanged, host
<1> QED
  BY <1>1, <1>2

\* A command, whatever it replies, leaves the host a host.
LEMMA ExecType ==
  ASSUME HostOK, NEW c \in Cmds \cup Undos, NEW p \in PlanRec, p.id \in 1..MaxFire, NEW r, Exec(c, p, r)
  PROVE  HostOK'
<1> DEFINE Same == HostOK /\ Unchanged => HostOK'
<1>0. Same
  BY DEF HostOK, ZfsOK, DomOK, Unchanged, host
<1>1. ASSUME DomOK', OnDomains PROVE HostOK'
  BY <1>1 DEF HostOK, ZfsOK, OnDomains
<1>2. p.id \in 0..MaxFire
  BY VerbsAssumption
<1>3. CASE Fails(r)
  BY <1>0, <1>3 DEF Fails
<1>4. CASE c \in VmCmds
  <2>1. c.vm \in Name /\ c.op \in {"start", "destroy", "undefine", "shutdown"}
    BY <1>4 DEF VmCmds
  <2>2. CASE Start(c.vm, r)
    BY <1>1, <2>1, <2>2, StartType
  <2>3. CASE Destroy(c.vm, r)
    BY <1>1, <2>1, <2>3, DestroyType
  <2>4. CASE Undefine(c.vm, r)
    BY <1>1, <2>1, <2>4, UndefineType
  <2>5. CASE Shutdown(c.vm, p.tries > 0, r)
    BY <1>0, <2>5 DEF Shutdown
  <2> QED
    BY <1>3, <2>1, <2>2, <2>3, <2>4, <2>5 DEF Exec
<1>5. CASE c \in ZCmds
  <2>1. c.vol \in Vol /\ c.op = "zdestroy"
    BY <1>5 DEF ZCmds
  <2>2. CASE DestroyVol(c.vol, r)
    BY <2>1, <2>2, DestroyVolType
  <2> QED
    BY <1>3, <2>1, <2>2 DEF Exec
<1>6. CASE c \in SCmds
  <2>1. c.vol \in Vol /\ c.tag \in Tag /\ c.op \in {"snapshot", "dsnap", "reseal", "rollback"}
    BY <1>6 DEF SCmds
  <2>2. CASE Snapshot(c.vol, c.tag, p.id, r)
    BY <1>2, <2>1, <2>2, SnapshotType
  <2>3. CASE DestroySnap(c.vol, c.tag, r)
    BY <2>1, <2>3, DestroySnapType
  <2>4. CASE RollbackVol(c.vol, c.tag, r)
    BY <2>1, <2>4, RollbackType
  <2>5. CASE Unchanged
    BY <1>0, <2>5
  <2> QED
    BY <1>3, <2>1, <2>2, <2>3, <2>4, <2>5 DEF Exec
<1>7. CASE c \in CCmds
  <2>1. c.vol \in Vol /\ c.tag \in Tag /\ c.new \in Vol /\ c.op = "zclone"
    BY <1>7 DEF CCmds
  <2>2. CASE CloneVol(c.vol, c.tag, c.new, p.id, r)
    BY <2>1, <2>2, CloneVolType
  <2> QED
    BY <1>3, <2>1, <2>2 DEF Exec
<1>8. CASE c \in DCmds
  <2>1. c.vm \in Name /\ c.new \in Name /\ c.op = "virtclone" /\ \E m \in Name : c.files = DisksFor(m)
    BY <1>8 DEF DCmds
  <2>2. PICK m \in Name : c.files = DisksFor(m)
    BY <2>1
  <2>3. CASE VirtClone(c.vm, c.new, c.files, r)
    <3>1. VirtClone(c.vm, c.new, DisksFor(m), r)
      BY <2>2, <2>3
    <3> QED
      BY <1>1, <2>1, <3>1, VirtCloneType
  <2> QED
    BY <1>3, <2>1, <2>3 DEF Exec
<1>9. CASE c = NoCmd
  <2>1. c.op = "none"
    BY <1>9 DEF NoCmd
  <2> QED
    BY <1>3, <2>1 DEF Exec
<1> QED
  BY <1>4, <1>5, <1>6, <1>7, <1>8, <1>9 DEF Cmds, Undos, SCmds

-----------------------------------------------------------------------------
(* The plans that the verbs make.                                          *)

LEMMA StepsType ==
  ASSUME NEW cs \in Seq(Cmds)
  PROVE  /\ Steps(cs) \in Seq(StepRec) /\ Len(Steps(cs)) = Len(cs)
         /\ \A i \in 1..Len(Steps(cs)) : Steps(cs)[i].do = cs[i] /\ Steps(cs)[i].undo = NoCmd
<1>1. \A i \in 1..Len(cs) : Step(cs[i], NoCmd) \in StepRec
  BY DEF Step, StepRec, Undos
<1>2. Steps(cs) = [i \in 1..Len(cs) |-> Step(cs[i], NoCmd)]
  BY DEF Steps
<1> QED
  BY <1>1, <1>2 DEF Step

\* Every disk of a row is in its list.
LEMMA Listed ==
  ASSUME NEW r, r.disks = Kind
  PROVE  DiskList(r) \in Seq(Kind) /\ DiskList(r) # <<>> /\ \A k \in Kind : \E i \in DOMAIN DiskList(r) : DiskList(r)[i] = k
<1> DEFINE T == r.disks \ {"root"}
           t == SetToSeq(T)
<1>1. IsFiniteSet(T) /\ T \in SUBSET Kind /\ "root" \in Kind
  BY HostAssumption, FS_Subset
<1>2. t \in Seq(T) /\ \A x \in T : \E i \in DOMAIN t : t[i] = x
  BY <1>1, InARow
<1>3. t \in Seq(Kind)
  BY <1>1, <1>2
<1>4. DiskList(r) = <<"root">> \o t
  BY DEF DiskList
<1>5. <<"root">> \in Seq(Kind) /\ Len(<<"root">>) = 1 /\ <<"root">>[1] = "root"
  BY <1>1
<1>6. ASSUME NEW k \in Kind PROVE \E i \in DOMAIN DiskList(r) : DiskList(r)[i] = k
  <2> HIDE DEF t
  <2>1. CASE k = "root"
    <3>1. 1 \in DOMAIN DiskList(r) /\ DiskList(r)[1] = "root"
      BY <1>3, <1>4, <1>5
    <3> QED
      BY <3>1, <2>1
  <2>2. CASE k # "root"
    <3>1. PICK i \in DOMAIN t : t[i] = k
      BY <1>2, <2>2
    <3>2. 1 + i \in DOMAIN DiskList(r) /\ DiskList(r)[1 + i] = t[i]
      BY <1>3, <1>4, <1>5
    <3> QED
      BY <3>1, <3>2
  <2> QED
    BY <2>1, <2>2
<1> HIDE DEF t
<1>7. DiskList(r) \in Seq(Kind) /\ Len(DiskList(r)) = 1 + Len(t)
  BY <1>3, <1>4, <1>5
<1> QED
  BY <1>6, <1>7

\* One piece for each disk, one after the other.
Chained(r, P) == FlattenSeq([i \in DOMAIN DiskList(r) |-> P[DiskList(r)[i]]])

LEMMA Pieces ==
  ASSUME NEW r, r.disks = Kind, NEW S, NEW P \in [Kind -> Seq(S)]
  PROVE  /\ Chained(r, P) \in Seq(S)
         /\ \A i \in DOMAIN Chained(r, P) : \E k \in Kind : \E l \in DOMAIN P[k] : Chained(r, P)[i] = P[k][l]
         /\ \A k \in Kind : \A l \in DOMAIN P[k] : \E i \in DOMAIN Chained(r, P) : Chained(r, P)[i] = P[k][l]
<1> DEFINE ds == DiskList(r)
           ss == [i \in DOMAIN ds |-> P[ds[i]]]
<1>1. ds \in Seq(Kind) /\ ds # <<>> /\ \A k \in Kind : \E i \in DOMAIN ds : ds[i] = k
  BY Listed
<1> HIDE DEF ds
<1>2. ss \in Seq(Seq(S)) /\ ss # <<>> /\ DOMAIN ss = DOMAIN ds
  <2>1. Len(ds) \in Nat /\ Len(ds) # 0 /\ DOMAIN ds = 1..Len(ds)
    BY <1>1
  <2>2. \A i \in 1..Len(ds) : P[ds[i]] \in Seq(S)
    BY <1>1
  <2>3. ss \in [1..Len(ds) -> Seq(S)]
    BY <2>1, <2>2
  <2>4. DOMAIN ss = DOMAIN ds
    OBVIOUS
  <2> HIDE DEF ss
  <2>5. ss \in Seq(Seq(S))
    BY <2>1, <2>3, SeqDef
  <2>6. Len(ss) # 0
    BY <2>1, <2>3, <2>5
  <2> QED
    BY <2>4, <2>5, <2>6
<1>3. \A j \in DOMAIN ss : ds[j] \in Kind /\ ss[j] = P[ds[j]]
  BY <1>1
<1> HIDE DEF ss
<1> DEFINE all == FlattenSeq(ss)
<1>4. /\ all \in Seq(S)
      /\ \A i \in DOMAIN all : \E j \in DOMAIN ss : \E l \in DOMAIN ss[j] : all[i] = ss[j][l]
      /\ \A j \in DOMAIN ss : \A l \in DOMAIN ss[j] : \E i \in DOMAIN all : all[i] = ss[j][l]
  BY <1>2, Flattened
<1> HIDE DEF all
<1>5. ASSUME NEW i \in DOMAIN all PROVE \E k \in Kind : \E l \in DOMAIN P[k] : all[i] = P[k][l]
  BY <1>3, <1>4
<1>6. ASSUME NEW k \in Kind, NEW l \in DOMAIN P[k] PROVE \E i \in DOMAIN all : all[i] = P[k][l]
  <2>1. PICK j \in DOMAIN ss : ds[j] = k
    BY <1>1, <1>2
  <2> QED
    BY <2>1, <1>3, <1>4
<1>7. Chained(r, P) = all
  BY DEF Chained, all, ss, ds
<1> QED
  BY <1>4, <1>5, <1>6, <1>7

\* planCloneFrom: the steps of a clone have the shape that the proof relies on.
LEMMA CloneStepsType ==
  ASSUME NEW r, r.disks = Kind, NEW n \in Name, NEW new \in Name, NEW sealed \in BOOLEAN
  PROVE  LET steps == CloneSteps(n, r, new, sealed) IN
         /\ steps \in Seq(StepRec) /\ steps # <<>>
         /\ steps[Len(steps)] = LastStep(n, new)
         /\ \A i \in 1..(Len(steps) - 1) : steps[i] \in DiskStep(n, new)
         /\ \A k \in Kind : \E i \in 1..(Len(steps) - 1) :
              IsZclone(steps[i]) /\ steps[i].do.vol = V(n, k) /\ steps[i].do.new = V(new, k)
<1> DEFINE Z(k, t) == Step(CCmd(V(n, k), t, V(new, k)), ZCmd("zdestroy", V(new, k)))
           T(k) == Step(SCmd("snapshot", V(n, k), new), SCmd("dsnap", V(n, k), new))
           P == [k \in Kind |-> IF sealed /\ HasSnap(V(n, k), "golden") THEN <<Z(k, "golden")>> ELSE <<T(k), Z(k, new)>>]
           ds == DiskList(r)
           all == FlattenSeq([i \in DOMAIN ds |-> P[ds[i]]])
           S == DiskStep(n, new)
<1>1. \A k \in Kind : Z(k, "golden") \in S /\ Z(k, new) \in S /\ T(k) \in S
  BY DEF DiskStep
<1>2. P \in [Kind -> Seq(S)]
  <2> HIDE DEF Z, T, S
  <2> QED
    BY <1>1
<1>3. /\ all \in Seq(S)
      /\ \A k \in Kind : \A l \in DOMAIN P[k] : \E i \in DOMAIN all : all[i] = P[k][l]
  <2> HIDE DEF P, S, all
  <2>1. Chained(r, P) = all
    BY DEF Chained, all, ds
  <2> QED
    BY <1>2, <2>1, Pieces
<1>4. \A i \in DOMAIN ds : ds[i] \in Kind
  BY Listed
<1>5. CloneSteps(n, r, new, sealed) = all \o <<LastStep(n, new)>>
  <2>1. ForDisks(r, LAMBDA k :
            IF sealed /\ HasSnap(V(n, k), "golden") THEN <<Z(k, "golden")>> ELSE <<T(k), Z(k, new)>>) = all
    <3>1. [i \in DOMAIN ds |-> IF sealed /\ HasSnap(V(n, ds[i]), "golden") THEN <<Z(ds[i], "golden")>>
                               ELSE <<T(ds[i]), Z(ds[i], new)>>]
          = [i \in DOMAIN ds |-> P[ds[i]]]
      <4> HIDE DEF ds, Z, T
      <4> QED
        BY <1>4
    <3> QED
      BY <3>1 DEF ForDisks
  <2>2. {V(new, k) : k \in r.disks} = DisksFor(new)
    BY DEF DisksFor
  <2> QED
    BY <2>1, <2>2 DEF CloneSteps, LastStep
<1>6. S \in SUBSET StepRec /\ LastStep(n, new) \in StepRec
  <2>1. \A k \in Kind : V(n, k) \in Vol /\ V(new, k) \in Vol
    BY DEF V, Vol
  <2>2. new \in Tag /\ "golden" \in Tag
    BY DEF Tag
  <2>3. ASSUME NEW k \in Kind, NEW t \in {"golden", new} PROVE Z(k, t) \in StepRec
    BY <2>1, <2>2 DEF Step, CCmd, ZCmd, StepRec, Cmds, Undos, CCmds, ZCmds
  <2>4. ASSUME NEW k \in Kind PROVE T(k) \in StepRec
    BY <2>1, <2>2 DEF Step, SCmd, StepRec, Cmds, Undos, SCmds
  <2>5. LastStep(n, new) \in StepRec
    BY DEF LastStep, Step, DCmd, StepRec, Cmds, Undos, DCmds
  <2> QED
    BY <2>3, <2>4, <2>5 DEF DiskStep
<1> DEFINE steps == CloneSteps(n, r, new, sealed)
<1>7. /\ all \in Seq(StepRec) /\ <<LastStep(n, new)>> \in Seq(StepRec)
      /\ Len(<<LastStep(n, new)>>) = 1 /\ <<LastStep(n, new)>>[1] = LastStep(n, new)
  <2> HIDE DEF all, S
  <2> QED
    BY <1>3, <1>6
<1>8. /\ steps \in Seq(StepRec) /\ Len(steps) = Len(all) + 1 /\ Len(all) \in Nat
      /\ steps[Len(all) + 1] = LastStep(n, new)
      /\ \A i \in 1..Len(all) : steps[i] = all[i]
  <2> HIDE DEF all, steps
  <2> QED
    BY <1>5, <1>7, ConcatProperties DEF steps
<1>9. ASSUME NEW k \in Kind
      PROVE  \E i \in 1..Len(all) : IsZclone(all[i]) /\ all[i].do.vol = V(n, k) /\ all[i].do.new = V(new, k)
  <2>1. PICK t \in {"golden", new} : \E l \in DOMAIN P[k] : P[k][l] = Z(k, t)
    <3>1. CASE sealed /\ HasSnap(V(n, k), "golden")
      <4>1. P[k] = <<Z(k, "golden")>>
        BY <3>1
      <4> HIDE DEF P, Z
      <4> QED
        BY <4>1
    <3>2. CASE ~(sealed /\ HasSnap(V(n, k), "golden"))
      <4>1. P[k] = <<T(k), Z(k, new)>>
        BY <3>2
      <4>2. 2 \in DOMAIN P[k] /\ P[k][2] = Z(k, new)
        <5> HIDE DEF P, Z, T
        <5> QED
          BY <4>1
      <4> QED
        BY <4>2
    <3> QED
      BY <3>1, <3>2
  <2>2. PICK l \in DOMAIN P[k] : P[k][l] = Z(k, t)
    BY <2>1
  <2>3. PICK i \in DOMAIN all : all[i] = Z(k, t)
    <3> HIDE DEF all, P, Z
    <3> QED
      BY <2>2, <1>3
  <2>4. IsZclone(Z(k, t)) /\ Z(k, t).do.vol = V(n, k) /\ Z(k, t).do.new = V(new, k)
    BY DEF IsZclone, Step, CCmd
  <2>5. i \in 1..Len(all)
    <3> HIDE DEF all
    <3> QED
      BY <1>3
  <2> HIDE DEF Z, all
  <2> QED
    BY <2>3, <2>4, <2>5
<1>10. \A i \in 1..Len(all) : all[i] \in S
  <2> HIDE DEF all, S
  <2> QED
    BY <1>3
<1>11. Len(steps) - 1 = Len(all) /\ steps # <<>> /\ steps[Len(steps)] = LastStep(n, new)
  <2> HIDE DEF all, steps
  <2> QED
    BY <1>8
<1>12. ASSUME NEW k \in Kind PROVE \E i \in 1..(Len(steps) - 1) :
              IsZclone(steps[i]) /\ steps[i].do.vol = V(n, k) /\ steps[i].do.new = V(new, k)
  <2> HIDE DEF all, steps
  <2>1. PICK i \in 1..Len(all) : IsZclone(all[i]) /\ all[i].do.vol = V(n, k) /\ all[i].do.new = V(new, k)
    BY <1>9
  <2>2. steps[i] = all[i]
    BY <1>8
  <2> QED
    BY <2>1, <2>2, <1>11
<1>13. ASSUME NEW i \in 1..(Len(steps) - 1) PROVE steps[i] \in DiskStep(n, new)
  <2> HIDE DEF all, steps, S
  <2> QED
    BY <1>8, <1>10, <1>11 DEF S
<1> HIDE DEF steps
<1>14. steps \in Seq(StepRec)
  BY <1>8
<1> QED
  BY <1>11, <1>12, <1>13, <1>14 DEF steps

\* What the other verbs ask for.
LEMMA PlainPlan ==
  ASSUME NEW p, NEW cs \in Seq(Cmds), \A i \in 1..Len(cs) : Touching(p, cs[i])
  PROVE  /\ Steps(cs) \in Seq(StepRec)
         /\ \A i \in 1..Len(Steps(cs)) : Steps(cs)[i].undo = NoCmd /\ Touching(p, Steps(cs)[i].do)
  BY StepsType

Fired(kind, n, new, steps) ==
  [Idle EXCEPT !.kind = kind, !.vm = n, !.new = new, !.steps = steps, !.k = 1, !.id = fired + 1, !.phase = "run"]

\* A plan that is fired is a plan, and the only one of its number.
LEMMA FireKeeps ==
  ASSUME IInv, NEW p \in Proc, NEW kind \in {"start", "forceoff", "delete", "reconcile", "clone", "goldenclone", "golden", "rollback"},
         NEW n \in Name, NEW new \in Name, NEW steps \in Seq(StepRec), Fire(p, kind, n, new, steps),
         IsClone(Fired(kind, n, new, steps)) => CloneShape(Fired(kind, n, new, steps)),
         ~IsClone(Fired(kind, n, new, steps)) =>
           \A i \in 1..Len(steps) : steps[i].undo = NoCmd /\ Touching(Fired(kind, n, new, steps), steps[i].do),
         kind \in {"delete", "reconcile"} => "delete" \in Offered,
         kind = "rollback" => "rollback" \in Offered
  PROVE  IInv'
<1>0. PICK q : q = Fired(kind, n, new, steps)
  OBVIOUS
<1>1. /\ plan[p].phase = "idle" /\ fired < MaxFire /\ fired' = fired + 1
      /\ plan' = [plan EXCEPT ![p] = q]
      /\ UNCHANGED <<host, rows, reg, faults, others>>
  BY <1>0 DEF Fire, Fired
<1>2. /\ q.kind = kind /\ q.vm = n /\ q.new = new /\ q.steps = steps /\ q.k = 1 /\ q.id = fired + 1
      /\ q.phase = "run" /\ q.tries = 0 /\ q.outcome = "none" /\ q.at = 0 /\ q.broken = {}
  BY <1>0 DEF Fired, Idle
<1>3. fired \in 0..MaxFire /\ MaxFire \in Nat /\ Retries \in Nat
  BY VerbsAssumption DEF IInv, Counters
<1>4. q \in PlanRec
  <2>1. q = [kind |-> kind, vm |-> n, new |-> new, steps |-> steps, k |-> 1, tries |-> 0, id |-> fired + 1,
             phase |-> "run", outcome |-> "none", at |-> 0, broken |-> {}]
    BY <1>0 DEF Fired, Idle
  <2>2. fired + 1 \in 0..MaxFire /\ 0 \in 0..Retries /\ 1 \in Nat /\ 0 \in Nat
    BY <1>1, <1>3
  <2> QED
    BY <2>1, <2>2 DEF PlanRec
<1>5. PlanOK(q)'
  <2>1. Len(steps) \in Nat /\ 1 <= Len(steps) + 1
    OBVIOUS
  <2>2. q.k <= Len(q.steps) + 1 /\ q.id \in 1..fired'
    BY <1>1, <1>2, <1>3, <2>1
  <2> QED
    BY <1>0, <1>1, <1>2, <2>2 DEF PlanOK, Busy
<1>6. PlansOK'
  <2>1. plan' \in [Proc -> PlanRec]
    BY <1>1, <1>4 DEF IInv, PlansOK
  <2>2. ASSUME NEW o \in Proc PROVE PlanOK(plan[o])'
    <3>1. CASE o = p
      BY <3>1, <1>1, <1>5 DEF IInv, PlansOK, PlanOK
    <3>2. CASE o # p
      <4>1. plan'[o] = plan[o] /\ PlanOK(plan[o])
        BY <3>2, <1>1 DEF IInv, PlansOK
      <4>2. \A i : i \in 1..fired => i \in 1..fired'
        BY <1>1, <1>3
      <4> QED
        BY <4>1, <4>2 DEF PlanOK
    <3> QED
      BY <3>1, <3>2
  <2>3. ASSUME NEW a \in Proc, NEW b \in Proc, Busy(plan'[a]), plan'[a].id = plan'[b].id, a # b PROVE FALSE
    <3>0. \A o \in Proc : o # p => plan'[o] = plan[o]
      BY <1>1 DEF IInv, PlansOK
    <3>1. plan'[p] = q
      BY <1>1 DEF IInv, PlansOK
    <3>2. CASE a # p /\ b # p
      BY <3>0, <3>2, <2>3 DEF IInv, PlansOK
    <3>3. CASE a = p
      <4>1. plan[b].id = fired + 1 /\ plan[b].id \in 0..MaxFire /\ PlanOK(plan[b])
        BY <3>0, <3>1, <3>3, <2>3, <1>2 DEF IInv, PlansOK, PlanRec
      <4>2. ~Busy(plan[b])
        <5>1. fired + 1 \notin 1..fired
          BY <1>3
        <5> QED
          BY <4>1, <5>1 DEF PlanOK
      <4> QED
        BY <4>1, <4>2, <1>3 DEF PlanOK, Busy
    <3>4. CASE b = p
      <4>1. plan[a].id = fired + 1 /\ PlanOK(plan[a]) /\ Busy(plan[a])
        BY <3>0, <3>1, <3>4, <2>3, <1>2 DEF IInv, PlansOK
      <4>2. fired + 1 \notin 1..fired
        BY <1>3
      <4> QED
        BY <4>1, <4>2 DEF PlanOK
    <3> QED
      BY <3>2, <3>3, <3>4
  <2> QED
    BY <2>1, <2>2, <2>3 DEF PlansOK
<1>7. Reported'
  <2> SUFFICES ASSUME NEW o \in Proc, (IsClone(plan[o]) /\ plan[o].phase = "unwind")',
                      NEW i \in (plan[o].k..(plan[o].at - 1))',
                      Remains(plan[o].steps[i].undo, plan[o].id)'
               PROVE  (plan[o].steps[i].undo \in plan[o].broken)'
    BY DEF Reported
  <2>1. o # p
    BY <1>1, <1>2 DEF IInv, PlansOK
  <2>2. plan'[o] = plan[o]
    BY <2>1, <1>1 DEF IInv, PlansOK
  <2> QED
    BY <2>2, <1>1 DEF IInv, Reported, Remains, host
<1>8. HostOK' /\ RowsOK'
  BY <1>1 DEF IInv, HostOK, ZfsOK, DomOK, RowsOK, host
<1>9. Counters'
  BY <1>1, <1>3 DEF IInv, Counters
<1> QED
  BY <1>6, <1>7, <1>8, <1>9 DEF IInv

LEMMA FireAnyKeeps == ASSUME IInv, NEW p \in Proc, NEW n \in Name, FireAny(p, n) PROVE IInv'
<1> DEFINE Made(kind, new, steps) == Fired(kind, n, new, steps)
<1>0. /\ "root" \in Kind /\ V(n, "root") \in Vol /\ \A k \in Kind : V(n, k) \in Vol
  BY HostAssumption DEF V, Vol
<1>00. ASSUME NEW kind, NEW new, NEW steps
       PROVE  /\ Made(kind, new, steps).kind = kind /\ Made(kind, new, steps).vm = n /\ Made(kind, new, steps).new = new
              /\ Made(kind, new, steps).steps = steps
  BY DEF Fired, Idle
<1>1. ASSUME NEW kind \in {"start", "forceoff", "delete", "reconcile", "golden", "rollback"}, NEW cs \in Seq(Cmds),
             \A i \in 1..Len(cs) : Touching(Made(kind, n, Steps(cs)), cs[i]),
             Fire(p, kind, n, n, Steps(cs)),
             kind \in {"delete", "reconcile"} => "delete" \in Offered,
             kind = "rollback" => "rollback" \in Offered
      PROVE  IInv'
  <2> DEFINE q == Made(kind, n, Steps(cs))
  <2>1. /\ Steps(cs) \in Seq(StepRec)
        /\ \A i \in 1..Len(Steps(cs)) : Steps(cs)[i].undo = NoCmd /\ Touching(q, Steps(cs)[i].do)
    BY <1>1, PlainPlan
  <2>2. ~IsClone(q)
    BY <1>00 DEF IsClone
  <2> QED
    BY <1>1, <2>1, <2>2, FireKeeps
<1>2. CASE FireStart(p, n)
  <2>1. <<Cmd("start", n)>> \in Seq(Cmds) /\ Len(<<Cmd("start", n)>>) = 1 /\ <<Cmd("start", n)>>[1] = Cmd("start", n)
    BY DEF Cmd, Cmds, VmCmds
  <2>2. Fire(p, "start", n, n, Steps(<<Cmd("start", n)>>))
    BY <1>2 DEF FireStart
  <2>3. Touching(Made("start", n, Steps(<<Cmd("start", n)>>)), Cmd("start", n))
    BY DEF Touching, Cmd
  <2> DEFINE cs == <<Cmd("start", n)>>
  <2>4. \A i \in 1..Len(cs) : Touching(Made("start", n, Steps(cs)), cs[i])
    BY <2>1, <2>3
  <2> HIDE DEF Made, cs
  <2>5. Fire(p, "start", n, n, Steps(cs)) /\ cs \in Seq(Cmds)
    BY <2>1, <2>2 DEF cs
  <2> QED
    BY <1>1, <2>4, <2>5
<1>3. CASE FireForceOff(p, n)
  <2>1. <<Cmd("destroy", n)>> \in Seq(Cmds) /\ Len(<<Cmd("destroy", n)>>) = 1 /\ <<Cmd("destroy", n)>>[1] = Cmd("destroy", n)
    BY DEF Cmd, Cmds, VmCmds
  <2>2. Fire(p, "forceoff", n, n, Steps(<<Cmd("destroy", n)>>))
    BY <1>3 DEF FireForceOff
  <2>3. Touching(Made("forceoff", n, Steps(<<Cmd("destroy", n)>>)), Cmd("destroy", n))
    BY DEF Touching, Cmd
  <2> DEFINE cs == <<Cmd("destroy", n)>>
  <2>4. \A i \in 1..Len(cs) : Touching(Made("forceoff", n, Steps(cs)), cs[i])
    BY <2>1, <2>3
  <2> HIDE DEF Made, cs
  <2>5. Fire(p, "forceoff", n, n, Steps(cs)) /\ cs \in Seq(Cmds)
    BY <2>1, <2>2 DEF cs
  <2> QED
    BY <1>1, <2>4, <2>5
<1>4. CASE FireDelete(p, n)
  <2> DEFINE r == rows[n]
             a == When(r.state # "off", <<Cmd("destroy", n)>>)
             b == When(r.pers, <<Cmd("undefine", n)>>)
             c == When(r.ds, <<ZCmd("zdestroy", V(n, "root"))>>)
             d == When(r.ds /\ "data" \in Kind /\ V(n, "data") \in vols, <<ZCmd("zdestroy", V(n, "data"))>>)
  <2>1. a \in Seq(Cmds) /\ b \in Seq(Cmds) /\ c \in Seq(Cmds) /\ d \in Seq(Cmds)
    <3>1. Cmd("destroy", n) \in Cmds /\ Cmd("undefine", n) \in Cmds /\ ZCmd("zdestroy", V(n, "root")) \in Cmds
      BY <1>0 DEF Cmd, ZCmd, Cmds, VmCmds, ZCmds
    <3>2. "data" \in Kind => ZCmd("zdestroy", V(n, "data")) \in Cmds
      BY <1>0 DEF ZCmd, Cmds, ZCmds
    <3> QED
      BY <3>1, <3>2 DEF When
  <2> DEFINE cs == a \o b \o c \o d
  <2>2. cs \in Seq(Cmds) /\ c \in Seq(Cmds)
    <3> HIDE DEF a, b, c, d
    <3> QED
      BY <2>1
  <2>3. \/ Fire(p, "reconcile", n, n, Steps(c)) /\ "delete" \in Offered
        \/ Fire(p, "delete", n, n, Steps(cs)) /\ "delete" \in Offered
    BY <1>4 DEF FireDelete, ReconcileSteps, DeleteSteps
  <2>4. ASSUME NEW kind \in {"delete", "reconcile"}, NEW steps, NEW x PROVE Touching(Made(kind, n, steps), x)
    BY <1>00 DEF Touching
  <2> HIDE DEF Made, cs, c
  <2> QED
    BY <1>1, <2>2, <2>3, <2>4
<1>5. CASE FireGolden(p, n)
  <2> DEFINE r == rows[n]
             P == [k \in Kind |-> <<SCmd("reseal", V(n, k), "golden"), SCmd("snapshot", V(n, k), "golden")>>]
             S == {SCmd(op, V(n, k), "golden") : op \in {"reseal", "snapshot"}, k \in Kind}
             all == Chained(r, P)
             cs == <<Cmd("shutdown", n)>> \o all
  <2>1. r.disks = Kind
    BY <1>5 DEF FireGolden, Synthetic, IInv, RowsOK
  <2>2. P \in [Kind -> Seq(S)]
    <3>1. \A k \in Kind : SCmd("reseal", V(n, k), "golden") \in S /\ SCmd("snapshot", V(n, k), "golden") \in S
      OBVIOUS
    <3> HIDE DEF S
    <3> QED
      BY <3>1
  <2>3. all \in Seq(S)
    <3> HIDE DEF P, S
    <3> QED
      BY <2>1, <2>2, Pieces
  <2>4. ForDisks(r, LAMBDA k : <<SCmd("reseal", V(n, k), "golden"), SCmd("snapshot", V(n, k), "golden")>>) = all
    <3> DEFINE ds == DiskList(r)
    <3>1. \A i \in DOMAIN ds : ds[i] \in Kind
      BY <2>1, Listed
    <3>2. [i \in DOMAIN ds |-> <<SCmd("reseal", V(n, ds[i]), "golden"), SCmd("snapshot", V(n, ds[i]), "golden")>>]
          = [i \in DOMAIN ds |-> P[ds[i]]]
      <4> HIDE DEF ds
      <4> QED
        BY <3>1
    <3> QED
      BY <3>2 DEF ForDisks, Chained
  <2>5. Fire(p, "golden", n, n, Steps(cs))
    BY <1>5, <2>4 DEF FireGolden, GoldenSteps
  <2>6. S \in SUBSET Cmds /\ Cmd("shutdown", n) \in Cmds
    BY <1>0 DEF SCmd, Cmd, Cmds, VmCmds, SCmds, Tag
  <2>7. <<Cmd("shutdown", n)>> \in Seq(Cmds) /\ all \in Seq(Cmds)
        /\ Len(<<Cmd("shutdown", n)>>) = 1 /\ <<Cmd("shutdown", n)>>[1] = Cmd("shutdown", n)
    <3> HIDE DEF S, all
    <3> QED
      BY <2>3, <2>6
  <2>8. ASSUME NEW i \in 1..Len(cs) PROVE cs[i] = Cmd("shutdown", n) \/ cs[i] \in S
    <3> HIDE DEF S, all
    <3>1. Len(cs) = 1 + Len(all) /\ Len(all) \in Nat
      BY <2>7, ConcatProperties
    <3>2. CASE i = 1
      <4>1. cs[i] = <<Cmd("shutdown", n)>>[1]
        BY <3>2, <2>7, ConcatProperties
      <4> QED
        BY <4>1, <2>7
    <3>3. CASE i # 1
      <4>1. cs[i] = all[i - 1] /\ i - 1 \in 1..Len(all)
        BY <3>1, <3>3, <2>7, ConcatProperties
      <4> QED
        BY <4>1, <2>3
    <3> QED
      BY <3>2, <3>3
  <2>9. cs \in Seq(Cmds)
    <3> HIDE DEF all
    <3> QED
      BY <2>7
  <2>10. \A i \in 1..Len(cs) : Touching(Made("golden", n, Steps(cs)), cs[i])
    <3> HIDE DEF cs, Made
    <3> QED
      BY <2>8 DEF Touching, Cmd, SCmd
  <2> HIDE DEF Made, cs
  <2> QED
    BY <1>1, <2>5, <2>9, <2>10
<1>6. ASSUME NEW new \in Name, NEW sealed \in BOOLEAN, FireClone(p, n, new, sealed) PROVE IInv'
  <2> DEFINE kind == IF sealed THEN "goldenclone" ELSE "clone"
             steps == CloneSteps(n, rows[n], new, sealed)
             q == Made(kind, new, steps)
  <2>1. rows[n].disks = Kind /\ new # n /\ Fire(p, kind, n, new, steps)
    BY <1>6 DEF FireClone, Synthetic, IInv, RowsOK
  <2>2. /\ steps \in Seq(StepRec) /\ steps # <<>>
        /\ steps[Len(steps)] = LastStep(n, new)
        /\ \A i \in 1..(Len(steps) - 1) : steps[i] \in DiskStep(n, new)
        /\ \A k \in Kind : \E i \in 1..(Len(steps) - 1) :
             IsZclone(steps[i]) /\ steps[i].do.vol = V(n, k) /\ steps[i].do.new = V(new, k)
    BY <2>1, CloneStepsType
  <2>3. q.kind = kind /\ q.vm = n /\ q.new = new /\ q.steps = steps
    BY <1>00
  <2>4. CloneShape(q)
    <3> HIDE DEF steps, q
    <3> QED
      BY <2>1, <2>2, <2>3 DEF CloneShape
  <2>5. IsClone(q) /\ kind \in {"clone", "goldenclone"}
    BY <2>3 DEF IsClone
  <2> HIDE DEF steps
  <2> QED
    BY <2>1, <2>2, <2>4, <2>5, FireKeeps
<1>7. ASSUME NEW s \in rows[n].snaps, FireRollback(p, n, s) PROVE IInv'
  <2> DEFINE c == SCmd("rollback", V(n, "root"), s.tag)
  <2>1. s.tag \in Tag
    BY <1>7 DEF IInv, RowsOK, RowRec, SnapRec
  <2>2. c \in Cmds
    BY <2>1, <1>0 DEF SCmd, Cmds, SCmds
  <2>3. <<c>> \in Seq(Cmds) /\ Len(<<c>>) = 1 /\ <<c>>[1] = c
    BY <2>2
  <2>4. Fire(p, "rollback", n, n, Steps(<<c>>)) /\ "rollback" \in Offered
    BY <1>7 DEF FireRollback
  <2>5. Touching(Made("rollback", n, Steps(<<c>>)), c)
    BY <1>00 DEF Touching, SCmd
  <2> DEFINE cs == <<c>>
  <2>6. \A i \in 1..Len(cs) : Touching(Made("rollback", n, Steps(cs)), cs[i])
    <3> HIDE DEF Made, c
    <3> QED
      BY <2>3, <2>5
  <2>7. Fire(p, "rollback", n, n, Steps(cs)) /\ cs \in Seq(Cmds)
    BY <2>3, <2>4
  <2> HIDE DEF Made, cs
  <2> QED
    BY <1>1, <2>4, <2>6, <2>7
<1> QED
  BY <1>2, <1>3, <1>4, <1>5, <1>6, <1>7 DEF FireAny

-----------------------------------------------------------------------------
(* The steps.                                                              *)

\* Nothing that is x's came to be.
NoneNew(x) ==
  /\ \A v \in Vol : v \in vols' /\ maker'[v] = x => v \in vols /\ maker[v] = x
  /\ \A s \in snaps' : s.by = x => s \in snaps

LEMMA NotRemade ==
  ASSUME NEW x, NEW u \in Undos, NoneNew(x), Remains(u, x)'
  PROVE  Remains(u, x)
<1>1. u.op = "zdestroy" => u.vol \in Vol
  BY DEF Undos, ZCmds, NoCmd
<1> QED
  BY <1>1 DEF NoneNew, Remains

\* A command makes things of its own plan's only, and an undo makes none.
LEMMA ExecNew ==
  ASSUME HostOK, NEW c \in Cmds \cup Undos, NEW p \in PlanRec, NEW r, Exec(c, p, r),
         NEW x \in 1..MaxFire, x # p.id \/ c \in Undos
  PROVE  NoneNew(x)
<1>1. CASE UNCHANGED <<vols, snaps, maker>>
  BY <1>1 DEF NoneNew
<1>2. CASE snaps' \in SUBSET snaps /\ UNCHANGED <<vols, maker>>
  BY <1>2 DEF NoneNew
<1>3. CASE c.op = "zdestroy" /\ DestroyVol(c.vol, r)
  <2>1. x # 0
    BY VerbsAssumption
  <2>2. c.vol \in Vol /\ maker \in [Vol -> 0..MaxFire]
    BY <1>3 DEF Cmds, Undos, VmCmds, ZCmds, SCmds, CCmds, DCmds, NoCmd, HostOK, ZfsOK
  <2> QED
    BY <1>1, <1>3, <2>1, <2>2 DEF DestroyVol, NoneNew, Unchanged, host
<1>4. CASE c.op = "snapshot" /\ Snapshot(c.vol, c.tag, p.id, r)
  <2>1. x # p.id
    BY <1>4 DEF Undos, ZCmds, NoCmd
  <2>2. CASE Unchanged
    BY <1>1, <2>2 DEF Unchanged, host
  <2>3. CASE ~Unchanged
    <3>1. /\ snaps' = snaps \cup {[vol |-> c.vol, tag |-> c.tag, at |-> NextAt(c.vol), by |-> p.id]}
          /\ UNCHANGED <<vols, maker>>
      BY <1>4, <2>3 DEF Snapshot
    <3> QED
      BY <3>1, <2>1 DEF NoneNew
  <2> QED
    BY <2>2, <2>3
<1>5. CASE c.op = "zclone" /\ CloneVol(c.vol, c.tag, c.new, p.id, r)
  <2>1. x # p.id
    BY <1>5 DEF Undos, ZCmds, NoCmd
  <2>2. CASE Unchanged
    BY <1>1, <2>2 DEF Unchanged, host
  <2>3. CASE ~Unchanged
    <3>1. vols' = vols \cup {c.new} /\ maker' = [maker EXCEPT ![c.new] = p.id] /\ UNCHANGED snaps
      BY <1>5, <2>3 DEF CloneVol
    <3>2. maker \in [Vol -> 0..MaxFire]
      BY DEF HostOK, ZfsOK
    <3> QED
      BY <3>1, <3>2, <2>1 DEF NoneNew
  <2> QED
    BY <2>2, <2>3
<1>6. CASE DestroySnap(c.vol, c.tag, r)
  BY <1>1, <1>2, <1>6 DEF DestroySnap, Unchanged, host
<1>7. CASE RollbackVol(c.vol, c.tag, r)
  BY <1>1, <1>2, <1>7 DEF RollbackVol, Unchanged, host
<1>8. CASE Start(c.vm, r) \/ Undefine(c.vm, r) \/ Shutdown(c.vm, p.tries > 0, r)
  BY <1>1, <1>8 DEF Start, Undefine, Shutdown, Unchanged, host
<1>9. CASE Destroy(c.vm, r)
  BY <1>1, <1>9 DEF Destroy, PowerOff, Unchanged, host
<1>10. CASE VirtClone(c.vm, c.new, c.files, r)
  BY <1>1, <1>10 DEF VirtClone, Unchanged, host
<1>11. CASE Unchanged
  BY <1>1, <1>11 DEF Unchanged, host
<1>12. CASE Fails(r)
  BY <1>11, <1>12 DEF Fails
<1> QED
  BY <1>3, <1>4, <1>5, <1>6, <1>7, <1>8, <1>9, <1>10, <1>11, <1>12 DEF Exec

\* The faults are counted.
LEMMA ExecFaults ==
  ASSUME faults \in 0..MaxFault, NEW c, NEW p, NEW r, Exec(c, p, r) PROVE faults' \in 0..MaxFault
  BY VerbsAssumption DEF Exec, Fails

\* One plan goes on, the rest stays.
LEMMA Goes ==
  ASSUME IInv, NEW i \in Proc, NEW np \in PlanRec, plan' = [plan EXCEPT ![i] = np],
         \/ np.phase = "idle" /\ np.kind = "none" /\ np.k = 0 /\ np.id = 0 /\ np.steps = <<>>
         \/ /\ Busy(plan[i]) /\ Busy(np)
            /\ np.kind = plan[i].kind /\ np.vm = plan[i].vm /\ np.new = plan[i].new
            /\ np.steps = plan[i].steps /\ np.id = plan[i].id /\ np.k >= 1
            /\ np.phase = "run" => np.k <= Len(np.steps) + 1
            /\ np.phase = "unwind" => np.k <= np.at /\ np.at <= Len(np.steps),
         HostOK', RowsOK', fired' = fired, faults' \in 0..MaxFault, others' \in 0..MaxOther, reg' \in SUBSET Name,
         \A o \in Proc : o # i /\ Busy(plan[o]) => NoneNew(plan[o].id),
         IsClone(np) /\ np.phase = "unwind" =>
           \A j \in np.k..(np.at - 1) : Remains(np.steps[j].undo, np.id)' => np.steps[j].undo \in np.broken
  PROVE  IInv'
<1>1. plan'[i] = np /\ \A o \in Proc : o # i => plan'[o] = plan[o]
  BY DEF IInv, PlansOK
<1>2. PlanOK(np)'
  <2>0. PlanOK(plan[i])
    BY DEF IInv, PlansOK
  <2>1. CASE np.phase = "idle"
    BY <2>1 DEF PlanOK, Busy, IsClone
  <2>2. CASE np.phase # "idle"
    <3>1. /\ np.kind = plan[i].kind /\ np.vm = plan[i].vm /\ np.new = plan[i].new
          /\ np.steps = plan[i].steps /\ np.id = plan[i].id /\ np.k >= 1 /\ Busy(plan[i]) /\ Busy(np)
      BY <2>2 DEF Busy
    <3>2. (IsClone(np) <=> IsClone(plan[i])) /\ (CloneShape(np) <=> CloneShape(plan[i]))
          /\ \A c : Touching(np, c) <=> Touching(plan[i], c)
      BY <3>1 DEF IsClone, CloneShape, Touching
    <3>3. np.phase # "idle"
      BY <2>2
    <3> QED
      BY <2>0, <3>1, <3>2, <3>3 DEF PlanOK, Busy
  <2> QED
    BY <2>1, <2>2
<1>3. PlansOK'
  <2>1. plan' \in [Proc -> PlanRec]
    BY DEF IInv, PlansOK
  <2>2. ASSUME NEW o \in Proc PROVE PlanOK(plan[o])'
    <3>1. CASE o = i
      BY <3>1, <1>1, <1>2 DEF PlanOK
    <3>2. CASE o # i
      <4>1. plan'[o] = plan[o] /\ PlanOK(plan[o])
        BY <3>2, <1>1 DEF IInv, PlansOK
      <4> QED
        BY <4>1 DEF PlanOK
    <3> QED
      BY <3>1, <3>2
  <2>3. ASSUME NEW a \in Proc, NEW b \in Proc, Busy(plan'[a]), plan'[a].id = plan'[b].id PROVE a = b
    <3>1. (np.id = plan[i].id /\ Busy(plan[i])) \/ (~Busy(np) /\ np.id = 0)
      BY DEF Busy
    <3>2. \A o \in Proc : Busy(plan[o]) => plan[o].id # 0
      <4>1. ASSUME NEW o \in Proc, Busy(plan[o]) PROVE plan[o].id # 0
        <5>1. plan[o].id \in 1..fired
          BY <4>1 DEF IInv, PlansOK, PlanOK
        <5>2. fired \in 0..MaxFire /\ MaxFire \in Nat
          BY VerbsAssumption DEF IInv, Counters
        <5> QED
          BY <5>1, <5>2
      <4> QED
        BY <4>1
    <3>3. \A o, q \in Proc : Busy(plan[o]) /\ plan[o].id = plan[q].id => o = q
      BY DEF IInv, PlansOK
    <3> QED
      BY <2>3, <3>1, <3>2, <3>3, <1>1
  <2> QED
    BY <2>1, <2>2, <2>3 DEF PlansOK
<1>4. Reported'
  <2> SUFFICES ASSUME NEW o \in Proc, (IsClone(plan[o]) /\ plan[o].phase = "unwind")',
                      NEW j \in (plan[o].k..(plan[o].at - 1))',
                      Remains(plan[o].steps[j].undo, plan[o].id)'
               PROVE  (plan[o].steps[j].undo \in plan[o].broken)'
    BY DEF Reported
  <2>1. CASE o = i
    BY <2>1, <1>1 DEF IsClone, Remains
  <2>2. CASE o # i
    <3>1. plan'[o] = plan[o] /\ plan[o] \in PlanRec /\ PlanOK(plan[o])
      BY <2>2, <1>1 DEF IInv, PlansOK
    <3>2. IsClone(plan[o]) /\ plan[o].phase = "unwind" /\ j \in plan[o].k..(plan[o].at - 1)
      BY <3>1 DEF IsClone
    <3>3. j \in 1..Len(plan[o].steps) /\ plan[o].steps \in Seq(StepRec)
      <4>1. plan[o].k >= 1 /\ plan[o].at <= Len(plan[o].steps) /\ plan[o].steps \in Seq(StepRec)
            /\ plan[o].k \in Nat /\ plan[o].at \in Nat
        BY <3>1, <3>2 DEF PlanOK, PlanRec, Busy
      <4> QED
        BY <3>2, <4>1
    <3>4. plan[o].steps[j] \in StepRec
      BY <3>3
    <3>5. plan[o].steps[j].undo \in Undos /\ NoneNew(plan[o].id)
      BY <3>2, <3>4, <2>2 DEF StepRec, Busy
    <3>6. PICK u, x : u = plan[o].steps[j].undo /\ x = plan[o].id
      OBVIOUS
    <3>7. Remains(u, x)'
      BY <3>1, <3>6 DEF Remains
    <3>8. Remains(u, x)
      BY <3>5, <3>6, <3>7, NotRemade
    <3> QED
      BY <3>1, <3>2, <3>6, <3>8 DEF IInv, Reported
  <2> QED
    BY <2>1, <2>2
<1>5. Counters'
  BY DEF IInv, Counters
<1> QED
  BY <1>3, <1>4, <1>5 DEF IInv

\* runPlan, a command.
LEMMA RunCmdKeeps == ASSUME IInv, NEW i \in Proc, RunCmd(i) PROVE IInv'
<1> DEFINE p == plan[i]
           c == p.steps[p.k].do
<1>1. p.phase = "run" /\ p.k <= Len(p.steps) /\ UNCHANGED <<rows, reg, fired, others>>
  BY DEF RunCmd
<1>2. p \in PlanRec /\ PlanOK(p) /\ p.steps \in Seq(StepRec) /\ p.k \in Nat /\ p.k >= 1 /\ p.id \in 1..fired
  BY <1>1 DEF IInv, PlansOK, PlanRec, PlanOK, Busy
<1>3. p.k \in 1..Len(p.steps)
  BY <1>1, <1>2
<1>4. c \in Cmds
  <2>1. p.steps[p.k] \in StepRec
    BY <1>2, <1>3
  <2> QED
    BY <2>1 DEF StepRec
<1>5. PICK reply \in Replies :
        /\ Exec(c, p, reply)
        /\ plan' = [plan EXCEPT ![i] =
             IF reply = "ok" \/ Forgiven(p, reply) THEN [p EXCEPT !.k = @ + 1, !.tries = 0]
             ELSE IF Retry(p, reply) THEN [p EXCEPT !.tries = IF @ < Retries THEN @ + 1 ELSE @]
             ELSE [p EXCEPT !.phase = "unwind", !.at = p.k, !.k = UnwindFrom(p), !.tries = 0]]
  BY DEF RunCmd
<1>6. p.id \in 1..MaxFire
  <2>1. fired \in 0..MaxFire /\ MaxFire \in Nat
    BY VerbsAssumption DEF IInv, Counters
  <2> QED
    BY <1>2, <2>1
<1> DEFINE np == IF reply = "ok" \/ Forgiven(p, reply) THEN [p EXCEPT !.k = @ + 1, !.tries = 0]
             ELSE IF Retry(p, reply) THEN [p EXCEPT !.tries = IF @ < Retries THEN @ + 1 ELSE @]
             ELSE [p EXCEPT !.phase = "unwind", !.at = p.k, !.k = UnwindFrom(p), !.tries = 0]
<1>7. /\ np.kind = p.kind /\ np.vm = p.vm /\ np.new = p.new /\ np.steps = p.steps /\ np.id = p.id
      /\ np.phase \in {"run", "unwind"}
      /\ np.phase = "run" => np.k \in {p.k, p.k + 1}
      /\ np.phase = "unwind" => np.k = p.k /\ np.at = p.k
  BY <1>1, <1>2 DEF PlanRec, UnwindFrom
<1>8. np \in PlanRec
  <2>1. p.k + 1 \in Nat /\ 0 \in 0..Retries /\ (IF p.tries < Retries THEN p.tries + 1 ELSE p.tries) \in 0..Retries
    BY <1>2, VerbsAssumption DEF PlanRec
  <2>2. CASE reply = "ok" \/ Forgiven(p, reply)
    <3>1. np = [p EXCEPT !.k = p.k + 1, !.tries = 0]
      BY <2>2
    <3> HIDE DEF np, p
    <3> QED
      BY <3>1, <2>1, <1>2 DEF PlanRec
  <2>3. CASE ~(reply = "ok" \/ Forgiven(p, reply)) /\ Retry(p, reply)
    <3>1. np = [p EXCEPT !.tries = IF p.tries < Retries THEN p.tries + 1 ELSE p.tries]
      BY <2>3
    <3> HIDE DEF np, p
    <3> QED
      BY <3>1, <2>1, <1>2 DEF PlanRec
  <2>4. CASE ~(reply = "ok" \/ Forgiven(p, reply)) /\ ~Retry(p, reply)
    <3>1. np = [p EXCEPT !.phase = "unwind", !.at = p.k, !.k = p.k, !.tries = 0]
      BY <2>4 DEF UnwindFrom
    <3> HIDE DEF np, p
    <3> QED
      BY <3>1, <2>1, <1>2 DEF PlanRec
  <2> QED
    BY <2>2, <2>3, <2>4
<1>9. HostOK' /\ faults' \in 0..MaxFault
  BY <1>2, <1>4, <1>5, <1>6, ExecType, ExecFaults DEF IInv, Counters
<1>10. ASSUME NEW o \in Proc, o # i, Busy(plan[o]) PROVE NoneNew(plan[o].id)
  <2>1. plan[o].id # p.id
    BY <1>10 DEF IInv, PlansOK
  <2>2. plan[o].id \in 1..MaxFire
    <3>1. plan[o].id \in 1..fired /\ fired \in 0..MaxFire /\ MaxFire \in Nat
      BY <1>10, VerbsAssumption DEF IInv, Counters, PlansOK, PlanOK
    <3> QED
      BY <3>1
  <2>3. HostOK /\ c \in Cmds \cup Undos
    BY <1>4 DEF IInv
  <2> QED
    BY <2>1, <2>2, <2>3, <1>2, <1>5, ExecNew
<1>11. np.k >= 1 /\ np.k <= Len(np.steps) + 1 /\ (np.phase = "unwind" => np.k <= np.at /\ np.at <= Len(np.steps))
  <2> HIDE DEF np, p
  <2> QED
    BY <1>3, <1>7, <1>2
<1>12. \A j \in np.k..(np.at - 1) : np.phase # "unwind"
  <2> HIDE DEF np, p
  <2> QED
    BY <1>7, <1>2
<1>13. /\ RowsOK' /\ fired' = fired /\ others' \in 0..MaxOther /\ reg' \in SUBSET Name
       /\ Busy(p) /\ Busy(np) /\ plan' = [plan EXCEPT ![i] = np]
  <2>1. Busy(p) /\ Busy(np)
    <3> HIDE DEF np
    <3> QED
      BY <1>1, <1>7 DEF Busy
  <2>2. plan' = [plan EXCEPT ![i] = np]
    BY <1>5
  <2> QED
    BY <2>1, <2>2, <1>1 DEF IInv, RowsOK, Counters
<1> HIDE DEF np
<1> QED
  BY <1>7, <1>8, <1>9, <1>10, <1>11, <1>12, <1>13, Goes

\* What is unwound is gone or reported.
LEMMA UnwindKeeps == ASSUME IInv, NEW i \in Proc, Unwind(i) PROVE IInv'
<1> DEFINE p == plan[i]
           c == p.steps[p.k - 1].undo
<1>1. p.phase = "unwind" /\ p.k > 1 /\ UNCHANGED <<rows, reg, fired, others>>
  BY DEF Unwind
<1>2. p \in PlanRec /\ PlanOK(p) /\ p.steps \in Seq(StepRec) /\ p.k \in Nat /\ p.at \in Nat /\ p.id \in 1..fired
      /\ p.k <= p.at /\ p.at <= Len(p.steps)
  BY <1>1 DEF IInv, PlansOK, PlanRec, PlanOK, Busy
<1>3. p.k - 1 \in 1..Len(p.steps) /\ p.k - 1 \in Nat
  BY <1>1, <1>2
<1>4. c \in Undos
  <2>1. p.steps[p.k - 1] \in StepRec
    BY <1>2, <1>3
  <2> QED
    BY <2>1 DEF StepRec
<1>6. p.id \in 1..MaxFire /\ p.id \in 1..fired
  <2>1. fired \in 0..MaxFire /\ MaxFire \in Nat
    BY VerbsAssumption DEF IInv, Counters
  <2> QED
    BY <1>2, <2>1
<1>5. PICK cc, xx : cc = c /\ xx = p.id
  OBVIOUS
<1>7. ASSUME NEW np \in PlanRec, plan' = [plan EXCEPT ![i] = np],
             np.kind = p.kind, np.vm = p.vm, np.new = p.new, np.steps = p.steps, np.id = p.id, np.phase = "unwind",
             np.at = p.at, np.k = p.k - 1, p.broken \in SUBSET np.broken,
             Remains(cc, xx)' => cc \in np.broken,
             HostOK', faults' \in 0..MaxFault, \A x \in 1..MaxFire : NoneNew(x)
      PROVE  IInv'
  <2>1. ASSUME NEW o \in Proc, o # i, Busy(plan[o]) PROVE NoneNew(plan[o].id)
    <3>1. plan[o].id \in 1..fired /\ fired \in 0..MaxFire /\ MaxFire \in Nat
      BY <2>1, VerbsAssumption DEF IInv, Counters, PlansOK, PlanOK
    <3> QED
      BY <3>1, <1>7
  <2>2. ASSUME IsClone(np), NEW j \in np.k..(np.at - 1), Remains(np.steps[j].undo, np.id)'
        PROVE  np.steps[j].undo \in np.broken
    <3>1. CASE j = p.k - 1
      <4>1. np.steps[j].undo = c /\ np.id = p.id
        BY <3>1, <1>7
      <4>2. Remains(cc, xx)'
        BY <2>2, <4>1, <1>5
      <4> QED
        BY <4>1, <4>2, <1>5, <1>7
    <3>2. CASE j # p.k - 1
      <4>1. j \in p.k..(p.at - 1) /\ j \in 1..Len(p.steps)
        <5> HIDE DEF p
        <5> QED
          BY <3>2, <1>7, <1>2, <1>1
      <4>2. p.steps[j] \in StepRec
        BY <4>1, <1>2
      <4>3. PICK u, x : u = p.steps[j].undo /\ x = p.id
        OBVIOUS
      <4>4. u \in Undos /\ NoneNew(x) /\ Remains(u, x)'
        BY <4>2, <4>3, <2>2, <1>6, <1>7 DEF StepRec, Remains
      <4>5. Remains(u, x)
        BY <4>4, NotRemade
      <4>6. IsClone(p)
        BY <2>2, <1>7 DEF IsClone
      <4>7. u \in p.broken
        BY <4>1, <4>3, <4>5, <4>6, <1>1 DEF IInv, Reported
      <4> QED
        BY <4>3, <4>7, <1>7
    <3> QED
      BY <3>1, <3>2
  <2>3. /\ RowsOK' /\ fired' = fired /\ others' \in 0..MaxOther /\ reg' \in SUBSET Name
        /\ Busy(p) /\ Busy(np)
    BY <1>1, <1>7 DEF IInv, RowsOK, Counters, Busy
  <2>4. np.k >= 1 /\ np.k <= np.at /\ np.at <= Len(np.steps)
    <3> HIDE DEF p
    <3> QED
      BY <1>1, <1>2, <1>7
  <2> QED
    BY <1>7, <2>1, <2>2, <2>3, <2>4, Goes
<1>8. CASE c = NoCmd
  <2> DEFINE np == [p EXCEPT !.k = p.k - 1]
  <2>1. plan' = [plan EXCEPT ![i] = np] /\ Unchanged /\ UNCHANGED faults
    <3>1. plan' = [plan EXCEPT ![i].k = @ - 1] /\ Unchanged /\ UNCHANGED faults
      BY <1>8 DEF Unwind
    <3> QED
      BY <3>1 DEF IInv, PlansOK
  <2>2. np \in PlanRec /\ np.kind = p.kind /\ np.vm = p.vm /\ np.new = p.new /\ np.steps = p.steps /\ np.id = p.id
        /\ np.phase = "unwind" /\ np.at = p.at /\ np.k = p.k - 1 /\ np.broken = p.broken
    <3> HIDE DEF p
    <3> QED
      BY <1>1, <1>2, <1>3 DEF PlanRec
  <2>3. HostOK' /\ \A x \in 1..MaxFire : NoneNew(x)
    BY <2>1 DEF IInv, HostOK, ZfsOK, DomOK, Unchanged, host, NoneNew
  <2>4. ~Remains(cc, xx)'
    <3>1. cc.op = "none"
      BY <1>5, <1>8 DEF NoCmd
    <3> QED
      BY <3>1 DEF Remains
  <2> HIDE DEF np
  <2>5. faults' \in 0..MaxFault
    BY <2>1 DEF IInv, Counters
  <2> QED
    BY <1>7, <2>1, <2>2, <2>3, <2>4, <2>5
<1>9. CASE c # NoCmd
  <2>1. PICK reply \in Replies : Exec(c, p, reply) /\ plan' = [plan EXCEPT ![i] = AfterUndo(p, c, reply)]
    BY <1>9 DEF Unwind
  <2> DEFINE np == AfterUndo(p, c, reply)
  <2>2. np = [p EXCEPT !.k = p.k - 1, !.broken = IF reply = "ok" THEN p.broken ELSE p.broken \cup {c}]
    BY DEF AfterUndo
  <2>3. np \in PlanRec /\ np.kind = p.kind /\ np.vm = p.vm /\ np.new = p.new /\ np.steps = p.steps /\ np.id = p.id
        /\ np.phase = "unwind" /\ np.at = p.at /\ np.k = p.k - 1
        /\ np.broken = IF reply = "ok" THEN p.broken ELSE p.broken \cup {c}
    <3> HIDE DEF p, np, c
    <3> QED
      BY <1>1, <1>2, <1>3, <1>4, <2>2 DEF PlanRec
  <2>4. HostOK' /\ faults' \in 0..MaxFault /\ \A x \in 1..MaxFire : NoneNew(x)
    BY <1>2, <1>4, <1>6, <2>1, ExecType, ExecFaults, ExecNew DEF IInv, Counters
  <2>5. Remains(cc, xx)' => cc \in np.broken
    <3>1. SUFFICES ASSUME reply = "ok" PROVE ~Remains(cc, xx)'
      BY <1>5, <2>3
    <3>2. CASE cc.op = "zdestroy"
      <4>1. DestroyVol(cc.vol, reply)
        BY <1>5, <2>1, <3>1, <3>2 DEF Exec, Fails
      <4>2. cc.vol \notin vols'
        BY <4>1, <3>1 DEF DestroyVol
      <4> QED
        BY <3>2, <4>2 DEF Remains
    <3>3. CASE cc.op = "dsnap"
      <4>0. cc.vol \in Vol /\ cc.tag \in Tag
        BY <1>4, <1>5, <3>3 DEF Undos, NoCmd, ZCmds
      <4>00. DestroySnap(cc.vol, cc.tag, reply)
        BY <1>5, <2>1, <3>1, <3>3 DEF Exec, Fails
      <4>1. DestroySnap(cc.vol, cc.tag, reply) /\ cc.vol \in Vol /\ cc.tag \in Tag
        BY <4>0, <4>00
      <4>2. HasSnap(cc.vol, cc.tag) /\ snaps' = snaps \ {TheSnap(cc.vol, cc.tag)}
        BY <4>1, <3>1 DEF DestroySnap
      <4>3. \A s \in snaps : s.vol = cc.vol /\ s.tag = cc.tag => s = TheSnap(cc.vol, cc.tag)
        BY <4>1, <4>2, TheOne DEF IInv
      <4> QED
        BY <3>3, <4>2, <4>3 DEF Remains
    <3> QED
      BY <1>4, <1>5, <1>9, <3>2, <3>3 DEF Undos, ZCmds
  <2> HIDE DEF np
  <2>6. plan' = [plan EXCEPT ![i] = np] /\ p.broken \in SUBSET np.broken
    BY <2>1, <2>3 DEF np
  <2> QED
    BY <1>7, <2>3, <2>4, <2>5, <2>6
<1> QED
  BY <1>8, <1>9

\* A plan that is over.
LEMMA OverKeeps == ASSUME IInv, NEW i \in Proc, Failed(i) \/ Succeeded(i) PROVE IInv'
<1> DEFINE np(o) == [Idle EXCEPT !.outcome = o]
<1>1. PICK o \in {"ok", "failed"} : plan' = [plan EXCEPT ![i] = np(o)]
  BY DEF Failed, Succeeded
<1>2. /\ np(o).phase = "idle" /\ np(o).kind = "none" /\ np(o).k = 0 /\ np(o).id = 0 /\ np(o).steps = <<>>
      /\ np(o) \in PlanRec
  <2>1. np(o) = [kind |-> "none", vm |-> "none", new |-> "none", steps |-> <<>>, k |-> 0, tries |-> 0,
                 id |-> 0, phase |-> "idle", outcome |-> o, at |-> 0, broken |-> {}]
    BY DEF Idle
  <2>2. 0 \in 0..Retries /\ 0 \in 0..MaxFire /\ 0 \in Nat /\ <<>> \in Seq(StepRec)
    BY VerbsAssumption
  <2> HIDE DEF np
  <2> QED
    BY <2>1, <2>2 DEF PlanRec
<1>3. /\ UNCHANGED <<host, rows, fired, others>> /\ faults' \in 0..MaxFault /\ reg' \in SUBSET Name
  <2>1. CASE Failed(i)
    BY <2>1 DEF Failed, IInv, Counters
  <2>2. CASE Succeeded(i)
    <3>1. plan[i].new \in Name \cup {"none"} /\ (IsClone(plan[i]) => plan[i].new \in Name)
      BY DEF IInv, PlansOK, PlanRec, PlanOK, CloneShape
    <3> QED
      BY <2>2, <3>1, VerbsAssumption DEF Succeeded, Post, IInv, Counters, IsClone
  <2> QED
    BY <2>1, <2>2
<1>4. HostOK' /\ RowsOK' /\ fired' = fired /\ others' \in 0..MaxOther /\ \A x : NoneNew(x)
  BY <1>3 DEF IInv, HostOK, ZfsOK, DomOK, RowsOK, Counters, host, NoneNew
<1>5. ~(IsClone(np(o)) /\ np(o).phase = "unwind")
  BY <1>2
<1> HIDE DEF np
<1> QED
  BY <1>1, <1>2, <1>3, <1>4, <1>5, Goes

\* The plans stand by while the rest goes on.
LEMMA Aside ==
  ASSUME IInv, plan' = plan, fired' = fired, HostOK', RowsOK', Counters', \A x \in 1..MaxFire : NoneNew(x)
  PROVE  IInv'
<1>1. PlansOK'
  BY DEF IInv, PlansOK, PlanOK
<1>2. Reported'
  <2> SUFFICES ASSUME NEW o \in Proc, IsClone(plan[o]) /\ plan[o].phase = "unwind",
                      NEW j \in plan[o].k..(plan[o].at - 1), Remains(plan[o].steps[j].undo, plan[o].id)'
               PROVE  plan[o].steps[j].undo \in plan[o].broken
    BY DEF Reported
  <2>1. plan[o] \in PlanRec /\ PlanOK(plan[o])
    BY DEF IInv, PlansOK
  <2>2. j \in 1..Len(plan[o].steps) /\ plan[o].steps \in Seq(StepRec) /\ plan[o].id \in 1..fired
    <3>1. plan[o].k >= 1 /\ plan[o].at <= Len(plan[o].steps) /\ plan[o].steps \in Seq(StepRec)
          /\ plan[o].k \in Nat /\ plan[o].at \in Nat /\ plan[o].id \in 1..fired
      BY <2>1 DEF PlanOK, PlanRec, Busy
    <3> QED
      BY <3>1
  <2>3. plan[o].steps[j] \in StepRec /\ plan[o].id \in 1..MaxFire
    <3>1. fired \in 0..MaxFire /\ MaxFire \in Nat
      BY VerbsAssumption DEF IInv, Counters
    <3> QED
      BY <2>2, <3>1
  <2>4. PICK u, x : u = plan[o].steps[j].undo /\ x = plan[o].id
    OBVIOUS
  <2>5. u \in Undos /\ NoneNew(x) /\ Remains(u, x)'
    BY <2>3, <2>4 DEF StepRec, Remains
  <2>6. Remains(u, x)
    BY <2>5, NotRemade
  <2> QED
    BY <2>4, <2>6 DEF IInv, Reported
<1> QED
  BY <1>1, <1>2 DEF IInv

\* The rows after a refresh.
LEMMA RefreshKeeps == ASSUME IInv, RefreshEstate \/ RefreshZFS PROVE IInv'
<1>1. UNCHANGED <<host, plan, reg, fired, faults, others>>
  BY DEF RefreshEstate, RefreshZFS, RefreshTo
<1>2. /\ rows \in [Name -> RowRec] /\ dom \in [Name -> DomRec] /\ snaps \in SUBSET SnapRec
      /\ \A n \in Name : (rows[n].state # "none" => rows[n].disks = Kind) /\ (dom[n].state # "none" => dom[n].disks = Kind)
  BY DEF IInv, RowsOK, HostOK, DomOK, ZfsOK
<1>3. RowsOK'
  <2>1. CASE RefreshEstate
    <3> DEFINE row(n) == [rows[n] EXCEPT !.state = dom[n].state, !.pers = dom[n].pers, !.disks = dom[n].disks]
    <3>1. rows' = [n \in Name |-> row(n)]
      BY <2>1 DEF RefreshEstate, RefreshTo
    <3>2. ASSUME NEW n \in Name PROVE row(n) \in RowRec /\ (row(n).state # "none" => row(n).disks = Kind)
      <4>1. PICK r \in RowRec, d \in DomRec : rows[n] = r /\ dom[n] = d /\ (d.state # "none" => d.disks = Kind)
        BY <1>2
      <4> DEFINE q == [r EXCEPT !.state = d.state, !.pers = d.pers, !.disks = d.disks]
      <4>2. q \in RowRec /\ q.state = d.state /\ q.disks = d.disks
        BY DEF RowRec, DomRec
      <4> HIDE DEF q
      <4>3. q \in RowRec /\ (q.state # "none" => q.disks = Kind)
        BY <4>1, <4>2
      <4> QED
        BY <4>1, <4>3 DEF q
    <3> HIDE DEF row
    <3> QED
      BY <3>1, <3>2 DEF RowsOK
  <2>2. CASE RefreshZFS
    <3> DEFINE row(n) == [rows[n] EXCEPT !.ds = RowOf(n).ds, !.snaps = RowOf(n).snaps, !.listed = n \in reg]
    <3>1. rows' = [n \in Name |-> row(n)]
      BY <2>2 DEF RefreshZFS, RefreshTo
    <3>2. ASSUME NEW n \in Name PROVE row(n) \in RowRec /\ row(n).state = rows[n].state /\ row(n).disks = rows[n].disks
      <4>1. RowOf(n).ds \in BOOLEAN /\ RowOf(n).snaps \in SUBSET SnapRec /\ (n \in reg) \in BOOLEAN
        BY <1>2 DEF RowOf, SnapsOf
      <4> QED
        BY <1>2, <4>1 DEF RowRec
    <3> HIDE DEF row
    <3> QED
      BY <1>2, <3>1, <3>2 DEF RowsOK
  <2> QED
    BY <2>1, <2>2
<1>4. HostOK' /\ Counters' /\ plan' = plan /\ fired' = fired /\ \A x \in 1..MaxFire : NoneNew(x)
  BY <1>1 DEF IInv, HostOK, ZfsOK, DomOK, Counters, host, NoneNew
<1> QED
  BY <1>3, <1>4, Aside

\* Guests and other tools.
LEMMA OtherKeeps ==
  ASSUME IInv, \/ \E n \in Name : GuestOff(n) \/ OtherStart(n) \/ Suspend(n)
               \/ \E v \in Vol : AutoSnap(v)
  PROVE  IInv'
<1>1. others < MaxOther /\ others' = others + 1 /\ UNCHANGED <<rows, plan, reg, fired, faults>>
  BY DEF GuestOff, OtherStart, Suspend, AutoSnap, Other
<1>2. HostOK /\ RowsOK' /\ Counters'
  BY <1>1, VerbsAssumption DEF IInv, RowsOK, Counters
<1>3. ASSUME DomOK', OnDomains PROVE HostOK' /\ \A x \in 1..MaxFire : NoneNew(x)
  BY <1>2, <1>3 DEF HostOK, ZfsOK, OnDomains, NoneNew
<1>4. ASSUME NEW n \in Name, GuestOff(n) PROVE DomOK' /\ OnDomains
  BY <1>2, <1>4, PowerOffType DEF GuestOff
<1>5. ASSUME NEW n \in Name, OtherStart(n) PROVE DomOK' /\ OnDomains
  BY <1>2, <1>5, StartType DEF OtherStart
<1>6. ASSUME NEW n \in Name, Suspend(n) PROVE DomOK' /\ OnDomains
  BY <1>2, <1>6 DEF Suspend, HostOK, DomOK, DomRec, OnDomains
<1>7. ASSUME NEW v \in Vol, AutoSnap(v) PROVE HostOK' /\ \A x \in 1..MaxFire : NoneNew(x)
  <2>1. Snapshot(v, "auto", 0, "ok") /\ v \in vols
    BY <1>7 DEF AutoSnap
  <2>2. "auto" \in Tag /\ 0 \in 0..MaxFire
    BY VerbsAssumption DEF Tag
  <2>3. HostOK'
    BY <2>1, <2>2, <1>2, SnapshotType
  <2>4. \A x \in 1..MaxFire : x # 0
    BY VerbsAssumption
  <2>5. CASE Unchanged
    BY <2>3, <2>5 DEF Unchanged, host, NoneNew
  <2>6. CASE ~Unchanged
    <3>1. snaps' = snaps \cup {[vol |-> v, tag |-> "auto", at |-> NextAt(v), by |-> 0]} /\ UNCHANGED <<vols, maker>>
      BY <2>1, <2>6 DEF Snapshot
    <3> QED
      BY <2>3, <2>4, <3>1 DEF NoneNew
  <2> QED
    BY <2>3, <2>5, <2>6 DEF NoneNew
<1> QED
  BY <1>1, <1>2, <1>3, <1>4, <1>5, <1>6, <1>7, Aside

LEMMA InitIInv == Init => IInv
<1> SUFFICES ASSUME Init PROVE IInv
  OBVIOUS
<1>10. PICK up \in SUBSET Name, owned \in SUBSET Name : \E spare \in SUBSET (Vol \ [vm : owned, kind : Kind]) :
        /\ dom = [n \in Name |-> IF n \in owned THEN [state |-> IF n \in up THEN "running" ELSE "off",
                                                      pers |-> TRUE, disks |-> Kind] ELSE NoDom]
        /\ vols = [vm : owned, kind : Kind] \cup spare
        /\ reg = owned
  BY DEF Init
<1>1. PICK spare \in SUBSET (Vol \ [vm : owned, kind : Kind]) :
        /\ dom = [n \in Name |-> IF n \in owned THEN [state |-> IF n \in up THEN "running" ELSE "off",
                                                      pers |-> TRUE, disks |-> Kind] ELSE NoDom]
        /\ vols = [vm : owned, kind : Kind] \cup spare
        /\ reg = owned
  BY <1>10
<1>2. /\ snaps = {} /\ origin = [v \in Vol |-> NoSnap] /\ maker = [v \in Vol |-> 0] /\ hold = [v \in Vol |-> 0]
      /\ rows = [n \in Name |-> RowOf(n)]
      /\ plan = [p \in Proc |-> Idle]
      /\ fired = 0 /\ faults = 0 /\ others = 0
  BY DEF Init
<1>3. MaxFire \in Nat /\ MaxFault \in Nat /\ MaxOther \in Nat /\ Retries \in Nat /\ MaxHold \in Nat
  BY VerbsAssumption, HostAssumption
<1>4. DomOK
  BY <1>1, <1>2, <1>3 DEF DomOK, DomRec, NoDom
<1>5. ZfsOK
  <2>1. vols \in SUBSET Vol
    BY <1>1 DEF Vol
  <2> QED
    BY <1>2, <1>3, <2>1 DEF ZfsOK
<1>6. RowsOK
  <2>1. ASSUME NEW n \in Name PROVE RowOf(n) \in RowRec /\ (RowOf(n).state # "none" => RowOf(n).disks = Kind)
    <3>1. SnapsOf(V(n, "root")) = {}
      BY <1>2 DEF SnapsOf
    <3> QED
      BY <1>4, <3>1 DEF RowOf, RowRec, DomOK, DomRec
  <2> QED
    BY <1>2, <2>1 DEF RowsOK
<1>7. Idle \in PlanRec /\ PlanOK(Idle) /\ ~Busy(Idle) /\ ~IsClone(Idle)
  <2>1. 0 \in 0..Retries /\ 0 \in 0..MaxFire /\ 0 \in Nat /\ <<>> \in Seq(StepRec)
    BY <1>3
  <2>2. Idle \in PlanRec
    BY <2>1 DEF Idle, PlanRec
  <2>3. Idle.kind = "none" /\ Idle.phase = "idle" /\ Idle.k = 0 /\ Idle.id = 0 /\ Idle.steps = <<>>
    BY DEF Idle
  <2> QED
    BY <2>2, <2>3 DEF PlanOK, Busy, IsClone
<1>8. PlansOK /\ Reported
  BY <1>2, <1>7 DEF PlansOK, Reported
<1>9. Counters
  BY <1>1, <1>2, <1>3 DEF Counters
<1> QED
  BY <1>4, <1>5, <1>6, <1>8, <1>9 DEF IInv, HostOK

LEMMA NextKeeps == IInv /\ [Next]_vars => IInv'
<1> SUFFICES ASSUME IInv, [Next]_vars PROVE IInv'
  OBVIOUS
<1>1. CASE UNCHANGED vars
  <2>1. UNCHANGED <<dom, vols, snaps, origin, maker, hold, rows, plan, reg, fired, faults, others>>
    BY <1>1 DEF vars, host
  <2> QED
    BY <2>1, Aside DEF IInv, HostOK, ZfsOK, DomOK, RowsOK, Counters, NoneNew
<1>2. ASSUME NEW p \in Proc, NEW n \in Name, FireAny(p, n) PROVE IInv'
  BY <1>2, FireAnyKeeps
<1>3. ASSUME NEW p \in Proc, PlanStep(p) PROVE IInv'
  BY <1>3, RunCmdKeeps, UnwindKeeps, OverKeeps DEF PlanStep
<1>4. CASE RefreshEstate \/ RefreshZFS
  BY <1>4, RefreshKeeps
<1>5. CASE \/ \E n \in Name : GuestOff(n) \/ OtherStart(n) \/ Suspend(n)
           \/ \E v \in Vol : AutoSnap(v)
  BY <1>5, OtherKeeps
<1> QED
  BY <1>1, <1>2, <1>3, <1>4, <1>5 DEF Next

\* The types are right, and a clone that was unwound reported what it left.
LEMMA IInvMeans == IInv => TypeOK /\ NoSilentLitter
<1> SUFFICES ASSUME IInv PROVE TypeOK /\ NoSilentLitter
  OBVIOUS
<1>1. TypeOK
  <2>1. snaps \subseteq [vol : vols, tag : Tag, at : 1..MaxAt, by : 0..MaxFire]
    BY DEF IInv, HostOK, ZfsOK, SnapRec
  <2>2. origin \in [Vol -> snaps \cup {NoSnap}]
    BY DEF IInv, HostOK, ZfsOK
  <2>3. ASSUME NEW p \in Proc
        PROVE  /\ plan[p].phase \in {"idle", "run", "unwind"} /\ plan[p].tries \in 0..Retries
               /\ plan[p].k \in 0..(IF plan[p].phase = "unwind" THEN plan[p].at ELSE Len(plan[p].steps) + 1)
    <3>1. plan[p] \in PlanRec /\ PlanOK(plan[p])
      BY DEF IInv, PlansOK
    <3>2. plan[p].k \in Nat /\ plan[p].at \in Nat /\ Len(plan[p].steps) \in Nat
          /\ plan[p].phase \in {"idle", "run", "unwind"} /\ plan[p].tries \in 0..Retries
      BY <3>1 DEF PlanRec
    <3>3. plan[p].phase = "unwind" => plan[p].k <= plan[p].at
      BY <3>1 DEF PlanOK
    <3>4. plan[p].phase # "unwind" => plan[p].k <= Len(plan[p].steps) + 1
      BY <3>1, <3>2 DEF PlanOK
    <3> QED
      BY <3>2, <3>3, <3>4
  <2> QED
    BY <2>1, <2>2, <2>3 DEF TypeOK, IInv, HostOK, ZfsOK, DomOK, DomRec, Counters
<1>2. NoSilentLitter
  <2> SUFFICES ASSUME NEW p \in Proc, IsClone(plan[p]), plan[p].phase = "unwind", plan[p].k <= 1,
                      NEW i \in 1..(plan[p].at - 1), Remains(plan[p].steps[i].undo, plan[p].id)
               PROVE  plan[p].steps[i].undo \in plan[p].broken
    BY DEF NoSilentLitter
  <2>1. plan[p].k = 1
    BY DEF IInv, PlansOK, PlanOK, PlanRec, Busy
  <2> QED
    BY <2>1 DEF IInv, Reported
<1> QED
  BY <1>1, <1>2

-----------------------------------------------------------------------------
(* Where nothing is deleted: what a clone has made is its own, and there.  *)

Done(p)  == 1..(p.k - 1)   \* the steps that have been taken, and not been taken back
Over(p)  == p.phase = "run" /\ p.k > Len(p.steps)

\* Its zvols, each made once; the domain that has them comes last.
CloneOwn(p) ==
  /\ Defined(p.vm)
  /\ Over(p) => Defined(p.new)
  /\ \A i \in Done(p) : IsZclone(p.steps[i]) =>
       /\ p.steps[i].do.new \in vols
       /\ maker[p.steps[i].do.new] = p.id
       /\ origin[p.steps[i].do.new].vol = p.steps[i].do.vol
       /\ Defined(p.new) => Over(p)
       /\ \A j \in Done(p) : IsZclone(p.steps[j]) /\ p.steps[j].do.new = p.steps[i].do.new => i = j

\* A domain has its disks, and a row that shows one is not ahead of the host.
Standing == \A n \in Name : Defined(n) => dom[n].pers /\ \A k \in Kind : V(n, k) \in vols
Seen     == \A n \in Name : rows[n].state # "none" => Defined(n)

OwnInv == Standing /\ Seen /\ \A p \in Proc : IsClone(plan[p]) => CloneOwn(plan[p])

\* The steps of a clone, by what they do.
LEMMA StepForms ==
  ASSUME NEW p \in PlanRec, CloneShape(p), NEW i \in 1..Len(p.steps)
  PROVE  LET st == p.steps[i] IN
         \/ /\ IsZclone(st) /\ ~IsSnap(st) /\ i < Len(p.steps) /\ st.do.op = "zclone"
            /\ \E k \in Kind : st.do.vol = V(p.vm, k) /\ st.do.new = V(p.new, k) /\ st.undo = ZCmd("zdestroy", V(p.new, k))
            /\ st.do.tag \in {"golden", p.new}
         \/ /\ IsSnap(st) /\ ~IsZclone(st) /\ i < Len(p.steps) /\ st.do.op = "snapshot" /\ st.do.tag = p.new
            /\ \E k \in Kind : st.do.vol = V(p.vm, k) /\ st.undo = SCmd("dsnap", V(p.vm, k), p.new)
         \/ /\ ~IsSnap(st) /\ ~IsZclone(st) /\ i = Len(p.steps) /\ st = LastStep(p.vm, p.new)
            /\ st.do.op = "virtclone" /\ st.do.vm = p.vm /\ st.do.new = p.new /\ st.do.files = DisksFor(p.new) /\ st.undo = NoCmd
<1>1. CASE i = Len(p.steps)
  BY <1>1 DEF CloneShape, LastStep, Step, DCmd, IsZclone, IsSnap
<1>2. CASE i # Len(p.steps)
  <2>1. i \in 1..(Len(p.steps) - 1) /\ i < Len(p.steps)
    BY <1>2 DEF PlanRec
  <2>2. p.steps[i] \in DiskStep(p.vm, p.new)
    BY <2>1 DEF CloneShape
  <2> QED
    BY <2>1, <2>2 DEF DiskStep, Step, CCmd, SCmd, IsZclone, IsSnap
<1> QED
  BY <1>1, <1>2

\* What is another's is left alone, and so is what a clone owns.
Leaves1(o) ==
  /\ \A v \in Vol : v \in vols /\ maker[v] = o.id => v \in vols' /\ maker'[v] = o.id /\ origin'[v] = origin[v]
  /\ \A n \in Name : Defined(n) => Defined(n)'
  /\ \A n \in Name : Defined(n)' /\ ~Defined(n) => \A k \in Kind : maker[V(n, k)] # o.id

LEMMA OwnStays ==
  ASSUME NEW o \in PlanRec, CloneShape(o), o.phase = "run" => o.k <= Len(o.steps) + 1,
         o.phase = "unwind" => o.k <= Len(o.steps), o.phase # "idle", CloneOwn(o), Leaves1(o)
  PROVE  CloneOwn(o)'
<1>1. o.vm \in Name /\ o.new \in Name
  BY DEF CloneShape
<1>2. Defined(o.vm)' /\ (Over(o) => Defined(o.new)')
  BY <1>1 DEF CloneOwn, Leaves1
<1>3. ASSUME NEW i \in Done(o), IsZclone(o.steps[i])
      PROVE  /\ o.steps[i].do.new \in vols' /\ maker'[o.steps[i].do.new] = o.id
             /\ origin'[o.steps[i].do.new].vol = o.steps[i].do.vol
             /\ Defined(o.new)' => Over(o)
  <2>1. i \in 1..Len(o.steps)
    <3>1. o.k \in Nat /\ o.phase \in {"idle", "run", "unwind"} /\ Len(o.steps) \in Nat
      BY DEF PlanRec
    <3> QED
      BY <3>1 DEF Done
  <2>2. PICK k \in Kind : o.steps[i].do.new = V(o.new, k)
    BY <1>3, <2>1, StepForms
  <2>3. V(o.new, k) \in Vol
    BY <1>1 DEF V, Vol
  <2>4. /\ V(o.new, k) \in vols /\ maker[V(o.new, k)] = o.id /\ origin[V(o.new, k)].vol = o.steps[i].do.vol
        /\ Defined(o.new) => Over(o)
    BY <1>3, <2>2 DEF CloneOwn
  <2>5. Defined(o.new)' => Defined(o.new)
    BY <1>1, <2>4 DEF Leaves1
  <2> QED
    BY <2>2, <2>3, <2>4, <2>5 DEF Leaves1
<1> QED
  BY <1>2, <1>3 DEF CloneOwn, Over, Done

\* Everything but a command on disks of a clone: the zvols stay, the domains stay defined.
Mild ==
  /\ UNCHANGED <<vols, origin, maker>>
  /\ \A n \in Name : (Defined(n) <=> Defined(n)') /\ (Defined(n) /\ dom[n].pers => dom'[n].pers)

LEMMA MildHost == IInv /\ OwnInv /\ Mild => Standing' /\ \A o : Leaves1(o)
<1> SUFFICES ASSUME IInv, OwnInv, Mild PROVE Standing' /\ \A o : Leaves1(o)
  OBVIOUS
<1>1. Standing'
  BY DEF OwnInv, Standing, Mild, Defined
<1>2. ASSUME NEW o PROVE Leaves1(o)
  BY DEF Leaves1, Mild
<1> QED
  BY <1>1, <1>2

\* Every plan but i, as far as it was.
LEMMA RestOwn ==
  ASSUME IInv, OwnInv, NEW i, \A o \in Proc : o # i => plan'[o] = plan[o],
         \A o \in Proc : o # i /\ IsClone(plan[o]) => Leaves1(plan[o])
  PROVE  \A o \in Proc : o # i /\ IsClone(plan'[o]) => CloneOwn(plan[o])'
<1> SUFFICES ASSUME NEW o \in Proc, o # i, IsClone(plan'[o]) PROVE CloneOwn(plan[o])'
  OBVIOUS
<1>1. plan'[o] = plan[o] /\ plan[o] \in PlanRec /\ PlanOK(plan[o]) /\ IsClone(plan[o])
  BY DEF IInv, PlansOK
<1>2. PICK q : q = plan[o]
  OBVIOUS
<1>3. /\ q \in PlanRec /\ CloneShape(q) /\ q.phase # "idle" /\ CloneOwn(q) /\ Leaves1(q)
      /\ q.phase = "run" => q.k <= Len(q.steps) + 1
      /\ q.phase = "unwind" => q.k <= Len(q.steps)
  <2>1. q \in PlanRec /\ CloneShape(q) /\ q.phase # "idle"
    BY <1>1, <1>2 DEF PlanOK, Busy, IsClone
  <2>2. CloneOwn(q) /\ Leaves1(q)
    BY <1>1, <1>2 DEF OwnInv
  <2>3. q.phase = "run" => q.k <= Len(q.steps) + 1
    BY <1>1, <1>2 DEF PlanOK
  <2>4. q.phase = "unwind" => q.k <= Len(q.steps)
    <3>1. q.k \in Nat /\ q.at \in Nat /\ Len(q.steps) \in Nat
      BY <1>1, <1>2 DEF PlanRec
    <3>2. q.phase = "unwind" => q.k <= q.at /\ q.at <= Len(q.steps)
      BY <1>1, <1>2 DEF PlanOK
    <3> QED
      BY <3>1, <3>2
  <2> QED
    BY <2>1, <2>2, <2>3, <2>4
<1>4. CloneOwn(q)'
  BY <1>3, OwnStays
<1> QED
  BY <1>1, <1>2, <1>4 DEF CloneOwn, Over, Done

\* What a clone's commands reply.
LEMMA CloneReply ==
  ASSUME NEW c, NEW p, NEW r, Exec(c, p, r), c.op \in {"zclone", "snapshot", "virtclone"}
  PROVE  r = "ok" \/ (r \in {"refused", "failed"} /\ Unchanged)
  BY DEF Exec, CloneVol, Snapshot, VirtClone, Fails

\* A domain that is started, or put to sleep, is there as before.
LEMMA MildStart ==
  ASSUME IInv, NEW n \in Name, Defined(n), NEW st \in {"off", "running", "paused"},
         dom' = [dom EXCEPT ![n].state = st], UNCHANGED <<vols, origin, maker>>
  PROVE  Mild
<1>1. dom \in [Name -> DomRec]
  BY DEF IInv, HostOK, DomOK
<1>2. ASSUME NEW m \in Name PROVE (Defined(m) <=> Defined(m)') /\ (Defined(m) /\ dom[m].pers => dom'[m].pers)
  <2>1. CASE m = n
    <3>1. dom'[m].state = st /\ dom'[m].pers = dom[m].pers
      BY <1>1, <2>1 DEF DomRec
    <3> QED
      BY <2>1, <3>1 DEF Defined
  <2>2. CASE m # n
    <3>1. dom'[m] = dom[m]
      BY <1>1, <2>2
    <3> QED
      BY <3>1 DEF Defined
  <2> QED
    BY <2>1, <2>2
<1> QED
  BY <1>2 DEF Mild

\* A domain that goes off is there as before, where every domain is persistent.
LEMMA MildOff ==
  ASSUME IInv, OwnInv, NEW n \in Name, dom[n].state \in {"running", "paused"}, PowerOff(n)
  PROVE  Mild
<1>1. dom \in [Name -> DomRec] /\ dom[n].pers
  BY DEF IInv, HostOK, DomOK, OwnInv, Standing, Defined
<1>2. dom' = [dom EXCEPT ![n].state = "off"]
  BY <1>1 DEF PowerOff, DomRec
<1> QED
  BY <1>2, MildStart DEF PowerOff, Defined

\* runPlan, a command of a plan that is no clone's: what it may be.
LEMMA PlainForms ==
  ASSUME IInv, "delete" \notin Offered, NEW i \in Proc, ~IsClone(plan[i]), RunCmd(i)
  PROVE  LET p == plan[i]
             c == p.steps[p.k].do
         IN /\ c.op \in {"start", "destroy", "shutdown", "reseal", "snapshot", "rollback"} /\ c \in Cmds
            /\ c.op = "reseal" => c.tag = "golden"
            /\ c.op = "rollback" => "rollback" \in Offered
            /\ \E reply \in Replies : Exec(c, p, reply)
<1> DEFINE p == plan[i]
           c == p.steps[p.k].do
<1>1. p.phase = "run" /\ p.k <= Len(p.steps) /\ p \in PlanRec /\ PlanOK(p)
  BY DEF RunCmd, IInv, PlansOK
<1>2. p.k \in 1..Len(p.steps)
  BY <1>1 DEF PlanOK, PlanRec, Busy
<1>3. Touching(p, c) /\ p.kind \notin {"delete", "reconcile"} /\ (p.kind = "rollback" => "rollback" \in Offered)
  BY <1>1, <1>2 DEF PlanOK, Busy
<1>4. p.steps[p.k] \in StepRec
  BY <1>1, <1>2 DEF PlanRec
<1>5. c \in Cmds
  BY <1>4 DEF StepRec
<1>6. \E reply \in Replies : Exec(c, p, reply)
  BY DEF RunCmd
<1> QED
  BY <1>3, <1>5, <1>6 DEF Touching

\* Where nothing is deleted it leaves the zvols alone, and domains where they are.
LEMMA PlainCommand ==
  ASSUME IInv, "delete" \notin Offered, OwnInv, NEW i \in Proc, ~IsClone(plan[i]), RunCmd(i)
  PROVE  Mild
<1> DEFINE p == plan[i]
           c == p.steps[p.k].do
<1>1. c.op \in {"start", "destroy", "shutdown", "reseal", "snapshot", "rollback"} /\ c \in Cmds
  BY PlainForms
<1>2. PICK reply \in Replies : Exec(c, p, reply)
  BY PlainForms
<1>3. c.op \in {"start", "destroy"} => c.vm \in Name
  BY <1>1 DEF Cmds, VmCmds, ZCmds, SCmds, CCmds, DCmds
<1>4. CASE UNCHANGED <<dom, vols, origin, maker>>
  BY <1>4 DEF Mild, Defined
<1>5. CASE c.op = "start" /\ Start(c.vm, reply)
  <2>1. CASE Unchanged
    BY <1>4, <2>1 DEF Unchanged, host
  <2>2. CASE Defined(c.vm) /\ dom' = [dom EXCEPT ![c.vm].state = "running"] /\ UNCHANGED <<vols, snaps, origin, maker, hold>>
    <3>1. c.vm \in Name
      BY <1>3, <1>5
    <3> HIDE DEF c
    <3> QED
      BY <2>2, <3>1, MildStart
  <2> QED
    BY <1>5, <2>1, <2>2 DEF Start, Defined
<1>6. CASE c.op = "destroy" /\ Destroy(c.vm, reply)
  <2>1. CASE Unchanged
    BY <1>4, <2>1 DEF Unchanged, host
  <2>2. CASE PowerOff(c.vm) /\ dom[c.vm].state \in {"running", "paused"}
    BY <1>3, <1>6, <2>2, MildOff
  <2> QED
    BY <1>6, <2>1, <2>2 DEF Destroy
<1>7. CASE Unchanged \/ Fails(reply) \/ Shutdown(c.vm, p.tries > 0, reply)
  BY <1>4, <1>7 DEF Unchanged, host, Fails, Shutdown
<1>8. CASE Snapshot(c.vol, c.tag, p.id, reply) \/ DestroySnap(c.vol, c.tag, reply) \/ RollbackVol(c.vol, c.tag, reply)
  BY <1>4, <1>8 DEF Snapshot, DestroySnap, RollbackVol, Unchanged, host
<1> QED
  BY <1>1, <1>2, <1>5, <1>6, <1>7, <1>8 DEF Exec

\* A plan i goes on and the host stays, all but snapshots and domains' states.
LEMMA MildStep ==
  ASSUME IInv, OwnInv, Mild, NEW i, \A o \in Proc : o # i => plan'[o] = plan[o],
         i \in Proc /\ IsClone(plan'[i]) => CloneOwn(plan[i])', Seen'
  PROVE  OwnInv'
<1>1. Standing' /\ \A o : Leaves1(o)
  BY MildHost
<1>2. \A o \in Proc : o # i /\ IsClone(plan'[o]) => CloneOwn(plan[o])'
  BY <1>1, RestOwn
<1>3. \A o \in Proc : IsClone(plan[o])' => CloneOwn(plan[o])'
  BY <1>2 DEF IsClone
<1> QED
  BY <1>1, <1>3 DEF OwnInv

LEMMA SeenStays == ASSUME Seen, rows' = rows, \A n \in Name : Defined(n) => Defined(n)' PROVE Seen'
  BY DEF Seen

\* runPlan, a command of a clone: it is done, or it changes nothing.
LEMMA CloneGoes ==
  ASSUME IInv, NEW i \in Proc, IsClone(plan[i]), RunCmd(i)
  PROVE  LET p == plan[i]
             c == p.steps[p.k].do
         IN /\ p.phase = "run" /\ p \in PlanRec /\ PlanOK(p) /\ CloneShape(p) /\ Busy(p)
            /\ p.k \in 1..Len(p.steps) /\ p.k \in Nat /\ Len(p.steps) \in Nat
            /\ plan'[i].vm = p.vm /\ plan'[i].new = p.new /\ plan'[i].steps = p.steps /\ plan'[i].id = p.id
            /\ \A o \in Proc : o # i => plan'[o] = plan[o]
            /\ rows' = rows
            /\ \/ Exec(c, p, "ok") /\ plan'[i].k = p.k + 1 /\ plan'[i].phase = "run"
               \/ Unchanged /\ plan'[i].k = p.k /\ ~Over(plan'[i])
<1> DEFINE c == plan[i].steps[plan[i].k].do
<1>0. PICK p : p = plan[i]
  OBVIOUS
<1>1. p.phase = "run" /\ p.k <= Len(p.steps) /\ p \in PlanRec /\ PlanOK(p) /\ CloneShape(p) /\ Busy(p)
  BY <1>0 DEF RunCmd, IInv, PlansOK, PlanOK, Busy
<1>2. p.k \in 1..Len(p.steps) /\ p.k \in Nat /\ Len(p.steps) \in Nat
  BY <1>1 DEF PlanOK, PlanRec, Busy
<1>3. PICK reply \in Replies :
        /\ Exec(c, plan[i], reply)
        /\ plan' = [plan EXCEPT ![i] =
             IF reply = "ok" \/ Forgiven(plan[i], reply) THEN [plan[i] EXCEPT !.k = @ + 1, !.tries = 0]
             ELSE IF Retry(plan[i], reply) THEN [plan[i] EXCEPT !.tries = IF @ < Retries THEN @ + 1 ELSE @]
             ELSE [plan[i] EXCEPT !.phase = "unwind", !.at = plan[i].k, !.k = UnwindFrom(plan[i]), !.tries = 0]]
  BY DEF RunCmd
<1>4. PICK np : np = plan'[i]
  OBVIOUS
<1>5. /\ np = IF reply = "ok" \/ Forgiven(p, reply) THEN [p EXCEPT !.k = p.k + 1, !.tries = 0]
              ELSE IF Retry(p, reply) THEN [p EXCEPT !.tries = IF p.tries < Retries THEN p.tries + 1 ELSE p.tries]
              ELSE [p EXCEPT !.phase = "unwind", !.at = p.k, !.k = UnwindFrom(p), !.tries = 0]
      /\ \A o \in Proc : o # i => plan'[o] = plan[o]
  BY <1>0, <1>3, <1>4 DEF IInv, PlansOK
<1>6. /\ np.vm = p.vm /\ np.new = p.new /\ np.steps = p.steps /\ np.id = p.id
      /\ reply = "ok" => np.k = p.k + 1 /\ np.phase = "run"
  BY <1>1, <1>5 DEF PlanRec
<1>7. c.op \in {"zclone", "snapshot", "virtclone"}
  BY <1>0, <1>1, <1>2, StepForms
<1>8. CASE reply = "ok"
  BY <1>0, <1>1, <1>2, <1>3, <1>4, <1>5, <1>6, <1>8 DEF RunCmd
<1>9. CASE reply # "ok"
  <2>1. reply \in {"refused", "failed"} /\ Unchanged
    BY <1>3, <1>7, <1>9, CloneReply
  <2>2. np.k = p.k /\ ~Over(np)
    <3>1. ~Forgiven(p, reply) /\ ~Retry(p, reply)
      BY <2>1, <1>0 DEF Forgiven, Retry, IsClone
    <3> QED
      BY <3>1, <1>1, <1>5, <1>9 DEF PlanRec, UnwindFrom, Over
  <2> QED
    BY <1>0, <1>1, <1>2, <1>4, <1>5, <1>6, <2>1, <2>2 DEF RunCmd
<1> QED
  BY <1>8, <1>9

\* runPlan, a command of a clone.
LEMMA CloneCommand ==
  ASSUME IInv, OwnInv, NEW i \in Proc, IsClone(plan[i]), RunCmd(i)
  PROVE  OwnInv'
<1> DEFINE c == plan[i].steps[plan[i].k].do
<1>0. PICK p : p = plan[i]
  OBVIOUS
<1>1. p.phase = "run" /\ p \in PlanRec /\ PlanOK(p) /\ CloneShape(p) /\ Busy(p)
  BY <1>0, CloneGoes
<1>2. p.k \in 1..Len(p.steps) /\ p.k \in Nat /\ Len(p.steps) \in Nat
  BY <1>0, CloneGoes
<1>3. PICK np : np = plan'[i]
  OBVIOUS
<1>4. np.vm = p.vm /\ np.new = p.new /\ np.steps = p.steps /\ np.id = p.id
  BY <1>0, <1>3, CloneGoes
<1>5. (\A o \in Proc : o # i => plan'[o] = plan[o]) /\ rows' = rows
  BY CloneGoes
<1>6. \/ Exec(c, p, "ok") /\ np.k = p.k + 1 /\ np.phase = "run"
      \/ Unchanged /\ np.k = p.k /\ ~Over(np)
  BY <1>0, <1>3, CloneGoes
<1>7. c.op \in {"zclone", "snapshot", "virtclone"} /\ c = p.steps[p.k].do
  BY <1>0, <1>1, <1>2, StepForms
<1>8. CloneOwn(p) /\ ~Over(p)
  BY <1>0, <1>1, <1>2 DEF OwnInv, Over
<1> DEFINE Ok == Exec(c, p, "ok") /\ np.k = p.k + 1 /\ np.phase = "run"
<1>9. CASE Unchanged /\ np.k = p.k /\ ~Over(np)
  <2>1. UNCHANGED <<dom, vols, origin, maker>>
    BY <1>9 DEF Unchanged, host
  <2>2. CloneOwn(np)'
    BY <1>4, <1>8, <1>9, <2>1 DEF CloneOwn, Done, Over, Defined
  <2>3. Mild
    BY <2>1 DEF Mild, Defined
  <2>4. Seen'
    BY <1>5, <2>1 DEF OwnInv, Seen, Defined
  <2>5. CloneOwn(plan[i])'
    BY <1>3, <2>2 DEF CloneOwn, Over, Done
  <2> QED
    BY <1>5, <2>3, <2>4, <2>5, MildStep
<1>10. CASE Ok /\ IsSnap(p.steps[p.k])
  <2>1. UNCHANGED <<dom, vols, origin, maker>> /\ p.k < Len(p.steps) /\ ~IsZclone(p.steps[p.k])
    BY <1>1, <1>2, <1>6, <1>7, <1>10, StepForms DEF Exec, Snapshot, Fails, Unchanged, host, IsSnap
  <2>2. ~Over(np)
    BY <1>2, <1>4, <1>10, <2>1 DEF Over
  <2>3. ASSUME NEW j \in Done(np), IsZclone(np.steps[j]) PROVE j \in Done(p)
    <3>1. j # p.k
      BY <2>1, <2>3, <1>4
    <3> QED
      BY <1>2, <1>4, <1>10, <3>1 DEF Done
  <2>4. CloneOwn(np)'
    BY <1>4, <1>8, <2>1, <2>2, <2>3 DEF CloneOwn, Over, Done, Defined
  <2>5. Mild
    BY <2>1 DEF Mild, Defined
  <2>6. Seen'
    BY <1>5, <2>1 DEF OwnInv, Seen, Defined
  <2>7. CloneOwn(plan[i])'
    BY <1>3, <2>4 DEF CloneOwn, Over, Done
  <2> QED
    BY <1>5, <2>5, <2>6, <2>7, MildStep
<1>11. CASE Ok /\ IsZclone(p.steps[p.k])
  <2>1. PICK k \in Kind : /\ p.k < Len(p.steps) /\ c.op = "zclone" /\ c.vol = V(p.vm, k) /\ c.new = V(p.new, k)
    BY SMTT(30), <1>1, <1>2, <1>7, <1>11, StepForms
  <2>2. CloneVol(c.vol, c.tag, c.new, p.id, "ok")
    BY <1>0, <1>6, <1>11, <2>1 DEF Exec, Fails
  <2>3. p.vm \in Name /\ p.new \in Name /\ p.vm # p.new /\ V(p.new, k) \in Vol /\ V(p.vm, k) \in Vol
    BY <1>1 DEF CloneShape, V, Vol
  <2> DEFINE new == V(p.new, k)
  <2>4. /\ HasSnap(c.vol, c.tag) /\ new \notin vols /\ vols' = vols \cup {new}
        /\ origin' = [origin EXCEPT ![new] = TheSnap(c.vol, c.tag)]
        /\ maker' = [maker EXCEPT ![new] = p.id] /\ UNCHANGED dom
    BY <2>1, <2>2, <1>11 DEF CloneVol
  <2>5. TheSnap(c.vol, c.tag).vol = c.vol
    BY <2>4 DEF HasSnap, TheSnap
  <2>6. maker \in [Vol -> 0..MaxFire] /\ DOMAIN origin = Vol
    BY DEF IInv, HostOK, ZfsOK
  <2>7. ~Defined(p.new) /\ ~Over(np)
    <3>1. ~Defined(p.new)
      BY <2>3, <2>4 DEF OwnInv, Standing
    <3> QED
      BY <3>1, <1>2, <1>4, <1>11, <2>1 DEF Over
  <2>8. \A n \in Name : Defined(n)' <=> Defined(n)
    BY <2>4 DEF Defined
  <2>9. Done(np) = Done(p) \cup {p.k} /\ p.k \notin Done(p)
    BY <1>2, <1>4, <1>11 DEF Done
  <2>10. ASSUME NEW j \in Done(p), IsZclone(p.steps[j])
         PROVE  /\ p.steps[j].do.new \in vols /\ p.steps[j].do.new # new
                /\ maker'[p.steps[j].do.new] = p.id /\ origin'[p.steps[j].do.new].vol = p.steps[j].do.vol
    <3>1. p.steps[j].do.new \in vols /\ maker[p.steps[j].do.new] = p.id /\ origin[p.steps[j].do.new].vol = p.steps[j].do.vol
      BY <2>10, <1>8 DEF CloneOwn
    <3>2. p.steps[j].do.new \in Vol
      BY <3>1 DEF IInv, HostOK, ZfsOK
    <3> QED
      BY <3>1, <3>2, <2>4, <2>6
  <2>11. p.steps[p.k].do.new = new /\ p.steps[p.k].do.vol = c.vol
    BY <1>7, <2>1
  <2>12. CloneOwn(np)'
    <3>1. Defined(np.vm)' /\ ~Defined(np.new)'
      BY <1>4, <1>8, <2>3, <2>7, <2>8 DEF CloneOwn
    <3>2. ASSUME NEW j \in Done(np), IsZclone(np.steps[j])
          PROVE  /\ np.steps[j].do.new \in vols' /\ maker'[np.steps[j].do.new] = np.id
                 /\ origin'[np.steps[j].do.new].vol = np.steps[j].do.vol
                 /\ \A l \in Done(np) : IsZclone(np.steps[l]) /\ np.steps[l].do.new = np.steps[j].do.new => j = l
      <4>1. CASE j = p.k
        <5>1. /\ np.steps[j].do.new \in vols' /\ maker'[np.steps[j].do.new] = np.id
              /\ origin'[np.steps[j].do.new].vol = np.steps[j].do.vol
          BY <4>1, <1>4, <2>3, <2>4, <2>5, <2>6, <2>11
        <5>2. \A l \in Done(p) : IsZclone(p.steps[l]) => p.steps[l].do.new # np.steps[j].do.new
          BY <4>1, <1>4, <2>10, <2>11
        <5> QED
          BY <4>1, <5>1, <5>2, <1>4, <2>9
      <4>2. CASE j # p.k
        <5>1. j \in Done(p) /\ IsZclone(p.steps[j])
          BY <4>2, <3>2, <2>9, <1>4
        <5>2. \A l \in Done(p) : IsZclone(p.steps[l]) /\ p.steps[l].do.new = p.steps[j].do.new => j = l
          BY <5>1, <1>8 DEF CloneOwn
        <5>3. p.steps[j].do.new # p.steps[p.k].do.new
          BY <5>1, <2>10, <2>11
        <5>4. /\ np.steps[j].do.new \in vols' /\ maker'[np.steps[j].do.new] = np.id
              /\ origin'[np.steps[j].do.new].vol = np.steps[j].do.vol
          BY <5>1, <2>4, <2>10, <1>4
        <5> QED
          BY <5>2, <5>3, <5>4, <1>4, <2>9
      <4> QED
        BY <4>1, <4>2
    <3> QED
      BY <3>1, <3>2, <2>7 DEF CloneOwn, Over, Done
  <2>13. Standing'
    BY <2>4 DEF OwnInv, Standing, Defined
  <2>14. \A o \in Proc : Leaves1(plan[o])
    BY <2>4, <2>6, <2>8 DEF Leaves1
  <2>15. \A o \in Proc : o # i /\ IsClone(plan'[o]) => CloneOwn(plan[o])'
    BY <1>5, <2>14, RestOwn
  <2>16. Seen'
    BY <1>5, <2>8, SeenStays DEF OwnInv
  <2>17. CloneOwn(plan[i])'
    BY <1>3, <2>12 DEF CloneOwn, Over, Done
  <2> QED
    BY <2>13, <2>15, <2>16, <2>17 DEF OwnInv, IsClone
<1>12. CASE Ok /\ ~IsZclone(p.steps[p.k]) /\ ~IsSnap(p.steps[p.k])
  <2>1. /\ p.k = Len(p.steps) /\ c.op = "virtclone" /\ c.vm = p.vm /\ c.new = p.new /\ c.files = DisksFor(p.new)
    BY <1>1, <1>2, <1>7, <1>12, StepForms
  <2>2. VirtClone(c.vm, c.new, c.files, "ok")
    BY <1>6, <1>12, <2>1 DEF Exec, Fails
  <2>3. p.vm \in Name /\ p.new \in Name
    BY <1>1 DEF CloneShape
  <2>4. /\ Defined(p.vm) /\ ~Defined(p.new) /\ DisksFor(p.new) \subseteq vols
        /\ \E ks : dom' = [dom EXCEPT ![p.new] = [state |-> "off", pers |-> TRUE, disks |-> ks]]
        /\ UNCHANGED <<vols, origin, maker>>
    BY <2>1, <2>2, <1>12 DEF VirtClone
  <2>5. PICK ks : dom' = [dom EXCEPT ![p.new] = [state |-> "off", pers |-> TRUE, disks |-> ks]]
    BY <2>4
  <2>6. /\ DOMAIN dom = Name /\ dom'[p.new].state = "off" /\ dom'[p.new].pers
        /\ \A n \in Name : n # p.new => dom'[n] = dom[n]
    BY <2>3, <2>5 DEF IInv, HostOK, DomOK
  <2>7. Defined(p.new)' /\ \A n \in Name : (Defined(n) => Defined(n)') /\ (Defined(n)' /\ ~Defined(n) => n = p.new)
    BY <2>3, <2>6 DEF Defined
  <2>8. Standing'
    <3>1. \A k \in Kind : V(p.new, k) \in vols
      BY <2>4 DEF DisksFor
    <3> QED
      BY <2>3, <2>4, <2>6, <3>1 DEF OwnInv, Standing, Defined
  <2>9. \A k \in Kind : maker[V(p.new, k)] = p.id
    <3>1. ASSUME NEW k \in Kind PROVE maker[V(p.new, k)] = p.id
      <4>1. PICK j \in 1..(Len(p.steps) - 1) : IsZclone(p.steps[j]) /\ p.steps[j].do.new = V(p.new, k)
        BY <1>1 DEF CloneShape
      <4>2. j \in Done(p)
        BY <2>1 DEF Done
      <4> QED
        BY <4>1, <4>2, <1>8 DEF CloneOwn
    <3> QED
      BY <3>1
  <2>10. ASSUME NEW o \in Proc, o # i, IsClone(plan[o]) PROVE Leaves1(plan[o])
    <3>1. plan[o].id # p.id
      <4>1. Busy(plan[i])
        BY <1>0, <1>1 DEF Busy
      <4> QED
        BY <1>0, <2>10, <4>1 DEF IInv, PlansOK
    <3> QED
      BY <3>1, <2>4, <2>7, <2>9 DEF Leaves1
  <2>11. \A o \in Proc : o # i /\ IsClone(plan'[o]) => CloneOwn(plan[o])'
    BY <1>5, <2>10, RestOwn
  <2>12. Seen'
    BY <1>5, <2>7, SeenStays DEF OwnInv
  <2>13. Over(np) /\ Defined(np.vm)' /\ Defined(np.new)'
    <3>1. p.k + 1 > Len(p.steps)
      BY <2>1, <1>2
    <3> QED
      BY <1>4, <1>12, <2>3, <2>4, <2>7, <3>1 DEF Over
  <2>14. ASSUME NEW j \in Done(np), IsZclone(np.steps[j]) PROVE j \in Done(p) /\ IsZclone(p.steps[j])
    <3>1. j # p.k
      BY <2>14, <1>4, <1>12
    <3> QED
      BY <1>2, <1>4, <1>12, <2>14, <3>1 DEF Done
  <2>15. CloneOwn(np)'
    BY <1>4, <1>8, <2>4, <2>13, <2>14 DEF CloneOwn, Over, Done
  <2>16. CloneOwn(plan[i])'
    BY <1>3, <2>15 DEF CloneOwn, Over, Done
  <2> QED
    BY <2>8, <2>11, <2>12, <2>16 DEF OwnInv, IsClone
<1> QED
  BY <1>6, <1>9, <1>10, <1>11, <1>12

\* The zfs clone before step p.k is taken back.
TakenBack(p) ==
  \E k \in Kind : /\ IsZclone(p.steps[p.k - 1]) /\ p.steps[p.k - 1].do.new = V(p.new, k)
                  /\ V(p.new, k) \in vols /\ vols' = vols \ {V(p.new, k)}
                  /\ snaps' = snaps \ SnapsOf(V(p.new, k))
                  /\ origin' = [origin EXCEPT ![V(p.new, k)] = NoSnap]
                  /\ maker' = [maker EXCEPT ![V(p.new, k)] = 0] /\ UNCHANGED dom

\* Its snapshot is, and nothing else.
SnapTaken(p) ==
  /\ IsSnap(p.steps[p.k - 1]) /\ HasSnap(p.steps[p.k - 1].do.vol, p.new)
  /\ snaps' = snaps \ {TheSnap(p.steps[p.k - 1].do.vol, p.new)}

\* runPlan, the unwinding of a clone: the step before is taken back, or nothing happens.
LEMMA CloneGoesBack ==
  ASSUME IInv, NEW i \in Proc, IsClone(plan[i]), Unwind(i)
  PROVE  LET p == plan[i]
         IN /\ p.phase = "unwind" /\ p \in PlanRec /\ PlanOK(p) /\ CloneShape(p) /\ Busy(p)
            /\ p.k - 1 \in 1..(Len(p.steps) - 1) /\ p.k \in Nat /\ Len(p.steps) \in Nat
            /\ plan'[i].vm = p.vm /\ plan'[i].new = p.new /\ plan'[i].steps = p.steps /\ plan'[i].id = p.id
            /\ plan'[i].k = p.k - 1 /\ plan'[i].phase = "unwind"
            /\ \A o \in Proc : o # i => plan'[o] = plan[o]
            /\ rows' = rows
            /\ \/ UNCHANGED <<dom, vols, origin, maker>> /\ (snaps' = snaps \/ SnapTaken(p))
               \/ TakenBack(p)
<1> DEFINE u == plan[i].steps[plan[i].k - 1].undo
<1>0. PICK p : p = plan[i]
  OBVIOUS
<1>1. p.phase = "unwind" /\ p.k > 1 /\ p \in PlanRec /\ PlanOK(p) /\ CloneShape(p) /\ Busy(p)
  BY <1>0 DEF Unwind, IInv, PlansOK, PlanOK, Busy
<1>2. p.k \in Nat /\ Len(p.steps) \in Nat /\ p.k - 1 \in 1..Len(p.steps) /\ p.k - 1 \in 1..(Len(p.steps) - 1) /\ p.k <= Len(p.steps)
  <2>1. p.k \in Nat /\ p.at \in Nat /\ Len(p.steps) \in Nat /\ p.k <= p.at /\ p.at <= Len(p.steps)
    BY <1>1 DEF PlanRec, PlanOK
  <2> QED
    BY <1>1, <2>1
<1>3. PICK np : /\ np = plan'[i] /\ np.vm = p.vm /\ np.new = p.new /\ np.steps = p.steps /\ np.id = p.id
                /\ np.k = p.k - 1 /\ np.phase = "unwind"
  <2>1. plan'[i] = [p EXCEPT !.k = p.k - 1] \/ \E r : plan'[i] = AfterUndo(p, u, r)
    BY <1>0 DEF Unwind, IInv, PlansOK
  <2>2. p \in PlanRec
    BY <1>1
  <2>3. CASE plan'[i] = [p EXCEPT !.k = p.k - 1]
    BY <1>1, <2>2, <2>3 DEF PlanRec
  <2>4. ASSUME NEW r, plan'[i] = AfterUndo(p, u, r)
        PROVE  /\ plan'[i].vm = p.vm /\ plan'[i].new = p.new /\ plan'[i].steps = p.steps /\ plan'[i].id = p.id
               /\ plan'[i].k = p.k - 1 /\ plan'[i].phase = "unwind"
    BY <1>1, <2>2, <2>4 DEF PlanRec, AfterUndo
  <2> QED
    BY <2>1, <2>3, <2>4
<1>4. (\A o \in Proc : o # i => plan'[o] = plan[o]) /\ rows' = rows
  BY DEF Unwind, IInv, PlansOK
<1>5. \/ UNCHANGED <<dom, vols, origin, maker>> /\ (snaps' = snaps \/ SnapTaken(p))
      \/ TakenBack(p)
  <2>1. Unchanged \/ \E r \in Replies : Exec(u, plan[i], r)
    BY DEF Unwind
  <2>2. CASE Unchanged
    BY <2>2 DEF Unchanged, host
  <2>3. ASSUME NEW r \in Replies, Exec(u, plan[i], r), ~Unchanged
        PROVE  TakenBack(p) \/ (UNCHANGED <<dom, vols, origin, maker>> /\ (snaps' = snaps \/ SnapTaken(p)))
    <3>1. u = p.steps[p.k - 1].undo
      BY <1>0
    <3>2. CASE IsZclone(p.steps[p.k - 1])
      <4>1. PICK k \in Kind : p.steps[p.k - 1].do.new = V(p.new, k) /\ u = ZCmd("zdestroy", V(p.new, k))
        BY <1>1, <1>2, <3>1, <3>2, StepForms
      <4>2. u.op = "zdestroy" /\ u.vol = V(p.new, k)
        BY <4>1 DEF ZCmd
      <4>3. DestroyVol(u.vol, r)
        <5> HIDE DEF u
        <5> QED
          BY <2>3, <4>2 DEF Exec, Fails
      <4> QED
        BY <2>3, <3>2, <4>1, <4>2, <4>3 DEF DestroyVol, TakenBack
    <3>3. CASE ~IsZclone(p.steps[p.k - 1])
      <4>1. \E k \in Kind : /\ IsSnap(p.steps[p.k - 1]) /\ p.steps[p.k - 1].do.vol = V(p.vm, k)
                           /\ u = SCmd("dsnap", V(p.vm, k), p.new)
        BY <1>1, <1>2, <3>1, <3>3, StepForms
      <4>2. u.op = "dsnap" /\ u.vol = p.steps[p.k - 1].do.vol /\ u.tag = p.new
        BY <4>1 DEF SCmd
      <4>3. DestroySnap(u.vol, u.tag, r)
        <5> HIDE DEF u
        <5> QED
          BY <2>3, <4>2 DEF Exec, Fails
      <4> QED
        BY <2>3, <4>1, <4>2, <4>3 DEF DestroySnap, SnapTaken
    <3> QED
      BY <3>2, <3>3
  <2> QED
    BY <2>1, <2>2, <2>3
<1> QED
  BY <1>0, <1>1, <1>2, <1>3, <1>4, <1>5

\* runPlan, the unwinding of a clone.
LEMMA CloneUnwinds ==
  ASSUME IInv, OwnInv, NEW i \in Proc, IsClone(plan[i]), Unwind(i)
  PROVE  OwnInv'
<1>0. PICK p : p = plan[i]
  OBVIOUS
<1>1. p.phase = "unwind" /\ p \in PlanRec /\ CloneShape(p) /\ Busy(p) /\ CloneOwn(p)
  BY <1>0, CloneGoesBack DEF OwnInv
<1>2. p.k - 1 \in 1..(Len(p.steps) - 1) /\ p.k \in Nat /\ Len(p.steps) \in Nat
  BY <1>0, CloneGoesBack
<1>3. PICK np : /\ np = plan'[i] /\ np.vm = p.vm /\ np.new = p.new /\ np.steps = p.steps /\ np.id = p.id
                /\ np.k = p.k - 1 /\ np.phase = "unwind"
  BY <1>0, CloneGoesBack
<1>4. (\A o \in Proc : o # i => plan'[o] = plan[o]) /\ rows' = rows
  BY CloneGoesBack
<1>5. ~Over(p) /\ ~Over(np)
  BY <1>1, <1>3 DEF Over
<1>6. ASSUME NEW j \in Done(np) PROVE j \in Done(p) /\ j # p.k - 1
  <2>1. j \in 1..(p.k - 2)
    BY <1>2, <1>3, <1>6 DEF Done
  <2> QED
    BY <1>2, <2>1 DEF Done
<1>7. CASE UNCHANGED <<dom, vols, origin, maker>>
  <2>1. CloneOwn(np)'
    BY <1>1, <1>3, <1>5, <1>6, <1>7 DEF CloneOwn, Done, Over, Defined
  <2>2. Mild
    BY <1>7 DEF Mild, Defined
  <2>3. Seen'
    BY <1>4, <1>7 DEF OwnInv, Seen, Defined
  <2>4. CloneOwn(plan[i])'
    BY <1>3, <2>1 DEF CloneOwn, Over, Done
  <2> QED
    BY <1>4, <2>2, <2>3, <2>4, MildStep
<1>8. CASE TakenBack(p)
  <2>1. PICK k \in Kind : /\ IsZclone(p.steps[p.k - 1]) /\ p.steps[p.k - 1].do.new = V(p.new, k)
                          /\ V(p.new, k) \in vols /\ vols' = vols \ {V(p.new, k)}
                          /\ origin' = [origin EXCEPT ![V(p.new, k)] = NoSnap]
                          /\ maker' = [maker EXCEPT ![V(p.new, k)] = 0] /\ UNCHANGED dom
    BY <1>8 DEF TakenBack
  <2> DEFINE gone == V(p.new, k)
  <2>2. p.k - 1 \in Done(p)
    BY <1>2 DEF Done
  <2>3. ~Defined(p.new) /\ maker[gone] = p.id /\ gone \in Vol /\ p.new \in Name
    <3>1. p.new \in Name
      BY <1>1 DEF CloneShape
    <3> QED
      BY <1>1, <1>5, <2>1, <2>2, <3>1 DEF CloneOwn, V, Vol
  <2>4. Standing'
    <3>1. ASSUME NEW n \in Name, Defined(n) PROVE n # p.new /\ \A l \in Kind : V(n, l) \in vols'
      <4>1. n # p.new /\ \A l \in Kind : V(n, l) \in vols
        BY <2>3, <3>1 DEF OwnInv, Standing
      <4>2. \A l \in Kind : V(n, l) # gone
        BY <4>1 DEF V
      <4> QED
        BY <4>1, <4>2, <2>1
    <3> QED
      BY <2>1, <3>1 DEF OwnInv, Standing, Defined
  <2>5. Seen'
    BY <1>4, <2>1 DEF OwnInv, Seen, Defined
  <2>6. ASSUME NEW o \in Proc, o # i, IsClone(plan[o]) PROVE Leaves1(plan[o])
    <3>1. plan[o].id # p.id
      <4>1. Busy(plan[i])
        BY <1>0, <1>1
      <4> QED
        BY <1>0, <2>6, <4>1 DEF IInv, PlansOK
    <3>2. maker \in [Vol -> 0..MaxFire] /\ DOMAIN origin = Vol
      BY DEF IInv, HostOK, ZfsOK
    <3>3. \A v \in Vol : v \in vols /\ maker[v] = plan[o].id => v # gone
      BY <2>3, <3>1
    <3>4. \A v \in Vol : v # gone => maker'[v] = maker[v] /\ origin'[v] = origin[v] /\ (v \in vols => v \in vols')
      BY <2>1, <3>2
    <3> QED
      BY <2>1, <3>3, <3>4 DEF Leaves1, Defined
  <2>7. \A o \in Proc : o # i /\ IsClone(plan'[o]) => CloneOwn(plan[o])'
    BY <1>4, <2>6, RestOwn
  <2>8. CloneOwn(np)'
    <3>1. Defined(np.vm)'
      BY <1>1, <1>3, <2>1 DEF CloneOwn, Defined
    <3>2. ~Defined(np.new)'
      BY <1>3, <2>1, <2>3 DEF Defined
    <3>3. ASSUME NEW j \in Done(np), IsZclone(np.steps[j])
          PROVE  /\ np.steps[j].do.new \in vols' /\ maker'[np.steps[j].do.new] = np.id
                 /\ origin'[np.steps[j].do.new].vol = np.steps[j].do.vol
                 /\ \A l \in Done(np) : IsZclone(np.steps[l]) /\ np.steps[l].do.new = np.steps[j].do.new => j = l
      <4>1. j \in Done(p) /\ j # p.k - 1 /\ IsZclone(p.steps[j])
        BY <1>3, <1>6, <3>3
      <4>2. /\ p.steps[j].do.new \in vols /\ maker[p.steps[j].do.new] = p.id
            /\ origin[p.steps[j].do.new].vol = p.steps[j].do.vol
            /\ \A l \in Done(p) : IsZclone(p.steps[l]) /\ p.steps[l].do.new = p.steps[j].do.new => j = l
        BY <1>1, <4>1 DEF CloneOwn
      <4>3. p.steps[j].do.new # gone
        BY <2>1, <2>2, <4>1, <4>2
      <4>4. p.steps[j].do.new \in Vol /\ maker \in [Vol -> 0..MaxFire] /\ DOMAIN origin = Vol
        BY <4>2 DEF IInv, HostOK, ZfsOK
      <4>5. /\ p.steps[j].do.new \in vols' /\ maker'[p.steps[j].do.new] = p.id
            /\ origin'[p.steps[j].do.new].vol = p.steps[j].do.vol
        BY <2>1, <4>2, <4>3, <4>4
      <4> QED
        BY <1>3, <1>6, <4>2, <4>5
    <3> QED
      BY <1>5, <3>1, <3>2, <3>3 DEF CloneOwn, Over, Done
  <2>9. CloneOwn(plan[i])'
    BY <1>3, <2>8 DEF CloneOwn, Over, Done
  <2> QED
    BY <2>4, <2>5, <2>7, <2>9 DEF OwnInv, IsClone
<1> QED
  BY <1>0, <1>7, <1>8, CloneGoesBack

\* A plan that has ended is no clone.
LEMMA Ended ==
  ASSUME IInv, OwnInv, NEW i \in Proc, UNCHANGED <<host, rows>>,
         \A o \in Proc : o # i => plan'[o] = plan[o],
         plan'[i].kind = "none" \/ (~IsClone(plan[i]) /\ plan'[i].kind = plan[i].kind)
  PROVE  OwnInv'
<1>1. Mild /\ Seen'
  BY DEF host, Mild, Defined, OwnInv, Seen
<1>2. ~IsClone(plan'[i])
  BY DEF IsClone
<1> QED
  BY <1>1, <1>2, MildStep

\* runPlan.
LEMMA PlanStepOwn == ASSUME IInv, "delete" \notin Offered, OwnInv, NEW i \in Proc, PlanStep(i) PROVE OwnInv'
<1>1. CASE RunCmd(i)
  <2>1. CASE IsClone(plan[i])
    BY <1>1, <2>1, CloneCommand
  <2>2. CASE ~IsClone(plan[i])
    <3>1. Mild
      BY <1>1, <2>2, PlainCommand
    <3>2. rows' = rows /\ (\A o \in Proc : o # i => plan'[o] = plan[o]) /\ plan'[i].kind = plan[i].kind
      <4>1. plan[i] \in PlanRec /\ DOMAIN plan = Proc
        BY DEF IInv, PlansOK
      <4> QED
        BY <1>1, <4>1 DEF RunCmd, PlanRec
    <3>3. Seen'
      BY <3>1, <3>2, SeenStays DEF Mild, OwnInv
    <3> QED
      BY <2>2, <3>1, <3>2, <3>3, MildStep DEF IsClone
  <2> QED
    BY <2>1, <2>2
<1>2. CASE Unwind(i)
  <2>1. CASE IsClone(plan[i])
    BY <1>2, <2>1, CloneUnwinds
  <2>2. CASE ~IsClone(plan[i])
    <3> DEFINE p == plan[i]
    <3>1. p.phase = "unwind" /\ p.k > 1 /\ p \in PlanRec /\ PlanOK(p) /\ DOMAIN plan = Proc
      BY <1>2 DEF Unwind, IInv, PlansOK
    <3>2. p.k - 1 \in 1..Len(p.steps)
      <4>1. p.k \in Nat /\ p.at \in Nat /\ Len(p.steps) \in Nat /\ p.k <= p.at /\ p.at <= Len(p.steps)
        BY <3>1 DEF PlanRec, PlanOK
      <4> QED
        BY <3>1, <4>1
    <3>3. p.steps[p.k - 1].undo = NoCmd
      BY <2>2, <3>1, <3>2 DEF PlanOK, Busy
    <3>4. Unchanged /\ rows' = rows /\ plan' = [plan EXCEPT ![i] = [p EXCEPT !.k = p.k - 1]]
      BY <1>2, <3>1, <3>3 DEF Unwind
    <3>5. (\A o \in Proc : o # i => plan'[o] = plan[o]) /\ plan'[i].kind = plan[i].kind
      BY <3>1, <3>4 DEF PlanRec
    <3> QED
      BY <2>2, <3>4, <3>5, Ended DEF Unchanged
  <2> QED
    BY <2>1, <2>2
<1>3. CASE Failed(i) \/ Succeeded(i)
  <2>1. UNCHANGED <<host, rows>> /\ \E np : np.kind = "none" /\ plan' = [plan EXCEPT ![i] = np]
    <3>1. CASE Failed(i)
      BY <3>1 DEF Failed, Idle
    <3>2. CASE Succeeded(i)
      BY <3>2 DEF Succeeded, Idle
    <3> QED
      BY <1>3, <3>1, <3>2
  <2>2. DOMAIN plan = Proc
    BY DEF IInv, PlansOK
  <2>3. (\A o \in Proc : o # i => plan'[o] = plan[o]) /\ plan'[i].kind = "none"
    BY <2>1, <2>2
  <2> QED
    BY <2>1, <2>3, Ended
<1> QED
  BY <1>1, <1>2, <1>3 DEF PlanStep

\* Verbs are started from rows that are not ahead of the host.
LEMMA FireOwn == ASSUME IInv, OwnInv, NEW i \in Proc, NEW n \in Name, FireAny(i, n) PROVE OwnInv'
<1> DEFINE Some == \E kind, new, steps : Fire(i, kind, n, new, steps) /\ (kind \in {"clone", "goldenclone"} => rows[n].state # "none")
<1>1. Some
  <2>1. CASE FireStart(i, n) \/ FireForceOff(i, n)
    BY <2>1 DEF FireStart, FireForceOff
  <2>2. CASE FireDelete(i, n)
    BY <2>2 DEF FireDelete
  <2>3. CASE FireGolden(i, n)
    BY <2>3 DEF FireGolden
  <2>4. ASSUME NEW new \in Name, NEW sealed \in BOOLEAN, FireClone(i, n, new, sealed)
        PROVE  Some
    BY <2>4 DEF FireClone, Synthetic
  <2>5. ASSUME NEW s, FireRollback(i, n, s) PROVE Some
    BY <2>5 DEF FireRollback
  <2> HIDE DEF Some
  <2> QED
    BY <2>1, <2>2, <2>3, <2>4, <2>5 DEF FireAny
<1>2. PICK kind, new, steps : Fire(i, kind, n, new, steps) /\ (kind \in {"clone", "goldenclone"} => rows[n].state # "none")
  BY <1>1
<1>3. PICK np : np = [Idle EXCEPT !.kind = kind, !.vm = n, !.new = new, !.steps = steps, !.k = 1, !.id = fired + 1, !.phase = "run"]
  OBVIOUS
<1>4. np.kind = kind /\ np.vm = n /\ np.new = new /\ np.steps = steps /\ np.k = 1 /\ np.phase = "run"
  BY <1>3 DEF Idle
<1>5. UNCHANGED <<host, rows>> /\ plan'[i] = np /\ \A o \in Proc : o # i => plan'[o] = plan[o]
  BY <1>2, <1>3 DEF Fire, IInv, PlansOK
<1>6. Mild /\ Seen'
  BY <1>5 DEF host, Mild, Defined, OwnInv, Seen
<1>7. ASSUME IsClone(np) PROVE CloneOwn(np)'
  <2>1. Defined(n)
    BY <1>2, <1>4, <1>7 DEF IsClone, OwnInv, Seen
  <2>2. Done(np) = {} /\ steps # <<>> /\ steps \in Seq(StepRec)
    <3>1. IInv'
      BY FireAnyKeeps
    <3>2. PlanOK(plan[i])' /\ plan'[i] \in PlanRec
      BY <3>1 DEF IInv, PlansOK
    <3>3. PlanOK(np)' /\ np \in PlanRec
      BY <1>5, <3>2 DEF PlanOK, Busy
    <3> QED
      BY <1>4, <1>7, <3>3 DEF Done, PlanOK, CloneShape, PlanRec
  <2>3. ~Over(np)
    BY <1>4, <2>2 DEF Over
  <2> QED
    BY <1>4, <1>5, <2>1, <2>2, <2>3 DEF CloneOwn, Over, Done, Defined, host
<1>8. IsClone(plan'[i]) => CloneOwn(plan[i])'
  BY <1>5, <1>7 DEF CloneOwn, Over, Done
<1> QED
  BY <1>5, <1>6, <1>8, MildStep

\* The estate is read again.
LEMMA RefreshOwn == ASSUME IInv, OwnInv, RefreshEstate \/ RefreshZFS PROVE OwnInv'
<1>1. UNCHANGED <<dom, vols, origin, maker, plan>>
  BY DEF RefreshEstate, RefreshZFS, RefreshTo, host
<1>2. \A n \in Name : rows'[n].state \in {rows[n].state, dom[n].state}
  <2>1. rows \in [Name -> RowRec]
    BY DEF IInv, RowsOK
  <2>2. CASE RefreshEstate
    BY <2>1, <2>2 DEF RefreshEstate, RefreshTo, RowRec
  <2>3. CASE RefreshZFS
    <3> DEFINE row(n) == [rows[n] EXCEPT !.ds = RowOf(n).ds, !.snaps = RowOf(n).snaps, !.listed = n \in reg]
    <3>1. rows' = [n \in Name |-> row(n)]
      BY <2>3 DEF RefreshZFS, RefreshTo
    <3>2. ASSUME NEW n \in Name PROVE row(n).state = rows[n].state
      BY <2>1 DEF RowRec
    <3> HIDE DEF row
    <3> QED
      BY <3>1, <3>2
  <2> QED
    BY <2>2, <2>3
<1>3. Seen'
  BY <1>1, <1>2 DEF OwnInv, Seen, Defined
<1>4. Mild
  BY <1>1 DEF Mild, Defined
<1>5. PICK i : i \notin Proc
  BY NoSetContainsEverything
<1> QED
  BY <1>1, <1>3, <1>4, <1>5, MildStep

\* Guests, sanoid and other tools.
LEMMA OtherOwn ==
  ASSUME IInv, OwnInv,
         \/ \E n \in Name : GuestOff(n) \/ OtherStart(n) \/ Suspend(n)
         \/ \E v \in Vol : AutoSnap(v)
  PROVE  OwnInv'
<1>1. UNCHANGED <<rows, plan>>
  BY DEF GuestOff, OtherStart, Suspend, AutoSnap, Other
<1>2. Mild
  <2>1. ASSUME NEW n \in Name, GuestOff(n) PROVE Mild
    BY <2>1, MildOff DEF GuestOff
  <2>2. ASSUME NEW n \in Name, OtherStart(n) PROVE Mild
    <3>1. dom[n].state = "off" /\ Start(n, "ok")
      BY <2>2 DEF OtherStart
    <3>2. dom' = [dom EXCEPT ![n].state = "running"] /\ UNCHANGED <<vols, origin, maker>>
      BY <3>1 DEF Start
    <3> QED
      BY <3>1, <3>2, MildStart DEF Defined
  <2>3. ASSUME NEW n \in Name, Suspend(n) PROVE Mild
    BY <2>3, MildStart DEF Suspend, Defined
  <2>4. ASSUME NEW v \in Vol, AutoSnap(v) PROVE Mild
    BY <2>4 DEF AutoSnap, Snapshot, Mild, Defined
  <2> QED
    BY <2>1, <2>2, <2>3, <2>4
<1>3. Seen'
  BY <1>1, <1>2, SeenStays DEF Mild, OwnInv
<1>4. PICK i : i \notin Proc
  BY NoSetContainsEverything
<1> QED
  BY <1>1, <1>2, <1>3, <1>4, MildStep

LEMMA InitOwn == Init => OwnInv
<1> SUFFICES ASSUME Init PROVE OwnInv
  OBVIOUS
<1>1. PICK up, owned, spare : /\ up \subseteq owned /\ owned \subseteq Name
        /\ dom = [n \in Name |-> IF n \in owned THEN [state |-> IF n \in up THEN "running" ELSE "off",
                                                      pers |-> TRUE, disks |-> Kind] ELSE NoDom]
        /\ vols = [vm : owned, kind : Kind] \cup spare
  BY DEF Init
<1>2. \A n \in Name : Defined(n) => n \in owned /\ dom[n].pers
  BY <1>1 DEF Defined, NoDom
<1>3. Standing
  BY <1>1, <1>2 DEF Standing, V
<1>4. Seen
  BY DEF Init, Seen, RowOf, Defined
<1>5. \A p \in Proc : ~IsClone(plan[p])
  BY DEF Init, Idle, IsClone
<1> QED
  BY <1>3, <1>4, <1>5 DEF OwnInv

LEMMA NextOwn == ASSUME "delete" \notin Offered PROVE IInv /\ OwnInv /\ [Next]_vars => OwnInv'
<1> SUFFICES ASSUME IInv, OwnInv, [Next]_vars PROVE OwnInv'
  OBVIOUS
<1>1. CASE UNCHANGED vars
  BY <1>1 DEF vars, host, OwnInv, Standing, Seen, Defined, IsClone, CloneOwn, Over, Done
<1>2. ASSUME NEW p \in Proc, NEW n \in Name, FireAny(p, n) PROVE OwnInv'
  BY <1>2, FireOwn
<1>3. ASSUME NEW p \in Proc, PlanStep(p) PROVE OwnInv'
  BY <1>3, PlanStepOwn
<1>4. CASE RefreshEstate \/ RefreshZFS
  BY <1>4, RefreshOwn
<1>5. CASE \/ \E n \in Name : GuestOff(n) \/ OtherStart(n) \/ Suspend(n)
           \/ \E v \in Vol : AutoSnap(v)
  BY <1>5, OtherOwn
<1> QED
  BY <1>1, <1>2, <1>3, <1>4, <1>5 DEF Next

\* A clone that is over has its domain, and each disk of it by a zfs clone.
LEMMA OwnMeans == IInv /\ OwnInv => CloneOkMeansWhole
<1> SUFFICES ASSUME IInv, OwnInv, NEW q \in Proc, IsClone(plan[q]), Succeeds(q)
             PROVE  /\ Defined(plan[q].new) /\ dom[plan[q].new].disks = Kind
                    /\ \A v \in DisksOf(plan[q].new) : v \in vols /\ origin[v].vol = V(plan[q].vm, v.kind)
  BY DEF CloneOkMeansWhole
<1>1. PICK p : p = plan[q]
  OBVIOUS
<1>2. p \in PlanRec /\ PlanOK(p) /\ CloneShape(p) /\ CloneOwn(p) /\ Over(p)
  BY <1>1 DEF IInv, PlansOK, PlanOK, OwnInv, Succeeds, Over
<1>3. p.vm \in Name /\ p.new \in Name /\ Defined(p.new) /\ dom[p.new].disks = Kind
  BY <1>2 DEF CloneShape, CloneOwn, IInv, HostOK, DomOK, Defined
<1>4. ASSUME NEW k \in Kind PROVE V(p.new, k) \in vols /\ origin[V(p.new, k)].vol = V(p.vm, k)
  <2>1. PICK i \in 1..(Len(p.steps) - 1) :
          IsZclone(p.steps[i]) /\ p.steps[i].do.vol = V(p.vm, k) /\ p.steps[i].do.new = V(p.new, k)
    BY <1>2 DEF CloneShape
  <2>2. i \in Done(p)
    <3>1. p.k \in Nat /\ Len(p.steps) \in Nat /\ p.k > Len(p.steps)
      BY <1>2 DEF PlanRec, Over
    <3> QED
      BY <2>1, <3>1 DEF Done
  <2> QED
    BY <1>2, <2>1, <2>2 DEF CloneOwn
<1> QED
  BY <1>1, <1>3, <1>4 DEF DisksOf, V

\* Where nothing is deleted, and whatever else the operator does with however many
\* VMs, disks and plans at once: a clone that succeeded is whole, and one that
\* failed reports whatever it left (planClone, the unwinding of runPlan).
THEOREM CloneStaysWhole == ASSUME "delete" \notin Offered PROVE Spec => []CloneIsWhole
<1>1. Init => IInv /\ OwnInv
  BY InitIInv, InitOwn
<1>2. IInv /\ OwnInv /\ [Next]_vars => IInv' /\ OwnInv'
  BY NextKeeps, NextOwn
<1>3. IInv /\ OwnInv => CloneIsWhole
  BY IInvMeans, OwnMeans DEF CloneIsWhole
<1> QED
  BY <1>1, <1>2, <1>3, PTL DEF Spec

-----------------------------------------------------------------------------
(* Where nothing is rolled back either: the snapshots a clone has taken.   *)

SnapOwn(p) ==
  \A i \in Done(p) : IsSnap(p.steps[i]) =>
    /\ \E s \in snaps : s.vol = p.steps[i].do.vol /\ s.tag = p.new /\ s.by = p.id
    /\ \A j \in Done(p) : IsSnap(p.steps[j]) /\ p.steps[j].do.vol = p.steps[i].do.vol => i = j

SnapInv == \A p \in Proc : IsClone(plan[p]) => SnapOwn(plan[p])

\* No snapshot goes that o took for its clone.
Spares(o) == \A s \in snaps : s.by = o.id /\ s.tag = o.new /\ s.vol.vm = o.vm => s \in snaps'

LEMMA SnapStays ==
  ASSUME NEW o \in PlanRec, CloneShape(o), o.k <= Len(o.steps) + 1, SnapOwn(o), Spares(o)
  PROVE  SnapOwn(o)'
<1> SUFFICES ASSUME NEW i \in Done(o), IsSnap(o.steps[i])
             PROVE  \E s \in snaps' : s.vol = o.steps[i].do.vol /\ s.tag = o.new /\ s.by = o.id
  BY DEF SnapOwn, Done
<1>1. PICK s \in snaps : s.vol = o.steps[i].do.vol /\ s.tag = o.new /\ s.by = o.id
  BY DEF SnapOwn
<1>2. i \in 1..Len(o.steps)
  <2>1. o.k \in Nat /\ Len(o.steps) \in Nat
    BY DEF PlanRec
  <2> QED
    BY <2>1 DEF Done
<1>3. PICK k \in Kind : o.steps[i].do.vol = V(o.vm, k)
  BY <1>2, StepForms
<1>4. s.vol.vm = o.vm
  BY <1>1, <1>3 DEF V
<1> QED
  BY <1>1, <1>4 DEF Spares

\* A plan i goes on, and the others' snapshots stay.
LEMMA SnapStep ==
  ASSUME IInv, SnapInv, NEW i, \A o \in Proc : o # i => plan'[o] = plan[o],
         \A o \in Proc : o # i /\ IsClone(plan[o]) => Spares(plan[o]),
         i \in Proc /\ IsClone(plan'[i]) => SnapOwn(plan[i])'
  PROVE  SnapInv'
<1> SUFFICES ASSUME NEW o \in Proc, o # i, IsClone(plan'[o]) PROVE SnapOwn(plan[o])'
  BY DEF SnapInv, IsClone
<1>1. PICK q : q = plan[o]
  OBVIOUS
<1>2. plan'[o] = q /\ q \in PlanRec /\ PlanOK(q) /\ IsClone(q) /\ SnapOwn(q) /\ Spares(q)
  BY <1>1 DEF IInv, PlansOK, SnapInv, IsClone
<1>3. CloneShape(q) /\ q.k <= Len(q.steps) + 1
  <2>1. q.k \in Nat /\ q.at \in Nat /\ Len(q.steps) \in Nat /\ Busy(q) /\ q.phase \in {"idle", "run", "unwind"}
    BY <1>2 DEF PlanRec, PlanOK, Busy, IsClone
  <2> QED
    BY <1>2, <2>1 DEF PlanOK, Busy
<1>4. SnapOwn(q)'
  BY <1>2, <1>3, SnapStays
<1> QED
  BY <1>2, <1>4 DEF SnapOwn, Done

\* runPlan, a command of a plan that is no clone's: @golden goes, never what a clone took.
LEMMA PlainSpares ==
  ASSUME IInv, Offered \cap {"delete", "rollback"} = {}, NEW i \in Proc, ~IsClone(plan[i]), RunCmd(i),
         NEW o \in PlanRec, CloneShape(o)
  PROVE  Spares(o)
<1> DEFINE p == plan[i]
           c == p.steps[p.k].do
<1>1. /\ c.op \in {"start", "destroy", "shutdown", "reseal", "snapshot"} /\ c \in Cmds
      /\ c.op = "reseal" => c.tag = "golden"
  BY PlainForms
<1>2. PICK reply \in Replies : Exec(c, p, reply)
  BY PlainForms
<1>3. snaps \subseteq snaps' \/ (HasSnap(c.vol, "golden") /\ snaps' = snaps \ {TheSnap(c.vol, "golden")})
  <2>1. CASE Start(c.vm, reply) \/ Destroy(c.vm, reply) \/ Shutdown(c.vm, p.tries > 0, reply) \/ Fails(reply)
    BY <2>1 DEF Start, Destroy, PowerOff, Shutdown, Fails, Unchanged, host
  <2>2. CASE Snapshot(c.vol, c.tag, p.id, reply)
    BY <2>2 DEF Snapshot, Unchanged, host
  <2>3. CASE c.op = "reseal" /\ (DestroySnap(c.vol, c.tag, reply) \/ Unchanged)
    BY <1>1, <2>3 DEF DestroySnap, Unchanged, host
  <2> QED
    BY <1>1, <1>2, <2>1, <2>2, <2>3 DEF Exec
<1>4. "golden" # o.new
  BY HostAssumption DEF CloneShape
<1>5. HasSnap(c.vol, "golden") => TheSnap(c.vol, "golden").tag = "golden"
  BY DEF HasSnap, TheSnap
<1> QED
  BY <1>3, <1>4, <1>5 DEF Spares

\* A clone whose steps go on as they were has the snapshots it had.
LEMMA SnapSelf ==
  ASSUME IInv, SnapInv, NEW i \in Proc, IsClone(plan[i]), NEW np, np = plan'[i],
         np.new = plan[i].new, np.steps = plan[i].steps, np.id = plan[i].id,
         \A j \in Done(np) : IsSnap(np.steps[j]) => j \in Done(plan[i]),
         \A j \in Done(np) : IsSnap(np.steps[j]) =>
           \A s \in snaps : s.vol = np.steps[j].do.vol /\ s.tag = np.new /\ s.by = np.id => s \in snaps'
  PROVE  SnapOwn(plan[i])'
<1>1. PICK p : p = plan[i]
  OBVIOUS
<1>2. SnapOwn(p)
  BY <1>1 DEF SnapInv
<1>3. SnapOwn(np)'
  <2> SUFFICES ASSUME NEW j \in Done(np), IsSnap(np.steps[j])
               PROVE  /\ \E s \in snaps' : s.vol = np.steps[j].do.vol /\ s.tag = np.new /\ s.by = np.id
                      /\ \A l \in Done(np) : IsSnap(np.steps[l]) /\ np.steps[l].do.vol = np.steps[j].do.vol => j = l
    BY DEF SnapOwn, Done
  <2>1. j \in Done(p) /\ IsSnap(p.steps[j])
    BY <1>1
  <2>2. PICK s \in snaps : s.vol = p.steps[j].do.vol /\ s.tag = p.new /\ s.by = p.id
    BY <1>2, <2>1 DEF SnapOwn
  <2>3. s \in snaps' /\ s.vol = np.steps[j].do.vol /\ s.tag = np.new /\ s.by = np.id
    BY <1>1, <2>2
  <2>4. \A l \in Done(np) : IsSnap(np.steps[l]) /\ np.steps[l].do.vol = np.steps[j].do.vol => j = l
    BY <1>1, <1>2, <2>1 DEF SnapOwn
  <2> QED
    BY <2>3, <2>4
<1> QED
  BY <1>3 DEF SnapOwn, Done

\* runPlan, a command of a clone: it takes a snapshot where it took none.
LEMMA CloneSnaps ==
  ASSUME IInv, SnapInv, NEW i \in Proc, IsClone(plan[i]), RunCmd(i)
  PROVE  SnapInv' /\ snaps \subseteq snaps' /\ vols \subseteq vols'
<1> DEFINE c == plan[i].steps[plan[i].k].do
<1>0. PICK p : p = plan[i]
  OBVIOUS
<1>1. p \in PlanRec /\ CloneShape(p) /\ SnapOwn(p)
  BY <1>0, CloneGoes DEF SnapInv
<1>2. p.k \in 1..Len(p.steps) /\ p.k \in Nat /\ Len(p.steps) \in Nat
  BY <1>0, CloneGoes
<1>3. PICK np : np = plan'[i]
  OBVIOUS
<1>4. np.vm = p.vm /\ np.new = p.new /\ np.steps = p.steps /\ np.id = p.id
  BY <1>0, <1>3, CloneGoes
<1>5. \A o \in Proc : o # i => plan'[o] = plan[o]
  BY CloneGoes
<1>6. \/ Exec(c, p, "ok") /\ np.k = p.k + 1
      \/ Unchanged /\ np.k = p.k
  BY <1>0, <1>3, CloneGoes
<1>7. c = p.steps[p.k].do
  BY <1>0
<1>8. snaps \subseteq snaps' /\ vols \subseteq vols' /\ (IsSnap(p.steps[p.k]) /\ np.k = p.k + 1 => Snapshot(c.vol, p.new, p.id, "ok"))
  <2>1. CASE Unchanged /\ np.k = p.k
    BY <1>2, <2>1 DEF Unchanged, host
  <2>2. CASE Exec(c, p, "ok") /\ np.k = p.k + 1 /\ c.op = "snapshot" /\ c.tag = p.new
    BY <2>2 DEF Exec, Fails, Snapshot, Unchanged, host
  <2>3. CASE Exec(c, p, "ok") /\ c.op \in {"zclone", "virtclone"} /\ ~IsSnap(p.steps[p.k])
    BY <2>3 DEF Exec, Fails, CloneVol, VirtClone, Unchanged, host
  <2>4. (c.op = "snapshot" /\ c.tag = p.new) \/ (c.op \in {"zclone", "virtclone"} /\ ~IsSnap(p.steps[p.k]))
    BY <1>1, <1>2, <1>7, StepForms
  <2> QED
    BY <1>6, <2>1, <2>2, <2>3, <2>4
<1>9. SnapOwn(plan[i])'
  <2>1. CASE ~(IsSnap(p.steps[p.k]) /\ np.k = p.k + 1)
    <3>1. ASSUME NEW j \in Done(np), IsSnap(np.steps[j]) PROVE j \in Done(p)
      BY <1>2, <1>4, <1>6, <2>1, <3>1 DEF Done
    <3> QED
      BY <1>0, <1>3, <1>4, <1>8, <3>1, SnapSelf
  <2>2. CASE IsSnap(p.steps[p.k]) /\ np.k = p.k + 1
    <3>1. Done(np) = Done(p) \cup {p.k}
      BY <1>2, <2>2 DEF Done
    <3>2. ~HasSnap(c.vol, p.new) /\ \E s \in snaps' : s.vol = c.vol /\ s.tag = p.new /\ s.by = p.id
      <4>1. Snapshot(c.vol, p.new, p.id, "ok")
        BY <1>8, <2>2
      <4>2. ~HasSnap(c.vol, p.new) /\ [vol |-> c.vol, tag |-> p.new, at |-> NextAt(c.vol), by |-> p.id] \in snaps'
        BY <4>1 DEF Snapshot
      <4> QED
        BY <4>2
    <3>3. ASSUME NEW j \in Done(p), IsSnap(p.steps[j]) PROVE p.steps[j].do.vol # c.vol
      BY <1>1, <3>2, <3>3 DEF SnapOwn, HasSnap
    <3>4. ASSUME NEW j \in Done(np), IsSnap(np.steps[j])
          PROVE  /\ \E s \in snaps' : s.vol = np.steps[j].do.vol /\ s.tag = np.new /\ s.by = np.id
                 /\ \A l \in Done(np) : IsSnap(np.steps[l]) /\ np.steps[l].do.vol = np.steps[j].do.vol => j = l
      <4>1. CASE j = p.k
        BY <1>4, <1>7, <3>1, <3>2, <3>3, <4>1
      <4>2. CASE j # p.k
        <5>1. j \in Done(p) /\ IsSnap(p.steps[j])
          BY <1>4, <3>1, <3>4, <4>2
        <5>2. /\ \E s \in snaps : s.vol = p.steps[j].do.vol /\ s.tag = p.new /\ s.by = p.id
              /\ \A l \in Done(p) : IsSnap(p.steps[l]) /\ p.steps[l].do.vol = p.steps[j].do.vol => j = l
          BY <1>1, <5>1 DEF SnapOwn
        <5> QED
          BY <1>4, <1>7, <1>8, <3>1, <3>3, <5>1, <5>2
      <4> QED
        BY <4>1, <4>2
    <3>5. SnapOwn(np)'
      BY <3>4 DEF SnapOwn, Done
    <3> QED
      BY <1>3, <3>5 DEF SnapOwn, Done
  <2> QED
    BY <2>1, <2>2
<1>10. \A o \in Proc : o # i /\ IsClone(plan[o]) => Spares(plan[o])
  BY <1>8 DEF Spares
<1> QED
  BY <1>5, <1>8, <1>9, <1>10, SnapStep

\* runPlan, the unwinding of a clone: only what it made goes.
LEMMA CloneSnapsBack ==
  ASSUME IInv, OwnInv, SnapInv, NEW i \in Proc, IsClone(plan[i]), Unwind(i)
  PROVE  /\ SnapInv'
         /\ \A v \in vols \ vols' : maker[v] = plan[i].id
         /\ \A s \in snaps \ snaps' : s.vol \in vols' => s.by = plan[i].id
<1>0. PICK p : p = plan[i]
  OBVIOUS
<1>1. p.phase = "unwind" /\ p \in PlanRec /\ CloneShape(p) /\ CloneOwn(p) /\ SnapOwn(p) /\ Busy(p)
  BY <1>0, CloneGoesBack DEF OwnInv, SnapInv
<1>2. p.k - 1 \in Done(p) /\ p.k - 1 \in 1..Len(p.steps) /\ p.k \in Nat /\ p.vm \in Name /\ p.new \in Name /\ p.vm # p.new
  <2>1. p.k - 1 \in 1..(Len(p.steps) - 1) /\ p.k \in Nat /\ Len(p.steps) \in Nat
    BY <1>0, CloneGoesBack
  <2> QED
    BY <1>1, <2>1 DEF Done, CloneShape
<1>3. PICK np : /\ np = plan'[i] /\ np.vm = p.vm /\ np.new = p.new /\ np.steps = p.steps /\ np.id = p.id
                /\ np.k = p.k - 1
  BY <1>0, CloneGoesBack
<1>4. \A o \in Proc : o # i => plan'[o] = plan[o]
  BY CloneGoesBack
<1>5. ASSUME NEW j \in Done(np) PROVE j \in Done(p) /\ j # p.k - 1 /\ j \in 1..Len(p.steps)
  <2>1. j \in 1..(p.k - 2)
    BY <1>2, <1>3 DEF Done
  <2>2. Len(p.steps) \in Nat
    BY <1>1 DEF PlanRec
  <2> QED
    BY <1>2, <2>1, <2>2 DEF Done
<1>6. ASSUME NEW o \in Proc, o # i, IsClone(plan[o])
      PROVE  /\ plan[o].id # p.id /\ plan[o].vm \in Name /\ Defined(plan[o].vm)
  <2>1. Busy(plan[i])
    BY <1>0, <1>1
  <2>2. plan[o].id # p.id
    BY <1>0, <1>6, <2>1 DEF IInv, PlansOK
  <2>3. CloneShape(plan[o]) /\ CloneOwn(plan[o])
    BY <1>6 DEF IInv, PlansOK, PlanOK, OwnInv
  <2> QED
    BY <2>2, <2>3 DEF CloneShape, CloneOwn
<1>7. CASE UNCHANGED <<vols, snaps>>
  <2>1. \A o \in Proc : o # i /\ IsClone(plan[o]) => Spares(plan[o])
    BY <1>7 DEF Spares
  <2>2. SnapOwn(plan[i])'
    BY <1>0, <1>3, <1>5, <1>7, SnapSelf
  <2> QED
    BY <1>4, <1>7, <2>1, <2>2, SnapStep
<1>8. CASE SnapTaken(p) /\ vols' = vols
  <2> DEFINE v == p.steps[p.k - 1].do.vol
             gone == TheSnap(v, p.new)
  <2>1. PICK s \in snaps : s.vol = v /\ s.tag = p.new /\ s.by = p.id
    BY <1>1, <1>2, <1>8 DEF SnapTaken, SnapOwn
  <2>2. gone = s
    <3>1. gone \in snaps /\ gone.vol = v /\ gone.tag = p.new
      BY <2>1 DEF TheSnap
    <3> HIDE DEF gone, v
    <3> QED
      BY <2>1, <3>1 DEF IInv, HostOK, ZfsOK
  <2>3. snaps' = snaps \ {s}
    BY <1>8, <2>2 DEF SnapTaken
  <2>4. \A o \in Proc : o # i /\ IsClone(plan[o]) => Spares(plan[o])
    BY <1>6, <2>1, <2>3 DEF Spares
  <2>5. ASSUME NEW j \in Done(np), IsSnap(np.steps[j]) PROVE np.steps[j].do.vol # v
    <3>1. j \in Done(p) /\ j # p.k - 1 /\ IsSnap(p.steps[j])
      BY <1>3, <1>5, <2>5
    <3> QED
      BY <1>1, <1>2, <1>3, <1>8, <3>1 DEF SnapOwn, SnapTaken
  <2>6. SnapOwn(plan[i])'
    <3> HIDE DEF v
    <3> QED
      BY <1>0, <1>3, <1>5, <2>1, <2>3, <2>5, SnapSelf
  <2>7. SnapInv'
    BY <1>4, <2>4, <2>6, SnapStep
  <2> QED
    BY <1>0, <1>8, <2>1, <2>3, <2>7
<1>9. CASE TakenBack(p)
  <2>1. PICK k \in Kind : /\ IsZclone(p.steps[p.k - 1]) /\ p.steps[p.k - 1].do.new = V(p.new, k)
                          /\ vols' = vols \ {V(p.new, k)} /\ snaps' = snaps \ SnapsOf(V(p.new, k))
    BY <1>9 DEF TakenBack
  <2>2. maker[V(p.new, k)] = p.id /\ ~Defined(p.new)
    BY <1>1, <1>2, <2>1 DEF CloneOwn, Over
  <2>3. \A s \in snaps \ snaps' : s.vol = V(p.new, k)
    BY <2>1 DEF SnapsOf
  <2>4. \A o \in Proc : o # i /\ IsClone(plan[o]) => Spares(plan[o])
    <3>1. ASSUME NEW o \in Proc, o # i, IsClone(plan[o]), NEW s \in snaps, s.vol.vm = plan[o].vm PROVE s \in snaps'
      <4>1. plan[o].vm # p.new
        BY <1>6, <2>2, <3>1
      <4> QED
        BY <2>3, <3>1, <4>1 DEF V
    <3> QED
      BY <3>1 DEF Spares
  <2>5. SnapOwn(plan[i])'
    <3>1. ASSUME NEW j \in Done(np), IsSnap(np.steps[j]) PROVE np.steps[j].do.vol # V(p.new, k)
      <4>1. j \in 1..Len(p.steps) /\ IsSnap(p.steps[j])
        BY <1>3, <1>5, <3>1
      <4>2. PICK l \in Kind : p.steps[j].do.vol = V(p.vm, l)
        BY <1>1, <4>1, StepForms
      <4> QED
        BY <1>2, <1>3, <4>2 DEF V
    <3> QED
      BY <1>0, <1>3, <1>5, <2>3, <3>1, SnapSelf
  <2>6. SnapInv'
    BY <1>4, <2>4, <2>5, SnapStep
  <2>7. \A w \in vols \ vols' : maker[w] = p.id
    BY <2>1, <2>2
  <2>8. \A s \in snaps \ snaps' : s.vol \notin vols'
    BY <2>1, <2>3
  <2> QED
    BY <1>0, <2>6, <2>7, <2>8
<1>10. (UNCHANGED <<vols, snaps>>) \/ (SnapTaken(p) /\ vols' = vols) \/ TakenBack(p)
  BY <1>0, CloneGoesBack
<1> QED
  BY <1>7, <1>8, <1>9, <1>10

\* A plan that is no clone, or has ended, and the snapshots stay.
LEMMA SnapAlone ==
  ASSUME IInv, SnapInv, NEW i, snaps \subseteq snaps', \A o \in Proc : o # i => plan'[o] = plan[o],
         i \in Proc => ~IsClone(plan'[i])
  PROVE  SnapInv'
<1>1. \A o \in Proc : o # i /\ IsClone(plan[o]) => Spares(plan[o])
  BY DEF Spares
<1> QED
  BY <1>1, SnapStep

\* What a clone's step removes is its own.
TouchesOwn ==
  \A p \in Proc : IsClone(plan[p]) /\ plan'[p] # plan[p] =>
    /\ \A v \in vols \ vols' : maker[v] = plan[p].id
    /\ \A s \in snaps \ snaps' : s.vol \in vols' => s.by = plan[p].id

LEMMA FireSnap == ASSUME IInv, OwnInv, SnapInv, NEW i \in Proc, NEW n \in Name, FireAny(i, n) PROVE SnapInv' /\ TouchesOwn
<1>1. \E kind, new, steps : Fire(i, kind, n, new, steps)
  BY DEF FireAny, FireStart, FireForceOff, FireDelete, FireClone, FireGolden, FireRollback
<1>2. PICK kind, new, steps : Fire(i, kind, n, new, steps)
  BY <1>1
<1>3. PICK np : np = [Idle EXCEPT !.kind = kind, !.vm = n, !.new = new, !.steps = steps, !.k = 1, !.id = fired + 1, !.phase = "run"]
  OBVIOUS
<1>4. np.k = 1
  BY <1>3 DEF Idle
<1>5. snaps' = snaps /\ plan'[i] = np /\ plan[i].phase = "idle" /\ \A o \in Proc : o # i => plan'[o] = plan[o]
  BY <1>2, <1>3 DEF Fire, IInv, PlansOK, host
<1>6. SnapOwn(np)'
  BY <1>4 DEF SnapOwn, Done
<1>7. SnapOwn(plan[i])'
  BY <1>5, <1>6 DEF SnapOwn, Done
<1>8. \A o \in Proc : o # i /\ IsClone(plan[o]) => Spares(plan[o])
  BY <1>5 DEF Spares
<1>9. ~IsClone(plan[i])
  BY <1>5 DEF IInv, PlansOK, PlanOK, Busy, IsClone
<1> QED
  BY <1>5, <1>7, <1>8, <1>9, SnapStep DEF TouchesOwn

LEMMA PlanStepSnap ==
  ASSUME IInv, Offered \cap {"delete", "rollback"} = {}, OwnInv, SnapInv, NEW i \in Proc, PlanStep(i)
  PROVE  SnapInv' /\ TouchesOwn
<1>1. \A o \in Proc : o # i => plan'[o] = plan[o]
  BY DEF PlanStep, RunCmd, Unwind, Failed, Succeeded, IInv, PlansOK
<1>2. SUFFICES /\ SnapInv'
               /\ IsClone(plan[i]) => /\ \A v \in vols \ vols' : maker[v] = plan[i].id
                                      /\ \A s \in snaps \ snaps' : s.vol \in vols' => s.by = plan[i].id
  BY <1>1 DEF TouchesOwn
<1>3. CASE RunCmd(i) /\ IsClone(plan[i])
  BY <1>3, CloneSnaps
<1>4. CASE RunCmd(i) /\ ~IsClone(plan[i])
  <2>1. ASSUME NEW o \in Proc, o # i, IsClone(plan[o]) PROVE Spares(plan[o])
    <3>1. plan[o] \in PlanRec /\ CloneShape(plan[o])
      BY <2>1 DEF IInv, PlansOK, PlanOK
    <3> QED
      BY <1>4, <3>1, PlainSpares
  <2>2. ~IsClone(plan'[i])
    <3>1. plan[i] \in PlanRec /\ DOMAIN plan = Proc
      BY DEF IInv, PlansOK
    <3>2. plan'[i].kind = plan[i].kind
      BY <1>4, <3>1 DEF RunCmd, PlanRec
    <3> QED
      BY <1>4, <3>2 DEF IsClone
  <2> QED
    BY <1>1, <1>4, <2>1, <2>2, SnapStep
<1>5. CASE Unwind(i) /\ IsClone(plan[i])
  BY <1>5, CloneSnapsBack
<1>6. CASE Unwind(i) /\ ~IsClone(plan[i])
  <2> DEFINE p == plan[i]
  <2>1. p.phase = "unwind" /\ p.k > 1 /\ p \in PlanRec /\ PlanOK(p) /\ DOMAIN plan = Proc
    BY <1>6 DEF Unwind, IInv, PlansOK
  <2>2. p.k - 1 \in 1..Len(p.steps)
    <3>1. p.k \in Nat /\ p.at \in Nat /\ Len(p.steps) \in Nat /\ p.k <= p.at /\ p.at <= Len(p.steps)
      BY <2>1 DEF PlanRec, PlanOK
    <3> QED
      BY <2>1, <3>1
  <2>3. p.steps[p.k - 1].undo = NoCmd
    BY <1>6, <2>1, <2>2 DEF PlanOK, Busy
  <2>4. snaps' = snaps /\ plan' = [plan EXCEPT ![i] = [p EXCEPT !.k = p.k - 1]]
    BY <1>6, <2>1, <2>3 DEF Unwind, Unchanged, host
  <2>5. ~IsClone(plan'[i])
    BY <1>6, <2>1, <2>4 DEF PlanRec, IsClone
  <2> QED
    BY <1>1, <1>6, <2>4, <2>5, SnapAlone
<1>7. CASE Failed(i) \/ Succeeded(i)
  <2>1. UNCHANGED host /\ \E np : np.kind = "none" /\ plan' = [plan EXCEPT ![i] = np]
    <3>1. CASE Failed(i)
      BY <3>1 DEF Failed, Idle
    <3>2. CASE Succeeded(i)
      BY <3>2 DEF Succeeded, Idle
    <3> QED
      BY <1>7, <3>1, <3>2
  <2>2. ~IsClone(plan'[i])
    BY <2>1 DEF IInv, PlansOK, IsClone
  <2>3. snaps' = snaps /\ vols' = vols
    BY <2>1 DEF host
  <2> QED
    BY <1>1, <2>2, <2>3, SnapAlone
<1> QED
  BY <1>3, <1>4, <1>5, <1>6, <1>7 DEF PlanStep

LEMMA NextSnap ==
  ASSUME Offered \cap {"delete", "rollback"} = {}
  PROVE  IInv /\ OwnInv /\ SnapInv /\ [Next]_vars => SnapInv' /\ TouchesOwn
<1> SUFFICES ASSUME IInv, OwnInv, SnapInv, [Next]_vars PROVE SnapInv' /\ TouchesOwn
  OBVIOUS
<1>1. CASE plan' = plan /\ snaps \subseteq snaps'
  <2>1. PICK i : i \notin Proc
    BY NoSetContainsEverything
  <2> QED
    BY <1>1, <2>1, SnapAlone DEF TouchesOwn
<1>2. ASSUME NEW p \in Proc, NEW n \in Name, FireAny(p, n) PROVE SnapInv' /\ TouchesOwn
  BY <1>2, FireSnap
<1>3. ASSUME NEW p \in Proc, PlanStep(p) PROVE SnapInv' /\ TouchesOwn
  BY <1>3, PlanStepSnap
<1>4. CASE UNCHANGED vars \/ RefreshEstate \/ RefreshZFS
  BY <1>1, <1>4 DEF vars, host, RefreshEstate, RefreshZFS, RefreshTo
<1>5. ASSUME NEW n \in Name, GuestOff(n) \/ OtherStart(n) \/ Suspend(n) PROVE SnapInv' /\ TouchesOwn
  BY <1>1, <1>5 DEF GuestOff, OtherStart, Suspend, Other, PowerOff, Start, Unchanged, host
<1>6. ASSUME NEW v \in Vol, AutoSnap(v) PROVE SnapInv' /\ TouchesOwn
  BY <1>1, <1>6 DEF AutoSnap, Other, Snapshot, Unchanged, host
<1> QED
  BY <1>2, <1>3, <1>4, <1>5, <1>6 DEF Next

\* Where nothing is deleted or rolled back: what a clone removes when it unwinds is
\* its own, whoever takes the same name meanwhile (planClone, the unwinding of runPlan).
THEOREM CloneKeepsOff == ASSUME Offered \cap {"delete", "rollback"} = {} PROVE Spec => CloneTouchesOwn
<1>1. Init => IInv /\ OwnInv /\ SnapInv
  <2>1. Init => SnapInv
    BY DEF Init, Idle, IsClone, SnapInv
  <2> QED
    BY <2>1, InitIInv, InitOwn
<1>2. IInv /\ OwnInv /\ SnapInv /\ [Next]_vars => IInv' /\ OwnInv' /\ SnapInv' /\ [TouchesOwn]_vars
  BY NextKeeps, NextOwn, NextSnap
<1>3. CloneTouchesOwn <=> [][TouchesOwn]_vars
  BY DEF CloneTouchesOwn, TouchesOwn
<1> QED
  BY <1>1, <1>2, <1>3, PTL DEF Spec

-----------------------------------------------------------------------------
(* One plan at a time, on a host that is this one, where no command fails by *)
(* itself and a zvol is let go of within the retries.                      *)

Alone == (\A p, q \in Proc : p = q) /\ MaxFault = 0 /\ MaxOther = 0 /\ MaxHold <= Retries /\ ~Remote

Do(p, i)  == p.steps[i].do
Ahead(p)  == p.k..Len(p.steps)
Zd(n, k)  == ZCmd("zdestroy", V(n, k))
Up(n)     == dom[n].state \in {"running", "paused"}
Present(n) == \E v \in vols : v.vm = n

\* A delete: the disk called data last, and never alone.
DelShape(p) ==
  /\ p.vm \in Name
  /\ \A i \in 1..Len(p.steps) :
       Do(p, i) \in {Cmd("destroy", p.vm), Cmd("undefine", p.vm), Zd(p.vm, "root"), Zd(p.vm, "data")}
  /\ \A i \in 1..Len(p.steps) : Do(p, i) = Zd(p.vm, "data") =>
       i = Len(p.steps) /\ \E j \in 1..(i - 1) : Do(p, j) = Zd(p.vm, "root")
  /\ \A i \in 1..Len(p.steps) : Do(p, i) = Zd(p.vm, "root") =>
       i = Len(p.steps) \/ Do(p, Len(p.steps)) = Zd(p.vm, "data")

Deletes(p) == p.kind \in {"delete", "reconcile"} /\ p.phase = "run"

\* How far it is: a zvol it waits for is let go of while it may still try.
Waits(p) == p.k <= Len(p.steps) /\ Do(p, p.k).op = "zdestroy" =>
              Up(p.vm) \/ p.tries + hold[Do(p, p.k).vol] <= MaxHold
DelRun(p) ==
  /\ \A i \in Done(p) : Do(p, i).op = "zdestroy" => Do(p, i).vol \notin vols
  /\ \A i \in Ahead(p) : Do(p, i) = Zd(p.vm, "data") => V(p.vm, "data") \in vols
  /\ Waits(p)

NotHalf(p) == Defined(p.vm) \/ V(p.vm, "root") \notin vols \/ Dependents(SnapsOf(V(p.vm, "root"))) # {}

\* A golden: what is unsealed is sealed later on.
GoldShape(p) ==
  /\ p.vm \in Name
  /\ \A k \in Kind : \E i \in 1..Len(p.steps) : Do(p, i).op = "snapshot" /\ Do(p, i).vol = V(p.vm, k)
  /\ \A i \in 1..Len(p.steps) : Do(p, i).op = "reseal" =>
       \E j \in 1..Len(p.steps) : j > i /\ Do(p, j).op = "snapshot" /\ Do(p, j).vol = Do(p, i).vol
Sealed(v, id) == \E s \in snaps : s.vol = v /\ s.tag = "golden" /\ s.by = id
GoldRun(p) ==
  \A i \in Done(p) : Do(p, i).op = "snapshot" =>
    \/ Sealed(Do(p, i).vol, p.id)
    \/ \E j \in Ahead(p) : Do(p, j).op = "snapshot" /\ Do(p, j).vol = Do(p, i).vol

\* A clone: what it makes is not what the name had.
NewRun(p) ==
  /\ p.phase = "run" => \A i \in Done(p) : IsZclone(p.steps[i]) => p.steps[i].do.new \in vols
  /\ p.new \in reg => \E w \in vols : w.vm = p.new /\ \A i \in Done(p) : IsZclone(p.steps[i]) => p.steps[i].do.new # w

PlanWhole(p) ==
  /\ Deletes(p) => DelShape(p) /\ DelRun(p)
  /\ p.kind = "delete" /\ p.phase = "unwind" => NotHalf(p)
  /\ p.kind = "golden" /\ p.phase = "run" => GoldShape(p) /\ GoldRun(p)
  /\ IsClone(p) => NewRun(p)

\* What the inventory lists is there, or is being struck off.
RegKept == \A n \in reg : Present(n) \/ \E p \in Proc : Deletes(plan[p]) /\ plan[p].vm = n /\ plan[p].k > Len(plan[p].steps)

WholeInv == RegKept /\ \A p \in Proc : PlanWhole(plan[p])

\* Where nothing is started: rows show what is up, domains are persistent, and
\* a delete begins with the domain.
OffHost ==
  \A n \in Name :
    /\ Up(n) => rows[n].state \in {"running", "paused"}
    /\ Defined(n) => dom[n].pers
    /\ rows[n].state # "none" => rows[n].pers
NoStart(p) == \A i \in 1..Len(p.steps) : Do(p, i).op # "start" /\ (Do(p, i).op = "undefine" => p.kind = "delete")
OffShape(p) ==
  /\ \E i \in 1..Len(p.steps) : Do(p, i) = Cmd("undefine", p.vm)
  /\ \A i \in 1..Len(p.steps) : Do(p, i).op = "undefine" => Do(p, i) = Cmd("undefine", p.vm)
  /\ \A i, j \in 1..Len(p.steps) : Do(p, i) = Cmd("undefine", p.vm) /\ Do(p, j) = Cmd("destroy", p.vm) => j < i
OffRun(p) ==
  /\ Up(p.vm) => \E j \in Ahead(p) : Do(p, j) = Cmd("destroy", p.vm)
  /\ (\E i \in Done(p) : Do(p, i) = Cmd("undefine", p.vm)) => ~Defined(p.vm)
  /\ DestroysDisks(p) /\ (\A i \in 1..Len(p.steps) : Do(p, i) # Zd(p.vm, "data")) => V(p.vm, "data") \notin vols
PlanOff(p) == NoStart(p) /\ (p.kind = "delete" /\ p.phase = "run" => OffShape(p) /\ OffRun(p))

OffInv == OffHost /\ \A p \in Proc : PlanOff(plan[p])

-----------------------------------------------------------------------------
(* The plans, command by command.                                          *)

\* One more command, if there is one.
LEMMA Grown ==
  ASSUME NEW S, NEW s \in Seq(S), NEW w \in Seq(S), NEW x, Len(w) \in {0, 1}, Len(w) = 1 => w[1] = x
  PROVE  /\ s \o w \in Seq(S) /\ Len(s \o w) = Len(s) + Len(w)
         /\ Len(w) = 1 => (s \o w)[Len(s) + Len(w)] = x
         /\ \A i \in 1..Len(s) : (s \o w)[i] = s[i]
<1>1. Len(w) \in Nat /\ Len(s) \in Nat
  BY LenProperties
<1>2. /\ s \o w \in Seq(S) /\ Len(s \o w) = Len(s) + Len(w)
      /\ \A i \in 1..(Len(s) + Len(w)) : (s \o w)[i] = IF i <= Len(s) THEN s[i] ELSE w[i - Len(s)]
  BY <1>1, ConcatProperties
<1>3. ASSUME NEW i \in 1..Len(s) PROVE (s \o w)[i] = s[i]
  <2>1. i \in 1..(Len(s) + Len(w)) /\ i <= Len(s)
    BY <1>1
  <2> QED
    BY <1>2, <2>1
<1>4. ASSUME Len(w) = 1 PROVE (s \o w)[Len(s) + Len(w)] = x
  <2>1. PICK m : m = Len(s) + 1
    OBVIOUS
  <2>2. m \in 1..(Len(s) + Len(w)) /\ ~(m <= Len(s)) /\ m - Len(s) = 1
    BY <1>1, <1>4, <2>1
  <2>3. (s \o w)[m] = w[m - Len(s)]
    BY <1>2, <2>2
  <2> QED
    BY <1>4, <2>1, <2>2, <2>3
<1> QED
  BY <1>2, <1>3, <1>4

LEMMA Places ==
  ASSUME NEW x \in {0, 1}, NEW y \in {0, 1}, NEW z \in {0, 1}, NEW w \in {0, 1}, NEW i \in 1..(((x + y) + z) + w)
  PROVE  (x = 1 /\ i = 1) \/ (y = 1 /\ i = x + y) \/ (z = 1 /\ i = (x + y) + z) \/ (w = 1 /\ i = ((x + y) + z) + w)
  OBVIOUS

\* planDelete: the disk called data comes last and never alone, the domain before
\* the disks, and a disk of that name that is there is in the plan.
LEMMA DeleteShape ==
  ASSUME NEW p, NEW n \in Name, NEW r \in RowRec, p.vm = n, p.steps = DeleteSteps(n, r), HostOK
  PROVE  /\ DelShape(p)
         /\ \A i \in 1..Len(p.steps) : Do(p, i) = Zd(n, "data") => V(n, "data") \in vols
         /\ DestroysDisks(p) /\ (\A i \in 1..Len(p.steps) : Do(p, i) # Zd(n, "data")) => V(n, "data") \notin vols
         /\ r.pers => \E i \in 1..Len(p.steps) : Do(p, i) = Cmd("undefine", n)
         /\ \A i, j \in 1..Len(p.steps) : Do(p, i) = Cmd("undefine", n) /\ Do(p, j) = Cmd("destroy", n) => j < i
         /\ r.state # "off" => \E i \in 1..Len(p.steps) : Do(p, i) = Cmd("destroy", n)
         /\ \A i \in 1..Len(p.steps) : Do(p, i).op # "start"
<1> DEFINE a == r.state # "off"
           b == r.pers
           c == r.ds
           d == r.ds /\ "data" \in Kind /\ V(n, "data") \in vols
           A == Cmd("destroy", n)
           B == Cmd("undefine", n)
           C == Zd(n, "root")
           D == Zd(n, "data")
<1>0. PICK wa, wb, wc, wd :
        wa = When(a, <<A>>) /\ wb = When(b, <<B>>) /\ wc = When(c, <<C>>) /\ wd = When(d, <<D>>)
  OBVIOUS
<1> DEFINE cs == wa \o wb \o wc \o wd
           la == Len(wa)
           lb == la + Len(wb)
           lc == lb + Len(wc)
           ld == lc + Len(wd)
<1>1. a \in BOOLEAN /\ b \in BOOLEAN /\ c \in BOOLEAN /\ d \in BOOLEAN /\ (d => c)
  BY DEF RowRec
<1>2. /\ A.op = "destroy" /\ B.op = "undefine" /\ C.op = "zdestroy" /\ D.op = "zdestroy"
      /\ C.vol = V(n, "root") /\ D.vol = V(n, "data") /\ V(n, "root") # V(n, "data")
      /\ A # B /\ A # C /\ A # D /\ B # C /\ B # D /\ C # D
  BY DEF Cmd, Zd, ZCmd, V
<1>3. V(n, "data") \in vols => "data" \in Kind
  BY DEF HostOK, ZfsOK, V, Vol
<1>01. d => c
  OBVIOUS
<1>4. DeleteSteps(n, r) = Steps(cs)
  BY <1>0 DEF DeleteSteps, Zd
<1> HIDE DEF A, B, C, D
<1>00. /\ wa = <<A>> \/ wa = <<>>
       /\ wb = <<B>> \/ wb = <<>>
       /\ wc = <<C>> \/ wc = <<>>
       /\ wd = <<D>> \/ wd = <<>>
       /\ Len(wa) = IF a THEN 1 ELSE 0
       /\ Len(wb) = IF b THEN 1 ELSE 0
       /\ Len(wc) = IF c THEN 1 ELSE 0
       /\ Len(wd) = IF d THEN 1 ELSE 0
  BY <1>0 DEF When
<1>05. /\ cs \in Seq({A, B, C, D}) /\ Len(cs) = ld
       /\ Len(wa) = 1 => cs[1] = A
       /\ Len(wb) = 1 => cs[lb] = B
       /\ Len(wc) = 1 => cs[lc] = C
       /\ Len(wd) = 1 => cs[ld] = D
       /\ \A i \in 1..ld : \/ Len(wa) = 1 /\ i = 1 /\ cs[i] = A
                           \/ Len(wb) = 1 /\ i = lb /\ cs[i] = B
                           \/ Len(wc) = 1 /\ i = lc /\ cs[i] = C
                           \/ Len(wd) = 1 /\ i = ld /\ cs[i] = D
  <2> DEFINE S == {A, B, C, D}
             s2 == wa \o wb
             s3 == s2 \o wc
             s4 == s3 \o wd
  <2>0. ASSUME NEW x \in S, NEW w, w = <<x>> \/ w = <<>>
        PROVE  w \in Seq(S) /\ Len(w) \in {0, 1} /\ (Len(w) = 1 <=> w = <<x>>) /\ (Len(w) = 0 <=> w = <<>>) /\ (Len(w) = 1 => w[1] = x)
    <3> HIDE DEF S
    <3>1. <<x>> \in Seq(S) /\ <<>> \in Seq(S) /\ Len(<<x>>) = 1 /\ <<x>>[1] = x /\ Len(<<>>) = 0
      OBVIOUS
    <3>2. CASE w = <<x>>
      <4>1. w # <<>> /\ Len(w) # 0
        BY <3>1, <3>2
      <4> QED
        BY <3>1, <3>2, <4>1
    <3>3. CASE w = <<>>
      <4>1. w # <<x>> /\ Len(w) # 1
        BY <3>1, <3>3
      <4> QED
        BY <3>1, <3>3, <4>1
    <3> QED
      BY <2>0, <3>2, <3>3
  <2>1. A \in S /\ B \in S /\ C \in S /\ D \in S
    OBVIOUS
  <2> HIDE DEF S
  <2>2. /\ wa \in Seq(S) /\ Len(wa) \in {0, 1} /\ (Len(wa) = 1 => wa[1] = A)
        /\ wb \in Seq(S) /\ Len(wb) \in {0, 1} /\ (Len(wb) = 1 => wb[1] = B)
        /\ wc \in Seq(S) /\ Len(wc) \in {0, 1} /\ (Len(wc) = 1 => wc[1] = C)
        /\ wd \in Seq(S) /\ Len(wd) \in {0, 1} /\ (Len(wd) = 1 => wd[1] = D)
    BY <2>0, <2>1, <1>00
  <2>3. /\ s2 \in Seq(S) /\ Len(s2) = lb /\ (Len(wb) = 1 => s2[lb] = B) /\ (\A i \in 1..la : s2[i] = wa[i])
    BY ONLY <2>2, Grown
  <2> HIDE DEF s2, lb
  <2>4. /\ s3 \in Seq(S) /\ Len(s3) = lc /\ (Len(wc) = 1 => s3[lc] = C) /\ (\A i \in 1..lb : s3[i] = s2[i])
    <3>1. /\ s2 \o wc \in Seq(S) /\ Len(s2 \o wc) = Len(s2) + Len(wc)
          /\ Len(wc) = 1 => (s2 \o wc)[Len(s2) + Len(wc)] = C
          /\ \A i \in 1..Len(s2) : (s2 \o wc)[i] = s2[i]
      BY ONLY <2>2, <2>3, Grown
    <3> QED
      BY <2>3, <3>1
  <2> HIDE DEF s3, lc
  <2>5. /\ s4 \in Seq(S) /\ Len(s4) = ld /\ (Len(wd) = 1 => s4[ld] = D) /\ (\A i \in 1..lc : s4[i] = s3[i])
    <3>1. /\ s3 \o wd \in Seq(S) /\ Len(s3 \o wd) = Len(s3) + Len(wd)
          /\ Len(wd) = 1 => (s3 \o wd)[Len(s3) + Len(wd)] = D
          /\ \A i \in 1..Len(s3) : (s3 \o wd)[i] = s3[i]
      BY ONLY <2>2, <2>4, Grown
    <3> QED
      BY <2>4, <3>1
  <2> HIDE DEF s4
  <2> USE DEF lb, lc
  <2>6. /\ la = 1 => s4[1] = A
        /\ Len(wb) = 1 => s4[lb] = B
        /\ Len(wc) = 1 => s4[lc] = C
        /\ Len(wd) = 1 => s4[ld] = D
    <3>1. PICK x, y, z : x = la /\ y = Len(wb) /\ z = Len(wc)
      OBVIOUS
    <3>2. x \in {0, 1} /\ y \in {0, 1} /\ z \in {0, 1} /\ lb = x + y /\ lc = (x + y) + z
      BY <2>2, <3>1
    <3>3. /\ x = 1 => 1 \in 1..x /\ 1 \in 1..(x + y) /\ 1 \in 1..((x + y) + z)
          /\ y = 1 => (x + y) \in 1..(x + y) /\ (x + y) \in 1..((x + y) + z)
          /\ z = 1 => ((x + y) + z) \in 1..((x + y) + z)
      BY ONLY <3>2
    <3> HIDE DEF lb, lc
    <3>4. /\ la = 1 => 1 \in 1..la /\ 1 \in 1..lb /\ 1 \in 1..lc
          /\ Len(wb) = 1 => lb \in 1..lb /\ lb \in 1..lc
          /\ Len(wc) = 1 => lc \in 1..lc
      BY <3>1, <3>2, <3>3
    <3>5. la = 1 => s4[1] = A
      BY ONLY <2>2, <2>3, <2>4, <2>5, <3>4
    <3>6. Len(wb) = 1 => s4[lb] = B
      BY ONLY <2>3, <2>4, <2>5, <3>4
    <3>7. Len(wc) = 1 => s4[lc] = C
      BY ONLY <2>4, <2>5, <3>4
    <3> QED
      BY <2>5, <3>5, <3>6, <3>7
  <2>7. ASSUME NEW i \in 1..ld
        PROVE  (la = 1 /\ i = 1) \/ (Len(wb) = 1 /\ i = lb) \/ (Len(wc) = 1 /\ i = lc) \/ (Len(wd) = 1 /\ i = ld)
    <3>1. PICK x, y, z, w : x = Len(wa) /\ y = Len(wb) /\ z = Len(wc) /\ w = Len(wd)
      OBVIOUS
    <3>2. x \in {0, 1} /\ y \in {0, 1} /\ z \in {0, 1} /\ w \in {0, 1}
      BY <2>2, <3>1
    <3>3. i \in 1..(((x + y) + z) + w)
      BY <3>1
    <3>4. (x = 1 /\ i = 1) \/ (y = 1 /\ i = x + y) \/ (z = 1 /\ i = (x + y) + z) \/ (w = 1 /\ i = ((x + y) + z) + w)
      BY ONLY <3>2, <3>3, Places
    <3> QED
      BY <3>1, <3>4
  <2>8. s4 = cs
    BY DEF s2, s3, s4
  <2> QED
    BY <2>5, <2>6, <2>7, <2>8 DEF S
<1> HIDE DEF a, b, c, d, cs
<1>5. /\ cs \in Seq({A, B, C, D}) /\ Len(cs) = ld
      /\ a => cs[1] = A
      /\ b => cs[lb] = B
      /\ c => cs[lc] = C
      /\ d => cs[ld] = D
      /\ \A i \in 1..ld : \/ a /\ i = 1 /\ cs[i] = A
                          \/ b /\ i = lb /\ cs[i] = B
                          \/ c /\ i = lc /\ cs[i] = C
                          \/ d /\ i = ld /\ cs[i] = D
  <2> HIDE DEF la, lb, lc, ld
  <2> QED
    BY ONLY <1>00, <1>05
<1>6. Len(p.steps) = ld /\ \A i \in 1..ld : Do(p, i) = cs[i]
  <2>1. Steps(cs) = [i \in 1..Len(cs) |-> Step(cs[i], NoCmd)]
    BY <1>5 DEF Steps
  <2>2. Steps(cs) \in Seq({Step(x, NoCmd) : x \in {A, B, C, D}}) /\ Len(Steps(cs)) = Len(cs)
    BY <2>1, <1>5
  <2> QED
    BY <1>4, <1>5, <2>1, <2>2 DEF Do, Step
<1>7. d <=> c /\ V(n, "data") \in vols
  BY <1>3 DEF c, d
<1> HIDE DEF a, b, c, d
<1>8. /\ ld \in 0..4
      /\ a => 1 \in 1..ld
      /\ b => lb \in 1..ld
      /\ c => lc \in 1..ld
      /\ d => ld \in 1..ld
      /\ d => lc \in 1..(ld - 1)
      /\ c /\ ~d => lc = ld
      /\ a /\ b => 1 < lb
  BY ONLY <1>00, <1>01
<1> HIDE DEF la, lb, lc, ld
<1>9. DelShape(p)
  <2>1. \A i \in 1..Len(p.steps) : Do(p, i) \in {A, B, C, D}
    BY <1>5, <1>6
  <2>2. \A i \in 1..Len(p.steps) : Do(p, i) = D => i = Len(p.steps) /\ \E j \in 1..(i - 1) : Do(p, j) = C
    <3> SUFFICES ASSUME NEW i \in 1..Len(p.steps), Do(p, i) = D
                 PROVE  i = Len(p.steps) /\ \E j \in 1..(i - 1) : Do(p, j) = C
      OBVIOUS
    <3>1. d /\ i = ld
      BY <1>2, <1>5, <1>6
    <3>2. c /\ lc \in 1..(ld - 1) /\ Do(p, lc) = C
      BY <1>1, <1>5, <1>6, <1>8, <3>1
    <3> QED
      BY <3>1, <3>2, <1>6
  <2>3. \A i \in 1..Len(p.steps) : Do(p, i) = C => i = Len(p.steps) \/ Do(p, Len(p.steps)) = D
    <3> SUFFICES ASSUME NEW i \in 1..Len(p.steps), Do(p, i) = C
                 PROVE  i = Len(p.steps) \/ Do(p, Len(p.steps)) = D
      OBVIOUS
    <3>1. c /\ i = lc
      BY <1>2, <1>5, <1>6
    <3> QED
      BY <3>1, <1>5, <1>6, <1>8
  <2> QED
    BY <2>1, <2>2, <2>3 DEF DelShape, A, B, C, D
<1>10. \A i \in 1..Len(p.steps) : Do(p, i) = D => V(n, "data") \in vols
  BY <1>2, <1>5, <1>6, <1>7
<1>11. DestroysDisks(p) /\ (\A i \in 1..Len(p.steps) : Do(p, i) # D) => V(n, "data") \notin vols
  <2> SUFFICES ASSUME DestroysDisks(p), \A i \in 1..Len(p.steps) : Do(p, i) # D PROVE V(n, "data") \notin vols
    OBVIOUS
  <2>1. PICK i \in DOMAIN p.steps : p.steps[i].do.op = "zdestroy"
    BY DEF DestroysDisks
  <2>2. i \in 1..Len(p.steps)
    <3>1. p.steps = Steps(cs) /\ Steps(cs) = [j \in 1..Len(cs) |-> Step(cs[j], NoCmd)]
      BY <1>4, <1>5 DEF Steps
    <3> QED
      BY <3>1, <1>5, <1>6
  <2>3. cs[i].op = "zdestroy"
    BY <2>1, <2>2, <1>6 DEF Do
  <2>4. c \/ d
    BY <2>2, <2>3, <1>2, <1>5, <1>6
  <2>5. ~d
    BY <1>5, <1>6, <1>8
  <2> QED
    BY <2>4, <2>5, <1>7
<1>12. r.pers => \E i \in 1..Len(p.steps) : Do(p, i) = B
  BY <1>5, <1>6, <1>8 DEF b
<1>13. \A i, j \in 1..Len(p.steps) : Do(p, i) = B /\ Do(p, j) = A => j < i
  <2> SUFFICES ASSUME NEW i \in 1..Len(p.steps), NEW j \in 1..Len(p.steps), Do(p, i) = B, Do(p, j) = A
               PROVE  j < i
    OBVIOUS
  <2>1. b /\ i = lb /\ a /\ j = 1
    BY <1>2, <1>5, <1>6
  <2> QED
    BY <2>1, <1>8
<1>14. r.state # "off" => \E i \in 1..Len(p.steps) : Do(p, i) = A
  BY <1>5, <1>6, <1>8 DEF a
<1>15. \A i \in 1..Len(p.steps) : Do(p, i).op # "start"
  BY <1>2, <1>5, <1>6
<1> QED
  BY <1>9, <1>10, <1>11, <1>12, <1>13, <1>14, <1>15 DEF A, B, D

\* planReconcile: the system disk, if it is there.
LEMMA ReconcileShape ==
  ASSUME NEW p, NEW n \in Name, NEW r \in RowRec, p.vm = n, p.steps = ReconcileSteps(n, r)
  PROVE  DelShape(p) /\ \A i \in 1..Len(p.steps) : Do(p, i) = Zd(n, "root") /\ i = 1 /\ Len(p.steps) = 1
<1> DEFINE c == Zd(n, "root")
<1>1. CASE r.ds
  <2>1. p.steps = Steps(<<c>>)
    BY <1>1 DEF ReconcileSteps, When, Zd
  <2>2. Len(<<c>>) = 1 /\ <<c>>[1] = c /\ <<c>> \in Seq({c})
    OBVIOUS
  <2>3. Steps(<<c>>) = <<Step(c, NoCmd)>>
    BY <2>2 DEF Steps
  <2>4. Len(p.steps) = 1 /\ Do(p, 1) = c
    BY <2>1, <2>3 DEF Do, Step
  <2>5. \A i \in 1..Len(p.steps) : i = 1
    BY <2>4
  <2>6. c # Zd(n, "data")
    BY DEF Zd, ZCmd, V
  <2> QED
    BY <2>4, <2>5, <2>6 DEF DelShape
<1>2. CASE ~r.ds
  <2>1. p.steps = <<>>
    BY <1>2 DEF ReconcileSteps, When, Steps
  <2>2. \A i \in 1..Len(p.steps) : FALSE
    BY <2>1
  <2> QED
    BY <2>2 DEF DelShape
<1> QED
  BY <1>1, <1>2

\* At i, s goes on as the piece t does at l.
GoesOn(s, i, t, l) == s[i] = t[l] /\ (l + 1 \in DOMAIN t => i + 1 \in DOMAIN s /\ s[i + 1] = t[l + 1])

\* What flattening gives keeps what a piece has in a row.
LEMMA FlatNext ==
  ASSUME NEW S, NEW ss \in Seq(Seq(S)), ss # <<>>
  PROVE  \A i \in DOMAIN FlattenSeq(ss) : \E j \in DOMAIN ss : \E l \in DOMAIN ss[j] :
           GoesOn(FlattenSeq(ss), i, ss[j], l)
<1> DEFINE n == Len(ss)
           f == CHOOSE f : Flat(ss, f, n)
           At(s, i, j, l) == GoesOn(s, i, ss[j], l)
           Good(m) == f[m] \in Seq(S) /\ \A i \in DOMAIN f[m] : \E j \in DOMAIN ss : \E l \in DOMAIN ss[j] : At(f[m], i, j, l)
           Bad == {m \in 1..n : ~Good(m)}
<1>1. n \in Nat /\ n # 0 /\ DOMAIN ss = 1..n
  OBVIOUS
<1>2. Flat(ss, f, n)
  BY <1>1, FlatThere
<1>3. FlattenSeq(ss) = f[n]
  BY <1>1 DEF FlattenSeq, Flat
<1>4. Bad = {}
  <2> SUFFICES ASSUME Bad # {} PROVE FALSE
    OBVIOUS
  <2>1. PICK m \in Bad : \A y \in Bad : m =< y
    <3>1. Bad \in SUBSET Nat
      BY <1>1
    <3> HIDE DEF Bad
    <3> QED
      BY <3>1, Least
  <2>2. m \in 1..n /\ m \in Nat /\ ~Good(m)
    <3>1. m \in 1..n /\ ~Good(m)
      OBVIOUS
    <3> HIDE DEF Good, n
    <3> QED
      BY <3>1, <1>1
  <2>3. f[m] = IF m = 1 THEN ss[m] ELSE f[m-1] \o ss[m]
    <3> HIDE DEF f
    <3> QED
      BY <1>2, <2>2 DEF Flat
  <2>4. ss[m] \in Seq(S) /\ m \in DOMAIN ss
    BY <2>2
  <2>5. CASE m = 1
    <3>1. f[m] = ss[m]
      BY <2>3, <2>5
    <3> HIDE DEF f
    <3>2. Good(m)
      BY <3>1, <2>4 DEF GoesOn
    <3> QED
      BY <3>2, <2>2
  <2>6. CASE m # 1
    <3>1. m - 1 \in 1..n /\ Good(m - 1)
      <4>1. m - 1 \in 1..n /\ ~(m =< m - 1)
        <5> HIDE DEF Good, n
        <5> QED
          BY <2>2, <2>6, <1>1
      <4>2. m - 1 \notin Bad
        <5> HIDE DEF Bad
        <5> QED
          BY <2>1, <4>1
      <4> HIDE DEF Good
      <4> QED
        BY <4>1, <4>2
    <3> HIDE DEF f
    <3> DEFINE a == f[m-1]
               b == ss[m]
    <3>2. a \in Seq(S) /\ b \in Seq(S) /\ f[m] = a \o b
      BY <2>3, <2>4, <2>6, <3>1
    <3>3. \A i \in DOMAIN a : \E j \in DOMAIN ss : \E l \in DOMAIN ss[j] : At(a, i, j, l)
      BY <3>1
    <3> HIDE DEF a, At
    <3>4. /\ a \o b \in Seq(S) /\ DOMAIN (a \o b) = 1..(Len(a) + Len(b)) /\ Len(a) \in Nat /\ Len(b) \in Nat
          /\ DOMAIN a = 1..Len(a) /\ DOMAIN b = 1..Len(b)
      <4> HIDE DEF b
      <4> QED
        BY <3>2, LenProperties, ConcatProperties
    <3>5. /\ \A i \in DOMAIN a : i \in DOMAIN (a \o b) /\ (a \o b)[i] = a[i]
          /\ \A l \in DOMAIN b : Len(a) + l \in DOMAIN (a \o b) /\ (a \o b)[Len(a) + l] = b[l]
      <4> HIDE DEF b
      <4> QED
        BY ONLY <3>2, InTwo
    <3>6. ASSUME NEW i \in DOMAIN (a \o b)
          PROVE  \E j \in DOMAIN ss : \E l \in DOMAIN ss[j] : At(a \o b, i, j, l)
      <4>1. CASE i <= Len(a)
        <5>1. i \in DOMAIN a
          <6> HIDE DEF b
          <6> QED
            BY <3>4, <4>1
        <5>2. PICK j \in DOMAIN ss : \E l \in DOMAIN ss[j] : At(a, i, j, l)
          BY <3>3, <5>1
        <5>3. PICK l \in DOMAIN ss[j] : At(a, i, j, l)
          BY <5>2
        <5>4. At(a \o b, i, j, l)
          <6> HIDE DEF b
          <6> QED
            BY <3>5, <5>1, <5>3 DEF At, GoesOn
        <5> QED
          BY <5>4
      <4>2. CASE ~(i <= Len(a))
        <5>1. PICK l : l = i - Len(a)
          OBVIOUS
        <5>2. l \in DOMAIN b /\ Len(a) + l = i /\ l \in Int /\ Len(a) + (l + 1) = i + 1
          <6> HIDE DEF b
          <6> QED
            BY <3>4, <4>2, <5>1
        <5>3. At(a \o b, i, m, l)
          <6>1. (a \o b)[i] = b[l]
            <7> HIDE DEF b
            <7> QED
              BY <3>5, <5>2
          <6>2. l + 1 \in DOMAIN b => i + 1 \in DOMAIN (a \o b) /\ (a \o b)[i + 1] = b[l + 1]
            <7> HIDE DEF b
            <7>1. PICK h : h = l + 1
              OBVIOUS
            <7>2. h \in DOMAIN b => Len(a) + h \in DOMAIN (a \o b) /\ (a \o b)[Len(a) + h] = b[h]
              BY <3>5
            <7> QED
              BY <5>2, <7>1, <7>2
          <6> QED
            BY <6>1, <6>2 DEF At, GoesOn
        <5> QED
          BY <2>4, <5>2, <5>3
      <4> QED
        BY <4>1, <4>2
    <3>7. Good(m)
      <4> HIDE DEF b
      <4> QED
        BY <3>2, <3>4, <3>6
    <3> QED
      BY <3>7, <2>2
  <2> QED
    BY <2>5, <2>6
<1>5. Good(n)
  <2>1. n \in 1..n
    BY <1>1
  <2> HIDE DEF Good
  <2> QED
    BY <1>4, <2>1
<1>6. \A i \in DOMAIN f[n] : \E j \in DOMAIN ss : \E l \in DOMAIN ss[j] : At(f[n], i, j, l)
  BY <1>5
<1> HIDE DEF f, n
<1> QED
  BY <1>3, <1>6

\* What is said for a disk stays in a row.
LEMMA PiecesNext ==
  ASSUME NEW r, r.disks = Kind, NEW S, NEW P \in [Kind -> Seq(S)]
  PROVE  \A i \in DOMAIN Chained(r, P) : \E k \in Kind : \E l \in DOMAIN P[k] : GoesOn(Chained(r, P), i, P[k], l)
<1> DEFINE ds == DiskList(r)
           ss == [i \in DOMAIN ds |-> P[ds[i]]]
<1>1. ds \in Seq(Kind) /\ ds # <<>>
  BY Listed
<1> HIDE DEF ds
<1>2. Len(ds) \in Nat /\ Len(ds) # 0 /\ DOMAIN ds = 1..Len(ds)
  BY <1>1
<1>3. ss \in [1..Len(ds) -> Seq(S)]
  BY <1>1, <1>2
<1>4. \A j \in DOMAIN ss : ds[j] \in Kind /\ ss[j] = P[ds[j]]
  BY <1>1
<1>5. Chained(r, P) = FlattenSeq(ss)
  BY DEF Chained, ds
<1> HIDE DEF ss
<1>6. ss \in Seq(Seq(S))
  BY <1>2, <1>3, SeqDef
<1>7. ss # <<>>
  BY <1>2, <1>3, <1>6
<1>8. \A i \in DOMAIN FlattenSeq(ss) : \E j \in DOMAIN ss : \E l \in DOMAIN ss[j] :
           GoesOn(FlattenSeq(ss), i, ss[j], l)
  BY <1>6, <1>7, FlatNext
<1>9. ASSUME NEW i \in DOMAIN FlattenSeq(ss)
      PROVE  \E k \in Kind : \E l \in DOMAIN P[k] : GoesOn(FlattenSeq(ss), i, P[k], l)
  <2>1. PICK j \in DOMAIN ss : \E l \in DOMAIN ss[j] : GoesOn(FlattenSeq(ss), i, ss[j], l)
    BY <1>8
  <2>2. ds[j] \in Kind /\ \E l \in DOMAIN P[ds[j]] : GoesOn(FlattenSeq(ss), i, P[ds[j]], l)
    BY <2>1, <1>4
  <2> QED
    BY <2>2
<1> QED
  BY <1>5, <1>9

\* MakeGolden: every disk is sealed, and one that is unsealed is sealed right after.
LEMMA GoldenShape ==
  ASSUME NEW p, NEW n \in Name, NEW r, r.disks = Kind, p.vm = n, p.steps = GoldenSteps(n, r)
  PROVE  GoldShape(p) /\ \A i \in 1..Len(p.steps) : Do(p, i).op \in {"shutdown", "reseal", "snapshot"}
<1> DEFINE R(k) == SCmd("reseal", V(n, k), "golden")
           T(k) == SCmd("snapshot", V(n, k), "golden")
           P == [k \in Kind |-> <<R(k), T(k)>>]
           S == {R(k) : k \in Kind} \cup {T(k) : k \in Kind}
           all == Chained(r, P)
           h == Cmd("shutdown", n)
           cs == <<h>> \o all
<1>1. \A k \in Kind : R(k) \in S /\ T(k) \in S
  OBVIOUS
<1>2. \A k \in Kind : /\ R(k).op = "reseal" /\ R(k).vol = V(n, k) /\ T(k).op = "snapshot" /\ T(k).vol = V(n, k)
  BY DEF SCmd
<1>3. h.op = "shutdown"
  BY DEF Cmd
<1>4. p.steps = Steps(cs)
  <2> DEFINE ds == DiskList(r)
  <2>1. \A i \in DOMAIN ds : ds[i] \in Kind
    BY Listed
  <2>2. [i \in DOMAIN ds |-> <<SCmd("reseal", V(n, ds[i]), "golden"), SCmd("snapshot", V(n, ds[i]), "golden")>>]
        = [i \in DOMAIN ds |-> P[ds[i]]]
    <3> HIDE DEF ds
    <3> QED
      BY <2>1
  <2> QED
    BY <2>2 DEF ForDisks, Chained, GoldenSteps
<1>5. \A x \in S : x.op \in {"reseal", "snapshot"}
  BY <1>2
<1> HIDE DEF R, T, S, h
<1>6. /\ P \in [Kind -> Seq(S)]
      /\ \A k \in Kind : DOMAIN P[k] = 1..2 /\ P[k][1] = R(k) /\ P[k][2] = T(k)
  <2>1. ASSUME NEW k \in Kind PROVE /\ <<R(k), T(k)>> \in Seq(S) /\ DOMAIN <<R(k), T(k)>> = 1..2
                                    /\ <<R(k), T(k)>>[1] = R(k) /\ <<R(k), T(k)>>[2] = T(k)
    BY <1>1
  <2> QED
    BY <2>1
<1> HIDE DEF P
<1>7. all \in Seq(S) /\ \A k \in Kind : \A l \in DOMAIN P[k] : \E i \in DOMAIN all : all[i] = P[k][l]
  BY <1>6, Pieces
<1>8. \A i \in DOMAIN all : \E k \in Kind : \E l \in DOMAIN P[k] : GoesOn(all, i, P[k], l)
  BY <1>6, PiecesNext
<1> HIDE DEF all
<1>9. /\ cs \in Seq(S \cup {h}) /\ Len(cs) = 1 + Len(all) /\ Len(all) \in Nat /\ DOMAIN all = 1..Len(all)
      /\ cs[1] = h /\ \A i \in 1..Len(all) : cs[1 + i] = all[i]
  <2>1. <<h>> \in Seq(S \cup {h}) /\ all \in Seq(S \cup {h}) /\ Len(<<h>>) = 1 /\ <<h>>[1] = h
    BY <1>7
  <2>2. 1 \in DOMAIN <<h>>
    OBVIOUS
  <2>3. /\ \A i \in DOMAIN <<h>> : i \in DOMAIN (<<h>> \o all) /\ (<<h>> \o all)[i] = <<h>>[i]
        /\ \A l \in DOMAIN all : Len(<<h>>) + l \in DOMAIN (<<h>> \o all) /\ (<<h>> \o all)[Len(<<h>>) + l] = all[l]
    BY ONLY <2>1, InTwo
  <2> QED
    BY <2>1, <2>2, <2>3, LenProperties, ConcatProperties
<1> HIDE DEF cs
<1>10. Len(p.steps) = 1 + Len(all) /\ \A i \in 1..(1 + Len(all)) : Do(p, i) = cs[i]
  <2>1. Steps(cs) = [i \in 1..Len(cs) |-> Step(cs[i], NoCmd)]
    BY <1>9 DEF Steps
  <2>2. Steps(cs) \in Seq({Step(x, NoCmd) : x \in S \cup {h}}) /\ Len(Steps(cs)) = Len(cs)
    BY <2>1, <1>9
  <2> QED
    BY <1>4, <1>9, <2>1, <2>2 DEF Do, Step
<1>11. \A i \in 1..(1 + Len(all)) : i = 1 \/ (i - 1 \in 1..Len(all) /\ i = 1 + (i - 1))
  BY <1>9
<1>12. \A i \in 1..Len(all) : 1 + i \in 1..(1 + Len(all)) /\ Do(p, 1 + i) = all[i]
  BY <1>9, <1>10
<1>13. ASSUME NEW k \in Kind PROVE \E i \in 1..Len(p.steps) : Do(p, i).op = "snapshot" /\ Do(p, i).vol = V(p.vm, k)
  <2>1. PICK i \in DOMAIN all : all[i] = P[k][2]
    <3>1. 2 \in DOMAIN P[k]
      BY <1>6
    <3> QED
      BY <3>1, <1>7
  <2>2. all[i] = T(k) /\ i \in 1..Len(all)
    BY <1>6, <1>9, <2>1
  <2> QED
    BY <2>2, <1>2, <1>10, <1>12
<1>14. ASSUME NEW i \in 1..Len(p.steps), Do(p, i).op = "reseal"
       PROVE  \E j \in 1..Len(p.steps) : j > i /\ Do(p, j).op = "snapshot" /\ Do(p, j).vol = Do(p, i).vol
  <2>1. i # 1
    BY <1>14, <1>3, <1>9, <1>10
  <2>2. PICK g \in 1..Len(all) : i = 1 + g
    BY <2>1, <1>10, <1>11
  <2>3. g \in DOMAIN all /\ Do(p, i) = all[g]
    BY <2>2, <1>9, <1>12
  <2>4. PICK k \in Kind : \E l \in DOMAIN P[k] : GoesOn(all, g, P[k], l)
    BY <1>8, <2>3
  <2>5. PICK l \in DOMAIN P[k] : GoesOn(all, g, P[k], l)
    BY <2>4
  <2>6. l = 1
    BY <2>3, <2>5, <1>2, <1>6, <1>14 DEF GoesOn
  <2>7. g + 1 \in 1..Len(all) /\ all[g + 1] = T(k) /\ all[g] = R(k)
    BY <2>5, <2>6, <1>6, <1>9 DEF GoesOn
  <2>8. 1 + (g + 1) \in 1..Len(p.steps) /\ Do(p, 1 + (g + 1)) = T(k) /\ 1 + (g + 1) > i
    BY <2>2, <2>7, <1>9, <1>10, <1>12
  <2> QED
    BY <2>3, <2>7, <2>8, <1>2
<1>15. ASSUME NEW i \in 1..Len(p.steps) PROVE Do(p, i).op \in {"shutdown", "reseal", "snapshot"}
  <2>1. CASE i = 1
    BY <2>1, <1>3, <1>9, <1>10
  <2>2. CASE i # 1
    <3>1. PICK g \in 1..Len(all) : i = 1 + g
      BY <2>2, <1>10, <1>11
    <3>2. all[g] \in S
      BY <1>7, <1>9
    <3> QED
      BY <3>1, <3>2, <1>5, <1>12
  <2> QED
    BY <2>1, <2>2
<1> QED
  BY <1>13, <1>14, <1>15 DEF GoldShape

-----------------------------------------------------------------------------
(* The whole, step by step.                                                *)

LEMMA FiredIs ==
  ASSUME NEW kind, NEW n, NEW new, NEW steps
  PROVE  LET np == Fired(kind, n, new, steps) IN
         /\ np.kind = kind /\ np.vm = n /\ np.new = new /\ np.steps = steps /\ np.k = 1 /\ np.tries = 0
         /\ np.phase = "run" /\ Done(np) = {} /\ np.id = fired + 1
<1>1. 1..(1 - 1) = {}
  OBVIOUS
<1> QED
  BY <1>1 DEF Fired, Idle, Done

\* What the plans and the inventory are asked is asked of the host, which stays.
LEMMA WholeSame ==
  ASSUME NEW q, UNCHANGED <<host, reg>>, PlanWhole(q)
  PROVE  PlanWhole(q)'
  BY DEF host, PlanWhole, Deletes, DelShape, DelRun, Waits, Do, Done, Ahead, Zd, Up, NotHalf, Defined, Dependents, SnapsOf,
         GoldShape, GoldRun, Sealed, NewRun, IsClone

\* A plan that is fired while there is no other.
LEMMA FirePlan ==
  ASSUME Alone, IInv, WholeInv, NEW i \in Proc, NEW kind, NEW n, NEW new, NEW steps, Fire(i, kind, n, new, steps),
         PlanWhole(Fired(kind, n, new, steps))
  PROVE  WholeInv'
<1>0. PICK np : np = Fired(kind, n, new, steps)
  OBVIOUS
<1>1. plan[i].phase = "idle" /\ UNCHANGED <<host, reg, rows>> /\ plan'[i] = np
  BY <1>0 DEF Fire, Fired, IInv, PlansOK
<1>2. \A q \in Proc : q = i
  BY DEF Alone
<1>3. PlanWhole(np)'
  BY <1>0, <1>1, WholeSame
<1>4. \A q \in Proc : PlanWhole(plan[q])'
  <2>1. PlanWhole(plan[i])'
    BY <1>1, <1>3 DEF PlanWhole, Deletes, DelShape, DelRun, Waits, Do, Done, Ahead, NotHalf, GoldShape, GoldRun, NewRun, IsClone
  <2> QED
    BY <2>1, <1>2
<1>5. RegKept'
  <2>1. \A m \in reg : Present(m)
    BY <1>1, <1>2 DEF WholeInv, RegKept, Deletes
  <2> QED
    BY <1>1, <2>1 DEF RegKept, Present, host
<1> QED
  BY <1>4, <1>5 DEF WholeInv

LEMMA FireWhole == ASSUME Alone, IInv, WholeInv, NEW i \in Proc, NEW n \in Name, FireAny(i, n) PROVE WholeInv'
<1>0. HostOK /\ rows[n] \in RowRec /\ (rows[n].state # "none" => rows[n].disks = Kind)
  BY DEF IInv, RowsOK
<1>1. ASSUME NEW kind, NEW new, NEW steps, kind \in {"start", "forceoff", "rollback"}, Fire(i, kind, n, new, steps)
      PROVE  WholeInv'
  <2>1. PICK np : np = Fired(kind, n, new, steps)
    OBVIOUS
  <2>2. np.kind = kind
    BY <2>1, FiredIs
  <2>3. PlanWhole(np)
    BY <1>1, <2>2 DEF PlanWhole, Deletes, IsClone
  <2> QED
    BY <1>1, <2>1, <2>3, FirePlan
<1>2. CASE FireStart(i, n) \/ FireForceOff(i, n)
  BY <1>1, <1>2 DEF FireStart, FireForceOff
<1>3. ASSUME NEW s, FireRollback(i, n, s) PROVE WholeInv'
  BY <1>1, <1>3 DEF FireRollback
<1>4. ASSUME NEW kind, NEW new, NEW steps, kind \in {"delete", "reconcile"}, Fire(i, kind, n, new, steps),
             steps = IF kind = "delete" THEN DeleteSteps(n, rows[n]) ELSE ReconcileSteps(n, rows[n])
      PROVE  WholeInv'
  <2>1. PICK np : np = Fired(kind, n, new, steps)
    OBVIOUS
  <2>2. np.kind = kind /\ np.vm = n /\ np.steps = steps /\ np.k = 1 /\ np.tries = 0 /\ np.phase = "run" /\ Done(np) = {}
    BY <2>1, FiredIs
  <2>3. DelShape(np) /\ \A j \in 1..Len(np.steps) : Do(np, j) = Zd(n, "data") => V(n, "data") \in vols
    <3>1. CASE kind = "delete"
      BY <1>0, <1>4, <2>2, <3>1, DeleteShape
    <3>2. CASE kind = "reconcile"
      <4>1. DelShape(np) /\ \A j \in 1..Len(np.steps) : Do(np, j) = Zd(n, "root")
        <5>1. np.steps = ReconcileSteps(n, rows[n])
          BY <1>4, <2>2, <3>2
        <5> QED
          BY <1>0, <2>2, <5>1, ReconcileShape
      <4>2. Zd(n, "root") # Zd(n, "data")
        BY DEF Zd, ZCmd, V
      <4> QED
        BY <4>1, <4>2
    <3> QED
      BY <1>4, <3>1, <3>2
  <2>4. Waits(np)
    <3> SUFFICES ASSUME np.k <= Len(np.steps), Do(np, np.k).op = "zdestroy"
                 PROVE  np.tries + hold[Do(np, np.k).vol] <= MaxHold
      BY DEF Waits
    <3>0. IInv'
      BY FireAnyKeeps
    <3>1. np \in PlanRec
      <4>1. plan'[i] = np
        BY <1>4, <2>1 DEF Fire, Fired, IInv, PlansOK
      <4> QED
        BY <3>0, <4>1 DEF IInv, PlansOK
    <3>2. np.k \in 1..Len(np.steps)
      BY <2>2, <3>1 DEF PlanRec
    <3>3. Do(np, np.k) \in Cmds
      <4>1. np.steps[np.k] \in StepRec
        BY <3>1, <3>2 DEF PlanRec
      <4> QED
        BY <4>1 DEF StepRec, Do
    <3>4. Do(np, np.k).vol \in Vol
      BY <3>3 DEF Cmds, VmCmds, ZCmds, SCmds, CCmds, DCmds
    <3>5. hold[Do(np, np.k).vol] \in 0..MaxHold
      BY <1>0, <3>4 DEF HostOK, DomOK
    <3> QED
      BY <2>2, <3>5, HostAssumption
  <2>5. DelRun(np)
    BY <2>2, <2>3, <2>4 DEF DelRun, Ahead
  <2>6. PlanWhole(np)
    BY <1>4, <2>2, <2>3, <2>5 DEF PlanWhole, IsClone
  <2> QED
    BY <1>4, <2>1, <2>6, FirePlan
<1>5. CASE FireDelete(i, n)
  <2>1. CASE Synthetic(rows[n])
    <3>1. Fire(i, "reconcile", n, n, ReconcileSteps(n, rows[n]))
      BY <1>5, <2>1 DEF FireDelete
    <3> QED
      BY <1>4, <3>1
  <2>2. CASE ~Synthetic(rows[n])
    <3>1. Fire(i, "delete", n, n, DeleteSteps(n, rows[n]))
      BY <1>5, <2>2 DEF FireDelete
    <3> QED
      BY <1>4, <3>1
  <2> QED
    BY <2>1, <2>2
<1>6. CASE FireGolden(i, n)
  <2> DEFINE steps == GoldenSteps(n, rows[n])
  <2>0. rows[n].disks = Kind /\ Fire(i, "golden", n, n, steps)
    BY <1>0, <1>6 DEF FireGolden, Synthetic
  <2> HIDE DEF steps
  <2>1. PICK np : np = Fired("golden", n, n, steps)
    OBVIOUS
  <2>2. np.kind = "golden" /\ np.vm = n /\ np.steps = steps /\ Done(np) = {}
    BY <2>1, FiredIs
  <2>3. GoldShape(np)
    <3>1. np.steps = GoldenSteps(n, rows[n])
      BY <2>2 DEF steps
    <3> QED
      BY <2>0, <2>2, <3>1, GoldenShape
  <2>4. PlanWhole(np)
    BY <2>2, <2>3 DEF PlanWhole, Deletes, IsClone, GoldRun
  <2> QED
    BY <2>0, <2>1, <2>4, FirePlan
<1>7. ASSUME NEW new \in Name, NEW sealed \in BOOLEAN, FireClone(i, n, new, sealed) PROVE WholeInv'
  <2> DEFINE kind == IF sealed THEN "goldenclone" ELSE "clone"
             steps == CloneSteps(n, rows[n], new, sealed)
  <2>0. Fire(i, kind, n, new, steps)
    BY <1>7 DEF FireClone
  <2> HIDE DEF steps
  <2>1. PICK np : np = Fired(kind, n, new, steps)
    OBVIOUS
  <2>2. np.kind = kind /\ np.vm = n /\ np.new = new /\ Done(np) = {}
    BY <2>1, FiredIs
  <2>3. new \in reg => Present(new)
    <3>1. plan[i].phase = "idle" /\ \A q \in Proc : q = i
      BY <2>0 DEF Fire, Alone
    <3> QED
      BY <3>1 DEF WholeInv, RegKept, Deletes
  <2>4. PlanWhole(np)
    BY <2>2, <2>3 DEF PlanWhole, Deletes, IsClone, NewRun, Present
  <2> QED
    BY <2>0, <2>1, <2>4, FirePlan
<1> QED
  BY <1>2, <1>3, <1>5, <1>6, <1>7 DEF FireAny

\* What runPlan makes of a reply.
After(p, np, reply) ==
  \/ (reply = "ok" \/ Forgiven(p, reply)) /\ np.phase = "run" /\ np.k = p.k + 1 /\ np.tries = 0
  \/ /\ ~(reply = "ok" \/ Forgiven(p, reply)) /\ Retry(p, reply)
     /\ np.phase = "run" /\ np.k = p.k /\ np.tries = (IF p.tries < Retries THEN p.tries + 1 ELSE p.tries)
  \/ ~(reply = "ok" \/ Forgiven(p, reply)) /\ ~Retry(p, reply) /\ np.phase = "unwind" /\ np.k = p.k

\* A plan goes on: it is what it was, but for how far it is.
Same(p, np) == np.kind = p.kind /\ np.vm = p.vm /\ np.new = p.new /\ np.steps = p.steps /\ np.id = p.id

LEMMA Runs ==
  ASSUME Alone, IInv, NEW i \in Proc, RunCmd(i), NEW p, p = plan[i]
  PROVE  /\ p.phase = "run" /\ p \in PlanRec /\ PlanOK(p) /\ p.k \in 1..Len(p.steps) /\ Do(p, p.k) \in Cmds
         /\ p.k \in Nat /\ Len(p.steps) \in Nat
         /\ UNCHANGED <<rows, reg, fired>>
         /\ \E reply \in Replies : Exec(Do(p, p.k), p, reply) /\ ~Fails(reply) /\
              \E np : plan'[i] = np /\ Same(p, np) /\ After(p, np, reply)
<1>1. p.phase = "run" /\ p.k <= Len(p.steps) /\ UNCHANGED <<rows, reg, fired>>
  BY DEF RunCmd
<1>2. p \in PlanRec /\ PlanOK(p) /\ p.steps \in Seq(StepRec) /\ p.k \in Nat /\ p.k >= 1
  BY <1>1 DEF IInv, PlansOK, PlanRec, PlanOK, Busy
<1>3. p.k \in 1..Len(p.steps) /\ Len(p.steps) \in Nat
  BY <1>1, <1>2
<1>4. Do(p, p.k) \in Cmds
  <2>1. p.steps[p.k] \in StepRec
    BY <1>2, <1>3
  <2> QED
    BY <2>1 DEF StepRec, Do
<1>5. PICK reply \in Replies :
        /\ Exec(Do(p, p.k), p, reply)
        /\ plan' = [plan EXCEPT ![i] =
             IF reply = "ok" \/ Forgiven(p, reply) THEN [p EXCEPT !.k = @ + 1, !.tries = 0]
             ELSE IF Retry(p, reply) THEN [p EXCEPT !.tries = IF @ < Retries THEN @ + 1 ELSE @]
             ELSE [p EXCEPT !.phase = "unwind", !.at = p.k, !.k = UnwindFrom(p), !.tries = 0]]
  BY DEF RunCmd, Do
<1>6. PICK np : np = IF reply = "ok" \/ Forgiven(p, reply) THEN [p EXCEPT !.k = @ + 1, !.tries = 0]
             ELSE IF Retry(p, reply) THEN [p EXCEPT !.tries = IF @ < Retries THEN @ + 1 ELSE @]
             ELSE [p EXCEPT !.phase = "unwind", !.at = p.k, !.k = UnwindFrom(p), !.tries = 0]
  OBVIOUS
<1>7. plan'[i] = np
  BY <1>5, <1>6 DEF IInv, PlansOK
<1>8. Same(p, np) /\ After(p, np, reply)
  <2>1. CASE reply = "ok" \/ Forgiven(p, reply)
    <3>1. np = [p EXCEPT !.k = p.k + 1, !.tries = 0]
      BY <1>6, <2>1
    <3> QED
      BY <1>1, <1>2, <2>1, <3>1 DEF PlanRec, Same, After
  <2>2. CASE ~(reply = "ok" \/ Forgiven(p, reply)) /\ Retry(p, reply)
    <3>1. np = [p EXCEPT !.tries = IF p.tries < Retries THEN p.tries + 1 ELSE p.tries]
      BY <1>6, <2>2
    <3> QED
      BY <1>1, <1>2, <2>2, <3>1 DEF PlanRec, Same, After
  <2>3. CASE ~(reply = "ok" \/ Forgiven(p, reply)) /\ ~Retry(p, reply)
    <3>1. np = [p EXCEPT !.phase = "unwind", !.at = p.k, !.k = p.k, !.tries = 0]
      BY <1>6, <2>3 DEF UnwindFrom
    <3> QED
      BY <1>1, <1>2, <2>3, <3>1 DEF PlanRec, Same, After
  <2> QED
    BY <2>1, <2>2, <2>3
<1>9. ~Fails(reply)
  <2>1. faults \in 0..0 /\ MaxFault = 0
    BY DEF Alone, IInv, Counters
  <2> QED
    BY <2>1 DEF Fails
<1> QED
  BY <1>1, <1>2, <1>3, <1>4, <1>5, <1>7, <1>8, <1>9

LEMMA Assembled ==
  ASSUME Alone, NEW i \in Proc, NEW np, plan'[i] = np, PlanWhole(np)', RegKept' PROVE WholeInv'
<1>1. PlanWhole(plan[i])'
  BY DEF PlanWhole, Deletes, DelShape, DelRun, Waits, Do, Done, Ahead, NotHalf, GoldShape, GoldRun, NewRun, IsClone
<1> QED
  BY <1>1 DEF WholeInv, Alone

\* While a command runs, everything the inventory lists is there.
LEMMA AllPresent ==
  ASSUME Alone, WholeInv, NEW i \in Proc, ~(Deletes(plan[i]) /\ plan[i].k > Len(plan[i].steps))
  PROVE  \A n \in reg : Present(n)
  BY DEF Alone, WholeInv, RegKept

\* planDelete, a command on the domain.
LEMMA DeleteDomain ==
  ASSUME Alone, IInv, WholeInv, NEW i \in Proc, RunCmd(i), NEW p, p = plan[i], Deletes(p),
         Do(p, p.k) \in {Cmd("destroy", p.vm), Cmd("undefine", p.vm)}
  PROVE  WholeInv'
<1> DEFINE c == Do(p, p.k)
<1>1. /\ p.phase = "run" /\ p \in PlanRec /\ PlanOK(p) /\ p.k \in 1..Len(p.steps) /\ c \in Cmds
      /\ p.k \in Nat /\ Len(p.steps) \in Nat /\ UNCHANGED <<rows, reg, fired>>
  BY Runs
<1>2. PICK reply \in Replies : Exec(c, p, reply) /\ ~Fails(reply) /\
              \E np : plan'[i] = np /\ Same(p, np) /\ After(p, np, reply)
  BY Runs
<1>3. PICK np : plan'[i] = np /\ Same(p, np) /\ After(p, np, reply)
  BY <1>2
<1>4. DelShape(p) /\ DelRun(p) /\ p.vm \in Name /\ HostOK /\ HostOK'
  <2>1. HostOK /\ HostOK'
    BY NextKeeps, FireAnyKeeps, RunCmdKeeps DEF IInv
  <2> QED
    BY <2>1 DEF WholeInv, PlanWhole, DelShape
<1>5. \/ c.op = "destroy" /\ Destroy(p.vm, reply)
      \/ c.op = "undefine" /\ Undefine(p.vm, reply)
  BY <1>2 DEF Exec, Cmd
<1>6. OnDomains
  BY <1>4, <1>5, DestroyType, UndefineType
<1>7. DelShape(np)
  BY <1>3, <1>4 DEF DelShape, Same, Do
<1>8. ASSUME np.phase = "run" PROVE DelRun(np)'
  <2>1. np.k \in {p.k, p.k + 1} /\ (np.k = p.k + 1 => np.tries = 0)
    BY <1>3, <1>8, <1>1 DEF After
  <2>2. ~Retry(p, reply)
    BY <1>5 DEF Retry, Destroy, Undefine
  <2>3. np.k = p.k + 1 /\ np.tries = 0
    BY <1>3, <1>8, <2>2 DEF After
  <2>4. \A j \in Done(np) : j = p.k \/ j \in Done(p)
    BY <1>1, <2>3 DEF Done
  <2>5. \A j \in Ahead(np) : j \in Ahead(p)
    BY <1>1, <1>3, <2>3 DEF Ahead, Same
  <2>6. \A j : Do(np, j) = Do(p, j)
    BY <1>3 DEF Do, Same
  <2>7. c.op # "zdestroy"
    BY <1>5
  <2>8. ASSUME np.k <= Len(np.steps), Do(np, np.k).op = "zdestroy" PROVE np.tries + hold'[Do(np, np.k).vol] <= MaxHold
    <3>1. np.k \in 1..Len(p.steps)
      BY <1>1, <1>3, <2>3, <2>8 DEF Same
    <3>2. Do(np, np.k) \in Cmds
      <4>1. p.steps[np.k] \in StepRec
        BY <1>1, <3>1 DEF PlanRec
      <4> QED
        BY <2>6, <4>1 DEF StepRec, Do
    <3>3. Do(np, np.k).vol \in Vol
      BY <2>8, <3>2 DEF Cmds, VmCmds, ZCmds, SCmds, CCmds, DCmds
    <3>4. hold'[Do(np, np.k).vol] \in 0..MaxHold
      BY <1>4, <3>3 DEF HostOK, DomOK
    <3> QED
      BY <2>3, <3>4, HostAssumption
  <2> QED
    BY <1>4, <1>6, <1>3, <2>4, <2>5, <2>6, <2>7, <2>8 DEF DelRun, OnDomains, Waits, Same
<1>9. ASSUME np.kind = "delete", np.phase = "unwind" PROVE NotHalf(np)'
  <2>1. ~(reply = "ok" \/ Forgiven(p, reply)) /\ p.kind = "delete"
    BY <1>3, <1>9 DEF After, Same
  <2>2. c.op = "undefine" /\ Undefine(p.vm, reply) /\ reply = "refused"
    BY <1>5, <2>1 DEF Destroy, Undefine, Forgiven
  <2>3. Defined(p.vm) /\ UNCHANGED dom
    BY <2>2 DEF Undefine, Unchanged, host
  <2> QED
    BY <1>3, <2>3 DEF NotHalf, Same, Defined
<1>10. PlanWhole(np)'
  <2>1. DelShape(np)'
    BY <1>7 DEF DelShape, Do, Zd
  <2>2. np.kind \in {"delete", "reconcile"}
    BY <1>3 DEF Same, Deletes
  <2> QED
    BY <1>8, <1>9, <2>1, <2>2 DEF PlanWhole, Deletes, IsClone
<1>11. RegKept'
  <2>1. \A n \in reg : Present(n)
    BY <1>1, AllPresent
  <2> QED
    BY <1>1, <1>6, <2>1 DEF RegKept, Present, OnDomains
<1> QED
  BY <1>3, <1>10, <1>11, Assembled

\* planDelete, a zvol: kept until qemu lets go of it, then gone.
LEMMA DeleteDisk ==
  ASSUME Alone, IInv, WholeInv, NEW i \in Proc, RunCmd(i), NEW p, p = plan[i], Deletes(p),
         Do(p, p.k) \in {Zd(p.vm, "root"), Zd(p.vm, "data")}
  PROVE  WholeInv'
<1> DEFINE c == Do(p, p.k)
           v == c.vol
           root == V(p.vm, "root")
           data == V(p.vm, "data")
<1>1. /\ p.phase = "run" /\ p \in PlanRec /\ PlanOK(p) /\ p.k \in 1..Len(p.steps) /\ c \in Cmds
      /\ p.k \in Nat /\ Len(p.steps) \in Nat /\ UNCHANGED <<rows, reg, fired>>
  BY Runs
<1>2. PICK reply \in Replies : Exec(c, p, reply) /\ ~Fails(reply) /\
              \E np : plan'[i] = np /\ Same(p, np) /\ After(p, np, reply)
  BY Runs
<1>3. PICK np : plan'[i] = np /\ Same(p, np) /\ After(p, np, reply)
  BY <1>2
<1>4. DelShape(p) /\ DelRun(p) /\ p.vm \in Name /\ HostOK /\ HostOK'
  <2>1. HostOK /\ HostOK'
    BY NextKeeps, FireAnyKeeps, RunCmdKeeps DEF IInv
  <2> QED
    BY <2>1 DEF WholeInv, PlanWhole, DelShape
<1>5. /\ c.op = "zdestroy" /\ root # data /\ root.vm = p.vm /\ data.vm = p.vm
      /\ (v = root /\ c = Zd(p.vm, "root")) \/ (v = data /\ c = Zd(p.vm, "data"))
  <2>1. root # data /\ root.vm = p.vm /\ data.vm = p.vm
    BY DEF V
  <2>2. \A w : Zd(p.vm, w).op = "zdestroy" /\ Zd(p.vm, w).vol = V(p.vm, w)
    BY DEF Zd, ZCmd
  <2>3. c = Zd(p.vm, "root") \/ c = Zd(p.vm, "data")
    OBVIOUS
  <2> QED
    BY <2>1, <2>2, <2>3
<1>6. v \in Vol
  BY <1>1, <1>5 DEF Cmds, VmCmds, ZCmds, SCmds, CCmds, DCmds
<1>7. DestroyVol(v, reply)
  BY <1>2, <1>5 DEF Exec
<1>8. p.tries \in 0..Retries /\ hold[v] \in 0..MaxHold /\ hold'[v] \in 0..MaxHold /\ Retries \in Nat /\ MaxHold \in Nat /\ MaxHold <= Retries
  BY <1>1, <1>4, <1>6, VerbsAssumption, HostAssumption DEF PlanRec, HostOK, DomOK, Alone
<1>9. DelShape(np) /\ DelShape(np)'
  BY <1>3, <1>4 DEF DelShape, Same, Do, Zd
<1>10. /\ \A j : Do(np, j) = Do(p, j)
       /\ Do(np, np.k)' = Do(np, np.k)
       /\ np.vm = p.vm /\ Len(np.steps) = Len(p.steps) /\ np.kind = p.kind /\ np.kind \in {"delete", "reconcile"}
  BY <1>3 DEF Do, Same, Deletes
<1>11. Waits(p) => Up(p.vm) \/ p.tries + hold[v] <= MaxHold
  BY <1>1, <1>5 DEF Waits
<1>12. ~Forgiven(p, reply) \/ reply \notin {"refused", "busy"}
  BY DEF Forgiven
<1>13. \A n \in reg : Present(n)
  BY <1>1, AllPresent
<1> HIDE DEF c, v
\* Refused: not there, or a clone hangs on it.
<1>14. CASE reply = "refused"
  <2>1. Unchanged /\ (v \notin vols \/ Dependents(SnapsOf(v)) # {})
    BY <1>7, <1>14 DEF DestroyVol
  <2>2. np.phase = "unwind"
    BY <1>3, <1>12, <1>14 DEF After, Retry
  <2>3. v = data => root \notin vols
    <3> SUFFICES ASSUME v = data PROVE root \notin vols
      OBVIOUS
    <3>1. c = Zd(p.vm, "data")
      BY <1>5
    <3>2. PICK j \in 1..(p.k - 1) : Do(p, j) = Zd(p.vm, "root")
      BY <1>1, <1>4, <3>1 DEF DelShape, c
    <3>3. Do(p, j).op = "zdestroy" /\ Do(p, j).vol = root
      BY <3>2 DEF Zd, ZCmd
    <3> QED
      BY <1>4, <3>3 DEF DelRun, Done
  <2>4. NotHalf(np)'
    BY <1>5, <1>10, <2>1, <2>3 DEF NotHalf, Unchanged, host, Defined, Dependents, SnapsOf
  <2>5. PlanWhole(np)'
    BY <1>10, <2>2, <2>4 DEF PlanWhole, Deletes, IsClone
  <2>6. RegKept'
    BY <1>1, <1>13, <2>1 DEF RegKept, Present, Unchanged, host
  <2> QED
    BY <1>3, <2>5, <2>6, Assembled
\* Busy: the domain is up, or qemu has yet to let go.
<1>15. CASE reply = "busy"
  <2>1. /\ Open(v) \/ hold[v] > 0
        /\ hold' = [hold EXCEPT ![v] = IF @ > 0 THEN @ - 1 ELSE 0]
        /\ UNCHANGED <<dom, vols, snaps, origin, maker>>
    BY <1>7, <1>15 DEF DestroyVol
  <2>2. hold'[v] = IF hold[v] > 0 THEN hold[v] - 1 ELSE 0
    BY <1>4, <1>6, <2>1 DEF HostOK, DomOK
  <2>3. ~Up(p.vm) => hold[v] > 0
    BY <1>5, <2>1 DEF Open, DisksOf, V, Up
  <2>4. RegKept'
    BY <1>1, <1>13, <2>1 DEF RegKept, Present
  <2>5. CASE p.tries < Retries
    <3>1. np.phase = "run" /\ np.k = p.k /\ np.tries = p.tries + 1
      BY <1>3, <1>12, <1>15, <2>5 DEF After, Retry, Alone
    <3>2. Up(p.vm) \/ np.tries + hold'[v] <= MaxHold
      <4> SUFFICES ASSUME ~Up(p.vm) PROVE np.tries + hold'[v] <= MaxHold
        OBVIOUS
      <4>1. p.tries + hold[v] <= MaxHold /\ hold[v] > 0
        BY <1>4, <1>11, <2>3 DEF DelRun
      <4>2. np.tries = p.tries + 1 /\ hold'[v] = hold[v] - 1
        BY <2>2, <3>1, <4>1
      <4> QED
        BY <1>8, <4>1, <4>2
    <3>3. Waits(np)'
      <4>1. Do(np, np.k).vol = v
        BY <1>10, <3>1 DEF v, c
      <4> QED
        BY <1>10, <2>1, <3>2, <4>1 DEF Waits, Up
    <3>4. DelRun(np)'
      <4>1. Done(np) = Done(p) /\ Ahead(np) = Ahead(p)
        BY <1>10, <3>1 DEF Done, Ahead
      <4>2. \A j \in Done(np) : Do(np, j).op = "zdestroy" => Do(np, j).vol \notin vols'
        BY <1>4, <1>10, <2>1, <4>1 DEF DelRun
      <4>3. \A j \in Ahead(np) : Do(np, j) = Zd(np.vm, "data") => V(np.vm, "data") \in vols'
        BY <1>4, <1>10, <2>1, <4>1 DEF DelRun
      <4> QED
        BY <3>3, <4>2, <4>3 DEF DelRun, Do, Done, Ahead, Zd
    <3>5. PlanWhole(np)'
      BY <1>9, <1>10, <3>1, <3>4 DEF PlanWhole, Deletes, IsClone
    <3> QED
      BY <1>3, <2>4, <3>5, Assembled
  <2>6. CASE ~(p.tries < Retries)
    <3>1. np.phase = "unwind"
      BY <1>3, <1>12, <1>15, <2>6 DEF After, Retry
    <3>2. Up(p.vm)
      <4> SUFFICES ASSUME ~Up(p.vm) PROVE FALSE
        OBVIOUS
      <4>1. p.tries + hold[v] <= MaxHold /\ hold[v] > 0
        BY <1>4, <1>11, <2>3 DEF DelRun
      <4> QED
        BY <1>8, <2>6, <4>1
    <3>3. NotHalf(np)'
      BY <1>10, <2>1, <3>2 DEF NotHalf, Up, Defined
    <3>4. PlanWhole(np)'
      BY <1>10, <3>1, <3>3 DEF PlanWhole, Deletes, IsClone
    <3> QED
      BY <1>3, <2>4, <3>4, Assembled
  <2> QED
    BY <2>5, <2>6
\* Gone.
<1>16. CASE reply = "ok"
  <2>1. vols' = vols \ {v} /\ UNCHANGED <<dom, hold>>
    BY <1>7, <1>16 DEF DestroyVol
  <2>2. np.phase = "run" /\ np.k = p.k + 1 /\ np.tries = 0
    BY <1>3, <1>16 DEF After
  <2>3. Do(np, p.k).vol = v /\ Do(p, p.k) = c
    BY <1>10 DEF v, c
  <2>4. DelRun(np)'
    <3>1. ASSUME NEW j \in Done(np), Do(np, j).op = "zdestroy" PROVE Do(np, j).vol \notin vols'
      <4>1. j = p.k \/ j \in Done(p)
        BY <1>1, <2>2 DEF Done
      <4> QED
        BY <1>4, <1>10, <2>1, <2>3, <3>1, <4>1 DEF DelRun
    <3>2. ASSUME NEW j \in Ahead(np), Do(np, j) = Zd(np.vm, "data") PROVE V(np.vm, "data") \in vols'
      <4>1. j \in Ahead(p) /\ j # p.k /\ j \in 1..Len(p.steps) /\ p.k < Len(p.steps)
        BY <1>1, <1>10, <2>2 DEF Ahead
      <4>2. data \in vols
        BY <1>4, <1>10, <3>2, <4>1 DEF DelRun
      <4>3. c # Zd(p.vm, "data")
        BY <1>1, <1>4, <2>3, <4>1 DEF DelShape
      <4> QED
        BY <1>5, <1>10, <2>1, <4>2, <4>3
    <3>3. Waits(np)'
      <4> SUFFICES ASSUME np.k <= Len(np.steps), Do(np, np.k).op = "zdestroy"
                   PROVE  np.tries + hold'[Do(np, np.k).vol] <= MaxHold
        BY <1>10 DEF Waits
      <4>1. np.k \in 1..Len(p.steps)
        BY <1>1, <1>10, <2>2
      <4>2. Do(np, np.k) \in Cmds
        <5>1. p.steps[np.k] \in StepRec
          BY <1>1, <4>1 DEF PlanRec
        <5> QED
          BY <1>10, <5>1 DEF StepRec, Do
      <4>3. Do(np, np.k).vol \in Vol
        BY <4>2 DEF Cmds, VmCmds, ZCmds, SCmds, CCmds, DCmds
      <4>4. hold'[Do(np, np.k).vol] \in 0..MaxHold
        BY <1>4, <4>3 DEF HostOK, DomOK
      <4> QED
        BY <2>2, <4>4, HostAssumption
    <3> QED
      BY <3>1, <3>2, <3>3 DEF DelRun, Do, Done, Ahead, Zd
  <2>5. PlanWhole(np)'
    BY <1>9, <1>10, <2>2, <2>4 DEF PlanWhole, Deletes, IsClone
  <2>6. RegKept'
    <3> SUFFICES ASSUME NEW n \in reg
                 PROVE  (\E w \in vols' : w.vm = n) \/ (n = p.vm /\ np.k > Len(np.steps))
      BY <1>1, <1>3, <1>10, <2>2 DEF RegKept, Present, Deletes
    <3>1. PICK w \in vols : w.vm = n
      BY <1>13 DEF Present
    <3>2. CASE n # p.vm
      BY <1>5, <2>1, <3>1, <3>2
    <3>3. CASE n = p.vm /\ p.k = Len(p.steps)
      BY <1>1, <1>10, <2>2, <3>3
    <3>4. CASE n = p.vm /\ p.k # Len(p.steps)
      <4>1. c = Zd(p.vm, "root") /\ v = root /\ Do(p, Len(p.steps)) = Zd(p.vm, "data")
        BY <1>1, <1>4, <1>5, <2>3, <3>4 DEF DelShape
      <4>2. Len(p.steps) \in Ahead(p)
        BY <1>1 DEF Ahead
      <4>3. data \in vols
        BY <1>4, <4>1, <4>2 DEF DelRun
      <4> QED
        BY <1>5, <2>1, <3>4, <4>1, <4>3
    <3> QED
      BY <3>2, <3>3, <3>4
  <2> QED
    BY <1>3, <2>5, <2>6, Assembled
<1> QED
  BY <1>7, <1>14, <1>15, <1>16 DEF DestroyVol

\* MakeGolden: a disk once sealed stays so, or is sealed again.
LEMMA GoldenCommand ==
  ASSUME Alone, IInv, WholeInv, NEW i \in Proc, RunCmd(i), NEW p, p = plan[i], p.kind = "golden"
  PROVE  WholeInv'
<1>1. PICK c : c = Do(p, p.k)
  OBVIOUS
<1>2. /\ p.phase = "run" /\ p \in PlanRec /\ PlanOK(p) /\ p.k \in 1..Len(p.steps) /\ c \in Cmds
      /\ p.k \in Nat /\ Len(p.steps) \in Nat /\ UNCHANGED <<rows, reg, fired>>
  BY <1>1, Runs
<1>3. PICK reply \in Replies : Exec(c, p, reply) /\ ~Fails(reply) /\
              \E np : plan'[i] = np /\ Same(p, np) /\ After(p, np, reply)
  BY <1>1, Runs
<1>4. PICK np : plan'[i] = np /\ Same(p, np) /\ After(p, np, reply)
  BY <1>3
<1>5. GoldShape(p) /\ GoldRun(p) /\ HostOK
  BY <1>2 DEF IInv, WholeInv, PlanWhole
<1>6. /\ c.op \in {"start", "destroy", "shutdown", "reseal", "snapshot"}
      /\ c.op \in {"reseal", "snapshot"} => c.tag = "golden"
  <2>1. Touching(p, c)
    BY <1>1, <1>2 DEF PlanOK, Busy, IsClone, Do
  <2> QED
    BY <2>1 DEF Touching
<1>7. /\ c.op \in {"start", "destroy", "shutdown"} => c.vm \in Name
      /\ c.op \in {"reseal", "snapshot"} => c.vol \in Vol /\ c.tag \in Tag
  BY <1>2, <1>6 DEF Cmds, VmCmds, ZCmds, SCmds, CCmds, DCmds
<1>8. /\ \A j : Do(np, j) = Do(p, j)
      /\ np.id = p.id /\ np.kind = "golden" /\ Len(np.steps) = Len(p.steps)
  BY <1>4 DEF Do, Same
\* What the command did to the snapshots.
<1> DEFINE Kept    == UNCHANGED <<vols, snaps>>
           Unseal  == UNCHANGED vols /\ \A s \in snaps : s.vol # c.vol => s \in snaps'
           Seal    == UNCHANGED vols /\ snaps \subseteq snaps' /\ Sealed(c.vol, p.id)'
<1>9. \/ c.op \in {"start", "destroy", "shutdown"} /\ Kept /\ reply # "busy"
      \/ c.op = "reseal" /\ Unseal /\ reply \in {"ok", "refused"}
      \/ c.op = "snapshot" /\ Seal /\ reply = "ok"
      \/ c.op = "snapshot" /\ Kept /\ reply = "refused"
  <2>1. CASE c.op \in {"start", "destroy", "shutdown"}
    <3>1. \/ Start(c.vm, reply) \/ Destroy(c.vm, reply) \/ Shutdown(c.vm, p.tries > 0, reply)
      BY <1>3, <2>1 DEF Exec
    <3>2. UNCHANGED <<vols, snaps>> /\ reply # "busy"
      <4>1. CASE Start(c.vm, reply)
        BY <4>1 DEF Start, Unchanged, host
      <4>2. CASE Destroy(c.vm, reply)
        BY <4>2 DEF Destroy, PowerOff, Unchanged, host
      <4>3. CASE Shutdown(c.vm, p.tries > 0, reply)
        BY <4>3 DEF Shutdown, Unchanged, host
      <4> QED
        BY <3>1, <4>1, <4>2, <4>3
    <3> QED
      BY <2>1, <3>2
  <2>2. CASE c.op = "reseal"
    <3>1. IF HasSnap(c.vol, c.tag) THEN DestroySnap(c.vol, c.tag, reply) ELSE reply = "ok" /\ Unchanged
      BY <1>3, <2>2 DEF Exec
    <3>2. HasSnap(c.vol, c.tag) => TheSnap(c.vol, c.tag).vol = c.vol
      BY <1>5, <1>7, <2>2, TheOne
    <3>3. Unseal /\ reply \in {"ok", "refused"}
      <4>1. CASE Unchanged /\ reply \in {"ok", "refused"}
        BY <4>1 DEF Unchanged, host
      <4>2. CASE HasSnap(c.vol, c.tag) /\ reply = "ok" /\ snaps' = snaps \ {TheSnap(c.vol, c.tag)} /\ UNCHANGED vols
        BY <3>2, <4>2
      <4> QED
        BY <3>1, <4>1, <4>2 DEF DestroySnap
    <3> QED
      BY <2>2, <3>3
  <2>3. CASE c.op = "snapshot"
    <3>1. Snapshot(c.vol, c.tag, p.id, reply)
      BY <1>3, <2>3 DEF Exec
    <3>2. CASE reply = "refused" /\ Unchanged
      BY <2>3, <3>2 DEF Unchanged, host
    <3>3. CASE /\ reply = "ok" /\ UNCHANGED vols
               /\ snaps' = snaps \cup {[vol |-> c.vol, tag |-> c.tag, at |-> NextAt(c.vol), by |-> p.id]}
      <4>1. Sealed(c.vol, p.id)'
        <5>1. PICK s : s = [vol |-> c.vol, tag |-> c.tag, at |-> NextAt(c.vol), by |-> p.id]
          OBVIOUS
        <5>2. s \in snaps' /\ s.vol = c.vol /\ s.tag = "golden" /\ s.by = p.id
          BY <1>6, <2>3, <3>3, <5>1
        <5> QED
          BY <5>2 DEF Sealed
      <4> QED
        BY <2>3, <3>3, <4>1
    <3> QED
      BY <3>1, <3>2, <3>3 DEF Snapshot
  <2> QED
    BY <1>6, <2>1, <2>2, <2>3
<1>10. UNCHANGED vols
  BY <1>9
<1> DEFINE Taken(j)  == j \in Done(p) /\ Do(p, j).op = "snapshot"
           To(ps, j, l) == l \in Ahead(ps) /\ Do(p, l).op = "snapshot" /\ Do(p, l).vol = Do(p, j).vol
<1>11. ASSUME NEW j, Taken(j) PROVE Sealed(Do(p, j).vol, p.id) \/ \E l : To(p, j, l)
  BY <1>5, <1>11 DEF GoldRun
<1>12. ASSUME np.phase = "run", NEW j, j \in Done(np), Do(p, j).op = "snapshot"
       PROVE  Sealed(Do(p, j).vol, p.id)' \/ \E l : To(np, j, l)
  <2>1. CASE reply = "asked" \/ np.k = p.k
    <3>1. np.k = p.k /\ Kept
      <4>1. reply = "asked" => ~(reply = "ok" \/ Forgiven(p, reply))
        BY DEF Forgiven
      <4>2. np.k = p.k => ~(reply = "ok" \/ Forgiven(p, reply)) /\ Retry(p, reply)
        BY <1>2, <1>4, <1>12 DEF After
      <4>3. np.k = p.k => reply \in {"busy", "asked"}
        BY <4>2 DEF Retry
      <4>4. reply = "asked"
        BY <1>9, <2>1, <4>3
      <4>5. Kept
        BY <1>9, <4>4
      <4>6. np.k = p.k
        BY <1>4, <1>12, <4>1, <4>4 DEF After
      <4> QED
        BY <4>5, <4>6
    <3>2. Taken(j) /\ Ahead(np) = Ahead(p)
      BY <1>8, <1>12, <3>1 DEF Done, Ahead
    <3> QED
      BY <1>11, <3>1, <3>2 DEF Sealed
  <2>2. CASE reply # "asked" /\ np.k # p.k
    <3>1. np.k = p.k + 1 /\ (reply = "ok" \/ Forgiven(p, reply))
      BY <1>4, <1>9, <1>12, <2>2 DEF After
    <3>2. reply # "refused"
      BY <3>1 DEF Forgiven
    <3>3. j = p.k \/ Taken(j)
      BY <1>2, <1>12, <3>1 DEF Done
    <3>4. \A l : l \in Ahead(p) /\ l # p.k => l \in Ahead(np)
      BY <1>2, <1>8, <3>1 DEF Ahead
    <3>5. CASE c.op \in {"start", "destroy", "shutdown"} /\ Kept
      <4>1. Do(p, p.k).op # "snapshot"
        BY <1>1, <3>5
      <4> QED
        BY <1>11, <1>12, <3>3, <3>4, <3>5, <4>1 DEF Sealed
    <3>6. CASE c.op = "reseal" /\ Unseal
      <4>1. Do(p, p.k).op # "snapshot"
        BY <1>1, <3>6
      <4>2. PICK l \in 1..Len(p.steps) : l > p.k /\ Do(p, l).op = "snapshot" /\ Do(p, l).vol = c.vol
        BY <1>1, <1>2, <1>5, <3>6 DEF GoldShape
      <4>3. l \in Ahead(np)
        BY <1>2, <1>8, <3>1, <4>2 DEF Ahead
      <4>4. CASE Do(p, j).vol = c.vol
        BY <4>2, <4>3, <4>4
      <4>5. CASE Do(p, j).vol # c.vol
        <5>1. Taken(j)
          BY <1>12, <3>3, <4>1
        <5>2. CASE Sealed(Do(p, j).vol, p.id)
          BY <3>6, <4>5, <5>2 DEF Sealed
        <5>3. CASE \E m : To(p, j, m)
          BY <3>4, <4>1, <5>3
        <5> QED
          BY <1>11, <5>1, <5>2, <5>3
      <4> QED
        BY <4>4, <4>5
    <3>7. CASE c.op = "snapshot" /\ Seal
      <4>1. \A x : Sealed(x, p.id) => Sealed(x, p.id)'
        BY <3>7 DEF Sealed
      <4>2. Do(p, p.k).vol = c.vol
        BY <1>1
      <4>3. CASE j = p.k
        BY <3>7, <4>2, <4>3
      <4>4. CASE Taken(j)
        <5>1. CASE Sealed(Do(p, j).vol, p.id)
          <6>1. PICK x : x = Do(p, j).vol
            OBVIOUS
          <6>2. Sealed(x, p.id)'
            BY <4>1, <5>1, <6>1
          <6> QED
            BY <6>1, <6>2 DEF Sealed, Do
        <5>2. CASE \E m : To(p, j, m)
          <6>1. PICK m : To(p, j, m)
            BY <5>2
          <6>2. CASE m = p.k
            BY <3>7, <4>2, <6>1, <6>2 DEF Sealed, Do
          <6>3. CASE m # p.k
            BY <3>4, <6>1, <6>3
          <6> QED
            BY <6>2, <6>3
        <5> QED
          BY <1>11, <4>4, <5>1, <5>2
      <4> QED
        BY <3>3, <4>3, <4>4
    <3> QED
      BY <1>9, <3>2, <3>5, <3>6, <3>7
  <2> QED
    BY <2>1, <2>2
<1>13. np.phase = "run" => GoldRun(np)'
  <2> SUFFICES ASSUME np.phase = "run", NEW j \in Done(np), Do(np, j).op = "snapshot"
               PROVE  \/ Sealed(Do(np, j).vol, np.id)'
                      \/ \E l \in Ahead(np) : Do(np, l).op = "snapshot" /\ Do(np, l).vol = Do(np, j).vol
    BY DEF GoldRun, Sealed, Do, Done, Ahead
  <2>1. Sealed(Do(p, j).vol, p.id)' \/ \E l : To(np, j, l)
    BY <1>8, <1>12
  <2>2. Sealed(Do(p, j).vol, p.id)' => Sealed(Do(np, j).vol, np.id)'
    BY <1>4 DEF Sealed, Do, Same
  <2> QED
    BY <1>8, <2>1, <2>2
<1>14. GoldShape(np)'
  <2>1. GoldShape(np)
    BY <1>4, <1>5 DEF GoldShape, Same, Do
  <2> QED
    BY <2>1 DEF GoldShape, Do
<1>15. PlanWhole(np)'
  BY <1>8, <1>13, <1>14 DEF PlanWhole, Deletes, IsClone
<1>16. RegKept'
  <2>1. \A n \in reg : Present(n)
    BY <1>2, AllPresent
  <2> QED
    BY <1>2, <1>10, <2>1 DEF RegKept, Present
<1> QED
  BY <1>4, <1>15, <1>16, Assembled

\* planCloneFrom, a command: a zvol it makes was not there.
LEMMA CloneMakes ==
  ASSUME Alone, IInv, WholeInv, NEW i \in Proc, RunCmd(i), NEW p, p = plan[i], IsClone(p)
  PROVE  WholeInv'
<1>1. PICK c : c = Do(p, p.k)
  OBVIOUS
<1>2. /\ p.phase = "run" /\ p \in PlanRec /\ p.k \in 1..Len(p.steps)
      /\ p.k \in Nat /\ Len(p.steps) \in Nat /\ UNCHANGED <<rows, reg, fired>>
  BY Runs
<1>3. PICK np : plan'[i] = np /\ Same(p, np)
  BY Runs
<1>4. /\ CloneShape(p)
      /\ \/ Exec(c, p, "ok") /\ np.k = p.k + 1 /\ np.phase = "run"
         \/ Unchanged /\ np.k = p.k
  BY <1>1, <1>3, CloneGoes DEF Do
<1>5. NewRun(p) /\ np.new = p.new /\ np.steps = p.steps /\ np.kind = p.kind
  BY <1>3 DEF WholeInv, PlanWhole, Same
<1>6. CASE Unchanged /\ np.k = p.k
  <2>1. Done(np) = Done(p) /\ vols' = vols /\ reg' = reg
    BY <1>2, <1>6 DEF Done, Unchanged, host
  <2>2. NewRun(np)'
    <3>1. \A j \in Done(np) : IsZclone(np.steps[j]) => np.steps[j].do.new \in vols'
      BY <1>2, <1>5, <2>1 DEF NewRun
    <3>2. np.new \in reg' => \E w \in vols' : w.vm = np.new /\ \A j \in Done(np) : IsZclone(np.steps[j]) => np.steps[j].do.new # w
      BY <1>5, <2>1 DEF NewRun
    <3> QED
      BY <3>1, <3>2 DEF NewRun, Done, IsZclone
  <2>3. PlanWhole(np)'
    BY <1>5, <2>2 DEF PlanWhole, Deletes, IsClone
  <2>4. RegKept'
    <3>1. \A n \in reg : Present(n)
      BY <1>2, AllPresent
    <3> QED
      BY <2>1, <3>1 DEF RegKept, Present
  <2> QED
    BY <1>3, <2>3, <2>4, Assembled
<1>7. CASE Exec(c, p, "ok") /\ np.k = p.k + 1 /\ np.phase = "run"
  <2>0. ~Fails("ok") /\ c = p.steps[p.k].do
    BY <1>1 DEF Fails, Do
  <2>1. \A j \in Done(np) : j = p.k \/ j \in Done(p)
    BY <1>2, <1>7 DEF Done
  <2>2. /\ vols \subseteq vols'
        /\ IsZclone(p.steps[p.k]) => c.new \notin vols /\ c.new \in vols'
    <3>1. CASE c.op = "zclone"
      <4>1. CloneVol(c.vol, c.tag, c.new, p.id, "ok")
        BY <1>7, <2>0, <3>1 DEF Exec
      <4> QED
        BY <4>1 DEF CloneVol
    <3>2. CASE c.op = "snapshot"
      <4>1. Snapshot(c.vol, c.tag, p.id, "ok")
        BY <1>7, <2>0, <3>2 DEF Exec
      <4> QED
        BY <2>0, <3>2, <4>1 DEF Snapshot, IsZclone
    <3>3. CASE c.op = "virtclone"
      <4>1. VirtClone(c.vm, c.new, c.files, "ok")
        BY <1>7, <2>0, <3>3 DEF Exec
      <4> QED
        BY <2>0, <3>3, <4>1 DEF VirtClone, IsZclone
    <3>4. c.op \in {"zclone", "snapshot", "virtclone"}
      BY <1>2, <1>4, <2>0, StepForms
    <3> QED
      BY <3>1, <3>2, <3>3, <3>4
  <2>3. \A j \in Done(np) : IsZclone(np.steps[j]) => np.steps[j].do.new \in vols'
    BY <1>2, <1>5, <2>0, <2>1, <2>2 DEF NewRun
  <2>4. np.new \in reg' => \E w \in vols' : w.vm = np.new /\ \A j \in Done(np) : IsZclone(np.steps[j]) => np.steps[j].do.new # w
    <3> SUFFICES ASSUME p.new \in reg
                 PROVE  \E w \in vols' : w.vm = p.new /\ \A j \in Done(np) : IsZclone(p.steps[j]) => p.steps[j].do.new # w
      BY <1>2, <1>5
    <3>1. PICK w \in vols : w.vm = p.new /\ \A j \in Done(p) : IsZclone(p.steps[j]) => p.steps[j].do.new # w
      BY <1>5 DEF NewRun
    <3>2. w \in vols' /\ \A j \in Done(np) : IsZclone(p.steps[j]) => p.steps[j].do.new # w
      BY <2>0, <2>1, <2>2, <3>1
    <3> QED
      BY <3>1, <3>2
  <2>5. NewRun(np)'
    BY <2>3, <2>4 DEF NewRun, Done, IsZclone
  <2>6. PlanWhole(np)'
    BY <1>5, <2>5 DEF PlanWhole, Deletes, IsClone
  <2>7. RegKept'
    <3>1. \A n \in reg : Present(n)
      BY <1>2, AllPresent
    <3> QED
      BY <1>2, <2>2, <3>1 DEF RegKept, Present
  <2> QED
    BY <1>3, <2>6, <2>7, Assembled
<1> QED
  BY <1>4, <1>6, <1>7

\* The other verbs: the zvols stay.
LEMMA PlainWhole ==
  ASSUME Alone, IInv, WholeInv, NEW i \in Proc, RunCmd(i), NEW p, p = plan[i],
         p.kind \notin {"delete", "reconcile", "golden"}, ~IsClone(p)
  PROVE  WholeInv'
<1>1. PICK c : c = Do(p, p.k)
  OBVIOUS
<1>2. /\ p.phase = "run" /\ PlanOK(p) /\ p.k \in 1..Len(p.steps) /\ UNCHANGED <<rows, reg, fired>>
  BY Runs
<1>3. PICK reply \in Replies : Exec(c, p, reply) /\ ~Fails(reply) /\
              \E np : plan'[i] = np /\ Same(p, np) /\ After(p, np, reply)
  BY <1>1, Runs
<1>4. PICK np : plan'[i] = np /\ Same(p, np)
  BY <1>3
<1>5. c.op \in {"start", "destroy", "shutdown", "reseal", "snapshot", "rollback"}
  <2>1. Touching(p, c)
    BY <1>1, <1>2 DEF PlanOK, Busy, Do
  <2> QED
    BY <2>1 DEF Touching
<1>6. UNCHANGED vols
  <2>1. CASE c.op = "start"
    BY <1>3, <2>1 DEF Exec, Start, Unchanged, host
  <2>2. CASE c.op = "destroy"
    BY <1>3, <2>2 DEF Exec, Destroy, PowerOff, Unchanged, host
  <2>3. CASE c.op = "shutdown"
    BY <1>3, <2>3 DEF Exec, Shutdown, Unchanged, host
  <2>4. CASE c.op = "reseal"
    BY <1>3, <2>4 DEF Exec, DestroySnap, Unchanged, host
  <2>5. CASE c.op = "snapshot"
    BY <1>3, <2>5 DEF Exec, Snapshot, Unchanged, host
  <2>6. CASE c.op = "rollback"
    BY <1>3, <2>6 DEF Exec, RollbackVol, Unchanged, host
  <2> QED
    BY <1>5, <2>1, <2>2, <2>3, <2>4, <2>5, <2>6
<1>7. PlanWhole(np)'
  BY <1>4 DEF PlanWhole, Deletes, IsClone, Same
<1>8. RegKept'
  <2>1. \A n \in reg : Present(n)
    BY AllPresent DEF Deletes
  <2> QED
    BY <1>2, <1>6, <2>1 DEF RegKept, Present
<1> QED
  BY <1>4, <1>7, <1>8, Assembled

LEMMA RunWhole == ASSUME Alone, IInv, WholeInv, NEW i \in Proc, RunCmd(i) PROVE WholeInv'
<1>1. PICK p : p = plan[i]
  OBVIOUS
<1>2. p.phase = "run" /\ p.k \in 1..Len(p.steps)
  BY <1>1, Runs
<1>3. CASE p.kind \in {"delete", "reconcile"}
  <2>1. DelShape(p) /\ Deletes(p)
    BY <1>1, <1>2, <1>3 DEF WholeInv, PlanWhole, Deletes
  <2>2. Do(p, p.k) \in {Cmd("destroy", p.vm), Cmd("undefine", p.vm), Zd(p.vm, "root"), Zd(p.vm, "data")}
    BY <1>2, <2>1 DEF DelShape
  <2> QED
    BY <1>1, <2>1, <2>2, DeleteDomain, DeleteDisk
<1> QED
  BY <1>1, <1>3, GoldenCommand, CloneMakes, PlainWhole

\* unwind: what a clone made, and nothing of another plan.
LEMMA UnwindWhole == ASSUME Alone, IInv, WholeInv, NEW i \in Proc, Unwind(i) PROVE WholeInv'
<1>1. PICK p : p = plan[i]
  OBVIOUS
<1>2. /\ p.phase = "unwind" /\ p \in PlanRec /\ PlanOK(p) /\ p.k - 1 \in 1..Len(p.steps) /\ p.k \in Nat /\ p.k > 1
      /\ UNCHANGED <<rows, reg, fired>>
  <2>1. p.phase = "unwind" /\ p.k > 1 /\ UNCHANGED <<rows, reg, fired>>
    BY <1>1 DEF Unwind
  <2>2. p \in PlanRec /\ PlanOK(p)
    BY <1>1 DEF IInv, PlansOK
  <2>3. p.k \in Nat /\ p.at \in Nat /\ Len(p.steps) \in Nat /\ p.k <= p.at /\ p.at <= Len(p.steps)
    BY <2>1, <2>2 DEF PlanRec, PlanOK
  <2> QED
    BY <2>1, <2>2, <2>3
<1>3. PICK c : c = p.steps[p.k - 1].undo
  OBVIOUS
<1>4. PICK np : np = plan'[i]
  OBVIOUS
<1>5. /\ Same(p, np) /\ np.phase = "unwind" /\ np.k = p.k - 1
      /\ (c = NoCmd /\ Unchanged) \/ (c # NoCmd /\ \E reply \in Replies : Exec(c, p, reply))
  <2>1. plan \in [Proc -> PlanRec]
    BY DEF IInv, PlansOK
  <2>2. CASE c = NoCmd
    <3>1. plan' = [plan EXCEPT ![i].k = @ - 1] /\ Unchanged
      BY <1>1, <1>3, <2>2 DEF Unwind
    <3>2. np = [p EXCEPT !.k = p.k - 1]
      BY <1>1, <1>4, <2>1, <3>1
    <3> QED
      BY <1>2, <2>2, <3>1, <3>2 DEF PlanRec, Same
  <2>3. CASE c # NoCmd
    <3>1. PICK reply \in Replies : Exec(c, p, reply) /\ plan' = [plan EXCEPT ![i] = AfterUndo(p, c, reply)]
      BY <1>1, <1>3, <2>3 DEF Unwind
    <3>2. np = [p EXCEPT !.k = p.k - 1, !.broken = IF reply = "ok" THEN p.broken ELSE p.broken \cup {c}]
      BY <1>1, <1>4, <2>1, <3>1 DEF AfterUndo
    <3>3. Same(p, np) /\ np.phase = "unwind" /\ np.k = p.k - 1
      BY <1>2, <3>2 DEF PlanRec, Same
    <3> QED
      BY <2>3, <3>1, <3>3
  <2> QED
    BY <2>2, <2>3
<1>6. \A n \in reg : Present(n)
  BY <1>1, <1>2, AllPresent DEF Deletes
<1>7. CASE IsClone(p)
  <2>1. CloneShape(p) /\ NewRun(p) /\ Done(np) \subseteq Done(p) /\ p.k - 1 \in Done(p)
    <3>1. Done(np) \subseteq Done(p) /\ p.k - 1 \in Done(p)
      BY <1>2, <1>5 DEF Done
    <3> QED
      BY <1>1, <1>2, <1>7, <3>1 DEF PlanOK, WholeInv, PlanWhole
  <2>2. \A w \in vols : w \in vols' \/ (w.vm = p.new /\ IsZclone(p.steps[p.k - 1]) /\ p.steps[p.k - 1].do.new = w)
    <3>1. CASE Unchanged
      BY <3>1 DEF Unchanged, host
    <3>2. CASE c = NoCmd
      BY <1>5, <3>1, <3>2
    <3>3. CASE c # NoCmd
      <4>1. PICK reply \in Replies : Exec(c, p, reply)
        BY <1>5, <3>3
      <4>2. \/ /\ IsZclone(p.steps[p.k - 1]) /\ c.op = "zdestroy" /\ c.vol = p.steps[p.k - 1].do.new /\ c.vol.vm = p.new
            \/ c.op = "dsnap"
        <5>1. PICK st : st = p.steps[p.k - 1] /\ c = st.undo
          BY <1>3
        <5>2. \/ IsZclone(st) /\ \E k \in Kind : st.do.new = V(p.new, k) /\ st.undo = ZCmd("zdestroy", V(p.new, k))
              \/ \E k \in Kind : st.undo = SCmd("dsnap", V(p.vm, k), p.new)
              \/ st.undo = NoCmd
          BY <1>2, <2>1, <5>1, StepForms
        <5>3. \A k : /\ ZCmd("zdestroy", V(p.new, k)).op = "zdestroy" /\ ZCmd("zdestroy", V(p.new, k)).vol = V(p.new, k)
                     /\ V(p.new, k).vm = p.new /\ SCmd("dsnap", V(p.vm, k), p.new).op = "dsnap"
          BY DEF ZCmd, SCmd, V
        <5> QED
          BY <3>3, <5>1, <5>2, <5>3
      <4>3. CASE Fails(reply)
        BY <3>1, <4>3 DEF Fails
      <4>4. CASE c.op = "dsnap" /\ ~Fails(reply)
        BY <4>1, <4>4 DEF Exec, DestroySnap, Unchanged, host
      <4>5. CASE c.op = "zdestroy" /\ ~Fails(reply)
        <5>1. DestroyVol(c.vol, reply)
          BY <4>1, <4>5 DEF Exec
        <5>2. \A w \in vols : w \in vols' \/ w = c.vol
          BY <5>1 DEF DestroyVol, Unchanged, host
        <5> QED
          BY <4>2, <4>5, <5>2
      <4> QED
        BY <4>2, <4>3, <4>4, <4>5
    <3> QED
      BY <3>2, <3>3
  <2>3. ASSUME NEW n \in reg
        PROVE  \E w \in vols' : w.vm = n /\ (n = p.new => \A j \in Done(p) : IsZclone(p.steps[j]) => p.steps[j].do.new # w)
    <3>1. CASE n = p.new
      <4>1. PICK w \in vols : w.vm = n /\ \A j \in Done(p) : IsZclone(p.steps[j]) => p.steps[j].do.new # w
        BY <2>1, <3>1 DEF NewRun
      <4>2. w \in vols'
        BY <2>1, <2>2, <4>1
      <4> QED
        BY <4>1, <4>2
    <3>2. CASE n # p.new
      <4>1. PICK w \in vols : w.vm = n
        BY <1>6 DEF Present
      <4>2. w \in vols'
        BY <2>2, <3>2, <4>1
      <4> QED
        BY <3>2, <4>1, <4>2
    <3> QED
      BY <3>1, <3>2
  <2>4. NewRun(np)'
    <3>1. np.new = p.new /\ np.steps = p.steps
      BY <1>5 DEF Same
    <3>2. np.new \in reg' => \E w \in vols' : w.vm = np.new /\ \A j \in Done(np) : IsZclone(np.steps[j]) => np.steps[j].do.new # w
      <4> SUFFICES ASSUME p.new \in reg
                   PROVE  \E w \in vols' : w.vm = p.new /\ \A j \in Done(np) : IsZclone(p.steps[j]) => p.steps[j].do.new # w
        BY <1>2, <3>1
      <4>1. PICK w \in vols' : w.vm = p.new /\ \A j \in Done(p) : IsZclone(p.steps[j]) => p.steps[j].do.new # w
        BY <2>3
      <4> QED
        BY <2>1, <4>1
    <3> QED
      BY <1>5, <3>2 DEF NewRun, Done, IsZclone
  <2>5. PlanWhole(np)'
    BY <1>5, <1>7, <2>4 DEF PlanWhole, Deletes, IsClone, Same
  <2>6. RegKept'
    BY <1>2, <2>3 DEF RegKept, Present
  <2> QED
    BY <1>4, <2>5, <2>6, Assembled
<1>8. CASE ~IsClone(p)
  <2>1. c = NoCmd
    BY <1>2, <1>3, <1>8 DEF PlanOK, Busy
  <2>2. UNCHANGED <<host, reg>>
    BY <1>2, <1>5, <2>1 DEF Unchanged
  <2>3. PlanWhole(np)
    <3>1. PlanWhole(p)
      BY <1>1 DEF WholeInv
    <3> QED
      BY <1>2, <1>5, <1>8, <3>1 DEF PlanWhole, Deletes, IsClone, Same, NotHalf
  <2>4. PlanWhole(np)'
    BY <2>2, <2>3, WholeSame
  <2>5. RegKept'
    BY <1>6, <2>2 DEF RegKept, Present, host
  <2> QED
    BY <1>4, <2>4, <2>5, Assembled
<1> QED
  BY <1>7, <1>8

\* The end of a plan, and what it does to the inventory.
LEMMA OverWhole == ASSUME Alone, IInv, WholeInv, NEW i \in Proc, Failed(i) \/ Succeeded(i) PROVE WholeInv'
<1>1. PICK p : p = plan[i]
  OBVIOUS
<1>2. p \in PlanRec /\ PlanOK(p) /\ UNCHANGED host
  BY <1>1 DEF IInv, PlansOK, Failed, Succeeded
<1>3. plan'[i].kind = "none"
  BY DEF IInv, PlansOK, Failed, Succeeded, Idle
<1>4. PICK np : np = plan'[i]
  OBVIOUS
<1>5. PlanWhole(np)'
  BY <1>3, <1>4 DEF PlanWhole, Deletes, IsClone
<1>6. \A n \in reg' : Present(n)
  <2>1. CASE Failed(i)
    <3>1. reg' = reg /\ ~Deletes(p)
      BY <1>1, <2>1 DEF Failed, Deletes
    <3> QED
      BY <1>1, <3>1, AllPresent
  <2>2. CASE Succeeded(i)
    <3>1. p.phase = "run" /\ p.k > Len(p.steps) /\ reg' = Post(p)
      <4>1. ~(faults < MaxFault)
        BY DEF Alone, IInv, Counters
      <4> QED
        BY <1>1, <2>2, <4>1 DEF Succeeded
    <3>2. CASE Deletes(p)
      <4>1. reg' = reg \ {p.vm}
        BY <3>1, <3>2 DEF Deletes, Post
      <4>2. \A n \in reg : Present(n) \/ n = p.vm
        BY <1>1 DEF WholeInv, RegKept, Alone
      <4> QED
        BY <4>1, <4>2
    <3>3. CASE IsClone(p)
      <4>1. CloneShape(p) /\ NewRun(p) /\ ~Deletes(p) /\ reg' = reg \cup {p.new}
        BY <1>1, <1>2, <3>1, <3>3 DEF PlanOK, WholeInv, PlanWhole, IsClone, Deletes, Post
      <4>2. PICK j \in 1..(Len(p.steps) - 1) : IsZclone(p.steps[j]) /\ p.steps[j].do.new = V(p.new, "root")
        BY <4>1, HostAssumption DEF CloneShape
      <4>3. p.k \in Nat /\ Len(p.steps) \in Nat
        BY <1>2 DEF PlanRec
      <4>4. j \in Done(p)
        BY <3>1, <4>3 DEF Done
      <4>5. V(p.new, "root") \in vols
        BY <3>1, <4>1, <4>2, <4>4 DEF NewRun
      <4>6. Present(p.new)
        BY <4>5 DEF Present, V
      <4> QED
        BY <1>1, <4>1, <4>6, AllPresent
    <3>4. CASE ~Deletes(p) /\ ~IsClone(p)
      <4>1. reg' = reg
        BY <3>1, <3>4 DEF Deletes, IsClone, Post
      <4> QED
        BY <1>1, <3>4, <4>1, AllPresent
    <3> QED
      BY <3>2, <3>3, <3>4
  <2> QED
    BY <2>1, <2>2
<1>7. RegKept'
  BY <1>2, <1>6 DEF RegKept, Present, host
<1> QED
  BY <1>4, <1>5, <1>7, Assembled

LEMMA NextWhole == ASSUME Alone PROVE IInv /\ WholeInv /\ [Next]_vars => WholeInv'
<1> SUFFICES ASSUME IInv, WholeInv, [Next]_vars PROVE WholeInv'
  OBVIOUS
<1>1. CASE UNCHANGED <<host, plan, reg>>
  <2>1. \A q : PlanWhole(q) => PlanWhole(q)'
    BY <1>1, WholeSame
  <2>2. ASSUME NEW q \in Proc PROVE PlanWhole(plan[q])'
    <3>1. PICK p : p = plan[q]
      OBVIOUS
    <3>2. PlanWhole(p)' /\ plan'[q] = p
      BY <1>1, <2>1, <3>1 DEF WholeInv
    <3> QED
      BY <3>2 DEF PlanWhole, Deletes, DelShape, DelRun, Waits, Do, Done, Ahead, NotHalf, GoldShape, GoldRun, NewRun, IsClone
  <2>3. RegKept'
    BY <1>1 DEF WholeInv, RegKept, Present, Deletes, host
  <2> QED
    BY <2>2, <2>3 DEF WholeInv
<1>2. ~Other
  BY DEF Other, Alone, IInv, Counters
<1>3. CASE RefreshEstate \/ RefreshZFS
  BY <1>1, <1>3 DEF RefreshEstate, RefreshZFS, RefreshTo
<1>4. CASE UNCHANGED vars
  BY <1>1, <1>4 DEF vars
<1> QED
  BY <1>2, <1>3, <1>4, FireWhole, RunWhole, UnwindWhole, OverWhole
     DEF Next, PlanStep, GuestOff, OtherStart, Suspend, AutoSnap

LEMMA InitWhole == Init => WholeInv
<1> SUFFICES ASSUME Init PROVE WholeInv
  OBVIOUS
<1>1. \A q \in Proc : PlanWhole(plan[q])
  BY DEF Init, Idle, PlanWhole, Deletes, IsClone
<1>2. PICK owned \in SUBSET Name : [vm : owned, kind : Kind] \subseteq vols /\ reg = owned
  BY DEF Init
<1>3. ASSUME NEW n \in reg PROVE Present(n)
  <2>1. V(n, "root") \in vols
    BY <1>2, HostAssumption DEF V
  <2> QED
    BY <2>1 DEF Present, V
<1> QED
  BY <1>1, <1>3 DEF WholeInv, RegKept

LEMMA WholeMeans == ASSUME Alone PROVE IInv /\ WholeInv => NeverHalfDeleted /\ NoGhosts /\ GoldenOkMeansWhole
<1> SUFFICES ASSUME IInv, WholeInv PROVE NeverHalfDeleted /\ NoGhosts /\ GoldenOkMeansWhole
  OBVIOUS
<1>1. NeverHalfDeleted
  BY DEF WholeInv, PlanWhole, NotHalf, NeverHalfDeleted
<1>2. NoGhosts
  BY DEF WholeInv, RegKept, Present, Deletes, NoGhosts
<1>3. GoldenOkMeansWhole
  <2> SUFFICES ASSUME NEW q \in Proc, plan[q].kind = "golden", Succeeds(q), NEW v \in DisksOf(plan[q].vm)
               PROVE  HasSnap(v, "golden") /\ TheSnap(v, "golden").by = plan[q].id
    BY DEF GoldenOkMeansWhole
  <2>1. PICK p : p = plan[q]
    OBVIOUS
  <2>2. /\ p \in PlanRec /\ GoldShape(p) /\ GoldRun(p) /\ p.k > Len(p.steps) /\ HostOK
        /\ p.k \in Nat /\ Len(p.steps) \in Nat
    BY <2>1 DEF IInv, PlansOK, WholeInv, PlanWhole, Succeeds, PlanRec
  <2>3. PICK k \in dom[p.vm].disks : v = V(p.vm, k)
    BY <2>1 DEF DisksOf
  <2>4. p.vm \in Name
    BY <2>2 DEF GoldShape
  <2>5. k \in Kind
    BY <2>2, <2>3, <2>4 DEF HostOK, DomOK, DomRec
  <2>6. PICK j \in 1..Len(p.steps) : Do(p, j).op = "snapshot" /\ Do(p, j).vol = v
    BY <2>2, <2>3, <2>5 DEF GoldShape
  <2>7. j \in Done(p) /\ Ahead(p) = {}
    BY <2>2 DEF Done, Ahead
  <2>8. Sealed(v, p.id)
    BY <2>2, <2>6, <2>7 DEF GoldRun
  <2>9. v \in Vol /\ "golden" \in Tag
    BY <2>3, <2>4, <2>5 DEF V, Vol, Tag
  <2>10. HasSnap(v, "golden")
    BY <2>8 DEF Sealed, HasSnap
  <2> QED
    BY <2>1, <2>2, <2>8, <2>9, <2>10, TheOne DEF Sealed
<1> QED
  BY <1>1, <1>2, <1>3

-----------------------------------------------------------------------------
(* Where nothing is started, a delete that succeeds is a delete.           *)

LEMMA AssembledOff ==
  ASSUME Alone, NEW i \in Proc, NEW np, plan'[i] = np, PlanOff(np)', OffHost' PROVE OffInv'
<1>1. PlanOff(plan[i])'
  BY DEF PlanOff, NoStart, OffShape, OffRun, Do, Done, Ahead, Zd, DestroysDisks
<1> QED
  BY <1>1 DEF OffInv, Alone

\* A plan of other than deletes, wherever it is.
LEMMA PlainOff ==
  ASSUME NEW np, np.kind # "delete", \A i \in 1..Len(np.steps) : Do(np, i).op \notin {"start", "undefine"}
  PROVE  PlanOff(np) /\ PlanOff(np)'
  BY DEF PlanOff, NoStart, Do

LEMMA FireOff ==
  ASSUME Alone, "start" \notin Offered, IInv, OffInv, NEW i \in Proc, NEW n \in Name, FireAny(i, n)
  PROVE  OffInv'
<1>0. HostOK /\ rows[n] \in RowRec /\ (rows[n].state # "none" => rows[n].disks = Kind)
  BY DEF IInv, RowsOK
<1>1. ASSUME NEW kind, NEW new, NEW steps, Fire(i, kind, n, new, steps), NEW np, np = Fired(kind, n, new, steps),
             PlanOff(np)'
      PROVE  OffInv'
  <2>1. UNCHANGED <<host, rows>> /\ plan'[i] = np
    BY <1>1 DEF Fire, Fired, IInv, PlansOK
  <2>2. OffHost'
    BY <2>1 DEF OffInv, OffHost, Up, Defined, host
  <2> QED
    BY <1>1, <2>1, <2>2, AssembledOff
<1>2. ASSUME NEW kind, kind # "delete", NEW new, NEW steps, Fire(i, kind, n, new, steps),
             \A j \in 1..Len(steps) : steps[j].do.op \notin {"start", "undefine"}
      PROVE  OffInv'
  <2>1. PICK np : np = Fired(kind, n, new, steps)
    OBVIOUS
  <2>2. np.kind = kind /\ np.steps = steps
    BY <2>1, FiredIs
  <2>3. PlanOff(np)'
    BY <1>2, <2>2, PlainOff DEF Do
  <2> QED
    BY <1>1, <1>2, <2>1, <2>3
<1>3. ASSUME NEW c, c.op \notin {"start", "undefine"}
      PROVE  \A j \in 1..Len(Steps(<<c>>)) : Steps(<<c>>)[j].do.op \notin {"start", "undefine"}
  BY <1>3 DEF Steps, Step
<1>4. CASE FireStart(i, n)
  BY <1>4 DEF FireStart
<1>5. CASE FireForceOff(i, n)
  <2>1. Cmd("destroy", n).op = "destroy"
    BY DEF Cmd
  <2> QED
    BY <1>2, <1>3, <1>5, <2>1 DEF FireForceOff
<1>6. ASSUME NEW s, FireRollback(i, n, s) PROVE OffInv'
  <2>1. SCmd("rollback", V(n, "root"), s.tag).op = "rollback"
    BY DEF SCmd
  <2> QED
    BY <1>2, <1>3, <1>6, <2>1 DEF FireRollback
<1>7. CASE FireGolden(i, n)
  <2>1. PICK np : np = Fired("golden", n, n, GoldenSteps(n, rows[n]))
    OBVIOUS
  <2>2. rows[n].disks = Kind /\ Fire(i, "golden", n, n, GoldenSteps(n, rows[n]))
    BY <1>0, <1>7 DEF FireGolden, Synthetic
  <2>3. np.vm = n /\ np.kind = "golden" /\ np.steps = GoldenSteps(n, rows[n])
    BY <2>1, FiredIs
  <2>4. \A j \in 1..Len(np.steps) : Do(np, j).op \in {"shutdown", "reseal", "snapshot"}
    BY <2>2, <2>3, GoldenShape
  <2>5. PlanOff(np)'
    BY <2>3, <2>4, PlainOff
  <2> QED
    BY <1>1, <2>1, <2>2, <2>5
<1>8. ASSUME NEW new \in Name, NEW sealed \in BOOLEAN, FireClone(i, n, new, sealed) PROVE OffInv'
  <2>0. PICK kind, steps : kind \in {"clone", "goldenclone"} /\ Fire(i, kind, n, new, steps)
    BY <1>8 DEF FireClone
  <2>1. PICK np : np = Fired(kind, n, new, steps)
    OBVIOUS
  <2>2. np.kind = kind /\ np.steps = steps /\ IsClone(np)
    BY <2>0, <2>1, FiredIs DEF IsClone
  <2>3. plan'[i] = np
    BY <2>0, <2>1 DEF Fire, Fired, IInv, PlansOK
  <2>4. np \in PlanRec /\ CloneShape(np)
    <3>1. IInv'
      BY FireAnyKeeps
    <3>2. PlanOK(plan[i])' /\ plan'[i] \in PlanRec
      BY <3>1 DEF IInv, PlansOK
    <3> QED
      BY <2>2, <2>3, <3>2 DEF PlanOK, IsClone, CloneShape, IsZclone
  <2>5. \A j \in 1..Len(np.steps) : Do(np, j).op \notin {"start", "undefine"}
    BY <2>4, StepForms DEF Do
  <2>6. PlanOff(np)'
    BY <2>0, <2>2, <2>5, PlainOff
  <2> QED
    BY <1>1, <2>0, <2>1, <2>6
<1>9. CASE Synthetic(rows[n]) /\ Fire(i, "reconcile", n, n, ReconcileSteps(n, rows[n]))
  <2>1. PICK np : np = Fired("reconcile", n, n, ReconcileSteps(n, rows[n]))
    OBVIOUS
  <2>2. np.vm = n /\ np.kind = "reconcile" /\ np.steps = ReconcileSteps(n, rows[n])
    BY <2>1, FiredIs
  <2>3. \A j \in 1..Len(np.steps) : Do(np, j) = Zd(n, "root")
    BY <1>0, <2>2, ReconcileShape
  <2>4. Zd(n, "root").op = "zdestroy"
    BY DEF Zd, ZCmd
  <2>5. PlanOff(np)'
    BY <2>2, <2>3, <2>4, PlainOff
  <2> QED
    BY <1>1, <1>9, <2>1, <2>5
<1>10. CASE ~Synthetic(rows[n]) /\ Fire(i, "delete", n, n, DeleteSteps(n, rows[n]))
  <2>1. PICK np : np = Fired("delete", n, n, DeleteSteps(n, rows[n]))
    OBVIOUS
  <2>2. /\ np.vm = n /\ np.kind = "delete" /\ np.steps = DeleteSteps(n, rows[n]) /\ np.k = 1 /\ Done(np) = {}
        /\ UNCHANGED host
    BY <1>10, <2>1, FiredIs DEF Fire
  <2>3. rows[n].pers /\ (Up(n) => rows[n].state # "off")
    BY <1>10 DEF OffInv, OffHost, Synthetic
  <2>4. /\ DestroysDisks(np) /\ (\A j \in 1..Len(np.steps) : Do(np, j) # Zd(n, "data")) => V(n, "data") \notin vols
        /\ \E j \in 1..Len(np.steps) : Do(np, j) = Cmd("undefine", n)
        /\ \A j, l \in 1..Len(np.steps) : Do(np, j) = Cmd("undefine", n) /\ Do(np, l) = Cmd("destroy", n) => l < j
        /\ Up(n) => \E j \in 1..Len(np.steps) : Do(np, j) = Cmd("destroy", n)
        /\ \A j \in 1..Len(np.steps) : Do(np, j).op # "start"
        /\ DelShape(np)
    BY <1>0, <2>2, <2>3, DeleteShape
  <2>5. NoStart(np) /\ OffShape(np)
    <3>1. \A j \in 1..Len(np.steps) : Do(np, j).op = "undefine" => Do(np, j) = Cmd("undefine", n)
      BY <2>2, <2>4 DEF DelShape, Cmd, Zd, ZCmd
    <3> QED
      BY <2>2, <2>4, <3>1 DEF NoStart, OffShape
  <2>6. OffRun(np)'
    <3>1. Ahead(np) = 1..Len(np.steps)
      BY <2>2 DEF Ahead
    <3>2. Up(n)' = Up(n) /\ vols' = vols
      BY <2>2 DEF Up, host
    <3>3. \/ ~Up(n)
          \/ \E j \in Ahead(np) : Do(np, j) = Cmd("destroy", n)
      BY <2>4, <3>1
    <3> QED
      BY <2>2, <2>4, <3>2, <3>3 DEF OffRun, Do, Done, Ahead, Zd, DestroysDisks, Up
  <2>7. PlanOff(np)'
    BY <2>5, <2>6 DEF PlanOff, NoStart, OffShape, Do
  <2> QED
    BY <1>1, <1>10, <2>1, <2>7
<1>11. CASE FireDelete(i, n)
  BY <1>9, <1>10, <1>11 DEF FireDelete
<1> QED
  BY <1>4, <1>5, <1>6, <1>7, <1>8, <1>11 DEF FireAny

\* What a command does to the domains: none comes up, and one that is new is persistent.
LEMMA RunDomains ==
  ASSUME Alone, IInv, OffInv, NEW i \in Proc, RunCmd(i)
  PROVE  OffHost' /\ \A n \in Name : Up(n)' => Up(n)
<1>1. PICK p : p = plan[i]
  OBVIOUS
<1>2. PICK c : c = Do(p, p.k)
  OBVIOUS
<1>3. /\ p.k \in 1..Len(p.steps) /\ c \in Cmds /\ p.phase = "run" /\ rows' = rows /\ PlanOff(p)
      /\ p.k \in Nat /\ Len(p.steps) \in Nat
  BY <1>1, <1>2, Runs DEF OffInv
<1>4. PICK reply \in Replies : Exec(c, p, reply) /\ ~Fails(reply)
  BY <1>1, <1>2, Runs
<1>5. c.op # "start" /\ (c.op = "undefine" => p.kind = "delete")
  BY <1>2, <1>3 DEF PlanOff, NoStart
<1>6. dom \in [Name -> DomRec] /\ OffHost
  BY DEF IInv, HostOK, DomOK, OffInv
<1>7. /\ c.op \in {"destroy", "undefine", "shutdown"} => c.vm \in Name
      /\ c.op = "virtclone" => c.new \in Name
  BY <1>3 DEF Cmds, VmCmds, ZCmds, SCmds, CCmds, DCmds
<1>8. \A n \in Name : (Up(n)' => Up(n)) /\ (Defined(n)' => dom'[n].pers)
  <2>1. CASE UNCHANGED dom
    BY <1>6, <2>1 DEF OffHost, Up, Defined
  <2>2. CASE c.op = "destroy"
    <3>1. Destroy(c.vm, reply) /\ c.vm \in Name
      BY <1>4, <1>7, <2>2 DEF Exec
    <3>2. CASE Unchanged
      BY <2>1, <3>2 DEF Unchanged, host
    <3>3. CASE PowerOff(c.vm)
      <4>1. dom' = [dom EXCEPT ![c.vm] = IF dom[c.vm].pers THEN [dom[c.vm] EXCEPT !.state = "off"] ELSE NoDom]
        BY <3>3 DEF PowerOff
      <4>2. \A n \in Name : n # c.vm => dom'[n] = dom[n]
        BY <1>6, <4>1
      <4>3. dom'[c.vm] = IF dom[c.vm].pers THEN [dom[c.vm] EXCEPT !.state = "off"] ELSE NoDom
        BY <1>6, <3>1, <4>1
      <4>4. dom'[c.vm].state \in {"off", "none"} /\ (dom'[c.vm].state # "none" => dom'[c.vm].pers)
        BY <1>6, <3>1, <4>3 DEF DomRec, NoDom
      <4> QED
        BY <1>6, <4>2, <4>4 DEF OffHost, Up, Defined
    <3> QED
      BY <3>1, <3>2, <3>3 DEF Destroy
  <2>3. CASE c.op = "undefine"
    <3>1. Undefine(c.vm, reply) /\ c.vm \in Name
      BY <1>4, <1>7, <2>3 DEF Exec
    <3>2. c = Cmd("undefine", p.vm) /\ ~Up(p.vm)
      <4>1. p.kind = "delete" /\ OffShape(p) /\ OffRun(p)
        BY <1>3, <1>5, <2>3 DEF PlanOff
      <4>2. c = Cmd("undefine", p.vm)
        <5>1. \A k \in 1..Len(p.steps) : Do(p, k).op = "undefine" => Do(p, k) = Cmd("undefine", p.vm)
          BY <4>1 DEF OffShape
        <5> QED
          BY <1>2, <1>3, <2>3, <5>1
      <4>3. ASSUME Up(p.vm) PROVE FALSE
        <5>1. PICK j \in Ahead(p) : Do(p, j) = Cmd("destroy", p.vm)
          BY <4>1, <4>3 DEF OffRun
        <5>2. j \in 1..Len(p.steps) /\ j >= p.k /\ j \in Nat
          BY <1>3 DEF Ahead
        <5>3. j < p.k
          BY <1>2, <1>3, <4>1, <4>2, <5>1, <5>2 DEF OffShape
        <5> QED
          BY <1>3, <5>2, <5>3
      <4> QED
        BY <4>2, <4>3
    <3>3. c.vm = p.vm
      BY <3>2 DEF Cmd
    <3>4. CASE Unchanged
      BY <2>1, <3>4 DEF Unchanged, host
    <3>5. CASE Defined(c.vm) /\ dom' = [dom EXCEPT ![c.vm] = IF @.state = "off" THEN NoDom ELSE [@ EXCEPT !.pers = FALSE]]
      <4>1. dom[c.vm].state = "off"
        BY <1>6, <3>1, <3>2, <3>3, <3>5 DEF Up, Defined, DomRec
      <4>2. dom' = [dom EXCEPT ![c.vm] = NoDom]
        BY <3>5, <4>1
      <4>3. \A n \in Name : dom'[n] = IF n = c.vm THEN NoDom ELSE dom[n]
        BY <1>6, <4>2
      <4> QED
        BY <1>6, <4>3 DEF OffHost, Up, Defined, NoDom
    <3> QED
      BY <3>1, <3>4, <3>5 DEF Undefine
  <2>4. CASE c.op = "virtclone"
    <3>1. VirtClone(c.vm, c.new, c.files, reply) /\ c.new \in Name
      BY <1>4, <1>7, <2>4 DEF Exec
    <3>2. CASE Unchanged
      BY <2>1, <3>2 DEF Unchanged, host
    <3>3. CASE dom' = [dom EXCEPT ![c.new] = [state |-> "off", pers |-> TRUE, disks |-> {v.kind : v \in c.files}]]
      <4>1. \A n \in Name : n # c.new => dom'[n] = dom[n]
        BY <1>6, <3>3
      <4>2. dom'[c.new].state = "off" /\ dom'[c.new].pers
        BY <1>6, <3>1, <3>3
      <4> QED
        BY <1>6, <4>1, <4>2 DEF OffHost, Up, Defined
    <3> QED
      BY <3>1, <3>2, <3>3 DEF VirtClone
  <2>5. CASE c.op \notin {"start", "destroy", "undefine", "virtclone"}
    <3>1. UNCHANGED dom
      BY <1>4, <2>5 DEF Exec, Shutdown, DestroyVol, CloneVol, Snapshot, DestroySnap, RollbackVol, Unchanged, host
    <3> QED
      BY <2>1, <3>1
  <2> QED
    BY <1>5, <2>2, <2>3, <2>4, <2>5
<1>9. OffHost'
  BY <1>3, <1>6, <1>8 DEF OffHost
<1> QED
  BY <1>8, <1>9

LEMMA RunOff == ASSUME Alone, IInv, WholeInv, OffInv, NEW i \in Proc, RunCmd(i) PROVE OffInv'
<1>1. PICK p : p = plan[i]
  OBVIOUS
<1>2. PICK c : c = Do(p, p.k)
  OBVIOUS
<1>3. /\ p.k \in 1..Len(p.steps) /\ p.phase = "run" /\ PlanOff(p) /\ p.k \in Nat /\ Len(p.steps) \in Nat
  BY <1>1, Runs DEF OffInv
<1>4. PICK reply \in Replies : Exec(c, p, reply) /\ ~Fails(reply) /\
              \E np : plan'[i] = np /\ Same(p, np) /\ After(p, np, reply)
  BY <1>1, <1>2, Runs
<1>5. PICK np : plan'[i] = np /\ Same(p, np) /\ After(p, np, reply)
  BY <1>4
<1>6. OffHost' /\ \A n \in Name : Up(n)' => Up(n)
  BY RunDomains
<1>7. /\ np.vm = p.vm /\ np.kind = p.kind /\ np.steps = p.steps
      /\ \A j : Do(np, j) = Do(p, j)
  BY <1>5 DEF Same, Do
<1>8. NoStart(np)
  BY <1>3, <1>7 DEF PlanOff, NoStart
<1>9. ASSUME np.kind = "delete", np.phase = "run" PROVE OffShape(np) /\ OffRun(np)'
  <2>1. OffShape(p) /\ OffRun(p) /\ DelShape(p) /\ p.vm \in Name /\ Deletes(p)
    BY <1>1, <1>3, <1>7, <1>9 DEF PlanOff, WholeInv, PlanWhole, Deletes, DelShape
  <2>2. OffShape(np)
    BY <1>7, <2>1 DEF OffShape
  <2>3. \/ c = Cmd("destroy", p.vm) /\ Destroy(p.vm, reply)
        \/ c = Cmd("undefine", p.vm) /\ Undefine(p.vm, reply)
        \/ c.op = "zdestroy" /\ DestroyVol(c.vol, reply)
    <3>1. c \in {Cmd("destroy", p.vm), Cmd("undefine", p.vm), Zd(p.vm, "root"), Zd(p.vm, "data")}
      BY <1>2, <1>3, <2>1 DEF DelShape
    <3>2. CASE c = Cmd("destroy", p.vm)
      BY <1>4, <3>2 DEF Exec, Cmd
    <3>3. CASE c = Cmd("undefine", p.vm)
      BY <1>4, <3>3 DEF Exec, Cmd
    <3>4. CASE c \in {Zd(p.vm, "root"), Zd(p.vm, "data")}
      <4>1. c.op = "zdestroy"
        BY <3>4 DEF Zd, ZCmd
      <4> QED
        BY <1>4, <4>1 DEF Exec
    <3> QED
      BY <3>1, <3>2, <3>3, <3>4
  <2>4. dom \in [Name -> DomRec]
    BY DEF IInv, HostOK, DomOK
  <2>5. (Defined(p.vm)' => Defined(p.vm)) /\ vols' \subseteq vols
    <3>1. CASE Destroy(p.vm, reply)
      BY <2>1, <2>4, <3>1 DEF Destroy, PowerOff, Unchanged, host, Defined, NoDom
    <3>2. CASE Undefine(p.vm, reply)
      BY <2>1, <2>4, <3>2 DEF Undefine, Unchanged, host, Defined, NoDom
    <3>3. CASE DestroyVol(c.vol, reply)
      BY <3>3 DEF DestroyVol, Unchanged, host, Defined
    <3> QED
      BY <2>3, <3>1, <3>2, <3>3
  <2>6. np.k = p.k \/ (np.k = p.k + 1 /\ (reply = "ok" \/ Forgiven(p, reply)))
    BY <1>5, <1>9 DEF After
  <2>7. Up(p.vm)' => \E j \in Ahead(np) : Do(np, j) = Cmd("destroy", p.vm)
    <3> SUFFICES ASSUME Up(p.vm)' PROVE \E j \in Ahead(np) : Do(np, j) = Cmd("destroy", p.vm)
      OBVIOUS
    <3>1. Up(p.vm)
      BY <1>6, <2>1
    <3>2. PICK j \in Ahead(p) : Do(p, j) = Cmd("destroy", p.vm)
      BY <2>1, <3>1 DEF OffRun
    <3>3. CASE np.k = p.k
      BY <1>7, <3>2, <3>3 DEF Ahead
    <3>4. CASE np.k = p.k + 1 /\ (reply = "ok" \/ Forgiven(p, reply))
      <4>1. j # p.k
        <5> SUFFICES ASSUME j = p.k PROVE FALSE
          OBVIOUS
        <5>1. c.op = "destroy" /\ Destroy(p.vm, reply)
          BY <1>2, <2>3, <3>2 DEF Cmd
        <5>2. dom[p.vm].state \in {"running", "paused"} /\ PowerOff(p.vm)
          BY <3>1, <5>1 DEF Destroy, Up
        <5>3. dom'[p.vm].state \in {"off", "none"}
          BY <2>1, <2>4, <5>2 DEF PowerOff, NoDom, DomRec
        <5> QED
          BY <5>3 DEF Up
      <4>2. j \in Ahead(np)
        BY <1>3, <1>7, <3>2, <3>4, <4>1 DEF Ahead
      <4> QED
        BY <1>7, <3>2, <4>2
    <3> QED
      BY <2>6, <3>3, <3>4
  <2>8. (\E j \in Done(np) : Do(np, j) = Cmd("undefine", p.vm)) => ~Defined(p.vm)'
    <3> SUFFICES ASSUME NEW j \in Done(np), Do(p, j) = Cmd("undefine", p.vm) PROVE ~Defined(p.vm)'
      BY <1>7
    <3>1. CASE j \in Done(p)
      <4>1. ~Defined(p.vm)
        BY <2>1, <3>1 DEF OffRun
      <4> QED
        BY <2>5, <4>1
    <3>2. CASE j \notin Done(p)
      <4>1. np.k = p.k + 1 /\ (reply = "ok" \/ Forgiven(p, reply)) /\ j = p.k
        BY <1>3, <2>6, <3>2 DEF Done
      <4>2. Undefine(p.vm, reply) /\ c = Cmd("undefine", p.vm)
        <5>1. c = Cmd("undefine", p.vm) /\ c.op = "undefine" /\ Cmd("destroy", p.vm).op = "destroy"
          BY <1>2, <4>1 DEF Cmd
        <5> QED
          BY <2>3, <5>1
      <4>3. ~Up(p.vm)
        <5> SUFFICES ASSUME Up(p.vm) PROVE FALSE
          OBVIOUS
        <5>1. PICK l \in Ahead(p) : Do(p, l) = Cmd("destroy", p.vm)
          BY <2>1 DEF OffRun
        <5>2. l \in 1..Len(p.steps) /\ l >= p.k /\ l \in Nat
          BY <1>3 DEF Ahead
        <5>3. l < p.k
          BY <1>2, <1>3, <2>1, <4>2, <5>1, <5>2 DEF OffShape
        <5> QED
          BY <1>3, <5>2, <5>3
      <4>4. reply # "refused"
        BY <4>1 DEF Forgiven
      <4>5. CASE ~Defined(p.vm)
        BY <2>5, <4>5
      <4>6. CASE Defined(p.vm)
        <5>1. dom[p.vm].state = "off"
          BY <2>1, <2>4, <4>3, <4>6 DEF Up, Defined, DomRec
        <5>2. dom' = [dom EXCEPT ![p.vm] = IF @.state = "off" THEN NoDom ELSE [@ EXCEPT !.pers = FALSE]]
          BY <4>2, <4>4, <4>6 DEF Undefine
        <5>3. dom'[p.vm] = NoDom
          BY <2>1, <2>4, <5>1, <5>2
        <5> QED
          BY <5>3 DEF Defined, NoDom
      <4> QED
        BY <4>5, <4>6
    <3> QED
      BY <3>1, <3>2
  <2>9. DestroysDisks(np) /\ (\A j \in 1..Len(np.steps) : Do(np, j) # Zd(np.vm, "data")) => V(np.vm, "data") \notin vols'
    BY <1>7, <2>1, <2>5 DEF OffRun, DestroysDisks
  <2>10. OffRun(np)'
    <3>1. Up(np.vm)' => \E j \in Ahead(np) : Do(np, j) = Cmd("destroy", np.vm)
      BY <1>7, <2>7 DEF Up
    <3>2. (\E j \in Done(np) : Do(np, j) = Cmd("undefine", np.vm)) => ~Defined(np.vm)'
      BY <1>7, <2>8 DEF Defined
    <3> QED
      BY <2>9, <3>1, <3>2 DEF OffRun, Do, Done, Ahead, Zd, DestroysDisks
  <2> QED
    BY <2>2, <2>10
<1>10. PlanOff(np)'
  BY <1>8, <1>9 DEF PlanOff, NoStart, OffShape, Do
<1> QED
  BY <1>5, <1>6, <1>10, AssembledOff

LEMMA UnwindOff == ASSUME Alone, IInv, OffInv, NEW i \in Proc, Unwind(i) PROVE OffInv'
<1>1. PICK p : p = plan[i]
  OBVIOUS
<1>2. /\ p.phase = "unwind" /\ p \in PlanRec /\ PlanOff(p) /\ p.k - 1 \in 1..Len(p.steps) /\ rows' = rows
  <2>1. p.phase = "unwind" /\ p.k > 1 /\ rows' = rows
    BY <1>1 DEF Unwind
  <2>2. p \in PlanRec /\ PlanOK(p) /\ PlanOff(p)
    BY <1>1 DEF IInv, PlansOK, OffInv
  <2>3. p.k \in Nat /\ p.at \in Nat /\ Len(p.steps) \in Nat /\ p.k <= p.at /\ p.at <= Len(p.steps)
    BY <2>1, <2>2 DEF PlanRec, PlanOK
  <2> QED
    BY <2>1, <2>2, <2>3
<1>3. PICK c : c = p.steps[p.k - 1].undo
  OBVIOUS
<1>4. c \in Undos
  <2>1. p.steps[p.k - 1] \in StepRec
    BY <1>2 DEF PlanRec
  <2> QED
    BY <1>3, <2>1 DEF StepRec
<1>5. UNCHANGED dom
  <2>1. CASE c = NoCmd
    BY <1>1, <1>3, <2>1 DEF Unwind, Unchanged, host
  <2>2. CASE c # NoCmd
    <3>1. PICK reply \in Replies : Exec(c, p, reply)
      BY <1>1, <1>3, <2>2 DEF Unwind
    <3>2. c.op \in {"zdestroy", "dsnap"}
      BY <1>4, <2>2 DEF Undos, ZCmds
    <3> QED
      BY <3>1, <3>2 DEF Exec, DestroyVol, DestroySnap, Fails, Unchanged, host
  <2> QED
    BY <2>1, <2>2
<1>6. PICK np : np = plan'[i]
  OBVIOUS
<1>7. np.kind = p.kind /\ np.steps = p.steps /\ np.phase = "unwind"
  <2>1. plan \in [Proc -> PlanRec]
    BY DEF IInv, PlansOK
  <2>2. CASE c = NoCmd
    <3>1. plan' = [plan EXCEPT ![i].k = @ - 1]
      BY <1>1, <1>3, <2>2 DEF Unwind
    <3>2. np = [p EXCEPT !.k = p.k - 1]
      BY <1>1, <1>6, <2>1, <3>1
    <3> QED
      BY <1>2, <3>2 DEF PlanRec
  <2>3. CASE c # NoCmd
    <3>1. PICK reply \in Replies : plan' = [plan EXCEPT ![i] = AfterUndo(p, c, reply)]
      BY <1>1, <1>3, <2>3 DEF Unwind
    <3>2. np = [p EXCEPT !.k = p.k - 1, !.broken = IF reply = "ok" THEN p.broken ELSE p.broken \cup {c}]
      BY <1>1, <1>6, <2>1, <3>1 DEF AfterUndo
    <3> QED
      BY <1>2, <3>2 DEF PlanRec
  <2> QED
    BY <2>2, <2>3
<1>8. PlanOff(np)'
  BY <1>2, <1>7 DEF PlanOff, NoStart, Do
<1>9. OffHost'
  BY <1>2, <1>5 DEF OffInv, OffHost, Up, Defined
<1> QED
  BY <1>6, <1>8, <1>9, AssembledOff

LEMMA OverOff == ASSUME Alone, IInv, OffInv, NEW i \in Proc, Failed(i) \/ Succeeded(i) PROVE OffInv'
<1>1. PICK np : np = plan'[i]
  OBVIOUS
<1>2. np.kind = "none" /\ np.steps = <<>> /\ UNCHANGED <<host, rows>>
  BY <1>1 DEF IInv, PlansOK, Failed, Succeeded, Idle
<1>3. PlanOff(np)'
  BY <1>2, PlainOff
<1>4. OffHost'
  BY <1>2 DEF OffInv, OffHost, Up, Defined, host
<1> QED
  BY <1>1, <1>3, <1>4, AssembledOff

\* A refresh shows what is up, or what was shown.
LEMMA RefreshOff == ASSUME IInv, OffInv, RefreshEstate \/ RefreshZFS PROVE OffInv'
<1>1. UNCHANGED <<host, plan>> /\ UNCHANGED <<dom, vols>>
  BY DEF RefreshEstate, RefreshZFS, RefreshTo, host
<1>2. OffHost'
  <2>1. rows \in [Name -> RowRec] /\ dom \in [Name -> DomRec] /\ OffHost
    BY DEF IInv, RowsOK, HostOK, DomOK, OffInv
  <2>2. ASSUME NEW n \in Name
        PROVE  \/ rows'[n].state = dom[n].state /\ rows'[n].pers = dom[n].pers
               \/ rows'[n].state = rows[n].state /\ rows'[n].pers = rows[n].pers
    <3>1. PICK r \in RowRec, d \in DomRec : rows[n] = r /\ dom[n] = d
      BY <2>1
    <3>2. CASE RefreshEstate
      <4>1. rows'[n] = [r EXCEPT !.state = d.state, !.pers = d.pers, !.disks = d.disks]
        BY <3>1, <3>2 DEF RefreshEstate, RefreshTo
      <4> QED
        BY <3>1, <4>1 DEF RowRec
    <3>3. CASE RefreshZFS
      <4>1. PICK o : o = RowOf(n)
        OBVIOUS
      <4>2. rows'[n] = [r EXCEPT !.ds = o.ds, !.snaps = o.snaps, !.listed = n \in reg]
        BY <3>1, <3>3, <4>1 DEF RefreshZFS, RefreshTo
      <4> QED
        BY <3>1, <4>2 DEF RowRec
    <3> QED
      BY <3>2, <3>3
  <2>3. \A n \in Name : (Up(n)' <=> Up(n)) /\ (Defined(n)' <=> Defined(n)) /\ dom'[n] = dom[n]
    BY <1>1 DEF Up, Defined
  <2>4. ASSUME NEW n \in Name
        PROVE  /\ Up(n) => rows'[n].state \in {"running", "paused"}
               /\ rows'[n].state # "none" => rows'[n].pers
    BY <2>1, <2>2 DEF OffHost, Up, Defined
  <2> QED
    BY <2>1, <2>3, <2>4 DEF OffHost
<1>3. ASSUME NEW q \in Proc PROVE PlanOff(plan[q])'
  <2>1. PICK p : p = plan[q]
    OBVIOUS
  <2>2. PlanOff(p) /\ plan'[q] = p
    BY <1>1, <2>1 DEF OffInv
  <2>3. PlanOff(p)'
    BY <1>1, <2>2 DEF PlanOff, NoStart, OffShape, OffRun, Do, Done, Ahead, Zd, DestroysDisks, Up, Defined
  <2> QED
    BY <2>2, <2>3 DEF PlanOff, NoStart, OffShape, OffRun, Do, Done, Ahead, Zd, DestroysDisks
<1> QED
  BY <1>2, <1>3 DEF OffInv

LEMMA NextOff == ASSUME Alone, "start" \notin Offered PROVE IInv /\ WholeInv /\ OffInv /\ [Next]_vars => OffInv'
<1> SUFFICES ASSUME IInv, WholeInv, OffInv, [Next]_vars PROVE OffInv'
  OBVIOUS
<1>1. ~Other
  BY DEF Other, Alone, IInv, Counters
<1>2. CASE UNCHANGED vars
  BY <1>2 DEF vars, host, OffInv, OffHost, PlanOff, NoStart, OffShape, OffRun, Do, Done, Ahead, Zd, DestroysDisks, Up, Defined
<1>3. ASSUME NEW p \in Proc, PlanStep(p) PROVE OffInv'
  BY <1>3, RunOff, UnwindOff, OverOff DEF PlanStep
<1>4. ASSUME NEW p \in Proc, NEW n \in Name, FireAny(p, n) PROVE OffInv'
  BY <1>4, FireOff
<1> QED
  BY <1>1, <1>2, <1>3, <1>4, RefreshOff DEF Next, GuestOff, OtherStart, Suspend, AutoSnap

LEMMA InitOff == Init => OffInv
<1> SUFFICES ASSUME Init PROVE OffInv
  OBVIOUS
<1>1. PICK up, owned, spare : /\ up \subseteq owned /\ owned \subseteq Name
        /\ dom = [n \in Name |-> IF n \in owned THEN [state |-> IF n \in up THEN "running" ELSE "off",
                                                      pers |-> TRUE, disks |-> Kind] ELSE NoDom]
        /\ vols = [vm : owned, kind : Kind] \cup spare
  BY DEF Init
<1>2. \A n \in Name : Defined(n) => dom[n].pers
  BY <1>1 DEF Defined, NoDom
<1>3. \A n \in Name : rows[n].state = dom[n].state /\ rows[n].pers = dom[n].pers
  BY DEF Init, RowOf
<1>4. OffHost
  BY <1>2, <1>3 DEF OffHost, Up, Defined
<1>5. \A q \in Proc : PlanOff(plan[q])
  BY PlainOff DEF Init, Idle
<1> QED
  BY <1>4, <1>5 DEF OffInv

LEMMA OffMeans ==
  ASSUME Kind \subseteq {"root", "data"}
  PROVE  IInv /\ WholeInv /\ OffInv => DeleteOkMeansGone
<1> SUFFICES ASSUME IInv, WholeInv, OffInv, NEW q \in Proc, plan[q].kind = "delete", Succeeds(q), DestroysDisks(plan[q])
             PROVE  ~Defined(plan[q].vm) /\ \A v \in vols : v.vm # plan[q].vm
  BY DEF DeleteOkMeansGone
<1>1. PICK p : p = plan[q]
  OBVIOUS
<1>2. /\ p.phase = "run" /\ p.k > Len(p.steps) /\ p.k \in Nat /\ Len(p.steps) \in Nat /\ p.steps \in Seq(StepRec)
      /\ DelShape(p) /\ DelRun(p) /\ OffShape(p) /\ OffRun(p) /\ vols \in SUBSET Vol
  BY <1>1 DEF IInv, PlansOK, PlanRec, WholeInv, PlanWhole, Deletes, OffInv, PlanOff, Succeeds, HostOK, ZfsOK
<1>3. \A j \in 1..Len(p.steps) : j \in Done(p)
  BY <1>2 DEF Done
<1>4. ~Defined(p.vm)
  BY <1>2, <1>3 DEF OffShape, OffRun
<1>5. \A k : Zd(p.vm, k).op = "zdestroy" /\ Zd(p.vm, k).vol = V(p.vm, k)
  BY DEF Zd, ZCmd
<1>6. \A k : (\E j \in 1..Len(p.steps) : Do(p, j) = Zd(p.vm, k)) => V(p.vm, k) \notin vols
  BY <1>2, <1>3, <1>5 DEF DelRun
<1>7. V(p.vm, "root") \notin vols
  <2>1. PICK j \in 1..Len(p.steps) : Do(p, j).op = "zdestroy"
    BY <1>1, <1>2 DEF DestroysDisks, Do
  <2>2. Do(p, j) \in {Zd(p.vm, "root"), Zd(p.vm, "data")}
    BY <1>2, <2>1 DEF DelShape, Cmd
  <2>3. \E l \in 1..Len(p.steps) : Do(p, l) = Zd(p.vm, "root")
    <3>1. CASE Do(p, j) = Zd(p.vm, "data")
      BY <1>2, <3>1 DEF DelShape
    <3> QED
      BY <2>2, <3>1
  <2> QED
    BY <1>6, <2>3
<1>8. V(p.vm, "data") \notin vols
  BY <1>1, <1>2, <1>6 DEF OffRun
<1>9. ASSUME NEW v \in vols, v.vm = p.vm PROVE FALSE
  <2>1. v = V(p.vm, v.kind) /\ v.kind \in Kind
    BY <1>2, <1>9 DEF Vol, V
  <2> QED
    BY <1>7, <1>8, <2>1
<1> QED
  BY <1>1, <1>4, <1>9

-----------------------------------------------------------------------------

\* One plan at a time, on this host, where no command fails by itself and qemu lets
\* go of a disk within the retries: a delete that stops has not stopped half-way,
\* the inventory lists no VM that is gone, and a golden that succeeded has every
\* disk sealed by it, whatever the verbs that are offered, the disks a VM has and
\* how far behind the rows are (planDelete, planReconcile, MakeGolden, runPlan).
THEOREM NothingHalfDone ==
  ASSUME Alone PROVE Spec => [](NeverHalfDeleted /\ NoGhosts /\ GoldenOkMeansWhole)
<1>1. Init => IInv /\ WholeInv
  BY InitIInv, InitWhole
<1>2. (IInv /\ WholeInv) /\ [Next]_vars => (IInv /\ WholeInv)'
  BY NextKeeps, NextWhole
<1>3. IInv /\ WholeInv => NeverHalfDeleted /\ NoGhosts /\ GoldenOkMeansWhole
  BY WholeMeans
<1> QED
  BY <1>1, <1>2, <1>3, PTL DEF Spec

\* And where nothing is started and a VM has the disks planDelete knows of, a
\* delete that succeeded left neither the domain nor a disk of it (planDelete,
\* runPlan).
THEOREM DeleteStaysWhole ==
  ASSUME Alone, "start" \notin Offered, Kind \subseteq {"root", "data"} PROVE Spec => []DeleteIsWhole
<1>1. Init => IInv /\ WholeInv /\ OffInv
  BY InitIInv, InitWhole, InitOff
<1>2. (IInv /\ WholeInv /\ OffInv) /\ [Next]_vars => (IInv /\ WholeInv /\ OffInv)'
  BY NextKeeps, NextWhole, NextOff
<1>3. IInv /\ WholeInv /\ OffInv => DeleteIsWhole
  BY WholeMeans, OffMeans DEF DeleteIsWhole
<1> QED
  BY <1>1, <1>2, <1>3, PTL DEF Spec

=============================================================================
