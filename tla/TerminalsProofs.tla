-------------------------- MODULE TerminalsProofs --------------------------
(***************************************************************************)
(* What an operator sees of the host in a terminal, for any sessions, jobs *)
(* and names: the panes of the console (VmxPanes), the estate's rows and   *)
(* marks (Tui), the form that installs a machine (Install), and a          *)
(* machine's display with its keys and clicks (VmxScreen, VmxRender).      *)
(* Each part has its invariant, and a step of another part leaves it       *)
(* alone.                                                                  *)
(***************************************************************************)
EXTENDS MCTerminals, FiniteSetTheorems, SequenceTheorems, WellFoundedInduction, TLAPS

-----------------------------------------------------------------------------
(* The least of some numbers, and a sequence without one of its elements.  *)

LEMMA Least == ASSUME NEW S \in SUBSET Nat, S # {} PROVE \E x \in S : \A y \in S : x =< y
<1> DEFINE R == {ss \in Nat \X Nat : ss[1] < ss[2]}
<1>1. IsWellFoundedOn(R, Nat)
  BY NatLessThanWellFounded DEF OpToRel
<1>2. \E x \in S : \A y \in S : ~ (<<y, x>> \in R)
  <2> HIDE DEF R
  <2> QED
    BY <1>1, WFMin
<1>3. PICK x \in S : \A y \in S : ~ (<<y, x>> \in R)
  BY <1>2
<1>4. ASSUME NEW y \in S PROVE x =< y
  <2>1. <<y, x>> \in Nat \X Nat /\ <<y, x>>[1] = y /\ <<y, x>>[2] = x
    OBVIOUS
  <2> QED
    BY <1>3, <2>1
<1> QED
  BY <1>4

LEMMA LeastIs == ASSUME NEW S \in SUBSET Nat, S # {} PROVE Min(S) \in S /\ \A n \in S : Min(S) <= n
  BY Least DEF Min

\* What RemoveAt leaves: the rest, in its order.
LEMMA Removed ==
  ASSUME NEW S, NEW q \in Seq(S), NEW i \in 1..Len(q)
  PROVE  /\ RemoveAt(q, i) \in Seq(S) /\ Len(RemoveAt(q, i)) = Len(q) - 1
         /\ \A j \in 1..(Len(q) - 1) : RemoveAt(q, i)[j] = IF j < i THEN q[j] ELSE q[j + 1]
<1> DEFINE a == SubSeq(q, 1, i - 1)
           b == SubSeq(q, i + 1, Len(q))
<1>0. Len(q) \in Nat /\ \A j \in 1..Len(q) : q[j] \in S
  BY LenProperties, ElementOfSeq
<1>1. a \in Seq(S) /\ Len(a) = i - 1 /\ \A j \in 1..(i - 1) : a[j] = q[j]
  <2>1. 1 \in Int /\ i - 1 \in Int /\ \A j \in 1..(i - 1) : q[j] \in S
    BY <1>0
  <2>2. a \in Seq(S)
    BY <2>1, SubSeqProperties
  <2>3. Len(a) = IF 1 <= i - 1 THEN (i - 1) - 1 + 1 ELSE 0
    BY <2>1, SubSeqProperties
  <2>4. \A j \in 1..((i - 1) - 1 + 1) : a[j] = q[1 + j - 1]
    BY <2>1, SubSeqProperties
  <2>5. Len(a) = i - 1
    BY <2>3, <1>0
  <2>6. \A j \in 1..(i - 1) : j \in 1..((i - 1) - 1 + 1) /\ 1 + j - 1 = j
    BY <1>0
  <2> HIDE DEF a
  <2> QED
    BY <2>2, <2>4, <2>5, <2>6
<1>2. b \in Seq(S) /\ Len(b) = Len(q) - i /\ \A j \in 1..(Len(q) - i) : b[j] = q[i + j]
  <2>1. i + 1 \in Int /\ Len(q) \in Int /\ \A j \in (i + 1)..Len(q) : q[j] \in S
    BY <1>0
  <2>2. b \in Seq(S)
    BY <2>1, SubSeqProperties
  <2>3. Len(b) = IF i + 1 <= Len(q) THEN Len(q) - (i + 1) + 1 ELSE 0
    BY <2>1, SubSeqProperties
  <2>4. \A j \in 1..(Len(q) - (i + 1) + 1) : b[j] = q[(i + 1) + j - 1]
    BY <2>1, SubSeqProperties
  <2>5. Len(b) = Len(q) - i
    BY <2>3, <1>0
  <2>6. \A j \in 1..(Len(q) - i) : j \in 1..(Len(q) - (i + 1) + 1) /\ (i + 1) + j - 1 = i + j
    BY <1>0
  <2> HIDE DEF b
  <2> QED
    BY <2>2, <2>4, <2>5, <2>6
<1> HIDE DEF a, b
<1>3. a \o b \in Seq(S) /\ Len(a \o b) = Len(a) + Len(b)
      /\ \A j \in 1..(Len(a) + Len(b)) : (a \o b)[j] = IF j <= Len(a) THEN a[j] ELSE b[j - Len(a)]
  BY <1>1, <1>2, ConcatProperties
<1>4. ASSUME NEW j \in 1..(Len(q) - 1) PROVE (a \o b)[j] = IF j < i THEN q[j] ELSE q[j + 1]
  <2>1. j \in 1..(Len(a) + Len(b))
    BY <1>0, <1>1, <1>2
  <2>2. (a \o b)[j] = IF j <= Len(a) THEN a[j] ELSE b[j - Len(a)]
    BY <1>3, <2>1
  <2>3. CASE j < i
    <3>1. j <= Len(a) /\ j \in 1..(i - 1)
      BY <1>0, <1>1, <2>3
    <3> QED
      BY <1>1, <2>2, <2>3, <3>1
  <2>4. CASE ~(j < i)
    <3>1. ~(j <= Len(a)) /\ j - (i - 1) \in 1..(Len(q) - i) /\ i + (j - (i - 1)) = j + 1
      BY <1>0, <1>1, <2>4
    <3>2. (a \o b)[j] = b[j - (i - 1)]
      BY <1>1, <2>2, <3>1
    <3> QED
      BY <1>2, <2>4, <3>1, <3>2
  <2> QED
    BY <2>3, <2>4
<1>5. RemoveAt(q, i) = a \o b
  BY DEF RemoveAt, a, b
<1>6. Len(a) + Len(b) = Len(q) - 1
  BY <1>0, <1>1, <1>2
<1> QED
  BY <1>3, <1>4, <1>5, <1>6

\* Of a sequence in which nothing comes twice it takes that element, and no other.
LEMMA RemovedOne ==
  ASSUME NEW S, NEW q \in Seq(S), IsInjective(q), NEW i \in 1..Len(q)
  PROVE  /\ RemoveAt(q, i) \in Seq(S) /\ IsInjective(RemoveAt(q, i))
         /\ Range(RemoveAt(q, i)) = Range(q) \ {q[i]}
<1> DEFINE r == RemoveAt(q, i)
           From(j) == IF j < i THEN j ELSE j + 1
<1>0. Len(q) \in Nat /\ DOMAIN q = 1..Len(q)
  BY LenProperties
<1>1. r \in Seq(S) /\ Len(r) = Len(q) - 1 /\ DOMAIN r = 1..(Len(q) - 1)
      /\ \A j \in 1..(Len(q) - 1) : r[j] = q[From(j)]
  <2>1. r \in Seq(S) /\ Len(r) = Len(q) - 1 /\ \A j \in 1..(Len(q) - 1) : r[j] = IF j < i THEN q[j] ELSE q[j + 1]
    BY Removed
  <2> HIDE DEF r
  <2>2. DOMAIN r = 1..(Len(q) - 1)
    BY <2>1, LenProperties
  <2> QED
    BY <2>1, <2>2
<1>2. \A j, k \in 1..(Len(q) - 1) : From(j) \in 1..Len(q) /\ From(j) # i /\ (From(j) = From(k) => j = k)
  BY <1>0
<1>3. \A k \in 1..Len(q) : k # i => \E j \in 1..(Len(q) - 1) : From(j) = k
  <2> SUFFICES ASSUME NEW k \in 1..Len(q), k # i PROVE \E j \in 1..(Len(q) - 1) : From(j) = k
    OBVIOUS
  <2>1. CASE k < i
    <3>1. k \in 1..(Len(q) - 1) /\ From(k) = k
      BY <1>0, <2>1
    <3> QED
      BY <3>1
  <2>2. CASE k > i
    <3>1. k - 1 \in 1..(Len(q) - 1) /\ From(k - 1) = k
      BY <1>0, <2>2
    <3> QED
      BY <3>1
  <2> QED
    BY <1>0, <2>1, <2>2
<1>4. \A j, k \in 1..Len(q) : q[j] = q[k] => j = k
  BY <1>0 DEF IsInjective
<1> HIDE DEF r, From
<1>5. IsInjective(r)
  <2>1. ASSUME NEW j \in 1..(Len(q) - 1), NEW k \in 1..(Len(q) - 1), r[j] = r[k] PROVE j = k
    <3>1. q[From(j)] = q[From(k)]
      BY <1>1, <2>1
    <3>2. From(j) \in 1..Len(q) /\ From(k) \in 1..Len(q)
      BY <1>2
    <3>3. From(j) = From(k)
      BY <1>4, <3>1, <3>2
    <3> QED
      BY <1>2, <3>3
  <2> QED
    BY <1>1, <2>1 DEF IsInjective
<1>6. Range(r) = Range(q) \ {q[i]}
  <2>1. \A x : x \in Range(r) <=> \E j \in 1..(Len(q) - 1) : x = q[From(j)]
    BY <1>1 DEF Range
  <2>2. \A x : x \in Range(q) <=> \E k \in 1..Len(q) : x = q[k]
    BY <1>0 DEF Range
  <2>3. ASSUME NEW j \in 1..(Len(q) - 1) PROVE q[From(j)] \in Range(q) /\ q[From(j)] # q[i]
    BY <1>2, <1>4, <2>2
  <2>4. ASSUME NEW k \in 1..Len(q), q[k] # q[i] PROVE q[k] \in Range(r)
    BY <1>3, <2>1, <2>4
  <2> QED
    BY <2>1, <2>2, <2>3, <2>4
<1> QED
  BY <1>1, <1>5, <1>6 DEF r

\* Appending what is not there keeps them apart.
LEMMA AppendedOne ==
  ASSUME NEW S, NEW q \in Seq(S), IsInjective(q), NEW s \in S, s \notin Range(q)
  PROVE  /\ Append(q, s) \in Seq(S) /\ IsInjective(Append(q, s)) /\ Append(q, s)[Len(q) + 1] = s
         /\ Len(Append(q, s)) = Len(q) + 1 /\ Range(Append(q, s)) = Range(q) \cup {s}
<1> DEFINE r == Append(q, s)
<1>0. Len(q) \in Nat /\ DOMAIN q = 1..Len(q)
  BY LenProperties
<1>1. r \in Seq(S) /\ Len(r) = Len(q) + 1 /\ (\A j \in 1..Len(q) : r[j] = q[j]) /\ r[Len(q) + 1] = s
  BY AppendProperties
<1> HIDE DEF r
<1>2. DOMAIN r = 1..(Len(q) + 1)
  BY <1>1, LenProperties
<1>3. \A j \in 1..(Len(q) + 1) : j \in 1..Len(q) \/ j = Len(q) + 1
  BY <1>0
<1>4. IsInjective(r)
  BY <1>0, <1>1, <1>2, <1>3 DEF IsInjective, Range
<1>5. Range(r) = Range(q) \cup {s}
  <2>1. \A j \in 1..Len(q) : j \in 1..(Len(q) + 1)
    BY <1>0
  <2>2. Len(q) + 1 \in 1..(Len(q) + 1)
    BY <1>0
  <2> QED
    BY <1>0, <1>1, <1>2, <1>3, <2>1, <2>2 DEF Range
<1> QED
  BY <1>1, <1>4, <1>5 DEF r

-----------------------------------------------------------------------------
(* The panes: the inductive invariant.                                     *)

\* A session that was not opened is as it was, a job that runs has commands left, and
\* what was counted is there.
SesRec == [kind : {"none", "console", "job"}, st : {"none", "running", "ok", "failed", "closed"}, left : 0..Steps,
           proc : BOOLEAN, killed : BOOLEAN, follow : BOOLEAN, told : BOOLEAN, out : 0..MaxSeq, seq : 0..MaxSeq]

SessionsOK ==
  /\ ses \in [Session -> SesRec]
  /\ \A s \in Session : /\ ses[s].kind = "none" => ses[s] = Panes!NoSession
                        /\ ses[s].kind = "job" /\ ses[s].st = "running" => ses[s].left >= 1
                        /\ ses[s].seq <= ses[s].out

\* Of the consoles that are being opened none is open yet, and none comes twice.
AskedOK ==
  /\ asked \in Seq(Session \cup {None})
  /\ \A i \in 1..Len(asked) : asked[i] # None =>
       /\ ses[asked[i]].kind = "none"
       /\ \A j \in 1..Len(asked) : asked[j] = asked[i] => j = i

\* What is shown is open, and a console that is open is shown.
ShownOK ==
  /\ con \in Session \cup {None} /\ (con # None => ses[con].kind # "none")
  /\ \A s \in Session : (ses[s].kind = "console" /\ ses[s].st = "running") => con = s

\* The list is of jobs, and has all that run.
ListOK ==
  /\ jobs \in Seq(Session) /\ IsInjective(jobs)
  /\ \A s \in Range(jobs) : ses[s].kind = "job"
  /\ \A s \in Session : (ses[s].kind = "job" /\ ses[s].st = "running" /\ ~ses[s].follow) => s \in Range(jobs)

\* Ticks are of generations there were; what is between the halves of a tick is the live one's.
ChainOK ==
  /\ tickGen \in 0..MaxTick /\ ticks \subseteq 1..tickGen
  /\ upd # None => upd = tickGen /\ upd >= 1 /\ upd \notin ticks
  /\ con # None => tickGen \in ticks \/ upd = tickGen

\* A picture was made after the number it is kept under.
CacheOK ==
  /\ cache \in [of : Session \cup {None}, at : Nat, made : Nat]
  /\ cache.of # None => cache.at <= cache.made

PanesInv == SessionsOK /\ AskedOK /\ ShownOK /\ ListOK /\ ChainOK /\ CacheOK

-----------------------------------------------------------------------------
(* Steps that open nothing.                                                *)

LEMMA PanesConstants ==
  /\ Steps \in Nat /\ Steps >= 1 /\ MaxJobs \in Nat /\ MaxJobs >= 1 /\ MaxTick \in Nat /\ MaxSeq \in Nat
  /\ None \notin Session /\ None \notin Nat
  BY TerminalsAssumption DEF Panes!VmxPanesAssumption

\* A session goes on as it was, or ends.
Tamer(q, r) ==
  /\ q \in SesRec /\ q.kind = r.kind /\ q.follow = r.follow /\ q.seq <= q.out
  /\ (q.st = "running" => r.st = "running") /\ (q.kind = "none" => q = r)
  /\ (q.kind = "job" /\ q.st = "running" => q.left >= 1)

Tame == ses' \in [Session -> SesRec] /\ \A s \in Session : Tamer(ses'[s], ses[s])

\* What a session that is as it was keeps to.
LEMMA SameIsTamer == ASSUME SessionsOK, NEW s \in Session PROVE Tamer(ses[s], ses[s])
  BY PanesConstants DEF SessionsOK, Tamer, SesRec

LEMMA SameIsTame == ASSUME SessionsOK, UNCHANGED ses PROVE Tame
  BY SameIsTamer DEF Tame, SessionsOK

\* One session that goes on or ends, beside others that stay.
LEMMA OneIsTame ==
  ASSUME SessionsOK, NEW s \in Session, NEW q, Tamer(q, ses[s]), ses' = [ses EXCEPT ![s] = q]
  PROVE  Tame
<1>1. q \in SesRec
  BY DEF Tamer
<1>2. ses \in [Session -> SesRec]
  BY DEF SessionsOK
<1>3. ses' \in [Session -> SesRec] /\ ses'[s] = q /\ \A r \in Session : r # s => ses'[r] = ses[r]
  BY <1>1, <1>2
<1> QED
  BY <1>3, SameIsTamer DEF Tame

\* Then the sessions, what is asked for, the list and the picture stay true.
LEMMA TameSessions == ASSUME SessionsOK, Tame PROVE SessionsOK'
  BY DEF SessionsOK, Tame, Tamer

LEMMA TameAsked == ASSUME AskedOK, Tame, UNCHANGED asked PROVE AskedOK'
  BY DEF AskedOK, Tame, Tamer

LEMMA TameShown == ASSUME ShownOK, Tame, UNCHANGED con PROVE ShownOK'
  BY PanesConstants DEF ShownOK, Tame, Tamer

LEMMA TameList == ASSUME ListOK, Tame, UNCHANGED jobs PROVE ListOK'
<1>1. jobs' \in Seq(Session) /\ IsInjective(jobs') /\ Range(jobs') = Range(jobs) /\ Range(jobs) \subseteq Session
  <2>1. Range(jobs) \subseteq Session
    BY ElementOfSeq, LenProperties DEF ListOK, Range
  <2> QED
    BY <2>1 DEF ListOK
<1> HIDE DEF Range
<1> QED
  BY <1>1 DEF ListOK, Tame, Tamer

LEMMA TameCache == ASSUME CacheOK, UNCHANGED cache PROVE CacheOK'
  BY DEF CacheOK

LEMMA SameChain == ASSUME ChainOK, UNCHANGED <<con, tickGen, ticks, upd>> PROVE ChainOK'
  BY DEF ChainOK

\* A step that only ends or tells of sessions.
LEMMA TameStep ==
  ASSUME PanesInv, Tame, UNCHANGED <<con, jobs, asked, tickGen, ticks, upd, cache>>
  PROVE  PanesInv'
  BY TameSessions, TameAsked, TameShown, TameList, TameCache, SameChain DEF PanesInv

\* The cache that is thrown away.
LEMMA NoCacheHolds == ASSUME Panes!NoCache PROVE CacheOK'
  BY DEF Panes!NoCache, CacheOK

LEMMA NewTickHolds ==
  ASSUME ChainOK, upd = None, upd' = upd, Panes!NewTick
  PROVE  ChainOK' /\ tickGen' \in ticks'
  BY PanesConstants DEF ChainOK, Panes!NewTick

\* A chain that is not looked at, and nothing that is shown now.
LEMMA SameTicks == ASSUME ChainOK, UNCHANGED <<tickGen, ticks, upd>>, con' = None \/ con # None PROVE ChainOK'
  BY DEF ChainOK

-----------------------------------------------------------------------------
(* Ticks, and what a command or an output does.                            *)

LEMMA ListedIs == Panes!Listed = Range(jobs)
  BY DEF Panes!Listed, Panes!Range, Range

LEMMA SesOf == ASSUME SessionsOK, NEW s \in Session PROVE /\ ses[s] \in SesRec /\ ses[s].seq <= ses[s].out
        /\ (ses[s].kind = "job" /\ ses[s].st = "running" => ses[s].left >= 1)
  BY DEF SessionsOK

LEMMA PaneTickHolds == ASSUME PanesInv, NEW g \in ticks, Panes!Tick(g) PROVE PanesInv'
<1>1. upd = None /\ ticks' = ticks \ {g} /\ UNCHANGED <<jobs, asked, tickGen, cache>>
  BY DEF Panes!Tick, Panes!Idle
<1>2. CASE g # tickGen
  <2>1. UNCHANGED <<ses, upd, con>>
    BY <1>2 DEF Panes!Tick
  <2>2. ChainOK'
    BY <1>1, <1>2, <2>1, PanesConstants DEF PanesInv, ChainOK
  <2> QED
    BY <1>1, <2>1, <2>2, SameIsTame, TameSessions, TameAsked, TameShown, TameList, TameCache DEF PanesInv
<1>3. CASE g = tickGen
  <2>1. /\ ses' = [s \in Session |-> IF s \in Panes!Listed /\ ~Panes!Alive(s) THEN [ses[s] EXCEPT !.told = TRUE] ELSE ses[s]]
        /\ con' = IF Panes!Leaves(con) THEN None ELSE con
        /\ upd' = g
    BY <1>3 DEF Panes!Tick
  <2>2. Tame
    <3>1. ASSUME NEW s \in Session PROVE Tamer(ses'[s], ses[s])
      <4> DEFINE toldOf == [ses[s] EXCEPT !.told = TRUE]
      <4>1. ses[s] \in SesRec /\ ses[s].seq <= ses[s].out /\ (ses[s].kind = "job" /\ ses[s].st = "running" => ses[s].left >= 1)
        BY SesOf DEF PanesInv
      <4>2. toldOf \in SesRec /\ toldOf.kind = ses[s].kind /\ toldOf.follow = ses[s].follow /\ toldOf.seq = ses[s].seq /\ toldOf.out = ses[s].out
            /\ toldOf.st = ses[s].st /\ toldOf.left = ses[s].left
        BY <4>1 DEF SesRec
      <4> HIDE DEF toldOf
      <4>3. CASE ses'[s] = toldOf /\ s \in Panes!Listed
        <5>1. ses[s].kind = "job"
          BY <4>3, ListedIs DEF PanesInv, ListOK
        <5>2. ses[s].seq \in Nat
          BY <4>1, PanesConstants DEF SesRec
        <5> QED
          BY <4>1, <4>2, <4>3, <5>1, <5>2 DEF Tamer
      <4>4. CASE ses'[s] = ses[s]
        BY <4>4, SameIsTamer DEF PanesInv
      <4> QED
        BY <2>1, <4>3, <4>4 DEF toldOf
    <3>2. ses' \in [Session -> SesRec]
      <4>1. \A s \in Session : ses'[s] \in SesRec
        BY <3>1 DEF Tamer
      <4>2. DOMAIN ses' = Session /\ ses' = [s \in Session |-> ses'[s]]
        BY <2>1
      <4> QED
        BY <4>1, <4>2
    <3> QED
      BY <3>1, <3>2 DEF Tame
  <2>3. ShownOK'
    <3>1. CASE con' = con
      BY <2>2, <3>1, TameShown DEF PanesInv
    <3>2. CASE con' # con
      <4>1. con' = None /\ con \in Session /\ ses[con].kind = "job"
        BY <2>1, <3>2 DEF PanesInv, ShownOK, Panes!Leaves, Panes!JobShown, Panes!IsJob
      <4>2. \A s \in Session : ~(ses'[s].kind = "console" /\ ses'[s].st = "running")
        BY <2>2, <4>1 DEF PanesInv, ShownOK, Tame, Tamer
      <4> QED
        BY <4>1, <4>2 DEF ShownOK
    <3> QED
      BY <3>1, <3>2
  <2>4. ChainOK'
    <3>1. con' # None => con # None
      BY <2>1
    <3>2. g \in 1..tickGen
      BY DEF PanesInv, ChainOK
    <3> QED
      BY <1>1, <1>3, <2>1, <3>1, <3>2, PanesConstants DEF PanesInv, ChainOK
  <2> QED
    BY <1>1, <2>2, <2>3, <2>4, TameSessions, TameAsked, TameList, TameCache DEF PanesInv
<1> QED
  BY <1>2, <1>3

LEMMA RearmHolds == ASSUME PanesInv, upd # None, Panes!Rearm(upd) PROVE PanesInv'
<1>1. /\ upd' = None /\ ticks' \in {ticks, ticks \cup {upd}} /\ (con # None => ticks' = ticks \cup {upd})
      /\ UNCHANGED <<ses, con, jobs, asked, tickGen, cache>>
  BY DEF Panes!Rearm
<1>2. ChainOK'
  BY <1>1, PanesConstants DEF PanesInv, ChainOK
<1> QED
  BY <1>1, <1>2, SameIsTame, TameSessions, TameAsked, TameShown, TameList, TameCache DEF PanesInv

LEMMA CommandEndsHolds == ASSUME PanesInv, NEW s \in Session, Panes!CommandEnds(s) PROVE PanesInv'
<1> DEFINE r == ses[s]
           q == [r EXCEPT !.proc = FALSE, !.left = r.left - 1, !.st = IF r.left = 1 THEN "ok" ELSE "running"]
<1>1. r \in SesRec /\ r.seq <= r.out /\ r.kind = "job" /\ r.st = "running" /\ r.left >= 1
  BY SesOf DEF PanesInv, Panes!CommandEnds, Panes!IsJob, Panes!Alive
<1>2. ses' = [ses EXCEPT ![s] = q] /\ UNCHANGED <<con, jobs, asked, tickGen, ticks, upd, cache>>
  BY DEF Panes!CommandEnds, PanesInv, SessionsOK
<1> HIDE DEF r
<1>3. r.left \in 1..Steps /\ r.left - 1 \in 0..Steps /\ r.seq \in Nat
  BY <1>1, PanesConstants DEF SesRec
<1>4. q \in SesRec /\ q.kind = "job" /\ q.follow = r.follow /\ q.seq = r.seq /\ q.out = r.out /\ q.left = r.left - 1
      /\ (q.st = "running" => r.left # 1)
  BY <1>1, <1>3 DEF SesRec
<1> HIDE DEF q
<1>5. Tamer(q, r)
  BY <1>1, <1>3, <1>4, PanesConstants DEF Tamer
<1> QED
  BY <1>2, <1>5, OneIsTame, TameStep DEF PanesInv, r

LEMMA NextCommandHolds == ASSUME PanesInv, NEW s \in Session, Panes!NextCommand(s) PROVE PanesInv'
<1> DEFINE r == ses[s]
           q == [r EXCEPT !.proc = TRUE]
<1>1. r \in SesRec /\ r.seq <= r.out /\ r.kind = "job" /\ r.st = "running" /\ r.left >= 1
  BY SesOf DEF PanesInv, Panes!NextCommand, Panes!IsJob, Panes!Alive
<1>2. ses' = [ses EXCEPT ![s] = q] /\ UNCHANGED <<con, jobs, asked, tickGen, ticks, upd, cache>>
  BY DEF Panes!NextCommand, PanesInv, SessionsOK
<1> HIDE DEF r
<1>3. q \in SesRec /\ q.kind = "job" /\ q.follow = r.follow /\ q.seq = r.seq /\ q.out = r.out /\ q.left = r.left /\ q.st = "running"
  BY <1>1 DEF SesRec
<1>4. r.seq \in Nat
  BY <1>1, PanesConstants DEF SesRec
<1> HIDE DEF q
<1>5. Tamer(q, r)
  BY <1>1, <1>3, <1>4 DEF Tamer
<1> QED
  BY <1>2, <1>5, OneIsTame, TameStep DEF PanesInv, r

\* A session that ended.
LEMMA EndedIsTamer ==
  ASSUME NEW r \in SesRec, r.kind # "none", NEW q \in SesRec, q.kind = r.kind, q.follow = r.follow, q.seq = r.seq, q.out = r.out, r.seq <= r.out,
         q.st = "running" => r.st = "running" /\ q.left = r.left, r.kind = "job" /\ r.st = "running" => r.left >= 1
  PROVE  Tamer(q, r)
<1>1. r.seq \in Nat
  BY PanesConstants DEF SesRec
<1> QED
  BY <1>1 DEF Tamer

LEMMA CommandFailsHolds == ASSUME PanesInv, NEW s \in Session, Panes!CommandFails(s) PROVE PanesInv'
<1> DEFINE r == ses[s]
           q == [r EXCEPT !.proc = FALSE, !.st = "failed"]
<1>1. r \in SesRec /\ r.seq <= r.out /\ r.kind = "job" /\ (r.st = "running" => r.left >= 1)
  BY SesOf DEF PanesInv, Panes!CommandFails, Panes!IsJob, Panes!Alive
<1>2. ses' = [ses EXCEPT ![s] = q] /\ UNCHANGED <<con, jobs, asked, tickGen, ticks, upd, cache>>
  BY DEF Panes!CommandFails, PanesInv, SessionsOK
<1> HIDE DEF r
<1>3. q \in SesRec /\ q.kind = "job" /\ q.follow = r.follow /\ q.seq = r.seq /\ q.out = r.out /\ q.st = "failed"
  BY <1>1 DEF SesRec
<1> HIDE DEF q
<1>5. Tamer(q, r)
  BY <1>1, <1>3, EndedIsTamer
<1> QED
  BY <1>2, <1>5, OneIsTame, TameStep DEF PanesInv, r

LEMMA OutputHolds == ASSUME PanesInv, Panes!Output \/ Panes!Counted PROVE PanesInv'
<1> DEFINE r == ses[con]
           w == [r EXCEPT !.out = r.out + 1]
           c == [r EXCEPT !.seq = r.seq + 1]
<1>0. con \in Session /\ ses[con].kind # "none"
  BY DEF PanesInv, ShownOK, Panes!Output, Panes!Counted
<1>1. r \in SesRec /\ r.seq <= r.out /\ r.kind # "none" /\ (r.kind = "job" /\ r.st = "running" => r.left >= 1)
  BY <1>0, SesOf DEF PanesInv
<1>2. /\ (r.out < MaxSeq /\ ses' = [ses EXCEPT ![con] = w]) \/ (r.seq < r.out /\ ses' = [ses EXCEPT ![con] = c])
      /\ UNCHANGED <<con, jobs, asked, tickGen, ticks, upd, cache>>
  BY DEF Panes!Output, Panes!Counted, PanesInv, SessionsOK
<1> HIDE DEF r
<1>3. r.seq \in 0..MaxSeq /\ r.out \in 0..MaxSeq /\ MaxSeq \in Nat
  BY <1>1, PanesConstants DEF SesRec
<1>4. ASSUME r.out < MaxSeq PROVE Tamer(w, r)
  <2>1. r.out + 1 \in 0..MaxSeq /\ r.seq <= r.out + 1
    BY <1>1, <1>3, <1>4
  <2>2. w \in SesRec /\ w.kind = r.kind /\ w.follow = r.follow /\ w.out = r.out + 1 /\ w.seq = r.seq
        /\ w.left = r.left /\ w.st = r.st
    BY <1>1, <2>1 DEF SesRec
  <2> HIDE DEF w
  <2> QED
    BY <1>1, <2>1, <2>2 DEF Tamer
<1>5. ASSUME r.seq < r.out PROVE Tamer(c, r)
  <2>1. r.seq + 1 \in 0..MaxSeq /\ r.seq + 1 <= r.out
    BY <1>3, <1>5
  <2>2. c \in SesRec /\ c.kind = r.kind /\ c.follow = r.follow /\ c.seq = r.seq + 1 /\ c.out = r.out
        /\ c.left = r.left /\ c.st = r.st
    BY <1>1, <2>1 DEF SesRec
  <2> HIDE DEF c
  <2> QED
    BY <1>1, <2>1, <2>2 DEF Tamer
<1> HIDE DEF w, c
<1> QED
  BY <1>0, <1>2, <1>4, <1>5, OneIsTame, TameStep DEF PanesInv, r

LEMMA ViewKeeps == ASSUME PanesInv, NEW n \in 0..MaxSeq, Panes!View(n) PROVE PanesInv'
<1>1. /\ con # None /\ n <= ses[con].seq /\ cache' = [of |-> con, at |-> n, made |-> ses[con].out]
      /\ UNCHANGED <<ses, con, jobs, asked, tickGen, ticks, upd>>
  BY DEF Panes!View
<1>2. con \in Session /\ ses[con].seq \in Nat /\ ses[con].out \in Nat /\ n \in Nat /\ ses[con].seq <= ses[con].out
  BY <1>1, PanesConstants, SesOf DEF PanesInv, ShownOK, SesRec
<1>3. CacheOK'
  BY <1>1, <1>2 DEF CacheOK
<1> QED
  BY <1>1, <1>3, SameIsTame, TameSessions, TameAsked, TameShown, TameList, SameChain DEF PanesInv
-----------------------------------------------------------------------------
(* Steps that open a session.                                              *)

\* s is opened, and the others go on or end.
Opening(s) ==
  /\ s \in Session /\ ses[s].kind = "none" /\ ses' \in [Session -> SesRec]
  /\ ses'[s].kind # "none" /\ ses'[s].seq <= ses'[s].out /\ (ses'[s].kind = "job" => ses'[s].left >= 1)
  /\ \A r \in Session : r # s => Tamer(ses'[r], ses[r])

LEMMA OpeningSessions == ASSUME SessionsOK, NEW s, Opening(s) PROVE SessionsOK'
<1>1. ASSUME NEW r \in Session PROVE /\ ses'[r].kind = "none" => ses'[r] = Panes!NoSession
                                     /\ ses'[r].kind = "job" /\ ses'[r].st = "running" => ses'[r].left >= 1
                                     /\ ses'[r].seq <= ses'[r].out
  <2>1. CASE r = s
    BY <2>1 DEF Opening
  <2>2. CASE r # s
    BY <2>2 DEF Opening, SessionsOK, Tamer
  <2> QED
    BY <2>1, <2>2
<1> QED
  BY <1>1 DEF SessionsOK, Opening

\* What is still asked for was not opened.
LEMMA OpeningAsked ==
  ASSUME AskedOK, NEW s, Opening(s),
         asked' \in Seq(Session \cup {None}), Len(asked') = Len(asked),
         \A i \in 1..Len(asked) : asked'[i] # None => asked'[i] = asked[i] /\ asked[i] # s
  PROVE  AskedOK'
<1>1. ASSUME NEW i \in 1..Len(asked), asked'[i] # None
      PROVE  ses'[asked'[i]].kind = "none" /\ \A j \in 1..Len(asked) : asked'[j] = asked'[i] => j = i
  <2>1. asked'[i] = asked[i] /\ asked[i] # s /\ asked[i] # None
    BY <1>1
  <2>2. asked[i] \in Session \cup {None}
    BY ElementOfSeq DEF AskedOK
  <2>3. ses[asked[i]].kind = "none" /\ \A j \in 1..Len(asked) : asked[j] = asked[i] => j = i
    BY <2>1 DEF AskedOK
  <2>4. ses'[asked[i]].kind = "none"
    BY <2>1, <2>2, <2>3 DEF Opening, Tamer
  <2>5. \A j \in 1..Len(asked) : asked'[j] = asked'[i] => asked[j] = asked[i]
    BY <1>1, <2>1
  <2> QED
    BY <2>1, <2>3, <2>4, <2>5
<1> QED
  BY <1>1 DEF AskedOK

\* The list, when a console was opened.
LEMMA OpeningList ==
  ASSUME ListOK, NEW s, Opening(s), ses'[s].kind = "console", UNCHANGED jobs
  PROVE  ListOK'
<1>1. \A r \in Range(jobs) : r \in Session /\ r # s
  BY ElementOfSeq, LenProperties DEF ListOK, Range, Opening
<1>2. jobs' \in Seq(Session) /\ IsInjective(jobs') /\ Range(jobs') = Range(jobs)
  BY DEF ListOK
<1> HIDE DEF Range
<1>3. \A r \in Range(jobs) : ses'[r].kind = "job"
  BY <1>1 DEF ListOK, Opening, Tamer
<1>4. \A r \in Session : (ses'[r].kind = "job" /\ ses'[r].st = "running" /\ ~ses'[r].follow) => r \in Range(jobs)
  BY DEF ListOK, Opening, Tamer
<1> QED
  BY <1>2, <1>3, <1>4 DEF ListOK

\* Beside what opens, a console that was shown gives way.
LEMMA ReplacedIs ==
  ASSUME SessionsOK, ShownOK, NEW mm \in [Session -> SesRec], \A r \in Session : r = con => mm[r] = ses[r]
  PROVE  /\ Panes!Replaced(mm) \in [Session -> SesRec]
         /\ \A r \in Session : r # con => Panes!Replaced(mm)[r] = mm[r]
         /\ \A r \in Session : r = con => Tamer(Panes!Replaced(mm)[r], ses[r])
         /\ \A r \in Session : r = con /\ ses[r].kind = "console" => Panes!Replaced(mm)[r].st = "closed"
<1>1. CASE con # None /\ ses[con].kind # "job"
  <2> DEFINE r == mm[con]
             q == [r EXCEPT !.st = "closed", !.proc = FALSE]
  <2>0. con \in Session /\ ses[con].kind # "none" /\ r = ses[con] /\ r \in SesRec /\ r.seq <= r.out
    BY <1>1 DEF ShownOK, SessionsOK
  <2>1. Panes!Replaced(mm) = [mm EXCEPT ![con] = q]
    BY <1>1, <2>0 DEF Panes!Replaced, Panes!Closed
  <2> HIDE DEF r
  <2>2. q \in SesRec /\ q.kind = r.kind /\ q.follow = r.follow /\ q.seq = r.seq /\ q.out = r.out /\ q.st = "closed"
    BY <2>0 DEF SesRec
  <2> HIDE DEF q
  <2>3. Tamer(q, r)
    BY <1>1, <2>0, <2>2, EndedIsTamer
  <2>4. [mm EXCEPT ![con] = q] \in [Session -> SesRec] /\ [mm EXCEPT ![con] = q][con] = q
        /\ \A x \in Session : x # con => [mm EXCEPT ![con] = q][x] = mm[x]
    BY <2>0, <2>2
  <2> QED
    BY <2>0, <2>1, <2>2, <2>3, <2>4
<1>2. CASE ~(con # None /\ ses[con].kind # "job")
  <2>1. Panes!Replaced(mm) = mm
    BY <1>2 DEF Panes!Replaced
  <2>2. \A r \in Session : r = con => r # None
    BY PanesConstants
  <2> QED
    BY <1>2, <2>1, <2>2, SameIsTamer
<1> QED
  BY <1>1, <1>2

-----------------------------------------------------------------------------
(* Consoles.                                                               *)

LEMMA AskConsoleHolds == ASSUME PanesInv, NEW s \in Session, Panes!AskConsole(s) PROVE PanesInv'
<1>1. /\ asked' = Append(asked, s) /\ ses[s].kind = "none" /\ \A i \in 1..Len(asked) : asked[i] # s
      /\ UNCHANGED <<ses, con, jobs, tickGen, ticks, upd, cache>>
  BY DEF Panes!AskConsole, Panes!Fresh
<1>2. asked \in Seq(Session \cup {None}) /\ Len(asked) \in Nat
  BY LenProperties DEF PanesInv, AskedOK
<1>3. AskedOK'
  <2>1. asked' \in Seq(Session \cup {None}) /\ Len(asked') = Len(asked) + 1 /\ asked'[Len(asked) + 1] = s
        /\ \A i \in 1..Len(asked) : asked'[i] = asked[i]
    BY <1>1, <1>2, AppendProperties
  <2>2. \A i \in 1..(Len(asked) + 1) : i \in 1..Len(asked) \/ i = Len(asked) + 1
    BY <1>2
  <2>3. ASSUME NEW i \in 1..Len(asked'), asked'[i] # None
        PROVE  ses'[asked'[i]].kind = "none" /\ \A j \in 1..Len(asked') : asked'[j] = asked'[i] => j = i
    <3>1. CASE i \in 1..Len(asked)
      <4>1. ses[asked[i]].kind = "none" /\ \A j \in 1..Len(asked) : asked[j] = asked[i] => j = i
        BY <2>1, <2>3, <3>1 DEF PanesInv, AskedOK
      <4> QED
        BY <1>1, <2>1, <2>2, <3>1, <4>1
    <3>2. CASE i = Len(asked) + 1
      BY <1>1, <2>1, <2>2, <3>2
    <3> QED
      BY <2>1, <2>2, <3>1, <3>2
  <2> QED
    BY <2>1, <2>3 DEF AskedOK
<1> QED
  BY <1>1, <1>3, SameIsTame, TameSessions, TameShown, TameList, TameCache, SameChain DEF PanesInv

LEMMA ReadyHolds ==
  ASSUME PanesInv, NEW i \in 1..Len(asked), asked[i] # None, Panes!Ready(i)
  PROVE  PanesInv'
<1> DEFINE s == asked[i]
           r == ses[s]
           o == [r EXCEPT !.kind = "console", !.st = "running", !.proc = TRUE]
           c == [o EXCEPT !.st = "closed", !.proc = FALSE]
           d == [r EXCEPT !.kind = "console", !.st = "closed"]
           open == [ses EXCEPT ![s] = o]
<1>1. s \in Session /\ r \in SesRec /\ r.kind = "none" /\ r.seq = 0 /\ r.out = 0 /\ s # con /\ upd = None
      /\ \A j \in 1..Len(asked) : asked[j] = s => j = i
  <2>1. s \in Session \cup {None}
    BY ElementOfSeq DEF PanesInv, AskedOK
  <2>2. r.kind = "none" /\ \A j \in 1..Len(asked) : asked[j] = s => j = i
    BY DEF PanesInv, AskedOK
  <2>3. r \in SesRec /\ r = Panes!NoSession
    BY <2>1, <2>2 DEF PanesInv, SessionsOK
  <2>4. s # con
    BY <2>2 DEF PanesInv, ShownOK
  <2>5. upd = None
    BY DEF Panes!Ready, Panes!Idle
  <2> QED
    BY <2>1, <2>2, <2>3, <2>4, <2>5 DEF Panes!NoSession
<1>2. ses \in [Session -> SesRec]
  BY DEF PanesInv, SessionsOK
<1>3. /\ asked' = [asked EXCEPT ![i] = None] /\ UNCHANGED <<jobs, upd>>
      /\ \/ ses' = [open EXCEPT ![s] = c] /\ UNCHANGED <<tickGen, ticks, con, cache>>
         \/ Panes!NewTick /\ ses' = Panes!Replaced(open) /\ con' = s /\ Panes!NoCache
         \/ ses' = [ses EXCEPT ![s] = d] /\ UNCHANGED <<tickGen, ticks, con, cache>>
  BY <1>1, <1>2 DEF Panes!Ready, Panes!Closed, Panes!NoTick
<1> HIDE DEF r
<1>4. /\ o \in SesRec /\ o.kind = "console" /\ o.seq = 0 /\ o.out = 0
      /\ c \in SesRec /\ c.kind = "console" /\ c.seq = 0 /\ c.out = 0 /\ c.st = "closed"
      /\ d \in SesRec /\ d.kind = "console" /\ d.seq = 0 /\ d.out = 0 /\ d.st = "closed"
  BY <1>1 DEF SesRec
<1> HIDE DEF o, c, d, s
<1>5. open \in [Session -> SesRec] /\ open[s] = o /\ \A x \in Session : x # s => open[x] = ses[x]
  BY <1>1, <1>2, <1>4
<1> HIDE DEF open
<1>6. asked' \in Seq(Session \cup {None}) /\ Len(asked') = Len(asked)
      /\ \A j \in 1..Len(asked) : asked'[j] # None => asked'[j] = asked[j] /\ asked[j] # s
  <2>1. asked' \in Seq(Session \cup {None}) /\ Len(asked') = Len(asked)
        /\ \A j \in 1..Len(asked) : asked'[j] = IF j = i THEN None ELSE asked[j]
    BY <1>3, ExceptSeq DEF PanesInv, AskedOK
  <2> QED
    BY <1>1, <2>1
<1>7. ASSUME ses' \in [Session -> SesRec], ses'[s] \in {c, d}, \A x \in Session : x # s => ses'[x] = ses[x],
             UNCHANGED <<tickGen, ticks, con, cache>>
      PROVE  PanesInv'
  <2>1. Opening(s)
    BY <1>1, <1>4, <1>7, SameIsTamer DEF Opening, PanesInv, r
  <2>2. ShownOK'
    BY <1>1, <1>4, <1>7 DEF PanesInv, ShownOK
  <2>3. ses'[s].kind = "console"
    BY <1>4, <1>7
  <2> QED
    BY <1>3, <1>6, <1>7, <2>1, <2>2, <2>3, OpeningSessions, TameCache, OpeningAsked, OpeningList, SameChain DEF PanesInv
<1>8. CASE ses' = [open EXCEPT ![s] = c] /\ UNCHANGED <<tickGen, ticks, con, cache>>
  <2>1. ses' \in [Session -> SesRec] /\ ses'[s] = c /\ \A x \in Session : x # s => ses'[x] = open[x]
    BY <1>1, <1>4, <1>5, <1>8
  <2> QED
    BY <1>5, <1>7, <1>8, <2>1
<1>9. CASE ses' = [ses EXCEPT ![s] = d] /\ UNCHANGED <<tickGen, ticks, con, cache>>
  <2>1. ses' \in [Session -> SesRec] /\ ses'[s] = d /\ \A x \in Session : x # s => ses'[x] = ses[x]
    BY <1>1, <1>2, <1>4, <1>9
  <2> QED
    BY <1>7, <1>9, <2>1
<1>10. CASE Panes!NewTick /\ ses' = Panes!Replaced(open) /\ con' = s /\ Panes!NoCache
  <2>1. /\ ses' \in [Session -> SesRec]
        /\ \A x \in Session : x # con => ses'[x] = open[x]
        /\ \A x \in Session : x = con => Tamer(ses'[x], ses[x])
        /\ \A x \in Session : x = con /\ ses[x].kind = "console" => ses'[x].st = "closed"
    <3>1. \A x \in Session : x = con => open[x] = ses[x]
      BY <1>1, <1>5
    <3> QED
      BY <1>5, <1>10, <3>1, ReplacedIs DEF PanesInv
  <2>2. Opening(s)
    <3>1. ses'[s] = o
      BY <1>1, <1>5, <2>1
    <3>2. \A x \in Session : x # s => Tamer(ses'[x], ses[x])
      BY <1>5, <2>1, SameIsTamer DEF PanesInv
    <3> QED
      BY <1>1, <1>4, <2>1, <3>1, <3>2 DEF Opening, r
  <2>3. ses'[s].kind = "console" /\ s # None
    BY <1>1, <1>4, <1>5, <2>1, PanesConstants
  <2>4. ShownOK'
    <3>1. ASSUME NEW x \in Session, ses'[x].kind = "console", ses'[x].st = "running", x # s PROVE FALSE
      <4>1. Tamer(ses'[x], ses[x])
        BY <2>2, <3>1 DEF Opening
      <4>2. con = x
        BY <3>1, <4>1 DEF Tamer, PanesInv, ShownOK
      <4> QED
        BY <2>1, <3>1, <4>1, <4>2 DEF Tamer
    <3> QED
      BY <1>1, <1>10, <2>3, <3>1 DEF ShownOK
  <2> QED
    BY <1>1, <1>3, <1>6, <1>10, <2>2, <2>3, <2>4, OpeningSessions, OpeningAsked, OpeningList, NoCacheHolds,
       NewTickHolds DEF PanesInv
<1> QED
  BY <1>3, <1>8, <1>9, <1>10

LEMMA CloseConsoleHolds == ASSUME PanesInv, Panes!CloseConsole PROVE PanesInv'
<1> DEFINE r == ses[con]
           q == [r EXCEPT !.st = "closed", !.proc = FALSE]
<1>1. con \in Session /\ r \in SesRec /\ r.seq <= r.out /\ r.kind = "console" /\ upd = None
  <2>1. con # None /\ con \in Session /\ r.kind # "none" /\ r.kind # "job" /\ upd = None
    BY DEF PanesInv, ShownOK, Panes!CloseConsole, Panes!JobShown, Panes!IsJob, Panes!Idle
  <2>2. r \in SesRec /\ r.seq <= r.out
    BY <2>1, SesOf DEF PanesInv
  <2> QED
    BY <2>1, <2>2 DEF SesRec
<1>2. ses' = [ses EXCEPT ![con] = q] /\ con' = None /\ UNCHANGED <<jobs, asked, tickGen, ticks, upd, cache>>
  BY <1>1 DEF Panes!CloseConsole, Panes!Closed, PanesInv, SessionsOK
<1> HIDE DEF r
<1>3. q \in SesRec /\ q.kind = r.kind /\ q.follow = r.follow /\ q.seq = r.seq /\ q.out = r.out /\ q.st = "closed"
  BY <1>1 DEF SesRec
<1> HIDE DEF q
<1>4. Tamer(q, r)
  BY <1>1, <1>3, EndedIsTamer
<1>5. Tame /\ ses'[con] = q
  BY <1>1, <1>2, <1>4, OneIsTame DEF PanesInv, SessionsOK, r
<1>6. ShownOK'
  <2>1. \A x \in Session : ~(ses'[x].kind = "console" /\ ses'[x].st = "running")
    BY <1>3, <1>5 DEF PanesInv, ShownOK, Tame, Tamer
  <2> QED
    BY <1>2, <2>1 DEF ShownOK
<1> QED
  BY <1>2, <1>5, <1>6, TameSessions, TameAsked, TameList, TameCache, SameTicks DEF PanesInv

-----------------------------------------------------------------------------
(* The list of jobs.                                                       *)

LEMMA RemoveAtIs == ASSUME NEW q, NEW i PROVE Panes!RemoveAt(q, i) = RemoveAt(q, i)
  BY DEF Panes!RemoveAt, RemoveAt

\* Without takes one element of a list, and leaves the rest.
LEMMA WithoutIs ==
  ASSUME NEW q \in Seq(Session), IsInjective(q), NEW e \in Range(q)
  PROVE  /\ Panes!Without(q, e) \in Seq(Session) /\ IsInjective(Panes!Without(q, e))
         /\ Range(Panes!Without(q, e)) = Range(q) \ {e}
<1> DEFINE I == {i \in 1..Len(q) : q[i] = e}
<1>0. Len(q) \in Nat /\ DOMAIN q = 1..Len(q)
  BY LenProperties
<1>1. I # {} /\ I \in SUBSET Nat
  BY <1>0 DEF Range
<1>2. Panes!Min(I) = Min(I)
  BY DEF Panes!Min, Min
<1>3. Panes!Without(q, e) = RemoveAt(q, Min(I))
  <2>1. \E i \in 1..Len(q) : q[i] = e
    BY <1>1
  <2>2. Panes!Without(q, e) = Panes!RemoveAt(q, Panes!SelectInSeq(q, LAMBDA v : v = e))
    BY <2>1 DEF Panes!Without, Panes!RemoveFirst
  <2>3. Panes!SelectInSeq(q, LAMBDA v : v = e) = Panes!Min(I)
    BY <1>1 DEF Panes!SelectInSeq
  <2> QED
    BY <1>2, <2>2, <2>3, RemoveAtIs
<1>4. Min(I) \in I
  BY <1>1, LeastIs
<1>5. Min(I) \in 1..Len(q) /\ q[Min(I)] = e
  BY <1>4
<1> HIDE DEF I
<1> QED
  BY <1>3, <1>5, RemovedOne

\* What is trimmed away had ended, and was not the newest.
LEMMA TrimmedIs ==
  ASSUME NEW q \in Seq(Session), IsInjective(q), NEW s \in Session, s \notin Range(q)
  PROVE  /\ Panes!Trimmed(Append(q, s)) \in Seq(Session) /\ IsInjective(Panes!Trimmed(Append(q, s)))
         /\ Range(Panes!Trimmed(Append(q, s))) \subseteq Range(q) \cup {s}
         /\ s \in Range(Panes!Trimmed(Append(q, s)))
         /\ \A x \in Range(q) : ses[x].st = "running" => x \in Range(Panes!Trimmed(Append(q, s)))
<1> DEFINE a == Append(q, s)
           ended == {i \in 1..Len(a) - 1 : ses[a[i]].st # "running"}
<1>0. a \in Seq(Session) /\ IsInjective(a) /\ a[Len(q) + 1] = s /\ Len(a) = Len(q) + 1
      /\ Range(a) = Range(q) \cup {s} /\ Len(q) \in Nat
  BY AppendedOne, LenProperties
<1> HIDE DEF a
<1>1. CASE Len(a) > MaxJobs /\ ended # {}
  <2> DEFINE m == Panes!Min(ended)
  <2>1. m \in ended
    <3>1. ended \in SUBSET Nat
      BY <1>0
    <3>2. m = Min(ended)
      BY DEF Panes!Min, Min
    <3> HIDE DEF ended, m
    <3> QED
      BY <1>1, <3>1, <3>2, LeastIs
  <2>2. Panes!Trimmed(a) = Panes!Without(a, a[m])
    BY <1>1 DEF Panes!Trimmed
  <2>3. m \in 1..Len(a) - 1 /\ ses[a[m]].st # "running"
    BY <2>1
  <2> HIDE DEF m, ended
  <2>4. DOMAIN a = 1..Len(a) /\ m \in 1..Len(a) /\ Len(q) + 1 \in 1..Len(a) /\ m # Len(q) + 1
    BY <1>0, <2>3, LenProperties
  <2>5. a[m] \in Range(a) /\ a[m] # s
    BY <1>0, <2>4 DEF Range, IsInjective
  <2>6. Panes!Without(a, a[m]) \in Seq(Session) /\ IsInjective(Panes!Without(a, a[m]))
        /\ Range(Panes!Without(a, a[m])) = Range(a) \ {a[m]}
    BY <1>0, <2>5, WithoutIs
  <2> QED
    BY <1>0, <2>2, <2>3, <2>5, <2>6 DEF a
<1>2. CASE ~(Len(a) > MaxJobs /\ ended # {})
  <2>1. Panes!Trimmed(a) = a
    BY <1>2 DEF Panes!Trimmed
  <2> QED
    BY <1>0, <2>1 DEF a
<1> QED
  BY <1>1, <1>2

LEMMA StartJobHolds ==
  ASSUME PanesInv, NEW s \in Session, NEW n \in 1..Steps, NEW follow \in BOOLEAN, Panes!StartJob(s, n, follow)
  PROVE  PanesInv'
<1> DEFINE q == [Panes!NoSession EXCEPT !.kind = "job", !.st = "running", !.left = n, !.proc = TRUE, !.follow = follow]
           mm == Panes!Replaced(ses)
           long == Append(jobs, s)
<1>1. ses[s].kind = "none" /\ s # con /\ upd = None /\ s \notin Range(jobs) /\ s # None
      /\ \A i \in 1..Len(asked) : asked[i] # s
  <2>1. ses[s].kind = "none" /\ upd = None /\ \A i \in 1..Len(asked) : asked[i] # s
    BY DEF Panes!StartJob, Panes!Fresh, Panes!Idle
  <2>2. s # con /\ s # None
    BY <2>1, PanesConstants DEF PanesInv, ShownOK
  <2>3. s \notin Range(jobs)
    BY <2>1 DEF PanesInv, ListOK
  <2> QED
    BY <2>1, <2>2, <2>3
<1>2. /\ ses' = [mm EXCEPT ![s] = q]
      /\ jobs' = IF follow THEN long ELSE Panes!Trimmed(long)
      /\ con' = s /\ Panes!NoCache /\ Panes!NewTick /\ UNCHANGED <<asked, upd>>
  BY DEF Panes!StartJob
<1>3. n \in 0..Steps /\ n >= 1 /\ Panes!NoSession \in SesRec /\ Panes!NoSession.seq = 0 /\ Panes!NoSession.out = 0
  BY PanesConstants DEF Panes!NoSession, SesRec
<1>4. q \in SesRec /\ q.kind = "job" /\ q.seq = 0 /\ q.out = 0 /\ q.left = n /\ q.follow = follow
  BY <1>3 DEF SesRec
<1> HIDE DEF q
<1>5. /\ mm \in [Session -> SesRec]
      /\ \A x \in Session : x # con => mm[x] = ses[x]
      /\ \A x \in Session : x = con => Tamer(mm[x], ses[x])
      /\ \A x \in Session : x = con /\ ses[x].kind = "console" => mm[x].st = "closed"
  <2>1. ses \in [Session -> SesRec]
    BY DEF PanesInv, SessionsOK
  <2> QED
    BY <2>1, ReplacedIs DEF PanesInv
<1> HIDE DEF mm
<1>6. ses' \in [Session -> SesRec] /\ ses'[s] = q /\ \A x \in Session : x # s => ses'[x] = mm[x]
  BY <1>2, <1>4, <1>5
<1>7. Opening(s)
  <2>1. \A x \in Session : x # s => Tamer(ses'[x], ses[x])
    BY <1>5, <1>6, SameIsTamer DEF PanesInv
  <2> QED
    BY <1>1, <1>3, <1>4, <1>6, <2>1 DEF Opening
<1>8. AskedOK'
  <2>1. asked' \in Seq(Session \cup {None}) /\ asked' = asked
    BY <1>2 DEF PanesInv, AskedOK
  <2> QED
    BY <1>1, <1>7, <2>1, OpeningAsked DEF PanesInv
<1>9. ShownOK'
  <2>1. ASSUME NEW x \in Session, ses'[x].kind = "console", ses'[x].st = "running" PROVE FALSE
    <3>1. x # s
      BY <1>4, <1>6, <2>1
    <3>2. Tamer(ses'[x], ses[x])
      BY <1>7, <3>1 DEF Opening
    <3>3. con = x
      BY <2>1, <3>2 DEF Tamer, PanesInv, ShownOK
    <3> QED
      BY <1>5, <1>6, <2>1, <3>1, <3>2, <3>3 DEF Tamer
  <2> QED
    BY <1>2, <1>4, <1>6, <2>1 DEF ShownOK
<1>10. ListOK'
  <2>1. jobs \in Seq(Session) /\ IsInjective(jobs)
    BY DEF PanesInv, ListOK
  <2>2. /\ jobs' \in Seq(Session) /\ IsInjective(jobs') /\ Range(jobs') \subseteq Range(jobs) \cup {s}
        /\ s \in Range(jobs') /\ \A x \in Range(jobs) : ses[x].st = "running" => x \in Range(jobs')
    <3>1. CASE follow
      BY <1>1, <1>2, <2>1, <3>1, AppendedOne
    <3>2. CASE ~follow
      BY <1>1, <1>2, <2>1, <3>2, TrimmedIs
    <3> QED
      BY <3>1, <3>2
  <2>3. \A x \in Range(jobs) : x \in Session
    BY <2>1, ElementOfSeq, LenProperties DEF Range
  <2> HIDE DEF Range, long
  <2>4. \A x \in Range(jobs') : ses'[x].kind = "job"
    BY <1>4, <1>6, <1>7, <2>2, <2>3 DEF PanesInv, ListOK, Opening, Tamer
  <2>5. ASSUME NEW x \in Session, ses'[x].kind = "job", ses'[x].st = "running", ~ses'[x].follow PROVE x \in Range(jobs')
    <3>1. CASE x = s
      BY <2>2, <3>1
    <3>2. CASE x # s
      <4>1. Tamer(ses'[x], ses[x])
        BY <1>7, <3>2 DEF Opening
      <4>2. ses[x].kind = "job" /\ ses[x].st = "running" /\ ~ses[x].follow
        BY <2>5, <4>1 DEF Tamer
      <4> QED
        BY <2>2, <4>2 DEF PanesInv, ListOK
    <3> QED
      BY <3>1, <3>2
  <2> QED
    BY <2>2, <2>4, <2>5 DEF ListOK
<1> QED
  BY <1>1, <1>2, <1>7, <1>8, <1>9, <1>10, OpeningSessions, NoCacheHolds, NewTickHolds DEF PanesInv

\* The signal that ends a job.
LEMMA KillIsTame ==
  ASSUME SessionsOK, NEW s \in Session, ses[s].kind = "job", ses' = Panes!Kill(ses, s)
  PROVE  Tame
<1> DEFINE r == ses[s]
           q == [r EXCEPT !.killed = TRUE, !.st = IF r.proc THEN "failed" ELSE r.st, !.proc = FALSE]
<1>1. ses \in [Session -> SesRec] /\ r \in SesRec /\ r.seq <= r.out /\ r.kind = "job" /\ (r.st = "running" => r.left >= 1)
  BY DEF SessionsOK
<1>2. ses' = [ses EXCEPT ![s] = q]
  BY <1>1 DEF Panes!Kill
<1> HIDE DEF r
<1>3. q \in SesRec /\ q.kind = r.kind /\ q.follow = r.follow /\ q.seq = r.seq /\ q.out = r.out /\ q.left = r.left
      /\ (q.st = "running" => r.st = "running")
  BY <1>1 DEF SesRec
<1> HIDE DEF q
<1>4. Tamer(q, r)
  BY <1>1, <1>3, EndedIsTamer
<1> QED
  BY <1>2, <1>4, OneIsTame DEF r

\* What is shown is given back to the table: a job is no console.
LEMMA JobGivenBack ==
  ASSUME PanesInv, Panes!JobShown, Tame, con' = None
  PROVE  con \in Session /\ ses[con].kind = "job" /\ ShownOK'
<1>1. con \in Session /\ ses[con].kind = "job"
  BY DEF PanesInv, ShownOK, Panes!JobShown, Panes!IsJob
<1>2. \A x \in Session : ~(ses'[x].kind = "console" /\ ses'[x].st = "running")
  BY <1>1 DEF PanesInv, ShownOK, Tame, Tamer
<1> QED
  BY <1>1, <1>2 DEF ShownOK

LEMMA JobIsShown == ASSUME PanesInv, Panes!JobShown PROVE con \in Session /\ ses[con].kind = "job"
  BY DEF PanesInv, ShownOK, Panes!JobShown, Panes!IsJob

LEMMA LeaveJobHolds == ASSUME PanesInv, Panes!LeaveJob PROVE PanesInv'
<1>1. upd = None /\ Panes!JobShown /\ Panes!NewTick /\ con' = None /\ UNCHANGED <<asked, upd, cache>>
  BY DEF Panes!LeaveJob, Panes!Idle
<1>2. con \in Session /\ ses[con].kind = "job"
  BY <1>1, JobIsShown
<1>3. ChainOK'
  BY <1>1, NewTickHolds DEF PanesInv
<1>4. CASE ses[con].follow
  <2>1. ses' = Panes!Kill(ses, con) /\ jobs' = Panes!Without(jobs, con)
    BY <1>4 DEF Panes!LeaveJob
  <2>2. Tame
    BY <1>2, <2>1, KillIsTame DEF PanesInv
  <2>3. ListOK'
    <3>1. jobs' \in Seq(Session) /\ IsInjective(jobs') /\ Range(jobs') \subseteq Range(jobs)
          /\ \A x \in Range(jobs) : x # con => x \in Range(jobs')
      <4>1. CASE con \in Range(jobs)
        BY <2>1, <4>1, WithoutIs DEF PanesInv, ListOK
      <4>2. CASE con \notin Range(jobs)
        <5>1. ~(\E i \in 1..Len(jobs) : jobs[i] = con)
          BY <4>2, LenProperties DEF PanesInv, ListOK, Range
        <5>2. jobs' = jobs
          BY <2>1, <5>1 DEF Panes!Without, Panes!RemoveFirst
        <5> QED
          BY <5>2 DEF PanesInv, ListOK
      <4> QED
        BY <4>1, <4>2
    <3>2. \A x \in Range(jobs) : x \in Session
      BY ElementOfSeq, LenProperties DEF PanesInv, ListOK, Range
    <3> HIDE DEF Range
    <3>3. \A x \in Range(jobs') : ses'[x].kind = "job"
      BY <2>2, <3>1, <3>2 DEF PanesInv, ListOK, Tame, Tamer
    <3>4. ASSUME NEW x \in Session, ses'[x].kind = "job", ses'[x].st = "running", ~ses'[x].follow PROVE x \in Range(jobs')
      <4>1. Tamer(ses'[x], ses[x])
        BY <2>2 DEF Tame
      <4>2. x # con /\ ses[x].kind = "job" /\ ses[x].st = "running" /\ ~ses[x].follow
        BY <1>4, <3>4, <4>1 DEF Tamer
      <4> QED
        BY <3>1, <4>2 DEF PanesInv, ListOK
    <3> QED
      BY <3>1, <3>3, <3>4 DEF ListOK
  <2> QED
    BY <1>1, <1>3, <2>2, <2>3, JobGivenBack, TameSessions, TameAsked, TameCache DEF PanesInv
<1>5. CASE ~ses[con].follow
  <2>1. UNCHANGED <<ses, jobs>>
    BY <1>5 DEF Panes!LeaveJob
  <2>2. Tame
    BY <2>1, SameIsTame DEF PanesInv
  <2> QED
    BY <1>1, <1>3, <2>1, <2>2, JobGivenBack, TameSessions, TameAsked, TameList, TameCache DEF PanesInv
<1> QED
  BY <1>4, <1>5

LEMMA KillJobHolds == ASSUME PanesInv, Panes!KillJob PROVE PanesInv'
<1>1. upd = None /\ Panes!JobShown /\ Panes!NewTick /\ con' = None /\ ses' = Panes!Kill(ses, con)
      /\ UNCHANGED <<jobs, asked, upd, cache>>
  BY DEF Panes!KillJob, Panes!Idle
<1>2. Tame
  BY <1>1, JobIsShown, KillIsTame DEF PanesInv
<1> QED
  BY <1>1, <1>2, NewTickHolds, JobGivenBack, TameSessions, TameAsked, TameList, TameCache DEF PanesInv

\* One of the list is shown instead.
LEMMA ListedShown ==
  ASSUME PanesInv, con \notin Session \/ ses[con].kind = "job", con' \in Range(jobs), UNCHANGED ses
  PROVE  ShownOK'
<1>1. con' \in Session /\ ses[con'].kind = "job"
  BY ElementOfSeq, LenProperties DEF PanesInv, ListOK, Range
<1>2. \A x \in Session : ~(ses[x].kind = "console" /\ ses[x].st = "running")
  BY DEF PanesInv, ShownOK
<1> HIDE DEF Range
<1> QED
  BY <1>1, <1>2 DEF ShownOK

LEMMA NextJobHolds == ASSUME PanesInv, Panes!NextJob PROVE PanesInv'
<1>1. upd = None /\ con # None /\ con \in Range(jobs) /\ Panes!NoCache /\ UNCHANGED <<ses, jobs, asked, tickGen, ticks, upd>>
  BY ListedIs DEF Panes!NextJob, Panes!Idle
<1>2. con' \in Range(jobs)
  <2> DEFINE i == CHOOSE i \in 1..Len(jobs) : jobs[i] = con
  <2>0. Len(jobs) \in Nat /\ DOMAIN jobs = 1..Len(jobs)
    BY LenProperties DEF PanesInv, ListOK
  <2>1. i \in 1..Len(jobs)
    BY <1>1, <2>0 DEF Range
  <2>2. con' = jobs[(i % Len(jobs)) + 1]
    BY DEF Panes!NextJob
  <2> HIDE DEF i
  <2>3. Len(jobs) > 0 /\ i % Len(jobs) \in 0..(Len(jobs) - 1)
    BY <2>0, <2>1
  <2>4. (i % Len(jobs)) + 1 \in 1..Len(jobs)
    BY <2>0, <2>3
  <2> QED
    BY <2>0, <2>2, <2>4 DEF Range
<1>3. ses[con].kind = "job"
  BY <1>1 DEF PanesInv, ListOK
<1> QED
  BY <1>1, <1>2, <1>3, ListedShown, SameIsTame, TameSessions, TameAsked, TameList, NoCacheHolds, SameTicks DEF PanesInv

LEMMA ShowJobHolds == ASSUME PanesInv, Panes!ShowJob PROVE PanesInv'
<1>1. upd = None /\ con = None /\ jobs # <<>> /\ Panes!NewTick /\ con' = Panes!Last(jobs) /\ Panes!NoCache
      /\ UNCHANGED <<ses, jobs, asked, upd>>
  BY DEF Panes!ShowJob, Panes!Idle
<1>2. con' \in Range(jobs)
  <2>1. Len(jobs) \in Nat /\ DOMAIN jobs = 1..Len(jobs) /\ Len(jobs) # 0
    BY <1>1, LenProperties, EmptySeq DEF PanesInv, ListOK
  <2>2. con' = jobs[Len(jobs)] /\ Len(jobs) \in DOMAIN jobs
    BY <1>1, <2>1 DEF Panes!Last
  <2> QED
    BY <2>2 DEF Range
<1>3. con \notin Session
  BY <1>1, PanesConstants
<1> QED
  BY <1>1, <1>2, <1>3, ListedShown, SameIsTame, TameSessions, TameAsked, TameList, NoCacheHolds, NewTickHolds DEF PanesInv

-----------------------------------------------------------------------------
(* The panes, from the first state on.                                     *)

LEMMA PanesInit == TerminalsInit => PanesInv
<1> SUFFICES ASSUME Panes!Init PROVE PanesInv
  BY DEF TerminalsInit
<1>1. /\ ses = [s \in Session |-> Panes!NoSession] /\ con = None /\ jobs = <<>> /\ asked = <<>>
      /\ tickGen = 0 /\ ticks = {} /\ upd = None /\ cache = [of |-> None, at |-> 0, made |-> 0]
  BY DEF Panes!Init
<1>2. Panes!NoSession \in SesRec /\ Panes!NoSession.kind = "none" /\ Panes!NoSession.seq <= Panes!NoSession.out
  BY PanesConstants DEF Panes!NoSession, SesRec
<1>3. SessionsOK
  BY <1>1, <1>2 DEF SessionsOK
<1>4. Len(<<>>) = 0 /\ <<>> \in Seq(Session) /\ <<>> \in Seq(Session \cup {None})
  BY EmptySeq
<1>5. AskedOK
  BY <1>1, <1>4 DEF AskedOK
<1>6. ShownOK
  BY <1>1, <1>2 DEF ShownOK
<1>7. DOMAIN jobs = {}
  BY <1>1, <1>4, LenProperties
<1>8. ListOK
  BY <1>1, <1>2, <1>4, <1>7 DEF ListOK, Range, IsInjective
<1>9. ChainOK /\ CacheOK
  BY <1>1, PanesConstants DEF ChainOK, CacheOK
<1> QED
  BY <1>3, <1>5, <1>6, <1>8, <1>9 DEF PanesInv

LEMMA PanesNext == PanesInv /\ [TerminalsNext]_all => PanesInv'
<1> SUFFICES ASSUME PanesInv, [TerminalsNext]_all PROVE PanesInv'
  OBVIOUS
<1>1. CASE UNCHANGED paneVars
  <2>1. UNCHANGED <<ses, con, jobs, asked, tickGen, ticks, upd, cache>>
    BY <1>1 DEF paneVars
  <2> QED
    BY <2>1, SameIsTame, TameStep DEF PanesInv
<1>2. CASE Panes!Next
  <2>1. CASE Panes!JobStep
    BY <2>1, CommandEndsHolds, NextCommandHolds, CommandFailsHolds DEF Panes!JobStep
  <2>2. CASE Panes!TickStep
    BY <2>2, PaneTickHolds, RearmHolds DEF Panes!TickStep
  <2>3. CASE Panes!Output \/ Panes!Counted \/ \E n \in 0..MaxSeq : Panes!View(n)
    BY <2>3, OutputHolds, ViewKeeps
  <2>4. CASE (\E s \in Session : Panes!AskConsole(s)) \/ (\E i \in 1..Len(asked) : asked[i] # None /\ Panes!Ready(i))
             \/ Panes!CloseConsole
    BY <2>4, AskConsoleHolds, ReadyHolds, CloseConsoleHolds
  <2>5. CASE Panes!LeaveJob \/ Panes!KillJob \/ Panes!NextJob \/ Panes!ShowJob
    BY <2>5, LeaveJobHolds, KillJobHolds, NextJobHolds, ShowJobHolds
  <2>6. CASE \E s \in Session, n \in 1..Steps, follow \in BOOLEAN : Panes!StartJob(s, n, follow)
    BY <2>6, StartJobHolds
  <2> QED
    BY <1>2, <2>1, <2>2, <2>3, <2>4, <2>5, <2>6 DEF Panes!Next
<1> QED
  BY <1>1, <1>2 DEF TerminalsNext, all

LEMMA PanesAlways == TerminalsSpec => []PanesInv
  BY PanesInit, PanesNext, PTL DEF TerminalsSpec

-----------------------------------------------------------------------------
(* What it implies.                                                        *)

LEMMA PanesHold == PanesInv => PanesAreTrue
<1> SUFFICES ASSUME PanesInv PROVE PanesAreTrue
  OBVIOUS
<1>1. Panes!TypeOK
  <2>1. Range(jobs) \subseteq Session /\ IsInjective(jobs)
    BY ElementOfSeq, LenProperties DEF PanesInv, ListOK, Range
  <2>2. Panes!IsInjective(jobs)
    BY <2>1 DEF Panes!IsInjective, IsInjective
  <2>3. upd \in ticks \cup 0..MaxTick \cup {None}
    BY PanesConstants DEF PanesInv, ChainOK
  <2>4. \A s \in Session : ses[s].st \in {"none", "running", "ok", "failed", "closed"} /\ ses[s].left \in 0..Steps
    BY SesOf DEF PanesInv, SesRec
  <2> QED
    BY <2>1, <2>2, <2>3, <2>4, ListedIs DEF Panes!TypeOK, PanesInv, ShownOK, ChainOK
<1>2. Panes!OneChain
  BY PanesConstants DEF PanesInv, ChainOK, Panes!OneChain
<1>3. Panes!NoHiddenSession
  BY DEF PanesInv, ShownOK, Panes!NoHiddenSession, Panes!Alive
<1>4. Panes!RunningIsListed
  BY ListedIs DEF PanesInv, ListOK, Panes!RunningIsListed, Panes!IsJob, Panes!Alive
<1>5. Panes!CacheIsCurrent
  BY DEF PanesInv, CacheOK, ShownOK, Panes!CacheIsCurrent
<1> QED
  BY <1>1, <1>2, <1>3, <1>4, <1>5 DEF PanesAreTrue

\* The panes of the console are true in every reachable state: the newest chain of
\* ticks is there, and once, while a pane is shown, no console that nobody sees, no
\* running job that cannot be gone back to, and no picture without what was counted
\* before it was asked for (newTick, consoleReady, jobStartMsg, view).
THEOREM PanesStayTrue == TerminalsSpec => []PanesAreTrue
  BY PanesAlways, PanesHold, PTL

\* A chain of ticks that newTick retired is never begun again, so that chains do not
\* multiply, however many panes are opened (newTick, conTickMsg).
THEOREM RetiredStay == TerminalsSpec => RetiredEnds
<1>1. PanesInv /\ [TerminalsNext]_all => [ticks' \ ticks \subseteq {tickGen'}]_paneVars
  <2> SUFFICES ASSUME PanesInv, Panes!Next PROVE ticks' \ ticks \subseteq {tickGen'}
    BY DEF TerminalsNext, all
  <2>1. CASE \E g \in ticks : Panes!Tick(g)
    BY <2>1 DEF Panes!Tick
  <2>2. CASE upd # None /\ Panes!Rearm(upd)
    BY <2>2 DEF Panes!Rearm, PanesInv, ChainOK
  <2>3. CASE UNCHANGED ticks
    BY <2>3
  <2>4. CASE Panes!NewTick
    BY <2>4 DEF Panes!NewTick
  <2>5. CASE Panes!JobStep \/ Panes!Output \/ Panes!Counted \/ \E n \in 0..MaxSeq : Panes!View(n)
    <3>1. CASE Panes!JobStep
      BY <2>3, <3>1 DEF Panes!JobStep, Panes!CommandEnds, Panes!NextCommand, Panes!CommandFails
    <3>2. CASE Panes!Output \/ Panes!Counted
      BY <2>3, <3>2 DEF Panes!Output, Panes!Counted
    <3>3. CASE \E n \in 0..MaxSeq : Panes!View(n)
      BY <2>3, <3>3 DEF Panes!View
    <3> QED
      BY <2>5, <3>1, <3>2, <3>3
  <2>6. CASE (\E s \in Session : Panes!AskConsole(s)) \/ (\E i \in 1..Len(asked) : asked[i] # None /\ Panes!Ready(i))
             \/ Panes!CloseConsole
    <3>1. CASE \E s \in Session : Panes!AskConsole(s)
      BY <2>3, <3>1 DEF Panes!AskConsole
    <3>2. CASE \E i \in 1..Len(asked) : asked[i] # None /\ Panes!Ready(i)
      <4>1. Panes!NewTick \/ Panes!NoTick
        BY <3>2 DEF Panes!Ready
      <4> QED
        BY <2>3, <2>4, <4>1 DEF Panes!NoTick
    <3>3. CASE Panes!CloseConsole
      BY <2>3, <3>3 DEF Panes!CloseConsole
    <3> QED
      BY <2>6, <3>1, <3>2, <3>3
  <2>7. CASE Panes!LeaveJob \/ Panes!KillJob \/ Panes!NextJob \/ Panes!ShowJob
    BY <2>3, <2>4, <2>7 DEF Panes!LeaveJob, Panes!KillJob, Panes!NextJob, Panes!ShowJob
  <2>8. CASE \E s \in Session, n \in 1..Steps, follow \in BOOLEAN : Panes!StartJob(s, n, follow)
    BY <2>4, <2>8 DEF Panes!StartJob
  <2> QED
    BY <2>1, <2>2, <2>5, <2>6, <2>7, <2>8 DEF Panes!Next, Panes!TickStep
<1>2. RetiredEnds <=> [][ticks' \ ticks \subseteq {tickGen'}]_paneVars
  BY DEF RetiredEnds, Panes!RetiredEnds, paneVars, Panes!paneVars
<1> QED
  BY <1>1, <1>2, PanesAlways, PTL DEF TerminalsSpec

-----------------------------------------------------------------------------
(* The estate: its items, group after group (navItems).                    *)

Lab  == {"clones", "lab", "ungrouped", "unreconciled"}
Item == [label : Lab, name : Nat]

GroupOf(l, d, z, a, fold) == Group(l, Rows(l, d, z, a), fold)
Size(l, d, z, a, fold)    == Len(GroupOf(l, d, z, a, fold))

\* How many items come before the group.
Ahead(l, d, z, a, fold) ==
  CASE l = "clones" -> 0
    [] l = "lab" -> Size("clones", d, z, a, fold)
    [] l = "ungrouped" -> Size("clones", d, z, a, fold) + Size("lab", d, z, a, fold)
    [] l = "unreconciled" -> (Size("clones", d, z, a, fold) + Size("lab", d, z, a, fold)) + Size("ungrouped", d, z, a, fold)

\* Every place of a finite set of numbers has one.
LEMMA NthIsIn ==
  ASSUME NEW S \in SUBSET Nat, IsFiniteSet(S), NEW i \in 1..Cardinality(S)
  PROVE  Nth(S, i) \in S
<1> DEFINE Below(n) == {k \in S : k < n}
           Bad == {j \in 1..Cardinality(S) : ~\E n \in S : Cardinality(Below(n)) = j - 1}
<1>0. Cardinality(S) \in Nat /\ \A k \in S : k \in Nat
  BY FS_CardinalityType
<1>1. \A n : IsFiniteSet(Below(n)) /\ Cardinality(Below(n)) \in Nat
  BY FS_Subset, FS_CardinalityType
<1>2. Bad = {}
  <2> SUFFICES ASSUME Bad # {} PROVE FALSE
    OBVIOUS
  <2>1. Bad \in SUBSET Nat
    BY <1>0
  <2> DEFINE j == Min(Bad)
  <2>2. j \in Bad /\ \A x \in Bad : j <= x
    BY <2>1, LeastIs
  <2> HIDE DEF j
  <2>3. j \in 1..Cardinality(S) /\ ~\E n \in S : Cardinality(Below(n)) = j - 1
    BY <2>2
  <2>4. CASE j = 1
    <3>1. S # {}
      BY <2>3, <2>4, <1>0, FS_EmptySet
    <3>2. PICK low \in S : \A k \in S : low =< k
      BY <3>1, Least
    <3>3. \A k \in S : ~(k < low)
      BY <3>2, <1>0
    <3>4. Below(low) = {}
      BY <3>3
    <3>5. Cardinality(Below(low)) = 0
      BY <3>4, FS_EmptySet
    <3> HIDE DEF Below
    <3> QED
      BY <2>3, <2>4, <3>2, <3>5, <1>0
  <2>5. CASE j # 1
    <3>1. j - 1 \in 1..Cardinality(S)
      BY <2>3, <2>5, <1>0
    <3>2. ~(j - 1 \in Bad)
      BY <2>2, <2>3, <1>0, <3>1
    <3>3. PICK n \in S : Cardinality(Below(n)) = (j - 1) - 1
      BY <3>1, <3>2
    <3> DEFINE T == {k \in S : k > n}
               U == Below(n) \cup {n}
    <3>4. n \notin Below(n)
      BY <1>0
    <3>5. IsFiniteSet(U) /\ Cardinality(U) = j - 1
      <4>1. IsFiniteSet(Below(n)) /\ Cardinality(Below(n)) = j - 2 /\ j \in Nat
        BY <1>1, <3>3, <2>3, <1>0
      <4> HIDE DEF Below
      <4> QED
        BY <4>1, <3>4, FS_AddElement
    <3>6. T # {}
      <4> SUFFICES ASSUME T = {} PROVE FALSE
        OBVIOUS
      <4>1. \A k \in S : k < n \/ k = n
        BY <1>0
      <4>2. S = U
        BY <4>1
      <4> HIDE DEF U
      <4> QED
        BY <4>2, <3>5, <2>3, <1>0
    <3>7. T \in SUBSET Nat
      OBVIOUS
    <3> DEFINE m == Min(T)
    <3>8. m \in T /\ \A k \in T : m <= k
      BY <3>6, <3>7, LeastIs
    <3> HIDE DEF m
    <3>9. Below(m) = U
      <4>1. \A k \in S : k < m <=> k < n \/ k = n
        BY <3>8, <1>0
      <4> QED
        BY <4>1, <3>8
    <3>10. m \in S /\ Cardinality(Below(m)) = j - 1
      BY <3>5, <3>8, <3>9
    <3> QED
      BY <3>10, <2>3
  <2> QED
    BY <2>4, <2>5
<1>3. \E n \in S : Cardinality(Below(n)) = i - 1
  BY <1>2
<1> QED
  BY <1>3 DEF Nth

LEMMA RowsAre == ASSUME NEW l, NEW d, NEW z, NEW a PROVE Rows(l, d, z, a) \in Seq(Name)
<1> DEFINE under == {n \in Name : (d[n] # "none" \/ n \in a) /\ LabelOf(n, d, z) = l}
<1>1. N \in Nat
  BY TerminalsAssumption DEF TuiAssumption
<1>2. Name \in SUBSET Nat /\ IsFiniteSet(Name)
  BY <1>1, FS_Interval DEF Name
<1>3. under \in SUBSET Name
  OBVIOUS
<1>4. Rows(l, d, z, a) = [i \in 1..Cardinality(under) |-> Nth(under, i)]
  BY DEF Rows
<1> HIDE DEF under
<1>5. IsFiniteSet(under) /\ under \in SUBSET Nat /\ Cardinality(under) \in Nat
  BY <1>2, <1>3, FS_Subset, FS_CardinalityType
<1>6. \A i \in 1..Cardinality(under) : Nth(under, i) \in Name
  BY <1>3, <1>5, NthIsIn
<1> QED
  BY <1>4, <1>5, <1>6

LEMMA GroupIs ==
  ASSUME NEW l \in Lab, NEW rs \in Seq(Name), NEW fold
  PROVE  /\ Group(l, rs, fold) \in Seq(Item) /\ Len(Group(l, rs, fold)) \in Nat
         /\ rs = <<>> => Group(l, rs, fold) = <<>>
         /\ rs # <<>> => /\ Len(Group(l, rs, fold)) >= (IF l \in fold THEN 1 ELSE 2)
                         /\ Group(l, rs, fold)[1] = Header(l)
                         /\ \A i \in 2..Len(Group(l, rs, fold)) : Group(l, rs, fold)[i].name # 0
<1> DEFINE rest == IF l \in fold THEN <<>> ELSE [i \in 1..Len(rs) |-> [label |-> l, name |-> rs[i]]]
<1>1. Len(rs) \in Nat /\ (rs # <<>> => Len(rs) >= 1)
  BY EmptySeq, LenProperties
<1>2. \A i \in 1..Len(rs) : rs[i] \in Nat /\ rs[i] # 0
  <2>1. \A i \in 1..Len(rs) : rs[i] \in Name
    BY ElementOfSeq
  <2> QED
    BY <2>1, TerminalsAssumption DEF TuiAssumption, Name
<1>3. rest \in Seq(Item) /\ Len(rest) \in Nat /\ \A i \in 1..Len(rest) : rest[i].name # 0
  <2>1. CASE l \in fold
    BY <2>1, EmptySeq
  <2>2. CASE l \notin fold
    <3>1. \A i \in 1..Len(rs) : [label |-> l, name |-> rs[i]] \in Item
      BY <1>2 DEF Item
    <3>2. [i \in 1..Len(rs) |-> [label |-> l, name |-> rs[i]]] \in Seq(Item)
      BY <1>1, <3>1
    <3> QED
      BY <1>1, <1>2, <2>2, <3>2
  <2> QED
    BY <2>1, <2>2
<1>4. l \notin fold => Len(rest) = Len(rs)
  BY <1>1
<1> HIDE DEF rest
<1>5. <<Header(l)>> \in Seq(Item) /\ Len(<<Header(l)>>) = 1 /\ <<Header(l)>>[1] = Header(l)
  BY DEF Item, Header
<1> DEFINE g == <<Header(l)>> \o rest
<1>6. g \in Seq(Item) /\ Len(g) = 1 + Len(rest)
      /\ \A i \in 1..(1 + Len(rest)) : g[i] = IF i <= 1 THEN <<Header(l)>>[i] ELSE rest[i - 1]
  BY <1>3, <1>5, ConcatProperties
<1> HIDE DEF g
<1>7. g[1] = Header(l) /\ \A i \in 2..Len(g) : g[i].name # 0
  <2>1. g[1] = Header(l)
    BY <1>3, <1>5, <1>6
  <2>2. ASSUME NEW i \in 2..Len(g) PROVE g[i].name # 0
    <3>1. i \in 1..(1 + Len(rest)) /\ ~(i <= 1) /\ i - 1 \in 1..Len(rest)
      BY <1>3, <1>6
    <3>2. g[i] = rest[i - 1]
      BY <1>6, <3>1
    <3> QED
      BY <1>3, <3>1, <3>2
  <2> QED
    BY <2>1, <2>2
<1>8. Group(l, rs, fold) = IF rs = <<>> THEN <<>> ELSE g
  BY DEF Group, g, rest
<1>9. CASE rs = <<>>
  BY <1>8, <1>9, EmptySeq
<1>10. CASE rs # <<>>
  <2>1. Len(g) >= IF l \in fold THEN 1 ELSE 2
    BY <1>1, <1>3, <1>4, <1>6, <1>10
  <2> QED
    BY <1>3, <1>6, <1>7, <1>8, <1>10, <2>1
<1> QED
  BY <1>9, <1>10

LEMMA GroupOfIs ==
  ASSUME NEW l \in Lab, NEW d, NEW z, NEW a, NEW fold
  PROVE  /\ GroupOf(l, d, z, a, fold) \in Seq(Item) /\ Size(l, d, z, a, fold) \in Nat
         /\ Size(l, d, z, a, fold) >= 1 =>
              /\ GroupOf(l, d, z, a, fold)[1] = Header(l)
              /\ \A i \in 2..Size(l, d, z, a, fold) : GroupOf(l, d, z, a, fold)[i].name # 0
              /\ l \notin fold => Size(l, d, z, a, fold) >= 2
              /\ \A f : Size(l, d, z, a, f) >= 1
<1>1. Rows(l, d, z, a) \in Seq(Name)
  BY RowsAre
<1>2. \A f : /\ Group(l, Rows(l, d, z, a), f) \in Seq(Item) /\ Len(Group(l, Rows(l, d, z, a), f)) \in Nat
             /\ Rows(l, d, z, a) = <<>> => Group(l, Rows(l, d, z, a), f) = <<>>
             /\ Rows(l, d, z, a) # <<>> =>
                  /\ Len(Group(l, Rows(l, d, z, a), f)) >= (IF l \in f THEN 1 ELSE 2)
                  /\ Group(l, Rows(l, d, z, a), f)[1] = Header(l)
                  /\ \A i \in 2..Len(Group(l, Rows(l, d, z, a), f)) : Group(l, Rows(l, d, z, a), f)[i].name # 0
  BY <1>1, GroupIs
<1>3. CASE Rows(l, d, z, a) = <<>>
  <2>1. Size(l, d, z, a, fold) = 0
    BY <1>2, <1>3, EmptySeq DEF Size, GroupOf
  <2> QED
    BY <1>2, <2>1 DEF GroupOf
<1>4. CASE Rows(l, d, z, a) # <<>>
  BY <1>2, <1>4 DEF GroupOf, Size
<1> QED
  BY <1>3, <1>4

\* Four sequences, one after the other.
LEMMA Joined ==
  ASSUME NEW S, NEW p \in Seq(S), NEW q \in Seq(S), NEW r \in Seq(S), NEW s \in Seq(S),
         NEW j, j = (p \o q) \o (r \o s)
  PROVE  /\ j \in Seq(S) /\ Len(j) = ((Len(p) + Len(q)) + Len(r)) + Len(s)
         /\ \A i \in 1..Len(p) : j[i] = p[i]
         /\ \A i \in 1..Len(q) : j[Len(p) + i] = q[i]
         /\ \A i \in 1..Len(r) : j[(Len(p) + Len(q)) + i] = r[i]
         /\ \A i \in 1..Len(s) : j[((Len(p) + Len(q)) + Len(r)) + i] = s[i]
<1> DEFINE pq == p \o q
           rs == r \o s
<1>1. Len(p) \in Nat /\ Len(q) \in Nat /\ Len(r) \in Nat /\ Len(s) \in Nat
  BY LenProperties
<1>2. pq \in Seq(S) /\ Len(pq) = Len(p) + Len(q)
      /\ \A i \in 1..(Len(p) + Len(q)) : pq[i] = IF i <= Len(p) THEN p[i] ELSE q[i - Len(p)]
  BY ConcatProperties
<1>3. rs \in Seq(S) /\ Len(rs) = Len(r) + Len(s)
      /\ \A i \in 1..(Len(r) + Len(s)) : rs[i] = IF i <= Len(r) THEN r[i] ELSE s[i - Len(r)]
  BY ConcatProperties
<1> HIDE DEF pq, rs
<1>4. j \in Seq(S) /\ Len(j) = Len(pq) + Len(rs)
      /\ \A i \in 1..(Len(pq) + Len(rs)) : j[i] = IF i <= Len(pq) THEN pq[i] ELSE rs[i - Len(pq)]
  <2>1. j = pq \o rs
    BY DEF pq, rs
  <2> QED
    BY <1>2, <1>3, <2>1, ConcatProperties
<1>5. ASSUME NEW i \in 1..Len(p) PROVE j[i] = p[i]
  <2>1. i \in 1..(Len(pq) + Len(rs)) /\ i <= Len(pq) /\ i \in 1..(Len(p) + Len(q)) /\ i <= Len(p)
    BY <1>1, <1>2, <1>3
  <2> QED
    BY <1>2, <1>4, <2>1
<1>6. ASSUME NEW i \in 1..Len(q) PROVE j[Len(p) + i] = q[i]
  <2>1. /\ Len(p) + i \in 1..(Len(pq) + Len(rs)) /\ Len(p) + i <= Len(pq)
        /\ Len(p) + i \in 1..(Len(p) + Len(q)) /\ ~(Len(p) + i <= Len(p)) /\ (Len(p) + i) - Len(p) = i
    BY <1>1, <1>2, <1>3
  <2>2. j[Len(p) + i] = pq[Len(p) + i]
    BY <1>4, <2>1
  <2>3. pq[Len(p) + i] = q[(Len(p) + i) - Len(p)]
    BY <1>2, <2>1
  <2> QED
    BY <2>1, <2>2, <2>3
<1>7. ASSUME NEW i \in 1..Len(r) PROVE j[(Len(p) + Len(q)) + i] = r[i]
  <2> DEFINE k == (Len(p) + Len(q)) + i
  <2>1. /\ k \in 1..(Len(pq) + Len(rs)) /\ ~(k <= Len(pq)) /\ k - Len(pq) = i
        /\ i \in 1..(Len(r) + Len(s)) /\ i <= Len(r)
    BY <1>1, <1>2, <1>3
  <2> HIDE DEF k
  <2>2. j[k] = rs[k - Len(pq)]
    BY <1>4, <2>1
  <2>3. rs[i] = r[i]
    BY <1>3, <2>1
  <2> QED
    BY <2>1, <2>2, <2>3 DEF k
<1>8. ASSUME NEW i \in 1..Len(s) PROVE j[((Len(p) + Len(q)) + Len(r)) + i] = s[i]
  <2> DEFINE k == ((Len(p) + Len(q)) + Len(r)) + i
  <2>1. /\ k \in 1..(Len(pq) + Len(rs)) /\ ~(k <= Len(pq)) /\ k - Len(pq) = Len(r) + i
        /\ Len(r) + i \in 1..(Len(r) + Len(s)) /\ ~(Len(r) + i <= Len(r)) /\ (Len(r) + i) - Len(r) = i
    BY <1>1, <1>2, <1>3
  <2> HIDE DEF k
  <2>2. j[k] = rs[k - Len(pq)]
    BY <1>4, <2>1
  <2>3. rs[Len(r) + i] = s[(Len(r) + i) - Len(r)]
    BY <1>3, <2>1
  <2> QED
    BY <2>1, <2>2, <2>3 DEF k
<1>9. Len(j) = ((Len(p) + Len(q)) + Len(r)) + Len(s)
  BY <1>1, <1>2, <1>3, <1>4
<1> QED
  BY <1>4, <1>5, <1>6, <1>7, <1>8, <1>9

\* Every item has its place in a group, and every place of a group its item.
LEMMA ItemsAre ==
  ASSUME NEW d, NEW z, NEW a, NEW fold
  PROVE  LET items == NavItems(d, z, a, fold)
         IN /\ items \in Seq(Item) /\ Len(items) \in Nat
            /\ \A l \in Lab : Ahead(l, d, z, a, fold) \in Nat
            /\ \A l \in Lab : \A j \in 1..Size(l, d, z, a, fold) :
                 /\ Ahead(l, d, z, a, fold) + j \in 1..Len(items)
                 /\ items[Ahead(l, d, z, a, fold) + j] = GroupOf(l, d, z, a, fold)[j]
            /\ \A i \in 1..Len(items) : \E l \in Lab : \E j \in 1..Size(l, d, z, a, fold) :
                 i = Ahead(l, d, z, a, fold) + j
<1> DEFINE G(l) == GroupOf(l, d, z, a, fold)
           S(l) == Size(l, d, z, a, fold)
           A(l) == Ahead(l, d, z, a, fold)
           items == NavItems(d, z, a, fold)
           n1 == S("clones")
           n2 == S("lab")
           n3 == S("ungrouped")
           n4 == S("unreconciled")
<1>1. \A l \in Lab : G(l) \in Seq(Item) /\ S(l) \in Nat /\ S(l) = Len(G(l))
  BY GroupOfIs DEF Size
<1>2. items = (G("clones") \o G("lab")) \o (G("ungrouped") \o G("unreconciled"))
  BY DEF NavItems, GroupOf
<1>3. /\ n1 \in Nat /\ n2 \in Nat /\ n3 \in Nat /\ n4 \in Nat
      /\ A("clones") = 0 /\ A("lab") = n1 /\ A("ungrouped") = n1 + n2 /\ A("unreconciled") = (n1 + n2) + n3
  BY <1>1 DEF Lab, Ahead
<1>4. /\ G("clones") \in Seq(Item) /\ G("lab") \in Seq(Item) /\ G("ungrouped") \in Seq(Item) /\ G("unreconciled") \in Seq(Item)
      /\ n1 = Len(G("clones")) /\ n2 = Len(G("lab")) /\ n3 = Len(G("ungrouped")) /\ n4 = Len(G("unreconciled"))
  BY <1>1 DEF Lab
<1> HIDE DEF G, S, A, items
<1>5. /\ items \in Seq(Item) /\ Len(items) = ((n1 + n2) + n3) + n4
      /\ \A i \in 1..n1 : items[i] = G("clones")[i]
      /\ \A i \in 1..n2 : items[n1 + i] = G("lab")[i]
      /\ \A i \in 1..n3 : items[(n1 + n2) + i] = G("ungrouped")[i]
      /\ \A i \in 1..n4 : items[((n1 + n2) + n3) + i] = G("unreconciled")[i]
  <2> DEFINE p == G("clones")
             q == G("lab")
             r == G("ungrouped")
             s == G("unreconciled")
  <2>1. p \in Seq(Item) /\ q \in Seq(Item) /\ r \in Seq(Item) /\ s \in Seq(Item)
    BY <1>4
  <2>2. n1 = Len(p) /\ n2 = Len(q) /\ n3 = Len(r) /\ n4 = Len(s)
    BY <1>4
  <2> HIDE DEF n1, n2, n3, n4, p, q, r, s
  <2>3. items = (p \o q) \o (r \o s)
    BY <1>2 DEF p, q, r, s
  <2>4. /\ items \in Seq(Item) /\ Len(items) = ((Len(p) + Len(q)) + Len(r)) + Len(s)
        /\ \A i \in 1..Len(p) : items[i] = p[i]
        /\ \A i \in 1..Len(q) : items[Len(p) + i] = q[i]
        /\ \A i \in 1..Len(r) : items[(Len(p) + Len(q)) + i] = r[i]
        /\ \A i \in 1..Len(s) : items[((Len(p) + Len(q)) + Len(r)) + i] = s[i]
    BY <2>1, <2>3, Joined
  <2>5. /\ items \in Seq(Item) /\ Len(items) = ((n1 + n2) + n3) + n4
        /\ \A i \in 1..n1 : items[i] = p[i]
        /\ \A i \in 1..n2 : items[n1 + i] = q[i]
        /\ \A i \in 1..n3 : items[(n1 + n2) + i] = r[i]
        /\ \A i \in 1..n4 : items[((n1 + n2) + n3) + i] = s[i]
    BY <2>2, <2>4
  <2> QED
    BY <2>5 DEF p, q, r, s
<1> DEFINE len == Len(items)
<1> HIDE DEF n1, n2, n3, n4
<1>6. \A i \in 1..len : \/ i \in 1..n1 \/ i - n1 \in 1..n2 \/ i - (n1 + n2) \in 1..n3
                        \/ i - ((n1 + n2) + n3) \in 1..n4
  BY <1>3, <1>5
<1>7. \A i \in 1..len : \E l \in Lab : \E j \in 1..S(l) : i = A(l) + j
  <2> SUFFICES ASSUME NEW i \in 1..len PROVE \E l \in Lab : \E j \in 1..S(l) : i = A(l) + j
    OBVIOUS
  <2>1. CASE i \in 1..n1
    <3>1. i = A("clones") + i
      BY <1>3, <2>1
    <3> QED
      BY <2>1, <3>1 DEF n1, Lab
  <2>2. CASE i - n1 \in 1..n2
    <3>1. i = A("lab") + (i - n1)
      BY <1>3, <2>2
    <3> QED
      BY <2>2, <3>1 DEF n2, Lab
  <2>3. CASE i - (n1 + n2) \in 1..n3
    <3>1. i = A("ungrouped") + (i - (n1 + n2))
      BY <1>3, <2>3
    <3> QED
      BY <2>3, <3>1 DEF n3, Lab
  <2>4. CASE i - ((n1 + n2) + n3) \in 1..n4
    <3>1. i = A("unreconciled") + (i - ((n1 + n2) + n3))
      BY <1>3, <2>4
    <3> QED
      BY <2>4, <3>1 DEF n4, Lab
  <2> QED
    BY <1>6, <2>1, <2>2, <2>3, <2>4
<1>8. ASSUME NEW l \in Lab, NEW j \in 1..S(l) PROVE A(l) + j \in 1..len /\ items[A(l) + j] = G(l)[j]
  <2>1. CASE l = "clones"
    <3>1. A(l) + j = j /\ j \in 1..n1 /\ j \in 1..len
      BY <1>3, <1>5, <2>1 DEF n1
    <3> QED
      BY <1>5, <2>1, <3>1
  <2>2. CASE l = "lab"
    <3>1. A(l) + j = n1 + j /\ j \in 1..n2
      BY <1>3, <2>2 DEF n2
    <3>2. n1 + j \in 1..len
      BY <1>3, <1>5, <3>1
    <3> QED
      BY <1>5, <2>2, <3>1, <3>2
  <2>3. CASE l = "ungrouped"
    <3>1. A(l) + j = (n1 + n2) + j /\ j \in 1..n3
      BY <1>3, <2>3 DEF n3
    <3>2. (n1 + n2) + j \in 1..len
      BY <1>3, <1>5, <3>1
    <3> QED
      BY <1>5, <2>3, <3>1, <3>2
  <2>4. CASE l = "unreconciled"
    <3>1. A(l) + j = ((n1 + n2) + n3) + j /\ j \in 1..n4
      BY <1>3, <2>4 DEF n4
    <3>2. ((n1 + n2) + n3) + j \in 1..len
      BY <1>3, <1>5, <3>1
    <3> QED
      BY <1>5, <2>4, <3>1, <3>2
  <2> QED
    BY <2>1, <2>2, <2>3, <2>4 DEF Lab
<1>9. \A l \in Lab : A(l) \in Nat
  BY <1>3 DEF Lab
<1>10. len \in Nat
  BY <1>3, <1>5
<1> QED
  BY <1>5, <1>7, <1>8, <1>9, <1>10 DEF items, G, S, A

-----------------------------------------------------------------------------
(* Headers, and the least and the greatest of some places.                 *)

LEMMA TwoAre ==
  ASSUME NEW x \in Nat, NEW y \in Nat
  PROVE  Min({x, y}) = (IF x <= y THEN x ELSE y) /\ Max({x, y}) = (IF x >= y THEN x ELSE y)
<1>1. \A m \in {x, y} : (\A k \in {x, y} : m <= k) => m = IF x <= y THEN x ELSE y
  OBVIOUS
<1>2. \E m \in {x, y} : \A k \in {x, y} : m <= k
  <2>1. CASE x <= y
    BY <2>1
  <2>2. CASE ~(x <= y)
    BY <2>2
  <2> QED
    BY <2>1, <2>2
<1>3. \A m \in {x, y} : (\A k \in {x, y} : m >= k) => m = IF x >= y THEN x ELSE y
  OBVIOUS
<1>4. \E m \in {x, y} : \A k \in {x, y} : m >= k
  <2>1. CASE x >= y
    BY <2>1
  <2>2. CASE ~(x >= y)
    BY <2>2
  <2> QED
    BY <2>1, <2>2
<1>5. Min({x, y}) \in {x, y} /\ \A k \in {x, y} : Min({x, y}) <= k
  BY <1>2 DEF Min
<1>6. Max({x, y}) \in {x, y} /\ \A k \in {x, y} : Max({x, y}) >= k
  BY <1>4 DEF Max
<1> QED
  BY <1>1, <1>3, <1>5, <1>6

LEMMA GreatestIs ==
  ASSUME NEW n \in Nat, NEW S \in SUBSET (1..n), S # {}
  PROVE  Max(S) \in S /\ \A x \in S : x <= Max(S)
<1> DEFINE T == {n - x : x \in S}
<1>1. T \in SUBSET Nat /\ T # {}
  <2>1. ASSUME NEW x \in S PROVE n - x \in Nat
    OBVIOUS
  <2>2. PICK x \in S : TRUE
    OBVIOUS
  <2>3. n - x \in T
    BY <2>2
  <2> QED
    BY <2>1, <2>3
<1>2. PICK t \in T : \A u \in T : t =< u
  BY <1>1, Least
<1>3. PICK x \in S : t = n - x
  BY <1>2
<1>4. \A y \in S : n - x =< n - y
  BY <1>2, <1>3
<1>5. \A y \in S : x >= y
  BY <1>4
<1>6. Max(S) \in S /\ \A y \in S : Max(S) >= y
  BY <1>5 DEF Max
<1> QED
  BY <1>6

\* The first item is a header.
LEMMA HeadFirst ==
  ASSUME NEW d, NEW z, NEW a, NEW fold, 1 <= Len(NavItems(d, z, a, fold))
  PROVE  NavItems(d, z, a, fold)[1].name = 0
<1> DEFINE items == NavItems(d, z, a, fold)
           S(l) == Size(l, d, z, a, fold)
           A(l) == Ahead(l, d, z, a, fold)
<1>1. /\ Len(items) \in Nat /\ \A l \in Lab : A(l) \in Nat /\ S(l) \in Nat
      /\ \A l \in Lab : \A j \in 1..S(l) : items[A(l) + j] = GroupOf(l, d, z, a, fold)[j]
      /\ \A i \in 1..Len(items) : \E l \in Lab : \E j \in 1..S(l) : i = A(l) + j
  BY ItemsAre, GroupOfIs
<1>2. PICK l \in Lab : \E j \in 1..S(l) : 1 = A(l) + j
  BY <1>1
<1>3. A(l) = 0 /\ S(l) >= 1 /\ 1 \in 1..S(l)
  BY <1>1, <1>2
<1>4. items[1] = GroupOf(l, d, z, a, fold)[1]
  BY <1>1, <1>3
<1>5. GroupOf(l, d, z, a, fold)[1] = Header(l)
  BY <1>3, GroupOfIs
<1> QED
  BY <1>4, <1>5 DEF Header

\* Where a header is.
LEMMA HeaderAt ==
  ASSUME NEW d, NEW z, NEW a, NEW fold, NEW i \in 1..Len(NavItems(d, z, a, fold)), NavItems(d, z, a, fold)[i].name = 0
  PROVE  \E l \in Lab : /\ NavItems(d, z, a, fold)[i].label = l /\ Size(l, d, z, a, fold) >= 1
                        /\ i = Ahead(l, d, z, a, fold) + 1
<1> DEFINE items == NavItems(d, z, a, fold)
           S(l) == Size(l, d, z, a, fold)
           A(l) == Ahead(l, d, z, a, fold)
           G(l) == GroupOf(l, d, z, a, fold)
<1>1. /\ \A l \in Lab : A(l) \in Nat /\ S(l) \in Nat
      /\ \A l \in Lab : \A j \in 1..S(l) : items[A(l) + j] = G(l)[j]
      /\ \A k \in 1..Len(items) : \E l \in Lab : \E j \in 1..S(l) : k = A(l) + j
  BY ItemsAre, GroupOfIs
<1>2. \A l \in Lab : S(l) >= 1 => G(l)[1] = Header(l) /\ \A j \in 2..S(l) : G(l)[j].name # 0
  BY GroupOfIs
<1> HIDE DEF items, S, A, G
<1>3. PICK l \in Lab : \E j \in 1..S(l) : i = A(l) + j
  BY <1>1 DEF items
<1>4. PICK j \in 1..S(l) : i = A(l) + j
  BY <1>3
<1>5. items[i] = G(l)[j] /\ S(l) >= 1
  BY <1>1, <1>4
<1>6. j = 1
  <2> SUFFICES ASSUME j # 1 PROVE FALSE
    OBVIOUS
  <2>1. j \in 2..S(l)
    BY <1>1
  <2> QED
    BY <1>2, <1>5, <2>1 DEF items
<1> QED
  <2>1. items[i] = Header(l) /\ i = A(l) + 1 /\ S(l) >= 1
    BY <1>2, <1>4, <1>5, <1>6
  <2>2. items[i].label = l
    BY <2>1 DEF Header
  <2> QED
    BY <2>1, <2>2 DEF items, S, A

\* Folding or unfolding its group leaves a header where it is.
LEMMA FoldKeeps ==
  ASSUME NEW d, NEW z, NEW a, NEW fold, NEW i \in 1..Len(NavItems(d, z, a, fold)), NavItems(d, z, a, fold)[i].name = 0,
         NEW other, other \ {NavItems(d, z, a, fold)[i].label} = fold \ {NavItems(d, z, a, fold)[i].label}
  PROVE  i <= Len(NavItems(d, z, a, other))
<1>1. PICK l \in Lab : /\ NavItems(d, z, a, fold)[i].label = l /\ Size(l, d, z, a, fold) >= 1
                       /\ i = Ahead(l, d, z, a, fold) + 1
  BY HeaderAt
<1>2. Size(l, d, z, a, other) >= 1 /\ Size(l, d, z, a, other) \in Nat
  BY <1>1, GroupOfIs
<1>3. \A k \in Lab : k # l => Size(k, d, z, a, other) = Size(k, d, z, a, fold)
  <2> SUFFICES ASSUME NEW k \in Lab, k # l PROVE Size(k, d, z, a, other) = Size(k, d, z, a, fold)
    OBVIOUS
  <2>1. k \in other <=> k \in fold
    BY <1>1
  <2> QED
    BY <2>1 DEF Size, GroupOf, Group
<1>4. Ahead(l, d, z, a, other) = Ahead(l, d, z, a, fold)
  <2>1. CASE l = "clones"
    BY <2>1 DEF Ahead
  <2>2. CASE l = "lab"
    BY <1>3, <2>2 DEF Ahead, Lab
  <2>3. CASE l = "ungrouped"
    BY <1>3, <2>3 DEF Ahead, Lab
  <2>4. CASE l = "unreconciled"
    BY <1>3, <2>4 DEF Ahead, Lab
  <2> QED
    BY <2>1, <2>2, <2>3, <2>4 DEF Lab
<1>5. Ahead(l, d, z, a, other) + 1 \in 1..Len(NavItems(d, z, a, other))
  <2>1. 1 \in 1..Size(l, d, z, a, other)
    BY <1>2
  <2> QED
    BY <2>1, ItemsAre
<1>6. i = Ahead(l, d, z, a, other) + 1
  BY <1>1, <1>4
<1> QED
  BY <1>5, <1>6

\* A header that is not folded has a row under it.
LEMMA StepsIn ==
  ASSUME NEW d, NEW z, NEW a, NEW fold, NEW i \in 1..Len(NavItems(d, z, a, fold)), NavItems(d, z, a, fold)[i].name = 0,
         NavItems(d, z, a, fold)[i].label \notin fold
  PROVE  i + 1 <= Len(NavItems(d, z, a, fold))
<1>1. PICK l \in Lab : /\ NavItems(d, z, a, fold)[i].label = l /\ Size(l, d, z, a, fold) >= 1
                       /\ i = Ahead(l, d, z, a, fold) + 1
  BY HeaderAt
<1>2. Size(l, d, z, a, fold) >= 2 /\ Size(l, d, z, a, fold) \in Nat
  BY <1>1, GroupOfIs
<1>3. 2 \in 1..Size(l, d, z, a, fold)
  BY <1>2
<1>4. Ahead(l, d, z, a, fold) \in Nat /\ Ahead(l, d, z, a, fold) + 2 \in 1..Len(NavItems(d, z, a, fold))
  BY <1>3, ItemsAre
<1>5. Ahead(l, d, z, a, fold) + 2 = i + 1
  BY <1>1, <1>4
<1> QED
  BY <1>4, <1>5

-----------------------------------------------------------------------------
(* The estate: the inductive invariant.                                    *)

OnItem == cursor \in Nat /\ cursor >= 1 /\ (cursor <= Len(Items) \/ cursor = 1)

Unspent == marks \cap spent = {} /\ twice = FALSE

TuiInv == OnItem /\ Unspent

LEMMA ItemsHere == Items \in Seq(Item) /\ Len(Items) \in Nat /\ \A i \in 1..Len(Items) : Items[i].name \in Nat
<1>1. Items \in Seq(Item) /\ Len(Items) \in Nat
  BY ItemsAre DEF Items
<1>2. \A i \in 1..Len(Items) : Items[i] \in Item
  BY <1>1, ElementOfSeq
<1> QED
  BY <1>1, <1>2 DEF Item

LEMMA SameItems == ASSUME UNCHANGED <<data, folded>> PROVE Items' = Items
  BY DEF Items, data

LEMMA SameOnItem == ASSUME OnItem, UNCHANGED <<data, folded, cursor>> PROVE OnItem'
  BY SameItems DEF OnItem, data

\* What rebuild makes of the cursor.
LEMMA FollowIs ==
  ASSUME cursor \in Nat, cursor >= 1, NEW old, NEW its, Len(its) \in Nat, its = <<>> => Len(its) = 0, its # <<>> => Len(its) >= 1
  PROVE  LET to == Follow(old, its)
         IN /\ to \in Nat /\ to >= 1 /\ (to <= Len(its) \/ to = 1)
            /\ old.name # 0 =>
                 /\ (\E i \in 1..Len(its) : its[i].name = old.name) => to \in 1..Len(its) /\ its[to].name = old.name
                 /\ (\E i \in 1..Len(its) : its[i].name # 0) /\ ~(\E i \in 1..Len(its) : its[i].name = old.name)
                      => to \in 1..Len(its) /\ its[to].name # 0
<1> DEFINE same == {i \in 1..Len(its) : IF old.name = 0 THEN its[i].name = 0 /\ its[i].label = old.label
                                                       ELSE its[i].name = old.name}
           named == {i \in 1..Len(its) : its[i].name # 0}
           to == Follow(old, its)
           place == Min({cursor, Len(its)})
<1>1. same \in SUBSET Nat /\ same \subseteq 1..Len(its) /\ named \in SUBSET Nat /\ named \subseteq 1..Len(its)
  OBVIOUS
<1>2. CASE same # {}
  <2>1. to = Min(same)
    BY <1>2 DEF Follow
  <2>2. to \in same
    BY <1>1, <1>2, <2>1, LeastIs
  <2>3. to \in 1..Len(its) /\ (old.name # 0 => its[to].name = old.name)
    BY <2>2
  <2>4. old.name # 0 => \E i \in 1..Len(its) : its[i].name = old.name
    BY <2>3
  <2> HIDE DEF to
  <2> QED
    BY <2>3, <2>4 DEF to
<1>3. CASE same = {} /\ old.name # 0 /\ its # <<>>
  <2>1. to = Nearest(its, place)
    BY <1>3 DEF Follow
  <2>2. place \in 1..Len(its)
    BY <1>3, TwoAre
  <2> DEFINE after  == {i \in place..Len(its) : its[i].name # 0}
             before == {i \in 1..place : its[i].name # 0}
  <2>3. to = IF after # {} THEN Min(after) ELSE IF before # {} THEN Max(before) ELSE place
    BY <2>1 DEF Nearest
  <2> HIDE DEF place
  <2>4. after \in SUBSET Nat /\ before \in SUBSET (1..place) /\ place \in Nat
    BY <2>2
  <2>5. named = after \cup before
    BY <2>2
  <2>6. after # {} => Min(after) \in after
    BY <2>4, LeastIs
  <2>7. before # {} => Max(before) \in before
    BY <2>4, GreatestIs
  <2>8. to \in named \/ (named = {} /\ to = place)
    BY <2>3, <2>5, <2>6, <2>7
  <2>9. to \in 1..Len(its) /\ (named # {} => its[to].name # 0)
    BY <2>2, <2>8
  <2>10. ~(\E i \in 1..Len(its) : its[i].name = old.name)
    BY <1>3
  <2>11. (\E i \in 1..Len(its) : its[i].name # 0) => named # {}
    OBVIOUS
  <2> HIDE DEF to, after, before, named, same
  <2> QED
    BY <2>9, <2>10, <2>11 DEF to
<1>4. CASE same = {} /\ ~(old.name # 0 /\ its # <<>>)
  <2>1. FirstRow(its, 1) = IF named # {} THEN Min(named) ELSE 0
    BY DEF FirstRow, SelectInSeq
  <2>2. to = (IF old = Header("") /\ FirstRow(its, 1) # 0 THEN FirstRow(its, 1) ELSE 1)
    BY <1>4 DEF Follow
  <2>3. named # {} => Min(named) \in named
    BY <1>1, LeastIs
  <2>4. to = 1 \/ to \in named
    BY <2>1, <2>2, <2>3
  <2>5. to \in Nat /\ to >= 1 /\ (to <= Len(its) \/ to = 1)
    BY <1>1, <2>4
  <2>6. old.name # 0 => ~\E i \in 1..Len(its) : TRUE
    BY <1>4
  <2> HIDE DEF to, named, same
  <2> QED
    BY <2>5, <2>6 DEF to
<1> QED
  BY <1>2, <1>3, <1>4

LEMMA RebuildHolds == ASSUME OnItem, NEW d, NEW z, NEW a, Rebuild(d, z, a), UNCHANGED folded PROVE OnItem'
<1>1. cursor' = Follow(Onto, NavItems(d, z, a, folded)) /\ Items' = NavItems(d, z, a, folded)
  BY DEF Rebuild, Items
<1> DEFINE its == NavItems(d, z, a, folded)
<1>2. its \in Seq(Item) /\ Len(its) \in Nat
  BY ItemsAre
<1> HIDE DEF its
<1>3. (its = <<>> => Len(its) = 0) /\ (its # <<>> => Len(its) >= 1)
  BY <1>2, EmptySeq, LenProperties
<1>4. LET to == Follow(Onto, its) IN to \in Nat /\ to >= 1 /\ (to <= Len(its) \/ to = 1)
  BY <1>2, <1>3, FollowIs DEF OnItem
<1> QED
  BY <1>1, <1>4 DEF its, OnItem

-----------------------------------------------------------------------------
(* The estate: every step keeps the invariant.                             *)

LEMMA SameUnspent == ASSUME Unspent, UNCHANGED <<marks, spent, twice>> PROVE Unspent'
  BY DEF Unspent

LEMMA FetchHolds == ASSUME TuiInv, NEW c \in Chain, FetchEstate(c) \/ FetchZFS(c) PROVE TuiInv'
<1>1. UNCHANGED <<data, view>>
  BY DEF FetchEstate, FetchZFS
<1> QED
  BY <1>1, SameOnItem, SameUnspent DEF TuiInv, view

LEMMA ArrivesHolds == ASSUME TuiInv, NEW c \in Chain, Arrives(c) PROVE TuiInv'
<1>1. UNCHANGED <<folded, marks, spent, twice>>
  BY DEF Arrives
<1>2. OnItem'
  <2>1. CASE EstateMsg(c)
    <3>1. UNCHANGED <<doms, dss, ann, cursor>> \/ Rebuild(chain[c].got, dss, ann)
      BY <2>1 DEF EstateMsg
    <3> QED
      BY <1>1, <3>1, RebuildHolds, SameOnItem DEF TuiInv, data
  <2>2. CASE ZfsMsg(c)
    <3>1. PICK z, a : Rebuild(doms, z, a)
      BY <2>2 DEF ZfsMsg
    <3> QED
      BY <1>1, <3>1, RebuildHolds DEF TuiInv
  <2> QED
    BY <2>1, <2>2 DEF Arrives
<1> QED
  BY <1>1, <1>2, SameUnspent DEF TuiInv

LEMMA RefreshHolds == ASSUME TuiInv, Refresh PROVE TuiInv'
  BY SameOnItem, SameUnspent DEF TuiInv, Refresh, view

\* Keys that look: the marks stay.
LEMMA MoveHolds == ASSUME TuiInv, Move PROVE TuiInv'
<1>1. UNCHANGED <<data, folded, chain, marks, spent, twice>>
  BY DEF Move, Looks, Pressed, work, SameMarks
<1> DEFINE n == Len(Items)
<1>2. cursor' \in {1, Max({1, cursor - 1}), Max({1, Min({n, cursor + 1})}), Max({1, n})}
  BY DEF Move
<1>3. n \in Nat /\ cursor \in Nat /\ cursor >= 1 /\ (cursor <= n \/ cursor = 1)
  BY ItemsHere DEF TuiInv, OnItem
<1> HIDE DEF n
<1>4. Min({n, cursor + 1}) = (IF n <= cursor + 1 THEN n ELSE cursor + 1) /\ Min({n, cursor + 1}) \in Nat
  BY <1>3, TwoAre
<1>5. /\ Max({1, cursor - 1}) = (IF 1 >= cursor - 1 THEN 1 ELSE cursor - 1)
      /\ Max({1, n}) = (IF 1 >= n THEN 1 ELSE n)
      /\ Max({1, Min({n, cursor + 1})}) = (IF 1 >= Min({n, cursor + 1}) THEN 1 ELSE Min({n, cursor + 1}))
  <2>1. 1 \in Nat /\ cursor - 1 \in Nat
    BY <1>3
  <2> QED
    BY <1>3, <1>4, <2>1, TwoAre
<1>6. cursor' \in Nat /\ cursor' >= 1 /\ (cursor' <= n \/ cursor' = 1)
  BY <1>2, <1>3, <1>4, <1>5
<1>7. OnItem'
  BY <1>1, <1>6, SameItems DEF OnItem, n
<1> QED
  BY <1>1, <1>7, SameUnspent DEF TuiInv

\* The cursor on an item, and a group folded.
LEMMA FoldOnItem ==
  ASSUME NEW i \in 1..Len(Items), Items[i].name = 0, UNCHANGED data, cursor' = i,
         folded' \ {Items[i].label} = folded \ {Items[i].label}
  PROVE  OnItem'
<1>1. Items' = NavItems(doms, dss, ann, folded')
  BY DEF Items, data
<1>2. i <= Len(Items')
  BY <1>1, FoldKeeps DEF Items
<1> QED
  BY <1>2, ItemsHere DEF OnItem

LEMMA ChosenOnItem == ASSUME NEW i \in 1..Len(Items), UNCHANGED <<data, folded>>, cursor' = i PROVE OnItem'
  BY SameItems, ItemsHere DEF OnItem

LEMMA ClickHolds == ASSUME TuiInv, NEW i \in 1..Len(Items), Click(i) PROVE TuiInv'
<1>1. UNCHANGED <<data, chain, marks, spent, twice>> /\ cursor' = i
  BY DEF Click, Looks, Pressed, work, SameMarks
<1>2. OnItem'
  <2>1. CASE Items[i].name = 0
    <3>1. folded' \ {Items[i].label} = folded \ {Items[i].label}
      BY <2>1 DEF Click, Toggle
    <3> QED
      BY <1>1, <2>1, <3>1, FoldOnItem
  <2>2. CASE Items[i].name # 0
    BY <1>1, <2>2, ChosenOnItem DEF Click
  <2> QED
    BY <2>1, <2>2
<1> QED
  BY <1>1, <1>2, SameUnspent DEF TuiInv

LEMMA OntoIs ==
  ASSUME TuiInv, cursor <= Len(Items)
  PROVE  cursor \in 1..Len(Items) /\ Onto = Items[cursor] /\ CurRow = Items[cursor].name
  BY ItemsHere DEF TuiInv, OnItem, Onto, CurRow

LEMMA LeftHolds == ASSUME TuiInv, Left PROVE TuiInv'
<1>1. UNCHANGED <<data, chain, marks, spent, twice>> /\ cursor <= Len(Items)
  BY DEF Left, Looks, Pressed, work, SameMarks
<1>2. cursor \in 1..Len(Items) /\ Onto = Items[cursor] /\ CurRow = Items[cursor].name
  BY <1>1, OntoIs
<1>3. OnItem'
  <2>1. CASE CurRow = 0
    <3>1. folded' \ {Items[cursor].label} = folded \ {Items[cursor].label} /\ cursor' = cursor
      BY <1>2, <2>1 DEF Left
    <3> QED
      BY <1>1, <1>2, <2>1, <3>1, FoldOnItem
  <2>2. CASE CurRow # 0
    <3> DEFINE heads == {i \in 1..cursor : Items[i].name = 0}
    <3>1. cursor' = Max(heads) /\ folded' = folded
      BY <2>2 DEF Left
    <3>2. 1 <= Len(Items) /\ cursor \in Nat /\ Len(Items) \in Nat /\ 1 <= cursor
      BY <1>2, ItemsHere
    <3>3. Items[1].name = 0
      BY <3>2, HeadFirst DEF Items
    <3>4. heads \in SUBSET (1..cursor) /\ 1 \in heads
      BY <3>2, <3>3
    <3>5. Max(heads) \in heads
      BY <3>2, <3>4, GreatestIs
    <3>6. Max(heads) \in 1..cursor
      BY <3>4, <3>5
    <3> HIDE DEF heads
    <3>7. Max(heads) \in 1..Len(Items)
      BY <1>2, <3>2, <3>6
    <3> QED
      BY <1>1, <3>1, <3>7, ChosenOnItem
  <2> QED
    BY <2>1, <2>2
<1> QED
  BY <1>1, <1>3, SameUnspent DEF TuiInv

LEMMA RightHolds == ASSUME TuiInv, Right PROVE TuiInv'
<1>1. UNCHANGED <<data, chain, marks, spent, twice>> /\ cursor <= Len(Items)
  BY DEF Right, Looks, Pressed, work, SameMarks
<1>2. cursor \in 1..Len(Items) /\ Onto = Items[cursor] /\ CurRow = Items[cursor].name
  BY <1>1, OntoIs
<1>3. OnItem'
  <2>1. CASE CurRow # 0
    BY <1>1, <2>1, SameOnItem DEF TuiInv, Right
  <2>2. CASE CurRow = 0 /\ Onto.label \in folded
    <3>1. folded' \ {Items[cursor].label} = folded \ {Items[cursor].label} /\ cursor' = cursor
      BY <1>2, <2>2 DEF Right
    <3> QED
      BY <1>1, <1>2, <2>2, <3>1, FoldOnItem
  <2>3. CASE CurRow = 0 /\ Onto.label \notin folded
    <3>1. cursor' = cursor + 1 /\ folded' = folded
      BY <2>3 DEF Right
    <3>2. cursor + 1 <= Len(Items)
      BY <1>2, <2>3, StepsIn DEF Items
    <3>3. cursor + 1 \in 1..Len(Items)
      BY <1>2, <3>2, ItemsHere
    <3> QED
      BY <1>1, <3>1, <3>3, ChosenOnItem
  <2> QED
    BY <2>1, <2>2, <2>3
<1> QED
  BY <1>1, <1>3, SameUnspent DEF TuiInv

LEMMA SpaceHolds == ASSUME TuiInv, Space PROVE TuiInv'
<1>1. UNCHANGED <<data, chain, folded, twice>> /\ cursor <= Len(Items)
  BY DEF Space, Looks, Pressed, work
<1>2. Unspent'
  <2>1. PICK ns : marks' = (IF ns \subseteq marks THEN marks \ ns ELSE marks \cup ns) /\ spent' = spent \ ns
    BY DEF Space
  <2> QED
    BY <1>1, <2>1 DEF TuiInv, Unspent
<1>3. cursor' \in 1..Len(Items)
  <2>1. cursor \in 1..Len(Items) /\ Len(Items) \in Nat
    BY <1>1, OntoIs, ItemsHere
  <2>2. Min({Len(Items), cursor + 1}) = IF Len(Items) <= cursor + 1 THEN Len(Items) ELSE cursor + 1
    BY <2>1, TwoAre
  <2>3. cursor' = IF CurRow # 0 THEN Min({Len(Items), cursor + 1}) ELSE cursor
    BY DEF Space
  <2> QED
    BY <2>1, <2>2, <2>3
<1>4. OnItem'
  BY <1>1, <1>3, ChosenOnItem
<1> QED
  BY <1>1, <1>2, <1>4 DEF TuiInv

\* Keys that leave the cursor and the groups alone.
LEMMA StillHolds == ASSUME TuiInv, UNCHANGED <<data, folded, cursor, chain>>, Unspent' PROVE TuiInv'
  BY SameOnItem DEF TuiInv

LEMMA EscHolds == ASSUME TuiInv, Esc PROVE TuiInv'
<1>1. Unspent'
  BY DEF TuiInv, Unspent, Esc
<1> QED
  BY <1>1, StillHolds DEF Esc, Looks, Pressed, work

LEMMA OverlayHolds ==
  ASSUME TuiInv, CloseOverlay \/ Rollback \/ Exec \/ KeyFactory \/ (\E o : Open(o)) \/ (\E k : Ask(k)) \/ (\E new : Enter(new))
  PROVE  TuiInv'
<1>1. UNCHANGED <<data, folded, cursor, chain, marks, spent, twice>>
  BY DEF CloseOverlay, Rollback, Exec, KeyFactory, HandOver, Open, Ask, Enter, Looks, Pressed, work, SameMarks
<1> QED
  BY <1>1, StillHolds, SameUnspent DEF TuiInv

LEMMA RunOnTargetsHolds == ASSUME TuiInv, NEW v, RunOnTargets(v) PROVE TuiInv'
<1>1. UNCHANGED <<data, folded, cursor, chain>>
  BY DEF RunOnTargets, Pressed
<1>2. Unspent'
  <2>1. CASE CurRow = 0
    BY <2>1, SameUnspent DEF TuiInv, RunOnTargets, SameMarks
  <2>2. CASE CurRow # 0 /\ \E i \in 1..Len(Targets) : Refused(v, Targets[i])
    <3>1. marks' \in {{}, marks} /\ UNCHANGED <<spent, twice>>
      BY <2>2 DEF RunOnTargets
    <3> QED
      BY <3>1 DEF TuiInv, Unspent
  <2>3. CASE CurRow # 0 /\ ~\E i \in 1..Len(Targets) : Refused(v, Targets[i])
    <3> DEFINE taken == ToSet(Targets) \cap marks
    <3>1. marks' = {} /\ twice' = (twice \/ taken \cap spent # {})
      BY <2>3 DEF RunOnTargets, Spend
    <3>2. taken \subseteq marks
      OBVIOUS
    <3> HIDE DEF taken
    <3>3. taken \cap spent = {}
      BY <3>2 DEF TuiInv, Unspent
    <3>4. twice' = FALSE
      BY <3>1, <3>3 DEF TuiInv, Unspent
    <3> QED
      BY <3>1, <3>4 DEF Unspent
  <2> QED
    BY <2>1, <2>2, <2>3
<1> QED
  BY <1>1, <1>2, StillHolds

LEMMA OutsideHolds ==
  ASSUME TuiInv, (\E b \in Batch : RunPlan(b)) \/ (\E n \in Name : Others(n)) \/ UNCHANGED vars
  PROVE  TuiInv'
<1>1. UNCHANGED <<data, folded, cursor, chain, marks, spent, twice>>
  BY DEF RunPlan, Others, vars, view, work
<1> QED
  BY <1>1, StillHolds, SameUnspent DEF TuiInv

LEMMA TuiInit == Init => TuiInv
<1> SUFFICES ASSUME Init PROVE TuiInv
  OBVIOUS
<1>1. OnItem /\ Unspent
  <2>1. cursor = 1 /\ marks = {} /\ twice = FALSE
    BY DEF Init
  <2> QED
    BY <2>1 DEF OnItem, Unspent
<1> QED
  BY <1>1 DEF TuiInv

LEMMA TuiNext == TuiInv /\ [TerminalsNext]_all => TuiInv'
<1> SUFFICES ASSUME TuiInv, [TerminalsNext]_all PROVE TuiInv'
  OBVIOUS
<1>1. CASE part = "estate" /\ Next
  <2>1. ASSUME NEW c \in Chain, FetchEstate(c) \/ FetchZFS(c) \/ Arrives(c) PROVE TuiInv'
    BY <2>1, FetchHolds, ArrivesHolds
  <2>2. CASE Refresh
    BY <2>2, RefreshHolds
  <2>3. CASE Key
    <3>1. CASE Move \/ Left \/ Right \/ Space \/ Esc
      BY <3>1, MoveHolds, LeftHolds, RightHolds, SpaceHolds, EscHolds
    <3>2. CASE CloseOverlay \/ Rollback \/ Exec \/ KeyFactory \/ (\E o : Open(o)) \/ (\E k : Ask(k)) \/ (\E new : Enter(new))
      BY <3>2, OverlayHolds
    <3>3. ASSUME NEW i \in 1..Len(Items), Click(i) PROVE TuiInv'
      BY <3>3, ClickHolds
    <3>4. ASSUME NEW v \in {"u", "D"}, RunOnTargets(v) PROVE TuiInv'
      BY <3>4, RunOnTargetsHolds
    <3> QED
      BY <2>3, <3>1, <3>2, <3>3, <3>4 DEF Key
  <2>4. CASE (\E b \in Batch : RunPlan(b)) \/ (\E n \in Name : Others(n))
    BY <2>4, OutsideHolds
  <2> QED
    BY <1>1, <2>1, <2>2, <2>3, <2>4 DEF Next
<1>2. CASE UNCHANGED vars
  BY <1>2, OutsideHolds
<1> QED
  BY <1>1, <1>2 DEF TerminalsNext, all

LEMMA TuiAlways == TerminalsSpec => []TuiInv
<1>1. TerminalsInit => TuiInv
  BY TuiInit DEF TerminalsInit
<1> QED
  BY <1>1, TuiNext, PTL DEF TerminalsSpec

LEMMA EstateHolds == ASSUME TuiInv PROVE SpentOnce
<1>1. CursorInRange
  <2>1. Max({1, Len(Items)}) = IF 1 >= Len(Items) THEN 1 ELSE Len(Items)
    BY ItemsHere, TwoAre
  <2> QED
    BY <2>1, ItemsHere DEF TuiInv, OnItem, CursorInRange
<1> QED
  BY <1>1 DEF TuiInv, Unspent, SpentOnce

\* A refresh of the estate leaves the cursor on its machine while that is shown, in
\* whatever group it is by now, and on some machine when it is gone (rebuild).
THEOREM EstateKeepsName == TerminalsSpec => CursorKeepsName
<1> DEFINE Kept == data' # data /\ CurRow # 0 =>
                     IF Shown(Items', CurRow) THEN CurRow' = CurRow
                     ELSE (\E n \in Name : Shown(Items', n)) => CurRow' # 0
<1>1. ASSUME TuiInv, NEW d, NEW z, NEW a, Rebuild(d, z, a), UNCHANGED folded PROVE Kept
  <2> SUFFICES ASSUME CurRow # 0
               PROVE  IF Shown(Items', CurRow) THEN CurRow' = CurRow
                      ELSE (\E n \in Name : Shown(Items', n)) => CurRow' # 0
    OBVIOUS
  <2> DEFINE its == NavItems(d, z, a, folded)
  <2>1. cursor' = Follow(Onto, its) /\ Items' = its
    BY <1>1 DEF Rebuild, Items
  <2>2. its \in Seq(Item) /\ Len(its) \in Nat
    BY ItemsAre
  <2> HIDE DEF its
  <2>3. (its = <<>> => Len(its) = 0) /\ (its # <<>> => Len(its) >= 1)
    BY <2>2, EmptySeq, LenProperties
  <2>4. Onto.name # 0 /\ CurRow = Onto.name
    BY DEF CurRow
  <2>5. /\ (\E i \in 1..Len(its) : its[i].name = Onto.name) => cursor' \in 1..Len(its) /\ its[cursor'].name = Onto.name
        /\ (\E i \in 1..Len(its) : its[i].name # 0) /\ ~(\E i \in 1..Len(its) : its[i].name = Onto.name)
             => cursor' \in 1..Len(its) /\ its[cursor'].name # 0
    <3> DEFINE to == Follow(Onto, its)
    <3>1. to = cursor'
      BY <2>1
    <3>2. /\ (\E i \in 1..Len(its) : its[i].name = Onto.name) => to \in 1..Len(its) /\ its[to].name = Onto.name
          /\ (\E i \in 1..Len(its) : its[i].name # 0) /\ ~(\E i \in 1..Len(its) : its[i].name = Onto.name)
               => to \in 1..Len(its) /\ its[to].name # 0
      BY <1>1, <2>2, <2>3, <2>4, FollowIs DEF TuiInv, OnItem
    <3> QED
      BY <3>1, <3>2
  <2>6. CurRow' = (IF cursor' <= Len(its) THEN its[cursor'] ELSE Header("")).name
    BY <2>1 DEF CurRow, Onto
  <2>7. cursor' \in 1..Len(its) => CurRow' = its[cursor'].name
    BY <2>2, <2>6
  <2>8. \A n \in Name : n # 0
    BY TerminalsAssumption DEF Name, TuiAssumption
  <2>9. \A n : Shown(Items', n) <=> \E i \in 1..Len(its) : its[i].name = n
    BY <2>1 DEF Shown
  <2> QED
    BY <2>4, <2>5, <2>7, <2>8, <2>9
<1>2. ASSUME TuiInv, [TerminalsNext]_all, data' # data PROVE \E d, z, a : Rebuild(d, z, a) /\ UNCHANGED folded
  <2>1. Next
    BY <1>2 DEF TerminalsNext, all, vars, data
  <2>2. ASSUME NEW c \in Chain, Arrives(c) PROVE \E d, z, a : Rebuild(d, z, a) /\ UNCHANGED folded
    BY <1>2, <2>2 DEF Arrives, EstateMsg, ZfsMsg, data
  <2>3. ASSUME NEW c \in Chain, FetchEstate(c) \/ FetchZFS(c) PROVE data' = data
    BY <2>3 DEF FetchEstate, FetchZFS
  <2>4. ASSUME Key PROVE data' = data
    BY <2>4 DEF Key, Move, Left, Right, Space, Esc, CloseOverlay, Rollback, Exec, KeyFactory, HandOver, Click, Open,
                RunOnTargets, Ask, Enter, Looks, Pressed
  <2>5. ASSUME (\E b \in Batch : RunPlan(b)) \/ (\E n \in Name : Others(n)) \/ Refresh PROVE data' = data
    BY <2>5 DEF RunPlan, Others, Refresh
  <2> QED
    BY <1>2, <2>1, <2>2, <2>3, <2>4, <2>5 DEF Next
<1>3. TuiInv /\ [TerminalsNext]_all => [Kept]_vars
  <2> SUFFICES ASSUME TuiInv, [TerminalsNext]_all PROVE Kept
    OBVIOUS
  <2>1. CASE data' # data
    <3>1. PICK d, z, a : Rebuild(d, z, a) /\ UNCHANGED folded
      BY <1>2, <2>1
    <3> HIDE DEF Kept
    <3> QED
      BY <1>1, <3>1
  <2>2. CASE data' = data
    BY <2>2
  <2> QED
    BY <2>1, <2>2
<1> QED
  BY <1>3, TuiAlways, PTL DEF TerminalsSpec, CursorKeepsName

-----------------------------------------------------------------------------
(* The form: the inductive invariant.                                      *)

Secret  == Typed \cup {None}
Pool    == {"standard", "encrypted", "secureboot", "both"}
FormRec == [security : Pool \cup {None}, disk : (DOMAIN Devices) \cup {None}, password : Secret, passph : Secret,
            err : BOOLEAN, rc : {0, 1}]

FormTypes ==
  /\ step \in Form!FormSteps \cup {"quit", "reboot"} /\ at \in Nat
  /\ form \in FormRec /\ told \in BOOLEAN /\ dryrun \in BOOLEAN
  /\ secrets \in [password : Secret \X Secret, passphrase : Secret \X Secret]
  /\ disks \in Seq(DOMAIN Devices) /\ (told => \A i \in 1..Len(disks) : Devices[disks[i]] = "disk")

\* What the answers so far are, by the step that is asked.
Listing == step \in {"disk", "hostname", "username", "password", "password2", "passphrase", "passphrase2", "summary"}

Chosen ==
  /\ Listing => disks # <<>>
  /\ Listing /\ step # "disk" => form.disk \in DOMAIN Devices /\ (told => Devices[form.disk] = "disk")

Twice(v, n, pair) == v \in Typed /\ Length[v] >= n /\ pair = <<v, v>>
Once(v, n, pair)  == v \in Typed /\ Length[v] >= n /\ pair = <<v, None>>

Entered ==
  /\ step = "password2" => Once(form.password, 4, secrets.password)
  /\ step \in {"passphrase", "passphrase2", "summary"} => Twice(form.password, 4, secrets.password)
  /\ step \in {"passphrase", "passphrase2"} => Form!Encrypts
  /\ step = "passphrase2" => Once(form.passph, 8, secrets.passphrase)
  /\ step = "summary" /\ Form!Encrypts => Twice(form.passph, 8, secrets.passphrase)

Ending ==
  /\ step \in {"summary", "running"} => ~form.err
  /\ step \notin {"done", "quit", "reboot"} => form.rc = 0 /\ ran = "none"
  /\ step = "running" => left \in {"refused", "over", "exec"} /\ (left = "over" => dryrun)
  /\ step = "done" => (form.err <=> form.rc = 1) /\ (~dryrun => (form.rc = 0 <=> ran = "ok"))
  /\ step = "reboot" => ran = "ok"

Written == (step \notin {"running", "done", "quit", "reboot"} => file.st # "whole") /\ Form!AnswersAsTyped

FormInv == FormTypes /\ Form!CursorOnChoice /\ Chosen /\ Entered /\ Ending /\ Written

-----------------------------------------------------------------------------
(* The form: the disks that are listed, and what an answer changes.        *)

LEMMA FormConstants ==
  /\ Devices \in Seq({"disk", "live", "zvol", "zram"}) /\ DOMAIN Devices \in SUBSET Nat /\ IsFiniteSet(DOMAIN Devices)
  /\ Length \in [Typed -> Nat] /\ None \notin Typed
<1>1. Form!InstallAssumption
  BY TerminalsAssumption
<1>2. Devices \in Seq({"disk", "live", "zvol", "zram"}) /\ Length \in [Typed -> Nat] /\ None \notin Typed
  BY <1>1 DEF Form!InstallAssumption
<1>3. Len(Devices) \in Nat /\ DOMAIN Devices = 1..Len(Devices)
  BY <1>2, LenProperties
<1>4. IsFiniteSet(1..Len(Devices))
  BY <1>3, FS_Interval
<1> QED
  BY <1>2, <1>3, <1>4

LEMMA FormNthIs == ASSUME NEW S, NEW i PROVE Form!Nth(S, i) = Nth(S, i) /\ Form!Cardinality(S) = Cardinality(S)
<1>1. \A T : Form!Cardinality(T) = Cardinality(T)
  BY DEF Form!Cardinality, Cardinality
<1> QED
  BY <1>1 DEF Form!Nth, Nth

LEMMA ListedAre ==
  ASSUME NEW live
  PROVE  /\ Form!Listed(live) \in Seq(DOMAIN Devices)
         /\ live => \A i \in 1..Len(Form!Listed(live)) : Devices[Form!Listed(live)[i]] = "disk"
<1> DEFINE offered == {i \in DOMAIN Devices : Devices[i] \in IF live THEN {"disk"} ELSE {"disk", "live"}}
           n == Cardinality(offered)
<1>1. offered \in SUBSET Nat /\ IsFiniteSet(offered) /\ n \in Nat
  <2>1. offered \in SUBSET DOMAIN Devices
    OBVIOUS
  <2> HIDE DEF offered
  <2> QED
    BY <2>1, FormConstants, FS_Subset, FS_CardinalityType
<1>2. Form!Listed(live) = [i \in 1..n |-> Nth(offered, i)]
  BY FormNthIs DEF Form!Listed
<1>3. \A i \in 1..n : Nth(offered, i) \in offered
  <2> HIDE DEF offered
  <2> QED
    BY <1>1, NthIsIn
<1>4. \A x \in offered : x \in DOMAIN Devices /\ (live => Devices[x] = "disk")
  OBVIOUS
<1> HIDE DEF offered, n
<1>5. Form!Listed(live) \in Seq(DOMAIN Devices) /\ Len(Form!Listed(live)) = n
  <2> DEFINE D == DOMAIN Devices
             Place(i) == Nth(offered, i)
  <2>1. \A i \in 1..n : Place(i) \in D
    BY <1>3, <1>4
  <2> HIDE DEF D, Place
  <2>2. [i \in 1..n |-> Place(i)] \in Seq(D) /\ Len([i \in 1..n |-> Place(i)]) = n
    BY <1>1, <2>1
  <2> QED
    BY <1>2, <2>2 DEF D, Place
<1> QED
  BY <1>2, <1>3, <1>4, <1>5

LEMMA SameForm == ASSUME FormInv, UNCHANGED formVars PROVE FormInv'
  BY DEF FormInv, formVars, FormTypes, Form!CursorOnChoice, Form!Count, Chosen, Listing, Entered, Form!Encrypts,
         Ending, Written, Form!AnswersAsTyped

\* While nothing is written, the answers need not be told from what was typed.
LEMMA NothingWritten == ASSUME FormInv, step \notin {"running", "done", "quit", "reboot"}, file' = file PROVE Written'
  BY DEF FormInv, Written, Form!AnswersAsTyped

LEMMA SameEntered == ASSUME NEW f, f \in FormRec PROVE [f EXCEPT !.err = FALSE] \in FormRec /\ [f EXCEPT !.err = TRUE] \in FormRec
  BY DEF FormRec

LEMMA FormMoveHolds == ASSUME FormInv, Form!Move PROVE FormInv'
<1>1. UNCHANGED <<step, form, disks, told, dryrun, left, file, ran, secrets>>
  BY DEF Form!Move
<1>2. at \in Nat /\ ((at' = at + 1 /\ at < Form!Count - 1) \/ (at' = at - 1 /\ at > 0))
  <2>1. (at' = at + 1 /\ at < Form!Count - 1) \/ (at' = at - 1 /\ at > 0)
    BY DEF Form!Move
  <2> QED
    BY <2>1 DEF FormInv, FormTypes
<1>3. Form!Count' = Form!Count
  BY <1>1 DEF Form!Count
<1>4. Form!Count \in Nat
  <2>1. Len(disks) \in Nat /\ Len(Form!Securities) = 4
    BY LenProperties DEF FormInv, FormTypes, Form!Securities
  <2> QED
    BY <2>1 DEF Form!Count
<1>5. at' \in Nat /\ (Form!CursorOnChoice)'
  BY <1>2, <1>3, <1>4 DEF FormInv, Form!CursorOnChoice
<1> QED
  BY <1>1, <1>5 DEF FormInv, FormTypes, Chosen, Listing, Entered, Form!Encrypts, Ending, Written, Form!AnswersAsTyped

\* The cursor at the top of a list is on a choice.
LEMMA TopHolds == ASSUME at' = 0 PROVE (Form!CursorOnChoice)'
  BY DEF Form!CursorOnChoice

\* A step without a list has no choice to be on.
LEMMA NoListHolds ==
  ASSUME step' \notin {"menu", "profile", "distro", "security", "disk"}
  PROVE  (Form!CursorOnChoice)'
  BY DEF Form!CursorOnChoice, Form!Count

LEMMA FormEscHolds == ASSUME FormInv, Form!Esc PROVE FormInv'
<1>1. /\ step \in Form!FormSteps \ {"menu", "running", "done"} /\ step' = Form!Prev /\ at' = 0
      /\ form' = [form EXCEPT !.err = FALSE] /\ UNCHANGED <<disks, told, dryrun, left, file, ran, secrets>>
  BY DEF Form!Esc
<1>2. form \in FormRec
  BY DEF FormInv, FormTypes
<1>3. /\ form' \in FormRec /\ form'.security = form.security /\ form'.disk = form.disk /\ form'.password = form.password
      /\ form'.passph = form.passph /\ form'.rc = form.rc /\ form'.err = FALSE
  BY <1>1, <1>2, SameEntered DEF FormRec
<1>4. (Form!Encrypts)' = Form!Encrypts
  BY <1>3 DEF Form!Encrypts
<1>5. step' \in {"menu", "profile", "distro", "security", "disk", "hostname", "username", "password", "passphrase"}
  BY <1>1 DEF Form!FormSteps, Form!Prev
<1>6. FormTypes'
  BY <1>1, <1>3, <1>5 DEF FormInv, FormTypes, Form!FormSteps
<1>7. Chosen'
  <2>1. Listing' => Listing /\ (step' # "disk" => step # "disk")
    BY <1>1, <1>5 DEF Listing, Form!FormSteps, Form!Prev
  <2> QED
    BY <1>1, <1>3, <2>1 DEF FormInv, Chosen
<1>8. Entered'
  <2>1. step' # "password2" /\ step' # "passphrase2" /\ step' # "summary"
    BY <1>5
  <2>2. step' = "passphrase" => step \in {"summary", "passphrase2"} /\ (step = "summary" => Form!Encrypts)
    BY <1>1 DEF Form!Prev, Form!FormSteps
  <2>3. step' = "passphrase" => Twice(form.password, 4, secrets.password) /\ Form!Encrypts
    BY <2>2 DEF FormInv, Entered
  <2> QED
    BY <1>1, <1>3, <1>4, <2>1, <2>3 DEF Entered
<1>9. Ending'
  BY <1>1, <1>3, <1>5 DEF FormInv, Ending, Form!FormSteps
<1>10. Written'
  BY <1>1, NothingWritten DEF Form!FormSteps
<1> QED
  BY <1>1, <1>6, <1>7, <1>8, <1>9, <1>10, TopHolds DEF FormInv

\* A list is left for the next step, without an answer that counts.
LEMMA PassesHolds ==
  ASSUME FormInv, UNCHANGED <<form, disks, told, dryrun, left, file, ran, secrets>>, at' = 0,
         step \in {"menu", "profile", "distro"}, step' \in {"profile", "distro", "security"}
  PROVE  FormInv'
<1>1. FormTypes'
  BY DEF FormInv, FormTypes, Form!FormSteps
<1>2. Chosen' /\ Entered' /\ Ending'
  BY DEF FormInv, Chosen, Listing, Entered, Ending
<1> QED
  BY <1>1, <1>2, NothingWritten, TopHolds DEF FormInv

LEMMA SecurityHolds ==
  ASSUME FormInv, step = "security", Form!Pick
  PROVE  FormInv'
<1>1. /\ at' = 0 /\ step' = (IF disks = <<>> THEN "security" ELSE "disk")
      /\ form' = [form EXCEPT !.security = Form!Securities[at + 1], !.err = @ \/ disks = <<>>]
      /\ UNCHANGED <<disks, told, dryrun, left, file, ran, secrets>>
  BY DEF Form!Pick
<1>2. at \in 0..3
  <2>1. Form!Count = 4
    BY DEF Form!Count, Form!Securities
  <2> QED
    BY <2>1 DEF FormInv, FormTypes, Form!CursorOnChoice
<1>3. Form!Securities[at + 1] \in Pool
  <2>1. CASE at = 0
    BY <2>1 DEF Form!Securities, Pool
  <2>2. CASE at = 1
    BY <2>2 DEF Form!Securities, Pool
  <2>3. CASE at = 2
    BY <2>3 DEF Form!Securities, Pool
  <2>4. CASE at = 3
    BY <2>4 DEF Form!Securities, Pool
  <2> QED
    BY <1>2, <2>1, <2>2, <2>3, <2>4
<1>4. form' \in FormRec /\ form'.rc = form.rc
  <2> DEFINE pool == Form!Securities[at + 1]
             flag == form.err \/ disks = <<>>
  <2>1. form \in FormRec /\ form' = [form EXCEPT !.security = pool, !.err = flag]
    BY <1>1 DEF FormInv, FormTypes
  <2>2. pool \in Pool /\ flag \in BOOLEAN
    BY <1>3, <2>1 DEF FormRec
  <2> HIDE DEF pool, flag
  <2> QED
    BY <2>1, <2>2 DEF FormRec
<1>5. FormTypes'
  BY <1>1, <1>4 DEF FormInv, FormTypes, Form!FormSteps
<1>6. Chosen' /\ Entered' /\ Ending'
  BY <1>1, <1>4 DEF FormInv, Chosen, Listing, Entered, Ending
<1> QED
  BY <1>1, <1>5, <1>6, NothingWritten, TopHolds DEF FormInv

LEMMA DiskHolds ==
  ASSUME FormInv, step = "disk", Form!Pick
  PROVE  FormInv'
<1>1. /\ step' = "hostname" /\ form' = [form EXCEPT !.disk = disks[at + 1]] /\ at' = at
      /\ UNCHANGED <<disks, told, dryrun, left, file, ran, secrets>>
  BY DEF Form!Pick
<1>2. Len(disks) \in Nat /\ disks # <<>> /\ at \in Nat
  BY LenProperties DEF FormInv, FormTypes, Chosen, Listing
<1>3. Len(disks) # 0
  BY <1>2, EmptySeq DEF FormInv, FormTypes
<1>4. Form!Count = Len(disks)
  BY DEF Form!Count
<1>5. at + 1 \in 1..Len(disks)
  BY <1>2, <1>3, <1>4 DEF FormInv, Form!CursorOnChoice
<1>6. disks[at + 1] \in DOMAIN Devices /\ (told => Devices[disks[at + 1]] = "disk")
  BY <1>5, ElementOfSeq DEF FormInv, FormTypes
<1>7. form' \in FormRec /\ form'.disk = disks[at + 1] /\ form'.rc = form.rc
  <2> DEFINE d == disks[at + 1]
  <2>1. form \in FormRec /\ form' = [form EXCEPT !.disk = d] /\ d \in DOMAIN Devices
    BY <1>1, <1>6 DEF FormInv, FormTypes
  <2> HIDE DEF d
  <2>2. form' \in FormRec /\ form'.disk = d /\ form'.rc = form.rc
    BY <2>1 DEF FormRec
  <2> QED
    BY <2>2 DEF d
<1>8. FormTypes'
  BY <1>1, <1>7 DEF FormInv, FormTypes, Form!FormSteps
<1>9. Chosen' /\ Entered' /\ Ending'
  BY <1>1, <1>2, <1>6, <1>7 DEF FormInv, Chosen, Listing, Entered, Ending
<1> QED
  BY <1>1, <1>8, <1>9, NothingWritten, NoListHolds DEF FormInv

LEMMA PickHolds == ASSUME FormInv, Form!Pick PROVE FormInv'
<1>1. CASE step = "security"
  BY <1>1, SecurityHolds
<1>2. CASE step = "disk"
  BY <1>2, DiskHolds
<1>3. CASE step \notin {"security", "disk"}
  BY <1>3, PassesHolds DEF Form!Pick
<1> QED
  BY <1>1, <1>2, <1>3

LEMMA NameHolds == ASSUME FormInv, NEW ok, Form!Name(ok) PROVE FormInv'
<1>1. /\ step \in {"hostname", "username"} /\ UNCHANGED <<at, disks, told, dryrun, left, file, ran, secrets>>
      /\ \/ step' \in {"username", "password"} /\ form' = form
         \/ step' = step /\ form' = [form EXCEPT !.err = TRUE]
  BY DEF Form!Name
<1>2. form' \in FormRec /\ form'.disk = form.disk /\ form'.rc = form.rc
  <2>1. form \in FormRec
    BY DEF FormInv, FormTypes
  <2> QED
    BY <1>1, <2>1, SameEntered DEF FormRec
<1>3. step' \in {"hostname", "username", "password"}
  BY <1>1
<1>4. FormTypes'
  BY <1>1, <1>2, <1>3 DEF FormInv, FormTypes, Form!FormSteps
<1>5. Chosen' /\ Entered' /\ Ending'
  BY <1>1, <1>2, <1>3 DEF FormInv, Chosen, Listing, Entered, Ending
<1> QED
  BY <1>1, <1>3, <1>4, <1>5, NothingWritten, NoListHolds DEF FormInv

\* What is typed for a secret, first and again, in the records.
LEMMA PairIs ==
  ASSUME FormTypes, NEW v \in Typed
  PROVE  /\ [secrets EXCEPT !.password = <<v, None>>] \in [password : Secret \X Secret, passphrase : Secret \X Secret]
         /\ [secrets EXCEPT !.passphrase = <<v, None>>] \in [password : Secret \X Secret, passphrase : Secret \X Secret]
         /\ [secrets EXCEPT !.password[2] = v] = [secrets EXCEPT !.password = <<secrets.password[1], v>>]
         /\ [secrets EXCEPT !.passphrase[2] = v] = [secrets EXCEPT !.passphrase = <<secrets.passphrase[1], v>>]
         /\ [secrets EXCEPT !.password = <<secrets.password[1], v>>] \in [password : Secret \X Secret, passphrase : Secret \X Secret]
         /\ [secrets EXCEPT !.passphrase = <<secrets.passphrase[1], v>>] \in [password : Secret \X Secret, passphrase : Secret \X Secret]
<1>1. /\ secrets \in [password : Secret \X Secret, passphrase : Secret \X Secret] /\ v \in Secret /\ None \in Secret
      /\ secrets.password \in Secret \X Secret /\ secrets.passphrase \in Secret \X Secret
  BY DEF FormTypes, Secret
<1>2. ASSUME NEW p \in Secret \X Secret
      PROVE  p[1] \in Secret /\ <<p[1], v>> \in Secret \X Secret /\ [p EXCEPT ![2] = v] = <<p[1], v>>
  BY <1>1, <1>2
<1>3. <<v, None>> \in Secret \X Secret
  BY <1>1
<1>4. ASSUME NEW p \in Secret \X Secret
      PROVE  /\ [secrets EXCEPT !.password = p] \in [password : Secret \X Secret, passphrase : Secret \X Secret]
             /\ [secrets EXCEPT !.passphrase = p] \in [password : Secret \X Secret, passphrase : Secret \X Secret]
  <2> DEFINE SS == Secret \X Secret
  <2>1. secrets \in [password : SS, passphrase : SS] /\ p \in SS
    BY <1>1
  <2> HIDE DEF SS
  <2>2. /\ [secrets EXCEPT !.password = p] \in [password : SS, passphrase : SS]
        /\ [secrets EXCEPT !.passphrase = p] \in [password : SS, passphrase : SS]
    BY <2>1
  <2> QED
    BY <2>2 DEF SS
<1> QED
  BY <1>1, <1>2, <1>3, <1>4

LEMMA FirstHolds == ASSUME FormInv, NEW v \in Typed, Form!First(v) PROVE FormInv'
<1>1. UNCHANGED <<at, disks, told, dryrun, left, file, ran>>
  BY DEF Form!First
<1>2. form \in FormRec /\ v \in Secret /\ Length[v] \in Nat /\ FormTypes
  BY FormConstants DEF FormInv, FormTypes, Secret
<1>3. CASE step = "password"
  <2>1. /\ secrets' = [secrets EXCEPT !.password = <<v, None>>]
        /\ \/ step' = "password" /\ form' = [form EXCEPT !.err = TRUE]
           \/ step' = "password2" /\ form' = [form EXCEPT !.password = v] /\ Length[v] >= 4
    BY <1>2, <1>3 DEF Form!First
  <2>2. secrets' \in [password : Secret \X Secret, passphrase : Secret \X Secret] /\ secrets'.password = <<v, None>>
    BY <1>2, <2>1, PairIs DEF FormTypes
  <2>3. form' \in FormRec /\ form'.disk = form.disk /\ form'.rc = form.rc /\ (step' = "password2" => form'.password = v)
    <3>1. CASE form' = [form EXCEPT !.err = TRUE] /\ step' = "password"
      BY <1>2, <3>1 DEF FormRec
    <3>2. CASE form' = [form EXCEPT !.password = v]
      BY <1>2, <3>2 DEF FormRec
    <3> QED
      BY <2>1, <3>1, <3>2
  <2>4. step' \in {"password", "password2"}
    BY <2>1
  <2>5. FormTypes'
    BY <1>1, <2>2, <2>3, <2>4 DEF FormInv, FormTypes, Form!FormSteps
  <2>6. Chosen' /\ Ending'
    BY <1>1, <1>3, <2>3, <2>4 DEF FormInv, Chosen, Listing, Ending
  <2>7. Entered'
    BY <2>1, <2>2, <2>3, <2>4 DEF Entered, Once
  <2> QED
    BY <1>1, <1>3, <2>4, <2>5, <2>6, <2>7, NothingWritten, NoListHolds DEF FormInv
<1>4. CASE step = "passphrase"
  <2>1. /\ secrets' = [secrets EXCEPT !.passphrase = <<v, None>>]
        /\ \/ step' = "passphrase" /\ form' = [form EXCEPT !.err = TRUE]
           \/ step' = "passphrase2" /\ form' = [form EXCEPT !.passph = v, !.err = FALSE] /\ Length[v] >= 8
    BY <1>2, <1>4 DEF Form!First
  <2>2. /\ secrets' \in [password : Secret \X Secret, passphrase : Secret \X Secret]
        /\ secrets'.passphrase = <<v, None>> /\ secrets'.password = secrets.password
    BY <1>2, <2>1, PairIs DEF FormTypes
  <2>3. /\ form' \in FormRec /\ form'.disk = form.disk /\ form'.rc = form.rc /\ form'.security = form.security
        /\ form'.password = form.password /\ (step' = "passphrase2" => form'.passph = v)
    <3>1. CASE form' = [form EXCEPT !.err = TRUE] /\ step' = "passphrase"
      BY <1>2, <3>1 DEF FormRec
    <3>2. CASE form' = [form EXCEPT !.passph = v, !.err = FALSE]
      BY <1>2, <3>2 DEF FormRec
    <3> QED
      BY <2>1, <3>1, <3>2
  <2>4. step' \in {"passphrase", "passphrase2"}
    BY <2>1
  <2>5. FormTypes'
    BY <1>1, <2>2, <2>3, <2>4 DEF FormInv, FormTypes, Form!FormSteps
  <2>6. Chosen' /\ Ending'
    BY <1>1, <1>4, <2>3, <2>4 DEF FormInv, Chosen, Listing, Ending
  <2>7. Twice(form.password, 4, secrets.password) /\ Form!Encrypts
    BY <1>4 DEF FormInv, Entered
  <2>8. Entered'
    BY <2>1, <2>2, <2>3, <2>4, <2>7 DEF Entered, Once, Twice, Form!Encrypts
  <2> QED
    BY <1>1, <1>4, <2>4, <2>5, <2>6, <2>8, NothingWritten, NoListHolds DEF FormInv
<1> QED
  BY <1>3, <1>4 DEF Form!First

LEMMA AgainHolds == ASSUME FormInv, NEW v \in Typed, Form!Again(v) PROVE FormInv'
<1>1. UNCHANGED <<at, disks, told, dryrun, left, file, ran>>
  BY DEF Form!Again
<1>2. form \in FormRec /\ v \in Secret /\ None \in Secret /\ FormTypes
  BY DEF FormInv, FormTypes, Secret
<1>3. CASE step = "password2"
  <2> DEFINE e == (v # form.password)
  <2>1. /\ secrets' = [secrets EXCEPT !.password[2] = v] /\ form' = [form EXCEPT !.err = e]
        /\ step' = IF e THEN "password" ELSE IF Form!Encrypts THEN "passphrase" ELSE "summary"
    BY <1>3 DEF Form!Again
  <2>2. /\ secrets' \in [password : Secret \X Secret, passphrase : Secret \X Secret]
        /\ secrets'.password = <<secrets.password[1], v>>
    BY <1>2, <2>1, PairIs DEF FormTypes
  <2>3. e \in BOOLEAN
    OBVIOUS
  <2>4. /\ form' \in FormRec /\ form'.disk = form.disk /\ form'.rc = form.rc /\ form'.security = form.security
        /\ form'.password = form.password /\ form'.passph = form.passph /\ form'.err = e
    <3> HIDE DEF e
    <3> QED
      BY <1>2, <2>1, <2>3 DEF FormRec
  <2>5. step' \in {"password", "passphrase", "summary"}
    BY <2>1
  <2>6. FormTypes'
    BY <1>1, <2>2, <2>4, <2>5 DEF FormInv, FormTypes, Form!FormSteps
  <2>7. step' = "summary" => form'.err = FALSE
    BY <2>1, <2>4
  <2>8. Chosen' /\ Ending'
    BY <1>1, <1>3, <2>4, <2>5, <2>7 DEF FormInv, Chosen, Listing, Ending
  <2>9. Once(form.password, 4, secrets.password)
    BY <1>3 DEF FormInv, Entered
  <2>10. (Form!Encrypts)' = Form!Encrypts
    BY <2>4 DEF Form!Encrypts
  <2>11. step' \in {"passphrase", "summary"} => Twice(form.password, 4, secrets.password)'
    <3>1. step' \in {"passphrase", "summary"} => v = form.password
      BY <2>1
    <3>2. secrets.password[1] = form.password /\ form.password \in Typed /\ Length[form.password] >= 4
      BY <2>9 DEF Once
    <3>3. step' \in {"passphrase", "summary"} => secrets'.password = <<form'.password, form'.password>>
      BY <2>2, <2>4, <3>1, <3>2
    <3> QED
      BY <2>4, <3>2, <3>3 DEF Twice
  <2>12. (step' = "passphrase" => Form!Encrypts) /\ (step' = "summary" => ~Form!Encrypts)
    BY <2>1
  <2>13. Entered'
    BY <2>5, <2>10, <2>11, <2>12 DEF Entered
  <2> QED
    BY <1>1, <1>3, <2>5, <2>6, <2>8, <2>13, NothingWritten, NoListHolds DEF FormInv
<1>4. CASE step = "passphrase2"
  <2>1. /\ secrets' = [secrets EXCEPT !.passphrase[2] = v]
        /\ \/ v = form.passph /\ step' = "summary" /\ form' = [form EXCEPT !.err = FALSE]
           \/ v # form.passph /\ step' = "passphrase" /\ form' = [form EXCEPT !.passph = None, !.err = TRUE]
    BY <1>4 DEF Form!Again
  <2>2. /\ secrets' \in [password : Secret \X Secret, passphrase : Secret \X Secret]
        /\ secrets'.passphrase = <<secrets.passphrase[1], v>> /\ secrets'.password = secrets.password
    BY <1>2, <2>1, PairIs DEF FormTypes
  <2>3. /\ form' \in FormRec /\ form'.disk = form.disk /\ form'.rc = form.rc /\ form'.security = form.security
        /\ form'.password = form.password
        /\ (step' = "summary" => form'.err = FALSE /\ form'.passph = form.passph)
    <3>1. CASE form' = [form EXCEPT !.err = FALSE]
      BY <1>2, <3>1 DEF FormRec
    <3>2. CASE form' = [form EXCEPT !.passph = None, !.err = TRUE] /\ step' = "passphrase"
      BY <1>2, <3>2 DEF FormRec
    <3> QED
      BY <2>1, <3>1, <3>2
  <2>4. step' \in {"passphrase", "summary"}
    BY <2>1
  <2>5. FormTypes'
    BY <1>1, <2>2, <2>3, <2>4 DEF FormInv, FormTypes, Form!FormSteps
  <2>6. Chosen' /\ Ending'
    BY <1>1, <1>4, <2>3, <2>4 DEF FormInv, Chosen, Listing, Ending
  <2>7. Twice(form.password, 4, secrets.password) /\ Form!Encrypts /\ Once(form.passph, 8, secrets.passphrase)
    BY <1>4 DEF FormInv, Entered
  <2>8. step' = "summary" => Twice(form.passph, 8, secrets.passphrase)'
    BY <2>1, <2>2, <2>3, <2>7 DEF Once, Twice
  <2>9. Entered'
    BY <2>2, <2>3, <2>4, <2>7, <2>8 DEF Entered, Twice, Form!Encrypts
  <2> QED
    BY <1>1, <1>4, <2>4, <2>5, <2>6, <2>9, NothingWritten, NoListHolds DEF FormInv
<1> QED
  BY <1>3, <1>4 DEF Form!Again

\* The answers that are written are those that were asked for.
LEMMA AnswersHold ==
  ASSUME FormInv, step = "summary", file' = Form!Answers, UNCHANGED <<told, secrets>>
  PROVE  (Form!AnswersAsTyped)'
<1>1. /\ file'.st = "whole" /\ file'.disk = form.disk /\ file'.password = form.password
      /\ file'.encrypt = Form!Encrypts /\ file'.passphrase = IF Form!Encrypts THEN form.passph ELSE None
  BY DEF Form!Answers
<1>2. Twice(form.password, 4, secrets.password) /\ (Form!Encrypts => Twice(form.passph, 8, secrets.passphrase))
  BY DEF FormInv, Entered
<1>3. told => Devices[form.disk] = "disk"
  BY DEF FormInv, Chosen, Listing
<1> QED
  BY <1>1, <1>2, <1>3 DEF Form!AnswersAsTyped, Twice

LEMMA InstallsHolds == ASSUME FormInv, Form!Installs PROVE FormInv'
<1>1. /\ step = "summary" /\ step' = "running" /\ UNCHANGED <<at, form, disks, told, dryrun, ran, secrets>>
      /\ \/ left' = "refused" /\ file' \in {file, [st |-> "torn"]}
         \/ left' = (IF dryrun THEN "over" ELSE "exec") /\ file' = Form!Answers
  BY DEF Form!Installs
<1>2. FormTypes'
  BY <1>1 DEF FormInv, FormTypes, Form!FormSteps
<1>3. Chosen' /\ Entered'
  BY <1>1 DEF Chosen, Listing, Entered
<1>4. Ending'
  BY <1>1 DEF FormInv, Ending
<1>5. (Form!AnswersAsTyped)'
  <2>1. CASE file' = file
    BY <1>1, <2>1, NothingWritten DEF Written
  <2>2. CASE file' = [st |-> "torn"]
    <3>1. file'.st = "torn"
      BY <2>2
    <3> QED
      BY <3>1 DEF Form!AnswersAsTyped
  <2>3. CASE file' = Form!Answers
    BY <1>1, <2>3, AnswersHold
  <2> QED
    BY <1>1, <2>1, <2>2, <2>3
<1> QED
  BY <1>1, <1>2, <1>3, <1>4, <1>5, NoListHolds DEF FormInv, Written

LEMMA SameAnswers == ASSUME FormInv, UNCHANGED <<told, file, secrets>> PROVE (Form!AnswersAsTyped)'
  BY DEF FormInv, Written, Form!AnswersAsTyped

LEMMA EndsHolds == ASSUME FormInv, Form!Ends PROVE FormInv'
<1> DEFINE failed == [form EXCEPT !.err = TRUE, !.rc = 1]
<1>1. /\ step = "running" /\ step' = "done" /\ UNCHANGED <<at, disks, told, dryrun, file, secrets>>
      /\ \/ left = "exec" /\ ran' \in {"ok", "failed"}
         \/ left # "exec" /\ ran' = ran
      /\ form' = IF left = "refused" \/ ran' = "failed" THEN failed ELSE form
  BY DEF Form!Ends
<1>2. form \in FormRec /\ form.err = FALSE /\ form.rc = 0 /\ ran = "none" /\ left \in {"refused", "over", "exec"}
      /\ (left = "over" => dryrun)
  BY <1>1 DEF FormInv, FormTypes, Ending, FormRec
<1>3. failed \in FormRec /\ failed.err = TRUE /\ failed.rc = 1
  BY <1>2 DEF FormRec
<1> HIDE DEF failed
<1>4. form' \in FormRec
  BY <1>1, <1>2, <1>3
<1>5. FormTypes'
  BY <1>1, <1>4 DEF FormInv, FormTypes, Form!FormSteps
<1>6. Chosen' /\ Entered'
  BY <1>1 DEF Chosen, Listing, Entered
<1>7. Ending'
  <2>1. (form'.err <=> form'.rc = 1) /\ (~dryrun => (form'.rc = 0 <=> ran' = "ok"))
    BY <1>1, <1>2, <1>3
  <2> QED
    BY <1>1, <2>1 DEF Ending
<1> QED
  BY <1>1, <1>5, <1>6, <1>7, SameAnswers, NoListHolds DEF FormInv, Written

LEMMA LeavesHolds == ASSUME FormInv, Form!Quit \/ Form!Reboot PROVE FormInv'
<1>1. /\ step \in {"menu", "done"} /\ step' \in {"quit", "reboot"}
      /\ UNCHANGED <<at, form, disks, told, dryrun, left, file, ran, secrets>>
  BY DEF Form!Quit, Form!Reboot
<1>2. step' = "reboot" => step = "done" /\ form.rc = 0 /\ ~dryrun
  BY DEF Form!Quit, Form!Reboot
<1>3. FormTypes'
  BY <1>1 DEF FormInv, FormTypes, Form!FormSteps
<1>4. Chosen' /\ Entered'
  BY <1>1 DEF Chosen, Listing, Entered
<1>5. Ending'
  BY <1>1, <1>2 DEF FormInv, Ending
<1> QED
  BY <1>1, <1>3, <1>4, <1>5, SameAnswers, NoListHolds DEF FormInv, Written

LEMMA FormInit == TerminalsInit => FormInv
<1> SUFFICES ASSUME TerminalsInit PROVE FormInv
  OBVIOUS
<1>1. Form!Init
  BY DEF TerminalsInit
<1> DEFINE blank == [security |-> None, disk |-> None, password |-> None, passph |-> None, err |-> FALSE, rc |-> 0]
<1>2. /\ step = "menu" /\ at = 0 /\ told \in BOOLEAN /\ dryrun \in BOOLEAN /\ ran = "none" /\ form = blank
      /\ disks \in {Form!Listed(told), <<>>} /\ file = [st |-> "none"]
      /\ secrets = [password |-> <<None, None>>, passphrase |-> <<None, None>>]
  BY <1>1 DEF Form!Init
<1>3. blank \in FormRec /\ blank.rc = 0
  BY DEF FormRec, Secret
<1> HIDE DEF blank
<1>4. disks \in Seq(DOMAIN Devices) /\ (told => \A i \in 1..Len(disks) : Devices[disks[i]] = "disk")
  <2>1. CASE disks = <<>>
    BY <2>1, EmptySeq
  <2>2. CASE disks = Form!Listed(told)
    BY <1>2, <2>2, ListedAre
  <2> QED
    BY <1>2, <2>1, <2>2
<1>5. secrets \in [password : Secret \X Secret, passphrase : Secret \X Secret]
  BY <1>2 DEF Secret
<1>6. FormTypes
  BY <1>2, <1>3, <1>4, <1>5 DEF FormTypes, Form!FormSteps
<1>7. Form!CursorOnChoice
  BY <1>2 DEF Form!CursorOnChoice
<1>8. Chosen /\ Entered /\ Ending
  BY <1>2, <1>3 DEF Chosen, Listing, Entered, Ending
<1>9. Written
  <2>1. file.st = "none"
    BY <1>2
  <2> QED
    BY <2>1 DEF Written, Form!AnswersAsTyped
<1> QED
  BY <1>6, <1>7, <1>8, <1>9 DEF FormInv

LEMMA FormNext == FormInv /\ [TerminalsNext]_all => FormInv'
<1> SUFFICES ASSUME FormInv, [TerminalsNext]_all PROVE FormInv'
  OBVIOUS
<1>1. CASE part = "install" /\ Form!Next
  <2>1. CASE Form!Move \/ Form!Esc \/ Form!Pick
    BY <2>1, FormMoveHolds, FormEscHolds, PickHolds
  <2>2. CASE Form!Installs \/ Form!Ends \/ Form!Quit \/ Form!Reboot
    BY <2>2, InstallsHolds, EndsHolds, LeavesHolds
  <2>3. ASSUME NEW ok \in BOOLEAN, Form!Name(ok) PROVE FormInv'
    BY <2>3, NameHolds
  <2>4. ASSUME NEW v \in Typed, Form!First(v) \/ Form!Again(v) PROVE FormInv'
    BY <2>4, FirstHolds, AgainHolds
  <2> QED
    BY <1>1, <2>1, <2>2, <2>3, <2>4 DEF Form!Next
<1>2. CASE UNCHANGED formVars
  BY <1>2, SameForm
<1> QED
  BY <1>1, <1>2 DEF TerminalsNext, all

LEMMA FormAlways == TerminalsSpec => []FormInv
  BY FormInit, FormNext, PTL DEF TerminalsSpec

LEMMA FormHolds == ASSUME FormInv PROVE Form!TypeOK /\ Form!CursorOnChoice /\ Form!AnswersAsTyped /\ Form!EndIsTold
<1>1. form \in FormRec
  BY DEF FormInv, FormTypes
<1>2. Form!Range(Form!Securities) = Pool
  <2>1. DOMAIN Form!Securities = 1..4 /\ Form!Securities[1] = "standard" /\ Form!Securities[2] = "encrypted"
        /\ Form!Securities[3] = "secureboot" /\ Form!Securities[4] = "both"
    BY DEF Form!Securities
  <2>2. \A i : i \in 1..4 <=> i = 1 \/ i = 2 \/ i = 3 \/ i = 4
    OBVIOUS
  <2> QED
    BY <2>1, <2>2 DEF Form!Range, Pool
<1>3. Form!TypeOK
  BY <1>1, <1>2 DEF FormInv, FormTypes, FormRec, Form!TypeOK, Secret
<1>4. Form!EndIsTold
  BY <1>1 DEF FormInv, Ending, Form!EndIsTold, FormRec
<1> QED
  BY <1>3, <1>4 DEF FormInv, Written

\* No mark is used twice and the tables are read on whatever fails; a machine is
\* installed with secrets that were typed twice, and its end is told as it was
\* (runOnTargets; estateMsg and zfsMsg; updateText, prev; installDoneMsg).
THEOREM TuiStaysSound == TerminalsSpec => []TuiIsSound
<1>1. TuiInv /\ FormInv => TuiIsSound
  BY EstateHolds, FormHolds DEF TuiIsSound
<1> QED
  BY <1>1, TuiAlways, FormAlways, PTL

-----------------------------------------------------------------------------
(* The display: the frame that is shown and the number that says so.       *)

FrameInv ==
  /\ frames \in Nat /\ seq \in Nat /\ drawn \in Nat /\ seq <= frames /\ drawn <= frames
  /\ main = "noted" /\ seq = frames /\ reader # "count" => shown = pub
  /\ main = "select" /\ drawn = frames /\ ~dirty /\ reader # "count" => shown = pub

\* What a step may do to it: nothing; a frame is published, then counted, and the
\* reader goes on; all is to be drawn again; or the main loop goes on.
Shows ==
  \/ UNCHANGED <<frames, seq, drawn, main, shown, pub, dirty>>
       /\ (reader' = "count" \/ reader' = reader \/ reader # "count")
  \/ reader' = "count" /\ UNCHANGED <<frames, seq, drawn, main, shown, dirty>>
  \/ frames' = frames + 1 /\ UNCHANGED <<seq, drawn, main, shown, pub, dirty>>
  \/ UNCHANGED <<frames, reader, pub>> /\
       \/ main' = "select" /\ dirty' = TRUE /\ drawn' = 0 /\ UNCHANGED seq
       \/ main' = "draw" /\ seq' = frames /\ UNCHANGED drawn
       \/ main' = "noted" /\ shown' = pub /\ UNCHANGED <<seq, drawn>>
       \/ main = "noted" /\ main' = "select" /\ drawn' = seq /\ UNCHANGED <<seq, shown>>
       \/ main' \in {"fit", "over"} /\ UNCHANGED <<seq, drawn>>
       \/ main' = main /\ main = "select" /\ UNCHANGED <<seq, drawn>> /\ (dirty' \/ (shown' = shown /\ (dirty => dirty')))

LEMMA ShowsHolds == ASSUME FrameInv, Shows PROVE FrameInv'
<1>1. CASE UNCHANGED <<frames, seq, drawn, main, shown, pub, dirty>> /\ (reader' = "count" \/ reader' = reader \/ reader # "count")
  BY <1>1 DEF FrameInv
<1>2. CASE reader' = "count" /\ UNCHANGED <<frames, seq, drawn, main, shown, dirty>>
  BY <1>2 DEF FrameInv
<1>3. CASE frames' = frames + 1 /\ UNCHANGED <<seq, drawn, main, shown, pub, dirty>>
  BY <1>3 DEF FrameInv
<1>4. CASE UNCHANGED <<frames, reader, pub>> /\ main' = "select" /\ dirty' = TRUE /\ drawn' = 0 /\ UNCHANGED seq
  BY <1>4 DEF FrameInv
<1>5. CASE UNCHANGED <<frames, reader, pub>> /\ main' = "draw" /\ seq' = frames /\ UNCHANGED drawn
  BY <1>5 DEF FrameInv
<1>6. CASE UNCHANGED <<frames, reader, pub>> /\ main' = "noted" /\ shown' = pub /\ UNCHANGED <<seq, drawn>>
  BY <1>6 DEF FrameInv
<1>7. CASE UNCHANGED <<frames, reader, pub>> /\ main = "noted" /\ main' = "select" /\ drawn' = seq /\ UNCHANGED <<seq, shown>>
  BY <1>7 DEF FrameInv
<1>8. CASE UNCHANGED <<frames, reader, pub>> /\ main' \in {"fit", "over"} /\ UNCHANGED <<seq, drawn>>
  BY <1>8 DEF FrameInv
<1>9. CASE UNCHANGED <<frames, reader, pub>> /\ main' = main /\ main = "select" /\ UNCHANGED <<seq, drawn>>
           /\ (dirty' \/ (shown' = shown /\ (dirty => dirty')))
  BY <1>9 DEF FrameInv
<1> QED
  BY <1>1, <1>2, <1>3, <1>4, <1>5, <1>6, <1>7, <1>8, <1>9 DEF Shows

LEMMA PictureShows == ASSUME Picture!Next PROVE Shows
<1>1. CASE Picture!Paint \/ Picture!Answer \/ Picture!Serve
  BY <1>1 DEF Shows, Picture!Paint, Picture!Answer, Picture!Serve, Picture!conn, Picture!loop
<1>2. CASE Picture!ReadUpdate \/ Picture!AskNext \/ Picture!Gone
  BY <1>2 DEF Shows, Picture!ReadUpdate, Picture!AskNext, Picture!Gone, Picture!loop
<1>3. CASE Picture!Publish
  BY <1>3 DEF Shows, Picture!Publish, Picture!loop
<1>4. CASE Picture!Count
  BY <1>4 DEF Shows, Picture!Count, Picture!loop
<1>5. CASE Picture!Fit
  BY <1>5 DEF Shows, Picture!Fit, Picture!conn
<1>6. CASE Picture!Tick
  BY <1>6 DEF Shows, Picture!Tick, Picture!conn
<1>7. CASE Picture!Draw
  BY <1>7 DEF Shows, Picture!Draw, Picture!conn
<1>8. CASE Picture!Noted
  BY <1>8 DEF Shows, Picture!Noted, Picture!Seen, Picture!conn
<1>9. CASE Picture!Probed \/ Picture!Done
  BY <1>9 DEF Shows, Picture!Probed, Picture!Done, Picture!conn
<1>10. CASE Picture!Probe \/ Picture!Winch
  BY <1>10 DEF Shows, Picture!Probe, Picture!Winch, Picture!conn, Picture!loop
<1>11. CASE (\E k \in {} : Picture!Type(k)) \/ \E n \in 1..3 : Picture!ReadStdin(n)
  BY <1>11 DEF Shows, Picture!ReadStdin, Picture!conn, Picture!loop
<1>12. CASE Picture!Input
  <2> DEFINE b == pending \o Head(chunks)
             o == Picture!One(b, menu)
  <2>1. /\ main = "select" /\ UNCHANGED <<frames, reader, pub, seq, drawn>> /\ (main' = main \/ main' = "over")
        /\ dirty' = (dirty \/ menu \/ menu') /\ (~(menu /\ b[1] = "r") => shown' = shown)
    <3> HIDE DEF o, b
    <3>1. main' = IF o.quit THEN "over" ELSE main
      BY <1>12 DEF Picture!Input, o, b
    <3>2. ~(menu /\ b[1] = "r") => shown' = shown
      BY <1>12 DEF Picture!Input, o, b
    <3> QED
      BY <1>12, <3>1, <3>2 DEF Picture!Input, Picture!conn
  <2>2. dirty' \/ (shown' = shown /\ (dirty => dirty'))
    BY <2>1
  <2> QED
    BY <2>1, <2>2 DEF Shows
<1> QED
  BY <1>1, <1>2, <1>3, <1>4, <1>5, <1>6, <1>7, <1>8, <1>9, <1>10, <1>11, <1>12 DEF Picture!Next

LEMMA TypingShows == ASSUME Typing!Next PROVE Shows
<1>1. CASE Typing!Paint \/ Typing!Answer \/ Typing!Serve
  BY <1>1 DEF Shows, Typing!Paint, Typing!Answer, Typing!Serve, Typing!conn, Typing!loop
<1>2. CASE Typing!ReadUpdate \/ Typing!AskNext \/ Typing!Gone
  BY <1>2 DEF Shows, Typing!ReadUpdate, Typing!AskNext, Typing!Gone, Typing!loop
<1>3. CASE Typing!Publish
  BY <1>3 DEF Shows, Typing!Publish, Typing!loop
<1>4. CASE Typing!Count
  BY <1>4 DEF Shows, Typing!Count, Typing!loop
<1>5. CASE Typing!Fit
  BY <1>5 DEF Shows, Typing!Fit, Typing!conn
<1>6. CASE Typing!Tick
  BY <1>6 DEF Shows, Typing!Tick, Typing!conn
<1>7. CASE Typing!Draw
  BY <1>7 DEF Shows, Typing!Draw, Typing!conn
<1>8. CASE Typing!Noted
  BY <1>8 DEF Shows, Typing!Noted, Typing!Seen, Typing!conn
<1>9. CASE Typing!Probed \/ Typing!Done
  BY <1>9 DEF Shows, Typing!Probed, Typing!Done, Typing!conn
<1>10. CASE Typing!Probe \/ Typing!Winch
  BY <1>10 DEF Shows, Typing!Probe, Typing!Winch, Typing!conn, Typing!loop
<1>11. CASE (\E k \in AnyKey : Typing!Type(k)) \/ \E n \in 1..3 : Typing!ReadStdin(n)
  BY <1>11 DEF Shows, Typing!Type, Typing!ReadStdin, Typing!conn, Typing!loop
<1>12. CASE Typing!Input
  <2> DEFINE b == pending \o Head(chunks)
             o == Typing!One(b, menu)
  <2>1. /\ main = "select" /\ UNCHANGED <<frames, reader, pub, seq, drawn>> /\ (main' = main \/ main' = "over")
        /\ dirty' = (dirty \/ menu \/ menu') /\ (~(menu /\ b[1] = "r") => shown' = shown)
    <3> HIDE DEF o, b
    <3>1. main' = IF o.quit THEN "over" ELSE main
      BY <1>12 DEF Typing!Input, o, b
    <3>2. ~(menu /\ b[1] = "r") => shown' = shown
      BY <1>12 DEF Typing!Input, o, b
    <3> QED
      BY <1>12, <3>1, <3>2 DEF Typing!Input, Typing!conn
  <2>2. dirty' \/ (shown' = shown /\ (dirty => dirty'))
    BY <2>1
  <2> QED
    BY <2>1, <2>2 DEF Shows
<1> QED
  BY <1>1, <1>2, <1>3, <1>4, <1>5, <1>6, <1>7, <1>8, <1>9, <1>10, <1>11, <1>12 DEF Typing!Next

LEMMA FrameInit == TerminalsInit => FrameInv
  BY DEF TerminalsInit, Picture!Init, FrameInv

LEMMA FrameNext == FrameInv /\ [TerminalsNext]_all => FrameInv'
<1> SUFFICES ASSUME FrameInv, [TerminalsNext]_all PROVE FrameInv'
  OBVIOUS
<1>1. CASE Picture!Next \/ Typing!Next
  BY <1>1, PictureShows, TypingShows, ShowsHolds
<1>2. CASE UNCHANGED screenVars
  BY <1>2 DEF screenVars, FrameInv
<1> QED
  BY <1>1, <1>2 DEF TerminalsNext, all

LEMMA FrameAlways == TerminalsSpec => []FrameInv
  BY FrameInit, FrameNext, PTL DEF TerminalsSpec

LEMMA FrameHolds == ASSUME FrameInv PROVE Picture!FrameShown /\ Typing!FrameShown
  BY DEF FrameInv, Picture!FrameShown, Typing!FrameShown

-----------------------------------------------------------------------------
(* The picture in the terminal: where it is, and where a click is in it.   *)

Positive == Nat \ {0}

PlaceRec == [ow : Positive, oh : Positive, imgW : Positive, imgH : Positive, offX : Int, offY : Int]
DrawnRec == [place : PlaceRec, mode : {"sixel", "blocks", "braille"}, fw : Positive, fh : Positive]

\* What a renderer calls a pixel of the picture: a dot of a sixel, else a cell.
Scales(m, p) ==
  IF m = "sixel" THEN p.imgW = p.ow /\ p.imgH = p.oh /\ p.offX = 0 /\ p.offY = 0
  ELSE p.ow = Render!Dots(m).x * p.imgW /\ p.oh = Render!Dots(m).y * p.imgH

PlaceInv ==
  /\ mode \in {"sixel", "blocks", "braille"} /\ cols \in Positive /\ rows \in Positive /\ fw \in Positive /\ fh \in Positive
  /\ placed # None => placed \in DrawnRec /\ Scales(placed.mode, placed.place)

LEMMA QuotientIs ==
  ASSUME NEW x \in Nat, NEW o \in Positive
  PROVE  x \div o \in Nat /\ (x \div o) * o <= x /\ x < (x \div o) * o + o
<1>1. x \div o \in Nat
  BY DEF Positive
<1>2. (x \div o) * o <= x
  BY DEF Positive
<1>3. x < (x \div o) * o + o
  BY DEF Positive
<1> QED
  BY <1>1, <1>2, <1>3

LEMMA OneQuotient ==
  ASSUME NEW x \in Nat, NEW o \in Positive, NEW q \in Nat, q * o <= x, x < q * o + o
  PROVE  x \div o = q
  BY DEF Positive

\* Dots scale alike: d of them to a cell, on both sides of a quotient.
LEMMA ScaleQuotient ==
  ASSUME NEW x \in Nat, NEW o \in Positive, NEW d \in Positive
  PROVE  (d * x) \div (d * o) = x \div o
<1> DEFINE q == x \div o
<1>1. q \in Nat /\ q * o <= x /\ x < q * o + o
  BY QuotientIs
<1> HIDE DEF q
<1>2. x \in Nat /\ o \in Nat /\ d \in Nat /\ o >= 1 /\ d >= 1
  BY DEF Positive
<1>3. d * o \in Nat /\ d * x \in Nat /\ d * o >= 1
  BY <1>2
<1>4. d * (q * o) <= d * x
  <2>1. q * o \in Nat
    BY <1>1, <1>2
  <2> QED
    BY <1>1, <1>2, <2>1
<1>5. d * (q * o + o) > d * x
  <2>1. q * o + o \in Nat
    BY <1>1, <1>2
  <2> QED
    BY <1>1, <1>2, <2>1
<1>6. q * (d * o) = d * (q * o) /\ d * (q * o + o) = d * (q * o) + d * o
  BY <1>1, <1>2
<1>7. q * (d * o) <= d * x /\ d * x < q * (d * o) + d * o
  BY <1>1, <1>2, <1>3, <1>4, <1>5, <1>6
<1>8. d * o \in Positive
  BY <1>3 DEF Positive
<1>9. (d * x) \div (d * o) = q
  BY <1>1, <1>3, <1>7, <1>8, OneQuotient
<1> QED
  BY <1>9 DEF q

\* A dot of the picture begins at a pixel of the guest.
LEMMA DotIsInside ==
  ASSUME NEW i \in Nat, NEW size \in Positive, NEW out \in Positive, i < out
  PROVE  (i * size) \div out \in 0..(size - 1)
<1> DEFINE q == (i * size) \div out
<1>1. i \in Nat /\ size \in Nat /\ out \in Nat /\ size >= 1 /\ out >= 1 /\ i + 1 <= out
  BY DEF Positive
<1>2. i * size \in Nat /\ i * size < out * size
  BY <1>1
<1>3. q \in Nat /\ q * out <= i * size
  BY <1>2, QuotientIs
<1> HIDE DEF q
<1>4. q < size
  <2> SUFFICES ASSUME q >= size PROVE FALSE
    BY <1>1, <1>3
  <2>1. q * out >= size * out
    BY <1>1, <1>3
  <2> QED
    BY <1>1, <1>2, <1>3, <2>1
<1>5. q \in 0..(size - 1)
  BY <1>1, <1>3, <1>4
<1> QED
  BY <1>5 DEF q

LEMMA LeastOf == ASSUME NEW a \in Int, NEW b \in Int PROVE Render!Min({a, b}) = IF a <= b THEN a ELSE b
<1> DEFINE m == IF a <= b THEN a ELSE b
<1>1. m \in {a, b} /\ \A y \in {a, b} : m <= y
  OBVIOUS
<1>2. \A x \in {a, b} : (\A y \in {a, b} : x <= y) => x = m
  OBVIOUS
<1> HIDE DEF m
<1>3. (CHOOSE x \in {a, b} : \A y \in {a, b} : x <= y) = m
  BY <1>1, <1>2
<1> QED
  BY <1>3 DEF Render!Min, m

LEMMA MostOf == ASSUME NEW a \in Int, NEW b \in Int PROVE Render!Max({a, b}) = IF a >= b THEN a ELSE b
<1> DEFINE m == IF a >= b THEN a ELSE b
<1>1. m \in {a, b} /\ \A y \in {a, b} : m >= y
  OBVIOUS
<1>2. \A x \in {a, b} : (\A y \in {a, b} : x >= y) => x = m
  OBVIOUS
<1> HIDE DEF m
<1>3. (CHOOSE x \in {a, b} : \A y \in {a, b} : x >= y) = m
  BY <1>1, <1>2
<1> QED
  BY <1>3 DEF Render!Max, m

LEMMA DotShows ==
  ASSUME NEW i \in Nat, NEW size \in Positive, NEW out \in Positive, i < out
  PROVE  (i * size) \div out \in Render!Box(i, size, out) /\ Render!Clamp((i * size) \div out, size - 1) = (i * size) \div out
<1> DEFINE q == (i * size) \div out
           to == ((i + 1) * size) \div out
<1>1. q \in 0..(size - 1)
  BY DotIsInside
<1>2. (i + 1) * size \in Nat
  BY DEF Positive
<1>3. to \in Nat
  BY <1>2, QuotientIs
<1>4. Render!Box(i, size, out) = q .. (Render!Min({size, Render!Max({to, q + 1})}) - 1)
  BY DEF Render!Box
<1>5. Render!Clamp(q, size - 1) = Render!Min({q, size - 1})
  BY DEF Render!Clamp
<1> HIDE DEF q, to
<1>6. q \in Int /\ q + 1 \in Int /\ to \in Int /\ size \in Int /\ size - 1 \in Int
  BY <1>1, <1>3 DEF Positive
<1>7. Render!Min({q, size - 1}) = q
  BY <1>1, <1>6, LeastOf
<1> DEFINE far == Render!Max({to, q + 1})
<1>8. far \in Int /\ far >= q + 1
  BY <1>6, MostOf
<1> HIDE DEF far
<1>9. Render!Min({size, far}) \in Int /\ Render!Min({size, far}) >= q + 1
  BY <1>1, <1>6, <1>8, LeastOf
<1>10. q \in q .. (Render!Min({size, far}) - 1)
  BY <1>6, <1>9
<1> QED
  BY <1>4, <1>5, <1>7, <1>10 DEF far, q

\* What is at the first dot of a cell is what the cell shows.
LEMMA CellShows ==
  ASSUME NEW n \in Nat, NEW d \in Positive, NEW size \in Positive, NEW out \in Positive, n * d < out
  PROVE  Render!Clamp(((n * d) * size) \div out, size - 1) \in Render!CellBox(n, d, size, out)
<1> DEFINE i == n * d
<1>1. i \in Nat /\ i \in n * d .. n * d + d - 1 /\ i < out
  BY DEF Positive
<1> HIDE DEF i
<1>2. Render!Clamp((i * size) \div out, size - 1) \in Render!Box(i, size, out)
  BY <1>1, DotShows
<1>3. i \in {j \in n * d .. n * d + d - 1 : j < out}
  BY <1>1
<1>4. Render!Box(i, size, out) \subseteq Render!CellBox(n, d, size, out)
  BY <1>3 DEF Render!CellBox
<1> QED
  BY <1>2, <1>4 DEF i

LEMMA ScaledShows ==
  ASSUME NEW n \in Nat, NEW d \in Positive, NEW size \in Positive, NEW small \in Positive, NEW out, out = d * small, n * d < out
  PROVE  Render!Clamp((n * size) \div small, size - 1) \in Render!CellBox(n, d, size, out)
<1>1. n * size \in Nat /\ d * (n * size) = (n * d) * size /\ out \in Positive
  BY DEF Positive
<1>2. (d * (n * size)) \div (d * small) = (n * size) \div small
  BY <1>1, ScaleQuotient
<1>3. ((n * d) * size) \div out = (n * size) \div small
  BY <1>1, <1>2
<1> QED
  BY <1>1, <1>3, CellShows

LEMMA ClampedIsInside ==
  ASSUME NEW q \in Nat, NEW size \in Positive
  PROVE  Render!Clamp(q, size - 1) \in 0..(size - 1)
<1>1. q \in Int /\ size - 1 \in Int /\ size - 1 >= 0
  BY DEF Positive
<1>2. Render!Min({q, size - 1}) = IF q <= size - 1 THEN q ELSE size - 1
  BY <1>1, LeastOf
<1> QED
  BY <1>1, <1>2 DEF Render!Clamp

\* One side of the guest's picture: the pixel of a click, and that of its cell.
LEMMA SideLands ==
  ASSUME NEW c \in Nat, NEW off \in Int, NEW d \in Positive, NEW size \in Positive, NEW small \in Positive, NEW out \in Positive,
         NEW sixel \in BOOLEAN, sixel => small = out /\ off = 0, ~sixel => out = d * small,
         NEW f, f = Render!Clamp(IF sixel THEN ((c * d) * size) \div small ELSE (Render!From(c, off) * size) \div small, size - 1)
  PROVE  f \in 0..(size - 1) /\ (c >= off /\ (c - off) * d < out => f \in Render!CellBox(c - off, d, size, out))
<1>1. CASE sixel
  <2>1. (c * d) * size \in Nat /\ c - off = c
    BY <1>1 DEF Positive
  <2>2. ((c * d) * size) \div small \in Nat
    BY <2>1, QuotientIs
  <2>3. f = Render!Clamp(((c * d) * size) \div small, size - 1) /\ f \in 0..(size - 1)
    BY <1>1, <2>2, ClampedIsInside
  <2> QED
    BY <1>1, <2>1, <2>3, CellShows
<1>2. CASE ~sixel
  <2> DEFINE n == Render!From(c, off)
  <2>1. n \in Nat /\ (c >= off => n = c - off)
    BY DEF Render!From
  <2>2. f = Render!Clamp((n * size) \div small, size - 1)
    BY <1>2
  <2> HIDE DEF n
  <2>3. n * size \in Nat
    BY <2>1 DEF Positive
  <2>4. (n * size) \div small \in Nat
    BY <2>3, QuotientIs
  <2>5. f \in 0..(size - 1)
    BY <2>2, <2>4, ClampedIsInside
  <2>6. ASSUME c >= off, (c - off) * d < out PROVE f \in Render!CellBox(c - off, d, size, out)
    <3>1. n = c - off /\ n * d < out /\ out = d * small
      BY <1>2, <2>1, <2>6
    <3>2. Render!Clamp((n * size) \div small, size - 1) \in Render!CellBox(n, d, size, out)
      BY <2>1, <3>1, ScaledShows
    <3> QED
      BY <2>2, <3>1, <3>2
  <2> QED
    BY <2>5, <2>6
<1> QED
  BY <1>1, <1>2

LEMMA RenderConstants == Cols \cup Lines \cup Wide \cup High \subseteq Positive /\ CellW \in Positive /\ CellH \in Positive
  BY TerminalsAssumption DEF Render!RenderAssumption, Positive

LEMMA DotsArePositive ==
  ASSUME NEW m \in {"sixel", "blocks", "braille"}
  PROVE  Render!Dots(m).x \in Positive /\ Render!Dots(m).y \in Positive
<1>1. CASE m = "sixel"
  BY <1>1, RenderConstants DEF Render!Dots
<1>2. CASE m = "blocks"
  BY <1>2 DEF Render!Dots, Positive
<1>3. CASE m = "braille"
  BY <1>3 DEF Render!Dots, Positive
<1> QED
  BY <1>1, <1>2, <1>3

LEMMA ScaledIs ==
  ASSUME NEW size \in Positive, NEW area \in Nat, NEW other \in Positive, NEW otherArea \in Nat
  PROVE  Render!Scaled(size, area, other, otherArea) \subseteq Nat
<1> DEFINE q == (size * otherArea) \div other
           n == Render!Min({area, q})
<1>1. size * otherArea \in Nat
  BY DEF Positive
<1>2. q \in Nat
  BY <1>1, QuotientIs
<1>3. Render!Scaled(size, area, other, otherArea) = {n, IF n > 0 THEN n - 1 ELSE 0}
  BY DEF Render!Scaled
<1> HIDE DEF q
<1>4. n \in Nat
  BY <1>2, LeastOf
<1> HIDE DEF n
<1> QED
  BY <1>3, <1>4

\* Whole cells, or whole bands.
LEMMA MultipleIs ==
  ASSUME NEW n \in Nat, NEW least \in Positive
  PROVE  /\ Render!Multiple(n, least, 6) \in Nat
         /\ least \in {2, 4} => \E k \in Positive : Render!Multiple(n, least, 2) = 2 * k
         /\ least = 4 => \E k \in Positive : Render!Multiple(n, least, 4) = 4 * k
<1> DEFINE up == Render!Max({n, least})
<1>1. up \in Nat /\ up >= least /\ least >= 1
  BY MostOf DEF Positive
<1>2. \A s : Render!Multiple(n, least, s) = up - (up % s)
  BY DEF Render!Multiple
<1> HIDE DEF up
<1>3. up % 6 \in 0..5 /\ up = 6 * (up \div 6) + (up % 6) /\ up \div 6 \in Nat
  BY <1>1
<1>4. up % 2 \in 0..1 /\ up = 2 * (up \div 2) + (up % 2) /\ up \div 2 \in Nat
  BY <1>1
<1>5. up % 4 \in 0..3 /\ up = 4 * (up \div 4) + (up % 4) /\ up \div 4 \in Nat
  BY <1>1
<1>6. Render!Multiple(n, least, 6) \in Nat
  <2>1. up - (up % 6) \in Nat
    BY <1>1, <1>3
  <2> QED
    BY <1>2, <2>1
<1>7. ASSUME least \in {2, 4} PROVE \E k \in Positive : Render!Multiple(n, least, 2) = 2 * k
  <2>1. up - (up % 2) = 2 * (up \div 2) /\ up \div 2 >= 1
    BY <1>1, <1>4, <1>7
  <2> QED
    BY <1>2, <1>4, <2>1 DEF Positive
<1>8. ASSUME least = 4 PROVE \E k \in Positive : Render!Multiple(n, least, 4) = 4 * k
  <2>1. up - (up % 4) = 4 * (up \div 4) /\ up \div 4 >= 1
    BY <1>1, <1>5, <1>8
  <2> QED
    BY <1>2, <1>5, <2>1 DEF Positive
<1> QED
  BY <1>6, <1>7, <1>8

LEMMA AtLeastOne == ASSUME NEW w \in Nat PROVE Render!Max({w, 1}) \in Positive
  BY MostOf DEF Positive

LEMMA HalvesAre == ASSUME NEW k \in Positive PROVE (2 * k) \div 2 = k /\ (4 * k) \div 4 = k /\ k \div 1 = k
<1>1. (2 * k) \div 2 = k
  BY DEF Positive
<1>2. (4 * k) \div 4 = k
  BY DEF Positive
<1>3. k \div 1 = k
  BY DEF Positive
<1> QED
  BY <1>1, <1>2, <1>3

\* Where a drawing puts the picture.
LEMMA PlacedIs ==
  ASSUME PlaceInv, NEW w \in Nat, NEW h \in Nat, Render!Placed(w, h).oh # 0
  PROVE  Render!Placed(w, h) \in PlaceRec /\ Scales(mode, Render!Placed(w, h))
<1> DEFINE p == Render!Placed(w, h)
<1>0. cols \in Int /\ rows \in Int
  BY DEF PlaceInv, Positive
<1>1. CASE mode = "sixel"
  <2>1. p = Render!Sixel(w, h)
    BY <1>1 DEF Render!Placed
  <2> DEFINE ow == Render!Max({w, 1})
             oh == Render!Multiple(h, 1, 6)
  <2>2. ow \in Positive /\ oh \in Nat
    <3>1. 1 \in Positive
      BY DEF Positive
    <3> QED
      BY <3>1, AtLeastOne, MultipleIs
  <2>3. p = [ow |-> ow, oh |-> oh, imgW |-> ow, imgH |-> oh, offX |-> 0, offY |-> 0]
    BY <2>1 DEF Render!Sixel
  <2> HIDE DEF ow, oh, p
  <2>4. p.oh # 0
    BY DEF p
  <2>5. oh \in Positive
    BY <2>2, <2>3, <2>4 DEF Positive
  <2>6. p \in PlaceRec /\ Scales(mode, p)
    BY <1>1, <2>2, <2>3, <2>5 DEF PlaceRec, Scales
  <2> QED
    BY <2>6 DEF p
<1>2. CASE mode = "blocks"
  <2> DEFINE ow == Render!Max({w, 1})
             oh == Render!Multiple(h, 2, 2)
  <2>1. p = Render!Cells(ow, oh, Render!Dots("blocks"))
    BY <1>2 DEF Render!Placed, Render!Blocks
  <2>2. Render!Dots("blocks") = [x |-> 1, y |-> 2]
    BY DEF Render!Dots
  <2>3. ow \in Positive /\ \E k \in Positive : oh = 2 * k
    <3>1. 2 \in Positive
      BY DEF Positive
    <3> QED
      BY <3>1, AtLeastOne, MultipleIs
  <2> HIDE DEF ow, oh, p
  <2>4. PICK k \in Positive : oh = 2 * k
    BY <2>3
  <2>5. p = [ow |-> ow, oh |-> oh, imgW |-> ow \div 1, imgH |-> oh \div 2,
             offX |-> (cols - (ow \div 1)) \div 2, offY |-> (rows - 1 - (oh \div 2)) \div 2]
    BY <2>1, <2>2 DEF Render!Cells
  <2>6. ow \div 1 = ow /\ oh \div 2 = k
    BY <2>3, <2>4, HalvesAre
  <2>7. cols - ow \in Int /\ rows - 1 - k \in Int /\ oh \in Positive /\ ow = 1 * ow
    BY <1>0, <2>3, <2>4 DEF Positive
  <2>8. (cols - ow) \div 2 \in Int /\ (rows - 1 - k) \div 2 \in Int
    BY <2>7
  <2>9. p \in PlaceRec /\ Scales(mode, p)
    <3>1. p = [ow |-> ow, oh |-> oh, imgW |-> ow, imgH |-> k, offX |-> (cols - ow) \div 2, offY |-> (rows - 1 - k) \div 2]
      BY <2>5, <2>6
    <3>2. p \in PlaceRec
      BY <2>3, <2>4, <2>7, <2>8, <3>1 DEF PlaceRec
    <3>3. Scales(mode, p)
      BY <1>2, <2>2, <2>4, <2>7, <3>1 DEF Scales
    <3> QED
      BY <3>2, <3>3
  <2> QED
    BY <2>9 DEF p
<1>3. CASE mode = "braille"
  <2> DEFINE ow == Render!Multiple(w, 2, 2)
             oh == Render!Multiple(h, 4, 4)
  <2>1. p = Render!Cells(ow, oh, Render!Dots("braille"))
    BY <1>3 DEF Render!Placed, Render!Braille
  <2>2. Render!Dots("braille") = [x |-> 2, y |-> 4]
    BY DEF Render!Dots
  <2>3. (\E k \in Positive : ow = 2 * k) /\ \E k \in Positive : oh = 4 * k
    <3>1. 2 \in Positive /\ 4 \in Positive
      BY DEF Positive
    <3> QED
      BY <3>1, MultipleIs
  <2> HIDE DEF ow, oh, p
  <2>4. PICK j \in Positive : ow = 2 * j
    BY <2>3
  <2>5. PICK k \in Positive : oh = 4 * k
    BY <2>3
  <2>6. p = [ow |-> ow, oh |-> oh, imgW |-> ow \div 2, imgH |-> oh \div 4,
             offX |-> (cols - (ow \div 2)) \div 2, offY |-> (rows - 1 - (oh \div 4)) \div 2]
    BY <2>1, <2>2 DEF Render!Cells
  <2>7. ow \div 2 = j /\ oh \div 4 = k
    BY <2>4, <2>5, HalvesAre
  <2>8. cols - j \in Int /\ rows - 1 - k \in Int /\ oh \in Positive /\ ow \in Positive
    BY <1>0, <2>4, <2>5 DEF Positive
  <2>9. (cols - j) \div 2 \in Int /\ (rows - 1 - k) \div 2 \in Int
    BY <2>8
  <2>10. p = [ow |-> ow, oh |-> oh, imgW |-> j, imgH |-> k, offX |-> (cols - j) \div 2, offY |-> (rows - 1 - k) \div 2]
    BY <2>6, <2>7
  <2>11. p \in PlaceRec
    BY <2>4, <2>5, <2>8, <2>9, <2>10 DEF PlaceRec
  <2>12. Scales(mode, p)
    BY <1>3, <2>2, <2>4, <2>5, <2>10 DEF Scales
  <2> QED
    BY <2>11, <2>12 DEF p
<1> QED
  BY <1>1, <1>2, <1>3 DEF PlaceInv

ClickInv == PlaceInv /\ Render!ClickLands /\ (click # None => placed # None)

LEMMA DrawHolds == ASSUME ClickInv, Render!Draw PROVE ClickInv'
<1> DEFINE aw == cols * Render!Dots(mode).x
           ah == (rows - 1) * Render!Dots(mode).y
<1>1. PICK w \in Render!Scaled(fw, aw, fh, ah), h \in Render!Scaled(fh, ah, fw, aw) :
        LET p == Render!Placed(w, h)
        IN IF p.oh = 0 \/ (mode = "sixel" /\ ah < 6)
           THEN placed' = IF placed = None THEN None ELSE [placed EXCEPT !.fw = fw, !.fh = fh]
           ELSE placed' = [place |-> p, mode |-> mode, fw |-> fw, fh |-> fh]
  BY DEF Render!Draw
<1>2. click' = None /\ UNCHANGED <<mode, cols, rows, fw, fh>>
  BY DEF Render!Draw
<1>3. aw \in Nat /\ ah \in Nat /\ fw \in Positive /\ fh \in Positive /\ mode \in {"sixel", "blocks", "braille"}
  <2>1. mode \in {"sixel", "blocks", "braille"} /\ fw \in Positive /\ fh \in Positive /\ cols \in Nat /\ rows - 1 \in Nat
    BY DEF ClickInv, PlaceInv, Positive
  <2>2. Render!Dots(mode).x \in Nat /\ Render!Dots(mode).y \in Nat
    BY <2>1, DotsArePositive DEF Positive
  <2> QED
    BY <2>1, <2>2
<1> HIDE DEF aw, ah
<1>4. w \in Nat /\ h \in Nat
  BY <1>3, ScaledIs
<1> DEFINE p == Render!Placed(w, h)
<1>5. \/ placed' = IF placed = None THEN None ELSE [placed EXCEPT !.fw = fw, !.fh = fh]
      \/ p.oh # 0 /\ placed' = [place |-> p, mode |-> mode, fw |-> fw, fh |-> fh]
  BY <1>1
<1>6. placed' # None => placed' \in DrawnRec /\ Scales(placed'.mode, placed'.place)
  <2>1. CASE placed' = IF placed = None THEN None ELSE [placed EXCEPT !.fw = fw, !.fh = fh]
    <3> SUFFICES ASSUME placed # None PROVE placed' \in DrawnRec /\ Scales(placed'.mode, placed'.place)
      BY <2>1
    <3>1. placed \in DrawnRec /\ Scales(placed.mode, placed.place)
      BY DEF ClickInv, PlaceInv
    <3>2. placed' \in DrawnRec /\ placed'.mode = placed.mode /\ placed'.place = placed.place
      BY <1>3, <2>1, <3>1 DEF DrawnRec
    <3> QED
      BY <3>1, <3>2
  <2>2. CASE p.oh # 0 /\ placed' = [place |-> p, mode |-> mode, fw |-> fw, fh |-> fh]
    <3>1. p \in PlaceRec /\ Scales(mode, p)
      BY <1>4, <2>2, PlacedIs DEF ClickInv
    <3> HIDE DEF p
    <3>2. placed' \in DrawnRec /\ placed'.mode = mode /\ placed'.place = p
      BY <1>3, <2>2, <3>1 DEF DrawnRec
    <3> QED
      BY <3>1, <3>2
  <2> QED
    BY <1>5, <2>1, <2>2
<1>7. PlaceInv'
  BY <1>2, <1>6 DEF ClickInv, PlaceInv
<1> QED
  BY <1>2, <1>7 DEF ClickInv, Render!ClickLands

LEMMA ChangeHolds == ASSUME ClickInv, Render!Change PROVE ClickInv'
<1>1. /\ mode' \in (IF mode = "sixel" THEN {mode} ELSE {"blocks", "braille"})
      /\ cols' \in Cols /\ rows' \in Lines /\ fw' \in Wide /\ fh' \in High /\ click = None /\ UNCHANGED <<placed, click>>
  BY DEF Render!Change
<1>2. PlaceInv'
  BY <1>1, RenderConstants DEF ClickInv, PlaceInv
<1> QED
  BY <1>1, <1>2 DEF ClickInv, Render!ClickLands

LEMMA MouseHolds == ASSUME ClickInv, NEW cx \in Nat, NEW cy \in Nat, Render!Mouse(cx, cy) PROVE ClickInv'
<1> DEFINE six == placed.mode = "sixel"
           d == Render!Dots(placed.mode)
           fx == IF six THEN (cx * CellW * placed.fw) \div placed.place.imgW
                 ELSE (Render!From(cx, placed.place.offX) * placed.fw) \div placed.place.imgW
           fy == IF six THEN (cy * CellH * placed.fh) \div placed.place.imgH
                 ELSE (Render!From(cy, placed.place.offY) * placed.fh) \div placed.place.imgH
<1>1. /\ placed # None /\ UNCHANGED <<mode, cols, rows, fw, fh, placed>>
      /\ click' = [cx |-> cx, cy |-> cy, fx |-> Render!Clamp(fx, placed.fw - 1), fy |-> Render!Clamp(fy, placed.fh - 1)]
  BY DEF Render!Mouse
<1>2. placed \in DrawnRec /\ Scales(placed.mode, placed.place)
  BY <1>1 DEF ClickInv, PlaceInv
<1>3. /\ placed.mode \in {"sixel", "blocks", "braille"} /\ placed.place \in PlaceRec
      /\ placed.fw \in Positive /\ placed.fh \in Positive
  BY <1>2 DEF DrawnRec
<1>4. /\ placed.place.ow \in Positive /\ placed.place.oh \in Positive /\ placed.place.imgW \in Positive
      /\ placed.place.imgH \in Positive /\ placed.place.offX \in Int /\ placed.place.offY \in Int
  BY <1>3 DEF PlaceRec
<1>5. d.x \in Positive /\ d.y \in Positive /\ (six => d.x = CellW /\ d.y = CellH)
  BY <1>3, DotsArePositive DEF Render!Dots
<1>6. /\ six \in BOOLEAN
      /\ six => placed.place.imgW = placed.place.ow /\ placed.place.imgH = placed.place.oh
                /\ placed.place.offX = 0 /\ placed.place.offY = 0
      /\ ~six => placed.place.ow = d.x * placed.place.imgW /\ placed.place.oh = d.y * placed.place.imgH
  BY <1>2 DEF Scales
<1>7. /\ fx = IF six THEN ((cx * d.x) * placed.fw) \div placed.place.imgW
              ELSE (Render!From(cx, placed.place.offX) * placed.fw) \div placed.place.imgW
      /\ fy = IF six THEN ((cy * d.y) * placed.fh) \div placed.place.imgH
              ELSE (Render!From(cy, placed.place.offY) * placed.fh) \div placed.place.imgH
  BY <1>5
<1> HIDE DEF fx, fy, six, d
<1>8. Render!Clamp(fx, placed.fw - 1) \in 0..(placed.fw - 1)
      /\ (cx >= placed.place.offX /\ (cx - placed.place.offX) * d.x < placed.place.ow =>
            Render!Clamp(fx, placed.fw - 1) \in Render!CellBox(cx - placed.place.offX, d.x, placed.fw, placed.place.ow))
  BY <1>3, <1>4, <1>5, <1>6, <1>7, SideLands
<1>9. Render!Clamp(fy, placed.fh - 1) \in 0..(placed.fh - 1)
      /\ (cy >= placed.place.offY /\ (cy - placed.place.offY) * d.y < placed.place.oh =>
            Render!Clamp(fy, placed.fh - 1) \in Render!CellBox(cy - placed.place.offY, d.y, placed.fh, placed.place.oh))
  BY <1>3, <1>4, <1>5, <1>6, <1>7, SideLands
<1>10. Render!ClickLands'
  <2>1. click'.cx = cx /\ click'.cy = cy /\ click'.fx = Render!Clamp(fx, placed.fw - 1) /\ click'.fy = Render!Clamp(fy, placed.fh - 1)
    BY <1>1
  <2> QED
    BY <1>1, <1>8, <1>9, <2>1 DEF Render!ClickLands, d
<1>11. PlaceInv'
  BY <1>1 DEF ClickInv, PlaceInv
<1> QED
  BY <1>1, <1>10, <1>11 DEF ClickInv

LEMMA ClickInit == TerminalsInit => ClickInv
<1> SUFFICES ASSUME TerminalsInit PROVE ClickInv
  OBVIOUS
<1>1. Render!Init
  BY DEF TerminalsInit
<1> QED
  BY <1>1, RenderConstants DEF Render!Init, ClickInv, PlaceInv, Render!ClickLands

LEMMA ClickNext == ClickInv /\ [TerminalsNext]_all => ClickInv'
<1> SUFFICES ASSUME ClickInv, [TerminalsNext]_all PROVE ClickInv'
  OBVIOUS
<1>1. CASE Render!Next
  <2>1. ASSUME NEW cx \in 0..(cols - 1), NEW cy \in 0..(rows - 1), Render!Mouse(cx, cy) PROVE ClickInv'
    <3>1. cx \in Nat /\ cy \in Nat
      BY DEF ClickInv, PlaceInv, Positive
    <3> QED
      BY <2>1, <3>1, MouseHolds
  <2> QED
    BY <1>1, <2>1, DrawHolds, ChangeHolds DEF Render!Next
<1>2. CASE UNCHANGED renderVars
  BY <1>2 DEF renderVars, ClickInv, PlaceInv, Render!ClickLands
<1> QED
  BY <1>1, <1>2 DEF TerminalsNext, all

LEMMA ClickAlways == TerminalsSpec => []ClickInv
  BY ClickInit, ClickNext, PTL DEF TerminalsSpec

-----------------------------------------------------------------------------
(* The keys: every byte that is on its way belongs to a key, and what was  *)
(* taken so far is what the keys before mean.                              *)

AllKeys == {"a", "esc", "up", "alt", "press", "release", "menu", "x", "r", "d"}

\* Bytes, and what is made of them.
Byte == AllKeys \cup {"E", "e", "[", "]", "A", "M", "m", "ctrl+alt+del", "ctrl+]"}

Long(k) == Len(Typing!Bytes(k))

\* Of the bytes q, the first c of them read (live: in a chunk), the j-th is the w[j]-th
\* of key o[j]; i of them are taken.  Of what was read only the last may be the Escape
\* key, and no chunk ends behind the escape that begins a longer key.
Owns(kseq, q, c, live, i, o, w) ==
  /\ i \in 0..Len(kseq)
  /\ Len(q) = 0 => i = Len(kseq)
  /\ Len(q) >= 1 => o[1] = i + 1 /\ w[1] = 1 /\ o[Len(q)] = Len(kseq) /\ w[Len(q)] = Long(kseq[Len(kseq)])
  /\ \A j \in 1..Len(q) : o[j] \in 1..Len(kseq) /\ w[j] \in 1..Long(kseq[o[j]]) /\ q[j] = Typing!Bytes(kseq[o[j]])[w[j]]
  /\ \A j \in 1..(Len(q) - 1) : IF w[j] < Long(kseq[o[j]]) THEN o[j + 1] = o[j] /\ w[j + 1] = w[j] + 1
                                ELSE o[j + 1] = o[j] + 1 /\ w[j + 1] = 1
  /\ \A j \in 1..Len(q) : j < c => kseq[o[j]] # "esc"
  /\ live /\ c < Len(q) => ~(w[c] = 1 /\ Long(kseq[o[c]]) > 1)

\* f tells what the first keys mean, for every number of them.
Tells(kseq, f) ==
  /\ DOMAIN f = 0..Len(kseq) /\ f[0] = [menu |-> FALSE, out |-> <<>>]
  /\ \A t \in 1..Len(kseq) : f[t] = Typing!After(f[t - 1], kseq[t])

LEMMA KeysAre == AnyKey \subseteq AllKeys
  BY TerminalsAssumption DEF Typing!ScreenAssumption, AllKeys

\* The last byte of a sequence.
EndOf(k) == CASE k = "up" -> "A" [] k = "press" -> "M" [] k = "release" -> "m" [] OTHER -> k

LEMMA BytesAre ==
  ASSUME NEW k \in AllKeys
  PROVE  /\ Typing!Bytes(k) \in Seq(Byte) /\ Len(Typing!Bytes(k)) \in 1..3
         /\ k = "esc" => Len(Typing!Bytes(k)) = 1 /\ Typing!Bytes(k)[1] = "E"
         /\ k = "menu" => Len(Typing!Bytes(k)) = 1 /\ Typing!Bytes(k)[1] = "]"
         /\ k \in {"a", "x", "r", "d"} => Len(Typing!Bytes(k)) = 1 /\ Typing!Bytes(k)[1] = k
         /\ k = "alt" => Len(Typing!Bytes(k)) = 2 /\ Typing!Bytes(k)[1] = "e" /\ Typing!Bytes(k)[2] = "a"
         /\ k \in {"up", "press", "release"} =>
              Len(Typing!Bytes(k)) = 3 /\ Typing!Bytes(k)[1] = "e" /\ Typing!Bytes(k)[2] = "[" /\ Typing!Bytes(k)[3] = EndOf(k)
<1>1. CASE k = "esc"
  BY <1>1 DEF Typing!Bytes, Byte, AllKeys
<1>2. CASE k = "menu"
  BY <1>2 DEF Typing!Bytes, Byte, AllKeys
<1>3. CASE k \in {"a", "x", "r", "d"}
  BY <1>3 DEF Typing!Bytes, Byte, AllKeys
<1>4. CASE k = "alt"
  BY <1>4 DEF Typing!Bytes, Byte, AllKeys
<1>5. CASE k = "up"
  BY <1>5 DEF Typing!Bytes, Byte, AllKeys, EndOf
<1>6. CASE k = "press"
  BY <1>6 DEF Typing!Bytes, Byte, AllKeys, EndOf
<1>7. CASE k = "release"
  BY <1>7 DEF Typing!Bytes, Byte, AllKeys, EndOf
<1> QED
  BY <1>1, <1>2, <1>3, <1>4, <1>5, <1>6, <1>7 DEF AllKeys

\* A long key begins with an escape that is not the Escape key's.
LEMMA EscapeBegins ==
  ASSUME NEW k \in AllKeys
  PROVE  /\ Len(Typing!Bytes(k)) > 1 => Typing!Bytes(k)[1] = "e"
         /\ k = "esc" => Len(Typing!Bytes(k)) = 1 /\ Typing!Bytes(k)[1] = "E"
<1>1. CASE k \in {"esc", "menu", "a", "x", "r", "d"}
  <2>1. Len(Typing!Bytes(k)) = 1
    BY <1>1, BytesAre
  <2> QED
    BY <2>1, BytesAre
<1>2. CASE k \in {"alt", "up", "press", "release"}
  BY <1>2, BytesAre
<1> QED
  BY <1>1, <1>2 DEF AllKeys

\* What one takes of b.
Taken(b) == [n : 0..Len(b), out : Seq(Byte), menu : BOOLEAN, quit : BOOLEAN]

LEMMA IsTaken ==
  ASSUME NEW b, NEW n \in 0..Len(b), NEW s \in Seq(Byte), NEW up \in BOOLEAN, NEW quit \in BOOLEAN
  PROVE  /\ Typing!Is(n, s, up, quit) \in Taken(b) /\ Typing!Is(n, s, up, quit).n = n
         /\ Typing!Is(n, s, up, quit).out = s /\ Typing!Is(n, s, up, quit).menu = up /\ Typing!Is(n, s, up, quit).quit = quit
  BY DEF Typing!Is, Taken

LEMMA SmallIs ==
  ASSUME NEW n \in Nat, n >= 1
  PROVE  /\ n # 0 /\ (n = 1 \/ n >= 2) /\ (n > 1 <=> n # 1) /\ (n < 3 \/ n >= 3) /\ 1 \in 1..n
  OBVIOUS

\* The first place that is not an alt's escape.
First(b) == Typing!Min({i \in 1..Len(b) : ~Typing!IsAlt(b, i)})

LEMMA FirstIs ==
  ASSUME NEW b \in Seq(Byte), Len(b) >= 1
  PROVE  /\ First(b) \in 1..Len(b) /\ ~Typing!IsAlt(b, First(b))
         /\ \A i \in 1..Len(b) : ~Typing!IsAlt(b, i) => First(b) <= i
<1> DEFINE S == {i \in 1..Len(b) : ~Typing!IsAlt(b, i)}
<1>1. Len(b) \in Nat /\ Len(b) \in 1..Len(b) /\ ~(Len(b) < Len(b))
  <2>1. Len(b) \in Nat
    BY LenProperties
  <2> QED
    BY <2>1
<1>2. Len(b) \in S
  BY <1>1 DEF Typing!IsAlt
<1>3. S \in SUBSET Nat /\ S # {}
  BY <1>1, <1>2
<1>4. \E x \in S : \A y \in S : x =< y
  <2> HIDE DEF S
  <2> QED
    BY <1>3, Least
<1>5. First(b) = CHOOSE x \in S : \A y \in S : x <= y
  BY DEF First, Typing!Min
<1>6. First(b) \in S /\ \A y \in S : First(b) <= y
  <2> HIDE DEF S
  <2> QED
    BY <1>4, <1>5
<1> QED
  BY <1>6

LEMMA FinalIs == ASSUME NEW x \in Byte PROVE Typing!Final(x) \in Byte
  BY DEF Typing!Final, Byte, AllKeys

LEMMA AtIs ==
  ASSUME NEW b \in Seq(Byte), NEW i \in 1..Len(b), ~Typing!IsAlt(b, i), NEW r, r = Typing!At(b, i)
  PROVE  r \in Taken(b) /\ (r.n = 0 => Len(b) >= 2 /\ b[Len(b)] = "[" /\ r.out = <<>>)
<1>0. Len(b) \in Nat /\ (\A j \in 1..Len(b) : b[j] \in Byte) /\ 0 \in 0..Len(b) /\ i \in 0..Len(b) /\ i # 0
  <2>1. Len(b) \in Nat
    BY LenProperties
  <2> QED
    BY <2>1, ElementOfSeq
<1>1. <<>> \in Seq(Byte) /\ \A s \in Byte : <<s>> \in Seq(Byte)
  BY EmptySeq
<1>2. "esc" \in Byte
  BY DEF Byte, AllKeys
<1>3. CASE b[i] = "]"
  <2>1. r = Typing!Is(i, <<>>, TRUE, FALSE)
    BY <1>3 DEF Typing!At
  <2> QED
    BY <1>0, <1>1, <2>1 DEF Typing!Is, Taken
<1>4. CASE b[i] # "]" /\ ~Typing!Escape(b[i])
  <2>1. r = Typing!Is(i, <<b[i]>>, FALSE, FALSE) /\ <<b[i]>> \in Seq(Byte)
    BY <1>0, <1>1, <1>4 DEF Typing!At
  <2> QED
    BY <1>0, <2>1 DEF Typing!Is, Taken
<1>5. CASE b[i] # "]" /\ Typing!Escape(b[i]) /\ i = Len(b)
  <2>1. r = Typing!Is(i, <<"esc">>, FALSE, FALSE) /\ <<"esc">> \in Seq(Byte)
    BY <1>1, <1>2, <1>5 DEF Typing!At
  <2> QED
    BY <1>0, <2>1 DEF Typing!Is, Taken
<1>6. CASE b[i] # "]" /\ Typing!Escape(b[i]) /\ i # Len(b) /\ i + 2 > Len(b)
  <2>1. r = Typing!Is(0, <<>>, FALSE, FALSE)
    BY <1>6 DEF Typing!At
  <2>2. i < Len(b) /\ i + 1 = Len(b) /\ Len(b) >= 2
    <3>1. PICK l \in Nat : l = Len(b)
      BY <1>0
    <3>2. i \in 1..l /\ i # l /\ i + 2 > l
      BY <1>6, <3>1
    <3>3. i < l /\ i + 1 = l /\ l >= 2
      BY <3>2
    <3> QED
      BY <3>1, <3>3
  <2>3. b[Len(b)] = "["
    BY <1>6, <2>2 DEF Typing!IsAlt
  <2> QED
    BY <1>0, <1>1, <2>1, <2>2, <2>3 DEF Typing!Is, Taken
<1>7. CASE b[i] # "]" /\ Typing!Escape(b[i]) /\ i # Len(b) /\ ~(i + 2 > Len(b))
  <2>1. r = Typing!Is(i + 2, <<Typing!Final(b[i + 2])>>, FALSE, FALSE)
    BY <1>7 DEF Typing!At
  <2>2. i + 2 \in 0..Len(b) /\ i + 2 \in 1..Len(b) /\ i + 2 # 0
    <3>1. PICK l \in Nat : l = Len(b)
      BY <1>0
    <3>2. i \in 1..l /\ ~(i + 2 > l)
      BY <1>7, <3>1
    <3>3. i + 2 \in 0..l /\ i + 2 \in 1..l /\ i + 2 # 0
      BY <3>2
    <3> QED
      BY <3>1, <3>3
  <2>3. <<Typing!Final(b[i + 2])>> \in Seq(Byte)
    <3>1. b[i + 2] \in Byte
      BY <1>0, <2>2
    <3>2. Typing!Final(b[i + 2]) \in Byte
      BY <3>1, FinalIs
    <3> QED
      BY <1>1, <3>2
  <2> QED
    BY <2>1, <2>2, <2>3 DEF Typing!Is, Taken
<1> QED
  BY <1>3, <1>4, <1>5, <1>6, <1>7

LEMMA OneIs ==
  ASSUME NEW b \in Seq(Byte), Len(b) >= 1, NEW up \in BOOLEAN, NEW r, r = Typing!One(b, up)
  PROVE  r \in Taken(b) /\ (r.n = 0 => Len(b) >= 2 /\ b[Len(b)] = "[" /\ r.out = <<>>)
<1>0. Len(b) \in Nat /\ 0 \in 0..Len(b) /\ 1 \in 0..Len(b) /\ Len(b) \in 0..Len(b) /\ Len(b) # 0
  <2>1. Len(b) \in Nat
    BY LenProperties
  <2> QED
    BY <2>1
<1>1. <<>> \in Seq(Byte) /\ \A s \in Byte : <<s>> \in Seq(Byte)
  BY EmptySeq
<1>2. "ctrl+alt+del" \in Byte /\ "ctrl+]" \in Byte
  BY DEF Byte, AllKeys
<1>3. <<"ctrl+alt+del">> \in Seq(Byte) /\ <<"ctrl+]">> \in Seq(Byte)
  BY <1>1, <1>2
<1>5. CASE up
  <2>1. r = Typing!MenuTakes(b)
    BY <1>5 DEF Typing!One
  <2>2. CASE r = Typing!Is(Len(b), <<>>, FALSE, TRUE)
    BY <1>0, <1>1, <2>2 DEF Typing!Is, Taken
  <2>3. CASE r = Typing!Is(1, <<"ctrl+alt+del">>, FALSE, FALSE)
    BY <1>0, <1>3, <2>3 DEF Typing!Is, Taken
  <2>4. CASE r = Typing!Is(1, <<"ctrl+]">>, FALSE, FALSE)
    BY <1>0, <1>3, <2>4 DEF Typing!Is, Taken
  <2>5. CASE r = Typing!Is(1, <<>>, FALSE, FALSE)
    BY <1>0, <1>1, <2>5 DEF Typing!Is, Taken
  <2> QED
    BY <2>1, <2>2, <2>3, <2>4, <2>5 DEF Typing!MenuTakes
<1>6. CASE ~up
  <2>1. r = Typing!At(b, First(b))
    BY <1>6 DEF Typing!One, First
  <2>2. First(b) \in 1..Len(b) /\ ~Typing!IsAlt(b, First(b))
    BY FirstIs
  <2> QED
    BY <2>1, <2>2, AtIs
<1> QED
  BY <1>5, <1>6

\* The bytes in front of those of key k: all of it is taken and means what the key
\* does, or the rest of it is waited for.
LEMMA OneMeans ==
  ASSUME NEW b \in Seq(Byte), Len(b) >= 1, menu \in BOOLEAN, NEW k \in AllKeys, got \in Seq(Byte),
         b[1] = Typing!Bytes(k)[1],
         Len(b) >= 2 /\ Len(Typing!Bytes(k)) >= 2 => b[2] = Typing!Bytes(k)[2],
         Len(b) >= 3 /\ Len(Typing!Bytes(k)) >= 3 => b[3] = Typing!Bytes(k)[3],
         k = "esc" => Len(b) = 1, Len(b) = 1 => Len(Typing!Bytes(k)) = 1,
         ~(menu /\ Typing!Escape(b[1]) /\ Len(b) > 1),
         NEW r, r = Typing!One(b, menu), ~r.quit, r.n # 0
  PROVE  /\ r.n = Len(Typing!Bytes(k)) /\ r.n <= Len(b)
         /\ Typing!After([menu |-> menu, out |-> got], k) = [menu |-> r.menu, out |-> got \o r.out]
<1>0. got \o <<>> = got /\ (\A s \in Byte : Append(got, s) = got \o <<s>>)
  BY EmptySeq
<1> DEFINE l == Len(b)
           m == Len(Typing!Bytes(k))
<1>1. l \in Nat /\ l >= 1 /\ m \in 1..3 /\ (k = "esc" => l = 1) /\ (l = 1 => m = 1)
  BY LenProperties, BytesAre
<1>2. (l >= 2 /\ m >= 2 => b[2] = Typing!Bytes(k)[2]) /\ (l >= 3 /\ m >= 3 => b[3] = Typing!Bytes(k)[3])
      /\ b[1] = Typing!Bytes(k)[1]
  OBVIOUS
<1> SUFFICES /\ r.n = m /\ r.n <= l
             /\ Typing!After([menu |-> menu, out |-> got], k) = [menu |-> r.menu, out |-> got \o r.out]
  OBVIOUS
<1>3. CASE menu
  <2>1. r = Typing!MenuTakes(b)
    BY <1>3 DEF Typing!One
  <2>2. b[1] # "d"
    <3> SUFFICES ASSUME b[1] = "d" PROVE FALSE
      OBVIOUS
    <3>1. r = Typing!Is(Len(b), <<>>, FALSE, TRUE)
      BY <2>1 DEF Typing!MenuTakes
    <3> QED
      BY <3>1 DEF Typing!Is
  <2>3. m = 1
    <3>1. b[1] = "e" => l = 1
      BY <1>1, <1>3, SmallIs DEF Typing!Escape
    <3>2. m > 1 => b[1] = "e"
      BY <1>2, EscapeBegins
    <3>3. m \in Nat /\ m >= 1
      BY <1>1
    <3> QED
      BY <1>1, <3>1, <3>2, <3>3, SmallIs
  <2>4. (k = "x" <=> b[1] = "x") /\ (k = "menu" <=> b[1] = "]")
    <3>1. CASE k = "x" \/ k = "menu"
      BY <1>2, <3>1, BytesAre
    <3>2. CASE k = "esc"
      BY <1>2, <3>2, BytesAre
    <3>3. CASE k \in {"a", "r", "d"}
      BY <1>2, <3>3, BytesAre
    <3>4. CASE k \in {"alt", "up", "press", "release"}
      BY <2>3, <3>4, BytesAre
    <3> QED
      BY <3>1, <3>2, <3>3, <3>4 DEF AllKeys
  <2>5. CASE k = "x"
    <3>1. r = Typing!Is(1, <<"ctrl+alt+del">>, FALSE, FALSE)
      BY <2>1, <2>4, <2>5 DEF Typing!MenuTakes
    <3>2. r.n = 1 /\ r.out = <<"ctrl+alt+del">> /\ r.menu = FALSE
      BY <3>1 DEF Typing!Is
    <3>3. Typing!After([menu |-> menu, out |-> got], k) = [menu |-> FALSE, out |-> got \o <<"ctrl+alt+del">>]
      BY <1>3, <2>5 DEF Typing!After
    <3> QED
      BY <1>1, <2>3, <3>2, <3>3
  <2>6. CASE k = "menu"
    <3>1. r = Typing!Is(1, <<"ctrl+]">>, FALSE, FALSE)
      BY <2>1, <2>4, <2>6 DEF Typing!MenuTakes
    <3>2. r.n = 1 /\ r.out = <<"ctrl+]">> /\ r.menu = FALSE
      BY <3>1 DEF Typing!Is
    <3>3. Typing!After([menu |-> menu, out |-> got], k) = [menu |-> FALSE, out |-> got \o <<"ctrl+]">>]
      BY <1>3, <2>6 DEF Typing!After
    <3> QED
      BY <1>1, <2>3, <3>2, <3>3
  <2>7. CASE k \notin {"x", "menu"}
    <3>1. r = Typing!Is(1, <<>>, FALSE, FALSE)
      BY <2>1, <2>2, <2>4, <2>7 DEF Typing!MenuTakes
    <3>2. r.n = 1 /\ r.out = <<>> /\ r.menu = FALSE
      BY <3>1 DEF Typing!Is
    <3>3. Typing!After([menu |-> menu, out |-> got], k) = [menu |-> FALSE, out |-> got \o <<>>]
      BY <1>3, <2>7 DEF Typing!After
    <3> QED
      BY <1>1, <2>3, <3>2, <3>3
  <2> QED
    BY <2>5, <2>6, <2>7
<1> DEFINE i == First(b)
<1>6. /\ i \in 1..l /\ ~Typing!IsAlt(b, i) /\ (\A j \in 1..l : ~Typing!IsAlt(b, j) => i <= j)
      /\ 1 \in 1..l
  <2>1. 1 \in 1..l
    BY <1>1, SmallIs
  <2> QED
    BY <2>1, FirstIs
<1>7. ~menu => r = Typing!At(b, i)
  BY DEF Typing!One, First
<1>8. ~Typing!IsAlt(b, 1) => i = 1
  <2> SUFFICES ASSUME ~Typing!IsAlt(b, 1) PROVE i = 1
    OBVIOUS
  <2>1. i \in 1..l /\ i <= 1 /\ l \in Nat
    BY <1>1, <1>6
  <2> HIDE DEF i, l
  <2> QED
    BY ONLY <2>1
<1> HIDE DEF i
<1>4. CASE ~menu /\ k = "menu"
  <2>1. b[1] = "]" /\ m = 1
    BY <1>2, <1>4, BytesAre
  <2>2. i = 1
    BY <1>8, <2>1 DEF Typing!IsAlt, Typing!Escape
  <2>3. r = Typing!Is(1, <<>>, TRUE, FALSE)
    BY <1>4, <1>7, <2>1, <2>2 DEF Typing!At
  <2>4. r.n = 1 /\ r.out = <<>> /\ r.menu = TRUE
    BY <2>3 DEF Typing!Is
  <2>5. Typing!After([menu |-> menu, out |-> got], k) = [menu |-> TRUE, out |-> got]
    BY <1>4 DEF Typing!After
  <2> QED
    BY <1>0, <1>1, <2>1, <2>4, <2>5
<1>5. CASE ~menu /\ k # "menu"
  <2>1. Typing!After([menu |-> menu, out |-> got], k) = [menu |-> FALSE, out |-> Append(got, IF k = "alt" THEN "a" ELSE k)]
    BY <1>5 DEF Typing!After
  <2>2. Append(got, IF k = "alt" THEN "a" ELSE k) = got \o <<IF k = "alt" THEN "a" ELSE k>>
    BY <1>0 DEF Byte, AllKeys
  <2> SUFFICES r.n = m /\ r.n <= l /\ r.menu = FALSE /\ r.out = <<IF k = "alt" THEN "a" ELSE k>>
    BY <2>1, <2>2
  <2>3. CASE k \in {"a", "x", "r", "d"}
    <3>1. b[1] = k /\ m = 1
      BY <1>2, <2>3, BytesAre
    <3>2. ~Typing!Escape(b[1]) /\ b[1] # "]"
      BY <2>3, <3>1 DEF Typing!Escape
    <3>3. i = 1
      BY <1>8, <3>2 DEF Typing!IsAlt
    <3>4. r = Typing!Is(1, <<k>>, FALSE, FALSE)
      BY <1>5, <1>7, <3>1, <3>2, <3>3 DEF Typing!At
    <3>5. r.n = 1 /\ r.out = <<k>> /\ r.menu = FALSE
      BY <3>4 DEF Typing!Is
    <3> QED
      BY <1>1, <2>3, <3>1, <3>5
  <2>4. CASE k = "esc"
    <3>1. b[1] = "E" /\ m = 1 /\ l = 1
      BY <1>1, <1>2, <2>4, BytesAre
    <3>2. i = 1
      BY <1>8, <3>1 DEF Typing!IsAlt
    <3>3. r = Typing!Is(1, <<"esc">>, FALSE, FALSE)
      BY <1>5, <1>7, <3>1, <3>2 DEF Typing!At, Typing!Escape
    <3>4. r.n = 1 /\ r.out = <<"esc">> /\ r.menu = FALSE
      BY <3>3 DEF Typing!Is
    <3> QED
      BY <1>1, <2>4, <3>1, <3>4
  <2>5. CASE k = "alt"
    <3>1. b[1] = "e" /\ m = 2 /\ Typing!Bytes(k)[2] = "a"
      BY <1>2, <2>5, BytesAre
    <3>2. l >= 2 /\ l # 1
      <4>1. m # 1
        BY <3>1
      <4>2. l \in Nat /\ l >= 1 /\ l # 1
        BY <1>1, <4>1
      <4> QED
        BY <4>2, SmallIs
    <3>3. b[2] = "a"
      BY <1>2, <3>1, <3>2
    <3>4. Typing!IsAlt(b, 1)
      <4>1. 1 < l /\ b[1 + 1] = "a"
        BY <3>2, <3>3, <1>1
      <4> QED
        BY <3>1, <4>1 DEF Typing!IsAlt, Typing!Escape
    <3>5. ~Typing!IsAlt(b, 2)
      BY <3>3 DEF Typing!IsAlt, Typing!Escape
    <3>6. i = 2
      <4>1. i # 1
        BY <1>6, <3>4
      <4>2. 2 \in 1..l
        <5> HIDE DEF l
        <5> QED
          BY <1>1, <3>2
      <4>3. i <= 2 /\ i \in 1..l /\ l \in Nat
        BY <1>1, <1>6, <3>5, <4>2
      <4> HIDE DEF l
      <4> QED
        BY ONLY <4>1, <4>3
    <3>7. r = Typing!Is(2, <<"a">>, FALSE, FALSE)
      BY <1>5, <1>7, <3>3, <3>6 DEF Typing!At, Typing!Escape
    <3>8. r.n = 2 /\ r.out = <<"a">> /\ r.menu = FALSE
      BY <3>7 DEF Typing!Is
    <3> QED
      BY <1>1, <2>5, <3>1, <3>2, <3>8
  <2>6. CASE k \in {"up", "press", "release"}
    <3>1. b[1] = "e" /\ m = 3 /\ Typing!Bytes(k)[2] = "[" /\ Typing!Bytes(k)[3] = EndOf(k)
      BY <1>2, <2>6, BytesAre
    <3>2. l >= 2 /\ l # 1
      <4>1. m # 1
        BY <3>1
      <4>2. l \in Nat /\ l >= 1 /\ l # 1
        BY <1>1, <4>1
      <4> QED
        BY <4>2, SmallIs
    <3>3. b[2] = "["
      BY <1>2, <3>1, <3>2
    <3>4. i = 1
      BY <1>8, <3>3 DEF Typing!IsAlt
    <3>5. r = IF 1 + 2 > l THEN Typing!Is(0, <<>>, FALSE, FALSE) ELSE Typing!Is(1 + 2, <<Typing!Final(b[1 + 2])>>, FALSE, FALSE)
      BY <1>5, <1>7, <3>1, <3>2, <3>4 DEF Typing!At, Typing!Escape
    <3>6. ~(1 + 2 > l)
      <4> SUFFICES ASSUME 1 + 2 > l PROVE FALSE
        OBVIOUS
      <4>1. r = Typing!Is(0, <<>>, FALSE, FALSE)
        BY <3>5
      <4> QED
        BY <4>1 DEF Typing!Is
    <3>7. l >= 3
      BY <1>1, <3>6
    <3>8. b[3] = EndOf(k)
      BY <1>2, <3>1, <3>7
    <3>9. r = Typing!Is(3, <<Typing!Final(b[3])>>, FALSE, FALSE)
      <4>1. 1 + 2 = 3
        OBVIOUS
      <4> QED
        BY <3>5, <3>6, <4>1
    <3>10. Typing!Final(b[3]) = k
      BY <2>6, <3>8 DEF Typing!Final, EndOf
    <3>11. r.n = 3 /\ r.out = <<k>> /\ r.menu = FALSE
      BY <3>9, <3>10 DEF Typing!Is
    <3> QED
      BY <2>6, <3>1, <3>7, <3>11
  <2> QED
    BY <1>5, <2>3, <2>4, <2>5, <2>6 DEF AllKeys
<1> QED
  BY <1>3, <1>4, <1>5

LEMMA LongIs == ASSUME NEW k \in AllKeys PROVE Long(k) \in 1..3
  BY BytesAre DEF Long

\* A key is taken.
LEMMA KeyTaken ==
  ASSUME NEW kseq \in Seq(AllKeys), NEW q \in Seq(Byte), NEW q2 \in Seq(Byte), NEW c \in 1..Len(q), NEW i, NEW o, NEW w,
         Owns(kseq, q, c, TRUE, i, o, w), NEW n, n = Long(kseq[i + 1]), n <= c,
         NEW live \in BOOLEAN, live <=> n # c, Len(q2) = Len(q) - n, \A j \in 1..Len(q2) : q2[j] = q[j + n]
  PROVE  \E o2, w2 : Owns(kseq, q2, c - n, live, i + 1, o2, w2)
<1> DEFINE T == Len(kseq)
           L == Len(q)
           L2 == Len(q2)
           o2 == [j \in 1..L2 |-> o[j + n]]
           w2 == [j \in 1..L2 |-> w[j + n]]
<1>0. T \in Nat /\ L \in Nat /\ L2 \in Nat /\ c \in 1..L /\ (\A t \in 1..T : kseq[t] \in AllKeys) /\ L2 = L - n
  BY LenProperties, ElementOfSeq
<1>1. /\ i \in 0..T
      /\ L >= 1 => o[1] = i + 1 /\ w[1] = 1 /\ o[L] = T /\ w[L] = Long(kseq[T])
      /\ \A j \in 1..L : o[j] \in 1..T /\ w[j] \in 1..Long(kseq[o[j]]) /\ q[j] = Typing!Bytes(kseq[o[j]])[w[j]]
      /\ \A j \in 1..(L - 1) : IF w[j] < Long(kseq[o[j]]) THEN o[j + 1] = o[j] /\ w[j + 1] = w[j] + 1
                               ELSE o[j + 1] = o[j] + 1 /\ w[j + 1] = 1
      /\ \A j \in 1..L : j < c => kseq[o[j]] # "esc"
      /\ c < L => ~(w[c] = 1 /\ Long(kseq[o[c]]) > 1)
  BY DEF Owns
<1> SUFFICES Owns(kseq, q2, c - n, live, i + 1, o2, w2)
  OBVIOUS
<1>2. L2 \in Nat /\ \A j \in 1..L2 : q2[j] = q[j + n] /\ o2[j] = o[j + n] /\ w2[j] = w[j + n]
  BY <1>0
<1>3. o[1] = i + 1 /\ w[1] = 1 /\ i + 1 \in 1..T /\ o[L] = T /\ w[L] = Long(kseq[T])
  BY <1>0, <1>1
<1>4. n \in 1..3
  BY <1>0, <1>3, LongIs
<1> HIDE DEF T, L, L2, o2, w2
<1>5. o[n] = i + 1 /\ w[n] = n
  <2>1. CASE n = 1
    BY <1>3, <2>1
  <2>2. CASE n = 2
    <3>1. 1 \in 1..(L - 1) /\ w[1] < Long(kseq[o[1]])
      BY <1>0, <1>3, <2>2
    <3>2. o[1 + 1] = o[1] /\ w[1 + 1] = w[1] + 1
      BY <1>1, <3>1
    <3>3. o[2] = i + 1 /\ w[2] = 2
      BY <1>3, <3>2
    <3> QED
      BY <2>2, <3>3
  <2>3. CASE n = 3
    <3>1. 1 \in 1..(L - 1) /\ 2 \in 1..(L - 1) /\ w[1] < Long(kseq[o[1]])
      BY <1>0, <1>3, <2>3
    <3>2. o[1 + 1] = o[1] /\ w[1 + 1] = w[1] + 1
      BY <1>1, <3>1
    <3>3. o[2] = i + 1 /\ w[2] = 2
      BY <1>3, <3>2
    <3>4. Long(kseq[o[2]]) = 3
      BY <2>3, <3>3
    <3>5. w[2] < Long(kseq[o[2]])
      BY <3>3, <3>4
    <3>6. o[2 + 1] = o[2] /\ w[2 + 1] = w[2] + 1
      BY <1>1, <3>1, <3>5
    <3>7. o[3] = i + 1 /\ w[3] = 3
      BY <3>3, <3>6
    <3> QED
      BY <2>3, <3>7
  <2> QED
    BY <1>4, <2>1, <2>2, <2>3
<1>6. L2 = 0 => i + 1 = T
  BY <1>0, <1>3, <1>4, <1>5
<1>7. L2 >= 1 => o2[1] = (i + 1) + 1 /\ w2[1] = 1 /\ o2[L2] = T /\ w2[L2] = Long(kseq[T])
  <2> SUFFICES ASSUME L2 >= 1 PROVE o2[1] = (i + 1) + 1 /\ w2[1] = 1 /\ o2[L2] = T /\ w2[L2] = Long(kseq[T])
    OBVIOUS
  <2>1. n \in 1..(L - 1) /\ 1 \in 1..L2 /\ L2 \in 1..L2 /\ 1 + n = n + 1 /\ L2 + n = L
    BY <1>0, <1>4
  <2>2. ~(w[n] < Long(kseq[o[n]]))
    BY <1>4, <1>5
  <2>3. o[n + 1] = o[n] + 1 /\ w[n + 1] = 1
    BY <1>1, <2>1, <2>2
  <2> QED
    BY <1>2, <1>3, <1>5, <2>1, <2>3
<1>8. ASSUME NEW j \in 1..L2
      PROVE  /\ o2[j] \in 1..T /\ w2[j] \in 1..Long(kseq[o2[j]]) /\ q2[j] = Typing!Bytes(kseq[o2[j]])[w2[j]]
             /\ j < c - n => kseq[o2[j]] # "esc"
  <2>1. j + n \in 1..L
    <3>1. L2 = L - n /\ L \in Nat /\ n \in Nat /\ L2 \in Nat
      BY ONLY <1>0, <1>4
    <3>2. j \in 1..L2
      OBVIOUS
    <3> QED
      BY ONLY <3>1, <3>2
  <2>2. j + n < c => kseq[o[j + n]] # "esc"
    BY <1>1, <2>1
  <2>3. j < c - n => j + n < c
    <3>1. j \in Int /\ n \in Int /\ c \in Int
      BY <1>0, <1>4
    <3> QED
      BY ONLY <3>1
  <2> QED
    BY <1>1, <1>2, <2>1, <2>2, <2>3
<1>9. ASSUME NEW j \in 1..(L2 - 1)
      PROVE  IF w2[j] < Long(kseq[o2[j]]) THEN o2[j + 1] = o2[j] /\ w2[j + 1] = w2[j] + 1
             ELSE o2[j + 1] = o2[j] + 1 /\ w2[j + 1] = 1
  <2>1. j + n \in 1..(L - 1) /\ j \in 1..L2 /\ j + 1 \in 1..L2 /\ (j + 1) + n = (j + n) + 1
    <3>1. L2 = L - n /\ L \in Nat /\ n \in Nat /\ L2 \in Nat
      BY ONLY <1>0, <1>4
    <3>0. j \in 1..(L2 - 1)
      OBVIOUS
    <3>2. j \in 1..L2 /\ j + 1 \in 1..L2
      BY ONLY <3>0, <3>1
    <3>3. j + n \in 1..(L - 1) /\ (j + 1) + n = (j + n) + 1
      BY ONLY <3>0, <3>1
    <3> QED
      BY <3>2, <3>3
  <2>2. IF w[j + n] < Long(kseq[o[j + n]]) THEN o[(j + n) + 1] = o[j + n] /\ w[(j + n) + 1] = w[j + n] + 1
        ELSE o[(j + n) + 1] = o[j + n] + 1 /\ w[(j + n) + 1] = 1
    BY <1>1, <2>1
  <2>3. o2[j] = o[j + n] /\ w2[j] = w[j + n] /\ o2[j + 1] = o[(j + n) + 1] /\ w2[j + 1] = w[(j + n) + 1]
    BY <1>2, <2>1
  <2> QED
    BY <2>2, <2>3
<1>10. live /\ c - n < L2 => ~(w2[c - n] = 1 /\ Long(kseq[o2[c - n]]) > 1)
  <2> SUFFICES ASSUME live, c - n < L2 PROVE ~(w2[c - n] = 1 /\ Long(kseq[o2[c - n]]) > 1)
    OBVIOUS
  <2>1. c - n \in 1..L2 /\ (c - n) + n = c /\ c < L
    <3>1. c \in Nat /\ n \in Nat /\ L \in Nat /\ L2 = L - n /\ n < c /\ c - n < L2 /\ n >= 1
      BY <1>0, <1>4
    <3> QED
      BY <3>1
  <2>2. o2[c - n] = o[c] /\ w2[c - n] = w[c]
    BY <1>2, <2>1
  <2> QED
    BY <1>1, <2>1, <2>2
<1>11. i + 1 \in 0..T
  BY <1>0, <1>3
<1> QED
  BY <1>6, <1>7, <1>8, <1>9, <1>10, <1>11 DEF Owns, T, L2

\* More is read, cut behind no escape of a longer key and with nothing behind an
\* Escape key; what is read is waited for.
LEMMA MoreIsRead ==
  ASSUME NEW kseq \in Seq(AllKeys), NEW q \in Seq(Byte), NEW c0, NEW c \in 1..Len(q), NEW i, NEW o, NEW w,
         Owns(kseq, q, c0, FALSE, i, o, w), q[c] # "e", \A j \in 1..Len(q) : j < c => j < c0 \/ q[j] # "E"
  PROVE  Owns(kseq, q, c, TRUE, i, o, w)
<1>0. \A j \in 1..Len(q) : o[j] \in 1..Len(kseq) /\ w[j] \in 1..Long(kseq[o[j]]) /\ q[j] = Typing!Bytes(kseq[o[j]])[w[j]]
  BY DEF Owns
<1>1. \A j \in 1..Len(q) : kseq[o[j]] \in AllKeys
  BY <1>0, ElementOfSeq
<1>2. ~(w[c] = 1 /\ Long(kseq[o[c]]) > 1)
  <2> SUFFICES ASSUME w[c] = 1, Long(kseq[o[c]]) > 1 PROVE FALSE
    OBVIOUS
  <2>1. q[c] = Typing!Bytes(kseq[o[c]])[1] /\ kseq[o[c]] \in AllKeys
    BY <1>0, <1>1
  <2>2. q[c] = "e"
    BY <2>1, EscapeBegins DEF Long
  <2> QED
    BY <2>2
<1>3. ASSUME NEW j \in 1..Len(q), j < c PROVE kseq[o[j]] # "esc"
  <2>1. CASE j < c0
    BY <2>1 DEF Owns
  <2>2. CASE q[j] # "E"
    <3> SUFFICES ASSUME kseq[o[j]] = "esc" PROVE FALSE
      OBVIOUS
    <3>1. Long(kseq[o[j]]) = 1 /\ Typing!Bytes(kseq[o[j]])[1] = "E"
      BY <1>1, EscapeBegins DEF Long
    <3>2. w[j] = 1
      <4>1. w[j] \in 1..1
        BY <1>0, <3>1
      <4> QED
        BY <4>1
    <3> QED
      BY <1>0, <2>2, <3>1, <3>2
  <2> QED
    BY <1>3, <2>1, <2>2
<1> QED
  BY <1>2, <1>3 DEF Owns

LEMMA RestIsAwaited ==
  ASSUME NEW kseq, NEW q, NEW c, NEW i, NEW o, NEW w, Owns(kseq, q, c, TRUE, i, o, w)
  PROVE  Owns(kseq, q, c, FALSE, i, o, w)
  BY DEF Owns

\* A key is typed behind the others.
LEMMA KeyTyped ==
  ASSUME NEW kseq \in Seq(AllKeys), NEW q \in Seq(Byte), NEW c, NEW live \in BOOLEAN, NEW i, NEW o, NEW w, NEW k \in AllKeys,
         Owns(kseq, q, c, live, i, o, w), c \in 0..Len(q), live => c \in 1..Len(q),
         NEW ks2, ks2 = Append(kseq, k), NEW q2, q2 = q \o Typing!Bytes(k)
  PROVE  \E o2, w2 : Owns(ks2, q2, c, live, i, o2, w2)
<1> DEFINE T == Len(kseq)
           L == Len(q)
           m == Long(k)
           o2 == [j \in 1..(L + m) |-> IF j <= L THEN o[j] ELSE T + 1]
           w2 == [j \in 1..(L + m) |-> IF j <= L THEN w[j] ELSE j - L]
<1>0. T \in Nat /\ L \in Nat /\ m \in 1..3 /\ (\A t \in 1..T : kseq[t] \in AllKeys) /\ Typing!Bytes(k) \in Seq(Byte)
  BY LenProperties, ElementOfSeq, LongIs, BytesAre
<1>1. ks2 \in Seq(AllKeys) /\ Len(ks2) = T + 1 /\ ks2[T + 1] = k /\ \A t \in 1..T : ks2[t] = kseq[t]
  BY AppendProperties
<1>2. /\ q2 \in Seq(Byte) /\ Len(q2) = L + m
      /\ \A j \in 1..(L + m) : q2[j] = IF j <= L THEN q[j] ELSE Typing!Bytes(k)[j - L]
  BY <1>0, ConcatProperties DEF Long
<1>3. /\ i \in 0..T
      /\ L = 0 => i = T
      /\ L >= 1 => o[1] = i + 1 /\ w[1] = 1 /\ o[L] = T /\ w[L] = Long(kseq[T])
      /\ \A j \in 1..L : o[j] \in 1..T /\ w[j] \in 1..Long(kseq[o[j]]) /\ q[j] = Typing!Bytes(kseq[o[j]])[w[j]]
      /\ \A j \in 1..(L - 1) : IF w[j] < Long(kseq[o[j]]) THEN o[j + 1] = o[j] /\ w[j + 1] = w[j] + 1
                               ELSE o[j + 1] = o[j] + 1 /\ w[j + 1] = 1
      /\ \A j \in 1..L : j < c => kseq[o[j]] # "esc"
      /\ live /\ c < L => ~(w[c] = 1 /\ Long(kseq[o[c]]) > 1)
  BY DEF Owns
<1> SUFFICES Owns(ks2, q2, c, live, i, o2, w2)
  OBVIOUS
<1>4. \A j \in 1..(L + m) : /\ o2[j] = IF j <= L THEN o[j] ELSE T + 1
                            /\ w2[j] = IF j <= L THEN w[j] ELSE j - L
  OBVIOUS
<1>5. live => c \in 1..L
  OBVIOUS
<1>6. c \in 0..L
  OBVIOUS
<1> HIDE DEF T, L, m, o2, w2
<1>7. \A j \in 1..L : j \in 1..(L + m) /\ o2[j] = o[j] /\ w2[j] = w[j] /\ q2[j] = q[j] /\ ks2[o2[j]] = kseq[o[j]]
  BY <1>0, <1>1, <1>2, <1>3, <1>4
<1>8. \A j \in 1..m : /\ L + j \in 1..(L + m) /\ o2[L + j] = T + 1 /\ w2[L + j] = j
                      /\ q2[L + j] = Typing!Bytes(k)[j] /\ ks2[o2[L + j]] = k
  <2> SUFFICES ASSUME NEW j \in 1..m
               PROVE  /\ L + j \in 1..(L + m) /\ o2[L + j] = T + 1 /\ w2[L + j] = j
                      /\ q2[L + j] = Typing!Bytes(k)[j] /\ ks2[o2[L + j]] = k
    OBVIOUS
  <2>1. L + j \in 1..(L + m) /\ ~(L + j <= L) /\ (L + j) - L = j
    BY <1>0
  <2> QED
    BY <1>1, <1>2, <1>4, <2>1
<1>9. \A j \in 1..(L + m) : j \in 1..L \/ (j - L \in 1..m /\ L + (j - L) = j)
  BY <1>0
<1>10. o2[1] = i + 1 /\ w2[1] = 1 /\ o2[L + m] = T + 1 /\ w2[L + m] = Long(ks2[T + 1])
  <2>1. o2[L + m] = T + 1 /\ w2[L + m] = m /\ m = Long(ks2[T + 1])
    <3>1. m \in 1..m
      BY <1>0
    <3> QED
      BY <1>1, <1>8, <3>1 DEF m
  <2>2. CASE L = 0
    <3>1. 1 \in 1..m /\ L + 1 = 1
      BY <1>0, <2>2
    <3>2. o2[1] = T + 1 /\ w2[1] = 1
      BY <1>8, <3>1
    <3> QED
      BY <1>3, <2>1, <2>2, <3>2
  <2>3. CASE L >= 1
    <3>1. 1 \in 1..L
      BY <1>0, <2>3
    <3> QED
      BY <1>3, <1>7, <2>1, <2>3, <3>1
  <2>4. L = 0 \/ L >= 1
    BY <1>0
  <2> QED
    BY <2>2, <2>3, <2>4
<1>11. ASSUME NEW j \in 1..(L + m)
       PROVE  /\ o2[j] \in 1..(T + 1) /\ w2[j] \in 1..Long(ks2[o2[j]]) /\ q2[j] = Typing!Bytes(ks2[o2[j]])[w2[j]]
              /\ j < c => ks2[o2[j]] # "esc"
  <2>1. CASE j \in 1..L
    <3>1. /\ o[j] \in 1..T /\ w[j] \in 1..Long(kseq[o[j]]) /\ q[j] = Typing!Bytes(kseq[o[j]])[w[j]]
          /\ j < c => kseq[o[j]] # "esc"
      BY <1>3, <2>1
    <3>2. o2[j] = o[j] /\ w2[j] = w[j] /\ q2[j] = q[j] /\ ks2[o2[j]] = kseq[o[j]]
      BY <1>7, <2>1
    <3>3. o2[j] \in 1..(T + 1)
      BY <1>0, <3>1, <3>2
    <3> QED
      BY <3>1, <3>2, <3>3
  <2>2. CASE j \notin 1..L
    <3>1. j - L \in 1..m /\ L + (j - L) = j
      BY <1>9, <2>2
    <3>2. o2[j] = T + 1 /\ w2[j] = j - L /\ q2[j] = Typing!Bytes(k)[j - L] /\ ks2[o2[j]] = k
      BY <1>8, <3>1
    <3>3. ~(j < c)
      <4>1. j \in Int /\ c \in 0..L /\ L \in Nat /\ m \in Nat /\ j - L \in 1..m
        BY <1>0, <1>6, <3>1
      <4> QED
        BY ONLY <4>1
    <3>5. T + 1 \in 1..(T + 1) /\ m = Long(k)
      BY <1>0 DEF m
    <3> QED
      BY <3>1, <3>2, <3>3, <3>5
  <2> QED
    BY <2>1, <2>2
<1>12. ASSUME NEW j \in 1..((L + m) - 1)
       PROVE  IF w2[j] < Long(ks2[o2[j]]) THEN o2[j + 1] = o2[j] /\ w2[j + 1] = w2[j] + 1
              ELSE o2[j + 1] = o2[j] + 1 /\ w2[j + 1] = 1
  <2>1. CASE j \in 1..(L - 1)
    <3>1. j \in 1..L /\ j + 1 \in 1..L
      BY <1>0, <2>1
    <3>2. o2[j] = o[j] /\ w2[j] = w[j] /\ ks2[o2[j]] = kseq[o[j]] /\ o2[j + 1] = o[j + 1] /\ w2[j + 1] = w[j + 1]
      BY <1>7, <3>1
    <3>3. IF w[j] < Long(kseq[o[j]]) THEN o[j + 1] = o[j] /\ w[j + 1] = w[j] + 1
          ELSE o[j + 1] = o[j] + 1 /\ w[j + 1] = 1
      BY <1>3, <2>1
    <3> QED
      BY <3>2, <3>3
  <2>2. CASE j = L
    <3>1. L >= 1 /\ j \in 1..L /\ 1 \in 1..m
      BY <1>0, <2>2
    <3>2. o2[j] = T /\ w2[j] = Long(kseq[T]) /\ ks2[o2[j]] = kseq[T]
      BY <1>3, <1>7, <2>2, <3>1
    <3>3. o2[L + 1] = T + 1 /\ w2[L + 1] = 1
      BY <1>8, <3>1
    <3>4. T \in 1..T
      BY <1>3, <2>2, <3>1, <1>0
    <3>5. Long(kseq[T]) \in 1..3
      BY <1>0, <3>4, LongIs
    <3>6. ~(w2[j] < Long(ks2[o2[j]]))
      BY <3>2, <3>5
    <3> QED
      BY <2>2, <3>2, <3>3, <3>6
  <2>3. CASE j \notin 1..L
    <3>1. j - L \in 1..m /\ (j - L) + 1 \in 1..m /\ L + (j - L) = j /\ L + ((j - L) + 1) = j + 1
      BY <1>0, <2>3
    <3>2. /\ o2[j] = T + 1 /\ w2[j] = j - L /\ ks2[o2[j]] = k
          /\ o2[j + 1] = T + 1 /\ w2[j + 1] = (j - L) + 1
      BY <1>8, <3>1
    <3>3. j - L < Long(k)
      BY <1>0, <3>1 DEF m
    <3> QED
      BY <3>2, <3>3
  <2>4. j \in 1..(L - 1) \/ j = L \/ j \notin 1..L
    <3>1. j \in Nat
      BY <1>0
    <3> QED
      BY <1>0, <3>1
  <2> QED
    BY <2>1, <2>2, <2>3, <2>4
<1>13. live /\ c < L + m => ~(w2[c] = 1 /\ Long(ks2[o2[c]]) > 1)
  <2> SUFFICES ASSUME live PROVE ~(w2[c] = 1 /\ Long(ks2[o2[c]]) > 1)
    OBVIOUS
  <2>1. c \in 1..L /\ w2[c] = w[c] /\ ks2[o2[c]] = kseq[o[c]]
    BY <1>5, <1>7
  <2>2. CASE c < L
    BY <1>3, <2>1, <2>2
  <2>3. CASE c = L
    <3>1. w[c] = Long(kseq[T]) /\ o[c] = T
      BY <1>0, <1>3, <2>1, <2>3
    <3>2. T \in 1..T
      BY <1>3, <2>1, <3>1
    <3>3. Long(kseq[T]) \in 1..3
      BY <1>0, <3>2, LongIs
    <3> QED
      BY <2>1, <3>1, <3>3
  <2>4. c < L \/ c = L
    <3>1. c \in 1..L
      BY <2>1
    <3> QED
      BY <1>0, <3>1
  <2> QED
    BY <2>2, <2>3, <2>4
<1>14. i \in 0..(T + 1) /\ L + m # 0
  BY <1>0, <1>3
<1>15. Len(q2) = L + m /\ Len(ks2) = T + 1
  BY <1>1, <1>2
<1> QED
  BY <1>10, <1>11, <1>12, <1>13, <1>14, <1>15 DEF Owns

\* What of the line is in the terminal's hands, in a read's and in input's.
Chunk == IF chunks = <<>> THEN <<>> ELSE Head(chunks)
InHand == pending \o Chunk
Line  == InHand \o stdin

InputOK ==
  /\ typed \in Seq(AllKeys) /\ stdin \in Seq(Byte) /\ pending \in Seq(Byte) /\ got \in Seq(Byte) /\ menu \in BOOLEAN
  /\ chunks = <<>> \/ \E s \in Seq(Byte) : Len(s) >= 1 /\ chunks = <<s>>
  /\ pending = <<>> \/ (Len(pending) >= 2 /\ pending[Len(pending)] = "[")

Accounted ==
  \E i, o, w, f : /\ Owns(typed, Line, Len(InHand), chunks # <<>>, i, o, w)
                  /\ Tells(typed, f) /\ f[i] = [menu |-> menu, out |-> got]

KeysOK == InputOK /\ (~astray /\ main # "over" => Accounted)

LEMMA LineIs ==
  ASSUME InputOK
  PROVE  /\ Chunk \in Seq(Byte) /\ InHand \in Seq(Byte) /\ Line \in Seq(Byte)
         /\ Len(InHand) \in Nat /\ Len(Line) \in Nat /\ Len(stdin) \in Nat /\ Len(Line) = Len(InHand) + Len(stdin)
         /\ \A j \in 1..Len(Line) : Line[j] = IF j <= Len(InHand) THEN InHand[j] ELSE stdin[j - Len(InHand)]
         /\ chunks = <<>> => InHand = pending
         /\ chunks # <<>> => Len(InHand) \in 1..Len(Line)
<1>1. Chunk \in Seq(Byte) /\ (chunks = <<>> => Chunk = <<>>) /\ (chunks # <<>> => Len(Chunk) >= 1)
  <2>1. CASE chunks = <<>>
    BY <2>1, EmptySeq DEF Chunk
  <2>2. CASE chunks # <<>>
    <3>1. PICK s \in Seq(Byte) : Len(s) >= 1 /\ chunks = <<s>>
      BY <2>2 DEF InputOK
    <3>2. Head(chunks) = s
      BY <3>1
    <3> QED
      BY <2>2, <3>1, <3>2 DEF Chunk
  <2> QED
    BY <2>1, <2>2
<1>2. pending \in Seq(Byte) /\ stdin \in Seq(Byte)
  BY DEF InputOK
<1>3. InHand \in Seq(Byte) /\ Len(InHand) = Len(pending) + Len(Chunk)
  BY <1>1, <1>2, ConcatProperties DEF InHand
<1>4. chunks = <<>> => InHand = pending
  BY <1>1, <1>2, ConcatEmptySeq DEF InHand
<1>5. Len(pending) \in Nat /\ Len(Chunk) \in Nat /\ Len(stdin) \in Nat /\ Len(InHand) \in Nat
  BY <1>1, <1>2, <1>3, LenProperties
<1> HIDE DEF InHand
<1>6. /\ Line \in Seq(Byte) /\ Len(Line) = Len(InHand) + Len(stdin)
      /\ \A j \in 1..(Len(InHand) + Len(stdin)) : Line[j] = IF j <= Len(InHand) THEN InHand[j] ELSE stdin[j - Len(InHand)]
  <2>1. InHand \in Seq(Byte) /\ stdin \in Seq(Byte)
    BY <1>2, <1>3
  <2>2. Line = InHand \o stdin
    BY DEF Line
  <2> QED
    BY ONLY <2>1, <2>2, ConcatProperties
<1>7. Len(Line) \in Nat
  BY <1>5, <1>6
<1>8. chunks # <<>> => Len(InHand) \in 1..Len(Line)
  BY <1>1, <1>3, <1>5, <1>6
<1> QED
  BY <1>1, <1>3, <1>4, <1>5, <1>6, <1>7, <1>8

LEMMA SameKeys ==
  ASSUME KeysOK, UNCHANGED <<typed, stdin, chunks, pending, menu, got, astray>>, main' # "over" => main # "over"
  PROVE  KeysOK'
<1>1. InputOK'
  BY DEF KeysOK, InputOK
<1>2. Line' = Line /\ InHand' = InHand
  BY DEF Line, InHand, Chunk
<1>3. Accounted => Accounted'
  BY <1>2 DEF Accounted
<1> QED
  BY <1>1, <1>3 DEF KeysOK

LEMMA ProbeHolds == ASSUME KeysOK, Typing!Probe PROVE KeysOK'
<1>1. chunks' = <<>> /\ astray' = TRUE /\ UNCHANGED <<typed, stdin, pending, menu, got>>
  BY DEF Typing!Probe
<1>2. InputOK'
  BY <1>1 DEF KeysOK, InputOK
<1> QED
  BY <1>1, <1>2 DEF KeysOK

LEMMA ReadHolds == ASSUME KeysOK, NEW n \in 1..3, Typing!ReadStdin(n) PROVE KeysOK'
<1> DEFINE s == SubSeq(stdin, 1, n)
           u == SubSeq(stdin, n + 1, Len(stdin))
<1>1. /\ n <= Len(stdin) /\ chunks = <<>> /\ chunks' = <<s>> /\ stdin' = u
      /\ UNCHANGED <<typed, pending, menu, got, main>>
      /\ ~astray' => ~astray /\ ~Typing!Torn(s)
  BY DEF Typing!ReadStdin, Typing!loop
<1>2. stdin \in Seq(Byte) /\ pending \in Seq(Byte) /\ InputOK
  BY DEF KeysOK, InputOK
<1>3. Len(stdin) \in Nat /\ n \in 1..Len(stdin) /\ \A j \in 1..Len(stdin) : stdin[j] \in Byte
  BY <1>1, <1>2, LenProperties, ElementOfSeq
<1>4. s \in Seq(Byte) /\ Len(s) = n /\ \A j \in 1..n : s[j] = stdin[j]
  <2>1. 1 \in Int /\ n \in Int /\ \A j \in 1..n : stdin[j] \in Byte
    BY <1>3
  <2>2. s \in Seq(Byte) /\ Len(s) = (IF 1 <= n THEN n - 1 + 1 ELSE 0) /\ \A j \in 1..(n - 1 + 1) : s[j] = stdin[1 + j - 1]
    BY <2>1, SubSeqProperties
  <2>3. n - 1 + 1 = n /\ 1 <= n /\ \A j \in 1..n : 1 + j - 1 = j
    BY <1>3
  <2> HIDE DEF s
  <2> QED
    BY <2>2, <2>3
<1>5. u \in Seq(Byte)
  <2>1. n + 1 \in Int /\ Len(stdin) \in Int /\ \A j \in (n + 1)..Len(stdin) : stdin[j] \in Byte
    BY <1>3
  <2> QED
    BY <2>1, SubSeqProperties
<1>6. s \o u = stdin
  <2>1. 1 \in 1..(Len(stdin) + 1) /\ n \in (1 - 1)..Len(stdin) /\ Len(stdin) \in n..Len(stdin)
    BY <1>3
  <2>2. s \o u = SubSeq(stdin, 1, Len(stdin))
    BY <1>2, <2>1, ConcatAdjacentSubSeq
  <2> QED
    BY <1>2, <2>2, SubSeqFull
<1> HIDE DEF s, u
<1>7. InputOK'
  <2>1. Len(s) >= 1
    BY <1>3, <1>4
  <2>2. chunks' = <<s>> /\ stdin' \in Seq(Byte)
    BY <1>1, <1>5
  <2> QED
    BY <1>1, <1>2, <1>4, <2>1, <2>2 DEF InputOK
<1>8. Chunk' = s
  <2>1. chunks' # <<>> /\ Head(chunks') = s
    BY <1>1
  <2> QED
    BY <2>1 DEF Chunk
<1>9. InHand = pending /\ InHand' = pending \o s
  BY <1>1, <1>2, <1>8, LineIs DEF InHand
<1>10. Line' = Line
  <2>1. Line' = (pending \o s) \o u
    BY <1>1, <1>9 DEF Line
  <2>2. (pending \o s) \o u = pending \o (s \o u)
    <3>1. pending \in Seq(Byte) /\ s \in Seq(Byte) /\ u \in Seq(Byte)
      BY <1>2, <1>4, <1>5
    <3> QED
      BY ONLY <3>1, ConcatAssociative
  <2>3. Line = pending \o stdin
    BY <1>9 DEF Line
  <2> QED
    BY <1>6, <2>1, <2>2, <2>3
<1>11. Len(InHand') = Len(pending) + n /\ Len(pending) \in Nat
  BY <1>2, <1>4, <1>9, ConcatProperties, LenProperties
<1>12. Len(Line) = Len(pending) + Len(stdin) /\ Line \in Seq(Byte)
       /\ \A j \in 1..Len(Line) : Line[j] = IF j <= Len(pending) THEN pending[j] ELSE stdin[j - Len(pending)]
  BY <1>2, <1>9, LineIs
<1> DEFINE c == Len(pending) + n
           c0 == Len(pending)
<1>13. ASSUME ~Typing!Torn(s)
       PROVE  /\ c \in 1..Len(Line) /\ Line[c] # "e"
              /\ \A j \in 1..Len(Line) : j < c => j < c0 \/ Line[j] # "E"
  <2>1. s[n] # "e" /\ \A j \in 1..(n - 1) : s[j] # "E"
    BY <1>4, <1>13 DEF Typing!Torn
  <2>2. c \in 1..Len(Line) /\ ~(c <= Len(pending)) /\ c - Len(pending) = n
    BY <1>3, <1>11, <1>12
  <2>3. Line[c] = stdin[n]
    BY <1>12, <2>2
  <2>4. n \in 1..n
    BY <1>3
  <2>5. Line[c] # "e"
    BY <1>4, <2>1, <2>3, <2>4
  <2>6. ASSUME NEW j \in 1..Len(Line), j < c, ~(j < c0) PROVE Line[j] # "E"
    <3>1. CASE j = c0
      <4>1. j <= Len(pending) /\ pending # <<>>
        <5>1. Len(pending) # 0
          BY <3>1, <1>12
        <5> QED
          BY <1>11, <3>1, <5>1, EmptySeq
      <4>2. Line[j] = pending[Len(pending)]
        BY <1>12, <3>1, <4>1
      <4> QED
        BY <1>2, <4>1, <4>2 DEF InputOK
    <3>2. CASE j # c0
      <4>1. j - c0 \in 1..(n - 1) /\ j - c0 \in 1..n /\ ~(j <= c0)
        <5>1. j \in Int /\ c0 \in Nat /\ n \in Nat /\ j < c0 + n /\ ~(j < c0) /\ j # c0
          BY <1>3, <1>11, <2>6, <3>2
        <5> HIDE DEF c0
        <5> QED
          BY ONLY <5>1
      <4>2. Line[j] = stdin[j - c0]
        BY <1>12, <4>1
      <4>3. s[j - c0] # "E"
        BY <2>1, <4>1
      <4>4. s[j - c0] = stdin[j - c0]
        BY <1>4, <4>1
      <4> QED
        BY <4>2, <4>3, <4>4
    <3> QED
      BY <3>1, <3>2
  <2> QED
    BY <2>2, <2>5, <2>6
<1>14. Len(InHand') = c
  BY <1>11
<1> HIDE DEF c
<1>15. ASSUME Accounted, ~Typing!Torn(s) PROVE Accounted'
  <2>1. PICK i, o, w, f : Owns(typed, Line, Len(InHand), chunks # <<>>, i, o, w)
                          /\ Tells(typed, f) /\ f[i] = [menu |-> menu, out |-> got]
    BY <1>15 DEF Accounted
  <2>2. Owns(typed, Line, c0, FALSE, i, o, w)
    <3>1. (chunks # <<>>) = FALSE /\ Len(InHand) = c0
      BY <1>1, <1>9
    <3> QED
      BY <2>1, <3>1
  <2>3. typed \in Seq(AllKeys)
    BY <1>2 DEF InputOK
  <2> HIDE DEF c0
  <2>4. Owns(typed, Line, c, TRUE, i, o, w)
    BY <1>12, <1>13, <1>15, <2>2, <2>3, MoreIsRead
  <2>5. (chunks' # <<>>) = TRUE
    BY <1>1
  <2>6. Owns(typed', Line', Len(InHand'), chunks' # <<>>, i, o, w)
    BY <1>1, <1>10, <1>14, <2>4, <2>5
  <2>7. Tells(typed', f) /\ f[i] = [menu |-> menu', out |-> got']
    BY <1>1, <2>1
  <2> QED
    BY <2>6, <2>7 DEF Accounted
<1> QED
  BY <1>1, <1>7, <1>15 DEF KeysOK

LEMMA TypeHolds == ASSUME KeysOK, NEW k \in AnyKey, Typing!Type(k) PROVE KeysOK'
<1>1. /\ main # "over" /\ typed' = Append(typed, k) /\ stdin' = stdin \o Typing!Bytes(k)
      /\ UNCHANGED <<chunks, pending, menu, got, astray, main>>
  BY DEF Typing!Type, Typing!loop
<1>2. stdin \in Seq(Byte) /\ pending \in Seq(Byte) /\ InputOK /\ typed \in Seq(AllKeys) /\ k \in AllKeys
  BY KeysAre DEF KeysOK, InputOK
<1>3. Typing!Bytes(k) \in Seq(Byte)
  BY <1>2, BytesAre
<1>4. typed' \in Seq(AllKeys) /\ stdin' \in Seq(Byte)
  BY <1>1, <1>2, <1>3, AppendProperties, ConcatProperties
<1>5. InputOK'
  BY <1>1, <1>2, <1>4 DEF InputOK
<1>6. InHand' = InHand
  BY <1>1 DEF InHand, Chunk
<1>7. InHand \in Seq(Byte) /\ Line \in Seq(Byte) /\ Len(Line) = Len(InHand) + Len(stdin) /\ Len(InHand) \in Nat
      /\ (\A j \in 1..Len(Line) : Line[j] = IF j <= Len(InHand) THEN InHand[j] ELSE stdin[j - Len(InHand)])
      /\ (chunks = <<>> => InHand = pending) /\ (chunks # <<>> => Len(InHand) \in 1..Len(Line))
  BY <1>2, LineIs
<1>8. Line' = Line \o Typing!Bytes(k)
  <2>1. Line' = InHand \o (stdin \o Typing!Bytes(k))
    BY <1>1, <1>6 DEF Line
  <2>2. (InHand \o stdin) \o Typing!Bytes(k) = InHand \o (stdin \o Typing!Bytes(k))
    <3>1. InHand \in Seq(Byte) /\ stdin \in Seq(Byte)
      BY <1>2, <1>7
    <3> QED
      BY <1>3, <3>1, ConcatAssociative
  <2> QED
    BY <2>1, <2>2 DEF Line
<1>9. ASSUME Accounted PROVE Accounted'
  <2>1. PICK i, o, w, f : Owns(typed, Line, Len(InHand), chunks # <<>>, i, o, w)
                          /\ Tells(typed, f) /\ f[i] = [menu |-> menu, out |-> got]
    BY <1>9 DEF Accounted
  <2> DEFINE T == Len(typed)
             L == Len(Line)
             c == Len(InHand)
  <2>2. T \in Nat /\ L \in Nat /\ i \in 0..T
    BY <1>2, <1>7, <2>1, LenProperties DEF Owns
  <2>4. \E o2, w2 : Owns(typed', Line', c, chunks # <<>>, i, o2, w2)
    <3> DEFINE live == chunks # <<>>
    <3>1. live => c \in 1..Len(Line)
      BY <1>7
    <3>2. c \in 0..Len(Line)
      <4>1. Len(stdin) \in Nat
        BY <1>2, LenProperties
      <4> QED
        BY <1>7, <4>1
    <3>3. Owns(typed, Line, c, live, i, o, w)
      BY <2>1
    <3>4. live \in BOOLEAN /\ typed \in Seq(AllKeys) /\ Line \in Seq(Byte) /\ k \in AllKeys /\ typed' = Append(typed, k)
      BY <1>1, <1>2, <1>7
    <3> HIDE DEF live, c
    <3>5. \E o2, w2 : Owns(typed', Line', c, live, i, o2, w2)
      BY <1>8, <3>1, <3>2, <3>3, <3>4, KeyTyped
    <3> QED
      BY <3>5 DEF live
  <2>5. PICK o2, w2 : Owns(typed', Line', c, chunks # <<>>, i, o2, w2)
    BY <2>4
  <2> DEFINE f2 == [t \in 0..(T + 1) |-> IF t <= T THEN f[t] ELSE Typing!After(f[T], k)]
  <2>6. Tells(typed', f2) /\ f2[i] = f[i]
    <3>1. DOMAIN f = 0..T /\ f[0] = [menu |-> FALSE, out |-> <<>>] /\ \A t \in 1..T : f[t] = Typing!After(f[t - 1], typed[t])
      BY <2>1 DEF Tells
    <3>2. Len(typed') = T + 1 /\ typed'[T + 1] = k /\ \A t \in 1..T : typed'[t] = typed[t]
      BY <1>1, <1>2, AppendProperties
    <3>3. DOMAIN f2 = 0..(T + 1) /\ (\A t \in 0..T : f2[t] = f[t]) /\ f2[T + 1] = Typing!After(f[T], k)
      BY <2>2
    <3> HIDE DEF T, f2
    <3>4. ASSUME NEW t \in 1..(T + 1) PROVE f2[t] = Typing!After(f2[t - 1], typed'[t])
      <4>1. CASE t \in 1..T
        <5>1. t \in 0..T /\ t - 1 \in 0..T
          BY <2>2, <4>1
        <5> QED
          BY <3>1, <3>2, <3>3, <4>1, <5>1
      <4>2. CASE t = T + 1
        <5>1. t - 1 = T /\ T \in 0..T
          BY <2>2, <4>2
        <5> QED
          BY <3>2, <3>3, <4>2, <5>1
      <4> QED
        BY <2>2, <4>1, <4>2
    <3>5. f2[0] = f[0] /\ f2[i] = f[i]
      BY <2>2, <3>3
    <3> QED
      BY <3>1, <3>2, <3>3, <3>4, <3>5 DEF Tells
  <2>7. f2[i] = [menu |-> menu', out |-> got']
    BY <1>1, <2>1, <2>6
  <2>8. Owns(typed', Line', Len(InHand'), chunks' # <<>>, i, o2, w2)
    BY <1>1, <1>6, <2>5
  <2> HIDE DEF f2
  <2> QED
    BY <2>6, <2>7, <2>8 DEF Accounted
<1> QED
  BY <1>1, <1>5, <1>9 DEF KeysOK

LEMMA OneChunk == ASSUME NEW s PROVE <<s>> # <<>> /\ Head(<<s>>) = s
  OBVIOUS

\* What input is left with.
LEMMA InputLeaves ==
  ASSUME InputOK, chunks # <<>>, NEW r, r = Typing!One(InHand, menu),
         pending' = IF r.n = 0 THEN InHand ELSE <<>>,
         chunks' = IF r.n \in {0, Len(InHand)} THEN <<>> ELSE <<SubSeq(InHand, r.n + 1, Len(InHand))>>,
         menu' = IF r.n = 0 THEN menu ELSE r.menu, got' = got \o r.out, UNCHANGED <<typed, stdin>>
  PROVE  /\ InputOK'
         /\ r.n = 0 => InHand' = InHand /\ Line' = Line /\ chunks' = <<>>
                       /\ UNCHANGED <<menu, got>>
         /\ r.n # 0 => /\ Len(InHand') = Len(InHand) - r.n /\ Len(Line') = Len(Line) - r.n
                       /\ (chunks' # <<>> <=> r.n # Len(InHand))
                       /\ \A j \in 1..Len(Line') : Line'[j] = Line[j + r.n]
<1> DEFINE b == InHand
           n == r.n
           c == Len(b)
           rest == SubSeq(b, n + 1, c)
<1>0. /\ b \in Seq(Byte) /\ c \in Nat /\ c >= 1 /\ Line \in Seq(Byte) /\ stdin \in Seq(Byte) /\ Len(stdin) \in Nat
      /\ Len(Line) = c + Len(stdin) /\ Len(Line) \in Nat
      /\ \A j \in 1..Len(Line) : Line[j] = IF j <= c THEN b[j] ELSE stdin[j - c]
  BY LineIs DEF InputOK
<1>1. typed \in Seq(AllKeys) /\ got \in Seq(Byte) /\ menu \in BOOLEAN
  BY DEF InputOK
<1>2. r \in Taken(b) /\ (r.n = 0 => Len(b) >= 2 /\ b[Len(b)] = "[" /\ r.out = <<>>)
  <2> HIDE DEF b
  <2> QED
    BY <1>0, <1>1, OneIs DEF b
<1>3. n \in 0..c /\ r.out \in Seq(Byte) /\ r.menu \in BOOLEAN
  BY <1>2 DEF Taken
<1>4. got' \in Seq(Byte) /\ menu' \in BOOLEAN /\ (n = 0 => got' = got /\ menu' = menu)
  BY <1>1, <1>2, <1>3, ConcatProperties, ConcatEmptySeq
<1>5. <<>> \in Seq(Byte) /\ Len(<<>>) = 0
  BY EmptySeq
<1>6. CASE n = 0
  <2>1. pending' = b /\ chunks' = <<>> /\ stdin' = stdin
    BY <1>6
  <2>2. c >= 2 /\ b[c] = "["
    BY <1>2, <1>6
  <2>3. InHand' = b \o <<>>
    BY <2>1 DEF InHand, Chunk
  <2>4. InHand' = b
    BY <1>0, <2>3, ConcatEmptySeq
  <2>5. Line' = Line
    BY <2>1, <2>4 DEF Line
  <2>6. InputOK'
    BY <1>0, <1>1, <1>4, <2>1, <2>2 DEF InputOK
  <2> QED
    BY <1>4, <1>6, <2>1, <2>4, <2>5, <2>6
<1>7. CASE n # 0 /\ n = c
  <2>1. pending' = <<>> /\ chunks' = <<>> /\ stdin' = stdin
    BY <1>7
  <2>2. InHand' = <<>> \o <<>>
    BY <2>1 DEF InHand, Chunk
  <2>3. InHand' = <<>>
    BY <1>5, <2>2, ConcatEmptySeq
  <2>4. Line' = <<>> \o stdin
    BY <2>1, <2>3 DEF Line
  <2>5. Line' = stdin
    BY <1>0, <2>4, ConcatEmptySeq
  <2>6. InputOK'
    BY <1>0, <1>1, <1>4, <1>5, <2>1 DEF InputOK
  <2>7. Len(InHand') = c - n /\ Len(Line') = Len(Line) - n
    BY <1>0, <1>5, <1>7, <2>3, <2>5
  <2>8. ASSUME NEW j \in 1..Len(Line') PROVE Line'[j] = Line[j + n]
    <3>1. j + n \in 1..Len(Line) /\ ~(j + n <= c) /\ (j + n) - c = j
      BY <1>0, <1>7, <2>5
    <3> QED
      BY <1>0, <2>5, <3>1
  <2> QED
    BY <1>7, <2>1, <2>6, <2>7, <2>8
<1>8. CASE n # 0 /\ n # c
  <2>1. pending' = <<>> /\ chunks' = <<rest>> /\ stdin' = stdin
    BY <1>8
  <2>2. rest \in Seq(Byte) /\ Len(rest) = c - n /\ \A j \in 1..(c - n) : rest[j] = b[n + j]
    <3>1. n + 1 \in Int /\ c \in Int /\ \A j \in (n + 1)..c : b[j] \in Byte
      BY <1>0, <1>3, ElementOfSeq
    <3>2. /\ rest \in Seq(Byte) /\ Len(rest) = IF n + 1 <= c THEN c - (n + 1) + 1 ELSE 0
          /\ \A j \in 1..(c - (n + 1) + 1) : rest[j] = b[(n + 1) + j - 1]
      <4> HIDE DEF b, n, c
      <4> QED
        BY ONLY <3>1, SubSeqProperties
    <3>3. n + 1 <= c /\ c - (n + 1) + 1 = c - n /\ \A j \in 1..(c - n) : (n + 1) + j - 1 = n + j
      BY <1>0, <1>3, <1>8
    <3> HIDE DEF rest
    <3> QED
      BY <3>2, <3>3
  <2> HIDE DEF rest
  <2>3. chunks' # <<>> /\ Head(chunks') = rest
    BY <2>1, OneChunk
  <2>4. InHand' = <<>> \o rest
    BY <2>1, <2>3 DEF InHand, Chunk
  <2>5. InHand' = rest
    BY <2>2, <2>4, ConcatEmptySeq
  <2>6. Line' = rest \o stdin
    BY <2>1, <2>5 DEF Line
  <2>7. Len(Line') = (c - n) + Len(stdin) /\ \A j \in 1..((c - n) + Len(stdin)) : Line'[j] = IF j <= c - n THEN rest[j] ELSE stdin[j - (c - n)]
    <3>1. stdin \in Seq(Byte) /\ rest \in Seq(Byte) /\ Len(rest) = c - n
      BY <1>0, <2>2
    <3> DEFINE l == rest \o stdin
    <3>2. Len(l) = Len(rest) + Len(stdin)
          /\ \A j \in 1..(Len(rest) + Len(stdin)) : l[j] = IF j <= Len(rest) THEN rest[j] ELSE stdin[j - Len(rest)]
      BY <3>1, ConcatProperties
    <3>3. Line' = l
      BY <2>6
    <3> HIDE DEF l
    <3> QED
      BY <3>1, <3>2, <3>3
  <2>8. Len(InHand') = c - n /\ Len(Line') = Len(Line) - n
    BY <1>0, <1>3, <2>2, <2>5, <2>7
  <2>9. ASSUME NEW j \in 1..Len(Line') PROVE Line'[j] = Line[j + n]
    <3>1. j + n \in 1..Len(Line) /\ j \in 1..((c - n) + Len(stdin)) /\ (j <= c - n <=> j + n <= c)
          /\ j - (c - n) = (j + n) - c /\ n + j = j + n
      BY <1>0, <1>3, <2>7
    <3>2. CASE j <= c - n
      <4>1. j \in 1..(c - n)
        BY <1>0, <1>3, <3>1, <3>2
      <4>2. Line'[j] = rest[j] /\ rest[j] = b[n + j]
        BY <2>2, <2>7, <3>1, <3>2, <4>1
      <4>3. Line[j + n] = b[j + n]
        BY <1>0, <3>1, <3>2
      <4> QED
        BY <3>1, <4>2, <4>3
    <3>3. CASE ~(j <= c - n)
      BY <1>0, <2>7, <3>1, <3>3
    <3> QED
      BY <3>2, <3>3
  <2>10. Len(rest) >= 1
    BY <1>0, <1>3, <1>8, <2>2
  <2>11. InputOK'
    BY <1>0, <1>1, <1>4, <1>5, <2>1, <2>2, <2>10 DEF InputOK
  <2> QED
    BY <1>8, <2>3, <2>8, <2>9, <2>11
<1> QED
  BY <1>6, <1>7, <1>8

LEMMA InputHolds == ASSUME KeysOK, Typing!Input PROVE KeysOK'
<1> DEFINE b == InHand
           r == Typing!One(InHand, menu)
<1>0. b = pending \o Head(chunks)
  BY DEF Typing!Input, InHand, Chunk
<1>1. /\ chunks # <<>> /\ pending' = (IF r.n = 0 THEN b ELSE <<>>)
      /\ chunks' = (IF r.n \in {0, Len(b)} THEN <<>> ELSE <<SubSeq(b, r.n + 1, Len(b))>>)
      /\ menu' = (IF r.n = 0 THEN menu ELSE r.menu) /\ got' = got \o r.out /\ UNCHANGED <<typed, stdin>>
  BY <1>0 DEF Typing!Input
<1>2. /\ ~astray' => ~astray /\ ~(menu /\ Typing!Escape(b[1]) /\ Len(b) > 1)
      /\ main' # "over" => main # "over" /\ ~r.quit
  <2>1. main = "select" /\ astray' = (astray \/ (menu /\ Typing!Escape(b[1]) /\ Len(b) > 1)) /\ main' = IF r.quit THEN "over" ELSE main
    BY <1>0 DEF Typing!Input
  <2> HIDE DEF r, b
  <2> QED
    BY <2>1
<1>3. InputOK
  BY DEF KeysOK
<1>4. /\ InputOK'
      /\ r.n = 0 => InHand' = InHand /\ Line' = Line /\ chunks' = <<>> /\ UNCHANGED <<menu, got>>
      /\ r.n # 0 => /\ Len(InHand') = Len(b) - r.n /\ Len(Line') = Len(Line) - r.n
                    /\ (chunks' # <<>> <=> r.n # Len(b))
                    /\ \A j \in 1..Len(Line') : Line'[j] = Line[j + r.n]
  BY <1>1, <1>3, InputLeaves
<1>5. /\ b \in Seq(Byte) /\ Line \in Seq(Byte) /\ Len(Line) \in Nat /\ Len(b) \in 1..Len(Line) /\ \A j \in 1..Len(b) : Line[j] = b[j]
  <2>1. /\ b \in Seq(Byte) /\ Line \in Seq(Byte) /\ Len(Line) \in Nat /\ Len(b) \in 1..Len(Line)
        /\ \A j \in 1..Len(Line) : Line[j] = IF j <= Len(b) THEN b[j] ELSE stdin[j - Len(b)]
    BY <1>1, <1>3, LineIs
  <2> HIDE DEF b
  <2> QED
    BY <2>1
<1>6. typed \in Seq(AllKeys) /\ got \in Seq(Byte) /\ menu \in BOOLEAN
  BY <1>3 DEF InputOK
<1>7. typed' \in Seq(AllKeys) /\ Line' \in Seq(Byte)
  <2>1. InputOK' /\ typed' = typed
    BY <1>1, <1>4
  <2>2. (InputOK => Line \in Seq(Byte))'
    BY LineIs, PTL
  <2> QED
    BY <1>6, <2>1, <2>2
<1> SUFFICES ASSUME Accounted, ~(menu /\ Typing!Escape(b[1]) /\ Len(b) > 1), ~r.quit PROVE Accounted'
  BY <1>2, <1>4 DEF KeysOK
<1>8. PICK i, o, w, f : Owns(typed, Line, Len(b), TRUE, i, o, w)
                        /\ Tells(typed, f) /\ f[i] = [menu |-> menu, out |-> got]
  <2>1. PICK i, o, w, f : Owns(typed, Line, Len(b), chunks # <<>>, i, o, w)
                          /\ Tells(typed, f) /\ f[i] = [menu |-> menu, out |-> got]
    BY DEF Accounted
  <2>2. (chunks # <<>>) = TRUE
    BY <1>1
  <2> QED
    BY <2>1, <2>2
<1>9. CASE r.n = 0
  <2>1. /\ InHand' = InHand /\ Line' = Line /\ chunks' = <<>> /\ UNCHANGED <<menu, got, typed>>
    BY <1>1, <1>4, <1>9
  <2>3. Owns(typed, Line, Len(b), FALSE, i, o, w)
    BY <1>8, RestIsAwaited
  <2>4. (chunks' # <<>>) = FALSE
    BY <2>1
  <2>5. Owns(typed', Line', Len(InHand'), chunks' # <<>>, i, o, w)
    BY <2>1, <2>3, <2>4
  <2>6. Tells(typed', f) /\ f[i] = [menu |-> menu', out |-> got']
    BY <1>8, <2>1
  <2> HIDE DEF r
  <2> QED
    BY <2>5, <2>6 DEF Accounted
<1>10. CASE r.n # 0
  <2> DEFINE k == typed[i + 1]
             c == Len(b)
             T == Len(typed)
             L == Len(Line)
  <2>1. /\ i \in 0..T
        /\ L >= 1 => o[1] = i + 1 /\ w[1] = 1 /\ o[L] = T /\ w[L] = Long(typed[T])
        /\ \A j \in 1..L : o[j] \in 1..T /\ w[j] \in 1..Long(typed[o[j]]) /\ Line[j] = Typing!Bytes(typed[o[j]])[w[j]]
        /\ \A j \in 1..(L - 1) : IF w[j] < Long(typed[o[j]]) THEN o[j + 1] = o[j] /\ w[j + 1] = w[j] + 1
                                 ELSE o[j + 1] = o[j] + 1 /\ w[j + 1] = 1
        /\ \A j \in 1..L : j < c => typed[o[j]] # "esc"
        /\ c < L => ~(w[c] = 1 /\ Long(typed[o[c]]) > 1)
    BY <1>8 DEF Owns
  <2>2. T \in Nat /\ L \in Nat /\ c \in 1..L /\ 1 \in 1..L /\ L >= 1
    BY <1>5, <1>6, LenProperties
  <2>3. o[1] = i + 1 /\ w[1] = 1 /\ o[L] = T /\ w[L] = Long(typed[T]) /\ i + 1 \in 1..T
    BY <2>1, <2>2
  <2>4. k \in AllKeys
    BY <1>6, <2>3, ElementOfSeq
  <2>5. Long(k) \in 1..3
    BY <2>4, LongIs
  <2> HIDE DEF b, r, c, T, L
  <2>6. b[1] = Typing!Bytes(k)[1]
    <3>1. Line[1] = Typing!Bytes(k)[1]
      BY <2>1, <2>2, <2>3
    <3>2. 1 \in 1..c
      BY <2>2
    <3> QED
      BY <1>5, <3>1, <3>2 DEF c
  <2>7. c >= 2 /\ Long(k) >= 2 => b[2] = Typing!Bytes(k)[2] /\ o[2] = i + 1 /\ w[2] = 2
    <3> SUFFICES ASSUME c >= 2, Long(k) >= 2 PROVE b[2] = Typing!Bytes(k)[2] /\ o[2] = i + 1 /\ w[2] = 2
      OBVIOUS
    <3>1. 1 \in 1..(L - 1) /\ 2 \in 1..L /\ 2 \in 1..c /\ w[1] < Long(typed[o[1]])
      BY <2>2, <2>3, <2>5
    <3>2. o[1 + 1] = o[1] /\ w[1 + 1] = w[1] + 1
      BY <2>1, <3>1
    <3>3. o[2] = i + 1 /\ w[2] = 2
      BY <2>3, <3>2
    <3>4. Line[2] = Typing!Bytes(k)[2]
      BY <2>1, <3>1, <3>3
    <3>5. b[2] = Line[2]
      BY <1>5, <3>1 DEF c
    <3> QED
      BY <3>3, <3>4, <3>5
  <2>8. c >= 3 /\ Long(k) >= 3 => b[3] = Typing!Bytes(k)[3]
    <3> SUFFICES ASSUME c >= 3, Long(k) >= 3 PROVE b[3] = Typing!Bytes(k)[3]
      OBVIOUS
    <3>1. c >= 2 /\ Long(k) >= 2
      BY <2>2, <2>5
    <3>2. o[2] = i + 1 /\ w[2] = 2
      BY <2>7, <3>1
    <3>3. 2 \in 1..(L - 1) /\ 3 \in 1..L /\ 3 \in 1..c
      BY <2>2
    <3>4. w[2] < Long(typed[o[2]])
      BY <2>5, <3>2
    <3>5. o[2 + 1] = o[2] /\ w[2 + 1] = w[2] + 1
      BY <2>1, <3>3, <3>4
    <3>6. o[3] = i + 1 /\ w[3] = 3
      BY <3>2, <3>5
    <3>7. Line[3] = Typing!Bytes(k)[3]
      BY <2>1, <3>3, <3>6
    <3>8. b[3] = Line[3]
      BY <1>5, <3>3 DEF c
    <3> QED
      BY <3>7, <3>8
  <2>9. k = "esc" => c = 1
    <3> SUFFICES ASSUME k = "esc" PROVE c = 1
      OBVIOUS
    <3>1. ~(1 < c)
      BY <2>1, <2>2, <2>3
    <3> QED
      BY <2>2, <3>1
  <2>10. c = 1 => Long(k) = 1
    <3> SUFFICES ASSUME c = 1 PROVE Long(k) = 1
      OBVIOUS
    <3>1. CASE c < L
      <4>1. ~(w[1] = 1 /\ Long(typed[o[1]]) > 1)
        BY <2>1, <3>1
      <4>2. ~(Long(k) > 1)
        BY <2>3, <4>1
      <4> QED
        BY <2>5, <4>2
    <3>2. CASE c = L
      <4>1. T = i + 1 /\ Long(typed[T]) = 1
        BY <2>3, <3>2
      <4> QED
        BY <4>1
    <3>3. c < L \/ c = L
      BY <2>2
    <3> QED
      BY <3>1, <3>2, <3>3
  <2>11. r.n = Long(k) /\ r.n <= c /\ Typing!After([menu |-> menu, out |-> got], k) = [menu |-> r.menu, out |-> got \o r.out]
    <3>1. c >= 1 /\ c = Len(b) /\ r = Typing!One(b, menu) /\ Long(k) = Len(Typing!Bytes(k))
      BY <2>2 DEF c, r, b, Long
    <3>2. b \in Seq(Byte) /\ got \in Seq(Byte) /\ menu \in BOOLEAN /\ k \in AllKeys /\ Len(b) >= 1 /\ r.n # 0
      BY <1>5, <1>6, <1>10, <2>4, <3>1
    <3>3. Len(b) >= 2 /\ Len(Typing!Bytes(k)) >= 2 => b[2] = Typing!Bytes(k)[2]
      BY <2>7, <3>1
    <3>4. Len(b) >= 3 /\ Len(Typing!Bytes(k)) >= 3 => b[3] = Typing!Bytes(k)[3]
      BY <2>8, <3>1
    <3>5. (k = "esc" => Len(b) = 1) /\ (Len(b) = 1 => Len(Typing!Bytes(k)) = 1)
      BY <2>9, <2>10, <3>1
    <3>6. ~(menu /\ Typing!Escape(b[1]) /\ Len(b) > 1) /\ ~r.quit
      OBVIOUS
    <3> HIDE DEF k
    <3>7. /\ r.n = Len(Typing!Bytes(k)) /\ r.n <= Len(b)
          /\ Typing!After([menu |-> menu, out |-> got], k) = [menu |-> r.menu, out |-> got \o r.out]
      BY <2>6, <3>1, <3>2, <3>3, <3>4, <3>5, <3>6, OneMeans
    <3> QED
      BY <3>1, <3>7
  <2> DEFINE live == chunks' # <<>>
  <2>12. live \in BOOLEAN /\ (live <=> r.n # c)
    BY <1>4, <1>10 DEF c
  <2>13. \E o2, w2 : Owns(typed, Line', c - r.n, live, i + 1, o2, w2)
    <3>1. Len(Line') = Len(Line) - r.n /\ \A j \in 1..Len(Line') : Line'[j] = Line[j + r.n]
      BY <1>4, <1>10
    <3>2. Owns(typed, Line, c, TRUE, i, o, w) /\ c \in 1..Len(Line)
      BY <1>8, <2>2 DEF c, L
    <3>3. r.n = Long(typed[i + 1]) /\ r.n <= c
      BY <2>11
    <3> DEFINE n == r.n
    <3>4. typed \in Seq(AllKeys) /\ Line \in Seq(Byte) /\ Line' \in Seq(Byte)
      BY <1>5, <1>6, <1>7
    <3> HIDE DEF k, n, live
    <3>5. \E o2, w2 : Owns(typed, Line', c - n, live, i + 1, o2, w2)
      BY <2>12, <3>1, <3>2, <3>3, <3>4, KeyTaken DEF n
    <3> QED
      BY <3>5 DEF n
  <2>14. f[i + 1] = [menu |-> menu', out |-> got']
    <3>1. f[i + 1] = Typing!After(f[(i + 1) - 1], typed[i + 1]) /\ (i + 1) - 1 = i
      BY <1>8, <2>1, <2>3 DEF Tells, T
    <3>2. menu' = r.menu /\ got' = got \o r.out
      BY <1>1, <1>10
    <3> QED
      BY <1>8, <2>11, <3>1, <3>2
  <2>15. Len(InHand') = c - r.n
    BY <1>4, <1>10 DEF c
  <2>16. PICK o2, w2 : Owns(typed, Line', c - r.n, live, i + 1, o2, w2)
    BY <2>13
  <2>17. Owns(typed', Line', Len(InHand'), chunks' # <<>>, i + 1, o2, w2)
    BY <1>1, <2>15, <2>16
  <2>18. Tells(typed', f)
    BY <1>1, <1>8
  <2> QED
    BY <2>14, <2>17, <2>18 DEF Accounted
<1> QED
  BY <1>9, <1>10

KeyInv == part = "typing" => KeysOK

LEMMA OthersHold ==
  ASSUME KeysOK,
         \/ Typing!Paint \/ Typing!Answer \/ Typing!Serve \/ Typing!ReadUpdate \/ Typing!Publish \/ Typing!Count
         \/ Typing!AskNext \/ Typing!Gone \/ Typing!Winch \/ Typing!Probed \/ Typing!Fit \/ Typing!Tick \/ Typing!Draw
         \/ Typing!Noted \/ Typing!Done
  PROVE  KeysOK'
<1>1. UNCHANGED <<typed, stdin, chunks, pending, menu, got, astray>>
  <2>1. CASE Typing!Paint \/ Typing!Answer \/ Typing!Serve \/ Typing!ReadUpdate \/ Typing!Publish \/ Typing!Count \/ Typing!AskNext
    BY <2>1 DEF Typing!Paint, Typing!Answer, Typing!Serve, Typing!ReadUpdate, Typing!Publish, Typing!Count, Typing!AskNext, Typing!input
  <2>2. CASE Typing!Gone \/ Typing!Winch \/ Typing!Probed \/ Typing!Fit \/ Typing!Tick \/ Typing!Draw \/ Typing!Noted \/ Typing!Done
    BY <2>2 DEF Typing!Gone, Typing!Winch, Typing!Probed, Typing!Fit, Typing!Tick, Typing!Draw, Typing!Noted, Typing!Done, Typing!input
  <2> QED
    BY <2>1, <2>2
<1>2. main' # "over" => main # "over"
  <2>1. CASE Typing!Paint \/ Typing!Answer \/ Typing!Serve \/ Typing!ReadUpdate \/ Typing!Publish \/ Typing!Count \/ Typing!AskNext
             \/ Typing!Gone \/ Typing!Winch
    BY <2>1 DEF Typing!Paint, Typing!Answer, Typing!Serve, Typing!ReadUpdate, Typing!Publish, Typing!Count, Typing!AskNext,
                Typing!Gone, Typing!Winch, Typing!loop
  <2>2. CASE Typing!Probed \/ Typing!Fit \/ Typing!Tick \/ Typing!Draw \/ Typing!Noted \/ Typing!Done
    BY <2>2 DEF Typing!Probed, Typing!Fit, Typing!Tick, Typing!Draw, Typing!Noted, Typing!Done
  <2> QED
    BY <2>1, <2>2
<1> QED
  BY <1>1, <1>2, SameKeys

LEMMA KeysInit == TerminalsInit => KeyInv
<1> SUFFICES ASSUME TerminalsInit PROVE KeysOK
  BY DEF KeyInv
<1>1. /\ typed = <<>> /\ stdin = <<>> /\ chunks = <<>> /\ pending = <<>> /\ menu = FALSE /\ got = <<>>
  BY DEF TerminalsInit, Picture!Init
<1>2. \A S : <<>> \in Seq(S) /\ Len(<<>>) = 0
  BY EmptySeq
<1>3. InputOK
  BY <1>1, <1>2 DEF InputOK
<1>4. Len(InHand) \in Nat /\ Len(Line) = 0
  <2>1. InHand = pending /\ Len(Line) = Len(InHand) + Len(stdin)
    BY <1>1, <1>3, LineIs
  <2> QED
    BY <1>1, <1>2, <2>1
<1> DEFINE f == [t \in 0..0 |-> [menu |-> FALSE, out |-> <<>>]]
           o == <<>>
<1>5. Tells(typed, f) /\ f[0] = [menu |-> menu, out |-> got]
  <2>1. f[0] = [menu |-> FALSE, out |-> <<>>] /\ DOMAIN f = 0..0
    <3>1. 0 \in 0..0
      OBVIOUS
    <3> QED
      BY <3>1
  <2>2. Len(typed) = 0
    BY <1>1, <1>2
  <2>3. 1..0 = {}
    OBVIOUS
  <2> HIDE DEF f
  <2>4. f[0] = [menu |-> menu, out |-> got]
    BY <1>1, <2>1
  <2> QED
    BY <2>1, <2>2, <2>3, <2>4 DEF Tells
<1>6. Owns(typed, Line, Len(InHand), chunks # <<>>, 0, o, o)
  <2>1. Len(typed) = 0 /\ chunks = <<>>
    BY <1>1, <1>2
  <2> HIDE DEF o
  <2> QED
    BY <1>4, <2>1 DEF Owns
<1> HIDE DEF f, o
<1>7. Accounted
  BY <1>5, <1>6 DEF Accounted
<1> QED
  BY <1>3, <1>7 DEF KeysOK

LEMMA KeysNext == KeyInv /\ [TerminalsNext]_all => KeyInv'
<1> SUFFICES ASSUME KeyInv, [TerminalsNext]_all, part' = "typing" PROVE KeysOK'
  BY DEF KeyInv
<1>1. part = "typing" /\ KeysOK
  BY DEF TerminalsNext, all, KeyInv
<1>2. CASE Typing!Next
  <2>1. ASSUME NEW k \in AnyKey, Typing!Type(k) PROVE KeysOK'
    BY <1>1, <2>1, TypeHolds
  <2>2. ASSUME NEW n \in 1..3, Typing!ReadStdin(n) PROVE KeysOK'
    BY <1>1, <2>2, ReadHolds
  <2>3. CASE Typing!Input \/ Typing!Probe
    BY <1>1, <2>3, InputHolds, ProbeHolds
  <2> QED
    BY <1>1, <1>2, <2>1, <2>2, <2>3, OthersHold DEF Typing!Next
<1>3. CASE UNCHANGED screenVars
  <2>1. UNCHANGED <<typed, stdin, chunks, pending, menu, got, astray, main>>
    BY <1>3 DEF screenVars
  <2> QED
    BY <1>1, <2>1, SameKeys
<1>4. Typing!Next \/ UNCHANGED screenVars
  BY <1>1 DEF TerminalsNext, all
<1> QED
  BY <1>2, <1>3, <1>4

LEMMA KeysAlways == TerminalsSpec => []KeyInv
  BY KeysInit, KeysNext, PTL DEF TerminalsSpec

\* There is one function that tells what the keys mean.
LEMMA OneSense ==
  ASSUME NEW kseq \in Seq(AllKeys), NEW f, f = [t \in 0..Len(kseq) |-> f[t]], Tells(kseq, f)
  PROVE  Typing!Senses(kseq) = f
<1> DEFINE n == Len(kseq)
           start == [menu |-> FALSE, out |-> <<>>]
           Tell(h) == [t \in 0..n |-> IF t = 0 THEN start ELSE Typing!After(h[t - 1], kseq[t])]
<1>0. n \in Nat
  BY LenProperties
<1>1. Typing!Senses(kseq) = CHOOSE h : h = Tell(h)
  BY DEF Typing!Senses
<1>2. DOMAIN f = 0..n /\ f[0] = start /\ \A t \in 1..n : f[t] = Typing!After(f[t - 1], kseq[t])
  BY DEF Tells
<1> HIDE DEF n, start
<1>3. f = Tell(f)
  <2>1. \A t \in 0..n : f[t] = IF t = 0 THEN start ELSE Typing!After(f[t - 1], kseq[t])
    <3>1. \A t \in 0..n : t = 0 \/ t \in 1..n
      BY <1>0
    <3> QED
      BY <1>2, <3>1
  <2>2. f = [t \in 0..n |-> f[t]]
    BY DEF n
  <2> QED
    BY <2>1, <2>2
<1>4. ASSUME NEW h, h = Tell(h) PROVE h = f
  <2>1. DOMAIN h = 0..n /\ h[0] = start /\ \A t \in 1..n : h[t] = Typing!After(h[t - 1], kseq[t])
    <3>1. DOMAIN h = 0..n /\ \A t \in 0..n : h[t] = IF t = 0 THEN start ELSE Typing!After(h[t - 1], kseq[t])
      BY <1>4
    <3>2. 0 \in 0..n /\ \A t \in 1..n : t \in 0..n /\ t # 0
      BY <1>0
    <3> HIDE DEF Tell
    <3> QED
      BY <3>1, <3>2
  <2> DEFINE Bad == {t \in 0..n : h[t] # f[t]}
  <2>2. Bad = {}
    <3> SUFFICES ASSUME Bad # {} PROVE FALSE
      OBVIOUS
    <3>1. Bad \in SUBSET Nat
      BY <1>0
    <3>2. PICK t \in Bad : \A y \in Bad : t <= y
      BY <3>1, Least
    <3>3. t \in 0..n /\ h[t] # f[t]
      BY <3>2
    <3>4. t # 0
      BY <1>2, <2>1, <3>3
    <3>5. t \in 1..n /\ t - 1 \in 0..n /\ ~(t <= t - 1)
      BY <1>0, <3>3, <3>4
    <3>6. h[t - 1] = f[t - 1]
      BY <3>2, <3>5
    <3> QED
      BY <1>2, <2>1, <3>3, <3>5, <3>6
  <2>3. \A t \in 0..n : h[t] = f[t]
    BY <2>2
  <2>4. h = [t \in 0..n |-> h[t]] /\ f = [t \in 0..n |-> f[t]]
    <3>1. h = [t \in 0..n |-> h[t]]
      BY <1>4, <2>1
    <3>2. f = [t \in 0..n |-> f[t]]
      BY DEF n
    <3> QED
      BY <3>1, <3>2
  <2> HIDE DEF Tell
  <2> QED
    BY <2>3, <2>4
<1> HIDE DEF Tell
<1> QED
  BY <1>1, <1>3, <1>4

\* KeyInv gives KeysArrive.
LEMMA KeysHold == ASSUME KeyInv, part = "typing" PROVE Typing!KeysArrive
<1> SUFFICES ASSUME ~astray, Typing!Consumed PROVE got = Typing!Meant(typed).out /\ menu = Typing!Meant(typed).menu
  BY DEF Typing!KeysArrive, Typing!AnyOtherKeyBack
<1>1. stdin = <<>> /\ chunks = <<>> /\ pending = <<>> /\ main # "over"
  BY DEF Typing!Consumed
<1>2. InputOK /\ Accounted
  BY <1>1 DEF KeyInv, KeysOK
<1>3. Len(Line) = 0
  <2>1. \A S : <<>> \in Seq(S) /\ Len(<<>>) = 0
    BY EmptySeq
  <2>2. InHand = pending /\ Len(Line) = Len(InHand) + Len(stdin)
    BY <1>1, <1>2, LineIs
  <2> QED
    BY <1>1, <2>1, <2>2
<1>4. PICK i, o, w, f : Owns(typed, Line, Len(InHand), chunks # <<>>, i, o, w)
                        /\ Tells(typed, f) /\ f[i] = [menu |-> menu, out |-> got]
  BY <1>2 DEF Accounted
<1>5. typed \in Seq(AllKeys) /\ Len(typed) \in Nat
  BY <1>2, LenProperties DEF InputOK
<1>6. i = Len(typed)
  BY <1>3, <1>4, <1>5 DEF Owns
<1> DEFINE g == [t \in 0..Len(typed) |-> f[t]]
<1>7. g = [t \in 0..Len(typed) |-> g[t]]
  OBVIOUS
<1>8. Tells(typed, g) /\ g[Len(typed)] = f[Len(typed)]
  <2>1. \A t \in 0..Len(typed) : g[t] = f[t]
    OBVIOUS
  <2>2. \A t \in 1..Len(typed) : t \in 0..Len(typed) /\ t - 1 \in 0..Len(typed)
    BY <1>5
  <2>3. 0 \in 0..Len(typed) /\ Len(typed) \in 0..Len(typed)
    BY <1>5
  <2>4. DOMAIN g = 0..Len(typed)
    OBVIOUS
  <2> HIDE DEF g
  <2> QED
    BY <1>4, <2>1, <2>2, <2>3, <2>4 DEF Tells
<1> HIDE DEF g
<1>9. Typing!Senses(typed) = g
  BY <1>5, <1>7, <1>8, OneSense
<1> QED
  BY <1>4, <1>6, <1>8, <1>9 DEF Typing!Meant

\* Where nothing is left to draw the terminal shows the newest frame; every key reaches
\* the guest as it was typed where the probe swallowed none, the menu tore none, no read
\* was cut right behind the escape of a longer key and none held more behind an Escape
\* key; and a click is at a pixel of the cell it is on (publish, runScreen, input, one,
\* csi, mouse).
THEOREM ScreenStaysSound == TerminalsSpec => []ScreenIsSound
<1>1. FrameInv /\ KeyInv /\ ClickInv => ScreenIsSound
  <2> SUFFICES ASSUME FrameInv, KeyInv, ClickInv PROVE ScreenIsSound
    OBVIOUS
  <2>1. Picture!FrameShown /\ Typing!FrameShown
    BY FrameHolds
  <2>2. part = "typing" => Typing!KeysArrive
    BY KeysHold
  <2>3. part = "render" => Render!ClickLands
    BY DEF ClickInv
  <2> QED
    BY <2>1, <2>2, <2>3 DEF ScreenIsSound
<1> QED
  BY <1>1, FrameAlways, KeysAlways, ClickAlways, PTL
=============================================================================
