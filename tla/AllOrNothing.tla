---------------------------- MODULE AllOrNothing ----------------------------
(***************************************************************************)
(* What an operation of several steps promises: when it says it is done,   *)
(* all of its parts are there; when it says it failed, none of its parts   *)
(* is, unless an undo itself failed or the program was killed; and once it *)
(* has ended it touches nothing.  Build implements it, with a build for a  *)
(* job and its disks, seed and domain for parts.                           *)
(***************************************************************************)
CONSTANTS Job, Part

VARIABLES
  phase,  \* "idle", "works", "done", "failed", "broken"
  needs,  \* the parts the job is to make
  has     \* the parts of its own that exist

vars == <<phase, needs, has>>

TypeOK ==
  /\ phase \in [Job -> {"idle", "works", "done", "failed", "broken"}]
  /\ needs \in [Job -> SUBSET Part]
  /\ has \in [Job -> SUBSET Part]

Init ==
  /\ phase = [j \in Job |-> "idle"]
  /\ needs = [j \in Job |-> {}]
  /\ has = [j \in Job |-> {}]

\* A job is accepted, or refused before it has made anything.
Start(j) ==
  /\ phase[j] = "idle"
  /\ \E p \in {"works", "failed"} : phase' = [phase EXCEPT ![j] = p]
  /\ \E s \in SUBSET Part : needs' = [needs EXCEPT ![j] = s]
  /\ UNCHANGED has

\* It makes parts and takes them away again.
Work(j) ==
  /\ phase[j] = "works"
  /\ \E s \in SUBSET needs[j] : has' = [has EXCEPT ![j] = s]
  /\ UNCHANGED <<phase, needs>>

Succeed(j) ==
  /\ phase[j] = "works"
  /\ phase' = [phase EXCEPT ![j] = "done"]
  /\ has' = [has EXCEPT ![j] = needs[j]]
  /\ UNCHANGED needs

Fail(j) ==
  /\ phase[j] = "works"
  /\ phase' = [phase EXCEPT ![j] = "failed"]
  /\ has' = [has EXCEPT ![j] = {}]
  /\ UNCHANGED needs

\* An undo that failed, or a kill, which takes all that the program was at.
Break(s) ==
  /\ s # {} /\ \A j \in s : phase[j] = "works"
  /\ phase' = [j \in Job |-> IF j \in s THEN "broken" ELSE phase[j]]
  /\ has' \in [Job -> SUBSET Part]
  /\ \A j \in Job : IF j \in s THEN has'[j] \subseteq needs[j] ELSE has'[j] = has[j]
  /\ UNCHANGED needs

Next ==
  \/ \E j \in Job : Start(j) \/ Work(j) \/ Succeed(j) \/ Fail(j)
  \/ \E s \in SUBSET Job : Break(s)

Spec == Init /\ [][Next]_vars

-----------------------------------------------------------------------------

Promise ==
  \A j \in Job : /\ phase[j] = "done" => has[j] = needs[j]
                 /\ phase[j] \in {"idle", "failed"} => has[j] = {}
=============================================================================
