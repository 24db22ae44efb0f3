------------------------------- MODULE Install -------------------------------
(***************************************************************************)
(* The form of the live medium that installs a machine (cmd/vmx's           *)
(* install.go): a menu, four lists, the names, the password and, for an     *)
(* encrypted pool, the passphrase, each asked twice; a summary; the         *)
(* answers as a file and the installer that reads it.  The operator may go  *)
(* back from anywhere and answer otherwise.                                *)
(*                                                                         *)
(* What profile, distribution and names are picked is told apart by nothing *)
(* but the installer; where the cursor stands in their lists is.            *)
(***************************************************************************)
EXTENDS Integers, Sequences, SequencesExt

CONSTANTS
  Devices,  \* what lsblk lists: "disk", "live" (the medium itself), "zvol" or "zram"
  Typed,    \* what may be typed for a secret
  Length,   \* Length[v]: its characters
  None

InstallAssumption ==
  /\ Devices \in Seq({"disk", "live", "zvol", "zram"}) /\ Length \in [Typed -> Nat] /\ None \notin Typed

FormSteps == {"menu", "profile", "distro", "security", "disk", "hostname", "username", "password", "password2",
          "passphrase", "passphrase2", "summary", "running", "done"}
Securities == <<"standard", "encrypted", "secureboot", "both">>

VARIABLES
  step, cursor, m,  \* installModel; cursor counts from 0
  disks, told,      \* listDisks, as indices of Devices; whether the medium was told apart
  dryrun,
  cmd,              \* what runInstall left to the event loop
  file,             \* the answers file
  ran,              \* how the installer ended
  typed             \* history: the last two entries of each secret

formVars == <<step, cursor, m, disks, told, dryrun, cmd, file, ran, typed>>

\* The i-th of S, in the order of lsblk.
Nth(S, i) == CHOOSE n \in S : Cardinality({k \in S : k < n}) = i - 1

\* listDisks, with what liveMediumDisk answers.
Listed(live) ==
  LET offered == {i \in DOMAIN Devices : Devices[i] \in IF live THEN {"disk"} ELSE {"disk", "live"}}
  IN [i \in 1..Cardinality(offered) |-> Nth(offered, i)]

Init ==
  /\ step = "menu" /\ cursor = 0
  /\ m = [security |-> None, disk |-> None, password |-> None, passph |-> None, err |-> FALSE, rc |-> 0]
  /\ told \in BOOLEAN /\ disks \in {Listed(told), <<>>} /\ dryrun \in BOOLEAN
  /\ cmd = "none" /\ file = [st |-> "none"] /\ ran = "none"
  /\ typed = [password |-> <<None, None>>, passphrase |-> <<None, None>>]

Encrypts == m.security \in {"encrypted", "both"}

\* How many choices the step has.
Count ==
  CASE step = "menu" -> 4 [] step = "profile" -> 8 [] step = "distro" -> 6 [] step = "security" -> Len(Securities)
    [] step = "disk" -> Len(disks) [] OTHER -> 0

TextStep == step \in {"hostname", "username", "password", "password2", "passphrase", "passphrase2"}

\* prev: a second entry is never gone back to.
Prev ==
  CASE step = "summary" -> IF Encrypts THEN "passphrase" ELSE "password"
    [] step = "passphrase2" -> "passphrase"
    [] step \in {"passphrase", "password2"} -> "password"
    [] step = "password" -> "username" [] step = "username" -> "hostname" [] step = "hostname" -> "disk"
    [] step = "disk" -> "security" [] step = "security" -> "distro" [] step = "distro" -> "profile" [] OTHER -> "menu"

-----------------------------------------------------------------------------
(* Keys.                                                                   *)

Move ==
  /\ ~TextStep
  /\ \/ cursor < Count - 1 /\ cursor' = cursor + 1
     \/ cursor > 0 /\ cursor' = cursor - 1
  /\ UNCHANGED <<step, m, disks, told, dryrun, cmd, file, ran, typed>>

Esc ==
  /\ step \in FormSteps \ {"menu", "running", "done"}
  /\ step' = Prev /\ cursor' = 0 /\ m' = [m EXCEPT !.err = FALSE]
  /\ UNCHANGED <<disks, told, dryrun, cmd, file, ran, typed>>

\* pick, of a list; the menu's other choices hand the terminal to a program.
Pick ==
  /\ ~TextStep
  /\ \/ step = "menu" /\ cursor = 0 /\ step' = "profile" /\ cursor' = 0 /\ UNCHANGED m
     \/ step = "profile" /\ step' = "distro" /\ cursor' = 0 /\ UNCHANGED m
     \/ step = "distro" /\ step' = "security" /\ cursor' = 0 /\ UNCHANGED m
     \/ /\ step = "security" /\ cursor' = 0
        /\ step' = IF disks = <<>> THEN "security" ELSE "disk"
        /\ m' = [m EXCEPT !.security = Securities[cursor + 1], !.err = @ \/ disks = <<>>]
     \/ step = "disk" /\ step' = "hostname" /\ m' = [m EXCEPT !.disk = disks[cursor + 1]] /\ UNCHANGED cursor
  /\ UNCHANGED <<disks, told, dryrun, cmd, file, ran, typed>>

\* updateText, of a name: one that is none is asked again.
Name(ok) ==
  /\ step \in {"hostname", "username"}
  /\ IF ok THEN step' = (IF step = "hostname" THEN "username" ELSE "password") /\ UNCHANGED m
     ELSE m' = [m EXCEPT !.err = TRUE] /\ UNCHANGED step
  /\ UNCHANGED <<cursor, disks, told, dryrun, cmd, file, ran, typed>>

\* updateText, of a secret for the first time.
First(v) ==
  /\ \/ /\ step = "password" /\ typed' = [typed EXCEPT !.password = <<v, None>>]
        /\ IF Length[v] < 4 THEN m' = [m EXCEPT !.err = TRUE] /\ UNCHANGED step
           ELSE m' = [m EXCEPT !.password = v] /\ step' = "password2"
     \/ /\ step = "passphrase" /\ typed' = [typed EXCEPT !.passphrase = <<v, None>>]
        /\ IF Length[v] < 8 THEN m' = [m EXCEPT !.err = TRUE] /\ UNCHANGED step
           ELSE m' = [m EXCEPT !.passph = v, !.err = FALSE] /\ step' = "passphrase2"
  /\ UNCHANGED <<cursor, disks, told, dryrun, cmd, file, ran>>

\* And again.
Again(v) ==
  /\ \/ /\ step = "password2" /\ typed' = [typed EXCEPT !.password[2] = v]
        /\ m' = [m EXCEPT !.err = v # m.password]
        /\ step' = IF v # m.password THEN "password" ELSE IF Encrypts THEN "passphrase" ELSE "summary"
     \/ /\ step = "passphrase2" /\ typed' = [typed EXCEPT !.passphrase[2] = v]
        /\ IF v = m.passph THEN m' = [m EXCEPT !.err = FALSE] /\ step' = "summary"
           ELSE m' = [m EXCEPT !.passph = None, !.err = TRUE] /\ step' = "passphrase"
  /\ UNCHANGED <<cursor, disks, told, dryrun, cmd, file, ran>>

-----------------------------------------------------------------------------
(* The installation.                                                       *)

\* answers.
Answers ==
  [st |-> "whole", disk |-> m.disk, password |-> m.password, encrypt |-> Encrypts,
   passphrase |-> IF Encrypts THEN m.passph ELSE None]

\* Enter at the summary: runInstall writes the file, or fails before it or half-way.
Installs ==
  /\ step = "summary" /\ step' = "running"
  /\ \/ cmd' = "refused" /\ file' \in {file, [st |-> "torn"]}
     \/ cmd' = (IF dryrun THEN "over" ELSE "exec") /\ file' = Answers
  /\ UNCHANGED <<cursor, m, disks, told, dryrun, ran, typed>>

\* kldload-install-target ends, and its installDoneMsg or another comes.
Ends ==
  /\ step = "running" /\ step' = "done" /\ cmd' = "none"
  /\ \/ cmd = "exec" /\ ran' \in {"ok", "failed"}
     \/ cmd # "exec" /\ UNCHANGED ran
  /\ m' = IF cmd = "refused" \/ ran' = "failed" THEN [m EXCEPT !.err = TRUE, !.rc = 1] ELSE m
  /\ UNCHANGED <<cursor, disks, told, dryrun, file, typed>>

\* q, and r, which reboots into what was installed.
Quit ==
  /\ step \in {"menu", "done"}
  /\ step' = "quit"
  /\ UNCHANGED <<cursor, m, disks, told, dryrun, cmd, file, ran, typed>>

Reboot ==
  /\ step = "done" /\ m.rc = 0 /\ ~dryrun
  /\ step' = "reboot"
  /\ UNCHANGED <<cursor, m, disks, told, dryrun, cmd, file, ran, typed>>

Next ==
  \/ Move \/ Esc \/ Pick \/ Installs \/ Ends \/ Quit \/ Reboot
  \/ \E ok \in BOOLEAN : Name(ok)
  \/ \E v \in Typed : First(v) \/ Again(v)

Spec == Init /\ [][Next]_formVars

-----------------------------------------------------------------------------
(* Properties.                                                             *)

TypeOK ==
  /\ step \in FormSteps \cup {"quit", "reboot"} /\ cursor \in Nat
  /\ m.security \in Range(Securities) \cup {None} /\ m.disk \in DOMAIN Devices \cup {None}
  /\ {m.password, m.passph} \subseteq Typed \cup {None} /\ m.rc \in {0, 1}

\* The cursor is on a choice of its list, however the lists were come back to:
\* pick indexes them without a look (choices, pick).
CursorOnChoice == Count > 0 => cursor < Count

\* What is installed with are secrets that were typed twice the same, the last time
\* they were asked; a passphrase exactly when the pool is encrypted; and a disk, never
\* the medium's own when it was told apart (updateText, prev, answers, listDisks).
AnswersAsTyped ==
  file.st = "whole" =>
    /\ typed.password = <<file.password, file.password>> /\ Length[file.password] >= 4
    /\ file.encrypt => typed.passphrase = <<file.passphrase, file.passphrase>> /\ Length[file.passphrase] >= 8
    /\ ~file.encrypt => file.passphrase = None
    /\ Devices[file.disk] = "disk" \/ ~told

\* "installed." is shown, and a reboot offered, when the installer ran and went well:
\* no error of an earlier question is left to be taken for its (View, stDone).
EndIsTold ==
  /\ step = "done" /\ ~dryrun => ((m.rc = 0 /\ ~m.err) <=> ran = "ok")
  /\ step = "reboot" => ran = "ok"
=============================================================================
