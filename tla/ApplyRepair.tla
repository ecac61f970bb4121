---------------------------- MODULE ApplyRepair -----------------------------
(***************************************************************************)
(* `ciradar repair apply`: the changes of a plan are put into a working    *)
(* directory, all or none.  Every step is one operation on the disk, which *)
(* may fail; the program may die between two of them and be started again; *)
(* and somebody may edit the files meanwhile.                              *)
(***************************************************************************)
EXTENDS Faults, FiniteSets

CONSTANTS
    NFiles,        \* how many files the plan changes, in its order
    MaxApplies,    \* how often the command is started, a bound
    MaxEdited      \* how many files somebody edits, a bound

Files == 1..NFiles

(* A plan without files is refused when it is built. *)
ASSUME ApplyAssumption == NFiles \in Nat \ {0}

VARIABLES
    added,         \* the files that the plan adds
    disk,          \* what is at each of the paths that belong to a file
    apply,         \* the command: its phase, the file it is at, what it has done
    applies,       \* how often it was started
    edited,        \* the files somebody edited
    unsafe         \* those edited after the command had looked at them last

applyVars == <<added, disk, apply, applies, edited, unsafe>>

Exists(f) == f \notin added
Off == [phase |-> "off", i |-> 0, committed |-> {}, ok |-> FALSE, found |-> [f \in Files |-> "none"], failures |-> 0]

ApplyInit ==
    /\ added \in SUBSET Files
    /\ disk = [f \in Files |-> [target |-> IF Exists(f) THEN "old" ELSE "none",
                                backup |-> "none", temp |-> "none", rollback |-> "none"]]
    /\ apply = Off
    /\ applies = 0 /\ edited = {} /\ unsafe = {}

-----------------------------------------------------------------------------
Here(phase) == apply.phase = phase
Rest == UNCHANGED <<added, applies, edited>>
Moves(phase, i) ==
    apply' = [apply EXCEPT !.phase = phase, !.i = i, !.failures = apply.failures + (faults' - faults)]
NextFile(phase, after) == IF apply.i = NFiles THEN Moves(after, 1) ELSE Moves(phase, apply.i + 1)

(* A failed operation leaves the disk as it was. *)
Failed == Fault /\ UNCHANGED disk

(* What verifyRepairTarget asks of a target. *)
AsPlanned(f) == disk[f].target = IF Exists(f) THEN "old" ELSE "none"

(* Planning reads the files, and a patch that does not fit ends the command. *)
Plannable == \A f \in Files : AsPlanned(f)

(* Then everything is verified. *)
Begin ==
    /\ Here("off") /\ applies < MaxApplies
    /\ applies' = applies + 1
    /\ apply' = [Off EXCEPT !.phase = IF Plannable THEN "backup" ELSE "ended",
                            !.i = 1, !.found = [f \in Files |-> disk[f].target]]
    /\ UNCHANGED <<added, disk, edited, unsafe, faults>>

(* Staging: a backup of what is there, made exclusively, a free rollback
   path, and the new content in a temporary file, all synced.  On any error
   the temporary files and backups of this run are removed. *)
Backup ==
    /\ Here("backup")
    /\ LET f == apply.i IN
       \/ ~Exists(f) /\ Fine /\ Moves("temp", f) /\ UNCHANGED disk
       \/ Exists(f) /\ disk[f].backup = "none" /\ Fine
          /\ disk' = [disk EXCEPT ![f].backup = "old"]
          /\ IF disk[f].rollback = "none" THEN Moves("temp", f) ELSE Moves("unstage", f)
       \/ Exists(f) /\ disk[f].backup # "none" /\ Fine /\ Moves("unstage", f - 1) /\ UNCHANGED disk
       \/ Failed /\ Moves("unstage", f - 1)
    /\ Rest /\ UNCHANGED unsafe

Temp ==
    /\ Here("temp")
    /\ LET f == apply.i IN
       \/ Fine /\ disk' = [disk EXCEPT ![f].temp = "new"] /\ NextFile("backup", "verify")
       \/ Failed /\ Moves("unstage", f)
    /\ Rest /\ UNCHANGED unsafe

(* Removals of a cleanup ignore their errors. *)
Unstage ==
    /\ Here("unstage")
    /\ Fine
    /\ IF apply.i = 0 THEN Moves("ended", 0) /\ UNCHANGED disk
       ELSE /\ Moves("unstage", apply.i - 1)
            /\ disk' = [disk EXCEPT ![apply.i] = [disk[apply.i] EXCEPT !.backup = "none", !.temp = "none"]]
    /\ Rest /\ UNCHANGED unsafe

-----------------------------------------------------------------------------
(* Committing, file by file: what was committed so far is taken back when one
   cannot be. *)

(* What was moved aside is renamed back. *)
TakenBack(f) ==
    disk' = [disk EXCEPT ![f] = [disk[f] EXCEPT !.target = disk[f].rollback, !.rollback = "none"]]

(* Mutant: a target is not looked at again before it is replaced. *)
Verify_Trusting ==
    /\ Here("verify")
    /\ Fine /\ Moves(IF Exists(apply.i) THEN "aside" ELSE "link", apply.i)
    /\ unsafe' = IF disk[apply.i].target = "user" THEN unsafe \ {apply.i} ELSE unsafe
    /\ UNCHANGED disk /\ Rest

Verify ==
    /\ Here("verify")
    /\ \/ AsPlanned(apply.i) /\ Fine /\ Moves(IF Exists(apply.i) THEN "aside" ELSE "link", apply.i)
       \/ ~AsPlanned(apply.i) /\ Fine /\ Moves("undo", apply.i - 1)
       \/ Failed /\ Moves("undo", apply.i - 1)
    /\ unsafe' = IF disk[apply.i].target = "user" THEN unsafe \ {apply.i} ELSE unsafe
    /\ UNCHANGED disk /\ Rest

Commit(f) ==
    IF f = NFiles THEN apply' = [apply EXCEPT !.committed = apply.committed \cup {f}, !.phase = "clean", !.i = 1]
    ELSE apply' = [apply EXCEPT !.committed = apply.committed \cup {f}, !.phase = "verify", !.i = f + 1]

(* A new file is linked, which fails when its target is there; then its
   temporary name is removed. *)
Link ==
    /\ Here("link")
    /\ LET f == apply.i IN
       \/ disk[f].target = "none" /\ Fine /\ disk' = [disk EXCEPT ![f].target = "new"] /\ Moves("unlink", f)
       \/ disk[f].target # "none" /\ Fine /\ UNCHANGED disk /\ Moves("undo", f - 1)
       \/ Failed /\ Moves("undo", f - 1)
    /\ Rest /\ UNCHANGED unsafe

Unlink ==
    /\ Here("unlink")
    /\ LET f == apply.i IN
       \/ Fine /\ disk' = [disk EXCEPT ![f].temp = "none"] /\ Commit(f)
       \/ Fault /\ disk' = [disk EXCEPT ![f].target = "none"] /\ Moves("undo", f - 1)
    /\ Rest /\ UNCHANGED unsafe

(* An existing file is moved aside, *)
Aside ==
    /\ Here("aside")
    /\ LET f == apply.i IN
       \/ Fine /\ Moves("place", f)
          /\ disk' = [disk EXCEPT ![f] = [disk[f] EXCEPT !.rollback = disk[f].target, !.target = "none"]]
       \/ Failed /\ Moves("undo", f - 1)
    /\ Rest /\ UNCHANGED unsafe

(* and the new content renamed to its place, over whatever is there. *)
Place ==
    /\ Here("place")
    /\ LET f == apply.i IN
       \/ Fine /\ disk' = [disk EXCEPT ![f] = [disk[f] EXCEPT !.target = "new", !.temp = "none"]] /\ Commit(f)
       \/ Failed /\ Moves("restore", f)
    /\ Rest /\ UNCHANGED unsafe

Restore ==
    /\ Here("restore")
    /\ \/ Fine /\ TakenBack(apply.i)
       \/ Failed
    /\ Moves("undo", apply.i - 1) /\ Rest /\ UNCHANGED unsafe

-----------------------------------------------------------------------------
(* Taking back, in reverse order: the new content is removed, then what was
   moved aside is renamed back. *)
Undo ==
    /\ Here("undo")
    /\ LET f == apply.i IN
       IF f = 0 THEN Fine /\ Moves("sweep", NFiles) /\ UNCHANGED disk
       ELSE \/ Fine /\ disk' = [disk EXCEPT ![f].target = "none"]
               /\ Moves(IF Exists(f) THEN "moveBack" ELSE "undo", IF Exists(f) THEN f ELSE f - 1)
            \/ Failed /\ Moves("undo", f - 1)
    /\ Rest /\ UNCHANGED unsafe

MoveBack ==
    /\ Here("moveBack")
    /\ \/ Fine /\ TakenBack(apply.i)
       \/ Failed
    /\ Moves("undo", apply.i - 1) /\ Rest /\ UNCHANGED unsafe

(* The temporary files go, the backups stay. *)
Sweep ==
    /\ Here("sweep")
    /\ disk' = [f \in Files |-> [disk[f] EXCEPT !.temp = "none"]]
    /\ Fine /\ Moves("ended", 0) /\ Rest /\ UNCHANGED unsafe

(* All is in place: what was moved aside goes.  The first that cannot be
   removed ends the command with an error. *)
Clean ==
    /\ Here("clean")
    /\ \/ Fine /\ disk' = [disk EXCEPT ![apply.i].rollback = "none"]
          /\ IF apply.i = NFiles THEN apply' = [apply EXCEPT !.phase = "ended", !.ok = TRUE] ELSE Moves("clean", apply.i + 1)
       \/ Failed /\ Moves("ended", 0)
    /\ Rest /\ UNCHANGED unsafe

-----------------------------------------------------------------------------
(* The command returns, or the program dies anywhere before. *)
Return == Here("ended") /\ apply' = Off /\ UNCHANGED <<added, disk, applies, edited, unsafe, faults>>
Dies == ~Here("off") /\ ~Here("ended") /\ Fault /\ apply' = Off /\ UNCHANGED <<added, disk, applies, edited, unsafe>>

(* Somebody writes a file.  It is unsafe while the command runs, until the
   command looks at the file again. *)
Edit(f) ==
    /\ Cardinality(edited \cup {f}) <= MaxEdited /\ edited' = edited \cup {f}
    /\ disk' = [disk EXCEPT ![f].target = "user"]
    /\ unsafe' = IF Here("off") \/ Here("ended") THEN unsafe \ {f} ELSE unsafe \cup {f}
    /\ UNCHANGED <<added, apply, applies, faults>>

ApplyStep ==
    \/ Begin \/ Backup \/ Temp \/ Unstage \/ Verify \/ Link \/ Unlink \/ Aside \/ Place \/ Restore
    \/ Undo \/ MoveBack \/ Sweep \/ Clean \/ Return \/ Dies \/ \E f \in Files : Edit(f)

-----------------------------------------------------------------------------

Has(f, content) == \E place \in {"target", "rollback", "backup"} : disk[f][place] = content

(* A plan is applied whole or not at all: when the command returns, and no
   operation failed, or one did and nobody wrote a file, then every file is
   new, or none is and every file is as the command found it, but for what
   somebody wrote meanwhile.  Success leaves nothing moved aside.  Whatever
   fails and whenever the program dies, what a file held is still on the disk
   until somebody writes it, and what somebody wrote stays, unless it was
   written after the command's last look. *)
AppliedWhole ==
    /\ (Here("ended") /\ apply.failures <= (IF edited = {} THEN 1 ELSE 0)) =>
         \/ \A f \in Files \ edited : disk[f].target = "new"
         \/ ~apply.ok /\ \A f \in Files \ edited : disk[f].target = apply.found[f]
    /\ apply.ok => \A f \in Files : disk[f].rollback = "none" /\ disk[f].temp = "none"
    /\ \A f \in Files \ edited : Exists(f) => Has(f, "old")
    /\ \A f \in edited \ unsafe : disk[f].target = "user"
=============================================================================
