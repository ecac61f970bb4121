----------------------------- MODULE StateFile -----------------------------
(***************************************************************************)
(* How the embedded store keeps its state in one file.                     *)
(*                                                                         *)
(* internal/db/db.go changes the state in memory, writes all of it to a    *)
(* temporary file, copies the current file to a backup, moves the          *)
(* temporary file into place and answers; when any of this fails it takes  *)
(* the change in memory back.  Open loads the file, or the backup when the *)
(* file is missing or broken, and persists what it loaded.  On Windows a   *)
(* file is replaced in three moves (replaceFileWithRollback), elsewhere in *)
(* one.                                                                    *)
(*                                                                         *)
(* The state is the set of the operations it contains.  Files are written  *)
(* and synced before they are moved; a move reaches the disk for certain   *)
(* when the directory is synced, and moves reach it in order.              *)
(***************************************************************************)
EXTENDS Naturals, FiniteSets

CONSTANTS
    Ops,            \* operations, each of them called once
    NoOp,           \* Open persists without an operation
    NoFile,         \* marks a file that does not exist
    NotJSON,        \* marks a file that does not decode
    MaxCrashes,     \* bound
    MaxErrors,      \* bound: file operations that fail
    MaxCorruptions  \* bound: times the main file is damaged while the program is down

ASSUME NamesAssumption ==
    /\ {NoOp, NoFile, NotJSON} \cap Ops = {}
    /\ NoFile # NotJSON

VARIABLES
    windows,     \* runtimeWindows()
    disk,        \* content of each file
    survivors,   \* the disks a power failure may leave
    pc,          \* what the program does next
    mem,         \* s.state
    before,      \* what mem is set back to when persisting fails
    op,          \* the operation being persisted
    used,        \* history: operations called
    acked,       \* history: operations that returned nil and were not lost since
    failed,      \* history: operations that returned an error
    last,        \* history: the newest acknowledged operation
    crashes, errors, corruptions, unsynced

programVars == <<pc, mem, before, op>>
histVars == <<used, acked, failed, last>>
faultVars == <<crashes, errors, corruptions, unsynced>>
vars == <<windows, disk, survivors, programVars, histVars, faultVars>>

(* Contents beside the sets of operations.                                 *)
Absent == {NoFile}
Garbage == {NotJSON}

(* s.path, .bak, .tmp, .bak.tmp, .corrupt and the two .replace-old files.  *)
Files == {"main", "bak", "tmp", "baktmp", "corrupt", "mainold", "bakold"}

Good(content) == content \notin {Absent, Garbage}

(* Open: the main file when it decodes, else the backup, and an empty      *)
(* state only when neither exists.                                         *)
Source(d) ==
    IF Good(d["main"]) THEN "main"
    ELSE IF Good(d["bak"]) THEN "bak"
    ELSE IF d["main"] = Absent /\ d["bak"] = Absent THEN "new" ELSE "none"

Loads(d) ==
    CASE Source(d) = "new" -> {}
      [] Source(d) = "none" -> {}
      [] OTHER -> d[Source(d)]

Put(d) ==
    /\ disk' = d
    /\ survivors' = IF windows THEN {d} ELSE survivors \cup {d}

Moved(from, to) == [disk EXCEPT ![to] = disk[from], ![from] = Absent]

Goto(step) == pc' = step /\ UNCHANGED <<mem, before, op>>

-----------------------------------------------------------------------------
(* Open *)

(* Mutant: the damaged file is left in place. *)
Open_NoQuarantine ==
    /\ pc = "down"
    /\ IF Source(disk) = "none"
       THEN pc' = "refused" /\ UNCHANGED <<mem, before, op>>
       ELSE /\ mem' = Loads(disk) /\ before' = Loads(disk) /\ op' = NoOp
            /\ pc' = "tmp"
    /\ acked' = acked \cap mem'
    /\ UNCHANGED <<windows, disk, survivors, used, failed, last, faultVars>>

Open ==
    /\ pc = "down"
    /\ IF Source(disk) = "none"
       THEN pc' = "refused" /\ UNCHANGED <<mem, before, op>>
       ELSE /\ mem' = Loads(disk) /\ before' = Loads(disk) /\ op' = NoOp
            /\ pc' = IF Source(disk) = "bak" /\ disk["main"] # Absent
                     THEN "quarantine" ELSE "tmp"
    /\ acked' = acked \cap mem'
    /\ UNCHANGED <<windows, disk, survivors, used, failed, last, faultVars>>

(* The damaged file is renamed, over the one of an earlier time.  A rename *)
(* that fails ends Open, a sync that fails is ignored.                     *)
QuarantineCorruptState ==
    /\ pc = "quarantine"
    /\ \/ /\ disk' = Moved("main", "corrupt") /\ survivors' = {disk'}
          /\ Goto("tmp") /\ UNCHANGED <<errors, unsynced>>
       \/ /\ errors < MaxErrors /\ errors' = errors + 1
          /\ \/ /\ Put([disk EXCEPT !["corrupt"] = Absent])
                /\ Goto("down") /\ UNCHANGED unsynced
             \/ /\ Put(Moved("main", "corrupt"))
                /\ Goto("tmp") /\ unsynced' = unsynced + 1
    /\ UNCHANGED <<windows, histVars, crashes, corruptions>>

(* An operation of the store changes the state in memory. *)
Mutate(o) ==
    /\ pc = "up"
    /\ o \in Ops \ used
    /\ used' = used \cup {o}
    /\ op' = o /\ before' = mem /\ mem' = mem \cup {o}
    /\ pc' = "tmp"
    /\ UNCHANGED <<windows, disk, survivors, acked, failed, last, faultVars>>

(* Close persists the state once more; the store goes on working after it, *)
(* and when it fails the program ends.                                     *)
Close ==
    /\ pc = "up"
    /\ op' = NoOp /\ before' = mem
    /\ pc' = "tmp"
    /\ UNCHANGED <<windows, disk, survivors, mem, histVars, faultVars>>

-----------------------------------------------------------------------------
(* persistLocked *)

(* A step fails and leaves disk d behind: the temporary file is removed,   *)
(* the operation takes its change back and reports the error (Open fails). *)
Fail(d) ==
    /\ errors < MaxErrors
    /\ errors' = errors + 1
    /\ Put([d EXCEPT !["tmp"] = Absent])
    /\ mem' = before
    /\ failed' = failed \cup ({op} \ {NoOp})
    /\ pc' = IF op = NoOp THEN "down" ELSE "up"
    /\ UNCHANGED <<windows, before, op, used, acked, last, crashes, corruptions, unsynced>>

(* A backup that was not installed is removed. *)
Dropped(d, target) ==
    IF target = "bak" THEN [d EXCEPT !["baktmp"] = Absent] ELSE d

Proceed(d, step) ==
    Put(d) /\ Goto(step) /\ UNCHANGED <<windows, histVars, faultVars>>

WriteTmp ==
    /\ pc = "tmp"
    /\ \/ Proceed([disk EXCEPT !["tmp"] = mem],
                  IF disk["main"] = Absent THEN "main" ELSE "baktmp")
       \/ Fail(disk)

(* Mutant: the backup is the new state. *)
WriteBackup_New ==
    /\ pc = "baktmp"
    /\ \/ Proceed([disk EXCEPT !["baktmp"] = mem], "bak")
       \/ Fail(disk)

(* The current file, as it is, becomes the backup. *)
WriteBackup ==
    /\ pc = "baktmp"
    /\ \/ Proceed([disk EXCEPT !["baktmp"] = disk["main"]], "bak")
       \/ Fail(disk)                          \* reading the current file
       \/ Fail(Dropped(disk, "bak"))

(* replacePersistedFile where a rename replaces its target. *)
Rename(temp, target, next) ==
    /\ pc = target /\ ~windows
    /\ \/ Proceed(Moved(temp, target), next)
       \/ Fail(Dropped(disk, target))

(* replaceFileWithRollback: a target that exists is put aside first ...    *)
Aside(temp, target, old, in, next) ==
    /\ pc = target /\ windows
    /\ IF disk[target] = Absent
       THEN \/ Proceed(Moved(temp, target), next)
            \/ Fail(Dropped(disk, target))
       ELSE \/ Proceed(Moved(target, old), in)
            \/ Fail(Dropped(disk, target))
            \/ Fail(Dropped([disk EXCEPT ![old] = Absent], target))

(* ... then the new file moves in, or the old one back (which may fail     *)
(* too) ...                                                                *)
MoveIn(temp, target, old, in, clean) ==
    /\ pc = in
    /\ \/ Proceed(Moved(temp, target), clean)
       \/ Fail(Dropped(Moved(old, target), target))
       \/ Fail(Dropped(disk, target))

(* ... and the old one is removed; when that fails the replacement has     *)
(* happened and is reported as failed.                                     *)
CleanUp(target, old, clean, next) ==
    /\ pc = clean
    /\ \/ Proceed([disk EXCEPT ![old] = Absent], next)
       \/ Fail(Dropped(disk, target))

ReplaceBackup ==
    \/ Rename("baktmp", "bak", "main")
    \/ Aside("baktmp", "bak", "bakold", "bakin", "main")
    \/ MoveIn("baktmp", "bak", "bakold", "bakin", "bakclean")
    \/ CleanUp("bak", "bakold", "bakclean", "main")

ReplaceMain ==
    \/ Rename("tmp", "main", "sync")
    \/ Aside("tmp", "main", "mainold", "mainin", "sync")
    \/ MoveIn("tmp", "main", "mainold", "mainin", "mainclean")
    \/ CleanUp("main", "mainold", "mainclean", "sync")

(* Mutant: the directory is not synced. *)
Sync_Skipped ==
    /\ pc = "sync"
    /\ UNCHANGED <<survivors, errors, unsynced>>
    /\ Goto("up")
    /\ IF op = NoOp THEN UNCHANGED <<acked, last>>
       ELSE acked' = acked \cup {op} /\ last' = op
    /\ UNCHANGED <<windows, disk, used, failed, crashes, corruptions>>

(* The directory is synced, an error of that is ignored, and the operation *)
(* returns nil.                                                            *)
Sync ==
    /\ pc = "sync"
    /\ \/ survivors' = {disk} /\ UNCHANGED <<errors, unsynced>>
       \/ /\ errors < MaxErrors
          /\ errors' = errors + 1 /\ unsynced' = unsynced + 1
          /\ UNCHANGED survivors
    /\ Goto("up")
    /\ IF op = NoOp THEN UNCHANGED <<acked, last>>
       ELSE acked' = acked \cup {op} /\ last' = op
    /\ UNCHANGED <<windows, disk, used, failed, crashes, corruptions>>

-----------------------------------------------------------------------------
(* The program ends, at whatever point; a file it was writing is broken.   *)
Torn(d) ==
    IF pc \in {"tmp", "baktmp"} THEN {d, [d EXCEPT ![pc] = Garbage]} ELSE {d}

Crash ==
    /\ pc \notin {"down", "refused"}
    /\ crashes < MaxCrashes
    /\ crashes' = crashes + 1
    /\ \/ \E d \in Torn(disk) :           \* of the program only
            disk' = d /\ survivors' = (survivors \ {disk}) \cup {d}
       \/ \E d \in survivors :            \* of the machine
            disk' = d /\ survivors' = {d}
    /\ pc' = "down"
    /\ UNCHANGED <<windows, mem, before, op, histVars, errors, corruptions, unsynced>>

(* The main file is damaged while the program is down. *)
Corrupt ==
    /\ pc = "down" /\ Good(disk["main"])
    /\ corruptions < MaxCorruptions
    /\ corruptions' = corruptions + 1
    /\ disk' = [disk EXCEPT !["main"] = Garbage]
    /\ survivors' = {disk'}
    /\ UNCHANGED <<windows, programVars, histVars, crashes, errors, unsynced>>

Init ==
    /\ windows \in BOOLEAN
    /\ disk = [f \in Files |-> Absent]
    /\ survivors = {disk}
    /\ pc = "down"
    /\ mem = {} /\ before = {} /\ op = NoOp
    /\ used = {} /\ acked = {} /\ failed = {} /\ last = NoOp
    /\ crashes = 0 /\ errors = 0 /\ corruptions = 0 /\ unsynced = 0

Persist ==
    WriteTmp \/ WriteBackup \/ ReplaceBackup \/ ReplaceMain \/ Sync

Next ==
    \/ Open
    \/ QuarantineCorruptState
    \/ \E o \in Ops : Mutate(o)
    \/ Close
    \/ Persist
    \/ Crash
    \/ Corrupt

Spec == Init /\ [][Next]_vars

-----------------------------------------------------------------------------

(* An operation that returned nil survives any crash of the program and of *)
(* the machine, at every step of every later write: whatever disk a crash  *)
(* leaves now, Open reads all acknowledged operations from it.  A          *)
(* directory sync that failed, and was ignored, is the exception.          *)
AckedSurvives ==
    (corruptions = 0 /\ unsynced = 0) =>
        \A d \in survivors \cup {disk} :
            Source(d) # "none" /\ acked \subseteq Loads(d)

(* A main file that is damaged between two runs of the program costs at    *)
(* most the newest acknowledged operation, however often it happens and    *)
(* whatever crashes in between; on Windows a crash between the moves of    *)
(* the backup leaves no backup for a moment.                               *)
DamageCostsOne ==
    (~windows /\ unsynced = 0) =>
        /\ pc = "refused" => last = NoOp
        /\ pc = "down" => acked \ {last} \subseteq Loads(disk)

(* An operation that reported an error has not happened: it is not in the  *)
(* memory, and no restart brings it back.  On Windows the clean-up after a *)
(* replacement can fail (see FailedIsUndone).                              *)
FailedLeavesNothing ==
    ~windows => /\ pc = "up" => mem \cap failed = {}
                /\ \A d \in survivors \cup {disk} : Loads(d) \cap failed = {}

(* A replacement that returns an error has left the old file in place, so  *)
(* that the operation is undone on disk as it is in memory.                *)
FailedIsUndone ==
    pc = "up" => Loads(disk) \cap failed = {}
=============================================================================
