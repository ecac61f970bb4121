--------------------------- MODULE StorageProofs ---------------------------
(***************************************************************************)
(* Proofs about the state file of the embedded store: types, and what      *)
(* crashes, failing file operations and damaged files do to operations     *)
(* that were acknowledged or refused; and about a connection to            *)
(* PostgreSQL: statements and their answers stay in step.                  *)
(***************************************************************************)
EXTENDS Storage, TLAPS

Contents == (SUBSET Ops) \cup {Absent, Garbage}
Disk == [Files -> Contents]

PersistSteps == {"tmp", "baktmp", "bak", "bakin", "bakclean",
                 "main", "mainin", "mainclean", "sync"}

DiskTypeOK ==
    /\ windows \in BOOLEAN
    /\ disk \in Disk
    /\ survivors \in SUBSET Disk
    /\ pc \in PersistSteps \cup {"down", "refused", "quarantine", "up"}
    /\ mem \in SUBSET Ops /\ before \in SUBSET Ops
    /\ op \in Ops \cup {NoOp}
    /\ used \in SUBSET Ops /\ acked \in SUBSET Ops /\ failed \in SUBSET Ops
    /\ last \in Ops \cup {NoOp}
    /\ corruptions \in Nat /\ unsynced \in Nat

(* A crash leaves the disk there is or one of the survivors. *)
Disks == survivors \cup {disk}

-----------------------------------------------------------------------------
(* Disks and their contents *)

LEMMA ContentFacts ==
  ASSUME NEW c \in Contents
  PROVE  /\ Good(c) <=> c \in SUBSET Ops
         /\ ~Good(c) => c \cap Ops = {}
         /\ Absent # Garbage /\ ~Good(Absent) /\ ~Good(Garbage)
         /\ Absent \in Contents /\ Garbage \in Contents
  BY NamesAssumption DEF Contents, Good, Absent, Garbage

LEMMA SubsetsAreGood ==
  ASSUME NEW S \in SUBSET Ops
  PROVE  S \in Contents /\ Good(S) /\ S # Absent /\ S # Garbage
  BY NamesAssumption DEF Contents, Good, Absent, Garbage

LEMMA MarkersDiffer == Absent # Garbage /\ ~Good(Absent) /\ ~Good(Garbage)
  BY NamesAssumption DEF Good, Absent, Garbage

LEMMA FileNames ==
  /\ "main" \in Files /\ "bak" \in Files /\ "tmp" \in Files /\ "baktmp" \in Files
  /\ "corrupt" \in Files /\ "mainold" \in Files /\ "bakold" \in Files
  BY DEF Files

(* Writing a file, and moving one, leave a disk. *)
LEMMA WriteType ==
  ASSUME NEW d \in Disk, NEW f \in Files, NEW c \in Contents
  PROVE  [d EXCEPT ![f] = c] \in Disk
  BY DEF Disk

LEMMA MovedType ==
  ASSUME disk \in Disk, NEW f \in Files, NEW g \in Files
  PROVE  Moved(f, g) \in Disk
  <1>1. disk[f] \in Contents /\ Absent \in Contents
    BY ContentFacts DEF Disk
  <1>2. QED
    BY <1>1 DEF Moved, Disk

LEMMA MovedFacts ==
  ASSUME disk \in Disk, NEW f \in Files, NEW g \in Files, f # g
  PROVE  /\ Moved(f, g)[g] = disk[f] /\ Moved(f, g)[f] = Absent
         /\ \A h \in Files \ {f, g} : Moved(f, g)[h] = disk[h]
  BY DEF Moved, Disk

LEMMA LoadsFacts ==
  ASSUME NEW d \in Disk
  PROVE  /\ Good(d["main"]) => Source(d) = "main" /\ Loads(d) = d["main"]
         /\ ~Good(d["main"]) /\ Good(d["bak"]) => Source(d) = "bak" /\ Loads(d) = d["bak"]
         /\ ~Good(d["main"]) /\ ~Good(d["bak"]) => Loads(d) = {}
         /\ d["main"] = Absent /\ d["bak"] # Garbage => Source(d) # "none"
         /\ Source(d) = "none" => ~Good(d["main"]) /\ ~Good(d["bak"])
         /\ Loads(d) \in SUBSET Ops
  <1>1. d["main"] \in Contents /\ d["bak"] \in Contents
    BY FileNames DEF Disk
  <1>2. /\ Good(d["main"]) => d["main"] \in SUBSET Ops
        /\ Good(d["bak"]) => d["bak"] \in SUBSET Ops
    BY <1>1, ContentFacts
  <1>3. QED
    BY <1>1, <1>2, ContentFacts DEF Source, Loads, Good

-----------------------------------------------------------------------------
(* What a step of persistLocked comes to, for the files that Open reads.   *)

Same(f) == disk'[f] = disk[f]

SameRecord ==
    /\ UNCHANGED <<windows, before, op, used, acked, last, corruptions, unsynced>>
    /\ disk' \in Disk /\ survivors' \subseteq survivors \cup {disk'}

GoOn(step) == pc' = step /\ UNCHANGED <<mem, failed>> /\ SameRecord

GiveUp ==
    /\ pc' = IF op = NoOp THEN "down" ELSE "up"
    /\ mem' = before /\ failed' = failed \cup ({op} \ {NoOp})
    /\ SameRecord

Undone  == GiveUp /\ Same("main") /\ Same("bak")
BakBack == pc = "bakin" /\ GiveUp /\ Same("main") /\ disk'["bak"] = disk["bakold"]
MainBack == pc = "mainin" /\ GiveUp /\ Same("bak") /\ disk'["main"] = disk["mainold"]

TmpWritten ==
    /\ pc = "tmp" /\ GoOn(IF disk["main"] = Absent THEN "main" ELSE "baktmp")
    /\ Same("main") /\ Same("bak") /\ disk'["tmp"] = mem
BakWritten ==
    /\ pc = "baktmp" /\ GoOn("bak")
    /\ Same("main") /\ Same("bak") /\ Same("tmp") /\ disk'["baktmp"] = disk["main"]
BakAside ==
    /\ pc = "bak" /\ windows /\ GoOn("bakin")
    /\ Same("main") /\ Same("tmp") /\ Same("baktmp")
    /\ disk'["bak"] = Absent /\ disk'["bakold"] = disk["bak"]
BakReplaced ==
    /\ \/ pc = "bak" /\ GoOn("main")
       \/ pc = "bakin" /\ GoOn("bakclean")
    /\ Same("main") /\ Same("tmp") /\ disk'["bak"] = disk["baktmp"]
BakCleaned ==
    pc = "bakclean" /\ GoOn("main") /\ Same("main") /\ Same("bak") /\ Same("tmp")
MainAside ==
    /\ pc = "main" /\ windows /\ disk["main"] # Absent /\ GoOn("mainin")
    /\ Same("bak") /\ Same("tmp")
    /\ disk'["main"] = Absent /\ disk'["mainold"] = disk["main"]
MainReplaced ==
    /\ \/ pc = "main" /\ GoOn("sync")
       \/ pc = "mainin" /\ GoOn("mainclean")
    /\ Same("bak") /\ disk'["main"] = disk["tmp"]
MainCleaned ==
    pc = "mainclean" /\ GoOn("sync") /\ Same("main") /\ Same("bak")

Persisted ==
    \/ pc \in PersistSteps \ {"sync"} /\ Undone
    \/ BakBack \/ MainBack
    \/ TmpWritten \/ BakWritten \/ BakAside \/ BakReplaced \/ BakCleaned
    \/ MainAside \/ MainReplaced \/ MainCleaned

LEMMA ProceedFacts ==
  ASSUME DiskTypeOK, NEW d \in Disk, NEW step, Proceed(d, step)
  PROVE  disk' = d /\ GoOn(step)
  BY DEF Proceed, Put, Goto, GoOn, SameRecord, histVars, faultVars

LEMMA FailFacts ==
  ASSUME DiskTypeOK, NEW d \in Disk, Fail(d)
  PROVE  disk' = [d EXCEPT !["tmp"] = Absent] /\ GiveUp
  <1>1. [d EXCEPT !["tmp"] = Absent] \in Disk
    BY WriteType, FileNames, ContentFacts DEF Contents
  <1>2. QED
    BY <1>1 DEF Fail, Put, GiveUp, SameRecord

(* A step that fails before it has touched the main file or the backup.    *)
LEMMA FailsEarly ==
  ASSUME DiskTypeOK, NEW d \in Disk, Fail(d),
         d["main"] = disk["main"], d["bak"] = disk["bak"]
  PROVE  Undone
  BY FailFacts, FileNames DEF Undone, Same, Disk

LEMMA DroppedFacts ==
  ASSUME NEW d \in Disk, NEW target
  PROVE  /\ Dropped(d, target) \in Disk
         /\ Dropped(d, target)["main"] = d["main"]
         /\ Dropped(d, target)["bak"] = d["bak"]
  <1>1. [d EXCEPT !["baktmp"] = Absent] \in Disk
    BY WriteType, FileNames, ContentFacts DEF Contents
  <1>2. QED
    BY <1>1, FileNames DEF Dropped, Disk

LEMMA WriteFacts ==
  ASSUME DiskTypeOK, WriteTmp \/ WriteBackup
  PROVE  Persisted
  <1> USE FileNames
  <1>1. disk \in Disk /\ mem \in Contents /\ disk["main"] \in Contents
    BY SubsetsAreGood DEF DiskTypeOK, Disk
  <1>2. CASE WriteTmp
    <2>1. [disk EXCEPT !["tmp"] = mem] \in Disk
      BY <1>1, WriteType
    <2>2. CASE Proceed([disk EXCEPT !["tmp"] = mem],
                       IF disk["main"] = Absent THEN "main" ELSE "baktmp")
      <3>1. disk' = [disk EXCEPT !["tmp"] = mem]
            /\ GoOn(IF disk["main"] = Absent THEN "main" ELSE "baktmp")
        BY <2>1, <2>2, ProceedFacts
      <3>2. TmpWritten
        BY <1>1, <1>2, <3>1 DEF WriteTmp, TmpWritten, Same, Disk
      <3>3. QED
        BY <3>2 DEF Persisted
    <2>3. CASE Fail(disk)
      BY <1>1, <1>2, <2>3, FailsEarly DEF WriteTmp, Persisted, PersistSteps
    <2>4. QED
      BY <1>2, <2>2, <2>3 DEF WriteTmp
  <1>3. CASE WriteBackup
    <2>1. [disk EXCEPT !["baktmp"] = disk["main"]] \in Disk
      BY <1>1, WriteType
    <2>2. CASE Proceed([disk EXCEPT !["baktmp"] = disk["main"]], "bak")
      <3>1. disk' = [disk EXCEPT !["baktmp"] = disk["main"]] /\ GoOn("bak")
        BY <2>1, <2>2, ProceedFacts
      <3>2. BakWritten
        BY <1>1, <1>3, <3>1 DEF WriteBackup, BakWritten, Same, Disk
      <3>3. QED
        BY <3>2 DEF Persisted
    <2>3. CASE Fail(disk) \/ Fail(Dropped(disk, "bak"))
      BY <1>1, <1>3, <2>3, FailsEarly, DroppedFacts DEF WriteBackup, Persisted, PersistSteps
    <2>4. QED
      BY <1>3, <2>2, <2>3 DEF WriteBackup
  <1>4. QED
    BY <1>2, <1>3

LEMMA ReplaceBackupFacts ==
  ASSUME DiskTypeOK, ReplaceBackup
  PROVE  Persisted
  <1> USE FileNames
  <1>1. disk \in Disk
    BY DEF DiskTypeOK
  <1>2. ASSUME pc \in {"bak", "bakclean", "bakin"}, NEW d \in Disk, Fail(Dropped(d, "bak")),
               d["main"] = disk["main"], d["bak"] = disk["bak"]
        PROVE  Persisted
    BY <1>2, FailsEarly, DroppedFacts DEF Persisted, PersistSteps
  <1>3. ASSUME Proceed(Moved("baktmp", "bak"), "main"), pc = "bak"
        PROVE  Persisted
    <2>1. disk' = Moved("baktmp", "bak") /\ GoOn("main")
      BY <1>1, <1>3, MovedType, ProceedFacts
    <2>2. BakReplaced
      BY <1>1, <1>3, <2>1, MovedFacts DEF BakReplaced, Same
    <2>3. QED
      BY <2>2 DEF Persisted
  <1>4. CASE Rename("baktmp", "bak", "main")
    BY <1>1, <1>2, <1>3, <1>4 DEF Rename
  <1>5. CASE Aside("baktmp", "bak", "bakold", "bakin", "main")
    <2>1. CASE Proceed(Moved("bak", "bakold"), "bakin")
      <3>1. disk' = Moved("bak", "bakold") /\ GoOn("bakin")
        BY <1>1, <2>1, MovedType, ProceedFacts
      <3>2. BakAside
        BY <1>1, <1>5, <3>1, MovedFacts DEF Aside, BakAside, Same
      <3>3. QED
        BY <3>2 DEF Persisted
    <2>2. CASE Fail(Dropped([disk EXCEPT !["bakold"] = Absent], "bak"))
      <3>1. [disk EXCEPT !["bakold"] = Absent] \in Disk
        BY <1>1, WriteType, ContentFacts DEF Contents
      <3>2. QED
        BY <1>1, <1>2, <1>5, <2>2, <3>1 DEF Aside, Disk
    <2>3. QED
      BY <1>1, <1>2, <1>3, <1>5, <2>1, <2>2 DEF Aside
  <1>6. CASE MoveIn("baktmp", "bak", "bakold", "bakin", "bakclean")
    <2>1. CASE Proceed(Moved("baktmp", "bak"), "bakclean")
      <3>1. disk' = Moved("baktmp", "bak") /\ GoOn("bakclean")
        BY <1>1, <2>1, MovedType, ProceedFacts
      <3>2. BakReplaced
        BY <1>1, <1>6, <3>1, MovedFacts DEF MoveIn, BakReplaced, Same
      <3>3. QED
        BY <3>2 DEF Persisted
    <2>2. CASE Fail(Dropped(Moved("bakold", "bak"), "bak"))
      <3>1. /\ Moved("bakold", "bak") \in Disk
            /\ Moved("bakold", "bak")["bak"] = disk["bakold"]
            /\ Moved("bakold", "bak")["main"] = disk["main"]
        BY <1>1, MovedType, MovedFacts
      <3>2. /\ Dropped(Moved("bakold", "bak"), "bak") \in Disk
            /\ Dropped(Moved("bakold", "bak"), "bak")["bak"] = disk["bakold"]
            /\ Dropped(Moved("bakold", "bak"), "bak")["main"] = disk["main"]
        BY <3>1, DroppedFacts
      <3>3. BakBack
        BY <1>6, <2>2, <3>2, FailFacts DEF MoveIn, BakBack, Same, Disk
      <3>4. QED
        BY <3>3 DEF Persisted
    <2>3. QED
      BY <1>1, <1>2, <1>6, <2>1, <2>2 DEF MoveIn
  <1>7. CASE CleanUp("bak", "bakold", "bakclean", "main")
    <2>1. CASE Proceed([disk EXCEPT !["bakold"] = Absent], "main")
      <3>1. [disk EXCEPT !["bakold"] = Absent] \in Disk
        BY <1>1, WriteType, ContentFacts DEF Contents
      <3>2. disk' = [disk EXCEPT !["bakold"] = Absent] /\ GoOn("main")
        BY <2>1, <3>1, ProceedFacts
      <3>3. BakCleaned
        BY <1>1, <1>7, <3>2 DEF CleanUp, BakCleaned, Same, Disk
      <3>4. QED
        BY <3>3 DEF Persisted
    <2>2. QED
      BY <1>1, <1>2, <1>7, <2>1 DEF CleanUp
  <1>8. QED
    BY <1>4, <1>5, <1>6, <1>7 DEF ReplaceBackup

LEMMA ReplaceMainFacts ==
  ASSUME DiskTypeOK, ReplaceMain
  PROVE  Persisted
  <1> USE FileNames
  <1>1. disk \in Disk
    BY DEF DiskTypeOK
  <1>2. ASSUME pc \in {"main", "mainclean", "mainin"}, NEW d \in Disk, Fail(Dropped(d, "main")),
               d["main"] = disk["main"], d["bak"] = disk["bak"]
        PROVE  Persisted
    BY <1>2, FailsEarly, DroppedFacts DEF Persisted, PersistSteps
  <1>3. ASSUME Proceed(Moved("tmp", "main"), "sync"), pc = "main"
        PROVE  Persisted
    <2>1. disk' = Moved("tmp", "main") /\ GoOn("sync")
      BY <1>1, <1>3, MovedType, ProceedFacts
    <2>2. MainReplaced
      BY <1>1, <1>3, <2>1, MovedFacts DEF MainReplaced, Same
    <2>3. QED
      BY <2>2 DEF Persisted
  <1>4. CASE Rename("tmp", "main", "sync")
    BY <1>1, <1>2, <1>3, <1>4 DEF Rename
  <1>5. CASE Aside("tmp", "main", "mainold", "mainin", "sync")
    <2>1. CASE disk["main"] # Absent /\ Proceed(Moved("main", "mainold"), "mainin")
      <3>1. disk' = Moved("main", "mainold") /\ GoOn("mainin")
        BY <1>1, <2>1, MovedType, ProceedFacts
      <3>2. MainAside
        BY <1>1, <1>5, <2>1, <3>1, MovedFacts DEF Aside, MainAside, Same
      <3>3. QED
        BY <3>2 DEF Persisted
    <2>2. CASE Fail(Dropped([disk EXCEPT !["mainold"] = Absent], "main"))
      <3>1. [disk EXCEPT !["mainold"] = Absent] \in Disk
        BY <1>1, WriteType, ContentFacts DEF Contents
      <3>2. QED
        BY <1>1, <1>2, <1>5, <2>2, <3>1 DEF Aside, Disk
    <2>3. QED
      BY <1>1, <1>2, <1>3, <1>5, <2>1, <2>2 DEF Aside
  <1>6. CASE MoveIn("tmp", "main", "mainold", "mainin", "mainclean")
    <2>1. CASE Proceed(Moved("tmp", "main"), "mainclean")
      <3>1. disk' = Moved("tmp", "main") /\ GoOn("mainclean")
        BY <1>1, <2>1, MovedType, ProceedFacts
      <3>2. MainReplaced
        BY <1>1, <1>6, <3>1, MovedFacts DEF MoveIn, MainReplaced, Same
      <3>3. QED
        BY <3>2 DEF Persisted
    <2>2. CASE Fail(Dropped(Moved("mainold", "main"), "main"))
      <3>1. /\ Moved("mainold", "main") \in Disk
            /\ Moved("mainold", "main")["main"] = disk["mainold"]
            /\ Moved("mainold", "main")["bak"] = disk["bak"]
        BY <1>1, MovedType, MovedFacts
      <3>2. /\ Dropped(Moved("mainold", "main"), "main") \in Disk
            /\ Dropped(Moved("mainold", "main"), "main")["main"] = disk["mainold"]
            /\ Dropped(Moved("mainold", "main"), "main")["bak"] = disk["bak"]
        BY <3>1, DroppedFacts
      <3>3. MainBack
        BY <1>6, <2>2, <3>2, FailFacts DEF MoveIn, MainBack, Same, Disk
      <3>4. QED
        BY <3>3 DEF Persisted
    <2>3. QED
      BY <1>1, <1>2, <1>6, <2>1, <2>2 DEF MoveIn
  <1>7. CASE CleanUp("main", "mainold", "mainclean", "sync")
    <2>1. CASE Proceed([disk EXCEPT !["mainold"] = Absent], "sync")
      <3>1. [disk EXCEPT !["mainold"] = Absent] \in Disk
        BY <1>1, WriteType, ContentFacts DEF Contents
      <3>2. disk' = [disk EXCEPT !["mainold"] = Absent] /\ GoOn("sync")
        BY <2>1, <3>1, ProceedFacts
      <3>3. MainCleaned
        BY <1>1, <1>7, <3>2 DEF CleanUp, MainCleaned, Same, Disk
      <3>4. QED
        BY <3>3 DEF Persisted
    <2>2. QED
      BY <1>1, <1>2, <1>7, <2>1 DEF CleanUp
  <1>8. QED
    BY <1>4, <1>5, <1>6, <1>7 DEF ReplaceMain

LEMMA PersistFacts ==
  ASSUME DiskTypeOK, Persist
  PROVE  Persisted \/ Sync
  BY WriteFacts, ReplaceBackupFacts, ReplaceMainFacts DEF Persist

(* The steps around persistLocked, in the same terms.                      *)

LEMMA SyncFacts ==
  ASSUME DiskTypeOK, Sync
  PROVE  /\ pc = "sync" /\ pc' = "up"
         /\ UNCHANGED <<windows, disk, mem, before, op, used, failed, corruptions>>
         /\ \/ survivors' = {disk} /\ unsynced' = unsynced
            \/ survivors' = survivors /\ unsynced' = unsynced + 1
         /\ IF op = NoOp THEN UNCHANGED <<acked, last>>
            ELSE acked' = acked \cup {op} /\ last' = op
  BY DEF Sync, Goto

LEMMA OpenFacts ==
  ASSUME DiskTypeOK, Open
  PROVE  /\ pc = "down" /\ acked' = acked \cap mem'
         /\ UNCHANGED <<windows, disk, survivors, used, failed, last, corruptions, unsynced>>
         /\ IF Source(disk) = "none"
            THEN pc' = "refused" /\ UNCHANGED <<mem, before, op>>
            ELSE /\ mem' = Loads(disk) /\ before' = Loads(disk) /\ op' = NoOp
                 /\ pc' = IF Source(disk) = "bak" /\ disk["main"] # Absent
                          THEN "quarantine" ELSE "tmp"
  BY DEF Open, faultVars

(* The damaged file stays, and Open fails, or it is gone. *)
LEMMA QuarantineFacts ==
  ASSUME DiskTypeOK, QuarantineCorruptState
  PROVE  /\ pc = "quarantine" /\ disk' \in Disk
         /\ UNCHANGED <<windows, mem, before, op, used, acked, failed, last, corruptions>>
         /\ survivors' \subseteq survivors \cup {disk'} /\ Same("bak")
         /\ \/ pc' = "down" /\ Same("main") /\ unsynced' = unsynced
            \/ pc' = "tmp" /\ disk'["main"] = Absent /\ unsynced' \in {unsynced, unsynced + 1}
  <1> USE FileNames
  <1> DEFINE gone == [disk EXCEPT !["corrupt"] = Absent]
  <1>1. /\ Moved("main", "corrupt") \in Disk
        /\ Moved("main", "corrupt")["main"] = Absent
        /\ Moved("main", "corrupt")["bak"] = disk["bak"]
    BY MovedType, MovedFacts DEF DiskTypeOK
  <1>2. gone \in Disk /\ gone["main"] = disk["main"] /\ gone["bak"] = disk["bak"]
    BY WriteType, ContentFacts DEF DiskTypeOK, Disk, Contents
  <1> HIDE DEF gone
  <1>3. /\ pc = "quarantine"
        /\ UNCHANGED <<windows, mem, before, op, used, acked, failed, last, corruptions>>
        /\ \/ /\ disk' = Moved("main", "corrupt") /\ survivors' = {disk'}
              /\ pc' = "tmp" /\ unsynced' = unsynced
           \/ Put(gone) /\ pc' = "down" /\ unsynced' = unsynced
           \/ /\ Put(Moved("main", "corrupt"))
              /\ pc' = "tmp" /\ unsynced' = unsynced + 1
    BY DEF QuarantineCorruptState, Goto, histVars, gone
  <1>4. QED
    BY <1>1, <1>2, <1>3 DEF Put, Same

LEMMA TornFacts ==
  ASSUME DiskTypeOK, NEW d \in Torn(disk)
  PROVE  d \in Disk /\ d["main"] = disk["main"] /\ d["bak"] = disk["bak"]
  <1> USE FileNames
  <1>1. [disk EXCEPT !["tmp"] = Garbage] \in Disk /\ [disk EXCEPT !["baktmp"] = Garbage] \in Disk
    BY WriteType, ContentFacts DEF DiskTypeOK, Contents
  <1>2. QED
    BY <1>1 DEF Torn, DiskTypeOK, Disk

LEMMA CrashFacts ==
  ASSUME DiskTypeOK, Crash
  PROVE  /\ pc \notin {"down", "refused"} /\ pc' = "down"
         /\ UNCHANGED <<windows, mem, before, op, used, acked, failed, last,
                        corruptions, unsynced>>
         /\ disk' \in Disk /\ survivors' \subseteq survivors \cup {disk'}
         /\ \E d \in Disks : disk'["main"] = d["main"] /\ disk'["bak"] = d["bak"]
  <1>1. /\ pc \notin {"down", "refused"} /\ pc' = "down"
        /\ UNCHANGED <<windows, mem, before, op, used, acked, failed, last,
                       corruptions, unsynced>>
        /\ \/ \E d \in Torn(disk) : disk' = d /\ survivors' = (survivors \ {disk}) \cup {d}
           \/ \E d \in survivors : disk' = d /\ survivors' = {d}
    BY DEF Crash, histVars
  <1>2. CASE \E d \in Torn(disk) : disk' = d /\ survivors' = (survivors \ {disk}) \cup {d}
    BY <1>1, <1>2, TornFacts DEF Disks
  <1>3. CASE \E d \in survivors : disk' = d /\ survivors' = {d}
    BY <1>1, <1>3 DEF Disks, DiskTypeOK
  <1>4. QED
    BY <1>1, <1>2, <1>3

LEMMA CorruptFacts ==
  ASSUME DiskTypeOK, Corrupt
  PROVE  /\ pc = "down" /\ Good(disk["main"]) /\ disk' \in Disk
         /\ disk'["main"] = Garbage /\ Same("bak") /\ survivors' = {disk'}
         /\ corruptions' = corruptions + 1
         /\ UNCHANGED <<windows, pc, mem, before, op, used, acked, failed, last, unsynced>>
  <1> USE FileNames
  <1>1. [disk EXCEPT !["main"] = Garbage] \in Disk
    BY WriteType, ContentFacts DEF DiskTypeOK, Contents
  <1>2. QED
    BY <1>1 DEF Corrupt, Same, DiskTypeOK, Disk, programVars, histVars

-----------------------------------------------------------------------------
(* Types *)

LEMMA NextDiskType == DiskTypeOK /\ [Next]_vars => DiskTypeOK'
  <1> SUFFICES ASSUME DiskTypeOK, [Next]_vars
               PROVE  DiskTypeOK'
    OBVIOUS
  <1>1. CASE Persisted
    <2>1. SameRecord => /\ UNCHANGED <<windows, before, op, used, acked, last, corruptions, unsynced>>
                        /\ disk' \in Disk /\ survivors' \in SUBSET Disk
      BY DEF DiskTypeOK, SameRecord
    <2>2. ASSUME GiveUp PROVE DiskTypeOK'
      BY <2>1, <2>2 DEF DiskTypeOK, GiveUp
    <2>3. ASSUME NEW step \in PersistSteps, GoOn(step) PROVE DiskTypeOK'
      BY <2>1, <2>3 DEF DiskTypeOK, GoOn
    <2>4. \/ GiveUp \/ \E step \in PersistSteps : GoOn(step)
      BY <1>1 DEF Persisted, Undone, BakBack, MainBack, TmpWritten, BakWritten, BakAside,
                  BakReplaced, BakCleaned, MainAside, MainReplaced, MainCleaned, PersistSteps
    <2>5. QED
      BY <2>2, <2>3, <2>4
  <1>2. CASE Sync
    BY <1>2, SyncFacts DEF DiskTypeOK
  <1>3. CASE Open
    <2>1. Loads(disk) \in SUBSET Ops
      BY LoadsFacts DEF DiskTypeOK
    <2>2. mem' \in SUBSET Ops /\ before' \in SUBSET Ops
      BY <1>3, <2>1, OpenFacts DEF DiskTypeOK
    <2>3. pc' \in PersistSteps \cup {"down", "refused", "quarantine", "up"}
      BY <1>3, OpenFacts DEF PersistSteps
    <2>4. op' \in Ops \cup {NoOp} /\ acked' \in SUBSET Ops
      BY <1>3, OpenFacts DEF DiskTypeOK
    <2>5. QED
      BY <1>3, <2>2, <2>3, <2>4, OpenFacts DEF DiskTypeOK
  <1>4. CASE QuarantineCorruptState
    BY <1>4, QuarantineFacts DEF DiskTypeOK, PersistSteps
  <1>5. ASSUME NEW o \in Ops, Mutate(o)
        PROVE  DiskTypeOK'
    BY <1>5 DEF Mutate, DiskTypeOK, PersistSteps, faultVars
  <1>6. CASE Close
    BY <1>6 DEF Close, DiskTypeOK, PersistSteps, histVars, faultVars
  <1>7. CASE Crash
    BY <1>7, CrashFacts DEF DiskTypeOK
  <1>8. CASE Corrupt
    BY <1>8, CorruptFacts DEF DiskTypeOK
  <1>9. CASE UNCHANGED vars
    BY <1>9 DEF vars, programVars, histVars, faultVars, DiskTypeOK
  <1>10. QED
    BY <1>1, <1>2, <1>3, <1>4, <1>5, <1>6, <1>7, <1>8, <1>9, PersistFacts DEF Next

LEMMA InitDiskType == Init => DiskTypeOK
  <1> SUFFICES ASSUME Init PROVE DiskTypeOK
    OBVIOUS
  <1>1. disk \in Disk
    BY ContentFacts DEF Init, Disk, Contents
  <1>2. QED
    BY <1>1 DEF Init, DiskTypeOK

(* The files hold sets of operations, or nothing, or what does not decode. *)
THEOREM DiskTypeCorrect == Spec => []DiskTypeOK
  BY InitDiskType, NextDiskType, PTL DEF Spec

-----------------------------------------------------------------------------
(* Where persistLocked is, and what the files hold at that point.          *)

Staged ==
    /\ pc \in {"baktmp", "bak", "bakin", "bakclean", "main", "mainin"} => disk["tmp"] = mem
    /\ pc \in {"bak", "bakin"} => disk["baktmp"] = disk["main"]
    /\ pc \in {"baktmp", "bak", "bakin", "bakclean"} => disk["main"] # Absent
    /\ pc = "bakin" => disk["bakold"] # Garbage
    /\ pc = "bakclean" => disk["bak"] = disk["main"]
    /\ pc = "main" => disk["main"] = Absent \/ disk["bak"] = disk["main"]
    /\ pc = "mainin" => /\ disk["main"] = Absent
                        /\ disk["mainold"] = disk["bak"] /\ Good(disk["bak"])
    /\ pc \in {"mainclean", "sync"} => disk["main"] = mem
    /\ pc \in {"bakin", "bakclean", "mainin", "mainclean"} => windows
    /\ pc \in PersistSteps \cup {"up"} => disk["main"] # Garbage
    /\ pc = "quarantine" => /\ disk["main"] = Garbage /\ disk["bak"] = mem
                            /\ op = NoOp
    /\ pc \notin {"down", "refused"} => before \subseteq mem
    /\ pc \in PersistSteps /\ op # NoOp => op \in mem
    /\ \A d \in Disks : d["bak"] # Garbage

LEMMA DisksGrow ==
  ASSUME survivors' \subseteq survivors \cup {disk'}
  PROVE  Disks' \subseteq Disks \cup {disk'}
  BY DEF Disks

LEMMA NextStaged == DiskTypeOK /\ Staged /\ [Next]_vars => Staged'
  <1> SUFFICES ASSUME DiskTypeOK, Staged, [Next]_vars
               PROVE  Staged'
    OBVIOUS
  <1> USE FileNames
  <1>0. /\ disk["main"] \in Contents /\ disk["bak"] \in Contents
        /\ mem # Absent /\ mem # Garbage /\ Absent # Garbage /\ disk \in Disks
    BY SubsetsAreGood, ContentFacts DEF DiskTypeOK, Disk, Disks
  <1>1. CASE Persisted
    <2>1. SameRecord => Disks' \subseteq Disks \cup {disk'}
      BY DisksGrow DEF SameRecord
    <2>2. CASE pc \in PersistSteps \ {"sync"} /\ Undone
      BY <1>0, <2>1, <2>2 DEF Staged, Undone, GiveUp, Same, PersistSteps, SameRecord
    <2>3. CASE BakBack
      BY <1>0, <2>1, <2>3 DEF Staged, BakBack, GiveUp, Same, PersistSteps, SameRecord
    <2>4. CASE MainBack
      BY <1>0, <2>1, <2>4 DEF Staged, MainBack, GiveUp, Same, PersistSteps, SameRecord, Good
    <2>5. CASE TmpWritten
      BY <1>0, <2>1, <2>5 DEF Staged, TmpWritten, GoOn, Same, PersistSteps, SameRecord
    <2>6. CASE BakWritten
      BY <1>0, <2>1, <2>6 DEF Staged, BakWritten, GoOn, Same, PersistSteps, SameRecord
    <2>7. CASE BakAside
      BY <1>0, <2>1, <2>7 DEF Staged, BakAside, GoOn, Same, PersistSteps, SameRecord
    <2>8. CASE BakReplaced
      BY <1>0, <2>1, <2>8 DEF Staged, BakReplaced, GoOn, Same, PersistSteps, SameRecord
    <2>9. CASE BakCleaned
      BY <1>0, <2>1, <2>9 DEF Staged, BakCleaned, GoOn, Same, PersistSteps, SameRecord
    <2>10. CASE MainAside
      BY <1>0, <2>1, <2>10 DEF Staged, MainAside, GoOn, Same, PersistSteps, SameRecord, Good
    <2>11. CASE MainReplaced
      BY <1>0, <2>1, <2>11 DEF Staged, MainReplaced, GoOn, Same, PersistSteps, SameRecord
    <2>12. CASE MainCleaned
      BY <1>0, <2>1, <2>12 DEF Staged, MainCleaned, GoOn, Same, PersistSteps, SameRecord
    <2>13. QED
      BY <1>1, <2>2, <2>3, <2>4, <2>5, <2>6, <2>7, <2>8, <2>9, <2>10, <2>11, <2>12
         DEF Persisted
  <1>2. CASE Sync
    BY <1>2, SyncFacts DEF Staged, Disks, PersistSteps
  <1>3. CASE Open
    <2>1. disk["bak"] # Garbage
      BY <1>0 DEF Staged
    <2>2. CASE Source(disk) = "none"
      BY <1>3, <2>2, OpenFacts DEF Staged, Disks, PersistSteps
    <2>3. CASE Source(disk) # "none" /\ pc' = "quarantine"
      <3>1. Source(disk) = "bak" /\ disk["main"] = Garbage
        BY <1>3, <2>3, OpenFacts DEF Source, Good
      <3>2. Loads(disk) = disk["bak"]
        BY <3>1 DEF Loads
      <3>3. QED
        BY <1>3, <2>3, <3>1, <3>2, OpenFacts DEF Staged, Disks, PersistSteps
    <2>4. CASE Source(disk) # "none" /\ pc' = "tmp"
      <3>1. disk["main"] # Garbage
        BY <1>0, <1>3, <2>4, OpenFacts DEF Source, Good
      <3>2. QED
        BY <1>3, <2>4, <3>1, OpenFacts DEF Staged, Disks, PersistSteps
    <2>5. QED
      BY <1>3, <2>2, <2>3, <2>4, OpenFacts
  <1>4. CASE QuarantineCorruptState
    <2>1. Disks' \subseteq Disks \cup {disk'}
      BY <1>4, QuarantineFacts, DisksGrow
    <2>2. QED
      BY <1>0, <1>4, <2>1, QuarantineFacts DEF Staged, Same, PersistSteps
  <1>5. ASSUME NEW o \in Ops, Mutate(o)
        PROVE  Staged'
    BY <1>5 DEF Mutate, Staged, Disks, PersistSteps, faultVars
  <1>6. CASE Close
    BY <1>6 DEF Close, Staged, Disks, PersistSteps, histVars, faultVars
  <1>7. CASE Crash
    <2>1. Disks' \subseteq Disks \cup {disk'}
      BY <1>7, CrashFacts, DisksGrow
    <2>2. QED
      BY <1>7, <2>1, CrashFacts DEF Staged, PersistSteps
  <1>8. CASE Corrupt
    BY <1>0, <1>8, CorruptFacts DEF Staged, Disks, Same, PersistSteps
  <1>9. CASE UNCHANGED vars
    BY <1>9 DEF vars, programVars, histVars, faultVars, Staged, Disks
  <1>10. QED
    BY <1>1, <1>2, <1>3, <1>4, <1>5, <1>6, <1>7, <1>8, <1>9, PersistFacts DEF Next

LEMMA InitDisks ==
  ASSUME Init
  PROVE  /\ pc = "down" /\ last = NoOp /\ acked = {} /\ failed = {} /\ mem = {} /\ before = {}
         /\ \A d \in Disks : d["main"] = Absent /\ d["bak"] = Absent /\ Loads(d) = {}
  <1>1. pc = "down" /\ last = NoOp /\ acked = {} /\ failed = {} /\ mem = {} /\ before = {}
    BY DEF Init
  <1>2. \A d \in Disks : d["main"] = Absent /\ d["bak"] = Absent
    BY FileNames DEF Init, Disks
  <1>3. QED
    BY <1>1, <1>2 DEF Loads, Source, Good

LEMMA StagedInvariant == Spec => [](DiskTypeOK /\ Staged)
  <1>1. Init => Staged
    <2> SUFFICES ASSUME Init PROVE Staged
      OBVIOUS
    <2>1. \A d \in Disks : d["bak"] # Garbage
      BY InitDisks, MarkersDiffer
    <2>2. pc = "down" /\ op = NoOp
      BY DEF Init
    <2>3. QED
      BY <2>1, <2>2 DEF Staged, PersistSteps
  <1>2. QED
    BY <1>1, InitDiskType, NextDiskType, NextStaged, PTL DEF Spec

-----------------------------------------------------------------------------
(* Acknowledged operations, as long as nothing damages the main file and   *)
(* no sync is lost.  Every disk a crash may leave, and the memory, has     *)
(* them, and so has what a failed call sets the memory back to.            *)

Undamaged == corruptions = 0 /\ unsynced = 0

HasAcked(d) == d["main"] # Garbage /\ acked \subseteq Loads(d)

AckedInv ==
    Undamaged =>
      /\ pc \notin {"quarantine", "refused"}
      /\ \A d \in Disks : HasAcked(d)
      /\ pc = "up" => acked \subseteq mem
      /\ pc \in PersistSteps => acked \subseteq before

(* A disk with the main file and the backup of another loads the same.     *)
LEMMA SameFilesLoad ==
  ASSUME NEW d \in Disk, NEW e \in Disk, d["main"] = e["main"], d["bak"] = e["bak"]
  PROVE  Loads(d) = Loads(e) /\ Source(d) = Source(e)
  <1>1. Source(d) = Source(e)
    BY DEF Source
  <1>2. QED
    BY <1>1 DEF Loads, Source

LEMMA NextAcked == DiskTypeOK /\ DiskTypeOK' /\ Staged /\ AckedInv /\ [Next]_vars => AckedInv'
  <1> SUFFICES ASSUME DiskTypeOK, DiskTypeOK', Staged, AckedInv, [Next]_vars, Undamaged'
               PROVE  /\ pc' \notin {"quarantine", "refused"}
                      /\ \A d \in Disks' : HasAcked(d)'
                      /\ pc' = "up" => acked' \subseteq mem'
                      /\ pc' \in PersistSteps => acked' \subseteq before'
    BY DEF AckedInv
  <1> USE FileNames
  <1>0. /\ disk \in Disk /\ disk \in Disks /\ Disks \subseteq Disk
        /\ disk["main"] \in Contents /\ disk["bak"] \in Contents
        /\ disk["bak"] # Garbage /\ mem \in SUBSET Ops /\ Good(mem) /\ mem # Garbage
        /\ corruptions \in Nat /\ unsynced \in Nat
    BY SubsetsAreGood DEF DiskTypeOK, Disk, Disks, Staged
  <1>1. CASE Persisted
    <2>0. SameRecord
      BY <1>1 DEF Persisted, Undone, BakBack, MainBack, TmpWritten, BakWritten, BakAside,
                  BakReplaced, BakCleaned, MainAside, MainReplaced, MainCleaned, GoOn, GiveUp
    <2>1. /\ Undamaged /\ acked' = acked /\ before' = before
          /\ Disks' \subseteq Disks \cup {disk'} /\ disk' \in Disk
      BY <2>0, DisksGrow DEF SameRecord, Undamaged
    <2>2. /\ pc \in PersistSteps /\ acked \subseteq before /\ before \subseteq mem
          /\ HasAcked(disk)
      BY <1>0, <1>1, <2>1
         DEF Persisted, BakBack, MainBack, TmpWritten, BakWritten, BakAside, BakReplaced,
             BakCleaned, MainAside, MainReplaced, MainCleaned, PersistSteps, Staged, AckedInv
    <2>3. /\ pc' \notin {"quarantine", "refused"}
          /\ pc' = "up" => mem' = before
      BY <1>1 DEF Persisted, Undone, BakBack, MainBack, TmpWritten, BakWritten, BakAside,
                  BakReplaced, BakCleaned, MainAside, MainReplaced, MainCleaned, GoOn, GiveUp
    <2>4. disk'["main"] # Garbage /\ acked \subseteq Loads(disk')
      <3>1. CASE Same("main") /\ Same("bak")
        BY <1>0, <2>1, <2>2, <3>1, SameFilesLoad DEF Same, HasAcked
      <3>2. CASE Same("main") /\ pc \in {"bak", "bakin"}
        <4>1. Good(disk["main"])
          BY <2>2, <3>2 DEF Staged, HasAcked, Good
        <4>2. QED
          BY <1>0, <2>1, <2>2, <3>2, <4>1, LoadsFacts DEF Same, HasAcked
      <3>3. CASE disk'["main"] = mem
        BY <1>0, <2>1, <2>2, <3>3, LoadsFacts
      <3>4. CASE MainBack \/ MainAside
        <4>1. /\ Good(disk["bak"]) /\ disk'["bak"] = disk["bak"]
              /\ disk'["main"] = Absent \/ disk'["main"] = disk["bak"]
              /\ Loads(disk) = disk["bak"]
          <5>1. CASE MainBack
            <6>1. /\ disk["main"] = Absent /\ Good(disk["bak"])
                  /\ disk'["bak"] = disk["bak"] /\ disk'["main"] = disk["bak"]
              BY <5>1 DEF MainBack, Same, Staged
            <6>2. QED
              BY <1>0, <6>1, LoadsFacts, MarkersDiffer
          <5>2. CASE MainAside
            <6>1. /\ disk["main"] # Absent /\ disk["main"] # Garbage
                  /\ disk["bak"] = disk["main"]
                  /\ disk'["bak"] = disk["bak"] /\ disk'["main"] = Absent
              BY <2>2, <5>2 DEF MainAside, Same, Staged, HasAcked
            <6>2. QED
              BY <1>0, <6>1, LoadsFacts DEF Good
          <5>3. QED
            BY <3>4, <5>1, <5>2
        <4>2. Loads(disk') = disk["bak"] /\ disk'["main"] # Garbage
          BY <2>1, <4>1, LoadsFacts, MarkersDiffer
        <4>3. QED
          BY <2>2, <4>1, <4>2 DEF HasAcked
      <3>5. QED
        BY <1>1, <3>1, <3>2, <3>3, <3>4
           DEF Persisted, Undone, BakBack, TmpWritten, BakWritten, BakAside, BakReplaced,
               BakCleaned, MainReplaced, MainCleaned, Staged
    <2>5. \A d \in Disks' : HasAcked(d)'
      BY <2>1, <2>4 DEF AckedInv, HasAcked, Loads, Source
    <2>6. QED
      BY <2>1, <2>2, <2>3, <2>5
  <1>2. CASE Sync
    <2>1. /\ survivors' = {disk} /\ disk' = disk /\ Undamaged /\ mem' = mem
          /\ pc' = "up" /\ pc = "sync"
      BY <1>0, <1>2, SyncFacts DEF Undamaged
    <2>2. acked \subseteq mem /\ disk["main"] = mem /\ (op # NoOp => op \in mem)
      BY <2>1 DEF Staged, AckedInv, PersistSteps
    <2>3. acked' \subseteq mem
      BY <1>2, <2>2, SyncFacts
    <2>4. Loads(disk') = mem /\ disk'["main"] # Garbage
      BY <1>0, <2>1, <2>2, LoadsFacts
    <2>5. Disks' = {disk'}
      BY <2>1 DEF Disks
    <2>6. QED
      BY <2>1, <2>3, <2>4, <2>5 DEF HasAcked, PersistSteps
  <1>3. CASE Open
    <2>1. /\ Undamaged /\ HasAcked(disk) /\ Disks' = Disks
          /\ acked' = acked \cap mem'
      BY <1>0, <1>3, OpenFacts DEF Undamaged, AckedInv, Disks
    <2>2. Source(disk) # "none" /\ ~(Source(disk) = "bak" /\ disk["main"] # Absent)
      BY <1>0, <2>1 DEF Source, HasAcked, Good
    <2>3. pc' = "tmp" /\ before' = mem'
      BY <1>3, <2>2, OpenFacts
    <2>4. \A d \in Disks : HasAcked(d)'
      BY <2>1 DEF AckedInv, HasAcked, Loads, Source
    <2>5. QED
      BY <2>1, <2>3, <2>4
  <1>4. CASE QuarantineCorruptState
    BY <1>0, <1>4, QuarantineFacts DEF Undamaged, AckedInv
  <1>5. ASSUME UNCHANGED <<disk, survivors, acked, corruptions, unsynced>>
        PROVE  Undamaged /\ \A d \in Disks' : HasAcked(d)'
    BY <1>5 DEF AckedInv, HasAcked, Loads, Source, Disks, Undamaged
  <1>6. ASSUME NEW o \in Ops, Mutate(o)
        PROVE  /\ pc' \notin {"quarantine", "refused"}
               /\ \A d \in Disks' : HasAcked(d)'
               /\ pc' = "up" => acked' \subseteq mem'
               /\ pc' \in PersistSteps => acked' \subseteq before'
    BY <1>5, <1>6 DEF Mutate, AckedInv, faultVars
  <1>7. CASE Close
    BY <1>5, <1>7 DEF Close, AckedInv, histVars, faultVars
  <1>8. CASE Crash
    <2>1. /\ Undamaged /\ pc' = "down" /\ acked' = acked /\ disk' \in Disk
          /\ Disks' \subseteq Disks \cup {disk'}
      BY <1>8, CrashFacts, DisksGrow DEF Undamaged
    <2>2. PICK d \in Disks : disk'["main"] = d["main"] /\ disk'["bak"] = d["bak"]
      BY <1>8, CrashFacts
    <2>3. Loads(disk') = Loads(d) /\ HasAcked(d)
      BY <1>0, <2>1, <2>2, SameFilesLoad DEF AckedInv
    <2>4. \A e \in Disks' : HasAcked(e)'
      BY <2>1, <2>2, <2>3 DEF AckedInv, HasAcked, Loads, Source
    <2>5. QED
      BY <2>1, <2>4 DEF PersistSteps
  <1>9. CASE Corrupt
    BY <1>0, <1>9, CorruptFacts DEF Undamaged
  <1>10. CASE UNCHANGED vars
    BY <1>5, <1>10 DEF vars, programVars, histVars, faultVars, AckedInv
  <1>11. QED
    BY <1>1, <1>2, <1>3, <1>4, <1>6, <1>7, <1>8, <1>9, <1>10, PersistFacts DEF Next

(* An operation that was acknowledged survives every crash, at every step  *)
(* of every later write.                                                   *)
THEOREM AcknowledgedSurvives == Spec => []AckedSurvives
  <1>1. Init => AckedInv
    BY InitDisks, MarkersDiffer DEF AckedInv, HasAcked, PersistSteps
  <1>2. DiskTypeOK /\ Staged /\ AckedInv => AckedSurvives
    <2> SUFFICES ASSUME DiskTypeOK, Staged, AckedInv, Undamaged, NEW d \in Disks
                 PROVE  Source(d) # "none" /\ acked \subseteq Loads(d)
      BY DEF AckedSurvives, Undamaged, Disks
    <2>1. d \in Disk /\ HasAcked(d) /\ d["bak"] # Garbage
      BY DEF DiskTypeOK, Disks, AckedInv, Staged
    <2>2. QED
      BY <2>1 DEF HasAcked, Source, Good
  <1>3. QED
    BY <1>1, <1>2, StagedInvariant, InitDiskType, NextDiskType, NextAcked, PTL DEF Spec

-----------------------------------------------------------------------------
(* Damaged main files, where a rename replaces its target.  The backup     *)
(* lags behind the main file by one operation, the newest.                 *)

Covers(d) ==
    /\ Good(d["main"]) => acked \subseteq d["main"]
    /\ d["main"] = Absent => acked \subseteq Loads(d)
    /\ Good(d["bak"]) => acked \ {last} \subseteq d["bak"]
    /\ last # NoOp => Good(d["bak"])

DamageInv ==
    ~windows /\ unsynced = 0 =>
      /\ \A d \in Disks : Covers(d)
      /\ last = NoOp => acked = {}
      /\ pc = "up" => acked \subseteq mem
      /\ pc \in PersistSteps \cup {"quarantine"} => acked \subseteq before
      /\ pc \in {"main", "sync"} /\ op # NoOp =>
            Good(disk["bak"]) /\ acked \subseteq disk["bak"]
      /\ pc = "up" \/ (pc \in PersistSteps /\ op # NoOp) => disk["main"] # Absent
      /\ pc = "refused" => last = NoOp

LEMMA CoversSame ==
  ASSUME NEW d \in Disk, NEW e \in Disk, d["main"] = e["main"], d["bak"] = e["bak"], Covers(d)
  PROVE  Covers(e)
  BY SameFilesLoad DEF Covers

(* Fewer acknowledged operations, with the same newest, are covered too.   *)
LEMMA CoversLess ==
  ASSUME NEW d, Covers(d), acked' \subseteq acked, last' = last
  PROVE  Covers(d)'
  BY DEF Covers, Loads, Source

(* Where a rename replaces its target, persistLocked has fewer steps.      *)
LEMMA PlainPersist ==
  ASSUME Staged, Persisted, ~windows
  PROVE  /\ SameRecord
         /\ pc \in PersistSteps \ {"sync", "bakin", "bakclean", "mainin", "mainclean"}
         /\ \/ Undone \/ TmpWritten \/ BakWritten
            \/ BakReplaced /\ pc = "bak"
            \/ MainReplaced /\ pc = "main"
  <1>1. SameRecord
    BY DEF Persisted, Undone, BakBack, MainBack, TmpWritten, BakWritten, BakAside,
           BakReplaced, BakCleaned, MainAside, MainReplaced, MainCleaned, GoOn, GiveUp
  <1>2. pc \in PersistSteps \ {"sync", "bakin", "bakclean", "mainin", "mainclean"}
    BY DEF Persisted, BakBack, MainBack, TmpWritten, BakWritten, BakAside, BakReplaced,
           BakCleaned, MainAside, MainReplaced, MainCleaned, PersistSteps, Staged
  <1>3. QED
    BY <1>1, <1>2 DEF Persisted, BakBack, MainBack, BakAside, BakReplaced, BakCleaned,
                      MainAside, MainReplaced, MainCleaned

LEMMA PersistDamage ==
  ASSUME DiskTypeOK, DiskTypeOK', Staged, DamageInv, Persisted, ~windows, unsynced' = 0
  PROVE  DamageInv'
  <1> USE FileNames
  <1>0. /\ disk \in Disk /\ disk \in Disks /\ Disks \subseteq Disk /\ disk' \in Disk
        /\ disk["main"] \in Contents /\ disk["bak"] \in Contents
        /\ disk["bak"] # Garbage /\ mem \in SUBSET Ops /\ Good(mem) /\ mem # Garbage /\ mem # Absent
    BY SubsetsAreGood DEF DiskTypeOK, Disk, Disks, Staged
  <1>1. SameRecord
    BY PlainPersist
  <1>2. /\ unsynced = 0 /\ UNCHANGED <<windows, acked, last, before, op>>
        /\ Disks' \subseteq Disks \cup {disk'}
    BY <1>1, DisksGrow DEF SameRecord
  <1>3. /\ pc \in PersistSteps /\ acked \subseteq before /\ before \subseteq mem
        /\ Covers(disk) /\ disk["main"] # Garbage
    BY <1>0, <1>2, PlainPersist DEF PersistSteps, Staged, DamageInv
  <1>4. \/ Undone \/ TmpWritten \/ BakWritten
        \/ BakReplaced /\ pc = "bak"
        \/ MainReplaced /\ pc = "main"
    BY PlainPersist
  <1>5. ASSUME Covers(disk') PROVE \A d \in Disks' : Covers(d)'
    BY <1>2, <1>5, CoversLess DEF DamageInv
  <1>6. CASE Undone
    <2>1. \A d \in Disks' : Covers(d)'
      BY <1>0, <1>3, <1>5, <1>6, CoversSame DEF Undone, Same
    <2>2. pc' \in {"up", "down"} /\ (pc' = "up" => op # NoOp /\ mem' = before)
          /\ disk'["main"] = disk["main"]
      BY <1>6 DEF Undone, GiveUp, Same
    <2>3. QED
      BY <1>2, <1>3, <2>1, <2>2 DEF DamageInv, PersistSteps
  <1>7. CASE TmpWritten \/ BakWritten
    <2>1. \A d \in Disks' : Covers(d)'
      BY <1>0, <1>3, <1>5, <1>7, CoversSame DEF TmpWritten, BakWritten, Same
    <2>2. /\ disk'["main"] = disk["main"]
          /\ pc' \in {"baktmp", "bak"} \/ (pc' = "main" /\ disk["main"] = Absent /\ pc = "tmp")
      BY <1>7 DEF TmpWritten, BakWritten, GoOn, Same
    <2>3. op # NoOp => pc' # "main"
      BY <1>2, <2>2 DEF DamageInv, PersistSteps
    <2>4. QED
      BY <1>2, <1>3, <2>1, <2>2, <2>3 DEF DamageInv, PersistSteps
  <1>8. CASE BakReplaced /\ pc = "bak"
    <2>1. /\ disk["baktmp"] = disk["main"] /\ disk["main"] # Absent
          /\ disk'["bak"] = disk["main"] /\ disk'["main"] = disk["main"]
          /\ pc' = "main" /\ Good(disk["main"])
      BY <1>3, <1>8 DEF BakReplaced, GoOn, Same, Staged, Good
    <2>2. acked \subseteq disk["main"]
      BY <1>3, <2>1 DEF Covers
    <2>3. \A d \in Disks' : Covers(d)'
      BY <1>5, <2>1, <2>2 DEF Covers
    <2>4. QED
      BY <1>2, <1>3, <2>1, <2>2, <2>3 DEF DamageInv, PersistSteps
  <1>9. CASE MainReplaced /\ pc = "main"
    <2>1. /\ disk'["bak"] = disk["bak"] /\ disk'["main"] = mem /\ pc' = "sync"
      BY <1>3, <1>9 DEF MainReplaced, GoOn, Same, Staged
    <2>2. \A d \in Disks' : Covers(d)'
      BY <1>0, <1>3, <1>5, <2>1 DEF Covers
    <2>3. QED
      BY <1>0, <1>2, <1>3, <1>9, <2>1, <2>2 DEF DamageInv, PersistSteps
  <1>10. QED
    BY <1>4, <1>6, <1>7, <1>8, <1>9

LEMMA NextDamage == DiskTypeOK /\ DiskTypeOK' /\ Staged /\ DamageInv /\ [Next]_vars => DamageInv'
  <1> SUFFICES ASSUME DiskTypeOK, DiskTypeOK', Staged, DamageInv, [Next]_vars,
                      ~windows', unsynced' = 0
               PROVE  DamageInv'
    BY DEF DamageInv
  <1> USE FileNames
  <1>0. /\ disk \in Disk /\ disk \in Disks /\ Disks \subseteq Disk
        /\ disk["main"] \in Contents /\ disk["bak"] \in Contents
        /\ disk["bak"] # Garbage /\ mem \in SUBSET Ops /\ Good(mem) /\ mem # Absent
        /\ unsynced \in Nat
    BY SubsetsAreGood DEF DiskTypeOK, Disk, Disks, Staged
  <1>1. CASE Persisted
    <2>1. ~windows
      BY <1>1 DEF Persisted, Undone, BakBack, MainBack, TmpWritten, BakWritten, BakAside,
                  BakReplaced, BakCleaned, MainAside, MainReplaced, MainCleaned, GoOn,
                  GiveUp, SameRecord
    <2>2. QED
      BY <1>1, <2>1, PersistDamage
  <1>2. CASE Sync
    <2>1. /\ survivors' = {disk} /\ disk' = disk /\ unsynced = 0 /\ ~windows /\ mem' = mem
          /\ pc' = "up" /\ pc = "sync" /\ Disks' = {disk}
      BY <1>0, <1>2, SyncFacts DEF Disks
    <2>2. /\ acked \subseteq mem /\ disk["main"] = mem /\ (op # NoOp => op \in mem)
          /\ Covers(disk)
      BY <1>0, <2>1 DEF Staged, DamageInv, PersistSteps
    <2>3. CASE op = NoOp
      <3>1. acked' = acked /\ last' = last
        BY <1>2, <2>3, SyncFacts
      <3>2. QED
        BY <1>0, <2>1, <2>2, <3>1, CoversLess DEF DamageInv, PersistSteps
    <2>4. CASE op # NoOp
      <3>1. acked' = acked \cup {op} /\ last' = op
        BY <1>2, <2>4, SyncFacts
      <3>2. Good(disk["bak"]) /\ acked \subseteq disk["bak"]
        BY <2>1, <2>4 DEF DamageInv
      <3>3. Covers(disk)'
        BY <1>0, <2>1, <2>2, <2>4, <3>1, <3>2 DEF Covers
      <3>4. QED
        BY <1>0, <2>1, <2>2, <2>4, <3>1, <3>3 DEF DamageInv, PersistSteps
    <2>5. QED
      BY <2>3, <2>4
  <1>3. CASE Open
    <2>1. /\ unsynced = 0 /\ ~windows /\ Covers(disk) /\ Disks' = Disks
          /\ disk' = disk /\ last' = last /\ acked' \subseteq acked /\ acked' \subseteq mem'
      BY <1>0, <1>3, OpenFacts DEF DamageInv, Disks
    <2>2. \A d \in Disks' : Covers(d)'
      BY <2>1, CoversLess DEF DamageInv
    <2>3. CASE Source(disk) = "none"
      <3>1. ~Good(disk["bak"])
        BY <1>0, <2>3, LoadsFacts
      <3>2. last = NoOp
        BY <2>1, <3>1 DEF Covers
      <3>3. pc' = "refused"
        BY <1>3, <2>3, OpenFacts
      <3>4. QED
        BY <2>1, <2>2, <3>2, <3>3 DEF DamageInv, PersistSteps
    <2>4. CASE Source(disk) # "none"
      <3>1. /\ pc' \in {"quarantine", "tmp"} /\ before' = mem' /\ op' = NoOp
        BY <1>3, <2>4, OpenFacts
      <3>2. QED
        BY <2>1, <2>2, <3>1 DEF DamageInv, PersistSteps
    <2>5. QED
      BY <2>3, <2>4
  <1>4. CASE QuarantineCorruptState
    <2>1. /\ unsynced = 0 /\ ~windows /\ pc = "quarantine" /\ disk' \in Disk
          /\ UNCHANGED <<mem, before, op, acked, last>> /\ disk'["bak"] = disk["bak"]
          /\ \/ pc' = "down" /\ disk'["main"] = disk["main"]
             \/ pc' = "tmp" /\ disk'["main"] = Absent
      BY <1>0, <1>4, QuarantineFacts DEF Same
    <2>2. Disks' \subseteq Disks \cup {disk'}
      BY <1>4, QuarantineFacts, DisksGrow
    <2>3. /\ disk["bak"] = mem /\ acked \subseteq mem /\ Covers(disk) /\ op = NoOp
      BY <1>0, <2>1 DEF Staged, DamageInv
    <2>4. Covers(disk')
      <3>1. CASE disk'["main"] = Absent
        <4>1. Loads(disk') = mem
          BY <1>0, <2>1, <2>3, <3>1, LoadsFacts, MarkersDiffer
        <4>2. QED
          BY <1>0, <2>1, <2>3, <3>1, <4>1, MarkersDiffer DEF Covers
      <3>2. CASE disk'["main"] = disk["main"]
        BY <1>0, <2>1, <2>3, <3>2, CoversSame
      <3>3. QED
        BY <2>1, <3>1, <3>2
    <2>5. \A d \in Disks' : Covers(d)'
      BY <2>1, <2>2, <2>4, CoversLess DEF DamageInv
    <2>6. QED
      BY <1>0, <2>1, <2>3, <2>5 DEF DamageInv, PersistSteps
  <1>5. ASSUME UNCHANGED <<disk, survivors, windows, acked, last, unsynced>>
        PROVE  /\ \A d \in Disks' : Covers(d)'
               /\ unsynced = 0 /\ ~windows /\ Disks' = Disks
    BY <1>5, CoversLess DEF DamageInv, Disks
  <1>6. ASSUME NEW o \in Ops, Mutate(o)
        PROVE  DamageInv'
    BY <1>5, <1>6 DEF Mutate, DamageInv, PersistSteps, faultVars
  <1>7. CASE Close
    BY <1>5, <1>7 DEF Close, DamageInv, PersistSteps, histVars, faultVars
  <1>8. CASE Crash
    <2>1. /\ unsynced = 0 /\ ~windows /\ pc' = "down" /\ disk' \in Disk
          /\ acked' = acked /\ last' = last /\ Disks' \subseteq Disks \cup {disk'}
      BY <1>8, CrashFacts, DisksGrow
    <2>2. PICK d \in Disks : disk'["main"] = d["main"] /\ disk'["bak"] = d["bak"]
      BY <1>8, CrashFacts
    <2>3. Covers(disk')
      BY <1>0, <2>1, <2>2, CoversSame DEF DamageInv
    <2>4. \A e \in Disks' : Covers(e)'
      BY <2>1, <2>3, CoversLess DEF DamageInv
    <2>5. QED
      BY <2>1, <2>4 DEF DamageInv, PersistSteps
  <1>9. CASE Corrupt
    <2>1. /\ unsynced = 0 /\ ~windows /\ pc' = "down" /\ disk' \in Disk
          /\ acked' = acked /\ last' = last /\ Disks' = {disk'}
          /\ disk'["main"] = Garbage /\ disk'["bak"] = disk["bak"] /\ Covers(disk)
      BY <1>0, <1>9, CorruptFacts DEF Disks, Same, DamageInv
    <2>2. Covers(disk')
      BY <2>1, MarkersDiffer DEF Covers
    <2>3. QED
      BY <2>1, <2>2, CoversLess DEF DamageInv, PersistSteps
  <1>10. CASE UNCHANGED vars
    BY <1>5, <1>10 DEF vars, programVars, histVars, faultVars, DamageInv
  <1>11. QED
    BY <1>1, <1>2, <1>3, <1>4, <1>6, <1>7, <1>8, <1>9, <1>10, PersistFacts DEF Next

(* A main file that is damaged while the program is down, however often,   *)
(* costs at most the newest acknowledged operation.                        *)
THEOREM DamageCostsTheNewest == Spec => []DamageCostsOne
  <1>1. Init => DamageInv
    BY InitDisks, MarkersDiffer DEF DamageInv, Covers, PersistSteps
  <1>2. DiskTypeOK /\ Staged /\ DamageInv => DamageCostsOne
    <2> SUFFICES ASSUME DiskTypeOK, Staged, DamageInv, ~windows, unsynced = 0
                 PROVE  /\ pc = "refused" => last = NoOp
                        /\ pc = "down" => acked \ {last} \subseteq Loads(disk)
      BY DEF DamageCostsOne
    <2>1. disk \in Disk /\ disk \in Disks /\ Covers(disk) /\ (last = NoOp => acked = {})
          /\ disk["main"] \in Contents
      BY FileNames DEF DiskTypeOK, Disks, Disk, DamageInv
    <2>2. CASE Good(disk["main"])
      BY <2>1, <2>2, LoadsFacts DEF Covers, DamageInv
    <2>3. CASE ~Good(disk["main"]) /\ Good(disk["bak"])
      BY <2>1, <2>3, LoadsFacts DEF Covers, DamageInv
    <2>4. CASE ~Good(disk["main"]) /\ ~Good(disk["bak"])
      BY <2>1, <2>4 DEF Covers, DamageInv
    <2>5. QED
      BY <2>2, <2>3, <2>4
  <1>3. QED
    BY <1>1, <1>2, StagedInvariant, InitDiskType, NextDiskType, NextDamage, PTL DEF Spec

-----------------------------------------------------------------------------
(* Operations that reported an error, where a rename replaces its target.  *)
(* No file and no state holds them: an operation gets into the main file   *)
(* in one move, the last thing that can fail.                              *)

(* What Open may read from d. *)
Content(d) == (d["main"] \cup d["bak"]) \cap Ops

CleanInv ==
    ~windows =>
      /\ failed \subseteq used /\ mem \subseteq used /\ before \subseteq used
      /\ \A d \in Disks : Content(d) \subseteq used /\ Content(d) \cap failed = {}
      /\ pc \notin {"down", "refused"} => mem \cap failed = {}
      /\ pc \in PersistSteps \ {"sync"} /\ op # NoOp =>
            /\ op \in used /\ op \notin before
            /\ \A d \in Disks : op \notin Content(d)

LEMMA PersistClean ==
  ASSUME DiskTypeOK, Staged, CleanInv, Persisted, ~windows
  PROVE  CleanInv'
  <1>1. /\ SameRecord
        /\ pc \in PersistSteps \ {"sync", "bakin", "bakclean", "mainin", "mainclean"}
        /\ \/ Undone \/ TmpWritten \/ BakWritten
           \/ BakReplaced /\ pc = "bak"
           \/ MainReplaced /\ pc = "main"
    BY PlainPersist
  <1>2. /\ UNCHANGED <<windows, before, op, used>> /\ disk \in Disks
        /\ Disks' \subseteq Disks \cup {disk'}
    BY <1>1, DisksGrow DEF SameRecord, Disks
  <1>3. /\ before \subseteq mem /\ mem \cap failed = {} /\ mem \subseteq used
        /\ Content(disk) \subseteq used /\ Content(disk) \cap failed = {}
    BY <1>1, <1>2 DEF Staged, CleanInv, PersistSteps
  <1>4. CASE Undone
    <2>1. /\ mem' = before /\ failed' = failed \cup ({op} \ {NoOp})
          /\ pc' \in {"up", "down"} /\ Content(disk') = Content(disk)
      BY <1>4 DEF Undone, GiveUp, Same, Content
    <2>2. \A d \in Disks' : Content(d) \subseteq used /\ Content(d) \cap failed' = {}
      BY <1>1, <1>2, <2>1 DEF CleanInv
    <2>3. before \cap failed' = {} /\ failed' \subseteq used
      BY <1>1, <1>3, <2>1 DEF CleanInv
    <2>4. QED
      BY <1>2, <1>3, <2>1, <2>2, <2>3 DEF CleanInv, PersistSteps
  <1>5. CASE TmpWritten \/ BakWritten \/ (BakReplaced /\ pc = "bak")
    <2>1. /\ UNCHANGED <<mem, failed>> /\ Content(disk') \subseteq Content(disk)
          /\ pc' \in {"baktmp", "main", "bak"}
      BY <1>5 DEF TmpWritten, BakWritten, BakReplaced, GoOn, Same, Content, Staged
    <2>2. QED
      BY <1>1, <1>2, <1>3, <2>1 DEF CleanInv, PersistSteps
  <1>6. CASE MainReplaced /\ pc = "main"
    <2>1. /\ UNCHANGED <<mem, failed>> /\ pc' = "sync"
          /\ Content(disk') \subseteq Content(disk) \cup mem
      BY <1>6 DEF MainReplaced, GoOn, Same, Content, Staged
    <2>2. QED
      BY <1>1, <1>2, <1>3, <2>1 DEF CleanInv, PersistSteps
  <1>7. QED
    BY <1>1, <1>4, <1>5, <1>6

LEMMA NextClean == DiskTypeOK /\ Staged /\ CleanInv /\ [Next]_vars => CleanInv'
  <1> SUFFICES ASSUME DiskTypeOK, Staged, CleanInv, [Next]_vars, ~windows'
               PROVE  CleanInv'
    BY DEF CleanInv
  <1>0. ~windows /\ disk \in Disks /\ disk \in Disk /\ NoOp \notin Ops
    BY NamesAssumption, PersistFacts, SyncFacts, OpenFacts, QuarantineFacts, CrashFacts, CorruptFacts
       DEF Next, Mutate, Close, Disks, DiskTypeOK, Persisted, Undone, BakBack, MainBack,
           TmpWritten, BakWritten, BakAside, BakReplaced, BakCleaned, MainAside,
           MainReplaced, MainCleaned, GoOn, GiveUp, SameRecord, vars
  <1>1. CASE Persisted
    BY <1>0, <1>1, PersistClean
  <1>2. CASE Sync
    <2>1. /\ UNCHANGED <<windows, mem, before, op, used, failed>> /\ Disks' \subseteq Disks
          /\ pc' = "up" /\ pc = "sync"
      BY <1>2, SyncFacts DEF Disks
    <2>2. QED
      BY <1>0, <2>1 DEF CleanInv, PersistSteps
  <1>3. CASE Open
    <2>1. Loads(disk) \subseteq Content(disk)
      BY <1>0, LoadsFacts DEF Content
    <2>2. /\ UNCHANGED <<windows, used, failed>> /\ Disks' = Disks
          /\ \/ UNCHANGED <<mem, before, op>> /\ pc' = "refused"
             \/ mem' = Loads(disk) /\ before' = Loads(disk) /\ op' = NoOp
      BY <1>3, OpenFacts DEF Disks
    <2>3. QED
      BY <1>0, <2>1, <2>2 DEF CleanInv, PersistSteps
  <1>4. CASE QuarantineCorruptState
    <2>1. /\ UNCHANGED <<windows, mem, before, op, used, failed>> /\ op = NoOp
          /\ Disks' \subseteq Disks \cup {disk'} /\ pc = "quarantine"
      BY <1>4, QuarantineFacts, DisksGrow DEF Staged
    <2>2. Content(disk') \subseteq Content(disk)
      BY <1>4, QuarantineFacts, NamesAssumption DEF Content, Same, Absent
    <2>3. QED
      BY <1>0, <2>1, <2>2 DEF CleanInv
  <1>5. ASSUME NEW o \in Ops, Mutate(o)
        PROVE  CleanInv'
    <2>1. /\ o \notin used /\ used' = used \cup {o} /\ op' = o /\ before' = mem
          /\ mem' = mem \cup {o} /\ pc = "up" /\ Disks' = Disks
          /\ UNCHANGED <<windows, failed>>
      BY <1>5 DEF Mutate, Disks
    <2>2. QED
      BY <1>0, <2>1 DEF CleanInv
  <1>6. CASE Close
    <2>1. /\ op' = NoOp /\ before' = mem /\ mem' = mem /\ pc = "up" /\ Disks' = Disks
          /\ UNCHANGED <<windows, failed, used>>
      BY <1>6 DEF Close, Disks, histVars
    <2>2. QED
      BY <1>0, <2>1 DEF CleanInv
  <1>7. CASE Crash
    <2>1. /\ UNCHANGED <<windows, mem, before, used, failed>> /\ pc' = "down"
          /\ Disks' \subseteq Disks \cup {disk'}
          /\ \E d \in Disks : Content(disk') = Content(d)
      BY <1>7, CrashFacts, DisksGrow DEF Content
    <2>2. QED
      BY <1>0, <2>1 DEF CleanInv, PersistSteps
  <1>8. CASE Corrupt
    <2>1. /\ UNCHANGED <<windows, mem, before, used, failed>> /\ pc' = "down"
          /\ Disks' = {disk'} /\ Content(disk') \subseteq Content(disk)
      BY <1>8, CorruptFacts, NamesAssumption DEF Content, Same, Garbage, Disks
    <2>2. QED
      BY <1>0, <2>1 DEF CleanInv, PersistSteps
  <1>9. CASE UNCHANGED vars
    BY <1>9 DEF vars, programVars, histVars, faultVars, CleanInv, Disks
  <1>10. QED
    BY <1>1, <1>2, <1>3, <1>4, <1>5, <1>6, <1>7, <1>8, <1>9, PersistFacts DEF Next

(* An operation that reported an error has not happened, and no restart    *)
(* brings it back.                                                         *)
THEOREM FailuresLeaveNothing == Spec => []FailedLeavesNothing
  <1>1. Init => CleanInv
    <2> SUFFICES ASSUME Init PROVE CleanInv
      OBVIOUS
    <2>1. Absent \cap Ops = {}
      BY NamesAssumption DEF Absent
    <2>2. QED
      BY <2>1, InitDisks DEF CleanInv, Content, PersistSteps
  <1>2. DiskTypeOK /\ CleanInv => FailedLeavesNothing
    <2> SUFFICES ASSUME DiskTypeOK, CleanInv, ~windows, NEW d \in Disks
                 PROVE  /\ pc = "up" => mem \cap failed = {}
                        /\ Loads(d) \cap failed = {}
      BY DEF FailedLeavesNothing, Disks
    <2>1. Loads(d) \subseteq Content(d)
      BY LoadsFacts DEF Content, DiskTypeOK, Disks
    <2>2. QED
      BY <2>1 DEF CleanInv
  <1>3. QED
    BY <1>1, <1>2, StagedInvariant, InitDiskType, NextDiskType, NextClean, PTL DEF Spec

-----------------------------------------------------------------------------
(* A program with either backend *)

(* The store keeps its file as StateFile says: the program has one backend *)
(* and a step of the other leaves the file alone.                          *)
LEMMA StorageKeepsFile == StorageSpec => Spec
  <1>1. StorageInit => Init
    BY DEF StorageInit
  <1>2. [StorageNext]_storageVars => [Next]_vars
    BY DEF StorageNext, storageVars
  <1>3. QED
    BY <1>1, <1>2, PTL DEF StorageSpec, Spec

(* What a crash, a damaged file or a failing file operation costs, for the *)
(* program as it is run.                                                   *)
THEOREM StorageSafe ==
  StorageSpec => [](AckedSurvives /\ DamageCostsOne /\ FailedLeavesNothing)
  BY StorageKeepsFile, AcknowledgedSurvives, DamageCostsTheNewest, FailuresLeaveNothing, PTL

-----------------------------------------------------------------------------
(* The connection: what is on its way, where its caller is *)

Said == {"T", "D", "C"}
Statuses == {"I", "T", "E"}
Statements == {"none", "BEGIN", "COMMIT", "ROLLBACK", "SELECT"}
Requests == [type : {"ssl", "startup", "first", "final", "Q", "P", "B", "D", "X", "Y"}, id : Nat, sql : Statements]
Messages == [type : {"S", "N", "E", "G", "K", "Z", "T", "D", "C", "1", "2", "n", "R0", "R5", "R10", "R11", "R12"},
             id : Nat, tx : Statuses \cup {"?"}]
Servers == [phase : {"new", "ready", "gone"}, tx : Statuses, skip : BOOLEAN]
Clients == [at : {"none", "tls", "startup", "held", "writing", "reading", "leaving", "idle"},
            broken : BOOLEAN, tx : Statuses \cup {"?"}, scr : {"nil", "sent", "continued", "verified"},
            authenticated : BOOLEAN, deadline : {"none", "ahead", "past"}]
Calls == [id : Nat, sql : Statements, ext : BOOLEAN, left : Seq({"Q", "P", "B", "D", "X", "Y"}),
          sound : BOOLEAN, reset : BOOLEAN, hook : {"none", "armed", "running", "ran"}, out : SUBSET Nat, err : BOOLEAN]

ClientTypes ==
    /\ kind.auth \in {"trust", "md5", "scram"}
    /\ server \in Servers /\ client \in Clients /\ query \in Calls /\ calls \in Nat
    /\ toServer \in Seq(Requests) /\ toClient \in Seq(Messages)

InCall == client.at \in {"writing", "reading", "leaving"}
Dialling == client.at \in {"none", "tls", "startup"}

Callers ==
    /\ ~InCall => query.hook = "none"
    /\ client.at \in {"held", "idle"} => client.deadline = "none"
    /\ In("idle") => ~client.broken /\ client.tx = "I"
    /\ InCall => (query.sound /\ client.broken => query.err) /\ (query.reset => query.sound)
    /\ InCall /\ ~client.broken => query.sound
    /\ Dialling => ~client.broken
    /\ In("writing") => query.left # <<>>

Holds(messages, types) == \A i \in DOMAIN messages : messages[i].type \in types
OneMessage == Len(toServer) + Len(toClient) = 1

(* Until the server is ready one message at a time is on its way. *)
Handshake ==
    /\ In("none") => server = NewServer /\ toServer = <<>> /\ toClient = <<>>
    /\ In("tls") => server = NewServer /\ OneMessage /\ Holds(toServer, {"ssl"}) /\ Holds(toClient, {"S", "N"})
    /\ (In("startup") /\ server.phase = "new") =>
          /\ server = NewServer /\ OneMessage
          /\ Holds(toServer, {"startup", "first", "final"}) /\ Holds(toClient, {"R5", "R10", "R11"})
    /\ (In("startup") /\ server.phase # "new") =>
          toServer = <<>> /\ Holds(toClient, {"R0", "R12", "S", "K", "Z", "E", "N", "G"})
    /\ ~Dialling => server.phase # "new"

Loose(m) == m.type \in Unasked /\ m.id = 0

(* What comes after the end of an answer nobody has asked for. *)
Ends ==
    ~client.broken => \A i \in DOMAIN toClient : toClient[i].type = "Z" =>
        /\ toServer = <<>> /\ (InCall => query.left = <<>>)
        /\ server.phase = "gone" \/ (~server.skip /\ server.tx = toClient[i].tx)
        /\ \A j \in DOMAIN toClient : i < j => Loose(toClient[j])

AtRest ==
    (client.at \in {"held", "idle", "leaving"} /\ ~client.broken) =>
        /\ toServer = <<>> /\ \A i \in DOMAIN toClient : Loose(toClient[i])
        /\ server.phase = "gone" \/ (~server.skip /\ server.tx = client.tx)
        /\ In("leaving") => query.err \/ query.out = {query.id}

(* The messages of a statement, counted from the last; Rest is how many the
   server has yet to take. *)
FromEnd(ext, k) ==
    IF ~ext THEN "Q" ELSE IF k = 1 THEN "Y" ELSE IF k = 2 THEN "X" ELSE IF k = 3 THEN "D" ELSE IF k = 4 THEN "B" ELSE "P"
Rest == Len(toServer) + Len(query.left)

(* Something of the answer is known, or comes before message k. *)
Shown(q, messages, k) ==
    q.err \/ q.out # {} \/ \E j \in DOMAIN messages : j < k /\ messages[j].type \in Said \cup {"E"}

Work ==
    (client.at \in {"writing", "reading"} /\ ~client.broken) =>
      /\ ~query.ext => Rest <= 1
      /\ In("reading") => query.left = <<>>
      /\ \A i \in DOMAIN query.left : query.left[i] = FromEnd(query.ext, Len(query.left) - i + 1)
      /\ \A i \in DOMAIN toServer : toServer[i].type = FromEnd(query.ext, Rest - i + 1) /\ toServer[i].id = query.id
      /\ \A i \in DOMAIN toClient :
           /\ toClient[i].type \in Said => toClient[i].id = query.id
           /\ toClient[i].type = "Z" => Shown(query, toClient, i)
      /\ query.out \subseteq {query.id}
      /\ server.phase # "gone" =>
           /\ server.skip => query.ext /\ Rest >= 1
           /\ server.skip \/ (query.ext /\ Rest <= 1) => Shown(query, toClient, Len(toClient) + 1)

ClientInv == ClientTypes /\ Callers /\ Handshake /\ Ends /\ AtRest /\ Work

-----------------------------------------------------------------------------
LEMMA JoinFacts ==
  ASSUME NEW S, NEW s \in Seq(S), NEW t \in Seq(S)
  PROVE  /\ s \o t \in Seq(S) /\ Len(s \o t) = Len(s) + Len(t) /\ Len(s) \in Nat /\ Len(t) \in Nat
         /\ DOMAIN s = 1..Len(s) /\ DOMAIN t = 1..Len(t) /\ DOMAIN (s \o t) = 1..(Len(s) + Len(t))
         /\ \A i \in 1..(Len(s) + Len(t)) : (s \o t)[i] = IF i <= Len(s) THEN s[i] ELSE t[i - Len(s)]
  OBVIOUS

LEMMA EmptyFacts ==
  ASSUME NEW S, NEW s \in Seq(S)
  PROVE  s = <<>> <=> Len(s) = 0
  OBVIOUS

LEMMA TailFacts ==
  ASSUME NEW S, NEW s \in Seq(S), s # <<>>
  PROVE  /\ Tail(s) \in Seq(S) /\ Len(Tail(s)) = Len(s) - 1 /\ Len(s) \in Nat \ {0} /\ Head(s) = s[1] /\ Head(s) \in S
         /\ DOMAIN s = 1..Len(s) /\ DOMAIN Tail(s) = 1..(Len(s) - 1)
         /\ \A i \in 1..(Len(s) - 1) : Tail(s)[i] = s[i + 1]
         /\ Tail(s) = <<>> <=> Len(s) = 1
  <1>1. Len(s) \in Nat \ {0}
    BY EmptyFacts
  <1>2. Tail(s) \in Seq(S)
    BY <1>1
  <1>3. Len(Tail(s)) = Len(s) - 1
    BY <1>1
  <1>4. \A t \in Seq(S) : t = <<>> <=> Len(t) = 0
    BY EmptyFacts
  <1>5. \A i \in 1..(Len(s) - 1) : Tail(s)[i] = s[i + 1]
    BY <1>1
  <1>6. \A t \in Seq(S) : Len(t) = Len(s) - 1 => (t = <<>> <=> Len(s) = 1)
    BY <1>1, <1>4
  <1>7. Tail(s) = <<>> <=> Len(s) = 1
    BY <1>2, <1>3, <1>6, Zenon
  <1>8. QED
    BY <1>1, <1>2, <1>3, <1>5, <1>7

LEMMA AppendFacts ==
  ASSUME NEW S, NEW s \in Seq(S), NEW e \in S
  PROVE  /\ Append(s, e) \in Seq(S) /\ Len(Append(s, e)) = Len(s) + 1 /\ Len(s) \in Nat
         /\ DOMAIN s = 1..Len(s) /\ DOMAIN Append(s, e) = 1..(Len(s) + 1)
         /\ \A i \in 1..(Len(s) + 1) : Append(s, e)[i] = IF i <= Len(s) THEN s[i] ELSE e
  OBVIOUS

LEMMA CutFacts ==
  ASSUME NEW S, NEW s \in Seq(S), NEW n \in 0..Len(s)
  PROVE  /\ SubSeq(s, 1, n) \in Seq(S) /\ Len(SubSeq(s, 1, n)) = n /\ DOMAIN SubSeq(s, 1, n) = 1..n /\ DOMAIN s = 1..Len(s)
         /\ \A i \in 1..n : SubSeq(s, 1, n)[i] = s[i]
  OBVIOUS

LEMMA PairFacts ==
  /\ Len(<<>>) = 0 /\ DOMAIN <<>> = {}
  /\ \A S, e : e \in S => <<e>> \in Seq(S) /\ Len(<<e>>) = 1 /\ DOMAIN <<e>> = {1} /\ <<e>>[1] = e
  OBVIOUS

LEMMA Queues ==
  ASSUME ClientTypes
  PROVE  /\ Len(toServer) \in Nat /\ DOMAIN toServer = 1..Len(toServer) /\ (toServer = <<>> <=> Len(toServer) = 0)
         /\ Len(toClient) \in Nat /\ DOMAIN toClient = 1..Len(toClient) /\ (toClient = <<>> <=> Len(toClient) = 0)
         /\ Len(query.left) \in Nat /\ DOMAIN query.left = 1..Len(query.left) /\ (query.left = <<>> <=> Len(query.left) = 0)
  <1>1. query.left \in Seq({"Q", "P", "B", "D", "X", "Y"})
    BY DEF ClientTypes, Calls
  <1>2. \A S : \A s \in Seq(S) : Len(s) \in Nat /\ DOMAIN s = 1..Len(s) /\ (s = <<>> <=> Len(s) = 0)
    BY EmptyFacts
  <1>3. QED
    BY <1>1, <1>2, Zenon DEF ClientTypes

LEMMA StartsTyped ==
  /\ NewServer \in Servers /\ NoQuery \in Calls /\ \A place \in {"none", "tls"} : NewClient(place) \in Clients
  BY DEF NewServer, Servers, Statuses, NoQuery, Calls, Statements, NewClient, Clients

(* A connection that is closed leaves nothing. *)
LEMMA DisconnectKeeps ==
  ASSUME Disconnect, query' \in Calls, query'.hook = "none", calls' \in Nat, kind'.auth \in {"trust", "md5", "scram"}
  PROVE  ClientInv'
  <1>1. client' = NewClient("none") /\ server' = NewServer /\ toServer' = <<>> /\ toClient' = <<>>
    BY DEF Disconnect
  <1>2. client'.at = "none" /\ client'.broken = FALSE
    BY <1>1 DEF NewClient
  <1>3. ClientTypes'
    BY <1>1, StartsTyped DEF ClientTypes
  <1>4. Callers'
    BY <1>2 DEF Callers, In, InCall, Dialling
  <1>5. Handshake'
    BY <1>1, <1>2 DEF Handshake, In, Dialling
  <1>6. Ends' /\ AtRest' /\ Work'
    BY <1>1, <1>2, PairFacts DEF Ends, AtRest, Work
  <1>7. QED
    BY <1>3, <1>4, <1>5, <1>6 DEF ClientInv

(* Connect puts one message on its way. *)
LEMMA ConnectKeeps ==
  ASSUME ClientInv, Connect
  PROVE  ClientInv'
  <1>1. /\ client.at = "none" /\ server = NewServer /\ toServer = <<>> /\ toClient = <<>> /\ query.hook = "none"
        /\ kind.auth \in {"trust", "md5", "scram"} /\ query \in Calls /\ calls \in Nat
    BY DEF Connect, ClientInv, ClientTypes, Callers, Handshake, In, InCall
  <1>2. /\ kind' = kind /\ server' = server /\ toClient' = toClient /\ query' = query /\ calls' = calls
        /\ \/ client'.at = "startup" /\ toServer' = Append(toServer, [type |-> "startup", id |-> 0, sql |-> "none"])
           \/ client'.at = "tls" /\ toServer' = Append(toServer, [type |-> "ssl", id |-> 0, sql |-> "none"])
        /\ client' \in Clients /\ client'.broken = FALSE
    <2>1. kind' = kind /\ server' = server /\ toClient' = toClient /\ query' = query /\ calls' = calls
      BY DEF Connect
    <2>2. CASE cfg.sslmode = "disable"
      BY <2>1, <2>2, StartsTyped DEF Connect, Post, To, NewClient, Clients
    <2>3. CASE cfg.sslmode # "disable"
      BY <2>1, <2>3, StartsTyped DEF Connect, Post, To, NewClient, Clients
    <2>4. QED
      BY <2>1, <2>2, <2>3
  <1>3. \A m : toServer' = Append(toServer, m) => toServer' = <<m>>
    BY <1>1
  <1>4. PICK m \in Requests : /\ toServer' = <<m>>
                              /\ (client'.at = "startup" /\ m.type = "startup") \/ (client'.at = "tls" /\ m.type = "ssl")
    <2>1. \A type \in {"startup", "ssl"} : [type |-> type, id |-> 0, sql |-> "none"] \in Requests
      BY DEF Requests, Statements
    <2>2. QED
      BY <1>2, <1>3, <2>1
  <1>5. /\ toServer' \in Seq(Requests) /\ Len(toServer') = 1 /\ DOMAIN toServer' = {1} /\ toServer'[1] = m
        /\ toClient' \in Seq(Messages) /\ Len(toClient') = 0 /\ DOMAIN toClient' = {}
    BY <1>1, <1>2, <1>4, PairFacts
  <1>6. ClientTypes'
    BY <1>1, <1>2, <1>5, StartsTyped DEF ClientTypes
  <1>7. Callers'
    BY <1>1, <1>2, <1>4 DEF Callers, In, InCall, Dialling
  <1>8. Handshake'
    BY <1>1, <1>2, <1>4, <1>5 DEF Handshake, In, Dialling, OneMessage, Holds, NewServer
  <1>9. Ends' /\ AtRest' /\ Work'
    BY <1>4, <1>5 DEF Ends, AtRest, Work
  <1>10. QED
    BY <1>6, <1>7, <1>8, <1>9 DEF ClientInv

(* What is left of the answer when a message of it was read. *)
LEMMA EndsAfterRead ==
  ASSUME ClientTypes, Ends, toClient # <<>>, toClient' = Tail(toClient), server' = server, toServer' = toServer,
         ~client.broken, InCall' => InCall /\ query'.left = query.left
  PROVE  Ends'
  <1>1. /\ DOMAIN toClient = 1..Len(toClient) /\ Len(toClient) \in Nat /\ DOMAIN toClient' = 1..(Len(toClient) - 1)
        /\ \A i \in 1..(Len(toClient) - 1) : toClient'[i] = toClient[i + 1]
    BY TailFacts DEF ClientTypes
  <1>2. SUFFICES ASSUME NEW i \in DOMAIN toClient', toClient'[i].type = "Z"
        PROVE  /\ toServer' = <<>> /\ (InCall' => query'.left = <<>>)
               /\ server'.phase = "gone" \/ (~server'.skip /\ server'.tx = toClient'[i].tx)
               /\ \A j \in DOMAIN toClient' : i < j => Loose(toClient'[j])
    BY DEF Ends, Loose
  <1>3. i + 1 \in DOMAIN toClient /\ toClient[i + 1].type = "Z" /\ toClient'[i] = toClient[i + 1]
    BY <1>1, <1>2
  <1>4. /\ toServer = <<>> /\ (InCall => query.left = <<>>)
        /\ server.phase = "gone" \/ (~server.skip /\ server.tx = toClient[i + 1].tx)
        /\ \A j \in DOMAIN toClient : i + 1 < j => Loose(toClient[j])
    BY <1>3 DEF Ends
  <1>5. \A j \in DOMAIN toClient' : i < j => Loose(toClient'[j])
    BY <1>1, <1>4
  <1>6. QED
    BY <1>3, <1>4, <1>5

(* The server's answer to the wish for TLS ends the dialling, or the client
   goes on with its name. *)
LEMMA NegotiateKeeps ==
  ASSUME ClientInv, NegotiateTLS
  PROVE  ClientInv'
  <1>1. /\ client.at = "tls" /\ server = NewServer /\ OneMessage /\ query.hook = "none" /\ ~client.broken
        /\ kind.auth \in {"trust", "md5", "scram"} /\ query \in Calls /\ calls \in Nat /\ client \in Clients
        /\ toServer \in Seq(Requests) /\ toClient \in Seq(Messages)
    BY DEF NegotiateTLS, ClientInv, ClientTypes, Callers, Handshake, In, InCall, Dialling
  <1>2. kind' = kind /\ query' = query /\ calls' = calls
    BY DEF NegotiateTLS
  <1>3. CASE Disconnect
    BY <1>1, <1>2, <1>3, DisconnectKeeps
  <1>4. CASE ~Disconnect
    <2> DEFINE m == [type |-> "startup", id |-> 0, sql |-> "none"]
    <2>1. /\ toClient # <<>> /\ toClient' = Tail(toClient) /\ toServer' = Append(toServer, m)
          /\ client' = [client EXCEPT !.at = "startup"] /\ server' = server
      BY <1>4 DEF NegotiateTLS, Post, To
    <2>2. m \in Requests /\ m.type = "startup"
      BY DEF Requests, Statements
    <2> HIDE DEF m
    <2>3. /\ toServer' \in Seq(Requests) /\ Len(toServer') = Len(toServer) + 1 /\ Len(toServer) \in Nat
          /\ DOMAIN toServer' = 1..(Len(toServer) + 1)
          /\ \A i \in 1..(Len(toServer) + 1) : toServer'[i] = IF i <= Len(toServer) THEN toServer[i] ELSE m
      BY <1>1, <2>1, <2>2, AppendFacts
    <2>4. /\ toClient' \in Seq(Messages) /\ Len(toClient') = Len(toClient) - 1 /\ Len(toClient) \in Nat \ {0}
          /\ DOMAIN toClient' = 1..(Len(toClient) - 1)
      BY <1>1, <2>1, TailFacts
    <2>5. Len(toServer) = 0 /\ Len(toClient) = 1
      BY <1>1, <2>3, <2>4 DEF OneMessage
    <2>6. client' \in Clients /\ client'.at = "startup" /\ ~client'.broken
      BY <1>1, <2>1 DEF Clients
    <2>7. ClientTypes'
      BY <1>1, <1>2, <2>1, <2>3, <2>4, <2>6, StartsTyped DEF ClientTypes
    <2>8. Callers'
      BY <1>1, <1>2, <2>6 DEF Callers, In, InCall, Dialling
    <2>9. Len(toServer') = 1 /\ Len(toClient') = 0 /\ toServer'[1].type = "startup" /\ DOMAIN toServer' = {1} /\ DOMAIN toClient' = {}
      BY <2>2, <2>3, <2>4, <2>5
    <2>10. Handshake'
      BY <1>1, <2>1, <2>6, <2>9 DEF Handshake, In, Dialling, OneMessage, Holds, NewServer
    <2>11. Ends' /\ AtRest' /\ Work'
      BY <2>6, <2>9 DEF Ends, AtRest, Work
    <2>12. QED
      BY <2>7, <2>8, <2>10, <2>11 DEF ClientInv
  <1>5. QED
    BY <1>3, <1>4

LEMMA AdvancedFacts ==
  ASSUME NEW m \in Messages, client \in Clients, client.at = "startup", NEW c \in Advanced(m)
  PROVE  /\ c \in Clients /\ c.broken = client.broken
         /\ \/ c.at = "startup" /\ m.type \in {"R0", "R10", "R11", "R12", "S", "K", "N"}
            \/ c.at = "held" /\ m.type = "Z" /\ c.tx = m.tx /\ c.deadline = "none"
  <1>1. CASE m.type = "R0"
    BY <1>1 DEF Advanced, Clients
  <1>2. CASE m.type = "R10"
    BY <1>2 DEF Advanced, Clients
  <1>3. CASE m.type = "R11"
    BY <1>3 DEF Advanced, Clients
  <1>4. CASE m.type = "R12"
    BY <1>4 DEF Advanced, Clients
  <1>5. CASE m.type \in {"S", "K", "N"}
    BY <1>5 DEF Advanced, Clients
  <1>6. CASE m.type = "Z"
    BY <1>6 DEF Advanced, Clients, To, Messages
  <1>7. CASE m.type \notin {"R0", "R10", "R11", "R12", "S", "K", "N", "Z"}
    BY <1>7 DEF Advanced
  <1>8. QED
    BY <1>1, <1>2, <1>3, <1>4, <1>5, <1>6, <1>7

(* A message of the authentication is answered; the last one makes the
   connection ready, with nothing on its way. *)
LEMMA StartupKeeps ==
  ASSUME ClientInv, Startup
  PROVE  ClientInv'
  <1>1. /\ client.at = "startup" /\ query.hook = "none" /\ ~client.broken
        /\ kind.auth \in {"trust", "md5", "scram"} /\ query \in Calls /\ calls \in Nat /\ client \in Clients /\ server \in Servers
        /\ toServer \in Seq(Requests) /\ toClient \in Seq(Messages) /\ ClientTypes /\ Ends
        /\ Len(toServer) \in Nat /\ DOMAIN toServer = 1..Len(toServer) /\ (toServer = <<>> <=> Len(toServer) = 0)
    BY Queues DEF Startup, ClientInv, ClientTypes, Callers, In, InCall, Dialling
  <1>2. kind' = kind /\ calls' = calls
    BY DEF Startup
  <1>3. CASE Disconnect
    <2>1. query' = query \/ query' = NoQuery
      BY DEF Startup
    <2>2. NoQuery.hook = "none"
      BY DEF NoQuery
    <2>3. query' \in Calls /\ query'.hook = "none"
      BY <1>1, <2>1, <2>2, StartsTyped
    <2>4. QED
      BY <1>1, <1>2, <1>3, <2>3, DisconnectKeeps
  <1>4. CASE ~Disconnect
    <2> DEFINE m == Head(toClient)
               Answer(type) == [type |-> type, id |-> 0, sql |-> "none"]
    <2>1. /\ toClient # <<>> /\ toClient' = Tail(toClient) /\ client' \in Advanced(m) /\ Respond(m)
          /\ query' = NoQuery /\ server' = server
      BY <1>4 DEF Startup
    <2>2. /\ toClient' \in Seq(Messages) /\ Len(toClient') = Len(toClient) - 1 /\ Len(toClient) \in Nat \ {0}
          /\ DOMAIN toClient' = 1..(Len(toClient) - 1) /\ DOMAIN toClient = 1..Len(toClient)
          /\ m = toClient[1] /\ m \in Messages
          /\ \A i \in 1..(Len(toClient) - 1) : toClient'[i] = toClient[i + 1]
      BY <1>1, <2>1, TailFacts
    <2> HIDE DEF m
    <2>3. /\ client' \in Clients /\ client'.broken = FALSE
          /\ \/ client'.at = "startup" /\ m.type \in {"R0", "R10", "R11", "R12", "S", "K", "N"}
             \/ client'.at = "held" /\ m.type = "Z" /\ client'.tx = m.tx /\ client'.deadline = "none"
      BY <1>1, <2>1, <2>2, AdvancedFacts
    <2>4. /\ m.type = "R10" => toServer' = Append(toServer, Answer("first"))
          /\ m.type = "R11" => toServer' = Append(toServer, Answer("final"))
          /\ m.type \notin {"R10", "R11"} => toServer' = toServer
      BY <2>1 DEF Respond, Post
    <2>5. query' \in Calls /\ query'.hook = "none"
      BY <2>1, StartsTyped DEF NoQuery
    <2>6. Callers'
      BY <2>3, <2>5 DEF Callers, In, InCall, Dialling
    <2>7. CASE server.phase = "new"
      <3>1. /\ server = NewServer /\ Len(toServer) + Len(toClient) = 1 /\ m.type \in {"R5", "R10", "R11"}
        BY <1>1, <2>2, <2>7 DEF ClientInv, Handshake, In, OneMessage, Holds
      <3>2. client'.at = "startup" /\ m.type \in {"R10", "R11"}
        BY <2>3, <3>1
      <3>3. PICK a \in Requests : toServer' = Append(toServer, a) /\ a.type \in {"first", "final"}
        <4>1. \A type \in {"first", "final"} : Answer(type) \in Requests /\ Answer(type).type = type
          BY DEF Requests, Statements
        <4> HIDE DEF Answer
        <4>2. QED
          BY <2>4, <3>2, <4>1
      <3>4. /\ toServer' \in Seq(Requests) /\ Len(toServer') = Len(toServer) + 1
            /\ DOMAIN toServer' = 1..(Len(toServer) + 1)
            /\ \A i \in 1..(Len(toServer) + 1) : toServer'[i] = IF i <= Len(toServer) THEN toServer[i] ELSE a
        BY <1>1, <3>3, AppendFacts
      <3>5. Len(toServer) = 0 /\ Len(toClient) = 1
        BY <1>1, <2>2, <3>1
      <3>6. Len(toServer') = 1 /\ Len(toClient') = 0 /\ toServer'[1] = a /\ DOMAIN toServer' = {1} /\ DOMAIN toClient' = {}
        BY <2>2, <3>4, <3>5
      <3>7. ClientTypes'
        BY <1>1, <1>2, <2>1, <2>2, <2>3, <2>5, <3>4 DEF ClientTypes
      <3>8. Handshake'
        BY <2>1, <3>1, <3>2, <3>3, <3>6 DEF Handshake, In, Dialling, OneMessage, Holds, NewServer
      <3>9. Ends' /\ AtRest' /\ Work'
        BY <3>2, <3>6 DEF Ends, AtRest, Work
      <3>10. QED
        BY <2>6, <3>7, <3>8, <3>9 DEF ClientInv
    <2>8. CASE server.phase # "new"
      <3>1. toServer = <<>> /\ Holds(toClient, {"R0", "R12", "S", "K", "Z", "E", "N", "G"})
        BY <1>1, <2>8 DEF ClientInv, Handshake, In
      <3>2. m.type \notin {"R10", "R11"}
        BY <2>2, <3>1 DEF Holds
      <3>3. toServer' = toServer
        BY <2>4, <3>2
      <3>4. ClientTypes'
        BY <1>1, <1>2, <2>1, <2>2, <2>3, <2>5, <3>3 DEF ClientTypes
      <3>5. Holds(toClient, {"R0", "R12", "S", "K", "Z", "E", "N", "G"})'
        BY <2>2, <3>1 DEF Holds
      <3>6. Handshake'
        BY <2>1, <2>3, <2>8, <3>1, <3>3, <3>5 DEF Handshake, In, Dialling
      <3>7. ~InCall'
        BY <2>3 DEF InCall
      <3>8. Ends'
        BY <1>1, <2>1, <3>3, <3>7, EndsAfterRead
      <3>9. AtRest'
        <4>1. SUFFICES ASSUME client'.at = "held"
              PROVE  /\ \A i \in DOMAIN toClient' : Loose(toClient'[i])
                     /\ server'.phase = "gone" \/ (~server'.skip /\ server'.tx = client'.tx)
          BY <2>3, <3>1, <3>3 DEF AtRest, In, Loose
        <4>2. 1 \in DOMAIN toClient /\ toClient[1].type = "Z" /\ client'.tx = toClient[1].tx
          BY <2>2, <2>3, <4>1
        <4>3. /\ server.phase = "gone" \/ (~server.skip /\ server.tx = toClient[1].tx)
              /\ \A j \in DOMAIN toClient : 1 < j => Loose(toClient[j])
          BY <1>1, <4>2 DEF Ends
        <4>4. \A i \in DOMAIN toClient' : Loose(toClient'[i])
          BY <2>2, <4>3
        <4>5. QED
          BY <2>1, <4>2, <4>3, <4>4
      <3>10. Work'
        BY <2>3 DEF Work
      <3>11. QED
        BY <2>6, <3>4, <3>6, <3>8, <3>9, <3>10 DEF ClientInv
    <2>9. QED
      BY <2>7, <2>8
  <1>5. QED
    BY <1>3, <1>4

-----------------------------------------------------------------------------
(* The server *)

LEMMA MessageFacts ==
  /\ \A type \in {"S", "N", "E", "G", "K", "Z", "1", "2", "n", "R0", "R5", "R10", "R11", "R12"} :
        Msg(type) \in Messages /\ Msg(type).type = type /\ Msg(type).id = 0
  /\ \A m \in Requests, tx \in Statuses :
        Ready(m, tx) \in Messages /\ Ready(m, tx).type = "Z" /\ Ready(m, tx).id = m.id /\ Ready(m, tx).tx = tx
  /\ \A m \in Requests, type \in {"T", "D", "C", "E"} :
        LET a == [Msg(type) EXCEPT !.id = m.id] IN a \in Messages /\ a.type = type /\ a.id = m.id
  /\ LET a == [Msg("Z") EXCEPT !.tx = "I"] IN a \in Messages /\ a.type = "Z" /\ a.tx = "I"
  BY DEF Msg, Messages, Ready, Requests, Statuses

LEMMA ShortSeqs ==
  ASSUME NEW S
  PROVE  /\ \A a \in S : <<a>> \in Seq(S) /\ Len(<<a>>) = 1 /\ <<a>>[1] = a
         /\ \A a, b, c \in S : LET s == <<a, b, c>> IN
               s \in Seq(S) /\ Len(s) = 3 /\ s[1] = a /\ s[2] = b /\ s[3] = c
         /\ \A a, b, c, d \in S : LET s == <<a, b, c, d>> IN
               s \in Seq(S) /\ Len(s) = 4 /\ s[1] = a /\ s[2] = b /\ s[3] = c /\ s[4] = d
         /\ <<>> \in Seq(S) /\ Len(<<>>) = 0 /\ \A s \in Seq(S) : s \o <<>> = s /\ <<>> \o s = s
  OBVIOUS

LEMMA OutcomeFacts ==
  ASSUME NEW m \in Requests, NEW tx \in Statuses, NEW end \in Outcomes(m, tx)
  PROVE  /\ end.ok \in BOOLEAN /\ end.tx \in Statuses
         /\ end.messages \in Seq(Messages) /\ Len(end.messages) >= 1
         /\ \A i \in 1..Len(end.messages) : end.messages[i].type \in Said \cup {"E"} /\ end.messages[i].id = m.id
  <1> DEFINE Of(type) == [Msg(type) EXCEPT !.id = m.id]
             Ok(to, types) == [ok |-> TRUE, tx |-> to, messages |-> [i \in DOMAIN types |-> Of(types[i])]]
             Error == [ok |-> FALSE, tx |-> Failed(tx), messages |-> <<Of("E")>>]
             Proper(e) == /\ e.ok \in BOOLEAN /\ e.tx \in Statuses
                        /\ e.messages \in Seq(Messages) /\ Len(e.messages) >= 1
                        /\ \A i \in 1..Len(e.messages) : e.messages[i].type \in Said \cup {"E"} /\ e.messages[i].id = m.id
  <1>1. \A type \in {"T", "D", "C", "E"} : Of(type) \in Messages /\ Of(type).type = type /\ Of(type).id = m.id
    BY MessageFacts
  <1> HIDE DEF Of
  <1>2. Failed(tx) \in Statuses
    BY DEF Failed, Statuses
  <1>3. Proper(Error)
    BY <1>1, <1>2
  <1>4. ASSUME NEW to \in Statuses
        PROVE  Proper(Ok(to, <<"C">>))
    <2>1. [i \in DOMAIN <<"C">> |-> Of(<<"C">>[i])] = <<Of("C")>>
      OBVIOUS
    <2> DEFINE e == Ok(to, <<"C">>)
    <2>2. e.messages = <<Of("C")>> /\ e.ok = TRUE /\ e.tx = to
      BY <2>1
    <2> HIDE DEF e
    <2>3. e.messages \in Seq(Messages) /\ Len(e.messages) = 1 /\ e.messages[1] = Of("C")
      BY <1>1, <2>2, ShortSeqs
    <2>4. \A i \in 1..Len(e.messages) : e.messages[i].type \in Said \cup {"E"} /\ e.messages[i].id = m.id
      BY <1>1, <2>3 DEF Said
    <2>5. e.ok \in BOOLEAN /\ e.tx \in Statuses
      BY <1>4, <2>2, Zenon
    <2>6. Proper(e)
      BY <2>3, <2>4, <2>5
    <2>7. QED
      BY <2>6 DEF e
  <1>5. ASSUME NEW to \in Statuses
        PROVE  Proper(Ok(to, <<"T", "D", "C">>))
    <2>1. [i \in DOMAIN <<"T", "D", "C">> |-> Of(<<"T", "D", "C">>[i])] = <<Of("T"), Of("D"), Of("C")>>
      OBVIOUS
    <2> DEFINE e == Ok(to, <<"T", "D", "C">>)
    <2>2. e.messages = <<Of("T"), Of("D"), Of("C")>> /\ e.ok = TRUE /\ e.tx = to
      BY <2>1
    <2> HIDE DEF e
    <2>3. e.messages \in Seq(Messages) /\ Len(e.messages) = 3
      BY <1>1, <2>2, ShortSeqs
    <2>4. e.messages[1] = Of("T") /\ e.messages[2] = Of("D") /\ e.messages[3] = Of("C")
      BY <2>2
    <2>5. \A i \in 1..Len(e.messages) : e.messages[i].type \in Said \cup {"E"} /\ e.messages[i].id = m.id
      BY <1>1, <2>3, <2>4 DEF Said
    <2>6. e.ok \in BOOLEAN /\ e.tx \in Statuses
      BY <1>5, <2>2, Zenon
    <2>7. Proper(e)
      BY <2>3, <2>5, <2>6
    <2>8. QED
      BY <2>7 DEF e
  <1>6. end \in {Ok("I", <<"C">>), Ok("T", <<"C">>), Ok(tx, <<"T", "D", "C">>), Error}
    BY DEF Outcomes, Of
  <1>7. "I" \in Statuses /\ "T" \in Statuses
    BY DEF Statuses
  <1> HIDE DEF Ok, Error, Proper
  <1>8. Proper(end)
    BY <1>3, <1>4, <1>5, <1>6, <1>7
  <1>9. QED
    BY <1>8 DEF Proper

(* What the server says to a message of a statement: the statement is known by
   its number, its end comes last, and what was shown before it. *)
Answers(m, ms, s, t) ==
    /\ ms \in Seq(Messages) /\ t \in Servers /\ t.phase = s.phase
    /\ m.type \in {"Q", "P", "B", "D", "X", "Y"}
    /\ \A i \in DOMAIN ms :
          /\ ms[i].type \in Said => ms[i].id = m.id
          /\ ms[i].type = "Z" => i = Len(ms) /\ m.type \in {"Q", "Y"} /\ ms[i].tx = t.tx
    /\ m.type = "Q" => Len(ms) >= 2 /\ ms[1].type \in Said \cup {"E"} /\ t.skip = s.skip
    /\ m.type = "Y" => Len(ms) = 1 /\ ~t.skip
    /\ t.skip => s.skip \/ (ms # <<>> /\ ms[1].type \in Said \cup {"E"})
    /\ m.type = "X" => s.skip \/ (ms # <<>> /\ ms[1].type \in Said \cup {"E"})

LEMMA ServeFacts ==
  ASSUME ClientTypes, NEW m \in Requests, Serve(m)
  PROVE  \E ms : toClient' = toClient \o ms /\ Answers(m, ms, server, server')
  <1>0. server \in Servers /\ toClient \in Seq(Messages) /\ server.tx \in Statuses
    BY DEF ClientTypes, Servers
  <1>1. CASE m.type = "Q"
    <2>1. PICK end \in Outcomes(m, server.tx) :
            /\ server' = [server EXCEPT !.tx = end.tx]
            /\ toClient' = toClient \o (end.messages \o <<Ready(m, end.tx)>>)
      BY <1>1 DEF Serve, Reply
    <2> DEFINE ms == end.messages
               r == Ready(m, end.tx)
    <2>2. /\ end.tx \in Statuses /\ ms \in Seq(Messages) /\ Len(ms) >= 1
          /\ \A i \in 1..Len(ms) : ms[i].type \in Said \cup {"E"} /\ ms[i].id = m.id
      BY <1>0, OutcomeFacts
    <2>3. r \in Messages /\ r.type = "Z" /\ r.tx = end.tx
      BY <2>2, MessageFacts
    <2>4. server' \in Servers /\ server'.tx = end.tx /\ server'.phase = server.phase /\ server'.skip = server.skip
      BY <1>0, <2>1, <2>2 DEF Servers
    <2> HIDE DEF ms, r
    <2>5. <<r>> \in Seq(Messages) /\ Len(<<r>>) = 1 /\ <<r>>[1] = r
      BY <2>3, ShortSeqs
    <2> DEFINE all == ms \o <<r>>
    <2>6. /\ all \in Seq(Messages) /\ Len(all) = Len(ms) + 1 /\ Len(ms) \in Nat /\ DOMAIN all = 1..(Len(ms) + 1)
          /\ \A i \in 1..(Len(ms) + 1) : all[i] = IF i <= Len(ms) THEN ms[i] ELSE <<r>>[i - Len(ms)]
      BY <2>2, <2>5, JoinFacts
    <2> HIDE DEF all
    <2>7. \A i \in 1..(Len(ms) + 1) : all[i] = IF i <= Len(ms) THEN ms[i] ELSE r
      BY <2>5, <2>6
    <2>8. \A i \in DOMAIN all :
            /\ all[i].type \in Said => all[i].id = m.id
            /\ all[i].type = "Z" => i = Len(all) /\ all[i].tx = server'.tx
      BY <2>2, <2>3, <2>4, <2>6, <2>7 DEF Said
    <2>9. all # <<>> /\ Len(all) >= 2 /\ all[1].type \in Said \cup {"E"}
      BY <2>2, <2>6, <2>7, PairFacts
    <2>10. Answers(m, all, server, server')
      BY <1>1, <2>4, <2>6, <2>8, <2>9 DEF Answers
    <2>11. QED
      BY <2>1, <2>10 DEF all, ms, r
  <1>2. CASE m.type \in {"P", "B", "D", "X"} /\ server.skip
    <2>1. UNCHANGED <<server, toClient>>
      BY <1>2 DEF Serve
    <2>2. toClient' = toClient \o <<>> /\ <<>> \in Seq(Messages) /\ DOMAIN <<>> = {}
      BY <1>0, <2>1, ShortSeqs, PairFacts
    <2>3. Answers(m, <<>>, server, server')
      BY <1>0, <1>2, <2>1, <2>2 DEF Answers
    <2>4. QED
      BY <2>2, <2>3
  <1>3. CASE m.type \in {"P", "B", "D"} /\ ~server.skip
    <2>1. PICK a \in Messages :
            /\ toClient' = toClient \o <<a>>
            /\ \/ a.type \in {"1", "2", "n"} /\ server' = server
               \/ /\ a.type = "E" /\ server' = [server EXCEPT !.skip = TRUE, !.tx = Failed(server.tx)]
      <3> DEFINE type == CASE m.type = "P" -> "1" [] m.type = "B" -> "2" [] m.type = "D" -> "n"
                 b == [Msg("E") EXCEPT !.id = m.id]
                 failing == [server EXCEPT !.skip = TRUE, !.tx = Failed(server.tx)]
      <3>1. m.type \notin {"Q", "X", "Y"} /\ ~server.skip
        BY <1>3
      <3>2. m.type # "Q" /\ m.type # "X" /\ m.type # "Y" /\ ~server.skip
        BY <3>1
      <3>3. \/ toClient' = toClient \o <<Msg(type)>> /\ server' = server
            \/ toClient' = toClient \o <<b>> /\ server' = failing
        BY <3>2, Zenon DEF Serve, Reply
      <3>4. type \in {"1", "2", "n"}
        BY <1>3
      <3> HIDE DEF type
      <3>5. Msg(type) \in Messages /\ Msg(type).type \in {"1", "2", "n"} /\ b \in Messages /\ b.type = "E"
        <4>1. \A t \in {"1", "2", "n"} : Msg(t) \in Messages /\ Msg(t).type = t
          BY DEF Msg, Messages
        <4>2. b \in Messages /\ b.type = "E"
          BY DEF Msg, Messages, Requests
        <4>3. QED
          BY <3>4, <4>1, <4>2
      <3> HIDE DEF b, failing
      <3>6. CASE toClient' = toClient \o <<Msg(type)>> /\ server' = server
        BY <3>5, <3>6
      <3>7. CASE toClient' = toClient \o <<b>> /\ server' = failing
        BY <3>5, <3>7, Zenon DEF failing
      <3>8. QED
        BY <3>3, <3>6, <3>7
    <2>2. <<a>> \in Seq(Messages) /\ Len(<<a>>) = 1 /\ <<a>>[1] = a /\ <<a>> # <<>> /\ DOMAIN <<a>> = {1}
      BY ShortSeqs, PairFacts
    <2>3. Failed(server.tx) \in Statuses
      BY DEF Failed, Statuses, ClientTypes, Servers
    <2>4. server' \in Servers /\ server'.phase = server.phase /\ (server'.skip => a.type = "E")
      BY <1>0, <1>3, <2>1, <2>3 DEF Servers
    <2>5. Answers(m, <<a>>, server, server')
      BY <1>3, <2>1, <2>2, <2>4 DEF Answers, Said
    <2>6. QED
      BY <2>1, <2>5
  <1>4. CASE m.type = "X" /\ ~server.skip
    <2>1. PICK end \in Outcomes(m, server.tx) :
            /\ server' = [server EXCEPT !.tx = end.tx, !.skip = ~end.ok]
            /\ toClient' = toClient \o end.messages
      BY <1>4 DEF Serve, Reply
    <2> DEFINE ms == end.messages
    <2>2. /\ end.ok \in BOOLEAN /\ end.tx \in Statuses /\ ms \in Seq(Messages) /\ Len(ms) >= 1
          /\ \A i \in 1..Len(ms) : ms[i].type \in Said \cup {"E"} /\ ms[i].id = m.id
      BY <1>0, OutcomeFacts
    <2>3. server' \in Servers /\ server'.phase = server.phase
      BY <1>0, <2>1, <2>2 DEF Servers
    <2> HIDE DEF ms
    <2>4. Len(ms) \in Nat /\ DOMAIN ms = 1..Len(ms) /\ ms # <<>>
      BY <2>2, EmptyFacts
    <2>5. Answers(m, ms, server, server')
      BY <1>4, <2>2, <2>3, <2>4 DEF Answers, Said
    <2>6. QED
      BY <2>1, <2>5 DEF ms
  <1>5. CASE m.type = "Y"
    <2> DEFINE r == Ready(m, server.tx)
    <2>1. server' = [server EXCEPT !.skip = FALSE] /\ toClient' = toClient \o <<r>>
      BY <1>5 DEF Serve, Reply
    <2>2. r \in Messages /\ r.type = "Z" /\ r.tx = server.tx
      BY <1>0, MessageFacts
    <2> HIDE DEF r
    <2>3. <<r>> \in Seq(Messages) /\ Len(<<r>>) = 1 /\ <<r>>[1] = r /\ DOMAIN <<r>> = {1}
      BY <2>2, ShortSeqs, PairFacts
    <2>4. server' \in Servers /\ server'.phase = server.phase /\ server'.tx = server.tx /\ ~server'.skip
      BY <1>0, <2>1 DEF Servers
    <2>5. Answers(m, <<r>>, server, server')
      BY <1>5, <2>2, <2>3, <2>4 DEF Answers, Said
    <2>6. QED
      BY <2>1, <2>5
  <1>6. QED
    BY <1>1, <1>2, <1>3, <1>4, <1>5 DEF Serve

(* What the server says to a message of the dialling: its next one, or that it
   is ready, or the end. *)
Greets(m, ms, s, t) ==
    /\ ms \in Seq(Messages) /\ t \in Servers /\ m.type \in {"ssl", "startup", "first", "final"}
    /\ (t.phase = "new" => s.phase = "new") /\ Len(ms) >= 1
    /\ \/ t = s /\ Len(ms) = 1 /\ m.type = "ssl" /\ ms[1].type \in {"S", "N"}
       \/ t = s /\ Len(ms) = 1 /\ m.type \in {"startup", "first"} /\ ms[1].type \in {"R5", "R10", "R11"}
       \/ /\ t.phase # "new" /\ t.tx = s.tx /\ (t.skip => s.skip)
          /\ m.type # "ssl" /\ Holds(ms, {"R0", "R12", "S", "K", "Z", "E"})
          /\ \A i \in DOMAIN ms : ms[i].type = "Z" => i = Len(ms) /\ ms[i].tx = "I"

LEMMA AuthenticatedFacts ==
  ASSUME ClientTypes, NEW first \in Seq(Messages), Len(first) <= 1, Holds(first, {"R12"}), Authenticated(first),
         NEW m \in Requests, m.type \in {"startup", "final"}
  PROVE  \E ms : toClient' = toClient \o ms /\ Greets(m, ms, server, server')
  <1> DEFINE z == [Msg("Z") EXCEPT !.tx = "I"]
             rest == <<Msg("R0"), Msg("S"), Msg("K"), z>>
             ms == first \o rest
  <1>1. server \in Servers
    BY DEF ClientTypes
  <1>2. server' = [server EXCEPT !.phase = "ready"] /\ toClient' = toClient \o ms
    BY DEF Authenticated, Reply
  <1>3. /\ Msg("R0") \in Messages /\ Msg("R0").type = "R0" /\ Msg("S") \in Messages /\ Msg("S").type = "S"
        /\ Msg("K") \in Messages /\ Msg("K").type = "K" /\ z \in Messages /\ z.type = "Z" /\ z.tx = "I"
    BY DEF Msg, Messages, Statuses
  <1> HIDE DEF z
  <1>4. rest \in Seq(Messages) /\ Len(rest) = 4 /\ rest[1] = Msg("R0") /\ rest[2] = Msg("S") /\ rest[3] = Msg("K") /\ rest[4] = z
    BY <1>3, ShortSeqs
  <1> HIDE DEF rest
  <1>5. /\ ms \in Seq(Messages) /\ Len(ms) = Len(first) + 4 /\ Len(first) \in Nat /\ DOMAIN ms = 1..(Len(first) + 4)
        /\ DOMAIN first = 1..Len(first)
        /\ \A i \in 1..(Len(first) + 4) : ms[i] = IF i <= Len(first) THEN first[i] ELSE rest[i - Len(first)]
    <2>1. rest \in Seq(Messages)
      BY <1>4
    <2>2. /\ ms \in Seq(Messages) /\ Len(ms) = Len(first) + Len(rest) /\ Len(first) \in Nat
          /\ DOMAIN first = 1..Len(first) /\ DOMAIN ms = 1..(Len(first) + Len(rest))
          /\ \A i \in 1..(Len(first) + Len(rest)) : ms[i] = IF i <= Len(first) THEN first[i] ELSE rest[i - Len(first)]
      BY <2>1
    <2>3. QED
      BY <1>4, <2>2
  <1> HIDE DEF ms
  <1>6. \A i \in 1..4 : rest[i].type \in {"R0", "S", "K", "Z"} /\ (rest[i].type = "Z" => i = 4 /\ rest[i].tx = "I")
    BY <1>3, <1>4
  <1>7. \A i \in DOMAIN first : first[i].type = "R12"
    BY DEF Holds
  <1>8. \A i \in DOMAIN ms :
          /\ ms[i].type \in {"R0", "R12", "S", "K", "Z", "E"}
          /\ ms[i].type = "Z" => i = Len(ms) /\ ms[i].tx = "I"
    <2>1. SUFFICES ASSUME NEW i \in DOMAIN ms
          PROVE  /\ ms[i].type \in {"R0", "R12", "S", "K", "Z", "E"}
                 /\ ms[i].type = "Z" => i = Len(ms) /\ ms[i].tx = "I"
      OBVIOUS
    <2>2. CASE i <= Len(first)
      BY <1>5, <1>7, <2>2
    <2>3. CASE ~(i <= Len(first))
      BY <1>5, <1>6, <2>3
    <2>4. QED
      BY <2>2, <2>3
  <1>9. server' \in Servers /\ server'.phase = "ready" /\ server'.tx = server.tx /\ (server'.skip => server.skip)
    BY <1>1, <1>2 DEF Servers
  <1>10. Greets(m, ms, server, server')
    <2>1. /\ Len(ms) >= 1 /\ m.type # "ssl" /\ server'.phase # "new" /\ m.type \in {"ssl", "startup", "first", "final"}
          /\ ms \in Seq(Messages) /\ server' \in Servers
      BY <1>5, <1>9
    <2>2. Holds(ms, {"R0", "R12", "S", "K", "Z", "E"}) /\ \A i \in DOMAIN ms : ms[i].type = "Z" => i = Len(ms) /\ ms[i].tx = "I"
      BY <1>8, Zenon DEF Holds
    <2>3. QED
      BY <1>9, <2>1, <2>2, Zenon DEF Greets
  <1>11. QED
    BY <1>2, <1>10

LEMMA GreetFacts ==
  ASSUME ClientTypes, NEW m \in Requests, Greet(m)
  PROVE  \E ms : toClient' = toClient \o ms /\ Greets(m, ms, server, server')
  <1>0. server \in Servers /\ kind.auth \in {"trust", "md5", "scram"} /\ <<>> \in Seq(Messages)
    BY ShortSeqs DEF ClientTypes
  <1>1. ASSUME NEW type \in {"S", "N", "R5", "R10", "R11"}, toClient' = toClient \o <<Msg(type)>>, server' = server,
               \/ m.type = "ssl" /\ type \in {"S", "N"}
               \/ m.type \in {"startup", "first"} /\ type \notin {"S", "N"}
        PROVE  \E ms : toClient' = toClient \o ms /\ Greets(m, ms, server, server')
    <2>1. Msg(type) \in Messages /\ Msg(type).type = type
      BY DEF Msg, Messages
    <2>2. <<Msg(type)>> \in Seq(Messages) /\ Len(<<Msg(type)>>) = 1 /\ <<Msg(type)>>[1] = Msg(type)
      BY <2>1, ShortSeqs
    <2>3. Greets(m, <<Msg(type)>>, server, server')
      BY <1>0, <1>1, <2>1, <2>2 DEF Greets
    <2>4. QED
      BY <1>1, <2>3
  <1>2. CASE m.type = "ssl"
    <2>1. toClient' = toClient \o <<Msg(IF kind.tls THEN "S" ELSE "N")>> /\ server' = server
      BY <1>2 DEF Greet, Reply
    <2>2. QED
      BY <1>1, <1>2, <2>1
  <1>3. CASE m.type = "first"
    <2>1. toClient' = toClient \o <<Msg("R11")>> /\ server' = server
      BY <1>3 DEF Greet, Reply
    <2>2. QED
      BY <1>1, <1>3, <2>1
  <1>4. CASE m.type = "startup" /\ kind.auth = "trust"
    <2>1. Authenticated(<<>>)
      BY <1>4 DEF Greet
    <2>2. Len(<<>>) <= 1 /\ Holds(<<>>, {"R12"})
      BY PairFacts DEF Holds
    <2>3. QED
      BY <1>0, <1>4, <2>1, <2>2, AuthenticatedFacts
  <1>5. CASE m.type = "startup" /\ kind.auth = "md5"
    <2>1. toClient' = toClient \o <<Msg("R5")>> /\ server' = server
      BY <1>5 DEF Greet, Reply
    <2>2. QED
      BY <1>1, <1>5, <2>1
  <1>6. CASE m.type = "startup" /\ kind.auth = "scram"
    <2>1. toClient' = toClient \o <<Msg("R10")>> /\ server' = server
      BY <1>6 DEF Greet, Reply
    <2>2. QED
      BY <1>1, <1>6, <2>1
  <1>7. CASE m.type = "final" /\ kind.right
    <2>1. Authenticated(<<Msg("R12")>>)
      BY <1>7 DEF Greet
    <2>2. Msg("R12") \in Messages /\ Msg("R12").type = "R12"
      BY DEF Msg, Messages
    <2>3. /\ <<Msg("R12")>> \in Seq(Messages) /\ Len(<<Msg("R12")>>) = 1 /\ <<Msg("R12")>>[1] = Msg("R12")
          /\ DOMAIN <<Msg("R12")>> = {1}
      BY <2>2, ShortSeqs, PairFacts
    <2>4. Holds(<<Msg("R12")>>, {"R12"}) /\ Len(<<Msg("R12")>>) <= 1 /\ m.type \in {"startup", "final"}
      BY <1>7, <2>2, <2>3 DEF Holds
    <2>5. QED
      BY <1>7, <2>1, <2>3, <2>4, AuthenticatedFacts
  <1>8. CASE m.type = "final" /\ ~kind.right
    <2>1. toClient' = toClient \o <<Msg("E")>> /\ server' = [server EXCEPT !.phase = "gone"]
      BY <1>8 DEF Greet, Reply
    <2>2. Msg("E") \in Messages /\ Msg("E").type = "E"
      BY DEF Msg, Messages
    <2>3. <<Msg("E")>> \in Seq(Messages) /\ Len(<<Msg("E")>>) = 1 /\ <<Msg("E")>>[1] = Msg("E") /\ DOMAIN <<Msg("E")>> = {1}
      BY <2>2, ShortSeqs, PairFacts
    <2>4. server' \in Servers /\ server'.phase = "gone" /\ server'.tx = server.tx /\ (server'.skip => server.skip)
      BY <1>0, <2>1 DEF Servers
    <2>5. Greets(m, <<Msg("E")>>, server, server')
      BY <1>8, <2>2, <2>3, <2>4 DEF Greets, Holds
    <2>6. QED
      BY <2>1, <2>5
  <1>9. QED
    BY <1>0, <1>2, <1>3, <1>4, <1>5, <1>6, <1>7, <1>8 DEF Greet

(* A server that greets: the one message on its way becomes its answer. *)
LEMMA GreetKeeps ==
  ASSUME ClientInv, client.at \in {"tls", "startup"}, toServer # <<>>, NEW ms,
         toServer' = Tail(toServer), toClient' = toClient \o ms, Greets(Head(toServer), ms, server, server'),
         UNCHANGED <<client, query, calls>>
  PROVE  Handshake' /\ Ends'
  <1> DEFINE m == Head(toServer)
  <1>1. /\ ClientTypes /\ ~client.broken /\ toServer \in Seq(Requests) /\ toClient \in Seq(Messages)
        /\ Len(toServer) \in Nat /\ Len(toClient) \in Nat /\ (toServer = <<>> <=> Len(toServer) = 0)
        /\ client' = client
    BY Queues DEF ClientInv, ClientTypes, Callers, Dialling
  <1>2. /\ Len(toServer') = Len(toServer) - 1 /\ m = toServer[1] /\ m \in Requests
        /\ (toServer' = <<>> <=> Len(toServer) = 1) /\ DOMAIN toServer = 1..Len(toServer) /\ DOMAIN toServer' = 1..(Len(toServer) - 1)
    BY <1>1, TailFacts
  <1>3. /\ server = NewServer /\ Len(toServer) + Len(toClient) = 1
        /\ client.at = "tls" => Holds(toServer, {"ssl"})
        /\ client.at = "startup" => Holds(toServer, {"startup", "first", "final"})
    BY <1>1 DEF ClientInv, Handshake, In, OneMessage
  <1>4. Len(toServer) = 1 /\ Len(toClient) = 0 /\ Len(toServer') = 0 /\ toServer' = <<>> /\ DOMAIN toServer' = {}
    BY <1>1, <1>2, <1>3
  <1>5. ms \in Seq(Messages)
    BY DEF Greets
  <1>6. toClient' \in Seq(Messages) /\ Len(toClient') = Len(ms) /\ DOMAIN toClient' = DOMAIN ms /\ DOMAIN ms = 1..Len(ms) /\ Len(ms) \in Nat
        /\ \A i \in DOMAIN ms : toClient'[i] = ms[i]
    <2>1. /\ toClient' \in Seq(Messages) /\ Len(toClient') = Len(toClient) + Len(ms) /\ Len(ms) \in Nat
          /\ DOMAIN ms = 1..Len(ms) /\ DOMAIN toClient' = 1..(Len(toClient) + Len(ms))
          /\ \A i \in 1..(Len(toClient) + Len(ms)) : toClient'[i] = IF i <= Len(toClient) THEN toClient[i] ELSE ms[i - Len(toClient)]
      BY <1>1, <1>5, JoinFacts
    <2>2. QED
      BY <1>4, <2>1
  <1>7. server'.phase = "new" \/ server'.phase # "new"
    OBVIOUS
  <1> HIDE DEF m
  <1>8. CASE server' = server
    <2>1. Len(ms) = 1 /\ server'.phase = "new"
      BY <1>3, <1>8 DEF Greets, NewServer, m
    <2>2. /\ client.at = "tls" => ms[1].type \in {"S", "N"}
          /\ client.at = "startup" => ms[1].type \in {"R5", "R10", "R11"}
      <3>1. /\ client.at = "tls" => m.type = "ssl"
            /\ client.at = "startup" => m.type \in {"startup", "first", "final"}
        BY <1>2, <1>3, <1>4 DEF Holds
      <3>2. \/ m.type = "ssl" /\ ms[1].type \in {"S", "N"}
            \/ m.type \in {"startup", "first"} /\ ms[1].type \in {"R5", "R10", "R11"}
        BY <1>3, <1>8 DEF Greets, NewServer, m
      <3>3. QED
        BY <3>1, <3>2
    <2>3. Handshake'
      BY <1>1, <1>3, <1>4, <1>6, <1>8, <2>1, <2>2 DEF Handshake, In, OneMessage, Holds, Dialling
    <2>4. Ends'
      BY <1>6, <2>1, <2>2 DEF Ends
    <2>5. QED
      BY <2>3, <2>4
  <1>9. CASE server' # server
    <2>1. /\ server'.phase # "new" /\ server'.tx = server.tx /\ (server'.skip => server.skip)
          /\ m.type # "ssl" /\ Holds(ms, {"R0", "R12", "S", "K", "Z", "E"})
          /\ \A i \in DOMAIN ms : ms[i].type = "Z" => i = Len(ms) /\ ms[i].tx = "I"
      BY <1>9 DEF Greets, m
    <2>2. client.at = "startup"
      BY <1>2, <1>3, <1>4, <2>1 DEF Holds
    <2>3. Handshake'
      BY <1>1, <1>4, <1>6, <2>1, <2>2 DEF Handshake, In, Holds, Dialling
    <2>4. server.tx = "I" /\ ~server.skip
      BY <1>3 DEF NewServer
    <2>5. ~InCall'
      BY <1>1, <2>2 DEF InCall
    <2>6. \A i \in DOMAIN toClient' : toClient'[i].type = "Z" => i = Len(ms) /\ toClient'[i].tx = server'.tx /\ ~server'.skip
      BY <1>6, <2>1, <2>4
    <2>7. \A i, j \in DOMAIN toClient' : toClient'[i].type = "Z" => ~(i < j)
      BY <1>6, <2>6
    <2>8. Ends'
      BY <1>4, <2>5, <2>6, <2>7, Zenon DEF Ends
    <2>9. QED
      BY <2>3, <2>8
  <1>10. QED
    BY <1>8, <1>9

(* A server that answers takes the next message of the statement. *)
LEMMA ServeKeeps ==
  ASSUME ClientInv, client.at \in {"writing", "reading"}, ~client.broken, toServer # <<>>, NEW ms, server.phase # "gone",
         toServer' = Tail(toServer), toClient' = toClient \o ms, Answers(Head(toServer), ms, server, server'),
         UNCHANGED <<client, query, calls>>
  PROVE  Ends' /\ Work'
  <1> DEFINE m == Head(toServer)
             n == Len(toClient)
  <1>1. /\ ClientTypes /\ toServer \in Seq(Requests) /\ toClient \in Seq(Messages) /\ query.id \in Nat /\ Ends /\ Work
        /\ client' = client /\ query' = query /\ ms \in Seq(Messages)
    BY DEF ClientInv, ClientTypes, Calls, Answers
  <1>2. /\ Len(toServer) \in Nat \ {0} /\ Len(query.left) \in Nat
        /\ (query.left = <<>> <=> Len(query.left) = 0)
    BY <1>1, Queues
  <1>3. /\ Len(toServer') = Len(toServer) - 1 /\ m = toServer[1] /\ m \in Requests
        /\ (toServer' = <<>> <=> Len(toServer) = 1) /\ DOMAIN toServer = 1..Len(toServer) /\ DOMAIN toServer' = 1..(Len(toServer) - 1)
        /\ \A i \in 1..(Len(toServer) - 1) : toServer'[i] = toServer[i + 1]
    BY <1>1, TailFacts
  <1>4. /\ Len(toClient') = n + Len(ms) /\ n \in Nat /\ Len(ms) \in Nat
        /\ DOMAIN toClient = 1..n /\ DOMAIN ms = 1..Len(ms) /\ DOMAIN toClient' = 1..(n + Len(ms))
        /\ \A i \in 1..(n + Len(ms)) : toClient'[i] = IF i <= n THEN toClient[i] ELSE ms[i - n]
    BY <1>1, JoinFacts
  <1> HIDE DEF m, n
  <1>5. /\ ~query.ext => Rest <= 1
        /\ \A i \in DOMAIN toServer : toServer[i].type = FromEnd(query.ext, Rest - i + 1) /\ toServer[i].id = query.id
        /\ \A i \in DOMAIN toClient :
             /\ toClient[i].type \in Said => toClient[i].id = query.id
             /\ toClient[i].type = "Z" => Shown(query, toClient, i)
        /\ query.out \subseteq {query.id}
        /\ In("reading") => query.left = <<>>
        /\ \A i \in DOMAIN query.left : query.left[i] = FromEnd(query.ext, Len(query.left) - i + 1)
        /\ server.skip => query.ext /\ Rest >= 1
        /\ server.skip \/ (query.ext /\ Rest <= 1) => Shown(query, toClient, n + 1)
    BY <1>1 DEF Work, n
  <1>6. Rest \in Nat /\ Rest >= 1 /\ Rest' = Rest - 1 /\ (Rest = 1 <=> (toServer' = <<>> /\ query.left = <<>>))
    BY <1>1, <1>2, <1>3 DEF Rest
  <1>7. /\ m.id = query.id /\ m.type = FromEnd(query.ext, Rest)
    <2>1. 1 \in DOMAIN toServer /\ Rest - 1 + 1 = Rest
      BY <1>2, <1>3, <1>6
    <2>2. toServer[1].type = FromEnd(query.ext, Rest - 1 + 1) /\ toServer[1].id = query.id
      BY <1>5, <2>1, Zenon
    <2>3. QED
      BY <1>3, <2>1, <2>2
  <1>8. m.type \in {"Q", "Y"} <=> Rest = 1
    BY <1>5, <1>6, <1>7 DEF FromEnd
  <1>9. /\ m.type = "Q" <=> ~query.ext
        /\ (query.ext /\ Rest = 2) => m.type = "X"
    BY <1>7 DEF FromEnd
  <1>10. \A i \in DOMAIN toClient : toClient[i].type # "Z"
    BY <1>1 DEF Ends
  (* What is new in toClient. *)
  <1>11. \A i \in DOMAIN ms :
            /\ ms[i].type \in Said => ms[i].id = query.id
            /\ ms[i].type = "Z" => i = Len(ms) /\ Rest = 1 /\ ms[i].tx = server'.tx
    BY <1>7, <1>8 DEF Answers, m
  <1>12. \A k : Shown(query, toClient, k) => Shown(query', toClient', k)
    BY <1>1, <1>4 DEF Shown
  <1>13. ASSUME ms # <<>>, ms[1].type \in Said \cup {"E"}
         PROVE  \A k : k > n + 1 => Shown(query', toClient', k)
    <2>1. 1 \in DOMAIN ms
      BY <1>1, <1>4, <1>13, EmptyFacts
    <2>2. n + 1 \in DOMAIN toClient' /\ toClient'[n + 1] = ms[1]
      BY <1>4, <2>1
    <2>3. QED
      BY <1>13, <2>2 DEF Shown
  <1>14. \A k, l : (k \in Nat /\ l \in Nat /\ k <= l /\ Shown(query', toClient', k)) => Shown(query', toClient', l)
    BY <1>4 DEF Shown
  <1>15. server'.phase = server.phase /\ server' \in Servers
    BY DEF Answers
  <1>16. Ends'
    <2>1. SUFFICES ASSUME NEW i \in DOMAIN toClient', toClient'[i].type = "Z"
          PROVE  /\ toServer' = <<>> /\ query.left = <<>>
                 /\ ~server'.skip /\ server'.tx = toClient'[i].tx
                 /\ \A j \in DOMAIN toClient' : ~(i < j)
      BY <1>1, Zenon DEF Ends
    <2>2. i > n /\ i - n \in DOMAIN ms /\ toClient'[i] = ms[i - n]
      BY <1>4, <1>10, <2>1
    <2>3. i - n = Len(ms) /\ Rest = 1 /\ toClient'[i].tx = server'.tx
      BY <1>11, <2>1, <2>2
    <2>4. ~server'.skip
      <3>1. CASE m.type = "Y"
        BY <3>1 DEF Answers, m
      <3>2. CASE m.type = "Q"
        BY <1>5, <1>9, <3>2 DEF Answers, m
      <3>3. QED
        BY <1>8, <2>3, <3>1, <3>2
    <2>5. QED
      BY <1>4, <1>6, <2>2, <2>3, <2>4
  <1>17. \A i \in DOMAIN toClient' :
            /\ toClient'[i].type \in Said => toClient'[i].id = query.id
            /\ toClient'[i].type = "Z" => Shown(query', toClient', i)
    <2>1. SUFFICES ASSUME NEW i \in DOMAIN toClient'
          PROVE  /\ toClient'[i].type \in Said => toClient'[i].id = query.id
                 /\ toClient'[i].type = "Z" => Shown(query', toClient', i)
      OBVIOUS
    <2>2. CASE i <= n
      BY <1>4, <1>5, <1>10, <2>2
    <2>3. CASE ~(i <= n)
      <3>1. i - n \in DOMAIN ms /\ toClient'[i] = ms[i - n] /\ i \in Nat
        BY <1>4, <2>3
      <3>2. SUFFICES ASSUME toClient'[i].type = "Z"
            PROVE  Shown(query', toClient', i)
        BY <1>11, <3>1
      <3>3. i - n = Len(ms) /\ Rest = 1
        BY <1>11, <3>1, <3>2
      <3>4. CASE query.ext
        <4>1. Shown(query, toClient, n + 1)
          BY <1>5, <3>3, <3>4
        <4>2. n + 1 <= i /\ n + 1 \in Nat
          BY <1>4, <3>1, <2>3
        <4>3. QED
          BY <1>12, <1>14, <3>1, <4>1, <4>2
      <3>5. CASE ~query.ext
        <4>1. Len(ms) >= 2 /\ ms[1].type \in Said \cup {"E"}
          BY <1>9, <3>5 DEF Answers, m
        <4>2. ms # <<>> /\ i > n + 1
          BY <1>4, <3>1, <3>3, <4>1, PairFacts
        <4>3. QED
          BY <1>13, <4>1, <4>2
      <3>6. QED
        BY <3>4, <3>5
    <2>4. QED
      BY <2>2, <2>3
  <1>18. \A i \in DOMAIN toServer' : toServer'[i].type = FromEnd(query.ext, Rest' - i + 1) /\ toServer'[i].id = query.id
    <2>1. SUFFICES ASSUME NEW i \in DOMAIN toServer'
          PROVE  toServer'[i].type = FromEnd(query.ext, Rest' - i + 1) /\ toServer'[i].id = query.id
      OBVIOUS
    <2>2. i \in 1..(Len(toServer) - 1)
      BY <1>3
    <2>3. toServer'[i] = toServer[i + 1] /\ i + 1 \in DOMAIN toServer
      BY <1>2, <1>3, <2>2
    <2>4. Rest' - i + 1 = Rest - (i + 1) + 1
      BY <1>2, <1>6, <2>2
    <2>5. toServer[i + 1].type = FromEnd(query.ext, Rest - (i + 1) + 1) /\ toServer[i + 1].id = query.id
      BY <1>5, <2>3
    <2>6. QED
      BY <2>3, <2>4, <2>5
  <1>19. server'.skip => query.ext /\ Rest' >= 1
    <2>1. SUFFICES ASSUME server'.skip
          PROVE  query.ext /\ Rest # 1
      BY <1>6
    <2>2. m.type # "Y"
      BY <2>1 DEF Answers, m
    <2>3. query.ext
      BY <1>5, <1>9, <2>1 DEF Answers, m
    <2>4. QED
      BY <1>8, <1>9, <2>2, <2>3
  <1>20. server'.skip \/ (query.ext /\ Rest' <= 1) => Shown(query', toClient', Len(toClient') + 1)
    <2>1. n + 1 \in Nat /\ Len(toClient') + 1 \in Nat /\ n + 1 <= Len(toClient') + 1
      BY <1>4
    <2>2. Shown(query, toClient, n + 1) => Shown(query', toClient', Len(toClient') + 1)
      <3>1. Shown(query, toClient, n + 1) => Shown(query', toClient', n + 1)
        BY <1>12
      <3>2. Shown(query', toClient', n + 1) => Shown(query', toClient', Len(toClient') + 1)
        BY <1>14, <2>1
      <3>3. QED
        BY <3>1, <3>2
    <2>3. (ms # <<>> /\ ms[1].type \in Said \cup {"E"}) => Shown(query', toClient', Len(toClient') + 1)
      <3>1. SUFFICES ASSUME ms # <<>>, ms[1].type \in Said \cup {"E"}
            PROVE  Shown(query', toClient', Len(toClient') + 1)
        OBVIOUS
      <3>2. Len(ms) # 0
        BY <1>1, <3>1, EmptyFacts
      <3>3. Len(toClient') + 1 > n + 1
        BY <1>4, <3>2
      <3>4. QED
        BY <1>13, <3>1, <3>3
    <2>4. CASE server'.skip
      BY <1>5, <2>2, <2>3, <2>4 DEF Answers
    <2>5. CASE query.ext /\ Rest' <= 1
      <3>1. Rest = 1 \/ Rest = 2
        BY <1>6, <2>5
      <3>2. Rest = 2 => server.skip \/ (ms # <<>> /\ ms[1].type \in Said \cup {"E"})
        BY <1>9, <2>5 DEF Answers, m
      <3>3. QED
        BY <1>5, <2>2, <2>3, <2>5, <3>1, <3>2
    <2>6. QED
      BY <2>4, <2>5
  <1>21. Work'
    <2>1. /\ ~query'.ext => Rest' <= 1
          /\ In("reading")' => query'.left = <<>>
          /\ \A i \in DOMAIN query'.left : query'.left[i] = FromEnd(query'.ext, Len(query'.left) - i + 1)
          /\ query'.out \subseteq {query'.id}
      <3>1. ~query.ext => Rest' <= 1
        BY <1>5, <1>6
      <3>2. QED
        BY <1>1, <1>5, <3>1, Zenon DEF In
    <2>2. QED
      BY <1>1, <1>17, <1>18, <1>19, <1>20, <2>1, Zenon DEF Work
  <1>22. QED
    BY <1>16, <1>21

LEMMA ServerStepKeeps ==
  ASSUME ClientInv, ServerStep
  PROVE  ClientInv'
  <1> DEFINE m == Head(toServer)
  <1>1. /\ server.phase # "gone" /\ toServer # <<>> /\ toServer' = Tail(toServer)
        /\ Greet(m) \/ Serve(m)
        /\ kind' = kind /\ client' = client /\ query' = query /\ calls' = calls
    BY DEF ServerStep
  <1>2. ClientTypes /\ toServer \in Seq(Requests) /\ toClient \in Seq(Messages) /\ Callers
    BY DEF ClientInv, ClientTypes
  <1>3. m \in Requests /\ toServer' \in Seq(Requests)
    BY <1>1, <1>2, TailFacts
  <1> HIDE DEF m
  <1>4. PICK ms : toClient' = toClient \o ms /\ (Greets(m, ms, server, server') \/ Answers(m, ms, server, server'))
    BY <1>1, <1>2, <1>3, GreetFacts, ServeFacts
  <1>5. ms \in Seq(Messages) /\ server' \in Servers /\ (server'.phase = "new" => server.phase = "new")
    BY <1>4 DEF Greets, Answers
  <1>6. ClientTypes'
    <2>1. toClient' \in Seq(Messages)
      BY <1>2, <1>4, <1>5, JoinFacts
    <2>2. QED
      BY <1>1, <1>2, <1>3, <1>5, <2>1 DEF ClientTypes
  <1>7. Callers'
    BY <1>1, <1>2 DEF Callers, In, InCall, Dialling
  <1>8. CASE client.broken
    <2>1. ~Dialling /\ server.phase # "new"
      BY <1>2, <1>8 DEF Callers, ClientInv, Handshake
    <2>2. Handshake'
      BY <1>1, <1>5, <2>1 DEF Handshake, Dialling, In
    <2>3. Ends' /\ AtRest' /\ Work'
      BY <1>1, <1>8 DEF Ends, AtRest, Work
    <2>4. QED
      BY <1>6, <1>7, <2>2, <2>3 DEF ClientInv
  <1>9. CASE client.at \in {"tls", "startup"}
    <2>1. m.type \in {"ssl", "startup", "first", "final"}
      <3>1. /\ client.at = "tls" => Holds(toServer, {"ssl"})
            /\ client.at = "startup" => Holds(toServer, {"startup", "first", "final"})
        BY <1>1, <1>9 DEF ClientInv, Handshake, In
      <3>2. 1 \in DOMAIN toServer /\ m = toServer[1]
        BY <1>1, <1>2, TailFacts DEF m
      <3>3. QED
        BY <1>9, <3>1, <3>2 DEF Holds
    <2>2. Greets(m, ms, server, server')
      BY <1>4, <2>1 DEF Answers
    <2>3. Handshake' /\ Ends'
      BY <1>1, <1>4, <1>9, <2>2, GreetKeeps DEF m
    <2>4. AtRest' /\ Work'
      BY <1>1, <1>9 DEF AtRest, Work
    <2>5. QED
      BY <1>6, <1>7, <2>3, <2>4 DEF ClientInv
  <1>10. CASE client.at \in {"writing", "reading"} /\ ~client.broken
    <2>1. 1 \in DOMAIN toServer /\ m = toServer[1]
      BY <1>1, <1>2, TailFacts DEF m
    <2>2. m.type \in {"Q", "P", "B", "D", "X", "Y"}
      BY <1>10, <2>1 DEF ClientInv, Work, FromEnd
    <2>3. Answers(m, ms, server, server')
      BY <1>4, <2>2 DEF Greets
    <2>4. Ends' /\ Work'
      BY <1>1, <1>4, <1>10, <2>3, ServeKeeps DEF m
    <2>5. Handshake'
      BY <1>1, <1>5, <1>10 DEF ClientInv, Handshake, In, Dialling
    <2>6. AtRest'
      BY <1>1, <1>10 DEF AtRest
    <2>7. QED
      BY <1>6, <1>7, <2>4, <2>5, <2>6 DEF ClientInv
  <1>11. client.broken \/ client.at \in {"tls", "startup", "writing", "reading"}
    <2>1. client.at # "none"
      BY <1>1 DEF ClientInv, Handshake, In
    <2>2. client.broken \/ client.at \notin {"held", "idle", "leaving"}
      BY <1>1 DEF ClientInv, AtRest
    <2>3. QED
      BY <1>2, <2>1, <2>2 DEF ClientTypes, Clients
  <1>12. QED
    BY <1>8, <1>9, <1>10, <1>11

(* The session ends: what was on its way is cut off. *)
LEMMA EndKeeps ==
  ASSUME ClientInv, End
  PROVE  ClientInv'
  <1> DEFINE e == Msg("E")
  <1>1. /\ server.phase = "ready" /\ server' = [server EXCEPT !.phase = "gone"]
        /\ \E n \in 0..Len(toClient) : toClient' \in {SubSeq(toClient, 1, n), SubSeq(toClient, 1, n) \o <<e>>}
        /\ kind' = kind /\ toServer' = toServer /\ client' = client /\ query' = query /\ calls' = calls
    BY DEF End
  <1>2. e \in Messages /\ e.type = "E" /\ e.id = 0
    BY DEF Msg, Messages
  <1> HIDE DEF e
  <1>3. PICK n \in 0..Len(toClient) : toClient' = SubSeq(toClient, 1, n) \/ toClient' = SubSeq(toClient, 1, n) \o <<e>>
    BY <1>1
  <1>4. ClientTypes /\ server \in Servers /\ toClient \in Seq(Messages)
    BY DEF ClientInv, ClientTypes
  <1>5. /\ toClient' \in Seq(Messages) /\ DOMAIN toClient = 1..Len(toClient) /\ n \in Nat /\ n <= Len(toClient)
        /\ \/ DOMAIN toClient' = 1..n /\ \A i \in 1..n : toClient'[i] = toClient[i]
           \/ DOMAIN toClient' = 1..(n + 1) /\ (\A i \in 1..n : toClient'[i] = toClient[i]) /\ toClient'[n + 1] = e
    <2> DEFINE s == SubSeq(toClient, 1, n)
    <2>1. s \in Seq(Messages) /\ Len(s) = n /\ DOMAIN s = 1..n /\ DOMAIN toClient = 1..Len(toClient) /\ \A i \in 1..n : s[i] = toClient[i]
      BY <1>4, CutFacts
    <2>2. Len(toClient) \in Nat
      BY <1>4
    <2>3. n \in Nat /\ n <= Len(toClient)
      BY <1>3, <2>2
    <2>4. toClient' = s \/ toClient' = s \o <<e>>
      BY <1>3
    <2> HIDE DEF s
    <2>5. CASE toClient' = s
      BY <2>1, <2>3, <2>5
    <2>6. CASE toClient' = s \o <<e>>
      <3>1. <<e>> \in Seq(Messages) /\ Len(<<e>>) = 1 /\ <<e>>[1] = e
        BY <1>2, ShortSeqs
      <3>2. /\ s \o <<e>> \in Seq(Messages) /\ DOMAIN (s \o <<e>>) = 1..(n + 1)
            /\ \A i \in 1..(n + 1) : (s \o <<e>>)[i] = IF i <= n THEN s[i] ELSE <<e>>[i - n]
        BY <2>1, <3>1, JoinFacts
      <3>3. QED
        BY <2>1, <2>3, <2>6, <3>1, <3>2
    <2>7. QED
      BY <2>4, <2>5, <2>6
  <1>6. \A i \in DOMAIN toClient' : \/ i \in DOMAIN toClient /\ toClient'[i] = toClient[i]
                                   \/ toClient'[i] = e
    BY <1>5
  <1>7. server' \in Servers /\ server'.phase = "gone"
    BY <1>1, <1>4 DEF Servers
  <1>8. ClientTypes'
    BY <1>1, <1>4, <1>5, <1>7 DEF ClientTypes
  <1>9. Callers'
    BY <1>1 DEF ClientInv, Callers, In, InCall, Dialling
  <1>10. Handshake'
    <2>1. client.at \notin {"none", "tls"}
      BY <1>1 DEF ClientInv, Handshake, In, NewServer
    <2>2. client.at = "startup" => toServer = <<>> /\ Holds(toClient, {"R0", "R12", "S", "K", "Z", "E", "N", "G"})
      BY <1>1 DEF ClientInv, Handshake, In
    <2>3. client.at = "startup" => Holds(toClient', {"R0", "R12", "S", "K", "Z", "E", "N", "G"})
      BY <1>2, <1>6, <2>2 DEF Holds
    <2>4. QED
      BY <1>1, <1>7, <2>1, <2>2, <2>3 DEF Handshake, In, Dialling
  <1>11. Loose(e)
    BY <1>2 DEF Loose, Unasked
  <1>12. Ends'
    <2>1. SUFFICES ASSUME ~client.broken, NEW i \in DOMAIN toClient', toClient'[i].type = "Z"
          PROVE  /\ toServer = <<>> /\ (InCall => query.left = <<>>)
                 /\ \A j \in DOMAIN toClient' : i < j => Loose(toClient'[j])
      BY <1>1, <1>7 DEF Ends, InCall
    <2>2. i \in DOMAIN toClient /\ toClient'[i] = toClient[i]
      BY <1>2, <1>6, <2>1
    <2>3. /\ toServer = <<>> /\ (InCall => query.left = <<>>)
          /\ \A j \in DOMAIN toClient : i < j => Loose(toClient[j])
      BY <2>1, <2>2 DEF ClientInv, Ends
    <2>4. QED
      BY <1>6, <1>11, <2>3
  <1>13. AtRest'
    BY <1>1, <1>6, <1>7, <1>11 DEF ClientInv, AtRest, In
  <1>14. Work'
    <2>1. SUFFICES ASSUME client.at \in {"writing", "reading"}, ~client.broken
          PROVE  Work'
      BY <1>1 DEF Work
    <2>2. \A i \in DOMAIN toClient' :
            /\ toClient'[i].type \in Said => toClient'[i].id = query.id
            /\ toClient'[i].type = "Z" => Shown(query, toClient', i)
      <3>1. SUFFICES ASSUME NEW i \in DOMAIN toClient'
            PROVE  /\ toClient'[i].type \in Said => toClient'[i].id = query.id
                   /\ toClient'[i].type = "Z" => Shown(query, toClient', i)
        OBVIOUS
      <3>2. CASE toClient'[i] = e
        BY <1>2, <3>2 DEF Said
      <3>3. CASE i \in DOMAIN toClient /\ toClient'[i] = toClient[i]
        <4>1. \A j \in DOMAIN toClient : j < i => j \in DOMAIN toClient' /\ toClient'[j] = toClient[j]
          BY <1>5
        <4>2. Shown(query, toClient, i) => Shown(query, toClient', i)
          BY <4>1 DEF Shown
        <4>3. QED
          BY <2>1, <3>3, <4>2 DEF ClientInv, Work
      <3>4. QED
        BY <1>6, <3>2, <3>3
    <2>3. Rest' = Rest
      BY <1>1 DEF Rest
    <2>4. Work
      BY DEF ClientInv
    <2>5. QED
      BY <1>1, <1>7, <2>1, <2>2, <2>3, <2>4, Zenon DEF Work, In
  <1>15. QED
    BY <1>8, <1>9, <1>10, <1>12, <1>13, <1>14 DEF ClientInv

(* A notice or something unheard of, when nothing else is on its way. *)
LEMMA SpeakKeeps ==
  ASSUME ClientInv, Speak
  PROVE  ClientInv'
  <1>1. /\ server.phase = "ready" /\ toClient = <<>>
        /\ toClient' = <<Msg("N")>> \/ toClient' = <<Msg("G")>>
        /\ kind' = kind /\ server' = server /\ toServer' = toServer /\ client' = client /\ query' = query /\ calls' = calls
    BY DEF Speak
  <1>2. PICK e \in Messages : toClient' = <<e>> /\ e.type \in {"N", "G"} /\ e.id = 0
    <2>1. \A type \in {"N", "G"} : Msg(type) \in Messages /\ Msg(type).type = type /\ Msg(type).id = 0
      BY DEF Msg, Messages
    <2>2. QED
      BY <1>1, <2>1
  <1>3. toClient' \in Seq(Messages) /\ Len(toClient') = 1 /\ DOMAIN toClient' = {1} /\ toClient'[1] = e
    BY <1>2, PairFacts
  <1>4. ClientTypes'
    BY <1>1, <1>3 DEF ClientInv, ClientTypes
  <1>5. Callers'
    BY <1>1 DEF ClientInv, Callers, In, InCall, Dialling
  <1>6. Handshake'
    <2>1. client.at \notin {"none", "tls"}
      BY <1>1 DEF ClientInv, Handshake, In, NewServer
    <2>2. client.at = "startup" => toServer = <<>>
      BY <1>1 DEF ClientInv, Handshake, In
    <2>3. QED
      BY <1>1, <1>2, <1>3, <2>1, <2>2 DEF Handshake, In, Dialling, Holds
  <1>7. Loose(e) /\ e.type # "Z" /\ e.type \notin Said
    BY <1>2 DEF Loose, Unasked, Said
  <1>8. Ends'
    BY <1>3, <1>7 DEF Ends
  <1>9. AtRest'
    BY <1>1, <1>3, <1>7 DEF ClientInv, AtRest, In
  <1>10. Work'
    <2>1. SUFFICES ASSUME client.at \in {"writing", "reading"}, ~client.broken
          PROVE  Work'
      BY <1>1 DEF Work
    <2>2. \A i \in DOMAIN toClient' :
            /\ toClient'[i].type \in Said => toClient'[i].id = query.id
            /\ toClient'[i].type = "Z" => Shown(query, toClient', i)
      BY <1>3, <1>7
    <2>3. Rest' = Rest
      BY <1>1 DEF Rest
    <2>4. Shown(query, toClient, Len(toClient) + 1) => Shown(query, toClient', Len(toClient') + 1)
      BY <1>1, PairFacts DEF Shown
    <2>5. Work
      BY DEF ClientInv
    <2>6. QED
      BY <1>1, <2>1, <2>2, <2>3, <2>4, <2>5, Zenon DEF Work, In
  <1>11. QED
    BY <1>4, <1>5, <1>6, <1>8, <1>9, <1>10 DEF ClientInv

-----------------------------------------------------------------------------
(* The caller *)

(* A call that begins on a connection which is not broken finds nothing on
   its way. *)
LEMMA StartKeeps ==
  ASSUME ClientInv, In("held"), NEW sql \in Statements, NEW ext \in BOOLEAN, NEW reset \in BOOLEAN,
         StartQuery(sql, ext, reset), reset => ~client.broken, kind' = kind
  PROVE  ClientInv'
  <1> DEFINE left == IF ext THEN <<"P", "B", "D", "X", "Y">> ELSE <<"Q">>
  <1>1. /\ client' = [client EXCEPT !.at = "writing", !.deadline = "ahead"]
        /\ query' = [id |-> calls + 1, sql |-> sql, ext |-> ext, sound |-> ~client.broken, reset |-> reset,
                     left |-> left, hook |-> "armed", out |-> {}, err |-> FALSE]
        /\ calls' = calls + 1 /\ server' = server /\ toServer' = toServer /\ toClient' = toClient
    BY DEF StartQuery, To
  <1>2. ClientTypes /\ client \in Clients /\ calls \in Nat /\ client.at = "held" /\ client.broken \in BOOLEAN
    BY DEF ClientInv, ClientTypes, Clients, In
  <1>3. /\ left \in Seq({"Q", "P", "B", "D", "X", "Y"}) /\ Len(left) = (IF ext THEN 5 ELSE 1) /\ DOMAIN left = 1..Len(left)
        /\ left # <<>>
        /\ \A i \in 1..Len(left) : left[i] = FromEnd(ext, Len(left) - i + 1)
    <2>1. CASE ext
      <3>1. left = <<"P", "B", "D", "X", "Y">>
        BY <2>1
      <3> HIDE DEF left
      <3>2. left \in Seq({"Q", "P", "B", "D", "X", "Y"}) /\ Len(left) = 5 /\ DOMAIN left = 1..5
        BY <3>1
      <3>3. left[1] = "P" /\ left[2] = "B" /\ left[3] = "D" /\ left[4] = "X" /\ left[5] = "Y"
        BY <3>1
      <3>4. \A i \in 1..5 : left[i] = FromEnd(ext, 5 - i + 1)
        BY <2>1, <3>3 DEF FromEnd
      <3>5. left # <<>>
        BY <3>2, PairFacts
      <3>6. Len(left) = 5
        BY <3>2
      <3>7. QED
        BY <2>1, <3>2, <3>4, <3>5, <3>6
    <2>2. CASE ~ext
      <3>1. left = <<"Q">>
        BY <2>2
      <3> HIDE DEF left
      <3>2. left \in Seq({"Q", "P", "B", "D", "X", "Y"}) /\ Len(left) = 1 /\ DOMAIN left = 1..1 /\ left[1] = "Q"
        BY <3>1
      <3>3. QED
        BY <2>2, <3>2, PairFacts DEF FromEnd
    <2>3. QED
      BY <2>1, <2>2
  <1> HIDE DEF left
  <1>4. client' \in Clients /\ client'.at = "writing" /\ client'.broken = client.broken
    BY <1>1, <1>2 DEF Clients
  <1>5. /\ query'.left = left /\ query'.ext = ext /\ query'.out = {} /\ query'.sound = ~client.broken /\ query'.reset = reset
        /\ query'.id \in Nat /\ query'.id = calls + 1
    BY <1>1, <1>2
  <1>6. query' \in Calls
    BY <1>1, <1>2, <1>3 DEF Calls
  <1>7. ClientTypes'
    BY <1>1, <1>2, <1>4, <1>6 DEF ClientTypes
  <1>8. Callers'
    BY <1>3, <1>4, <1>5 DEF Callers, In, InCall, Dialling
  <1>9. Handshake'
    BY <1>1, <1>2, <1>4 DEF ClientInv, Handshake, In, Dialling
  <1>10. ~client.broken =>
          /\ toServer = <<>> /\ \A i \in DOMAIN toClient : Loose(toClient[i])
          /\ server.phase = "gone" \/ ~server.skip
    BY <1>2 DEF ClientInv, AtRest
  <1>11. \A i \in DOMAIN toClient : Loose(toClient[i]) => toClient[i].type # "Z" /\ toClient[i].type \notin Said
    BY DEF Loose, Unasked, Said
  <1>12. Ends'
    BY <1>1, <1>4, <1>10, <1>11 DEF Ends
  <1>13. AtRest'
    BY <1>4 DEF AtRest
  <1>14. ~client.broken => Rest' = Len(left) /\ DOMAIN toServer' = {}
    BY <1>1, <1>3, <1>5, <1>10, PairFacts DEF Rest
  <1>15. Work'
    <2>1. SUFFICES ASSUME ~client.broken
          PROVE  /\ ~ext => Rest' <= 1
                 /\ \A i \in DOMAIN left : left[i] = FromEnd(ext, Len(left) - i + 1)
                 /\ DOMAIN toServer' = {}
                 /\ \A i \in DOMAIN toClient : toClient[i].type # "Z" /\ toClient[i].type \notin Said
                 /\ {} \subseteq {query'.id}
                 /\ server.phase = "gone" \/ ~server.skip
                 /\ ~(ext /\ Rest' <= 1)
      <3>1. server'.phase # "gone" => server.phase # "gone" /\ (server'.skip <=> server.skip)
        BY <1>1
      <3>2. ~In("reading")' /\ (~client'.broken => ~client.broken) /\ \A i \in DOMAIN toClient' : i \in DOMAIN toClient /\ toClient'[i] = toClient[i]
        BY <1>1, <1>4 DEF In
      <3>3. QED
        BY <1>5, <3>1, <3>2, Zenon DEF Work
    <2>2. QED
      BY <1>3, <1>10, <1>11, <1>14, <2>1
  <1>16. QED
    BY <1>7, <1>8, <1>9, <1>12, <1>13, <1>15 DEF ClientInv

LEMMA StatementKeeps ==
  ASSUME ClientInv, Statement
  PROVE  ClientInv'
  <1>1. In("held") /\ kind' = kind
    BY DEF Statement
  <1>2. {"BEGIN", "COMMIT", "SELECT", "ROLLBACK"} \subseteq Statements
    BY DEF Statements
  <1>3. CASE \E sql \in {"BEGIN", "COMMIT", "SELECT", "ROLLBACK"}, ext \in BOOLEAN : StartQuery(sql, ext, FALSE)
    BY <1>1, <1>2, <1>3, StartKeeps
  <1>4. CASE Refuse
    <2>1. /\ query' = [query EXCEPT !.err = TRUE] /\ query \in Calls
          /\ server' = server /\ toServer' = toServer /\ toClient' = toClient /\ client' = client /\ calls' = calls
      BY <1>4 DEF Refuse, ClientInv, ClientTypes
    <2>2. query' \in Calls /\ query'.hook = query.hook
      BY <2>1 DEF Calls
    <2>3. ClientTypes'
      BY <1>1, <2>1, <2>2 DEF ClientInv, ClientTypes
    <2>4. client.at = "held" /\ client'.at = "held" /\ ~InCall /\ ~InCall'
      BY <1>1, <2>1 DEF In, InCall
    <2>5. Callers'
      BY <2>1, <2>2, <2>4 DEF ClientInv, Callers, In, InCall, Dialling
    <2>6. Handshake' /\ AtRest' /\ Work'
      BY <2>1, <2>4 DEF ClientInv, Handshake, AtRest, Work, In, Dialling
    <2>7. Ends'
      BY <2>1, <2>4 DEF ClientInv, Ends
    <2>8. QED
      BY <2>3, <2>5, <2>6, <2>7 DEF ClientInv
  <1>5. QED
    BY <1>3, <1>4, Zenon DEF Statement

LEMMA GiveKeeps ==
  ASSUME ClientInv, Give
  PROVE  ClientInv'
  <1>1. In("held") /\ kind' = kind /\ client.at = "held"
    BY DEF Give, In
  <1>2. CASE Disconnect /\ UNCHANGED <<query, calls>>
    <2>1. query \in Calls /\ query.hook = "none" /\ calls \in Nat /\ kind.auth \in {"trust", "md5", "scram"}
      BY <1>1 DEF ClientInv, ClientTypes, Callers, InCall
    <2>2. QED
      BY <1>1, <1>2, <2>1, DisconnectKeeps
  <1>3. CASE /\ ~client.broken /\ client.tx = "I" /\ client' = To(client, "idle")
             /\ UNCHANGED <<server, toServer, toClient, query, calls>>
    <2>1. /\ client \in Clients /\ client' = [client EXCEPT !.at = "idle"]
          /\ server' = server /\ toServer' = toServer /\ toClient' = toClient /\ query' = query /\ calls' = calls
      BY <1>3 DEF ClientInv, ClientTypes, To
    <2>2. client' \in Clients /\ client'.at = "idle" /\ client'.broken = FALSE /\ client'.tx = client.tx /\ client'.deadline = client.deadline
      BY <1>3, <2>1 DEF Clients
    <2>3. ClientTypes'
      BY <1>1, <2>1, <2>2 DEF ClientInv, ClientTypes
    <2>4. Callers'
      BY <1>1, <1>3, <2>1, <2>2 DEF ClientInv, Callers, In, InCall, Dialling
    <2>5. Handshake' /\ AtRest' /\ Work'
      BY <1>1, <1>3, <2>1, <2>2 DEF ClientInv, Handshake, AtRest, Work, In, Dialling
    <2>6. Ends'
      BY <1>1, <1>3, <2>1, <2>2 DEF ClientInv, Ends, InCall
    <2>7. QED
      BY <2>3, <2>4, <2>5, <2>6 DEF ClientInv
  <1>4. CASE ~client.broken /\ StartQuery("ROLLBACK", FALSE, TRUE)
    <2>1. "ROLLBACK" \in Statements
      BY DEF Statements
    <2>2. QED
      BY <1>1, <1>4, <2>1, StartKeeps
  <1>5. QED
    BY <1>2, <1>3, <1>4, Zenon DEF Give, Reset

LEMMA AcquireKeeps ==
  ASSUME ClientInv, Acquire
  PROVE  ClientInv'
  <1>1. /\ client.at = "idle" /\ client' = [client EXCEPT !.at = "held"] /\ query' = NoQuery
        /\ kind' = kind /\ server' = server /\ toServer' = toServer /\ toClient' = toClient /\ calls' = calls
    BY DEF Acquire, In, To
  <1>2. client \in Clients /\ ClientTypes /\ ~client.broken
    BY <1>1 DEF ClientInv, ClientTypes, Callers, In
  <1>3. client' \in Clients /\ client'.at = "held" /\ client'.broken = FALSE /\ client'.tx = client.tx /\ client'.deadline = client.deadline
    BY <1>1, <1>2 DEF Clients
  <1>4. ClientTypes'
    BY <1>1, <1>2, <1>3, StartsTyped DEF ClientTypes
  <1>5. query'.hook = "none"
    BY <1>1 DEF NoQuery
  <1>6. Callers'
    BY <1>1, <1>3, <1>5 DEF ClientInv, Callers, In, InCall, Dialling
  <1>7. Handshake' /\ AtRest' /\ Work'
    BY <1>1, <1>2, <1>3 DEF ClientInv, Handshake, AtRest, Work, In, Dialling
  <1>8. Ends'
    BY <1>1, <1>2, <1>3 DEF ClientInv, Ends, InCall
  <1>9. QED
    BY <1>4, <1>6, <1>7, <1>8 DEF ClientInv

(* A call that stops leaves a connection which is broken. *)
LEMMA StopKeeps ==
  ASSUME ClientInv, client.at \in {"writing", "reading"}, Stop(TRUE), server' = server, toServer' = toServer,
         toClient' \in Seq(Messages), kind' = kind, calls' = calls
  PROVE  ClientInv'
  <1>1. client \in Clients /\ query \in Calls /\ ClientTypes
    BY DEF ClientInv, ClientTypes
  <1>2. client' = [client EXCEPT !.at = "leaving", !.broken = TRUE] /\ query' = [query EXCEPT !.err = TRUE]
    <2>1. client' = [[client EXCEPT !.at = "leaving"] EXCEPT !.broken = [client EXCEPT !.at = "leaving"].broken \/ TRUE]
      BY DEF Stop, To
    <2>2. ([client EXCEPT !.at = "leaving"].broken \/ TRUE) = TRUE
      OBVIOUS
    <2>3. QED
      BY <2>1, <2>2 DEF Stop
  <1>3. /\ client' \in Clients /\ client'.at = "leaving" /\ client'.broken
        /\ query' \in Calls /\ query'.err /\ query'.sound = query.sound /\ query'.reset = query.reset
    BY <1>1, <1>2 DEF Clients, Calls
  <1>4. ClientTypes'
    BY <1>1, <1>3 DEF ClientTypes
  <1>5. Callers'
    BY <1>3 DEF ClientInv, Callers, In, InCall, Dialling
  <1>6. Handshake'
    BY <1>3 DEF ClientInv, Handshake, In, Dialling
  <1>7. Ends' /\ AtRest' /\ Work'
    BY <1>3 DEF Ends, AtRest, Work
  <1>8. QED
    BY <1>4, <1>5, <1>6, <1>7 DEF ClientInv
(* Write sends the next message of the statement. *)
LEMMA WriteKeeps ==
  ASSUME ClientInv, Write
  PROVE  ClientInv'
  <1>1. /\ client.at = "writing" /\ query.left # <<>>
        /\ kind' = kind /\ server' = server /\ toClient' = toClient /\ calls' = calls
        /\ ClientTypes /\ client \in Clients /\ query \in Calls /\ toServer \in Seq(Requests) /\ toClient \in Seq(Messages)
        /\ query.left \in Seq({"Q", "P", "B", "D", "X", "Y"}) /\ Callers
    BY DEF Write, In, ClientInv, ClientTypes, Callers, Calls
  <1>2. CASE Stop(TRUE) /\ UNCHANGED toServer
    BY <1>1, <1>2, StopKeeps
  <1>3. CASE ~(Stop(TRUE) /\ UNCHANGED toServer)
    <2> DEFINE m == [type |-> Head(query.left), id |-> query.id, sql |-> query.sql]
               place == IF Len(query.left) = 1 THEN "reading" ELSE "writing"
    <2>1. /\ toServer' = Append(toServer, m)
          /\ query' = [query EXCEPT !.left = Tail(query.left)]
          /\ client' = [client EXCEPT !.at = place]
      BY <1>3 DEF Write, To
    <2>2. /\ Tail(query.left) \in Seq({"Q", "P", "B", "D", "X", "Y"}) /\ Len(Tail(query.left)) = Len(query.left) - 1
          /\ Len(query.left) \in Nat \ {0} /\ Head(query.left) = query.left[1] /\ Head(query.left) \in {"Q", "P", "B", "D", "X", "Y"}
          /\ DOMAIN query.left = 1..Len(query.left) /\ DOMAIN Tail(query.left) = 1..(Len(query.left) - 1)
          /\ \A i \in 1..(Len(query.left) - 1) : Tail(query.left)[i] = query.left[i + 1]
          /\ (Tail(query.left) = <<>> <=> Len(query.left) = 1)
      BY <1>1, TailFacts
    <2>3. m \in Requests /\ m.type = query.left[1] /\ m.id = query.id
      BY <1>1, <2>2 DEF Requests, Calls
    <2>4. /\ query' \in Calls /\ query'.left = Tail(query.left) /\ query'.ext = query.ext /\ query'.id = query.id
          /\ query'.out = query.out /\ query'.hook = query.hook
      BY <1>1, <2>1, <2>2 DEF Calls
    <2>5. query'.err = query.err /\ query'.sound = query.sound /\ query'.reset = query.reset
      BY <1>1, <2>1 DEF Calls
    <2>6. client' \in Clients /\ client'.at = place /\ client'.broken = client.broken
      BY <1>1, <2>1 DEF Clients
    <2> HIDE DEF m
    <2>7. /\ toServer' \in Seq(Requests) /\ Len(toServer') = Len(toServer) + 1 /\ Len(toServer) \in Nat
          /\ DOMAIN toServer = 1..Len(toServer) /\ DOMAIN toServer' = 1..(Len(toServer) + 1)
          /\ \A i \in 1..(Len(toServer) + 1) : toServer'[i] = IF i <= Len(toServer) THEN toServer[i] ELSE m
      BY <1>1, <2>1, <2>3, AppendFacts
    <2>8. place = "reading" <=> Len(query.left) = 1
      OBVIOUS
    <2>9. place \in {"reading", "writing"}
      OBVIOUS
    <2> HIDE DEF place
    <2>10. ClientTypes'
      BY <1>1, <2>4, <2>6, <2>7 DEF ClientTypes
    <2>11. Callers'
      <3>1. InCall /\ InCall' /\ ~Dialling' /\ client'.at \notin {"held", "idle"}
        BY <1>1, <2>6, <2>9 DEF InCall, Dialling
      <3>2. In("writing")' => query'.left # <<>>
        BY <2>2, <2>4, <2>6, <2>8 DEF In
      <3>3. /\ InCall' => (query'.sound /\ client'.broken => query'.err) /\ (query'.reset => query'.sound)
            /\ InCall' /\ ~client'.broken => query'.sound
        BY <1>1, <2>5, <2>6, <3>1 DEF Callers
      <3>4. QED
        BY <3>1, <3>2, <3>3 DEF Callers, In
    <2>12. Handshake'
      BY <1>1, <2>6, <2>9 DEF ClientInv, Handshake, In, Dialling
    <2>13. \A i \in DOMAIN toClient : ~client.broken => toClient[i].type # "Z"
      BY <1>1 DEF ClientInv, Ends, InCall
    <2>14. Ends'
      BY <1>1, <2>6, <2>13 DEF Ends
    <2>15. AtRest'
      BY <2>6, <2>9 DEF AtRest
    <2>16. Rest' = Rest /\ Rest \in Nat
      <3>1. Len(query'.left) = Len(query.left) - 1 /\ Len(query.left) \in Nat
        BY <2>2, <2>4
      <3>2. Len(toServer') = Len(toServer) + 1 /\ Len(toServer) \in Nat
        BY <2>7
      <3>3. Rest = Len(toServer) + Len(query.left) /\ Rest' = Len(toServer') + Len(query'.left)
        BY DEF Rest
      <3>4. \A a, b \in Nat : a + 1 + (b - 1) = a + b /\ a + b \in Nat
        OBVIOUS
      <3>5. QED
        BY <3>1, <3>2, <3>3, <3>4
    <2>17. Work'
      <3>1. SUFFICES ASSUME ~client.broken
            PROVE  Work'
        BY <2>6 DEF Work
      <3>2. /\ ~query.ext => Rest <= 1
            /\ \A i \in DOMAIN query.left : query.left[i] = FromEnd(query.ext, Len(query.left) - i + 1)
            /\ \A i \in DOMAIN toServer : toServer[i].type = FromEnd(query.ext, Rest - i + 1) /\ toServer[i].id = query.id
            /\ \A i \in DOMAIN toClient :
                 /\ toClient[i].type \in Said => toClient[i].id = query.id
                 /\ toClient[i].type = "Z" => Shown(query, toClient, i)
            /\ query.out \subseteq {query.id}
            /\ server.phase # "gone" =>
                 /\ server.skip => query.ext /\ Rest >= 1
                 /\ server.skip \/ (query.ext /\ Rest <= 1) => Shown(query, toClient, Len(toClient) + 1)
        BY <1>1, <3>1, Zenon DEF ClientInv, Work
      <3>3. \A i \in DOMAIN query'.left : query'.left[i] = FromEnd(query.ext, Len(query'.left) - i + 1)
        <4>1. SUFFICES ASSUME NEW i \in 1..(Len(query.left) - 1)
              PROVE  Tail(query.left)[i] = FromEnd(query.ext, Len(query.left) - 1 - i + 1)
          BY <2>2, <2>4
        <4>2. Tail(query.left)[i] = query.left[i + 1] /\ i + 1 \in DOMAIN query.left
          BY <2>2
        <4>3. Len(query.left) - (i + 1) + 1 = Len(query.left) - 1 - i + 1
          BY <2>2
        <4>4. query.left[i + 1] = FromEnd(query.ext, Len(query.left) - (i + 1) + 1)
          BY <3>2, <4>2
        <4>5. QED
          BY <4>2, <4>3, <4>4
      <3>4. m.type = FromEnd(query.ext, Rest - (Len(toServer) + 1) + 1)
        <4>1. 1 \in DOMAIN query.left /\ Len(query.left) - 1 + 1 = Len(query.left)
          BY <2>2
        <4>2. query.left[1] = FromEnd(query.ext, Len(query.left) - 1 + 1)
          BY <3>2, <4>1
        <4>3. Rest - (Len(toServer) + 1) + 1 = Len(query.left)
          BY <2>2, <2>7 DEF Rest
        <4>4. QED
          BY <2>3, <4>1, <4>2, <4>3
      <3>5. \A i \in DOMAIN toServer' : toServer'[i].type = FromEnd(query.ext, Rest - i + 1) /\ toServer'[i].id = query.id
        <4>1. SUFFICES ASSUME NEW i \in DOMAIN toServer'
              PROVE  toServer'[i].type = FromEnd(query.ext, Rest - i + 1) /\ toServer'[i].id = query.id
          OBVIOUS
        <4>2. CASE i \in DOMAIN toServer
          BY <2>7, <3>2, <4>2
        <4>3. CASE i = Len(toServer) + 1
          BY <2>3, <2>7, <3>4, <4>3
        <4>4. QED
          BY <2>7, <4>2, <4>3
      <3>6. \A k : Shown(query', toClient', k) <=> Shown(query, toClient, k)
        BY <1>1, <2>4, <2>5 DEF Shown
      <3>7. In("reading")' => query'.left = <<>>
        BY <2>2, <2>4, <2>6, <2>8 DEF In
      <3>8. /\ ~query'.ext => Rest' <= 1
            /\ \A i \in DOMAIN query'.left : query'.left[i] = FromEnd(query'.ext, Len(query'.left) - i + 1)
            /\ \A i \in DOMAIN toServer' : toServer'[i].type = FromEnd(query'.ext, Rest' - i + 1) /\ toServer'[i].id = query'.id
            /\ query'.out \subseteq {query'.id}
        BY <2>4, <2>16, <3>2, <3>3, <3>5
      <3>9. /\ \A i \in DOMAIN toClient' :
                 /\ toClient'[i].type \in Said => toClient'[i].id = query'.id
                 /\ toClient'[i].type = "Z" => Shown(query', toClient', i)
        BY <1>1, <2>4, <3>2, <3>6
      <3>10. server'.phase # "gone" =>
                 /\ server'.skip => query'.ext /\ Rest' >= 1
                 /\ server'.skip \/ (query'.ext /\ Rest' <= 1) => Shown(query', toClient', Len(toClient') + 1)
        BY <1>1, <2>4, <2>16, <3>2, <3>6
      <3>11. QED
        BY <3>7, <3>8, <3>9, <3>10, Zenon DEF Work
    <2>18. QED
      BY <2>10, <2>11, <2>12, <2>14, <2>15, <2>17 DEF ClientInv
  <1>4. QED
    BY <1>2, <1>3

(* What is shown stays so when a message is read. *)
LEMMA ShownAfterRead ==
  ASSUME toClient \in Seq(Messages), toClient # <<>>, toClient' = Tail(toClient),
         query.err => query'.err, query.out # {} => query'.out # {},
         toClient[1].type \in Said \cup {"E"} => query'.err \/ query'.out # {}
  PROVE  \A k \in Nat : Shown(query, toClient, k + 1) => Shown(query', toClient', k)
  <1>1. /\ DOMAIN toClient = 1..Len(toClient) /\ Len(toClient) \in Nat /\ DOMAIN toClient' = 1..(Len(toClient) - 1)
        /\ \A i \in 1..(Len(toClient) - 1) : toClient'[i] = toClient[i + 1]
    BY TailFacts
  <1>2. SUFFICES ASSUME NEW k \in Nat, NEW j \in DOMAIN toClient, j < k + 1, toClient[j].type \in Said \cup {"E"}
        PROVE  Shown(query', toClient', k)
    BY DEF Shown
  <1>3. CASE j = 1
    BY <1>2, <1>3 DEF Shown
  <1>4. CASE j # 1
    <2>1. j - 1 \in DOMAIN toClient' /\ j - 1 < k /\ toClient'[j - 1] = toClient[j]
      BY <1>1, <1>2, <1>4
    <2>2. QED
      BY <1>2, <2>1 DEF Shown
  <1>5. QED
    BY <1>3, <1>4

(* A read that fails breaks the connection; a message is noted, or is the end
   of the answer. *)
LEMMA ReceiveKeeps ==
  ASSUME ClientInv, Receive
  PROVE  ClientInv'
  <1>1. /\ client.at = "reading"
        /\ kind' = kind /\ server' = server /\ toServer' = toServer /\ calls' = calls
        /\ ClientTypes /\ client \in Clients /\ query \in Calls /\ toClient \in Seq(Messages) /\ query.id \in Nat
    BY DEF Receive, Read, ReadFails, In, ClientInv, ClientTypes, Calls
  <1>2. CASE ReadFails
    BY <1>1, <1>2, StopKeeps DEF ReadFails
  <1>3. CASE Read
    <2> DEFINE m == Head(toClient)
    <2>1. toClient # <<>> /\ toClient' = Tail(toClient)
      BY <1>3 DEF Read
    <2>2. /\ toClient' \in Seq(Messages) /\ Len(toClient') = Len(toClient) - 1 /\ Len(toClient) \in Nat \ {0}
          /\ DOMAIN toClient' = 1..(Len(toClient) - 1) /\ DOMAIN toClient = 1..Len(toClient)
          /\ m = toClient[1] /\ m \in Messages
          /\ \A i \in 1..(Len(toClient) - 1) : toClient'[i] = toClient[i + 1]
      BY <1>1, <2>1, TailFacts
    <2>3. \/ /\ m.type \in {"T", "D", "C"}
             /\ query' = [query EXCEPT !.out = query.out \cup {m.id}] /\ client' = client
          \/ m.type = "E" /\ query' = [query EXCEPT !.err = TRUE] /\ client' = client
          \/ m.type = "Z" /\ client' = [client EXCEPT !.at = "leaving", !.tx = m.tx] /\ query' = query
          \/ m.type \in Ignored(query.ext) /\ client' = client /\ query' = query
          \/ Stop(TRUE)
      BY <1>3, Zenon DEF Read, To
    <2> HIDE DEF m
    <2>4. CASE Stop(TRUE)
      BY <1>1, <2>2, <2>4, StopKeeps
    <2>5. CASE ~Stop(TRUE) /\ m.type # "Z"
      <3>1. client' = client
        BY <2>3, <2>5
      <3>2. /\ query' \in Calls /\ query'.left = query.left /\ query'.ext = query.ext /\ query'.id = query.id
            /\ query'.hook = query.hook
        <4>1. m.id \in Nat
          BY <2>2 DEF Messages
        <4>2. CASE query' = [query EXCEPT !.out = query.out \cup {m.id}]
          BY <1>1, <4>1, <4>2 DEF Calls
        <4>3. CASE query' = [query EXCEPT !.err = TRUE]
          BY <1>1, <4>3 DEF Calls
        <4>4. CASE query' = query
          BY <1>1, <4>4
        <4>5. QED
          BY <2>3, <2>5, <4>2, <4>3, <4>4
      <3>3. (query.err => query'.err) /\ query'.sound = query.sound /\ query'.reset = query.reset
        <4>1. CASE query' = [query EXCEPT !.out = query.out \cup {m.id}]
          BY <1>1, <4>1 DEF Calls
        <4>2. CASE query' = [query EXCEPT !.err = TRUE]
          BY <1>1, <4>2 DEF Calls
        <4>3. CASE query' = query
          BY <4>3
        <4>4. QED
          BY <2>3, <2>5, <4>1, <4>2, <4>3
      <3>4. /\ query'.out = query.out \/ (query'.out = query.out \cup {m.id} /\ m.type \in Said)
            /\ m.type \in Said \cup {"E"} => query'.err \/ query'.out # {}
        <4>1. CASE m.type \in {"T", "D", "C"}
          <5>1. query' = [query EXCEPT !.out = query.out \cup {m.id}] \/ (m.type \in Ignored(query.ext))
            BY <2>3, <2>5, <4>1
          <5>2. m.type \notin Ignored(query.ext)
            BY <4>1 DEF Ignored
          <5>3. QED
            BY <1>1, <4>1, <5>1, <5>2 DEF Said, Calls
        <4>2. CASE m.type = "E"
          <5>1. query' = [query EXCEPT !.err = TRUE] \/ (m.type \in Ignored(query.ext))
            BY <2>3, <2>5, <4>2
          <5>2. m.type \notin Ignored(query.ext)
            BY <4>2 DEF Ignored
          <5>3. QED
            BY <1>1, <4>2, <5>1, <5>2 DEF Said, Calls
        <4>3. CASE m.type \notin {"T", "D", "C", "E"}
          BY <2>3, <2>5, <4>3 DEF Said
        <4>4. QED
          BY <4>1, <4>2, <4>3
      <3>5. ClientTypes'
        BY <1>1, <2>2, <3>1, <3>2 DEF ClientTypes
      <3>6. Callers'
        BY <1>1, <3>1, <3>2, <3>3 DEF ClientInv, Callers, In, InCall, Dialling
      <3>7. Handshake'
        BY <1>1, <3>1 DEF ClientInv, Handshake, In, Dialling
      <3>8. Ends'
        <4>1. CASE client.broken
          BY <3>1, <4>1 DEF Ends
        <4>2. CASE ~client.broken
          <5>1. InCall' => InCall /\ query'.left = query.left
            BY <3>1, <3>2 DEF InCall
          <5>2. Ends
            BY DEF ClientInv
          <5>3. QED
            BY <1>1, <2>1, <4>2, <5>1, <5>2, EndsAfterRead
        <4>3. QED
          BY <4>1, <4>2
      <3>9. AtRest'
        BY <1>1, <3>1 DEF AtRest
      <3>10. Work'
        <4>1. SUFFICES ASSUME ~client.broken
              PROVE  Work'
          BY <3>1 DEF Work
        <4>2. /\ ~query.ext => Rest <= 1
              /\ query.left = <<>>
              /\ \A i \in DOMAIN query.left : query.left[i] = FromEnd(query.ext, Len(query.left) - i + 1)
              /\ \A i \in DOMAIN toServer : toServer[i].type = FromEnd(query.ext, Rest - i + 1) /\ toServer[i].id = query.id
              /\ \A i \in DOMAIN toClient :
                   /\ toClient[i].type \in Said => toClient[i].id = query.id
                   /\ toClient[i].type = "Z" => Shown(query, toClient, i)
              /\ query.out \subseteq {query.id}
              /\ server.phase # "gone" =>
                   /\ server.skip => query.ext /\ Rest >= 1
                   /\ server.skip \/ (query.ext /\ Rest <= 1) => Shown(query, toClient, Len(toClient) + 1)
          BY <1>1, <4>1, Zenon DEF ClientInv, Work, In
        <4>3. Rest' = Rest
          BY <1>1, <3>2 DEF Rest
        <4>4. \A k \in Nat : Shown(query, toClient, k + 1) => Shown(query', toClient', k)
          BY <1>1, <2>1, <2>2, <3>3, <3>4, ShownAfterRead
        <4>5. \A i \in DOMAIN toClient' :
                /\ toClient'[i].type \in Said => toClient'[i].id = query.id
                /\ toClient'[i].type = "Z" => Shown(query', toClient', i)
          <5>1. SUFFICES ASSUME NEW i \in DOMAIN toClient'
                PROVE  /\ toClient'[i].type \in Said => toClient'[i].id = query.id
                       /\ toClient'[i].type = "Z" => Shown(query', toClient', i)
            OBVIOUS
          <5>2. toClient'[i] = toClient[i + 1] /\ i + 1 \in DOMAIN toClient /\ i \in Nat
            BY <2>2
          <5>3. QED
            BY <4>2, <4>4, <5>2
        <4>6. Shown(query, toClient, Len(toClient) + 1) => Shown(query', toClient', Len(toClient') + 1)
          <5>1. Len(toClient') + 1 = Len(toClient) /\ Len(toClient) \in Nat
            BY <2>2
          <5>2. QED
            BY <4>4, <5>1
        <4>7. query'.out \subseteq {query.id}
          <5>1. 1 \in DOMAIN toClient
            BY <2>2
          <5>2. m.type \in Said => m.id = query.id
            BY <2>2, <4>2, <5>1
          <5>3. QED
            BY <3>4, <4>2, <5>2
        <4>8. QED
          BY <1>1, <3>1, <3>2, <4>2, <4>3, <4>5, <4>6, <4>7, Zenon DEF Work
      <3>11. QED
        BY <3>5, <3>6, <3>7, <3>8, <3>9, <3>10 DEF ClientInv
    <2>6. CASE ~Stop(TRUE) /\ m.type = "Z"
      <3>1. client' = [client EXCEPT !.at = "leaving", !.tx = m.tx] /\ query' = query
        <4>1. m.type \notin Ignored(query.ext)
          BY <2>6 DEF Ignored
        <4>2. QED
          BY <2>3, <2>6, <4>1
      <3>2. client' \in Clients /\ client'.at = "leaving" /\ client'.broken = client.broken /\ client'.tx = m.tx
        <4>1. m.tx \in Statuses \cup {"?"}
          BY <2>2 DEF Messages
        <4>2. QED
          BY <1>1, <3>1, <4>1 DEF Clients
      <3>3. ClientTypes'
        BY <1>1, <2>2, <3>1, <3>2 DEF ClientTypes
      <3>4. Callers'
        BY <1>1, <3>1, <3>2 DEF ClientInv, Callers, In, InCall, Dialling
      <3>5. Handshake'
        BY <1>1, <3>2 DEF ClientInv, Handshake, In, Dialling
      <3>6. Ends'
        <4>1. CASE client.broken
          BY <3>2, <4>1 DEF Ends
        <4>2. CASE ~client.broken
          <5>1. InCall' => InCall /\ query'.left = query.left
            BY <1>1, <3>1 DEF InCall
          <5>2. Ends
            BY DEF ClientInv
          <5>3. QED
            BY <1>1, <2>1, <4>2, <5>1, <5>2, EndsAfterRead
        <4>3. QED
          BY <4>1, <4>2
      <3>7. AtRest'
        <4>1. SUFFICES ASSUME ~client.broken
              PROVE  /\ toServer = <<>> /\ \A i \in DOMAIN toClient' : Loose(toClient'[i])
                     /\ server.phase = "gone" \/ (~server.skip /\ server.tx = m.tx)
                     /\ query.err \/ query.out = {query.id}
          BY <1>1, <3>1, <3>2 DEF AtRest
        <4>2. 1 \in DOMAIN toClient /\ toClient[1].type = "Z" /\ m.tx = toClient[1].tx
          BY <2>2, <2>6
        <4>3. /\ toServer = <<>> /\ (server.phase = "gone" \/ (~server.skip /\ server.tx = toClient[1].tx))
              /\ \A j \in DOMAIN toClient : 1 < j => Loose(toClient[j])
          BY <4>1, <4>2 DEF ClientInv, Ends
        <4>4. \A i \in DOMAIN toClient' : Loose(toClient'[i])
          BY <2>2, <4>3
        <4>5. Shown(query, toClient, 1) /\ query.out \subseteq {query.id}
          BY <1>1, <4>1, <4>2 DEF ClientInv, Work
        <4>6. query.err \/ query.out # {}
          BY <2>2, <4>5 DEF Shown
        <4>7. QED
          BY <4>2, <4>3, <4>4, <4>5, <4>6
      <3>8. Work'
        BY <3>2 DEF Work
      <3>9. QED
        BY <3>3, <3>4, <3>5, <3>6, <3>7, <3>8 DEF ClientInv
    <2>7. QED
      BY <2>4, <2>5, <2>6
  <1>4. QED
    BY <1>2, <1>3 DEF Receive

(* A context that ends, its AfterFunc and a deadline that passes touch nothing
   but the hook and the deadline of the call. *)
LEMMA HookKeeps ==
  ASSUME ClientInv,
         \/ client' = client
         \/ client' = [client EXCEPT !.deadline = "past"] /\ client.at \notin {"held", "idle"},
         \/ query' = query
         \/ InCall /\ \E hook \in {"running", "ran"} : query' = [query EXCEPT !.hook = hook],
         UNCHANGED <<kind, server, toServer, toClient, calls>>
  PROVE  ClientInv'
  <1>1. ClientTypes /\ client \in Clients /\ query \in Calls
    BY DEF ClientInv, ClientTypes
  <1>2. /\ client' \in Clients /\ client'.at = client.at /\ client'.tx = client.tx
        /\ client'.deadline = client.deadline \/ client.at \notin {"held", "idle"}
    BY <1>1 DEF Clients
  <1>3. client'.broken = client.broken
    BY <1>1 DEF Clients
  <1>4. /\ query' \in Calls /\ query'.id = query.id /\ query'.left = query.left /\ query'.out = query.out
        /\ query'.hook = query.hook \/ InCall
    BY <1>1 DEF Calls
  <1>5. query'.ext = query.ext /\ query'.sound = query.sound /\ query'.reset = query.reset /\ query'.err = query.err
    BY <1>1 DEF Calls
  <1>6. ClientTypes'
    BY <1>1, <1>2, <1>4 DEF ClientTypes
  <1>7. Callers'
    BY <1>2, <1>3, <1>4, <1>5 DEF ClientInv, Callers, In, InCall, Dialling
  <1>8. Handshake'
    BY <1>2 DEF ClientInv, Handshake, In, Dialling, OneMessage
  <1>9. Ends' /\ AtRest'
    BY <1>2, <1>3, <1>4, <1>5 DEF ClientInv, Ends, AtRest, In, InCall
  <1>10. Work'
    <2>1. \A k : Shown(query', toClient', k) <=> Shown(query, toClient, k)
      BY <1>4, <1>5 DEF Shown
    <2>2. Rest' = Rest
      BY <1>4 DEF Rest
    <2>3. Work /\ toServer' = toServer /\ toClient' = toClient /\ server' = server
      BY DEF ClientInv
    <2>4. SUFFICES ASSUME client.at \in {"writing", "reading"}, ~client.broken
          PROVE  Work'
      BY <1>2, <1>3 DEF Work
    <2>5. /\ ~query.ext => Rest <= 1
          /\ In("reading") => query.left = <<>>
          /\ \A i \in DOMAIN query.left : query.left[i] = FromEnd(query.ext, Len(query.left) - i + 1)
          /\ \A i \in DOMAIN toServer : toServer[i].type = FromEnd(query.ext, Rest - i + 1) /\ toServer[i].id = query.id
          /\ \A i \in DOMAIN toClient :
               /\ toClient[i].type \in Said => toClient[i].id = query.id
               /\ toClient[i].type = "Z" => Shown(query, toClient, i)
          /\ query.out \subseteq {query.id}
          /\ server.phase # "gone" =>
               /\ server.skip => query.ext /\ Rest >= 1
               /\ server.skip \/ (query.ext /\ Rest <= 1) => Shown(query, toClient, Len(toClient) + 1)
      BY <2>3, <2>4, Zenon DEF Work
    <2>6. /\ ~query'.ext => Rest' <= 1
          /\ In("reading")' => query'.left = <<>>
          /\ query'.out \subseteq {query'.id}
      BY <1>2, <1>4, <1>5, <2>2, <2>5 DEF In
    <2>7. \A i \in DOMAIN query'.left : query'.left[i] = FromEnd(query'.ext, Len(query'.left) - i + 1)
      BY <1>4, <1>5, <2>5, Zenon
    <2>8. \A i \in DOMAIN toServer' : toServer'[i].type = FromEnd(query'.ext, Rest' - i + 1) /\ toServer'[i].id = query'.id
      BY <1>4, <1>5, <2>2, <2>3, <2>5, Zenon
    <2>9. \A i \in DOMAIN toClient' :
               /\ toClient'[i].type \in Said => toClient'[i].id = query'.id
               /\ toClient'[i].type = "Z" => Shown(query', toClient', i)
      BY <1>4, <2>1, <2>3, <2>5
    <2>10. server'.phase # "gone" =>
               /\ server'.skip => query'.ext /\ Rest' >= 1
               /\ server'.skip \/ (query'.ext /\ Rest' <= 1) => Shown(query', toClient', Len(toClient') + 1)
      BY <1>5, <2>1, <2>2, <2>3, <2>5
    <2>11. QED
      BY <2>6, <2>7, <2>8, <2>9, <2>10, Zenon DEF Work
  <1>11. QED
    BY <1>6, <1>7, <1>8, <1>9, <1>10 DEF ClientInv

(* The end of a call: it leaves the connection to its holder, or Reset puts it
   into the pool or closes it. *)
LEMMA ReturnKeeps ==
  ASSUME ClientInv, Return
  PROVE  ClientInv'
  <1>1. /\ client.at = "leaving" /\ query' = [query EXCEPT !.hook = "none"] /\ kind' = kind /\ calls' = calls
        /\ ClientTypes /\ client \in Clients /\ query \in Calls
    BY DEF Return, In, ClientInv, ClientTypes
  <1>2. /\ query' \in Calls /\ query'.hook = "none"
    BY <1>1 DEF Calls
  <1>3. CASE Disconnect
    BY <1>1, <1>2, <1>3, DisconnectKeeps DEF ClientTypes
  <1>4. CASE ~Disconnect
    <2>1. PICK place \in {"held", "idle"} :
            /\ client' = [client EXCEPT !.at = place, !.deadline = "none"]
            /\ server' = server /\ toServer' = toServer /\ toClient' = toClient
            /\ place = "idle" => query.reset /\ ~query.err /\ client.tx = "I"
      BY <1>4 DEF Return, To
    <2>2. client' \in Clients /\ client'.at = place /\ client'.deadline = "none" /\ client'.tx = client.tx
      BY <1>1, <2>1 DEF Clients
    <2>3. client'.broken = client.broken
      BY <1>1, <2>1 DEF Clients
    <2>4. place = "idle" => ~client.broken
      BY <1>1, <2>1 DEF ClientInv, Callers, InCall
    <2>5. ClientTypes'
      BY <1>1, <1>2, <2>1, <2>2 DEF ClientTypes
    <2>6. Callers'
      BY <1>2, <2>1, <2>2, <2>3, <2>4 DEF Callers, In, InCall, Dialling
    <2>7. Handshake'
      BY <1>1, <2>1, <2>2 DEF ClientInv, Handshake, In, Dialling
    <2>8. Ends'
      BY <2>1, <2>2, <2>3 DEF ClientInv, Ends, InCall
    <2>9. AtRest'
      BY <1>1, <2>1, <2>2, <2>3 DEF ClientInv, AtRest, In
    <2>10. Work'
      BY <2>2 DEF Work
    <2>11. QED
      BY <2>5, <2>6, <2>7, <2>8, <2>9, <2>10 DEF ClientInv
  <1>5. QED
    BY <1>3, <1>4

LEMMA ClientStarts == ClientInit => ClientInv
  <1> SUFFICES ASSUME ClientInit
               PROVE  ClientInv
    OBVIOUS
  <1>1. /\ server = NewServer /\ toServer = <<>> /\ toClient = <<>> /\ client = NewClient("none") /\ query = NoQuery
        /\ calls = 0 /\ kind.auth \in {"trust", "md5", "scram"}
    BY PgClientAssumption DEF ClientInit
  <1>2. ClientTypes
    BY <1>1, StartsTyped DEF ClientTypes
  <1>3. client.at = "none" /\ ~client.broken /\ query.hook = "none"
    BY <1>1 DEF NewClient, NoQuery
  <1>4. Callers
    BY <1>3 DEF Callers, In, InCall, Dialling
  <1>5. Handshake
    BY <1>1, <1>3 DEF Handshake, In, Dialling
  <1>6. Ends /\ AtRest /\ Work
    BY <1>1, <1>3, PairFacts DEF Ends, AtRest, Work
  <1>7. QED
    BY <1>2, <1>4, <1>5, <1>6 DEF ClientInv

LEMMA ClientKept == ClientInv /\ [ClientStep]_clientVars => ClientInv'
  <1> SUFFICES ASSUME ClientInv, [ClientStep]_clientVars
               PROVE  ClientInv'
    OBVIOUS
  <1>1. CASE ServerStep \/ End \/ Speak
    BY <1>1, ServerStepKeeps, EndKeeps, SpeakKeeps
  <1>2. CASE Connect \/ NegotiateTLS \/ Startup
    BY <1>2, ConnectKeeps, NegotiateKeeps, StartupKeeps
  <1>3. CASE Statement \/ Write \/ Receive
    BY <1>3, StatementKeeps, WriteKeeps, ReceiveKeeps
  <1>4. CASE Return \/ Give \/ Acquire
    BY <1>4, ReturnKeeps, GiveKeeps, AcquireKeeps
  <1>5. CASE Cancel
    <2>1. InCall
      BY <1>5 DEF Cancel, ClientInv, Callers
    <2>2. QED
      BY <1>5, <2>1, HookKeeps DEF Cancel
  <1>6. CASE AfterFunc
    <2>1. InCall
      BY <1>6 DEF AfterFunc, ClientInv, Callers
    <2>2. client.at \notin {"held", "idle"}
      BY <2>1 DEF InCall
    <2>3. QED
      BY <1>6, <2>1, <2>2, HookKeeps DEF AfterFunc
  <1>7. CASE Expire
    <2>1. client.at \notin {"held", "idle"}
      BY <1>7 DEF Expire, ClientInv, Callers
    <2>2. QED
      BY <1>7, <2>1, HookKeeps DEF Expire
  <1>8. CASE UNCHANGED clientVars
    BY <1>8, HookKeeps DEF clientVars
  <1>9. QED
    BY <1>1, <1>2, <1>3, <1>4, <1>5, <1>6, <1>7, <1>8 DEF ClientStep

(* Whoever holds a connection that is not broken, or finds it in the pool, is
   in step with the server, and a call on it that ends without an error has the
   whole of its own answer; for any callers, deadlines and cancellations, and a
   session that ends or speaks whenever it likes. *)
THEOREM ConnectionsStayInStep == StorageSpec => []InStep
  <1>1. StorageInit => ClientInv
    BY ClientStarts DEF StorageInit
  <1>2. ClientInv /\ [StorageNext]_storageVars => ClientInv'
    <2>1. [StorageNext]_storageVars => [ClientStep]_clientVars
      BY DEF StorageNext, storageVars, clientVars
    <2>2. QED
      BY <2>1, ClientKept
  <1>3. ClientInv => InStep
    <2> SUFFICES ASSUME ClientInv
                 PROVE  InStep
      OBVIOUS
    <2>1. In("idle") => ~client.broken /\ client.tx = "I"
      BY DEF ClientInv, Callers
    <2>2. client.at \in {"held", "idle"} => client.deadline = "none" /\ query.hook # "running"
      BY DEF ClientInv, Callers, InCall
    <2>3. (client.at \in {"held", "idle"} /\ ~client.broken) => Quiet /\ (server.phase = "gone" \/ client.tx = server.tx)
      BY DEF ClientInv, AtRest, Quiet, Loose
    <2>4. (In("leaving") /\ query.sound /\ ~query.err) => query.out = {query.id}
      BY DEF ClientInv, Callers, AtRest, In, InCall
    <2>5. QED
      BY <2>1, <2>2, <2>3, <2>4 DEF InStep
  <1>4. QED
    BY <1>1, <1>2, <1>3, PTL DEF StorageSpec
=============================================================================
