---------------------------- MODULE JournalFile ----------------------------
(***************************************************************************)
(* One run's journal.log and the handle the engine keeps open on it        *)
(* (journal.go): appends by several goroutines, opening and repairing the  *)
(* file, closing it under them, compaction, I/O errors and power loss.     *)
(*                                                                         *)
(* The file is a sequence of frames. Frames have one size, so the byte     *)
(* offset of a frame's end is the number of frames up to it, and a         *)
(* handle's size is its count; a torn frame is the part of one that a      *)
(* failed write or a crash left. Every append (op) writes a record that    *)
(* compaction keeps.                                                       *)
(***************************************************************************)
EXTENDS Naturals, Sequences, SequencesExt

CONSTANTS Appenders,   \* goroutines that append: RunStep, CompleteStep, CancelRun
          Evictor,     \* the opening of another run's journal: calls closeJournal
          Compactor,   \* the executor of the run
          Handles,     \* names of journalFile objects
          Files,       \* inodes
          None,
          MAC,         \* WithJournalMACKey: a frame is bound to its index
          MaxOps,      \* appends in a behaviour
          MaxFaults,   \* failed I/O calls
          MaxCrashes   \* power losses

Closers == {Evictor, Compactor}
Procs == Appenders \cup Closers

ASSUME DistinctProcs == Evictor # Compactor /\ Closers \cap Appenders = {}
ASSUME NoneIsNoName == None \notin Procs \cup Handles \cup Files
ASSUME BoundsAreNats == MaxOps \in Nat /\ MaxFaults \in Nat /\ MaxCrashes \in Nat

VARIABLES
  path,      \* the inode journal.log names, or None
  dpath,     \* the same as it is on disk: what a crash may go back to
  content,   \* each inode's frames
  disk,      \* each inode's frames that have reached the disk
  openFiles, \* the handle the engine has for the run, or None
  handle,    \* the handles: inode, count, open, holder of mu
  proc,      \* each process: where it is, its handle, what it read
  ops, faults, crashes,
  acked,     \* history: appends that returned without an error
  overlapped,\* history: the file was opened or compacted beside an append
  unnamed,   \* history: the file was in use with its directory entry not on disk
  unread     \* history: records that a scan left out because a read failed

files == <<path, dpath, content, disk>>
bounds == <<ops, faults, crashes>>
vars == <<files, openFiles, handle, proc, bounds, acked, overlapped, unnamed, unread>>

\* Zeros read as a frame of no payload, whose CRC is 0: intact, without a record.
Zeros == [op |-> 0, idx |-> 0]
Torn == [op |-> 0, idx |-> MaxOps + 1]
Frame == [op : 1..MaxOps, idx : 1..MaxOps] \cup {Zeros, Torn}

OpenPc == {"tail", "stat", "truncate", "open", "store", "dirsync"}
AppendPc == OpenPc \cup {"idle", "lookup", "lock", "write", "sync", "rollback", "drop"}
CompactPc == {"idle", "take", "close", "rename", "dirsync", "done"}

TypeOK ==
  /\ path \in Files \cup {None} /\ dpath \in Files \cup {None}
  /\ \A f \in Files : Range(content[f]) \cup Range(disk[f]) \subseteq Frame
  /\ openFiles \in Handles \cup {None}
  /\ handle \in [Handles -> [file : Files \cup {None}, count : 0..MaxOps,
                             open : BOOLEAN, mu : Appenders \cup {None}]]
  /\ \A p \in Procs :
       /\ proc[p].pc \in (IF p \in Appenders THEN AppendPc ELSE CompactPc)
       /\ proc[p].h \in Handles \cup {None}
  /\ ops \in 0..MaxOps /\ faults \in 0..MaxFaults /\ crashes \in 0..MaxCrashes
  /\ acked \subseteq 1..ops
  /\ overlapped \in BOOLEAN /\ unnamed \in BOOLEAN /\ unread \subseteq 1..ops

Idle == [pc |-> "idle", h |-> None, op |-> 0, count |-> 0, created |-> FALSE, buf |-> <<>>]
Closed == [file |-> None, count |-> 0, open |-> FALSE, mu |-> None]

Init ==
  /\ path = None /\ dpath = None
  /\ content = [f \in Files |-> <<>>] /\ disk = content
  /\ openFiles = None
  /\ handle = [h \in Handles |-> Closed]
  /\ proc = [p \in Procs |-> Idle]
  /\ ops = 0 /\ faults = 0 /\ crashes = 0
  /\ acked = {} /\ overlapped = FALSE /\ unnamed = FALSE /\ unread = {}

At(p, pc) == proc[p].pc = pc
Go(p, pc) == proc' = [proc EXCEPT ![p].pc = pc]
Return(p) == proc' = [proc EXCEPT ![p] = Idle]
Mine(p) == handle[proc[p].h]

NoFault == UNCHANGED bounds
Fault == faults < MaxFaults /\ faults' = faults + 1 /\ UNCHANGED <<ops, crashes>>

-----------------------------------------------------------------------------
\* The file

\* Truncate: a file that is shorter is filled with zeros.
Cut(s, n) == [k \in 1..n |-> IF k \in DOMAIN s THEN s[k] ELSE Zeros]
FirstTorn(s) == SelectInSeq(s, LAMBDA fr : fr = Torn)
Intact(s) == IF FirstTorn(s) = 0 THEN s ELSE Cut(s, FirstTorn(s) - 1)

\* scanJournal: what it may report of a file, the intact frames or an error. A torn
\* frame with bytes after it is an error when its length prefix ends before them;
\* with a MAC, so is a frame out of its place.
Misplaced(s) == \E k \in DOMAIN s : s[k].idx # k
Scans(s) ==
  IF MAC /\ Misplaced(Intact(s)) THEN {None}
  ELSE {Intact(s)} \cup IF FirstTorn(s) \in 1..(Len(s) - 1) THEN {None} ELSE {}

\* What it reports, without an error, when a read of the payload or the trailer of a
\* frame fails: readFrame takes that for the end of the file, wherever the frame is.
Misreads(s) ==
  {Cut(s, n) : n \in {m \in 0..(Len(Intact(s)) - 1) : MAC => ~Misplaced(Cut(s, m))}}

Journal == IF path = None THEN <<>> ELSE content[path]

\* What power loss may leave of an inode: what was on disk, what was written, or a
\* part of that in between, the last frame torn.
CrashOutcomes(f) ==
  {content[f], disk[f]} \cup
  (IF IsStrictPrefix(disk[f], content[f])
   THEN {Cut(content[f], n) : n \in Len(disk[f])..Len(content[f])} \cup
        {Append(Cut(content[f], n), Torn) : n \in Len(disk[f])..(Len(content[f]) - 1)}
   ELSE {})

\* A name nothing refers to: the next create makes a new object of that name. Bound:
\* a step that creates waits until there is one.
FreeHandle(h) == h # openFiles /\ \A p \in Procs : proc[p].h # h
FreeFile(f) == f \notin {path, dpath} /\ \A h \in Handles : handle[h].open => handle[h].file # f

-----------------------------------------------------------------------------
\* appendFrame and getOrOpenJournal

\* Nothing is appended once the run is final and its journal is compacted.
Begin(a) ==
  /\ At(a, "idle") /\ ops < MaxOps /\ At(Compactor, "idle")
  /\ ops' = ops + 1
  /\ proc' = [proc EXCEPT ![a].pc = "lookup", ![a].op = ops']
  /\ UNCHANGED <<files, openFiles, handle, faults, crashes, acked>>

Lookup(a) ==
  /\ At(a, "lookup")
  /\ \/ openFiles # None /\ proc' = [proc EXCEPT ![a].pc = "lock", ![a].h = openFiles]
     \/ openFiles = None /\ Go(a, "tail")
  /\ UNCHANGED <<files, openFiles, handle, bounds, acked>>

\* An error while opening that changes nothing, such as a failed read of a frame's
\* length prefix: the append returns it.
OpenFails(a) ==
  /\ proc[a].pc \in {"tail", "stat", "open"}
  /\ Fault
  /\ Return(a)
  /\ UNCHANGED <<files, openFiles, handle, acked>>

\* Counts the intact frames, or those in front of one that cannot be read.
JournalTail(a) ==
  /\ At(a, "tail")
  /\ \E scan \in Scans(Journal) \cup Misreads(Journal) :
       /\ IF scan \in Scans(Journal) THEN NoFault ELSE Fault
       /\ \/ scan = None /\ Return(a)
          \/ scan # None /\ proc' = [proc EXCEPT ![a].pc = "stat", ![a].count = Len(scan)]
  /\ UNCHANGED <<files, openFiles, handle, acked>>

Stat(a) ==
  /\ At(a, "stat")
  /\ proc' = [proc EXCEPT ![a].created = path = None,
                          ![a].pc = IF path = None THEN "open" ELSE "truncate"]
  /\ UNCHANGED <<files, openFiles, handle, bounds, acked>>

\* As it would be without the repair of a torn tail.
SkipTruncate(a) ==
  /\ At(a, "truncate")
  /\ Go(a, "open")
  /\ UNCHANGED <<files, openFiles, handle, bounds, acked>>

\* truncateJournalTo: back to what journalTail has counted, by name. An error may come
\* after the truncation, and after its fsync.
TruncateJournalTo(a) ==
  /\ At(a, "truncate")
  /\ LET longer  == Len(Journal) > proc[a].count
         counted == IF longer THEN [content EXCEPT ![path] = Cut(@, proc[a].count)] ELSE content
         synced  == IF longer THEN [disk EXCEPT ![path] = counted[path]] ELSE disk
     IN \/ NoFault /\ content' = counted /\ disk' = synced /\ Go(a, "open")
        \/ /\ Fault
           /\ \/ content' = content /\ disk' = disk
              \/ content' = counted /\ disk' \in {disk, synced}
           /\ Return(a)
  /\ UNCHANGED <<path, dpath, openFiles, handle, acked>>

Open(a) ==
  /\ At(a, "open")
  /\ \E h \in Handles : FreeHandle(h)
  /\ path # None \/ \E f \in Files : FreeFile(f)
  /\ LET h == CHOOSE h \in Handles : FreeHandle(h)
         f == IF path # None THEN path ELSE CHOOSE f \in Files : FreeFile(f)
     IN /\ path' = f
        /\ content' = IF path = None THEN [content EXCEPT ![f] = <<>>] ELSE content
        /\ disk' = IF path = None THEN [disk EXCEPT ![f] = <<>>] ELSE disk
        /\ handle' = [handle EXCEPT ![h] = [Closed EXCEPT !.file = f, !.open = TRUE,
                                                          !.count = proc[a].count]]
        /\ proc' = [proc EXCEPT ![a].pc = "store", ![a].h = h]
  /\ UNCHANGED <<dpath, openFiles, bounds, acked>>

\* openFiles.LoadOrStore: the loser closes its own handle and takes the winner's.
LoadOrStore(a) ==
  /\ At(a, "store")
  /\ IF openFiles = None
     THEN /\ openFiles' = proc[a].h
          /\ Go(a, IF proc[a].created THEN "dirsync" ELSE "lock")
          /\ UNCHANGED handle
     ELSE /\ handle' = [handle EXCEPT ![proc[a].h].open = FALSE]
          /\ proc' = [proc EXCEPT ![a].pc = "lock", ![a].h = openFiles]
          /\ UNCHANGED openFiles
  /\ UNCHANGED <<files, bounds, acked>>

\* A failure takes the entry out again, whichever handle it is by now.
DirSync(a) ==
  /\ At(a, "dirsync")
  /\ \/ dpath' = path /\ Go(a, "lock") /\ NoFault /\ UNCHANGED <<openFiles, handle>>
     \/ /\ Fault
        /\ openFiles' = None
        /\ handle' = [handle EXCEPT ![proc[a].h].open = FALSE]
        /\ Return(a)
        /\ UNCHANGED dpath
  /\ UNCHANGED <<path, content, disk, acked>>

Lock(a) ==
  /\ At(a, "lock") /\ Mine(a).mu = None
  /\ handle' = [handle EXCEPT ![proc[a].h].mu = a]
  /\ Go(a, "write")
  /\ UNCHANGED <<files, openFiles, bounds, acked>>

NewFrame(a) == [op |-> proc[a].op, idx |-> Mine(a).count + 1]

\* Writes a whole frame, a part of one or nothing; a closed file takes nothing.
Write(a) ==
  /\ At(a, "write")
  /\ \/ /\ Mine(a).open /\ NoFault
        /\ content' = [content EXCEPT ![Mine(a).file] = Append(@, NewFrame(a))]
        /\ Go(a, "sync")
     \/ /\ Mine(a).open /\ Fault
        /\ content' \in {content, [content EXCEPT ![Mine(a).file] = Append(@, Torn)]}
        /\ Go(a, "rollback")
     \/ /\ ~Mine(a).open /\ NoFault
        /\ Go(a, "rollback")
        /\ UNCHANGED content
  /\ UNCHANGED <<path, dpath, disk, openFiles, handle, acked>>

\* The append returns; its frame and every frame before it are on disk.
Sync(a) ==
  /\ At(a, "sync")
  /\ \/ /\ Mine(a).open /\ NoFault
        /\ disk' = [disk EXCEPT ![Mine(a).file] = content[Mine(a).file]]
        /\ handle' = [handle EXCEPT ![proc[a].h].count = @ + 1, ![proc[a].h].mu = None]
        /\ acked' = acked \cup {proc[a].op}
        /\ Return(a)
     \/ /\ IF Mine(a).open THEN Fault ELSE NoFault
        /\ Go(a, "rollback")
        /\ UNCHANGED <<disk, handle, acked>>
  /\ UNCHANGED <<path, dpath, content, openFiles>>

-----------------------------------------------------------------------------
\* discardTornFrame

\* As it would be without the rollback, or with the entry left in openFiles.
KeepTornFrame(a) ==
  /\ At(a, "rollback") /\ NoFault
  /\ handle' = [handle EXCEPT ![proc[a].h].mu = None]
  /\ Return(a)
  /\ UNCHANGED <<files, openFiles, acked>>
CloseOnly(a) ==
  /\ At(a, "rollback") /\ NoFault
  /\ handle' = [handle EXCEPT ![proc[a].h].open = FALSE, ![proc[a].h].mu = None]
  /\ Return(a)
  /\ UNCHANGED <<files, openFiles, acked>>

\* Truncate to the handle's size and Sync, whose error is ignored, then Close.
Rollback(a) ==
  /\ At(a, "rollback")
  /\ \/ /\ Mine(a).open /\ NoFault
        /\ LET rolled == [content EXCEPT ![Mine(a).file] = Cut(@, Mine(a).count)] IN
           /\ content' = rolled
           /\ disk' \in {disk, [disk EXCEPT ![Mine(a).file] = rolled[Mine(a).file]]}
     \/ /\ IF Mine(a).open THEN Fault ELSE NoFault
        /\ UNCHANGED <<content, disk>>
  /\ handle' = [handle EXCEPT ![proc[a].h].open = FALSE]
  /\ Go(a, "drop")
  /\ UNCHANGED <<path, dpath, openFiles, acked>>

\* openFiles.LoadAndDelete, by key.
Drop(a) ==
  /\ At(a, "drop")
  /\ openFiles' = None
  /\ handle' = [handle EXCEPT ![proc[a].h].mu = None]
  /\ Return(a)
  /\ UNCHANGED <<files, bounds, acked>>

-----------------------------------------------------------------------------
\* closeJournal and compactJournal

AfterTake(c) == IF c = Compactor THEN "rename" ELSE "idle"

Evict ==
  /\ At(Evictor, "idle") /\ openFiles # None
  /\ Go(Evictor, "take")
  /\ UNCHANGED <<files, openFiles, handle, bounds, acked>>

TakeHandle(c) ==
  /\ At(c, "take")
  /\ IF openFiles = None
     THEN Go(c, AfterTake(c)) /\ UNCHANGED openFiles
     ELSE /\ proc' = [proc EXCEPT ![c].pc = "close", ![c].h = openFiles]
          /\ openFiles' = None
  /\ UNCHANGED <<files, handle, bounds, acked>>

CloseHandle(c) ==
  /\ At(c, "close") /\ Mine(c).mu = None
  /\ handle' = [handle EXCEPT ![proc[c].h].open = FALSE]
  /\ proc' = [proc EXCEPT ![c].pc = AfterTake(c), ![c].h = None]
  /\ UNCHANGED <<files, openFiles, bounds, acked>>

\* The run is final. Its records are read, to be written again in any order: all, or
\* those in front of one that cannot be read; after an error the file stays as it is.
CompactRead ==
  /\ At(Compactor, "idle") /\ path # None
  /\ \E scan \in Scans(Journal) \cup Misreads(Journal) \cup {None} :
       /\ IF scan \in Scans(Journal) THEN NoFault ELSE Fault
       /\ \/ scan = None /\ Go(Compactor, "done")
          \/ /\ scan # None
             /\ \E order \in SetToSeqs(DOMAIN scan) :
                  proc' = [proc EXCEPT ![Compactor].pc = "take",
                             ![Compactor].buf = [k \in DOMAIN scan |->
                                                   [op |-> scan[order[k]].op, idx |-> k]]]
  /\ UNCHANGED <<files, openFiles, handle, acked>>

\* As it would be if the new file were renamed without its fsync.
RenameUnsynced ==
  /\ At(Compactor, "rename") /\ NoFault
  /\ \E f \in Files : FreeFile(f)
  /\ path' = CHOOSE f \in Files : FreeFile(f)
  /\ content' = [content EXCEPT ![path'] = proc[Compactor].buf]
  /\ disk' = [disk EXCEPT ![path'] = <<>>]
  /\ Go(Compactor, "dirsync")
  /\ UNCHANGED <<dpath, openFiles, handle, acked>>

\* writeFileAtomic: the new file is on disk before its name changes; an error
\* leaves the old one.
Rename ==
  /\ At(Compactor, "rename")
  /\ \/ /\ NoFault
        /\ \E f \in Files : FreeFile(f)
        /\ path' = CHOOSE f \in Files : FreeFile(f)
        /\ content' = [content EXCEPT ![path'] = proc[Compactor].buf]
        /\ disk' = [disk EXCEPT ![path'] = proc[Compactor].buf]
        /\ Go(Compactor, "dirsync")
     \/ /\ Fault
        /\ Go(Compactor, "done")
        /\ UNCHANGED <<path, content, disk>>
  /\ UNCHANGED <<dpath, openFiles, handle, acked>>

SyncDir ==
  /\ At(Compactor, "dirsync")
  /\ \/ dpath' = path /\ NoFault
     \/ UNCHANGED dpath /\ Fault
  /\ Go(Compactor, "done")
  /\ UNCHANGED <<path, content, disk, openFiles, handle, acked>>

-----------------------------------------------------------------------------
\* The process dies. Power loss may also take the directory entry and the unsynced
\* part of each file.
PowerLoss ==
  /\ path' \in {path, dpath} /\ dpath' = path'
  /\ content' \in {c \in [Files -> UNION {CrashOutcomes(f) : f \in Files}] :
                     \A f \in Files : c[f] \in CrashOutcomes(f)}
  /\ disk' = content'

\* A run whose compaction had begun is final on disk and is not compacted again.
Crash ==
  /\ crashes < MaxCrashes /\ crashes' = crashes + 1
  /\ PowerLoss \/ UNCHANGED files
  /\ openFiles' = None
  /\ handle' = [h \in Handles |-> Closed]
  /\ proc' = [p \in Procs |-> IF p = Compactor /\ ~At(p, "idle")
                              THEN [Idle EXCEPT !.pc = "done"] ELSE Idle]
  /\ UNCHANGED <<ops, faults, acked>>

AppendStep(a) ==
  \/ Begin(a) \/ Lookup(a) \/ OpenFails(a) \/ JournalTail(a) \/ Stat(a) \/ TruncateJournalTo(a)
  \/ Open(a) \/ LoadOrStore(a) \/ DirSync(a) \/ Lock(a) \/ Write(a) \/ Sync(a)
  \/ Rollback(a) \/ Drop(a)

Busy(a) == ~At(a, "idle")
Opening(a) == proc[a].pc \in OpenPc
Compacting == proc[Compactor].pc \notin {"idle", "done"}

Overlap == \/ \E a \in Appenders : Opening(a) /\ \E b \in Appenders \ {a} : Busy(b)
           \/ Compacting /\ \E a \in Appenders : Busy(a)

Unnamed == path # None /\ dpath = None /\ \A a \in Appenders : ~Opening(a)

Records(s) == {op \in 1..MaxOps : \E k \in DOMAIN s : s[k].op = op}
Readable == Records(Intact(Journal))

\* The records that this step leaves out, if it is a scan one of whose reads fails.
LeftOut ==
  {op \in Readable :
     /\ faults' # faults
     /\ \/ /\ At(Compactor, "idle") /\ proc'[Compactor].pc = "take"
           /\ op \notin Records(proc'[Compactor].buf)
        \/ \E a \in Appenders : /\ At(a, "tail") /\ proc'[a].pc = "stat"
                                /\ op \notin Records(Cut(Journal, proc'[a].count))}

Next ==
  /\ \/ \E a \in Appenders : AppendStep(a)
     \/ \E c \in Closers : TakeHandle(c) \/ CloseHandle(c)
     \/ Evict \/ CompactRead \/ Rename \/ SyncDir
     \/ Crash
  /\ overlapped' = (overlapped \/ Overlap')
  /\ unnamed' = (unnamed \/ Unnamed')
  /\ unread' = unread \cup LeftOut

Spec == Init /\ [][Next]_vars

-----------------------------------------------------------------------------
\* Properties

\* step.go:136 and README.md:204 ("Concurrent RunStep calls are safe"), README.md:165
\* ("written to the journal before this call returns"): an append that has returned
\* without an error is found by every later replay, whatever is done to the file.
AckedReadable == acked \subseteq Readable

\* journal.go:270 ("a preceding create or rename is durable across power loss"), for a
\* journal that is opened and compacted alone, and whose scans left nothing out.
AckedSurvivesAlone == ~overlapped => acked \subseteq Readable \cup unread

\* The same for a journal whose creation was not interrupted either: whatever write,
\* sync or rollback fails, whenever the handle is closed under an append, and wherever
\* a crash falls, also into compaction, no acknowledged record is lost, except that a
\* scan that could not read one takes it for the end of the file, and loses it and the
\* records behind it (journal.go:962, where 536-541 says "deliberately limited to the
\* tail"). Those in front of it stay, as do the ones appended later.
AckedReadableAlone == ~overlapped /\ ~unnamed => acked \subseteq Readable \cup unread

\* A torn frame is only ever the last: no append lands behind bytes that replay
\* cannot read past. And frame k is written as frame k, for the MAC binds the two.
WellFormed ==
  ~overlapped => /\ FirstTorn(Journal) \in {0, Len(Journal)}
                 /\ ~Misplaced(Intact(Journal))

\* The handle in openFiles agrees with the file whenever nobody is appending
\* through it: the next frame's index, the rollback point and the offsets that
\* WatchSteps reports are right.
HandleAgrees ==
  ~overlapped /\ openFiles # None /\ handle[openFiles].mu = None /\ handle[openFiles].open
    => /\ handle[openFiles].file = path
       /\ handle[openFiles].count = Len(Journal)

\* A closed handle stays in openFiles only until the goroutine that closed it takes
\* it out; left there, every later append of the run would fail.
NoDeadHandle ==
  openFiles # None /\ ~handle[openFiles].open
    => \E a \in Appenders : proc[a].h = openFiles /\ At(a, "drop")
=============================================================================
