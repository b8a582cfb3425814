------------------------- MODULE JournalFile_proofs -------------------------
(***************************************************************************)
(* What is proved of JournalFile: no closed handle stays in openFiles      *)
(* (ClosedHandlesLeave), and, of a journal that is opened and compacted    *)
(* while no other goroutine is in appendFrame, that its file stays         *)
(* readable (NoFrameBehindTorn), that the handle counts its frames         *)
(* (HandleCountsFrames) and that no acknowledged record is lost but those  *)
(* that a failed read hid from a scan (AcknowledgedStays).                 *)
(*                                                                         *)
(* The inductive invariant is IInv. Its parts, in the order in which they  *)
(* lean on one another: TypeInv; HandleInv, who has which handle; AloneInv,*)
(* that everyone uses one handle, whose count is that of the file; NameInv,*)
(* what a power loss may make journal.log name; AckedInv, where the        *)
(* acknowledged records are. Each action has a lemma (...Effect) that says *)
(* what it does field by field, which the steps of every part cite.        *)
(***************************************************************************)
EXTENDS JournalFile, FiniteSetTheorems, WellFoundedInduction, TLAPS

-----------------------------------------------------------------------------
\* Files as sequences of frames

AnyFrame == [op : Nat, idx : Nat]

Whole(s) == \A k \in 1..Len(s) : s[k] # Torn

\* Every frame holds a record and is in its place; only the last one may be torn.
Good(s) ==
  \A k \in 1..Len(s) : IF s[k] = Torn THEN k = Len(s) ELSE s[k].idx = k /\ s[k].op # 0

Has(s, op) == \E k \in 1..Len(s) : s[k].op = op

LEMMA FrameTypes == /\ Zeros \in AnyFrame /\ Torn \in AnyFrame
                    /\ Zeros # Torn /\ Torn.op = 0 /\ Zeros.idx = 0
BY BoundsAreNats DEF Zeros, Torn, AnyFrame

LEMMA CutShape ==
  ASSUME NEW s \in Seq(AnyFrame), NEW n \in Nat
  PROVE  /\ Cut(s, n) \in Seq(AnyFrame) /\ Len(Cut(s, n)) = n
         /\ \A k \in 1..n : k <= Len(s) => Cut(s, n)[k] = s[k]
<1>1. DOMAIN s = 1..Len(s) /\ Len(s) \in Nat
  OBVIOUS
<1>2. Cut(s, n) = [k \in 1..n |-> IF k \in 1..Len(s) THEN s[k] ELSE Zeros]
  BY <1>1 DEF Cut
<1>3. \A k \in 1..n : Cut(s, n)[k] \in AnyFrame
  BY <1>1, <1>2, FrameTypes
<1>4. Cut(s, n) \in [1..n -> AnyFrame]
  BY <1>2, <1>3
<1>5. QED
  BY <1>1, <1>2, <1>4

Less == {mn \in Nat \X Nat : mn[1] < mn[2]}

LEMMA LessWellFounded == IsWellFoundedOn(Less, Nat)
BY NatLessThanWellFounded DEF OpToRel, Less

LEMMA ScanTypes ==
  ASSUME NEW s \in Seq(AnyFrame)
  PROVE  /\ FirstTorn(s) \in 0..Len(s) /\ Intact(s) \in Seq(AnyFrame)
         /\ \A scan \in Scans(s) \cup Misreads(s) : scan = None \/ scan \in Seq(AnyFrame)
<1> DEFINE I == {i \in 1..Len(s) : s[i] = Torn}
<1>1. FirstTorn(s) = IF I # {} THEN Min(I) ELSE 0
  BY DEF FirstTorn, SelectInSeq
<1>2. I \subseteq 1..Len(s) /\ I \subseteq Nat /\ Len(s) \in Nat
  OBVIOUS
<1> HIDE DEF I
<1>3. ASSUME I # {} PROVE FirstTorn(s) \in 0..Len(s)
  <2>1. PICK x \in I : \A y \in I : <<y, x>> \notin Less
    BY <1>2, <1>3, LessWellFounded, WFMin
  <2>2. \A y \in I : x <= y
    <3> SUFFICES ASSUME NEW y \in I, y < x PROVE FALSE
      BY <1>2
    <3>1. <<y, x>> \in Nat \X Nat /\ <<y, x>>[1] = y /\ <<y, x>>[2] = x
      BY <1>2
    <3>2. <<y, x>> \in Less
      BY <3>1 DEF Less
    <3>3. QED
      BY <2>1, <3>2
  <2>3. Min(I) \in I
    BY <2>2 DEF Min
  <2>4. FirstTorn(s) \in I
    BY <1>1, <1>3, <2>3
  <2>5. FirstTorn(s) \in 1..Len(s) /\ Len(s) \in Nat
    BY <1>2, <2>4, Zenon
  <2>6. QED
    BY <2>5
<1>4. FirstTorn(s) \in 0..Len(s)
  BY <1>1, <1>2, <1>3
<1>5. Intact(s) \in Seq(AnyFrame)
  <2>1. CASE FirstTorn(s) = 0
    BY <2>1 DEF Intact
  <2>2. CASE FirstTorn(s) # 0
    <3> DEFINE n == FirstTorn(s) - 1
    <3>1. n \in Nat
      BY <1>2, <1>4, <2>2
    <3> HIDE DEF n
    <3>2. Cut(s, n) \in Seq(AnyFrame)
      BY <3>1, CutShape
    <3>3. QED
      BY <2>2, <3>2 DEF n, Intact
  <2>3. QED
    BY <2>1, <2>2
<1>6. \A scan \in Misreads(s) : scan \in Seq(AnyFrame)
  <2> SUFFICES ASSUME NEW scan \in Misreads(s) PROVE scan \in Seq(AnyFrame)
    OBVIOUS
  <2>1. PICK n \in 0..(Len(Intact(s)) - 1) : scan = Cut(s, n)
    BY DEF Misreads
  <2>2. n \in Nat
    OBVIOUS
  <2>3. QED
    BY <2>1, <2>2, CutShape
<1>7. QED
  BY <1>4, <1>5, <1>6 DEF Scans

LEMMA GoodCut ==
  ASSUME NEW s \in Seq(AnyFrame), Good(s), NEW n \in 0..Len(s)
  PROVE  Good(Cut(s, n)) /\ (n < Len(s) \/ Whole(s) => Whole(Cut(s, n)))
<1>1. /\ Cut(s, n) \in Seq(AnyFrame) /\ Len(Cut(s, n)) = n
      /\ \A k \in 1..n : k <= Len(s) => Cut(s, n)[k] = s[k]
  BY CutShape
<1>2. QED
  BY <1>1 DEF Good, Whole

LEMMA GoodEmpty == << >> \in Seq(AnyFrame) /\ Good(<< >>) /\ Whole(<< >>)
BY DEF Good, Whole

\* A torn file reads as what is before the torn frame.
LEMMA IntactOfGood ==
  ASSUME NEW s \in Seq(AnyFrame), Good(s)
  PROVE  /\ Intact(s) \in Seq(AnyFrame) /\ Whole(Intact(s)) /\ Good(Intact(s))
         /\ FirstTorn(s) \in {0, Len(s)}
         /\ Len(Intact(s)) <= Len(s)
         /\ \A k \in 1..Len(Intact(s)) : Intact(s)[k] = s[k]
         /\ \A k \in 1..Len(s) : s[k] # Torn => k <= Len(Intact(s))
         /\ Whole(s) => Intact(s) = s
<1> DEFINE I == {i \in 1..Len(s) : s[i] = Torn}
<1>1. FirstTorn(s) = IF I # {} THEN Min(I) ELSE 0
  BY DEF FirstTorn, SelectInSeq
<1>2. CASE Whole(s)
  <2>1. FirstTorn(s) = 0
    BY <1>1, <1>2 DEF Whole
  <2>2. Intact(s) = s
    BY <2>1 DEF Intact
  <2>3. QED
    BY <1>2, <2>1, <2>2
<1>3. CASE ~Whole(s)
  <2>1. Len(s) > 0 /\ I = {Len(s)}
    BY <1>3 DEF Good, Whole
  <2>2. FirstTorn(s) = Len(s)
    <3>1. Min({Len(s)}) = Len(s)
      BY DEF Min
    <3>2. QED
      BY <1>1, <2>1, <3>1
  <2>3. Intact(s) = Cut(s, Len(s) - 1)
    BY <2>1, <2>2 DEF Intact
  <2>4. Len(s) - 1 \in 0..Len(s) /\ Len(s) - 1 \in Nat
    BY <2>1
  <2>5. /\ Good(Intact(s)) /\ Whole(Intact(s)) /\ Len(Intact(s)) = Len(s) - 1
        /\ Intact(s) \in Seq(AnyFrame)
        /\ \A k \in 1..(Len(s) - 1) : k <= Len(s) => Intact(s)[k] = s[k]
    <3> DEFINE n == Len(s) - 1
    <3>1. n \in 0..Len(s) /\ n \in Nat /\ n < Len(s)
      BY <2>4
    <3> HIDE DEF n
    <3>2. Good(Cut(s, n)) /\ Whole(Cut(s, n))
      BY <3>1, GoodCut
    <3>3. /\ Cut(s, n) \in Seq(AnyFrame) /\ Len(Cut(s, n)) = n
          /\ \A k \in 1..n : k <= Len(s) => Cut(s, n)[k] = s[k]
      BY <3>1, CutShape
    <3>4. QED
      BY <2>3, <3>2, <3>3 DEF n
  <2>6. s[Len(s)] = Torn /\ Len(s) \in Nat
    BY <2>1
  <2> DEFINE u == Intact(s)
  <2> HIDE DEF u
  <2>7. /\ \A k \in 1..Len(u) : u[k] = s[k]
        /\ \A k \in 1..Len(s) : s[k] # Torn => k <= Len(u)
        /\ Len(u) <= Len(s)
    BY <2>5, <2>6 DEF u
  <2>8. QED
    BY <1>3, <2>2, <2>5, <2>7 DEF u
<1>4. QED
  BY <1>2, <1>3

LEMMA ScansOfGood ==
  ASSUME NEW s \in Seq(AnyFrame), Good(s)
  PROVE  Scans(s) = {Intact(s)} /\ ~Misplaced(Intact(s))
<1>1. /\ Intact(s) \in Seq(AnyFrame) /\ Whole(Intact(s)) /\ Good(Intact(s))
      /\ FirstTorn(s) \in {0, Len(s)}
  BY IntactOfGood
<1>2. ~Misplaced(Intact(s))
  BY <1>1 DEF Misplaced, Good, Whole
<1>3. FirstTorn(s) \notin 1..(Len(s) - 1)
  BY <1>1
<1>4. QED
  BY <1>2, <1>3 DEF Scans

\* What a scan reports of such a file, a misread included, is a front of it.
LEMMA ScansAreFronts ==
  ASSUME NEW s \in Seq(AnyFrame), Good(s), NEW scan \in Scans(s) \cup Misreads(s)
  PROVE  /\ scan \in Seq(AnyFrame) /\ Good(scan) /\ Whole(scan)
         /\ Len(scan) <= Len(Intact(s))
         /\ \A k \in 1..Len(scan) : scan[k] = s[k]
<1>1. /\ Intact(s) \in Seq(AnyFrame) /\ Whole(Intact(s)) /\ Good(Intact(s))
      /\ Len(Intact(s)) <= Len(s) /\ \A k \in 1..Len(Intact(s)) : Intact(s)[k] = s[k]
  BY IntactOfGood
<1>2. CASE scan \in Scans(s)
  BY <1>1, <1>2, ScansOfGood
<1>3. CASE scan \in Misreads(s)
  <2>1. PICK n \in 0..(Len(Intact(s)) - 1) : scan = Cut(s, n)
    BY <1>3 DEF Misreads
  <2>2. n \in 0..Len(s) /\ n \in Nat /\ n < Len(s) /\ n <= Len(Intact(s))
    BY <1>1, <2>1
  <2>3. Good(Cut(s, n)) /\ Whole(Cut(s, n))
    BY <2>2, GoodCut
  <2>4. /\ Cut(s, n) \in Seq(AnyFrame) /\ Len(Cut(s, n)) = n
        /\ \A k \in 1..n : k <= Len(s) => Cut(s, n)[k] = s[k]
    BY <2>2, CutShape
  <2>5. QED
    BY <2>1, <2>2, <2>3, <2>4
<1>4. QED
  BY <1>2, <1>3

LEMMA GoodAppend ==
  ASSUME NEW s \in Seq(AnyFrame), Good(s), Whole(s), NEW fr \in AnyFrame
  PROVE  /\ Append(s, fr) \in Seq(AnyFrame) /\ Len(Append(s, fr)) = Len(s) + 1
         /\ \A k \in 1..Len(s) : Append(s, fr)[k] = s[k]
         /\ Append(s, fr)[Len(s) + 1] = fr
         /\ fr = Torn => Good(Append(s, fr))
         /\ fr # Torn /\ fr.idx = Len(s) + 1 /\ fr.op # 0 => Good(Append(s, fr)) /\ Whole(Append(s, fr))
<1>1. /\ Append(s, fr) \in Seq(AnyFrame) /\ Len(Append(s, fr)) = Len(s) + 1
      /\ \A k \in 1..Len(s) : Append(s, fr)[k] = s[k]
      /\ Append(s, fr)[Len(s) + 1] = fr
  OBVIOUS
<1> DEFINE t == Append(s, fr)
<1> HIDE DEF t
<1>2. QED
  BY <1>1 DEF Good, Whole, t

\* A record that is there is not in a torn frame, so every scan finds it.
LEMMA HasInIntact ==
  ASSUME NEW s \in Seq(AnyFrame), Good(s), NEW op \in 1..MaxOps, Has(s, op)
  PROVE  Has(Intact(s), op)
<1>1. PICK k \in 1..Len(s) : s[k].op = op
  BY DEF Has
<1>2. s[k] # Torn
  BY <1>1, FrameTypes, BoundsAreNats
<1>3. k \in 1..Len(Intact(s)) /\ Intact(s)[k] = s[k]
  BY <1>2, IntactOfGood
<1>4. QED
  BY <1>1, <1>3 DEF Has

-----------------------------------------------------------------------------
\* The invariant

OpenedPc == {"store", "dirsync", "lock", "write", "sync", "rollback", "drop"}
HoldPc == OpenedPc \ {"store"}
MuPc == {"write", "sync", "rollback", "drop"}

HandleState == [file : Files \cup {None}, count : Nat, open : BOOLEAN,
                mu : Appenders \cup {None}]
ProcState == [pc : AppendPc \cup CompactPc, h : Handles \cup {None}, op : Nat, count : Nat,
              created : BOOLEAN, buf : Seq(AnyFrame)]

FilesTyped == content \in [Files -> Seq(AnyFrame)] /\ disk \in [Files -> Seq(AnyFrame)]

HandlesTyped ==
  /\ handle \in [Handles -> HandleState]
  /\ \A h \in Handles : handle[h].open => handle[h].file \in Files

TypeInv ==
  /\ path \in Files \cup {None} /\ dpath \in Files \cup {None}
  /\ FilesTyped /\ HandlesTyped
  /\ openFiles \in Handles \cup {None}
  /\ proc \in [Procs -> ProcState]
  /\ \A a \in Appenders :
       /\ proc[a].pc \in AppendPc
       /\ proc[a].pc \in OpenedPc => proc[a].h \in Handles
       /\ Busy(a) => proc[a].op \in 1..MaxOps
  /\ \A c \in Closers :
       /\ proc[c].pc \in CompactPc
       /\ proc[c].pc = "close" => proc[c].h \in Handles
  /\ proc[Evictor].pc \in {"idle", "take", "close"}
  /\ ops \in 0..MaxOps /\ faults \in Nat /\ acked \subseteq 1..MaxOps
  /\ overlapped \in BOOLEAN /\ unnamed \in BOOLEAN

\* Who has which handle: one that was just opened is its opener's alone, one that is
\* about to be closed is not the engine's any more, and mu says who appends.
Owned ==
  \A a \in Appenders : At(a, "store") =>
    /\ handle[proc[a].h].open /\ proc[a].h # openFiles
    /\ \A p \in Procs \ {a} : proc[p].h # proc[a].h

Released == \A c \in Closers : At(c, "close") => proc[c].h # openFiles

Held ==
  /\ \A h \in Handles : \A a \in Appenders :
       handle[h].mu = a => proc[a].h = h /\ proc[a].pc \in MuPc
  /\ \A a \in Appenders : proc[a].pc \in MuPc => handle[proc[a].h].mu = a

Dropped == \A a \in Appenders : At(a, "drop") => ~handle[proc[a].h].open

HandleInv == Owned /\ Released /\ Held /\ Dropped /\ NoDeadHandle

\* With no append beside an opening or a compaction, everyone uses one handle.
Alone ==
  /\ \A a, b \in Appenders : Opening(a) /\ Busy(b) => a = b
  /\ Compacting => \A a \in Appenders : ~Busy(a)

OneHandle ==
  /\ \A a \in Appenders :
       /\ Opening(a) /\ ~At(a, "dirsync") => openFiles = None
       /\ proc[a].pc \in HoldPc => openFiles \in {None, proc[a].h}
  /\ \A a, b \in Appenders :
       proc[a].pc \in HoldPc /\ proc[b].pc \in HoldPc => proc[a].h = proc[b].h
  /\ proc[Compactor].pc \in {"close", "rename", "dirsync"} => openFiles = None

GoodFiles ==
  /\ \A f \in Files : Good(content[f]) /\ Good(disk[f])
  /\ proc[Compactor].pc \in {"take", "close", "rename"} => Good(proc[Compactor].buf)

\* A handle appends may go through: the engine's, or one an appender has.
Current(h) == h = openFiles \/ \E a \in Appenders : proc[a].pc \in OpenedPc /\ proc[a].h = h

\* The size of such a handle is that of the file, as far as its appends have returned.
Counts ==
  \A h \in Handles : Current(h) /\ handle[h].open =>
    LET holder == handle[h].mu IN
    /\ handle[h].file = path
    /\ handle[h].count <= Len(Journal)
    /\ holder = None \/ At(holder, "write") =>
         Whole(Journal) /\ Len(Journal) = handle[h].count
    /\ holder # None /\ At(holder, "sync") =>
         /\ Whole(Journal) /\ Len(Journal) = handle[h].count + 1
         /\ Journal[Len(Journal)].op = proc[holder].op

\* What an opening goroutine has counted: intact frames, fewer when a read has failed.
Counted ==
  \A a \in Appenders :
    /\ proc[a].pc \in {"stat", "truncate"} => proc[a].count <= Len(Intact(Journal))
    /\ At(a, "open") => Whole(Journal) /\ proc[a].count = Len(Journal)

Calm == Alone /\ OneHandle /\ GoodFiles /\ Counts /\ Counted

AloneInv == ~overlapped => Calm

\* Only compaction gives the journal another inode than the one on disk.
NameInv ==
  /\ path = None => dpath = None
  /\ ~overlapped /\ dpath \notin {None, path} =>
       proc[Compactor].pc \in {"dirsync", "done"} /\ \A a \in Appenders : ~Busy(a)

\* Where a record is: in the files that journal.log may name, in what compaction is
\* about to write, and among the frames that a handle in use counts, which no rollback
\* cuts.
Stored(op) ==
  \A f \in {path, dpath} \ {None} : Has(content[f], op) /\ Has(disk[f], op)
Buffered(op) ==
  proc[Compactor].pc \in {"take", "close", "rename"} => Has(proc[Compactor].buf, op)
Within(op) ==
  \A h \in Handles : Current(h) /\ handle[h].open =>
    \E k \in 1..handle[h].count : Journal[k].op = op

Safe(op) == Stored(op) /\ Buffered(op) /\ Within(op)

\* It is also among the frames that an opening goroutine has counted: the truncation
\* that follows leaves it.
Scanned(op) ==
  \A a \in Appenders : proc[a].pc \in {"stat", "truncate"} =>
    \E k \in 1..proc[a].count : Journal[k].op = op

\* All this for the records that no scan has left out.
AckedInv ==
  /\ ~Unnamed
  /\ acked # {} => dpath # None
  /\ \A op \in acked \ unread : Safe(op) /\ Scanned(op)

IInv ==
  /\ TypeInv /\ HandleInv /\ AloneInv /\ NameInv
  /\ ~overlapped /\ ~unnamed => AckedInv

-----------------------------------------------------------------------------
\* Types

AppendOpenPc == {"tail", "stat", "truncate", "open"}

LEMMA PcNames ==
  /\ AppendPc = AppendOpenPc \cup OpenedPc \cup {"idle", "lookup"}
  /\ OpenedPc = {"store", "dirsync", "lock", "write", "sync", "rollback", "drop"}
BY DEF AppendPc, OpenPc, OpenedPc, AppendOpenPc

LEMMA ProcKinds ==
  /\ Procs = Appenders \cup {Evictor, Compactor}
  /\ Evictor \notin Appenders /\ Compactor \notin Appenders /\ Evictor # Compactor
  /\ \A h \in Handles : h # None
  /\ \A f \in Files : f # None
  /\ \A p \in Procs : p # None
BY DistinctProcs, NoneIsNoName DEF Procs, Closers

LEMMA IdleType == Idle \in ProcState /\ Idle.pc = "idle" /\ Idle.h = None
<1>1. << >> \in Seq(AnyFrame)
  BY GoodEmpty
<1>2. QED
  BY <1>1 DEF Idle, ProcState, AppendPc

\* An appender only changes its own state, to a state appenders have.
LEMMA AppendProc ==
  ASSUME TypeInv, NEW a \in Appenders, AppendStep(a)
  PROVE  /\ proc' \in [Procs -> ProcState]
         /\ \A p \in Procs \ {a} : proc'[p] = proc[p]
         /\ proc'[a].pc \in AppendPc
         /\ proc'[a].pc \in OpenedPc => proc'[a].h \in Handles
         /\ proc'[a].pc # "idle" => proc'[a].op \in 1..MaxOps
<1> USE DEF At, Go, Return, Busy
<1>1. /\ proc \in [Procs -> ProcState] /\ a \in Procs /\ proc[a] \in ProcState
      /\ proc[a].pc \in OpenedPc => proc[a].h \in Handles
      /\ proc[a].pc # "idle" => proc[a].op \in 1..MaxOps
      /\ openFiles \in Handles \cup {None}
      /\ ops \in 0..MaxOps /\ MaxOps \in Nat
  BY ProcKinds, BoundsAreNats DEF TypeInv
<1>2. ASSUME NEW r \in ProcState, proc' = [proc EXCEPT ![a] = r],
             r.pc \in AppendPc, r.pc \in OpenedPc => r.h \in Handles,
             r.pc # "idle" => r.op \in 1..MaxOps
      PROVE  /\ proc' \in [Procs -> ProcState]
             /\ \A p \in Procs \ {a} : proc'[p] = proc[p]
             /\ proc'[a].pc \in AppendPc
             /\ proc'[a].pc \in OpenedPc => proc'[a].h \in Handles
             /\ proc'[a].pc # "idle" => proc'[a].op \in 1..MaxOps
  BY <1>1, <1>2
<1>3. CASE Return(a)
  BY <1>2, <1>3, IdleType, PcNames
<1>4. ASSUME NEW pc \in AppendPc, Go(a, pc), proc[a].pc # "idle",
             pc \in OpenedPc => proc[a].pc \in OpenedPc
      PROVE  /\ proc' \in [Procs -> ProcState]
             /\ \A p \in Procs \ {a} : proc'[p] = proc[p]
             /\ proc'[a].pc \in AppendPc
             /\ proc'[a].pc \in OpenedPc => proc'[a].h \in Handles
             /\ proc'[a].pc # "idle" => proc'[a].op \in 1..MaxOps
  BY <1>1, <1>4 DEF ProcState
<1>5. CASE Begin(a)
  <2> DEFINE r == [proc[a] EXCEPT !.pc = "lookup", !.op = ops']
  <2>1. proc' = [proc EXCEPT ![a] = r] /\ ops' \in 1..MaxOps /\ ops' \in Nat
    <3>1. ops < MaxOps /\ ops' = ops + 1
          /\ proc' = [proc EXCEPT ![a].pc = "lookup", ![a].op = ops']
      BY <1>5 DEF Begin
    <3>2. ops' \in 1..MaxOps /\ ops' \in Nat
      BY <1>1, <3>1
    <3>3. QED
      BY <1>1, <3>1, <3>2
  <2>2. r \in ProcState /\ r.pc = "lookup" /\ r.op = ops'
    BY <1>1, <2>1, PcNames DEF ProcState
  <2> HIDE DEF r
  <2>3. QED
    BY <1>2, <2>1, <2>2, PcNames
<1>6. CASE Lookup(a)
  <2>1. CASE openFiles # None /\ proc' = [proc EXCEPT ![a].pc = "lock", ![a].h = openFiles]
    <3> DEFINE r == [proc[a] EXCEPT !.pc = "lock", !.h = openFiles]
    <3>1. proc' = [proc EXCEPT ![a] = r] /\ proc[a].pc = "lookup" /\ openFiles \in Handles
      BY <1>1, <1>6, <2>1 DEF Lookup
    <3>2. r \in ProcState /\ r.pc = "lock" /\ r.h = openFiles /\ r.op = proc[a].op
      BY <1>1, <3>1, PcNames DEF ProcState
    <3> HIDE DEF r
    <3>3. QED
      BY <1>1, <1>2, <3>1, <3>2, PcNames
  <2>2. CASE Go(a, "tail")
    BY <1>1, <1>4, <1>6, <2>2, PcNames DEF Lookup, AppendOpenPc
  <2>3. QED
    BY <1>6, <2>1, <2>2 DEF Lookup
<1>7. CASE OpenFails(a)
  BY <1>3, <1>7 DEF OpenFails
<1>8. CASE JournalTail(a)
  <2>1. Journal \in Seq(AnyFrame)
    BY GoodEmpty DEF Journal, TypeInv, FilesTyped
  <2>2. PICK scan \in Scans(Journal) \cup Misreads(Journal) :
          \/ Return(a)
          \/ /\ scan # None
             /\ proc' = [proc EXCEPT ![a].pc = "stat", ![a].count = Len(scan)]
    BY <1>8 DEF JournalTail
  <2>3. scan # None => Len(scan) \in Nat
    BY <2>1, ScanTypes
  <2>4. CASE scan # None /\ proc' = [proc EXCEPT ![a].pc = "stat", ![a].count = Len(scan)]
    <3> DEFINE n == Len(scan)
               r == [proc[a] EXCEPT !.pc = "stat", !.count = n]
    <3>1. proc' = [proc EXCEPT ![a] = r] /\ n \in Nat
      BY <1>1, <2>3, <2>4
    <3> HIDE DEF n
    <3>2. r \in ProcState /\ r.pc = "stat" /\ r.op = proc[a].op
      BY <1>1, <3>1, PcNames DEF ProcState, AppendOpenPc
    <3> HIDE DEF r
    <3>3. proc[a].pc # "idle"
      BY <1>8 DEF JournalTail
    <3>4. QED
      BY <1>1, <1>2, <3>1, <3>2, <3>3, PcNames DEF AppendOpenPc
  <2>5. QED
    BY <1>3, <2>2, <2>4
<1>9. CASE Stat(a)
  <2> DEFINE new == path = None
             pc == IF path = None THEN "open" ELSE "truncate"
             r == [proc[a] EXCEPT !.created = new, !.pc = pc]
  <2>1. proc' = [proc EXCEPT ![a] = r] /\ proc[a].pc = "stat"
    BY <1>1, <1>9 DEF Stat
  <2>2. new \in BOOLEAN /\ pc \in AppendOpenPc
    BY DEF AppendOpenPc
  <2> HIDE DEF new, pc
  <2>3. r \in ProcState /\ r.pc = pc /\ r.op = proc[a].op
    BY <1>1, <2>2, PcNames DEF ProcState
  <2> HIDE DEF r
  <2>4. QED
    BY <1>1, <1>2, <2>1, <2>2, <2>3, PcNames DEF AppendOpenPc
<1>14. CASE TruncateJournalTo(a)
  <2>1. proc[a].pc = "truncate" /\ (Go(a, "open") \/ Return(a))
    BY <1>14 DEF TruncateJournalTo
  <2>2. CASE Go(a, "open")
    BY <1>1, <1>4, <2>1, <2>2, PcNames DEF AppendOpenPc
  <2>3. QED
    BY <1>3, <2>1, <2>2
<1>10. CASE Open(a)
  BY <1>1, <1>10, PcNames DEF Open, ProcState
<1>11. CASE LoadOrStore(a)
  <2>1. CASE openFiles = None
    BY <1>1, <1>4, <1>11, <2>1, PcNames DEF LoadOrStore
  <2>2. CASE openFiles # None
    <3> DEFINE r == [proc[a] EXCEPT !.pc = "lock", !.h = openFiles]
    <3>1. proc' = [proc EXCEPT ![a] = r] /\ proc[a].pc = "store" /\ openFiles \in Handles
      BY <1>1, <1>11, <2>2 DEF LoadOrStore
    <3>2. r \in ProcState /\ r.pc = "lock" /\ r.h = openFiles /\ r.op = proc[a].op
      BY <1>1, <3>1, PcNames DEF ProcState
    <3> HIDE DEF r
    <3>3. QED
      BY <1>1, <1>2, <3>1, <3>2, PcNames
  <2>3. QED
    BY <2>1, <2>2
<1>12. CASE DirSync(a) \/ Lock(a) \/ Write(a) \/ Sync(a) \/ Rollback(a) \/ Drop(a)
  BY <1>1, <1>3, <1>4, <1>12, PcNames
     DEF DirSync, Lock, Write, Sync, Rollback, Drop
<1>13. QED
  BY <1>5, <1>6, <1>7, <1>8, <1>9, <1>10, <1>11, <1>12, <1>14 DEF AppendStep

LEMMA FileTypes ==
  ASSUME TypeInv
  PROVE  /\ Journal \in Seq(AnyFrame)
         /\ path # None => path \in Files /\ Journal = content[path]
BY GoodEmpty DEF Journal, TypeInv, FilesTyped

LEMMA PickHandle ==
  ASSUME \E h \in Handles : FreeHandle(h)
  PROVE  (CHOOSE h \in Handles : FreeHandle(h)) \in {h \in Handles : FreeHandle(h)}
OBVIOUS

LEMMA PickFile ==
  ASSUME \E f \in Files : FreeFile(f)
  PROVE  (CHOOSE f \in Files : FreeFile(f)) \in {f \in Files : FreeFile(f)}
OBVIOUS

LEMMA FrameOfAppend ==
  ASSUME TypeInv, NEW a \in Appenders, proc[a].pc \in MuPc
  PROVE  /\ NewFrame(a) \in AnyFrame /\ NewFrame(a) # Torn
         /\ NewFrame(a).idx = Mine(a).count + 1 /\ NewFrame(a).op = proc[a].op
<1>1. /\ proc[a].op \in 1..MaxOps /\ MaxOps \in Nat /\ proc[a].h \in Handles
      /\ handle[proc[a].h].count \in Nat
  BY BoundsAreNats, PcNames DEF TypeInv, HandlesTyped, HandleState, MuPc, Busy, At
<1> DEFINE n == Mine(a).count + 1
<1>2. n \in Nat
  BY <1>1 DEF Mine
<1>3. NewFrame(a) = [op |-> proc[a].op, idx |-> n]
  BY DEF NewFrame
<1> HIDE DEF n
<1>4. NewFrame(a).op = proc[a].op /\ NewFrame(a).idx = n /\ NewFrame(a) \in AnyFrame
  BY <1>1, <1>2, <1>3 DEF AnyFrame
<1>5. NewFrame(a) # Torn
  BY <1>1, <1>4, FrameTypes
<1>6. QED
  BY <1>4, <1>5 DEF n

-----------------------------------------------------------------------------
\* What the steps do, field by field

Moves(p, pc) == proc'[p].pc = pc /\ \A q \in Procs \ {p} : proc'[q] = proc[q]

Keeps(p) == proc'[p].h = proc[p].h /\ proc'[p].op = proc[p].op
              /\ proc'[p].count = proc[p].count /\ proc'[p].buf = proc[p].buf

\* Frames c and d become those of inode f.
Sets(f, c, d) ==
  /\ content'[f] = c /\ disk'[f] = d
  /\ \A g \in Files \ {f} : content'[g] = content[g] /\ disk'[g] = disk[g]

\* Handle h is closed; x gets its mu.
Shuts(h) ==
  /\ \A g \in Handles \ {h} : handle'[g] = handle[g]
  /\ ~handle'[h].open /\ handle'[h].mu = handle[h].mu
  /\ handle'[h].file = handle[h].file /\ handle'[h].count = handle[h].count

Marks(h, x) ==
  /\ \A g \in Handles \ {h} : handle'[g] = handle[g]
  /\ handle'[h].mu = x /\ handle'[h].open = handle[h].open
  /\ handle'[h].file = handle[h].file /\ handle'[h].count = handle[h].count

LEMMA ReturnMoves ==
  ASSUME TypeInv, NEW p \in Procs, Return(p)
  PROVE  Moves(p, "idle") /\ proc'[p].h = None
BY IdleType DEF TypeInv, Return, Moves

LEMMA GoMoves ==
  ASSUME TypeInv, NEW p \in Procs, NEW pc, Go(p, pc)
  PROVE  /\ Moves(p, pc) /\ Keeps(p)
         /\ pc \in AppendPc \cup CompactPc => proc' \in [Procs -> ProcState]
BY DEF TypeInv, ProcState, Go, Moves, Keeps

GoWith(p, pc, h) == proc' = [proc EXCEPT ![p].pc = pc, ![p].h = h]

LEMMA GoWithMoves ==
  ASSUME TypeInv, NEW p \in Procs, NEW pc \in AppendPc \cup CompactPc,
         NEW h \in Handles \cup {None}, GoWith(p, pc, h)
  PROVE  /\ Moves(p, pc) /\ proc'[p].h = h /\ proc'[p].op = proc[p].op
         /\ proc'[p].count = proc[p].count /\ proc'[p].buf = proc[p].buf
         /\ proc' \in [Procs -> ProcState]
<1> DEFINE r == [proc[p] EXCEPT !.pc = pc, !.h = h]
<1>1. proc \in [Procs -> ProcState] /\ proc[p] \in ProcState
  BY DEF TypeInv
<1>2. /\ r \in ProcState /\ r.pc = pc /\ r.h = h /\ r.op = proc[p].op
      /\ r.count = proc[p].count /\ r.buf = proc[p].buf
  BY <1>1 DEF ProcState
<1>3. proc' = [proc EXCEPT ![p] = r]
  BY <1>1 DEF GoWith
<1> HIDE DEF r
<1>4. QED
  BY <1>1, <1>2, <1>3 DEF Moves

LEMMA SetFile ==
  ASSUME TypeInv, NEW f \in Files, NEW c \in Seq(AnyFrame), NEW d \in Seq(AnyFrame),
         content' = [content EXCEPT ![f] = c], disk' = [disk EXCEPT ![f] = d]
  PROVE  Sets(f, c, d) /\ FilesTyped'
BY DEF TypeInv, FilesTyped, Sets

LEMMA SetContent ==
  ASSUME TypeInv, NEW f \in Files, NEW c \in Seq(AnyFrame),
         content' = [content EXCEPT ![f] = c], disk' = disk
  PROVE  Sets(f, c, disk[f]) /\ FilesTyped'
BY DEF TypeInv, FilesTyped, Sets

LEMMA SetHandle ==
  ASSUME TypeInv, NEW h \in Handles, NEW r \in HandleState, r.open => r.file \in Files,
         handle' = [handle EXCEPT ![h] = r]
  PROVE  handle'[h] = r /\ (\A g \in Handles \ {h} : handle'[g] = handle[g]) /\ HandlesTyped'
BY DEF TypeInv, HandlesTyped

LEMMA HandleShuts ==
  ASSUME TypeInv, NEW h \in Handles, handle' = [handle EXCEPT ![h].open = FALSE]
  PROVE  Shuts(h) /\ HandlesTyped'
<1> DEFINE r == [handle[h] EXCEPT !.open = FALSE]
<1>1. handle[h] \in HandleState
  BY DEF TypeInv, HandlesTyped
<1>2. /\ r \in HandleState /\ ~r.open /\ r.mu = handle[h].mu /\ r.file = handle[h].file
      /\ r.count = handle[h].count
  BY <1>1 DEF HandleState
<1>3. handle' = [handle EXCEPT ![h] = r]
  OBVIOUS
<1> HIDE DEF r
<1>4. QED
  BY <1>2, <1>3, SetHandle DEF Shuts

LEMMA HandleMarks ==
  ASSUME TypeInv, NEW h \in Handles, NEW x \in Appenders \cup {None},
         handle' = [handle EXCEPT ![h].mu = x]
  PROVE  Marks(h, x) /\ HandlesTyped'
<1> DEFINE r == [handle[h] EXCEPT !.mu = x]
<1>1. handle[h] \in HandleState /\ (handle[h].open => handle[h].file \in Files)
  BY DEF TypeInv, HandlesTyped
<1>2. /\ r \in HandleState /\ r.open = handle[h].open /\ r.mu = x
      /\ r.file = handle[h].file /\ r.count = handle[h].count
  BY <1>1 DEF HandleState
<1>3. handle' = [handle EXCEPT ![h] = r]
  OBVIOUS
<1> HIDE DEF r
<1>4. QED
  BY <1>1, <1>2, <1>3, SetHandle DEF Marks

\* Looking for the handle and scanning the file change nothing that is shared.
\* What a scan reports when none of its reads fails.
Read(scan) == faults' = faults => scan \in Scans(Journal)

LEMMA LookEffect ==
  ASSUME TypeInv, NEW a \in Appenders,
         Begin(a) \/ Lookup(a) \/ OpenFails(a) \/ JournalTail(a) \/ Stat(a)
  PROVE  /\ UNCHANGED <<files, openFiles, handle, acked>>
         /\ proc'[a].h \in {None, proc[a].h, openFiles}
         /\ \/ Moves(a, "idle") /\ proc[a].pc \in AppendOpenPc
            \/ At(a, "idle") /\ At(Compactor, "idle") /\ Moves(a, "lookup")
            \/ /\ At(a, "lookup") /\ openFiles \in Handles
               /\ Moves(a, "lock") /\ proc'[a].h = openFiles
            \/ At(a, "lookup") /\ openFiles = None /\ Moves(a, "tail")
            \/ /\ At(a, "tail") /\ Moves(a, "stat")
               /\ \E scan \in Scans(Journal) \cup Misreads(Journal) :
                    scan # None /\ Read(scan) /\ proc'[a].count = Len(scan)
            \/ /\ At(a, "stat") /\ proc'[a].count = proc[a].count
               /\ \/ path = None /\ Moves(a, "open")
                  \/ path # None /\ Moves(a, "truncate")
<1> USE DEF At
<1>0. a \in Procs /\ proc \in [Procs -> ProcState] /\ openFiles \in Handles \cup {None}
  BY ProcKinds DEF TypeInv
<1>1. CASE Begin(a)
  BY <1>0, <1>1 DEF Begin, Moves, ProcState
<1>2. CASE Lookup(a)
  <2>1. CASE openFiles # None /\ proc' = [proc EXCEPT ![a].pc = "lock", ![a].h = openFiles]
    <3>1. GoWith(a, "lock", openFiles) /\ "lock" \in AppendPc
      BY <2>1, PcNames DEF GoWith
    <3>2. Moves(a, "lock") /\ proc'[a].h = openFiles
      BY <1>0, <3>1, GoWithMoves
    <3>3. QED
      BY <1>0, <1>2, <2>1, <3>2 DEF Lookup
  <2>2. CASE openFiles = None /\ Go(a, "tail")
    BY <1>0, <1>2, <2>2, GoMoves DEF Lookup, Keeps
  <2>3. QED
    BY <1>2, <2>1, <2>2 DEF Lookup
<1>3. CASE OpenFails(a)
  BY <1>0, <1>3, ReturnMoves DEF OpenFails, AppendOpenPc
<1>4. CASE JournalTail(a)
  <2>1. UNCHANGED <<files, openFiles, handle, acked>> /\ proc[a].pc = "tail"
    BY <1>4 DEF JournalTail
  <2>2. PICK scan \in Scans(Journal) \cup Misreads(Journal) :
          /\ IF scan \in Scans(Journal) THEN NoFault ELSE Fault
          /\ \/ Return(a)
             \/ scan # None /\ proc' = [proc EXCEPT ![a].pc = "stat", ![a].count = Len(scan)]
    BY <1>4 DEF JournalTail
  <2>6. Read(scan)
    <3>1. faults \in Nat
      BY DEF TypeInv
    <3>2. QED
      BY <2>2, <3>1 DEF Read, Fault
  <2>3. CASE Return(a)
    BY <1>0, <2>1, <2>3, ReturnMoves DEF AppendOpenPc
  <2>4. CASE scan # None /\ proc' = [proc EXCEPT ![a].pc = "stat", ![a].count = Len(scan)]
    <3> DEFINE n == Len(scan)
    <3> HIDE DEF n
    <3>1. proc' = [proc EXCEPT ![a].pc = "stat", ![a].count = n]
      BY <2>4 DEF n
    <3>2. Moves(a, "stat") /\ proc'[a].count = n /\ proc'[a].h = proc[a].h
      BY <1>0, <3>1 DEF Moves, ProcState
    <3>3. QED
      BY <2>1, <2>4, <2>6, <3>2 DEF n
  <2>5. QED
    BY <2>2, <2>3, <2>4
<1>5. CASE Stat(a)
  <2>1. CASE path = None
    BY <1>0, <1>5, <2>1 DEF Stat, Moves, ProcState
  <2>2. CASE path # None
    BY <1>0, <1>5, <2>2 DEF Stat, Moves, ProcState
  <2>3. QED
    BY <2>1, <2>2
<1>6. QED
  BY <1>1, <1>2, <1>3, <1>4, <1>5

\* The file ends at what was counted, or, after an error, may not; an error may also
\* leave the truncation off the disk.
LEMMA TruncateEffect ==
  ASSUME TypeInv, NEW a \in Appenders, TruncateJournalTo(a)
  PROVE  /\ At(a, "truncate") /\ UNCHANGED <<path, dpath, openFiles, handle, acked>>
         /\ FilesTyped' /\ proc'[a].h \in {None, proc[a].h}
         /\ (Moves(a, "open") /\ Keeps(a)) \/ Moves(a, "idle")
         /\ \/ /\ UNCHANGED <<content, disk>>
               /\ Moves(a, "open") => Len(Journal) <= proc[a].count
            \/ /\ Len(Journal) > proc[a].count /\ path \in Files
               /\ LET s == Cut(content[path], proc[a].count) IN
                  \E d \in {disk[path], s} : Sets(path, s, d)
<1> DEFINE s == Cut(content[path], proc[a].count)
<1>0. /\ a \in Procs /\ proc[a].count \in Nat /\ Len(Journal) \in Nat
      /\ path \in Files \cup {None} /\ FilesTyped
  BY ProcKinds, FileTypes DEF TypeInv, ProcState
<1>1. /\ At(a, "truncate") /\ UNCHANGED <<path, dpath, openFiles, handle, acked>>
      /\ Go(a, "open") \/ Return(a)
  BY DEF TruncateJournalTo
<1>2. /\ proc'[a].h \in {None, proc[a].h}
      /\ (Moves(a, "open") /\ Keeps(a)) \/ Moves(a, "idle")
  <2>1. CASE Go(a, "open")
    BY <1>0, <2>1, GoMoves DEF Keeps
  <2>2. CASE Return(a)
    BY <1>0, <2>2, ReturnMoves
  <2>3. QED
    BY <1>1, <2>1, <2>2
<1>3. CASE ~(Len(Journal) > proc[a].count)
  <2>1. UNCHANGED <<content, disk>>
    BY <1>3 DEF TruncateJournalTo
  <2>2. FilesTyped' /\ Len(Journal) <= proc[a].count
    BY <1>0, <1>3, <2>1 DEF FilesTyped
  <2>3. QED
    BY <1>1, <1>2, <2>1, <2>2
<1>4. CASE Len(Journal) > proc[a].count
  <2> DEFINE longer == [content EXCEPT ![path] = s]
  <2>1. path \in Files
    BY <1>0, <1>4 DEF Journal
  <2>2. s \in Seq(AnyFrame)
    BY <1>0, <2>1, CutShape DEF FilesTyped
  <2>3. longer[path] = s
    BY <1>0, <2>1 DEF FilesTyped
  <2>4. \/ content' = longer /\ disk' = [disk EXCEPT ![path] = longer[path]]
        \/ content' = longer /\ disk' = disk
        \/ content' = content /\ disk' = disk /\ Return(a)
    BY <1>4 DEF TruncateJournalTo
  <2> HIDE DEF s
  <2>5. CASE content' = longer /\ disk' = [disk EXCEPT ![path] = longer[path]]
    <3>1. Sets(path, s, s) /\ FilesTyped'
      BY <2>1, <2>2, <2>3, <2>5, SetFile
    <3>2. QED
      BY <1>1, <1>2, <1>4, <2>1, <3>1 DEF s
  <2>6. CASE content' = longer /\ disk' = disk
    <3>1. Sets(path, s, disk[path]) /\ FilesTyped'
      BY <2>1, <2>2, <2>6, SetContent
    <3>2. QED
      BY <1>1, <1>2, <1>4, <2>1, <3>1 DEF s
  <2>7. CASE content' = content /\ disk' = disk /\ Return(a)
    <3>1. Moves(a, "idle") /\ ~Moves(a, "open") /\ FilesTyped'
      BY <1>0, <2>7, ReturnMoves DEF Moves, FilesTyped
    <3>2. QED
      BY <1>1, <1>2, <2>7, <3>1
  <2>8. QED
    BY <2>4, <2>5, <2>6, <2>7
<1>5. QED
  BY <1>3, <1>4

\* The handle is one that nobody has; a file that is made is empty.
LEMMA OpenEffect ==
  ASSUME TypeInv, NEW a \in Appenders, Open(a)
  PROVE  /\ At(a, "open") /\ UNCHANGED <<dpath, openFiles, acked>>
         /\ Moves(a, "store") /\ proc'[a].h \in Handles /\ FreeHandle(proc'[a].h)
         /\ path' \in Files
         /\ \/ path = path' /\ UNCHANGED <<content, disk>>
            \/ path = None /\ FreeFile(path') /\ Sets(path', << >>, << >>)
         /\ FilesTyped' /\ HandlesTyped'
         /\ \A g \in Handles \ {proc'[a].h} : handle'[g] = handle[g]
         /\ handle'[proc'[a].h].file = path' /\ handle'[proc'[a].h].open
         /\ handle'[proc'[a].h].mu = None /\ handle'[proc'[a].h].count = proc[a].count
<1> DEFINE h == CHOOSE h \in Handles : FreeHandle(h)
           f == IF path # None THEN path ELSE CHOOSE f \in Files : FreeFile(f)
           r == [Closed EXCEPT !.file = f, !.open = TRUE, !.count = proc[a].count]
<1>0. a \in Procs /\ proc[a].count \in Nat /\ FilesTyped
  BY ProcKinds DEF TypeInv, ProcState
<1>1. h \in Handles /\ FreeHandle(h)
  BY PickHandle DEF Open
<1>2. f \in Files /\ (path = None => FreeFile(f)) /\ (path # None => f = path)
  BY PickFile, FileTypes DEF Open
<1>3. /\ At(a, "open") /\ path' = f /\ UNCHANGED <<dpath, openFiles, acked>>
      /\ content' = IF path = None THEN [content EXCEPT ![f] = << >>] ELSE content
      /\ disk' = IF path = None THEN [disk EXCEPT ![f] = << >>] ELSE disk
      /\ handle' = [handle EXCEPT ![h] = r]
      /\ proc' = [proc EXCEPT ![a].pc = "store", ![a].h = h]
  BY DEF Open
<1> HIDE DEF h, f
<1>4. Closed \in HandleState /\ Closed.mu = None
  BY DEF Closed, HandleState
<1>5. r \in HandleState /\ r.file = f /\ r.open /\ r.mu = None /\ r.count = proc[a].count
  BY <1>0, <1>2, <1>4 DEF HandleState
<1> HIDE DEF r
<1>6. handle'[h] = r /\ (\A g \in Handles \ {h} : handle'[g] = handle[g]) /\ HandlesTyped'
  BY <1>1, <1>2, <1>3, <1>5, SetHandle
<1>7. Moves(a, "store") /\ proc'[a].h = h
  <2>1. /\ h \in Handles \cup {None} /\ "store" \in AppendPc
        /\ GoWith(a, "store", h)
    BY <1>1, <1>3, PcNames DEF GoWith
  <2>2. QED
    BY <1>0, <2>1, GoWithMoves
<1>8. CASE path = None
  <2>1. Sets(f, << >>, << >>) /\ FilesTyped'
    BY <1>2, <1>3, <1>8, GoodEmpty, SetFile
  <2>2. QED
    BY <1>1, <1>2, <1>3, <1>5, <1>6, <1>7, <1>8, <2>1
<1>9. CASE path # None
  <2>1. UNCHANGED <<content, disk>> /\ FilesTyped'
    BY <1>0, <1>3, <1>9 DEF FilesTyped
  <2>2. QED
    BY <1>1, <1>2, <1>3, <1>5, <1>6, <1>7, <1>9, <2>1
<1>10. QED
  BY <1>8, <1>9

LEMMA StoreEffect ==
  ASSUME TypeInv, NEW a \in Appenders, LoadOrStore(a)
  PROVE  /\ At(a, "store") /\ proc[a].h \in Handles /\ UNCHANGED <<files, acked>>
         /\ HandlesTyped'
         /\ \/ /\ openFiles = None /\ openFiles' = proc[a].h /\ UNCHANGED handle
               /\ Moves(a, "dirsync") \/ Moves(a, "lock")
               /\ Keeps(a)
            \/ /\ openFiles \in Handles /\ UNCHANGED openFiles /\ Shuts(proc[a].h)
               /\ Moves(a, "lock") /\ proc'[a].h = openFiles
<1>0. /\ a \in Procs /\ At(a, "store") /\ proc[a].h \in Handles /\ HandlesTyped
      /\ openFiles \in Handles \cup {None} /\ UNCHANGED <<files, acked>>
  BY ProcKinds, PcNames DEF TypeInv, LoadOrStore, At
<1>1. CASE openFiles = None
  BY <1>0, <1>1, GoMoves DEF LoadOrStore, HandlesTyped
<1>2. CASE openFiles # None
  <2>1. /\ GoWith(a, "lock", openFiles) /\ "lock" \in AppendPc
        /\ handle' = [handle EXCEPT ![proc[a].h].open = FALSE] /\ UNCHANGED openFiles
    BY <1>2, PcNames DEF LoadOrStore, GoWith
  <2>2. Moves(a, "lock") /\ proc'[a].h = openFiles
    BY <1>0, <2>1, GoWithMoves
  <2>3. QED
    BY <1>0, <1>2, <2>1, <2>2, HandleShuts
<1>3. QED
  BY <1>1, <1>2

LEMMA DirSyncEffect ==
  ASSUME TypeInv, NEW a \in Appenders, DirSync(a)
  PROVE  /\ At(a, "dirsync") /\ proc[a].h \in Handles
         /\ UNCHANGED <<path, content, disk, acked>> /\ HandlesTyped'
         /\ \/ /\ dpath' = path /\ UNCHANGED <<openFiles, handle>>
               /\ Moves(a, "lock") /\ Keeps(a)
            \/ /\ UNCHANGED dpath /\ openFiles' = None /\ Shuts(proc[a].h)
               /\ Moves(a, "idle") /\ proc'[a].h = None
<1>0. /\ a \in Procs /\ At(a, "dirsync") /\ proc[a].h \in Handles /\ HandlesTyped
      /\ UNCHANGED <<path, content, disk, acked>>
  BY ProcKinds, PcNames DEF TypeInv, DirSync, At
<1>1. CASE dpath' = path /\ Go(a, "lock") /\ UNCHANGED <<openFiles, handle>>
  BY <1>0, <1>1, GoMoves DEF HandlesTyped
<1>2. CASE /\ UNCHANGED dpath /\ openFiles' = None /\ Return(a)
           /\ handle' = [handle EXCEPT ![proc[a].h].open = FALSE]
  BY <1>0, <1>2, ReturnMoves, HandleShuts
<1>3. QED
  BY <1>1, <1>2 DEF DirSync

LEMMA LockEffect ==
  ASSUME TypeInv, NEW a \in Appenders, Lock(a)
  PROVE  /\ At(a, "lock") /\ proc[a].h \in Handles /\ handle[proc[a].h].mu = None
         /\ UNCHANGED <<files, openFiles, acked>> /\ HandlesTyped'
         /\ Marks(proc[a].h, a) /\ Moves(a, "write") /\ Keeps(a)
<1>0. /\ a \in Procs /\ At(a, "lock") /\ proc[a].h \in Handles
  BY ProcKinds, PcNames DEF TypeInv, Lock, At
<1>1. QED
  BY <1>0, GoMoves, HandleMarks DEF Lock, Mine

LEMMA WriteEffect ==
  ASSUME TypeInv, NEW a \in Appenders, Write(a)
  PROVE  /\ At(a, "write") /\ proc[a].h \in Handles /\ Keeps(a)
         /\ UNCHANGED <<path, dpath, disk, openFiles, handle, acked>> /\ FilesTyped'
         /\ \/ /\ Mine(a).open /\ Mine(a).file \in Files /\ Moves(a, "sync")
               /\ Sets(Mine(a).file, Append(content[Mine(a).file], NewFrame(a)),
                       disk[Mine(a).file])
            \/ /\ Mine(a).open /\ Mine(a).file \in Files /\ Moves(a, "rollback")
               /\ Sets(Mine(a).file, Append(content[Mine(a).file], Torn), disk[Mine(a).file])
            \/ UNCHANGED content /\ Moves(a, "rollback")
<1> DEFINE f == Mine(a).file
<1>0. /\ a \in Procs /\ At(a, "write") /\ proc[a].h \in Handles /\ FilesTyped
      /\ Mine(a).open => f \in Files
      /\ UNCHANGED <<path, dpath, disk, openFiles, handle, acked>>
      /\ proc[a].pc \in MuPc
  BY ProcKinds, PcNames DEF TypeInv, Write, At, HandlesTyped, Mine, MuPc
<1>1. NewFrame(a) \in AnyFrame /\ Torn \in AnyFrame
  BY <1>0, FrameTypes, FrameOfAppend
<1>2. ASSUME NEW fr \in AnyFrame, Mine(a).open,
             content' = [content EXCEPT ![f] = Append(@, fr)]
      PROVE  Sets(f, Append(content[f], fr), disk[f]) /\ FilesTyped'
  <2> DEFINE s == Append(content[f], fr)
  <2>1. f \in Files /\ s \in Seq(AnyFrame)
    BY <1>0, <1>2 DEF FilesTyped
  <2>2. content' = [content EXCEPT ![f] = s]
    BY <1>2
  <2> HIDE DEF s
  <2>3. Sets(f, s, disk[f]) /\ FilesTyped'
    BY <1>0, <2>1, <2>2, SetContent
  <2>4. QED
    BY <2>3 DEF s
<1>3. \/ Mine(a).open /\ content' = [content EXCEPT ![f] = Append(@, NewFrame(a))] /\ Go(a, "sync")
      \/ Mine(a).open /\ content' = [content EXCEPT ![f] = Append(@, Torn)] /\ Go(a, "rollback")
      \/ UNCHANGED content /\ Go(a, "rollback")
  BY DEF Write
<1>4. /\ Go(a, "sync") => Moves(a, "sync") /\ Keeps(a)
      /\ Go(a, "rollback") => Moves(a, "rollback") /\ Keeps(a)
  BY <1>0, GoMoves
<1> HIDE DEF f
<1>5. CASE Mine(a).open /\ content' = [content EXCEPT ![f] = Append(@, NewFrame(a))] /\ Go(a, "sync")
  BY <1>0, <1>1, <1>2, <1>4, <1>5 DEF f
<1>6. CASE Mine(a).open /\ content' = [content EXCEPT ![f] = Append(@, Torn)] /\ Go(a, "rollback")
  BY <1>0, <1>1, <1>2, <1>4, <1>6 DEF f
<1>7. CASE UNCHANGED content /\ Go(a, "rollback")
  BY <1>0, <1>4, <1>7 DEF FilesTyped
<1>8. QED
  BY <1>3, <1>5, <1>6, <1>7

LEMMA SyncEffect ==
  ASSUME TypeInv, NEW a \in Appenders, Sync(a)
  PROVE  /\ At(a, "sync") /\ proc[a].h \in Handles
         /\ UNCHANGED <<path, dpath, content, openFiles>> /\ FilesTyped' /\ HandlesTyped'
         /\ \/ /\ Mine(a).open /\ Mine(a).file \in Files
               /\ Sets(Mine(a).file, content[Mine(a).file], content[Mine(a).file])
               /\ \A g \in Handles \ {proc[a].h} : handle'[g] = handle[g]
               /\ handle'[proc[a].h].count = Mine(a).count + 1
               /\ handle'[proc[a].h].mu = None /\ handle'[proc[a].h].file = Mine(a).file
               /\ handle'[proc[a].h].open
               /\ acked' = acked \cup {proc[a].op}
               /\ Moves(a, "idle") /\ proc'[a].h = None
            \/ UNCHANGED <<disk, handle, acked>> /\ Moves(a, "rollback") /\ Keeps(a)
<1> DEFINE h == proc[a].h
           f == handle[h].file
           n == handle[h].count + 1
           r == [handle[h] EXCEPT !.count = n, !.mu = None]
<1>0. /\ a \in Procs /\ At(a, "sync") /\ h \in Handles /\ FilesTyped /\ HandlesTyped
      /\ handle[h] \in HandleState /\ (handle[h].open => f \in Files)
      /\ UNCHANGED <<path, dpath, content, openFiles>>
  BY ProcKinds, PcNames DEF TypeInv, Sync, At, HandlesTyped
<1>1. CASE /\ handle[h].open /\ Return(a) /\ acked' = acked \cup {proc[a].op}
           /\ disk' = [disk EXCEPT ![f] = content[f]]
           /\ handle' = [handle EXCEPT ![h].count = @ + 1, ![h].mu = None]
  <2>0. n \in Nat
    BY <1>0 DEF HandleState
  <2>2. handle' = [handle EXCEPT ![h] = r]
    BY <1>0, <1>1 DEF HandlesTyped
  <2> HIDE DEF n
  <2>1. r \in HandleState /\ r.open = handle[h].open /\ r.file = f /\ r.count = n /\ r.mu = None
    BY <1>0, <2>0 DEF HandleState
  <2> HIDE DEF r
  <2>3. handle'[h] = r /\ (\A g \in Handles \ {h} : handle'[g] = handle[g]) /\ HandlesTyped'
    BY <1>0, <2>1, <2>2, SetHandle
  <2>4. f \in Files /\ content[f] \in Seq(AnyFrame)
    BY <1>0, <1>1 DEF FilesTyped
  <2> HIDE DEF f
  <2>5. content' = [content EXCEPT ![f] = content[f]]
    BY <1>0, <2>4 DEF FilesTyped
  <2>6. Sets(f, content[f], content[f]) /\ FilesTyped'
    BY <1>1, <2>4, <2>5, SetFile
  <2>7. QED
    BY <1>0, <1>1, <2>1, <2>3, <2>4, <2>6, ReturnMoves DEF Mine, f, n
<1>2. CASE Go(a, "rollback") /\ UNCHANGED <<disk, handle, acked>>
  BY <1>0, <1>2, GoMoves DEF FilesTyped, HandlesTyped
<1>3. QED
  BY <1>1, <1>2 DEF Sync, Mine

LEMMA RollbackEffect ==
  ASSUME TypeInv, NEW a \in Appenders, Rollback(a)
  PROVE  /\ At(a, "rollback") /\ proc[a].h \in Handles
         /\ UNCHANGED <<path, dpath, openFiles, acked>> /\ FilesTyped' /\ HandlesTyped'
         /\ Shuts(proc[a].h) /\ Moves(a, "drop") /\ Keeps(a)
         /\ \/ UNCHANGED <<content, disk>>
            \/ /\ Mine(a).open /\ Mine(a).file \in Files
               /\ \/ Sets(Mine(a).file, Cut(content[Mine(a).file], Mine(a).count),
                          disk[Mine(a).file])
                  \/ Sets(Mine(a).file, Cut(content[Mine(a).file], Mine(a).count),
                          Cut(content[Mine(a).file], Mine(a).count))
<1> DEFINE f == Mine(a).file
           s == Cut(content[f], Mine(a).count)
<1>0. /\ a \in Procs /\ At(a, "rollback") /\ proc[a].h \in Handles /\ FilesTyped
      /\ (Mine(a).open => f \in Files) /\ Mine(a).count \in Nat
      /\ UNCHANGED <<path, dpath, openFiles, acked>>
  BY ProcKinds, PcNames DEF TypeInv, Rollback, At, HandlesTyped, HandleState, Mine
<1>1. Shuts(proc[a].h) /\ HandlesTyped' /\ Moves(a, "drop") /\ Keeps(a)
  BY <1>0, GoMoves, HandleShuts DEF Rollback
<1>2. CASE UNCHANGED <<content, disk>>
  BY <1>0, <1>1, <1>2 DEF FilesTyped
<1>3. CASE /\ Mine(a).open /\ content' = [content EXCEPT ![f] = s]
           /\ disk' = disk \/ disk' = [disk EXCEPT ![f] = s]
  <2>1. f \in Files /\ s \in Seq(AnyFrame)
    BY <1>0, <1>3, CutShape DEF FilesTyped
  <2> HIDE DEF s, f
  <2>2. FilesTyped' /\ (Sets(f, s, disk[f]) \/ Sets(f, s, s))
    BY <1>3, <2>1, SetFile, SetContent
  <2>3. QED
    BY <1>0, <1>1, <1>3, <2>1, <2>2 DEF s, f
<1>4. \/ UNCHANGED <<content, disk>>
      \/ /\ Mine(a).open /\ content' = [content EXCEPT ![f] = s]
         /\ disk' = disk \/ disk' = [disk EXCEPT ![f] = s]
  <2>1. Mine(a).open => [content EXCEPT ![f] = s][f] = s
    BY <1>0 DEF FilesTyped
  <2>2. QED
    BY <2>1 DEF Rollback
<1>5. QED
  BY <1>2, <1>3, <1>4

LEMMA DropEffect ==
  ASSUME TypeInv, NEW a \in Appenders, Drop(a)
  PROVE  /\ At(a, "drop") /\ proc[a].h \in Handles
         /\ UNCHANGED <<files, acked>> /\ openFiles' = None /\ HandlesTyped'
         /\ Marks(proc[a].h, None) /\ Moves(a, "idle") /\ proc'[a].h = None
<1>0. a \in Procs /\ At(a, "drop") /\ proc[a].h \in Handles
  BY ProcKinds, PcNames DEF TypeInv, Drop, At
<1>1. QED
  BY <1>0, ReturnMoves, HandleMarks DEF Drop

\* Records written again in any order: none is lost, and each is in its new place.
Shuffled(s, order) == [k \in DOMAIN s |-> [op |-> s[order[k]].op, idx |-> k]]

LEMMA ShuffleKeeps ==
  ASSUME NEW s \in Seq(AnyFrame), NEW order \in SetToSeqs(DOMAIN s)
  PROVE  /\ Shuffled(s, order) \in Seq(AnyFrame)
         /\ Good(s) /\ Whole(s) => Good(Shuffled(s, order))
         /\ \A op \in Nat : Has(s, op) => Has(Shuffled(s, order), op)
<1> DEFINE n == Len(s)
           t == Shuffled(s, order)
<1>1. DOMAIN s = 1..n /\ n \in Nat /\ \A k \in 1..n : s[k] \in AnyFrame
  OBVIOUS
<1> HIDE DEF n
<1>2. IsFiniteSet(1..n) /\ Cardinality(1..n) = n
  BY <1>1, FS_Interval
<1>3. order \in [1..n -> 1..n] /\ \A i, j \in 1..n : i # j => order[i] # order[j]
  BY <1>1, <1>2 DEF SetToSeqs
<1>4. \A m \in 1..n : \E k \in 1..n : order[k] = m
  <2>1. order \in Injection(1..n, 1..n)
    BY <1>3 DEF Injection, IsInjective
  <2>2. order \in Surjection(1..n, 1..n)
    BY <1>2, <2>1, FS_Injection
  <2>3. QED
    BY <2>2 DEF Surjection
<1>5. t = [k \in 1..n |-> [op |-> s[order[k]].op, idx |-> k]]
  BY <1>1 DEF Shuffled
<1> HIDE DEF t
<1>6. \A k \in 1..n : t[k].op = s[order[k]].op /\ t[k].idx = k /\ t[k] \in AnyFrame
  BY <1>1, <1>3, <1>5 DEF AnyFrame
<1>7. t \in Seq(AnyFrame) /\ Len(t) = n
  <2>1. t \in [1..n -> AnyFrame]
    BY <1>5, <1>6
  <2>2. QED
    BY <1>1, <1>5, <2>1
<1>8. ASSUME Good(s), Whole(s) PROVE Good(t)
  <2> SUFFICES ASSUME NEW k \in 1..n PROVE t[k] # Torn /\ t[k].idx = k /\ t[k].op # 0
    BY <1>7 DEF Good
  <2>1. order[k] \in 1..n
    BY <1>3
  <2>2. s[order[k]].op # 0
    BY <1>8, <2>1 DEF Good, Whole, n
  <2>3. QED
    BY <1>6, <2>2, FrameTypes
<1>9. ASSUME NEW op \in Nat, Has(s, op) PROVE Has(t, op)
  <2>1. PICK m \in 1..n : s[m].op = op
    BY <1>9 DEF Has, n
  <2>2. PICK k \in 1..n : order[k] = m
    BY <1>4
  <2>3. QED
    BY <1>6, <1>7, <2>1, <2>2 DEF Has
<1>10. QED
  BY <1>7, <1>8, <1>9 DEF t

LEMMA EvictEffect ==
  ASSUME TypeInv, Evict
  PROVE  /\ At(Evictor, "idle") /\ UNCHANGED <<files, openFiles, handle, acked>>
         /\ Moves(Evictor, "take") /\ Keeps(Evictor) /\ proc' \in [Procs -> ProcState]
BY ProcKinds, GoMoves DEF Evict, CompactPc

LEMMA TakeEffect ==
  ASSUME TypeInv, NEW c \in Closers, TakeHandle(c)
  PROVE  /\ At(c, "take") /\ UNCHANGED <<files, handle, acked>>
         /\ proc' \in [Procs -> ProcState] /\ proc'[c].buf = proc[c].buf
         /\ \/ openFiles = None /\ openFiles' = None /\ Moves(c, AfterTake(c)) /\ Keeps(c)
            \/ /\ openFiles \in Handles /\ openFiles' = None
               /\ Moves(c, "close") /\ proc'[c].h = openFiles
<1>0. c \in Procs /\ openFiles \in Handles \cup {None} /\ AfterTake(c) \in AppendPc \cup CompactPc
      /\ "close" \in AppendPc \cup CompactPc
  BY DEF Procs, TypeInv, AfterTake, CompactPc
<1>1. CASE openFiles = None
  BY <1>0, <1>1, GoMoves DEF TakeHandle, Keeps
<1>2. CASE openFiles # None
  <2>1. /\ GoWith(c, "close", openFiles) /\ openFiles' = None
        /\ At(c, "take") /\ UNCHANGED <<files, handle, acked>>
    BY <1>2 DEF TakeHandle, GoWith
  <2>2. QED
    BY <1>0, <1>2, <2>1, GoWithMoves
<1>3. QED
  BY <1>1, <1>2

LEMMA CloseEffect ==
  ASSUME TypeInv, NEW c \in Closers, CloseHandle(c)
  PROVE  /\ At(c, "close") /\ proc[c].h \in Handles /\ handle[proc[c].h].mu = None
         /\ UNCHANGED <<files, openFiles, acked>> /\ HandlesTyped' /\ Shuts(proc[c].h)
         /\ proc' \in [Procs -> ProcState] /\ Moves(c, AfterTake(c))
         /\ proc'[c].h = None /\ proc'[c].buf = proc[c].buf
<1>0. c \in Procs /\ At(c, "close") /\ proc[c].h \in Handles
      /\ AfterTake(c) \in AppendPc \cup CompactPc /\ None \in Handles \cup {None}
  BY DEF Procs, TypeInv, AfterTake, CompactPc, CloseHandle, At
<1> DEFINE pc == AfterTake(c)
<1>1. /\ GoWith(c, pc, None)
      /\ handle' = [handle EXCEPT ![proc[c].h].open = FALSE]
      /\ handle[proc[c].h].mu = None /\ UNCHANGED <<files, openFiles, acked>>
  BY DEF CloseHandle, Mine, GoWith
<1> HIDE DEF pc
<1>2. /\ Moves(c, pc) /\ proc'[c].h = None /\ proc'[c].buf = proc[c].buf
      /\ proc' \in [Procs -> ProcState]
  BY <1>0, <1>1, GoWithMoves DEF pc
<1>3. QED
  BY <1>0, <1>1, <1>2, HandleShuts DEF pc

LEMMA CompactReadEffect ==
  ASSUME TypeInv, CompactRead
  PROVE  /\ At(Compactor, "idle") /\ path \in Files
         /\ UNCHANGED <<files, openFiles, handle, acked>> /\ proc' \in [Procs -> ProcState]
         /\ proc'[Compactor].h = proc[Compactor].h
         /\ \/ Moves(Compactor, "done")
            \/ /\ Moves(Compactor, "take")
               /\ \E scan \in Scans(Journal) \cup Misreads(Journal) :
                  \E order \in SetToSeqs(DOMAIN scan) :
                    /\ scan # None /\ Read(scan)
                    /\ proc'[Compactor].buf = Shuffled(scan, order)
<1>0. /\ Compactor \in Procs /\ At(Compactor, "idle") /\ path \in Files
      /\ UNCHANGED <<files, openFiles, handle, acked>>
      /\ "done" \in CompactPc /\ "take" \in CompactPc
  BY ProcKinds, FileTypes DEF CompactRead, CompactPc
<1>1. CASE Go(Compactor, "done")
  BY <1>0, <1>1, GoMoves DEF Keeps
<1>2. ASSUME NEW scan \in Scans(Journal) \cup Misreads(Journal), scan # None, Read(scan),
             NEW order \in SetToSeqs(DOMAIN scan),
             proc' = [proc EXCEPT ![Compactor].pc = "take",
                                  ![Compactor].buf = Shuffled(scan, order)]
      PROVE  /\ Moves(Compactor, "take") /\ proc'[Compactor].h = proc[Compactor].h
             /\ proc'[Compactor].buf = Shuffled(scan, order)
             /\ proc' \in [Procs -> ProcState]
  <2> DEFINE t == Shuffled(scan, order)
  <2>1. t \in Seq(AnyFrame)
    BY <1>2, ScanTypes, FileTypes, ShuffleKeeps
  <2> HIDE DEF t
  <2>2. proc' = [proc EXCEPT ![Compactor].pc = "take", ![Compactor].buf = t]
    BY <1>2 DEF t
  <2> DEFINE r == [proc[Compactor] EXCEPT !.pc = "take", !.buf = t]
  <2>3. proc \in [Procs -> ProcState] /\ proc[Compactor] \in ProcState
    BY <1>0 DEF TypeInv
  <2>4. r \in ProcState /\ r.pc = "take" /\ r.buf = t /\ r.h = proc[Compactor].h
    BY <1>0, <2>1, <2>3 DEF ProcState
  <2>5. proc' = [proc EXCEPT ![Compactor] = r]
    BY <2>2, <2>3
  <2> HIDE DEF r
  <2>6. QED
    BY <1>0, <2>3, <2>4, <2>5 DEF Moves, t
<1>3. \/ Go(Compactor, "done")
      \/ \E scan \in Scans(Journal) \cup Misreads(Journal) : scan # None /\ Read(scan) /\
           \E order \in SetToSeqs(DOMAIN scan) :
             proc' = [proc EXCEPT ![Compactor].pc = "take",
                                  ![Compactor].buf = Shuffled(scan, order)]
  <2>1. faults \in Nat
    BY DEF TypeInv
  <2>2. PICK scan \in Scans(Journal) \cup Misreads(Journal) \cup {None} :
          /\ IF scan \in Scans(Journal) THEN NoFault ELSE Fault
          /\ \/ Go(Compactor, "done")
             \/ /\ scan # None
                /\ \E order \in SetToSeqs(DOMAIN scan) :
                     proc' = [proc EXCEPT ![Compactor].pc = "take",
                                          ![Compactor].buf = Shuffled(scan, order)]
    BY DEF CompactRead, Shuffled
  <2>3. Read(scan)
    BY <2>1, <2>2 DEF Read, Fault
  <2>4. QED
    BY <2>2, <2>3
<1>4. QED
  BY <1>0, <1>1, <1>2, <1>3

LEMMA RenameEffect ==
  ASSUME TypeInv, Rename
  PROVE  /\ At(Compactor, "rename") /\ UNCHANGED <<dpath, openFiles, handle, acked>>
         /\ Keeps(Compactor) /\ proc' \in [Procs -> ProcState] /\ FilesTyped'
         /\ \/ /\ path' \in Files /\ FreeFile(path') /\ Moves(Compactor, "dirsync")
               /\ Sets(path', proc[Compactor].buf, proc[Compactor].buf)
            \/ UNCHANGED <<path, content, disk>> /\ Moves(Compactor, "done")
<1> DEFINE s == proc[Compactor].buf
<1>0. /\ Compactor \in Procs /\ At(Compactor, "rename") /\ s \in Seq(AnyFrame)
      /\ UNCHANGED <<dpath, openFiles, handle, acked>> /\ FilesTyped
      /\ "done" \in CompactPc /\ "dirsync" \in CompactPc
  BY ProcKinds DEF Rename, CompactPc, TypeInv, ProcState
<1> HIDE DEF s
<1>1. CASE /\ path' \in Files /\ FreeFile(path') /\ Go(Compactor, "dirsync")
           /\ content' = [content EXCEPT ![path'] = s] /\ disk' = [disk EXCEPT ![path'] = s]
  BY <1>0, <1>1, GoMoves, SetFile DEF s
<1>2. CASE Go(Compactor, "done") /\ UNCHANGED <<path, content, disk>>
  BY <1>0, <1>2, GoMoves DEF FilesTyped
<1>3. QED
  BY <1>1, <1>2, PickFile DEF Rename, s

LEMMA SyncDirEffect ==
  ASSUME TypeInv, SyncDir
  PROVE  /\ At(Compactor, "dirsync") /\ dpath' \in {path, dpath}
         /\ UNCHANGED <<path, content, disk, openFiles, handle, acked>>
         /\ Moves(Compactor, "done") /\ Keeps(Compactor) /\ proc' \in [Procs -> ProcState]
BY ProcKinds, GoMoves DEF SyncDir, CompactPc

LEMMA CutOutcome ==
  ASSUME FilesTyped, NEW f \in Files, NEW s \in CrashOutcomes(f)
  PROVE  /\ s \in Seq(AnyFrame)
         /\ \/ s = content[f] \/ s = disk[f]
            \/ /\ IsStrictPrefix(disk[f], content[f])
               /\ \E n \in Len(disk[f])..Len(content[f]) :
                    \/ s = Cut(content[f], n)
                    \/ n < Len(content[f]) /\ s = Append(Cut(content[f], n), Torn)
<1>0. /\ content[f] \in Seq(AnyFrame) /\ disk[f] \in Seq(AnyFrame)
      /\ Len(content[f]) \in Nat /\ Len(disk[f]) \in Nat
  BY DEF FilesTyped
<1>1. CASE s = content[f] \/ s = disk[f]
  BY <1>0, <1>1
<1>2. CASE /\ IsStrictPrefix(disk[f], content[f])
           /\ \E n \in Len(disk[f])..Len(content[f]) : s = Cut(content[f], n)
  <2>1. PICK n \in Len(disk[f])..Len(content[f]) : s = Cut(content[f], n)
    BY <1>2
  <2>2. n \in Nat
    BY <1>0
  <2>3. QED
    BY <1>0, <1>2, <2>1, <2>2, CutShape
<1>3. CASE /\ IsStrictPrefix(disk[f], content[f])
           /\ \E n \in Len(disk[f])..(Len(content[f]) - 1) : s = Append(Cut(content[f], n), Torn)
  <2>1. PICK n \in Len(disk[f])..(Len(content[f]) - 1) : s = Append(Cut(content[f], n), Torn)
    BY <1>3
  <2>2. n \in Nat /\ n < Len(content[f]) /\ n \in Len(disk[f])..Len(content[f])
    BY <1>0
  <2>3. Cut(content[f], n) \in Seq(AnyFrame)
    BY <1>0, <2>2, CutShape
  <2>4. s \in Seq(AnyFrame)
    BY <2>1, <2>3, FrameTypes
  <2>5. QED
    BY <1>3, <2>1, <2>2, <2>4
<1>4. QED
  BY <1>1, <1>2, <1>3 DEF CrashOutcomes

LEMMA CrashEffect ==
  ASSUME TypeInv, Crash
  PROVE  /\ openFiles' = None /\ UNCHANGED acked
         /\ \A h \in Handles : ~handle'[h].open /\ handle'[h].mu = None
         /\ \A p \in Procs : proc'[p].h = None
         /\ \A p \in Procs \ {Compactor} : proc'[p].pc = "idle"
         /\ proc'[Compactor].pc \in {"idle", "done"}
         /\ proc[Compactor].pc # "idle" => proc'[Compactor].pc = "done"
         /\ proc' \in [Procs -> ProcState] /\ HandlesTyped' /\ FilesTyped'
         /\ \/ UNCHANGED files
            \/ /\ path' \in {path, dpath} /\ dpath' = path'
               /\ \A f \in Files : content'[f] \in CrashOutcomes(f) /\ disk'[f] = content'[f]
<1>0. FilesTyped
  BY DEF TypeInv
<1>1. openFiles' = None /\ UNCHANGED acked
  BY DEF Crash
<1>2. /\ HandlesTyped' /\ \A h \in Handles : ~handle'[h].open /\ handle'[h].mu = None
  <2>1. handle' = [h \in Handles |-> Closed]
    BY DEF Crash
  <2>2. Closed \in HandleState /\ ~Closed.open /\ Closed.mu = None
    BY DEF Closed, HandleState
  <2>3. QED
    BY <2>1, <2>2 DEF HandlesTyped
<1>3. /\ proc' \in [Procs -> ProcState] /\ \A p \in Procs : proc'[p].h = None
      /\ \A p \in Procs \ {Compactor} : proc'[p].pc = "idle"
      /\ proc'[Compactor].pc \in {"idle", "done"}
      /\ proc[Compactor].pc # "idle" => proc'[Compactor].pc = "done"
  <2> DEFINE d == [Idle EXCEPT !.pc = "done"]
  <2>1. d \in ProcState /\ d.pc = "done" /\ d.h = None
    BY IdleType DEF ProcState, CompactPc
  <2> HIDE DEF d
  <2>2. proc' = [p \in Procs |-> IF p = Compactor /\ ~At(p, "idle") THEN d ELSE Idle]
    BY DEF Crash, d
  <2>3. QED
    BY <2>1, <2>2, IdleType, ProcKinds DEF At
<1>4. CASE UNCHANGED files
  BY <1>0, <1>1, <1>2, <1>3, <1>4 DEF files, FilesTyped
<1>5. CASE PowerLoss
  <2>1. /\ path' \in {path, dpath} /\ dpath' = path' /\ disk' = content'
        /\ \A f \in Files : content'[f] \in CrashOutcomes(f)
    BY <1>5 DEF PowerLoss
  <2>2. content' \in [Files -> UNION {CrashOutcomes(f) : f \in Files}]
    BY <1>5 DEF PowerLoss
  <2>3. \A f \in Files : content'[f] \in Seq(AnyFrame)
    BY <1>0, <2>1, CutOutcome
  <2>4. content' \in [Files -> Seq(AnyFrame)]
    BY <2>2, <2>3
  <2>5. QED
    BY <1>1, <1>2, <1>3, <2>1, <2>4 DEF FilesTyped
<1>6. QED
  BY <1>4, <1>5 DEF Crash

-----------------------------------------------------------------------------
\* Types

LEMMA AppendShared ==
  ASSUME TypeInv, NEW a \in Appenders, AppendStep(a)
  PROVE  /\ path' \in Files \cup {None} /\ dpath' \in Files \cup {None}
         /\ FilesTyped' /\ HandlesTyped' /\ openFiles' \in Handles \cup {None}
         /\ ops' \in 0..MaxOps /\ faults' \in Nat /\ acked' \subseteq 1..MaxOps
<1>1. /\ path \in Files \cup {None} /\ dpath \in Files \cup {None}
      /\ FilesTyped /\ HandlesTyped /\ openFiles \in Handles \cup {None}
      /\ ops \in 0..MaxOps /\ faults \in Nat /\ acked \subseteq 1..MaxOps /\ MaxOps \in Nat
      /\ Busy(a) => proc[a].op \in 1..MaxOps
  BY BoundsAreNats DEF TypeInv
<1>2. ops' \in 0..MaxOps /\ faults' \in Nat
  BY <1>1 DEF AppendStep, Begin, Lookup, OpenFails, JournalTail, Stat, TruncateJournalTo,
     Open, LoadOrStore, DirSync, Lock, Write, Sync, Rollback, Drop, NoFault, Fault, bounds
<1>3. CASE Begin(a) \/ Lookup(a) \/ OpenFails(a) \/ JournalTail(a) \/ Stat(a)
  BY <1>1, <1>2, <1>3, LookEffect DEF files, FilesTyped, HandlesTyped
<1>4. CASE TruncateJournalTo(a)
  BY <1>1, <1>2, <1>4, TruncateEffect DEF HandlesTyped
<1>5. CASE Open(a)
  BY <1>1, <1>2, <1>5, OpenEffect
<1>6. CASE LoadOrStore(a)
  BY <1>1, <1>2, <1>6, StoreEffect DEF files, FilesTyped
<1>7. CASE DirSync(a)
  BY <1>1, <1>2, <1>7, DirSyncEffect DEF FilesTyped
<1>8. CASE Lock(a)
  BY <1>1, <1>2, <1>8, LockEffect DEF files, FilesTyped
<1>9. CASE Write(a)
  BY <1>1, <1>2, <1>9, WriteEffect DEF HandlesTyped
<1>10. CASE Sync(a)
  <2>1. proc[a].op \in 1..MaxOps
    BY <1>1, <1>10, SyncEffect DEF At, Busy
  <2>2. QED
    BY <1>1, <1>2, <1>10, <2>1, SyncEffect
<1>11. CASE Rollback(a)
  BY <1>1, <1>2, <1>11, RollbackEffect
<1>12. CASE Drop(a)
  BY <1>1, <1>2, <1>12, DropEffect DEF files, FilesTyped
<1>13. QED
  BY <1>3, <1>4, <1>5, <1>6, <1>7, <1>8, <1>9, <1>10, <1>11, <1>12 DEF AppendStep

CloserStep ==
  \/ \E c \in Closers : TakeHandle(c) \/ CloseHandle(c)
  \/ Evict \/ CompactRead \/ Rename \/ SyncDir

CloserTyped ==
  /\ path' \in Files \cup {None} /\ dpath' \in Files \cup {None}
  /\ FilesTyped' /\ HandlesTyped' /\ openFiles' \in Handles \cup {None}
  /\ ops' \in 0..MaxOps /\ faults' \in Nat /\ acked' \subseteq 1..MaxOps
  /\ proc' \in [Procs -> ProcState]
  /\ \A a \in Appenders : proc'[a] = proc[a]
  /\ \A c \in Closers : proc'[c].pc \in CompactPc
                          /\ (proc'[c].pc = "close" => proc'[c].h \in Handles)
  /\ proc'[Evictor].pc \in {"idle", "take", "close"}

LEMMA CloserTypes == TypeInv /\ CloserStep => CloserTyped
<1> SUFFICES ASSUME TypeInv, CloserStep PROVE CloserTyped
  OBVIOUS
<1> USE DEF CloserTyped
<1>1. /\ path \in Files \cup {None} /\ dpath \in Files \cup {None}
      /\ FilesTyped /\ HandlesTyped /\ openFiles \in Handles \cup {None}
      /\ ops \in 0..MaxOps /\ faults \in Nat /\ acked \subseteq 1..MaxOps
      /\ \A c \in Closers : proc[c].pc \in CompactPc
                              /\ (proc[c].pc = "close" => proc[c].h \in Handles)
      /\ proc[Evictor].pc \in {"idle", "take", "close"}
  BY DEF TypeInv
<1>2. ops' = ops /\ faults' \in Nat
  <2>1. ops' = ops /\ (faults' = faults \/ faults' = faults + 1)
    BY DEF CloserStep, TakeHandle, CloseHandle, Evict, CompactRead, Rename, SyncDir, NoFault,
       Fault, bounds
  <2>2. QED
    BY <1>1, <2>1
<1>3. Procs = Appenders \cup Closers /\ Closers \cap Appenders = {} /\ Closers = {Evictor, Compactor}
      /\ Evictor # Compactor
  BY DistinctProcs DEF Procs, Closers
<1>4. ASSUME NEW c \in Closers, TakeHandle(c) PROVE CloserTyped
  BY <1>1, <1>2, <1>3, <1>4, TakeEffect
     DEF files, FilesTyped, HandlesTyped, Moves, Keeps, At, AfterTake, CompactPc
<1>5. ASSUME NEW c \in Closers, CloseHandle(c) PROVE CloserTyped
  BY <1>1, <1>2, <1>3, <1>5, CloseEffect
     DEF files, FilesTyped, Moves, At, AfterTake, CompactPc
<1>6. CASE Evict
  BY <1>1, <1>2, <1>3, <1>6, EvictEffect
     DEF files, FilesTyped, HandlesTyped, Moves, Keeps, At, CompactPc
<1>7. CASE CompactRead
  BY <1>1, <1>2, <1>3, <1>7, CompactReadEffect
     DEF files, FilesTyped, HandlesTyped, Moves, At, CompactPc
<1>8. CASE Rename
  BY <1>1, <1>2, <1>3, <1>8, RenameEffect
     DEF FilesTyped, HandlesTyped, Moves, Keeps, At, CompactPc
<1>9. CASE SyncDir
  BY <1>1, <1>2, <1>3, <1>9, SyncDirEffect
     DEF FilesTyped, HandlesTyped, Moves, Keeps, At, CompactPc
<1>10. QED
  BY <1>4, <1>5, <1>6, <1>7, <1>8, <1>9 DEF CloserStep

LEMMA StepOf ==
  ASSUME Next
  PROVE  (\E a \in Appenders : AppendStep(a)) \/ CloserStep \/ Crash
BY DEF Next, CloserStep

LEMMA TypeStep == TypeInv /\ [Next]_vars => TypeInv'
<1> SUFFICES ASSUME TypeInv, [Next]_vars PROVE TypeInv'
  OBVIOUS
<1>1. CASE UNCHANGED vars
  BY <1>1 DEF vars, files, bounds, TypeInv, FilesTyped, HandlesTyped, Busy, At
<1>2. CASE Next
  <2>1. overlapped' \in BOOLEAN /\ unnamed' \in BOOLEAN
    BY <1>2 DEF Next, TypeInv
  <2>2. /\ Procs = Appenders \cup Closers /\ Closers \cap Appenders = {}
        /\ Closers = {Evictor, Compactor} /\ Evictor # Compactor
    BY DistinctProcs DEF Procs, Closers
  <2>3. ASSUME NEW a \in Appenders, AppendStep(a) PROVE TypeInv'
    BY <2>1, <2>2, <2>3, AppendShared, AppendProc DEF TypeInv, Busy, At
  <2>4. CASE CloserStep
    BY <2>1, <2>2, <2>4, CloserTypes DEF CloserTyped, TypeInv, Busy, At
  <2>5. CASE Crash
    <3>1. path' \in Files \cup {None} /\ dpath' \in Files \cup {None}
      BY <2>5, CrashEffect DEF TypeInv, files
    <3>2. ops' \in 0..MaxOps /\ faults' \in Nat /\ acked' \subseteq 1..MaxOps
      BY <2>5 DEF Crash, TypeInv
    <3>3. QED
      BY <2>1, <2>2, <2>5, <3>1, <3>2, CrashEffect, PcNames
         DEF TypeInv, Busy, At, CompactPc, AppendOpenPc
  <2>6. QED
    BY <1>2, <2>3, <2>4, <2>5, StepOf
<1>3. QED
  BY <1>1, <1>2

LEMMA TypeInit == Init => TypeInv
<1> SUFFICES ASSUME Init PROVE TypeInv
  OBVIOUS
<1>1. proc \in [Procs -> ProcState] /\ \A p \in Procs : proc[p] = Idle
  BY IdleType DEF Init
<1>2. FilesTyped
  BY GoodEmpty DEF Init, FilesTyped
<1>3. HandlesTyped
  <2>1. Closed \in HandleState /\ ~Closed.open
    BY DEF Closed, HandleState
  <2>2. QED
    BY <2>1 DEF Init, HandlesTyped
<1>4. ops \in 0..MaxOps /\ faults \in Nat
  BY BoundsAreNats DEF Init
<1>5. QED
  BY <1>1, <1>2, <1>3, <1>4, IdleType, PcNames
     DEF Init, TypeInv, Busy, At, Procs, Closers, CompactPc, AppendOpenPc

-----------------------------------------------------------------------------
\* Who has which handle

\* What HandleInv and TypeInv say of places, in one piece.
LEMMA Places ==
  ASSUME TypeInv
  PROVE  /\ openFiles \in Handles \cup {None} /\ None \notin Handles /\ None \notin Appenders
         /\ Procs = Appenders \cup Closers /\ Closers \cap Appenders = {}
         /\ \A a \in Appenders : proc[a].pc \in OpenedPc => proc[a].h \in Handles
         /\ \A p \in Procs : proc[p].h \in Handles \cup {None}
         /\ \A c \in Closers : proc[c].pc = "close" => proc[c].h \in Handles
         /\ MuPc \subseteq OpenedPc /\ OpenedPc = MuPc \cup {"store", "dirsync", "lock"}
         /\ MuPc = {"write", "sync", "rollback", "drop"}
         /\ AppendOpenPc = {"tail", "stat", "truncate", "open"}
BY NoneIsNoName, DistinctProcs
   DEF TypeInv, Procs, Closers, ProcState, MuPc, OpenedPc, AppendOpenPc

LEMMA AppendKeepsHandles ==
  ASSUME TypeInv, HandleInv, NEW a \in Appenders, AppendStep(a)
  PROVE  HandleInv'
<1> USE DEF At, Moves, Keeps, HandleInv, Owned, Released, Held, Dropped, NoDeadHandle
<1>3. CASE Begin(a) \/ Lookup(a) \/ OpenFails(a) \/ JournalTail(a) \/ Stat(a)
  <2>1. Owned'
    BY <1>3, LookEffect, Places
  <2>2. Released'
    BY <1>3, LookEffect, Places
  <2>3. Held'
    BY <1>3, LookEffect, Places
  <2>4. Dropped'
    BY <1>3, LookEffect, Places
  <2>5. NoDeadHandle'
    BY <1>3, LookEffect, Places
  <2>6. QED
    BY <2>1, <2>2, <2>3, <2>4, <2>5
<1>4. CASE TruncateJournalTo(a)
  <2>1. Owned'
    BY <1>4, TruncateEffect, Places
  <2>2. Released'
    BY <1>4, TruncateEffect, Places
  <2>3. Held'
    BY <1>4, TruncateEffect, Places
  <2>4. Dropped'
    BY <1>4, TruncateEffect, Places
  <2>5. NoDeadHandle'
    BY <1>4, TruncateEffect, Places
  <2>6. QED
    BY <2>1, <2>2, <2>3, <2>4, <2>5
<1>5. CASE Open(a)
  BY <1>5, OpenEffect, Places DEF FreeHandle
<1>6. CASE LoadOrStore(a)
  BY <1>6, StoreEffect, Places DEF Shuts
<1>7. CASE DirSync(a)
  <2>1. Owned'
    BY <1>7, DirSyncEffect, Places DEF Shuts
  <2>2. Released'
    BY <1>7, DirSyncEffect, Places DEF Shuts
  <2>3. Held'
    BY <1>7, DirSyncEffect, Places DEF Shuts
  <2>4. Dropped'
    BY <1>7, DirSyncEffect, Places DEF Shuts
  <2>5. NoDeadHandle'
    BY <1>7, DirSyncEffect, Places DEF Shuts
  <2>6. QED
    BY <2>1, <2>2, <2>3, <2>4, <2>5
<1>8. CASE Lock(a)
  BY <1>8, LockEffect, Places DEF Marks
<1>9. CASE Write(a)
  BY <1>9, WriteEffect, Places
<1>10. CASE Sync(a)
  <2>1. Owned'
    BY <1>10, SyncEffect, Places DEF Mine
  <2>2. Released'
    BY <1>10, SyncEffect, Places DEF Mine
  <2>3. Held'
    BY <1>10, SyncEffect, Places DEF Mine
  <2>4. Dropped'
    BY <1>10, SyncEffect, Places DEF Mine
  <2>5. NoDeadHandle'
    BY <1>10, SyncEffect, Places DEF Mine
  <2>6. QED
    BY <2>1, <2>2, <2>3, <2>4, <2>5
<1>11. CASE Rollback(a)
  BY <1>11, RollbackEffect, Places DEF Shuts
<1>12. CASE Drop(a)
  <2>1. Owned'
    BY <1>12, DropEffect, Places DEF Marks
  <2>2. Released'
    BY <1>12, DropEffect, Places DEF Marks
  <2>3. Held'
    BY <1>12, DropEffect, Places DEF Marks
  <2>4. Dropped'
    BY <1>12, DropEffect, Places DEF Marks
  <2>5. NoDeadHandle'
    BY <1>12, DropEffect, Places DEF Marks
  <2>6. QED
    BY <2>1, <2>2, <2>3, <2>4, <2>5
<1>13. QED
  BY <1>3, <1>4, <1>5, <1>6, <1>7, <1>8, <1>9, <1>10, <1>11, <1>12 DEF AppendStep

LEMMA CloserKeepsHandles ==
  ASSUME TypeInv, HandleInv, CloserStep
  PROVE  HandleInv'
<1> USE DEF At, Moves, Keeps, HandleInv, Owned, Released, Held, Dropped, NoDeadHandle
<1>1. ASSUME NEW c \in Closers, TakeHandle(c) PROVE HandleInv'
  <2>1. Owned'
    BY <1>1, TakeEffect, Places DEF AfterTake
  <2>2. Released'
    BY <1>1, TakeEffect, Places DEF AfterTake
  <2>3. Held'
    BY <1>1, TakeEffect, Places DEF AfterTake
  <2>4. Dropped'
    BY <1>1, TakeEffect, Places DEF AfterTake
  <2>5. NoDeadHandle'
    BY <1>1, TakeEffect, Places DEF AfterTake
  <2>6. QED
    BY <2>1, <2>2, <2>3, <2>4, <2>5
<1>2. ASSUME NEW c \in Closers, CloseHandle(c) PROVE HandleInv'
  BY <1>2, CloseEffect, Places DEF Shuts, AfterTake
<1>3. CASE Evict
  BY <1>3, EvictEffect, Places DEF Closers
<1>4. CASE CompactRead
  BY <1>4, CompactReadEffect, Places DEF Closers
<1>5. CASE Rename
  BY <1>5, RenameEffect, Places DEF Closers
<1>6. CASE SyncDir
  BY <1>6, SyncDirEffect, Places DEF Closers
<1>7. QED
  BY <1>1, <1>2, <1>3, <1>4, <1>5, <1>6 DEF CloserStep

LEMMA HandleStep == TypeInv /\ HandleInv /\ [Next]_vars => HandleInv'
<1> SUFFICES ASSUME TypeInv, HandleInv, [Next]_vars PROVE HandleInv'
  OBVIOUS
<1>1. CASE UNCHANGED vars
  BY <1>1 DEF vars, files, bounds, HandleInv, Owned, Released, Held, Dropped, NoDeadHandle, At
<1>2. CASE Crash
  BY <1>2, CrashEffect, Places, ProcKinds
     DEF HandleInv, Owned, Released, Held, Dropped, NoDeadHandle, At
<1>3. QED
  BY <1>1, <1>2, AppendKeepsHandles, CloserKeepsHandles, StepOf

LEMMA HandleInit == Init => HandleInv
BY NoneIsNoName, IdleType 
   DEF Init, HandleInv, Owned, Released, Held, Dropped, NoDeadHandle, At, MuPc, Closed, Procs, Closers, Idle

\* A closed handle in openFiles is on its way out: no append of the run is left to
\* fail for ever on a handle that nobody replaces.
THEOREM ClosedHandlesLeave == Spec => []NoDeadHandle
<1>1. Init => TypeInv /\ HandleInv
  BY TypeInit, HandleInit
<1>2. TypeInv /\ HandleInv /\ [Next]_vars => (TypeInv /\ HandleInv)'
  BY TypeStep, HandleStep
<1>3. TypeInv /\ HandleInv => NoDeadHandle
  BY DEF HandleInv
<1>4. QED
  BY <1>1, <1>2, <1>3, PTL DEF Spec

-----------------------------------------------------------------------------
\* One handle, and what it says of the file

LEMMA AloneNext ==
  ASSUME TypeInv, Next, ~overlapped'
  PROVE  ~overlapped /\ Alone'
<1>1. ~overlapped /\ ~Overlap'
  BY DEF Next, TypeInv
<1>2. QED
  BY <1>1 DEF Overlap, Alone

\* The handle of an appender is the only one that appends may go through.
CurrentOne ==
  /\ \A a \in Appenders :
       /\ proc[a].pc \in AppendOpenPc => \A h \in Handles : ~Current(h)
       /\ proc[a].pc \in OpenedPc => \A h \in Handles : Current(h) => h = proc[a].h
  /\ proc[Compactor].pc \in {"close", "rename", "dirsync"} => \A h \in Handles : ~Current(h)

LEMMA OnlyOne == TypeInv /\ Alone /\ OneHandle => CurrentOne
<1> SUFFICES ASSUME TypeInv, Alone, OneHandle PROVE CurrentOne
  OBVIOUS
<1>1. OpenPc = AppendOpenPc \cup {"store", "dirsync"} /\ HoldPc = OpenedPc \ {"store"}
  BY DEF OpenPc, AppendOpenPc, HoldPc
<1>2. ASSUME NEW a \in Appenders, proc[a].pc \in AppendOpenPc, NEW h \in Handles
      PROVE  ~Current(h)
  BY <1>1, <1>2, Places DEF Alone, OneHandle, Opening, Busy, At, Current
<1>3. ASSUME NEW a \in Appenders, proc[a].pc \in OpenedPc, NEW h \in Handles, Current(h)
      PROVE  h = proc[a].h
  BY <1>1, <1>3, Places DEF Alone, OneHandle, Opening, Busy, At, Current
<1>4. ASSUME proc[Compactor].pc \in {"close", "rename", "dirsync"}, NEW h \in Handles
      PROVE  ~Current(h)
  BY <1>4, Places DEF Alone, OneHandle, Compacting, Busy, At, Current
<1>5. QED
  BY <1>2, <1>3, <1>4 DEF CurrentOne

LEMMA OnlyOneNext == (TypeInv /\ Alone /\ OneHandle => CurrentOne)'
BY OnlyOne, PTL

\* Whoever opens the file is by itself, and so is compaction.
LEMMA Solo ==
  ASSUME Alone
  PROVE  /\ \A a \in Appenders : proc[a].pc \in AppendOpenPc \cup {"store", "dirsync"} =>
              /\ \A b \in Appenders \ {a} : proc[b].pc = "idle"
              /\ proc[Compactor].pc \in {"idle", "done"}
         /\ proc[Compactor].pc \notin {"idle", "done"} =>
              \A a \in Appenders : proc[a].pc = "idle"
         /\ \A a \in Appenders : proc[a].pc # "idle" =>
              /\ proc[Compactor].pc \in {"idle", "done"}
              /\ \A b \in Appenders \ {a} :
                   proc[b].pc \notin AppendOpenPc \cup {"store", "dirsync"}
BY DEF Alone, Opening, Busy, At, Compacting, OpenPc, AppendOpenPc

LEMMA GoodJournal ==
  ASSUME TypeInv, GoodFiles
  PROVE  Journal \in Seq(AnyFrame) /\ Good(Journal)
BY FileTypes, GoodEmpty DEF GoodFiles, TypeInv, Journal

\* A step that leaves the file and the handles in use as they are.
LEMMA CountsFrame ==
  ASSUME Counts, UNCHANGED <<path, content>>,
         \A h \in Handles : Current(h)' => Current(h),
         \A h \in Handles : Current(h) /\ handle'[h].open =>
           /\ handle'[h] = handle[h]
           /\ handle[h].mu # None => proc'[handle[h].mu] = proc[handle[h].mu]
  PROVE  Counts'
<1>1. Journal' = Journal
  BY DEF Journal
<1> HIDE DEF Journal
<1> SUFFICES ASSUME NEW h \in Handles, Current(h)', handle'[h].open
             PROVE  /\ handle'[h].file = path'
                    /\ handle'[h].count <= Len(Journal')
                    /\ handle'[h].mu = None \/ proc'[handle'[h].mu].pc = "write" =>
                         Whole(Journal') /\ Len(Journal') = handle'[h].count
                    /\ handle'[h].mu # None /\ proc'[handle'[h].mu].pc = "sync" =>
                         /\ Whole(Journal') /\ Len(Journal') = handle'[h].count + 1
                         /\ Journal'[Len(Journal')].op = proc'[handle'[h].mu].op
  BY DEF Counts, Whole, At
<1>2. Current(h) /\ handle'[h] = handle[h]
      /\ (handle[h].mu # None => proc'[handle[h].mu] = proc[handle[h].mu])
  OBVIOUS
<1>3. QED
  BY <1>1, <1>2 DEF Counts, At

LEMMA NotHolding ==
  ASSUME TypeInv, HandleInv, NEW a \in Appenders, proc[a].pc \notin MuPc
  PROVE  \A h \in Handles : handle[h].mu # None => handle[h].mu \in Appenders \ {a}
BY DEF HandleInv, Held, TypeInv, HandlesTyped, HandleState

LEMMA LookCalm ==
  ASSUME TypeInv, HandleInv, Calm, Alone', TypeInv', NEW a \in Appenders,
         Begin(a) \/ Lookup(a) \/ OpenFails(a) \/ JournalTail(a) \/ Stat(a)
  PROVE  Calm'
<1>1. OneHandle'
  BY LookEffect, Places, ProcKinds
     DEF Calm, OneHandle, Moves, At, Opening, OpenPc, HoldPc, OpenedPc, AppendOpenPc
<1>2. GoodFiles'
  BY LookEffect, ProcKinds DEF Calm, GoodFiles, Moves, files
<1>3. Counts'
  <2>1. \A h \in Handles : Current(h)' => Current(h)
    BY LookEffect, Places DEF Current, Moves
  <2>2. proc[a].pc \notin MuPc /\ \A b \in Appenders \ {a} : proc'[b] = proc[b]
    BY LookEffect, Places DEF At, Moves
  <2>3. \A h \in Handles : handle[h].mu # None => proc'[handle[h].mu] = proc[handle[h].mu]
    BY <2>2, NotHolding
  <2>4. QED
    BY <2>1, <2>3, LookEffect, CountsFrame DEF Calm, files
<1>4. Counted'
  <2>1. Journal' = Journal
    BY LookEffect DEF Journal, files
  <2>2. Journal \in Seq(AnyFrame) /\ Good(Journal)
    BY GoodJournal DEF Calm
  <2>3. \A scan \in Scans(Journal) \cup Misreads(Journal) : Len(scan) <= Len(Intact(Journal))
    BY <2>2, ScansAreFronts
  <2>4. path = None => Whole(Journal) /\ Len(Journal) = 0 /\ Len(Intact(Journal)) = 0
    <3>1. path = None => Journal = << >>
      BY DEF Journal
    <3> HIDE DEF Journal
    <3>2. Whole(Journal) => Intact(Journal) = Journal
      BY <2>2, IntactOfGood
    <3>3. QED
      BY <3>1, <3>2, GoodEmpty
  <2>5. \A b \in Appenders \ {a} : proc'[b] = proc[b]
    BY LookEffect, Places DEF Moves
  <2>6. /\ proc'[a].pc \in {"stat", "truncate"} => proc'[a].count <= Len(Intact(Journal))
        /\ proc'[a].pc = "open" => Whole(Journal) /\ proc'[a].count = Len(Journal)
    <3>1. proc[a].count \in Nat
      BY ProcKinds DEF TypeInv, ProcState
    <3>2. proc[a].pc = "stat" => proc[a].count <= Len(Intact(Journal))
      BY DEF Calm, Counted
    <3>3. QED
      BY <2>3, <2>4, <3>1, <3>2, LookEffect DEF Moves, At
  <2> HIDE DEF Journal
  <2>7. QED
    BY <2>1, <2>5, <2>6 DEF Calm, Counted, At
<1>5. QED
  BY <1>1, <1>2, <1>3, <1>4 DEF Calm

LEMMA TruncateCalm ==
  ASSUME TypeInv, HandleInv, Calm, Alone', TypeInv', NEW a \in Appenders, TruncateJournalTo(a)
  PROVE  Calm'
<1> DEFINE n == proc[a].count
<1>0. /\ proc[a].pc = "truncate" /\ proc'[a].pc \in {"open", "idle"}
      /\ proc'[a].pc = "open" => proc'[a].count = n /\ Moves(a, "open")
      /\ \A b \in Appenders \ {a} : proc'[b].pc = "idle"
      /\ proc'[Compactor] = proc[Compactor] /\ proc[Compactor].pc \in {"idle", "done"}
      /\ UNCHANGED <<path, openFiles>>
  BY TruncateEffect, Solo, ProcKinds DEF Calm, At, Moves, Keeps, AppendOpenPc
<1>1. OneHandle'
  BY <1>0 DEF Calm, OneHandle, At, Opening, OpenPc, HoldPc, OpenedPc
<1>2. Journal \in Seq(AnyFrame) /\ Good(Journal) /\ n \in Nat /\ n <= Len(Intact(Journal))
  BY <1>0, GoodJournal, ProcKinds DEF Calm, Counted, TypeInv, ProcState
<1>3. /\ n <= Len(Journal) /\ Len(Journal) \in Nat
      /\ n = Len(Journal) => Whole(Journal)
  <2>1. Intact(Journal) \in Seq(AnyFrame) /\ Len(Intact(Journal)) <= Len(Journal)
        /\ Whole(Intact(Journal)) /\ \A k \in 1..Len(Intact(Journal)) : Intact(Journal)[k] = Journal[k]
    BY <1>2, IntactOfGood
  <2>2. Len(Intact(Journal)) \in Nat /\ Len(Journal) \in Nat
    BY <1>2, <2>1
  <2>3. n = Len(Journal) => Len(Intact(Journal)) = Len(Journal)
    BY <1>2, <2>1, <2>2
  <2>4. QED
    BY <1>2, <2>1, <2>2, <2>3 DEF Whole
<1>4. Counts'
  <2>1. \A h \in Handles : ~Current(h)'
    BY <1>0, Places, OnlyOne DEF Calm, CurrentOne, Current, AppendOpenPc, OpenedPc
  <2>2. QED
    BY <2>1 DEF Counts
<1>5. CASE UNCHANGED <<content, disk>> /\ (Moves(a, "open") => Len(Journal) <= n)
  <2>1. Journal' = Journal
    BY <1>0, <1>5 DEF Journal
  <2>2. GoodFiles'
    BY <1>0, <1>5 DEF Calm, GoodFiles
  <2>3. proc'[a].pc = "open" => Whole(Journal) /\ proc'[a].count = Len(Journal)
    BY <1>0, <1>2, <1>3, <1>5
  <2>4. Counted'
    BY <1>0, <2>1, <2>3 DEF Counted, At
  <2>5. QED
    BY <1>1, <1>4, <2>2, <2>4 DEF Calm
<1>6. CASE /\ Len(Journal) > n /\ path \in Files
           /\ \E d \in {disk[path], Cut(content[path], n)} : Sets(path, Cut(content[path], n), d)
  <2>1. Journal = content[path] /\ Journal' = Cut(Journal, n)
    BY <1>0, <1>6, ProcKinds DEF Journal, Sets
  <2>2. n \in 0..Len(Journal) /\ n < Len(Journal) /\ n \in Nat
    BY <1>2, <1>3, <1>6
  <2>3. Good(Cut(Journal, n)) /\ Whole(Cut(Journal, n)) /\ Len(Cut(Journal, n)) = n
    BY <1>2, <2>2, GoodCut, CutShape
  <2>4. GoodFiles'
    BY <1>0, <1>6, <2>1, <2>3 DEF Calm, GoodFiles, Sets
  <2>5. Counted'
    BY <1>0, <2>1, <2>3 DEF Counted, At
  <2>6. QED
    BY <1>1, <1>4, <2>4, <2>5 DEF Calm
<1>7. QED
  BY <1>5, <1>6, TruncateEffect

LEMMA OpenCalm ==
  ASSUME TypeInv, HandleInv, Calm, Alone', TypeInv', NEW a \in Appenders, Open(a)
  PROVE  Calm'
<1> DEFINE h == proc'[a].h
<1>0. /\ proc[a].pc = "open" /\ proc'[a].pc = "store"
      /\ \A b \in Appenders \ {a} : proc'[b].pc = "idle"
      /\ proc'[Compactor] = proc[Compactor] /\ proc[Compactor].pc \in {"idle", "done"}
      /\ UNCHANGED openFiles
  BY OpenEffect, Solo, ProcKinds DEF Calm, At, Moves, AppendOpenPc
<1>1. OneHandle'
  BY <1>0 DEF Calm, OneHandle, At, Opening, OpenPc, HoldPc, OpenedPc
<1>2. GoodFiles'
  BY <1>0, OpenEffect, GoodEmpty DEF Calm, GoodFiles, Sets
<1>3. Journal' = Journal
  BY OpenEffect, ProcKinds DEF Journal, Sets
<1>4. Whole(Journal) /\ Len(Journal) = proc[a].count
  BY <1>0 DEF Calm, Counted, At
<1>5. /\ handle'[h].file = path' /\ handle'[h].mu = None
      /\ handle'[h].count = proc[a].count /\ proc[a].count \in Nat
  BY OpenEffect, ProcKinds DEF TypeInv, ProcState
<1>6. \A g \in Handles : Current(g)' => g = h
  BY <1>0, <1>1, OnlyOneNext DEF CurrentOne, OpenedPc
<1>7. Counts'
  <2> SUFFICES ASSUME NEW g \in Handles, g = h
               PROVE  /\ handle'[g].file = path'
                      /\ handle'[g].count <= Len(Journal')
                      /\ Whole(Journal') /\ Len(Journal') = handle'[g].count
                      /\ handle'[g].mu = None
    BY <1>6 DEF Counts, Whole
  <2>1. QED
    BY <1>3, <1>4, <1>5
<1>8. Counted'
  BY <1>0 DEF Counted, At
<1>9. QED
  BY <1>1, <1>2, <1>7, <1>8 DEF Calm

LEMMA StoreCalm ==
  ASSUME TypeInv, HandleInv, Calm, Alone', TypeInv', NEW a \in Appenders, LoadOrStore(a)
  PROVE  Calm'
<1>0. /\ proc[a].pc = "store" /\ proc'[a].pc \in {"dirsync", "lock"} /\ proc'[a].h = proc[a].h
      /\ \A b \in Appenders \ {a} : proc'[b].pc = "idle"
      /\ proc'[Compactor] = proc[Compactor] /\ proc[Compactor].pc \in {"idle", "done"}
      /\ openFiles' = proc[a].h /\ UNCHANGED <<files, handle>>
  <2>1. openFiles = None /\ proc[a].pc = "store"
    BY StoreEffect DEF Calm, OneHandle, At, Opening, OpenPc
  <2>2. QED
    BY <2>1, StoreEffect, Solo, ProcKinds DEF Calm, At, Moves, Keeps
<1>1. OneHandle'
  BY <1>0 DEF Calm, OneHandle, At, Opening, OpenPc, HoldPc, OpenedPc
<1>2. GoodFiles'
  BY <1>0 DEF Calm, GoodFiles, files
<1>3. Counts'
  <2>1. \A h \in Handles : Current(h)' => Current(h)
    BY <1>0, Places DEF Current
  <2>2. \A h \in Handles : handle[h].mu # None => handle[h].mu \in Appenders \ {a}
    BY <1>0, NotHolding DEF MuPc
  <2>3. \A b \in Appenders \ {a} : proc'[b] = proc[b]
    BY StoreEffect, ProcKinds DEF Moves
  <2>4. QED
    BY <1>0, <2>1, <2>2, <2>3, CountsFrame DEF Calm, files
<1>4. Counted'
  BY <1>0 DEF Counted, At
<1>5. QED
  BY <1>1, <1>2, <1>3, <1>4 DEF Calm

LEMMA DirSyncCalm ==
  ASSUME TypeInv, HandleInv, Calm, Alone', TypeInv', NEW a \in Appenders, DirSync(a)
  PROVE  Calm'
<1>0. /\ proc[a].pc = "dirsync" /\ proc'[a].pc \in {"idle", "lock"}
      /\ \A b \in Appenders \ {a} : proc'[b] = proc[b] /\ proc'[b].pc = "idle"
      /\ proc'[Compactor] = proc[Compactor] /\ proc[Compactor].pc \in {"idle", "done"}
      /\ UNCHANGED <<path, content, disk>>
      /\ \/ openFiles' = None /\ proc'[a].pc = "idle"
         \/ UNCHANGED <<openFiles, handle>> /\ proc'[a].h = proc[a].h
  BY DirSyncEffect, Solo, ProcKinds DEF Calm, At, Moves, Keeps
<1>1. OneHandle'
  BY <1>0 DEF Calm, OneHandle, At, Opening, OpenPc, HoldPc, OpenedPc
<1>2. GoodFiles'
  BY <1>0 DEF Calm, GoodFiles
<1>3. Counts'
  <2>1. CASE openFiles' = None /\ proc'[a].pc = "idle"
    BY <1>0, <2>1, Places DEF Counts, Current
  <2>2. CASE UNCHANGED <<openFiles, handle>> /\ proc'[a].h = proc[a].h
    <3>1. \A h \in Handles : Current(h)' => Current(h)
      BY <1>0, <2>2, Places DEF Current
    <3>2. \A h \in Handles : handle[h].mu # None => handle[h].mu \in Appenders \ {a}
      BY <1>0, NotHolding DEF MuPc
    <3>3. QED
      BY <1>0, <2>2, <3>1, <3>2, CountsFrame DEF Calm
  <2>3. QED
    BY <1>0, <2>1, <2>2
<1>4. Counted'
  BY <1>0 DEF Counted, At
<1>5. QED
  BY <1>1, <1>2, <1>3, <1>4 DEF Calm

\* What an appender that holds the mutex knows of the file it appends to.
LEMMA HolderKnows ==
  ASSUME TypeInv, HandleInv, Calm, NEW a \in Appenders, proc[a].pc \in MuPc \cup {"lock"}
  PROVE  /\ proc[a].h \in Handles /\ Current(proc[a].h)
         /\ proc[a].pc \in MuPc => handle[proc[a].h].mu = a
         /\ \A h \in Handles : Current(h) => h = proc[a].h
         /\ Mine(a).open =>
              /\ path \in Files /\ Mine(a).file = path /\ Journal = content[path]
              /\ Mine(a).count \in Nat /\ Mine(a).count <= Len(Journal)
              /\ proc[a].pc = "write" => Whole(Journal) /\ Len(Journal) = Mine(a).count
              /\ proc[a].pc = "sync" =>
                   /\ Whole(Journal) /\ Len(Journal) = Mine(a).count + 1
                   /\ Journal[Len(Journal)].op = proc[a].op
         /\ proc[Compactor].pc \in {"idle", "done"}
         /\ \A b \in Appenders \ {a} : proc[b].pc \notin AppendOpenPc \cup {"store", "dirsync"}
<1>1. proc[a].h \in Handles /\ proc[a].pc \in OpenedPc
  BY Places
<1>2. Current(proc[a].h)
  BY <1>1 DEF Current
<1>3. \A h \in Handles : Current(h) => h = proc[a].h
  BY <1>1, OnlyOne DEF Calm, CurrentOne
<1>4. proc[a].pc \in MuPc => handle[proc[a].h].mu = a
  BY DEF HandleInv, Held
<1>5. ASSUME Mine(a).open
      PROVE  /\ path \in Files /\ Mine(a).file = path /\ Journal = content[path]
             /\ Mine(a).count \in Nat /\ Mine(a).count <= Len(Journal)
             /\ proc[a].pc = "write" => Whole(Journal) /\ Len(Journal) = Mine(a).count
             /\ proc[a].pc = "sync" =>
                  /\ Whole(Journal) /\ Len(Journal) = Mine(a).count + 1
                  /\ Journal[Len(Journal)].op = proc[a].op
  <2>1. /\ handle[proc[a].h].file \in Files /\ handle[proc[a].h].count \in Nat
    BY <1>1, <1>5 DEF Mine, TypeInv, HandlesTyped, HandleState
  <2>2. /\ handle[proc[a].h].file = path
        /\ handle[proc[a].h].count <= Len(Journal)
        /\ handle[proc[a].h].mu = a /\ At(a, "write") =>
             Whole(Journal) /\ Len(Journal) = handle[proc[a].h].count
        /\ handle[proc[a].h].mu = a /\ At(a, "sync") =>
             /\ Whole(Journal) /\ Len(Journal) = handle[proc[a].h].count + 1
             /\ Journal[Len(Journal)].op = proc[a].op
    BY <1>1, <1>2, <1>5, ProcKinds DEF Calm, Counts, Mine
  <2>3. Journal = content[path]
    BY <2>1, <2>2, ProcKinds DEF Journal
  <2>4. QED
    BY <1>4, <2>1, <2>2, <2>3, Places DEF Mine, At
<1>6. /\ proc[Compactor].pc \in {"idle", "done"}
      /\ \A b \in Appenders \ {a} : proc[b].pc \notin AppendOpenPc \cup {"store", "dirsync"}
  BY <1>1, Solo, Places DEF Calm
<1>7. QED
  BY <1>1, <1>2, <1>3, <1>4, <1>5, <1>6

\* The step of a holder keeps what Calm says of places.
LEMMA HolderCalm ==
  ASSUME TypeInv, HandleInv, Calm, Alone', TypeInv', NEW a \in Appenders,
         proc[a].pc \in MuPc \cup {"lock"}, NEW pc \in MuPc \cup {"idle"}, Moves(a, pc),
         pc = "idle" \/ proc'[a].h = proc[a].h, openFiles' \in {None, openFiles}
  PROVE  /\ OneHandle' /\ Counted'
         /\ \A h \in Handles : Current(h)' => Current(h)
         /\ pc # "idle" => \A h \in Handles : Current(h)' => h = proc[a].h
         /\ proc'[Compactor] = proc[Compactor]
         /\ \A b \in Appenders \ {a} : proc'[b] = proc[b]
<1>1. /\ proc'[Compactor] = proc[Compactor] /\ proc[Compactor].pc \in {"idle", "done"}
      /\ \A b \in Appenders \ {a} :
           proc'[b] = proc[b] /\ proc[b].pc \notin AppendOpenPc \cup {"store", "dirsync"}
      /\ proc'[a].pc = pc
  BY HolderKnows, ProcKinds DEF Moves
<1>2. OneHandle'
  BY <1>1, Places
     DEF Calm, OneHandle, At, Opening, OpenPc, HoldPc, OpenedPc, AppendOpenPc, MuPc
<1>3. Counted'
  BY <1>1, Places DEF Counted, At, AppendOpenPc, MuPc
<1>4. \A h \in Handles : Current(h)' => Current(h)
  BY <1>1, Places DEF Current
<1>5. pc # "idle" => \A h \in Handles : Current(h)' => h = proc[a].h
  BY <1>4, HolderKnows
<1>6. QED
  BY <1>1, <1>2, <1>3, <1>4, <1>5

LEMMA LockCalm ==
  ASSUME TypeInv, HandleInv, Calm, Alone', TypeInv', NEW a \in Appenders, Lock(a)
  PROVE  Calm'
<1> DEFINE h == proc[a].h
<1>0. /\ proc[a].pc = "lock" /\ "write" \in MuPc /\ Moves(a, "write") /\ proc'[a].h = h
      /\ openFiles' = openFiles /\ UNCHANGED files /\ h \in Handles
      /\ handle[h].mu = None /\ handle'[h].mu = a /\ handle'[h].open = handle[h].open
      /\ handle'[h].file = handle[h].file /\ handle'[h].count = handle[h].count
  BY LockEffect DEF At, Keeps, MuPc, Marks
<1>1. /\ OneHandle' /\ Counted' /\ proc'[Compactor] = proc[Compactor]
      /\ \A g \in Handles : Current(g)' => g = h
  BY <1>0, HolderCalm
<1>2. GoodFiles'
  BY <1>0, <1>1 DEF Calm, GoodFiles, files
<1>3. Journal' = Journal
  BY <1>0 DEF Journal, files
<1>4. handle[h].open => /\ handle[h].file = path /\ handle[h].count <= Len(Journal)
                        /\ Whole(Journal) /\ Len(Journal) = handle[h].count
  BY <1>0, HolderKnows DEF Calm, Counts
<1>5. Counts'
  <2> HIDE DEF h, Journal
  <2> SUFFICES ASSUME handle'[h].open
               PROVE  /\ handle'[h].file = path'
                      /\ handle'[h].count <= Len(Journal')
                      /\ Whole(Journal') /\ Len(Journal') = handle'[h].count
                      /\ proc'[handle'[h].mu].pc # "sync"
    BY <1>1 DEF Counts, Whole, At
  <2>1. proc'[a].pc = "write" /\ path' = path
    BY <1>0 DEF Moves, files
  <2>2. QED
    BY <1>0, <1>3, <1>4, <2>1
<1>6. QED
  BY <1>1, <1>2, <1>5 DEF Calm

LEMMA WriteCalm ==
  ASSUME TypeInv, HandleInv, Calm, Alone', TypeInv', NEW a \in Appenders, Write(a)
  PROVE  Calm'
<1> DEFINE h == proc[a].h
<1>0. /\ proc[a].pc = "write" /\ "write" \in MuPc /\ "sync" \in MuPc /\ "rollback" \in MuPc
      /\ h \in Handles /\ proc'[a].h = h /\ proc'[a].op = proc[a].op
      /\ UNCHANGED <<path, disk, openFiles, handle>>
  BY WriteEffect DEF At, Keeps, MuPc
<1>1. /\ handle[h].mu = a
      /\ handle[h].open =>
           /\ path \in Files /\ handle[h].file = path /\ Journal = content[path]
           /\ Whole(Journal) /\ Len(Journal) = handle[h].count
  BY <1>0, HolderKnows DEF Mine
<1>2. Journal \in Seq(AnyFrame) /\ Good(Journal)
  BY GoodJournal DEF Calm
<1>3. Moves(a, "sync") \/ Moves(a, "rollback")
  BY WriteEffect
<1>4. /\ OneHandle' /\ Counted' /\ proc'[Compactor] = proc[Compactor]
      /\ \A g \in Handles : Current(g)' => g = h
  BY <1>0, <1>3, HolderCalm
<1>5. ASSUME handle'[h].open => /\ handle'[h].file = path'
                                /\ handle'[h].count <= Len(Journal')
             , proc'[a].pc = "rollback"
      PROVE  Counts'
  BY <1>0, <1>1, <1>4, <1>5, ProcKinds DEF Counts, At
<1>6. CASE UNCHANGED content /\ Moves(a, "rollback")
  <2>1. GoodFiles'
    BY <1>0, <1>4, <1>6 DEF Calm, GoodFiles
  <2>2. Journal' = Journal
    BY <1>0, <1>6 DEF Journal
  <2>3. Counts'
    BY <1>0, <1>1, <1>2, <1>5, <1>6, <2>2 DEF Moves
  <2>4. QED
    BY <1>4, <2>1, <2>3 DEF Calm
<1>7. ASSUME NEW fr \in AnyFrame, handle[h].open,
             Sets(path, Append(Journal, fr), disk[path])
      PROVE  /\ Journal' = Append(Journal, fr)
             /\ Good(Append(Journal, fr)) => GoodFiles'
  <2>1. path' = path /\ path \in Files /\ path # None
    BY <1>0, <1>1, <1>7, ProcKinds
  <2>2. Journal' = Append(Journal, fr)
    BY <1>7, <2>1 DEF Journal, Sets
  <2>3. ASSUME Good(Append(Journal, fr)) PROVE GoodFiles'
    BY <1>0, <1>4, <1>7, <2>1, <2>3 DEF Calm, GoodFiles, Sets
  <2>4. QED
    BY <2>2, <2>3
<1>8. CASE /\ handle[h].open /\ Moves(a, "rollback")
           /\ Sets(path, Append(Journal, Torn), disk[path])
  <2>1. Torn \in AnyFrame /\ Good(Append(Journal, Torn))
        /\ Len(Append(Journal, Torn)) = Len(Journal) + 1
    BY <1>1, <1>2, <1>8, FrameTypes, GoodAppend
  <2>2. GoodFiles' /\ Journal' = Append(Journal, Torn)
    BY <1>7, <1>8, <2>1
  <2>3. handle'[h].file = path' /\ handle'[h].count <= Len(Journal')
    BY <1>0, <1>1, <1>2, <1>8, <2>1, <2>2
  <2>4. Counts'
    BY <1>5, <1>8, <2>3 DEF Moves
  <2>5. QED
    BY <1>4, <2>2, <2>4 DEF Calm
<1>9. CASE /\ handle[h].open /\ Moves(a, "sync")
           /\ Sets(path, Append(Journal, NewFrame(a)), disk[path])
  <2> DEFINE fr == NewFrame(a)
  <2>1. /\ fr \in AnyFrame /\ fr # Torn /\ fr.idx = Len(Journal) + 1 /\ fr.op = proc[a].op
        /\ fr.op # 0
    <3>1. proc[a].op \in 1..MaxOps
      BY <1>0 DEF TypeInv, Busy, At
    <3>2. /\ fr \in AnyFrame /\ fr # Torn /\ fr.idx = handle[h].count + 1
          /\ fr.op = proc[a].op
      BY <1>0, FrameOfAppend DEF Mine
    <3>3. QED
      BY <1>1, <1>9, <3>1, <3>2
  <2> HIDE DEF fr
  <2>2. /\ Append(Journal, fr) \in Seq(AnyFrame) /\ Len(Append(Journal, fr)) = Len(Journal) + 1
        /\ Append(Journal, fr)[Len(Journal) + 1] = fr
        /\ Good(Append(Journal, fr)) /\ Whole(Append(Journal, fr))
    BY <1>1, <1>2, <1>9, <2>1, GoodAppend
  <2>3. GoodFiles' /\ Journal' = Append(Journal, fr)
    BY <1>7, <1>9, <2>1, <2>2 DEF fr
  <2> DEFINE j == Append(Journal, fr)
  <2>4. Whole(j) /\ Len(j) = handle[h].count + 1 /\ j[Len(j)].op = proc[a].op
        /\ handle[h].count <= Len(j)
    BY <1>1, <1>2, <1>9, <2>1, <2>2
  <2> HIDE DEF j
  <2>5. Journal' = j /\ (Whole(Journal))' = Whole(j)
    BY <2>3 DEF j, Whole
  <2>6. Counts'
    <3> SUFFICES ASSUME handle'[h].open
                 PROVE  /\ handle'[h].file = path'
                        /\ handle'[h].count <= Len(Journal')
                        /\ handle'[h].mu = a /\ a # None /\ proc'[a].pc = "sync"
                        /\ (Whole(Journal))' /\ Len(Journal') = handle'[h].count + 1
                        /\ Journal'[Len(Journal')].op = proc'[a].op
      BY <1>4 DEF Counts, At
    <3>1. QED
      BY <1>0, <1>1, <1>9, <2>4, <2>5, ProcKinds DEF Moves
  <2>7. QED
    BY <1>4, <2>3, <2>6 DEF Calm
<1>10. QED
  BY <1>0, <1>1, <1>6, <1>8, <1>9, WriteEffect DEF Mine

LEMMA SyncCalm ==
  ASSUME TypeInv, HandleInv, Calm, Alone', TypeInv', NEW a \in Appenders, Sync(a)
  PROVE  Calm'
<1> DEFINE h == proc[a].h
<1>0. /\ proc[a].pc = "sync" /\ "sync" \in MuPc /\ "rollback" \in MuPc /\ h \in Handles
      /\ UNCHANGED <<path, content, openFiles>> /\ Journal' = Journal
  BY SyncEffect DEF At, MuPc, Journal
<1>1. /\ handle[h].mu = a /\ Current(h) /\ \A g \in Handles : Current(g) => g = h
      /\ handle[h].open =>
           /\ path \in Files /\ handle[h].file = path /\ Journal = content[path]
           /\ handle[h].count \in Nat
           /\ Whole(Journal) /\ Len(Journal) = handle[h].count + 1
  BY <1>0, HolderKnows DEF Mine
<1> HIDE DEF Journal
<1>2. CASE /\ handle[h].open /\ handle[h].file \in Files
           /\ Sets(handle[h].file, content[handle[h].file], content[handle[h].file])
           /\ handle'[h].count = handle[h].count + 1 /\ handle'[h].file = handle[h].file
           /\ handle'[h].mu = None /\ Moves(a, "idle")
  <2>1. /\ OneHandle' /\ Counted' /\ proc'[Compactor] = proc[Compactor]
        /\ \A g \in Handles : Current(g)' => g = h
    BY <1>0, <1>1, <1>2, HolderCalm
  <2>2. GoodFiles'
    BY <1>0, <1>2, <2>1 DEF Calm, GoodFiles, Sets
  <2>3. Counts'
    <3> SUFFICES /\ handle'[h].file = path'
                 /\ handle'[h].count <= Len(Journal') /\ handle'[h].mu = None
                 /\ (Whole(Journal))' /\ Len(Journal') = handle'[h].count
      BY <2>1 DEF Counts
    <3>1. (Whole(Journal))' = Whole(Journal)
      BY <1>0 DEF Whole
    <3>2. QED
      BY <1>0, <1>1, <1>2, <3>1
  <2>4. QED
    BY <2>1, <2>2, <2>3 DEF Calm
<1>3. CASE UNCHANGED <<disk, handle>> /\ Moves(a, "rollback") /\ proc'[a].h = h
  <2>1. /\ OneHandle' /\ Counted' /\ proc'[Compactor] = proc[Compactor]
        /\ \A g \in Handles : Current(g)' => g = h
    BY <1>0, <1>1, <1>3, HolderCalm
  <2>2. GoodFiles'
    BY <1>0, <1>3, <2>1 DEF Calm, GoodFiles
  <2>3. Counts'
    <3> SUFFICES ASSUME handle'[h].open
                 PROVE  /\ handle'[h].file = path' /\ handle'[h].count <= Len(Journal')
                        /\ handle'[h].mu = a /\ a # None /\ proc'[a].pc = "rollback"
      BY <2>1 DEF Counts, At
    <3>1. QED
      BY <1>0, <1>1, <1>3, ProcKinds DEF Moves
  <2>4. QED
    BY <2>1, <2>2, <2>3 DEF Calm
<1>4. QED
  BY <1>2, <1>3, SyncEffect DEF Mine, Keeps

LEMMA RollbackCalm ==
  ASSUME TypeInv, HandleInv, Calm, Alone', TypeInv', NEW a \in Appenders, Rollback(a)
  PROVE  Calm'
<1> DEFINE h == proc[a].h
<1>0. /\ proc[a].pc = "rollback" /\ "rollback" \in MuPc /\ "drop" \in MuPc /\ h \in Handles
      /\ proc'[a].h = h /\ Moves(a, "drop") /\ UNCHANGED <<path, openFiles>> /\ ~handle'[h].open
  BY RollbackEffect DEF At, MuPc, Keeps, Shuts
<1>1. /\ OneHandle' /\ Counted' /\ proc'[Compactor] = proc[Compactor]
      /\ \A g \in Handles : Current(g)' => g = h
  BY <1>0, HolderCalm
<1>2. Counts'
  BY <1>0, <1>1 DEF Counts
<1>3. CASE UNCHANGED <<content, disk>>
  BY <1>1, <1>2, <1>3 DEF Calm, GoodFiles
<1>4. ASSUME handle[h].open, NEW d, d = disk[path] \/ d = Cut(content[path], handle[h].count),
             Sets(path, Cut(content[path], handle[h].count), d)
      PROVE  GoodFiles'
  <2> DEFINE s == Cut(content[path], handle[h].count)
  <2>1. path \in Files /\ Journal = content[path] /\ handle[h].count \in Nat
        /\ handle[h].count <= Len(Journal)
    BY <1>0, <1>4, HolderKnows DEF Mine
  <2>2. Journal \in Seq(AnyFrame) /\ Good(Journal)
    BY GoodJournal DEF Calm
  <2>3. handle[h].count \in 0..Len(Journal)
    BY <2>1, <2>2
  <2>4. Good(s)
    BY <2>1, <2>2, <2>3, GoodCut
  <2> HIDE DEF s
  <2>5. Sets(path, s, d) /\ (d = disk[path] \/ d = s)
    BY <1>4 DEF s
  <2>6. QED
    BY <1>1, <2>1, <2>4, <2>5 DEF Calm, GoodFiles, Sets
<1>5. handle[h].open => handle[h].file = path
  BY <1>0, HolderKnows DEF Mine
<1>6. GoodFiles'
  BY <1>3, <1>4, <1>5, <1>1, RollbackEffect DEF Mine, Calm, GoodFiles
<1>7. QED
  BY <1>1, <1>2, <1>6 DEF Calm

LEMMA DropCalm ==
  ASSUME TypeInv, HandleInv, Calm, Alone', TypeInv', NEW a \in Appenders, Drop(a)
  PROVE  Calm'
<1> DEFINE h == proc[a].h
<1>0. /\ proc[a].pc = "drop" /\ "drop" \in MuPc /\ h \in Handles
      /\ Moves(a, "idle") /\ UNCHANGED files /\ openFiles' = None
      /\ ~handle[h].open /\ handle'[h].open = handle[h].open
  BY DropEffect DEF At, MuPc, Marks, HandleInv, Dropped
<1>1. /\ OneHandle' /\ Counted' /\ proc'[Compactor] = proc[Compactor]
      /\ \A g \in Handles : Current(g)' => Current(g)
  BY <1>0, HolderCalm
<1>2. \A g \in Handles : Current(g) => g = h
  BY <1>0, HolderKnows
<1>3. Counts'
  BY <1>0, <1>1, <1>2 DEF Counts
<1>4. GoodFiles'
  BY <1>0, <1>1 DEF Calm, GoodFiles, files
<1>5. QED
  BY <1>1, <1>3, <1>4 DEF Calm

\* Closing the handle never takes it from under an append.
LEMMA CloserCalm ==
  ASSUME TypeInv, HandleInv, Calm, Alone', TypeInv', NEW c \in Closers,
         TakeHandle(c) \/ CloseHandle(c)
  PROVE  Calm'
<1>0. /\ UNCHANGED files /\ openFiles' \in {None, openFiles} /\ Journal' = Journal
      /\ \A a \in Appenders : proc'[a] = proc[a]
      /\ proc'[Compactor].buf = proc[Compactor].buf
      /\ \/ proc'[Compactor].pc = proc[Compactor].pc
         \/ proc[Compactor].pc = "take" /\ proc'[Compactor].pc \in {"close", "rename"}
              /\ openFiles' = None
         \/ proc[Compactor].pc = "close" /\ proc'[Compactor].pc = "rename"
      /\ \/ UNCHANGED handle
         \/ /\ openFiles' = openFiles /\ proc[c].h # openFiles /\ Shuts(proc[c].h)
  <2>1. CASE TakeHandle(c)
    BY <2>1, TakeEffect, Places, ProcKinds
       DEF At, Moves, Keeps, AfterTake, Journal, files, Closers
  <2>2. CASE CloseHandle(c)
    BY <2>2, CloseEffect, Places, ProcKinds
       DEF At, Moves, AfterTake, Journal, files, HandleInv, Released, Closers
  <2>3. QED
    BY <2>1, <2>2
<1>1. OneHandle'
  BY <1>0 DEF Calm, OneHandle, At, Opening
<1>2. GoodFiles'
  BY <1>0 DEF Calm, GoodFiles, files
<1>3. Counts'
  <2>1. \A h \in Handles : Current(h)' => Current(h)
    BY <1>0, Places DEF Current
  <2>2. \A h \in Handles : handle'[h].open => handle'[h] = handle[h]
    BY <1>0 DEF Shuts
  <2>3. \A h \in Handles : handle[h].mu # None => handle[h].mu \in Appenders
    BY DEF TypeInv, HandlesTyped, HandleState
  <2>4. QED
    BY <1>0, <2>1, <2>2, <2>3, CountsFrame DEF Calm, files
<1>4. Counted'
  BY <1>0 DEF Calm, Counted, At
<1>5. QED
  BY <1>1, <1>2, <1>3, <1>4 DEF Calm

LEMMA IdleCalm ==
  ASSUME TypeInv, HandleInv, Calm, Alone', TypeInv', Evict \/ CompactRead \/ SyncDir
  PROVE  Calm'
<1>0. /\ UNCHANGED <<path, content, disk, openFiles, handle>> /\ Journal' = Journal
      /\ \A a \in Appenders : proc'[a] = proc[a]
      /\ \/ proc'[Compactor] = proc[Compactor]
         \/ proc'[Compactor].pc = "done"
         \/ /\ proc'[Compactor].pc = "take"
            /\ \E scan \in Scans(Journal) \cup Misreads(Journal) :
               \E order \in SetToSeqs(DOMAIN scan) :
                 scan # None /\ proc'[Compactor].buf = Shuffled(scan, order)
  <2>1. CASE Evict
    BY <2>1, EvictEffect, ProcKinds DEF Moves, Journal, files
  <2>2. CASE CompactRead
    BY <2>2, CompactReadEffect, ProcKinds DEF Moves, Journal, files
  <2>3. CASE SyncDir
    BY <2>3, SyncDirEffect, ProcKinds DEF Moves, Journal
  <2>4. QED
    BY <2>1, <2>2, <2>3
<1>1. OneHandle'
  BY <1>0 DEF Calm, OneHandle, At, Opening
<1>2. GoodFiles'
  <2>1. Journal \in Seq(AnyFrame) /\ Good(Journal)
    BY GoodJournal DEF Calm
  <2>2. \A scan \in Scans(Journal) \cup Misreads(Journal) :
          scan \in Seq(AnyFrame) /\ Good(scan) /\ Whole(scan)
    BY <2>1, ScansAreFronts
  <2>3. \A scan \in Scans(Journal) \cup Misreads(Journal) :
          \A order \in SetToSeqs(DOMAIN scan) : Good(Shuffled(scan, order))
    BY <2>2, ShuffleKeeps
  <2>4. QED
    BY <1>0, <2>3 DEF Calm, GoodFiles
<1>3. Counts'
  <2>1. \A h \in Handles : Current(h)' => Current(h)
    BY <1>0 DEF Current
  <2>2. \A h \in Handles : handle[h].mu # None => handle[h].mu \in Appenders
    BY DEF TypeInv, HandlesTyped, HandleState
  <2>3. QED
    BY <1>0, <2>1, <2>2, CountsFrame DEF Calm
<1>4. Counted'
  BY <1>0 DEF Calm, Counted, At
<1>5. QED
  BY <1>1, <1>2, <1>3, <1>4 DEF Calm

LEMMA RenameCalm ==
  ASSUME TypeInv, HandleInv, Calm, Alone', TypeInv', Rename
  PROVE  Calm'
<1>0. /\ proc[Compactor].pc = "rename" /\ UNCHANGED <<openFiles, handle>>
      /\ \A a \in Appenders : proc'[a] = proc[a] /\ proc'[a].pc = "idle"
      /\ proc'[Compactor].pc \in {"dirsync", "done"}
      /\ openFiles = None
  BY RenameEffect, ProcKinds, Solo DEF At, Moves, Calm, OneHandle
<1>1. OneHandle'
  BY <1>0 DEF OneHandle, At, Opening, OpenPc, HoldPc, OpenedPc
<1>2. GoodFiles'
  BY <1>0, RenameEffect DEF Calm, GoodFiles, Sets
<1>3. Counts'
  BY <1>0, Places DEF Counts, Current
<1>4. Counted'
  BY <1>0 DEF Counted, At
<1>5. QED
  BY <1>1, <1>2, <1>3, <1>4 DEF Calm

\* Power loss leaves good files, with every record that was on disk.
LEMMA GoodCrash ==
  ASSUME FilesTyped, NEW f \in Files, Good(content[f]), Good(disk[f]),
         NEW s \in CrashOutcomes(f)
  PROVE  /\ Good(s)
         /\ \A op \in Nat : Has(content[f], op) /\ Has(disk[f], op) => Has(s, op)
<1> DEFINE c == content[f]
           d == disk[f]
<1>0. c \in Seq(AnyFrame) /\ d \in Seq(AnyFrame) /\ Len(c) \in Nat /\ Len(d) \in Nat
  BY DEF FilesTyped
<1>1. CASE s = c \/ s = d
  BY <1>1
<1>2. ASSUME IsStrictPrefix(d, c), NEW n \in Len(d)..Len(c),
             s = Cut(c, n) \/ (n < Len(c) /\ s = Append(Cut(c, n), Torn))
      PROVE  /\ Good(s)
             /\ \A op \in Nat : Has(d, op) => Has(s, op)
  <2> DEFINE t == Cut(c, n)
  <2>1. n \in 0..Len(c) /\ n \in Nat
    BY <1>0, <1>2
  <2>2. /\ Good(t) /\ (n < Len(c) => Whole(t)) /\ t \in Seq(AnyFrame) /\ Len(t) = n
        /\ \A k \in 1..n : k <= Len(c) => t[k] = c[k]
    BY <1>0, <2>1, GoodCut, CutShape
  <2> HIDE DEF t
  <2>3. /\ Len(d) <= n /\ Len(d) <= Len(c)
        /\ \A k \in 1..Len(d) : d[k] = c[k]
    <3>1. Len(d) <= Len(c) /\ SubSeq(d, 1, Len(d)) = SubSeq(c, 1, Len(d))
      BY <1>2 DEF IsStrictPrefix, IsPrefix
    <3>2. \A k \in 1..Len(d) : SubSeq(d, 1, Len(d))[k] = d[k] /\ SubSeq(c, 1, Len(d))[k] = c[k]
      BY <1>0, <3>1
    <3>3. QED
      BY <1>0, <1>2, <3>1, <3>2
  <2>4. \A k \in 1..Len(d) : k \in 1..n /\ t[k] = d[k]
    BY <1>0, <2>1, <2>2, <2>3
  <2>5. CASE s = t
    BY <2>2, <2>4, <2>5 DEF Has
  <2>6. CASE n < Len(c) /\ s = Append(t, Torn)
    <3>1. /\ Good(s) /\ Len(s) = n + 1 /\ \A k \in 1..n : s[k] = t[k]
      BY <2>2, <2>6, GoodAppend, FrameTypes
    <3>2. QED
      BY <2>1, <2>4, <3>1 DEF Has
  <2>7. QED
    BY <1>2, <2>5, <2>6 DEF t
<1>3. CASE \E n \in Len(d)..Len(c) :
             /\ IsStrictPrefix(d, c)
             /\ s = Cut(c, n) \/ (n < Len(c) /\ s = Append(Cut(c, n), Torn))
  BY <1>2, <1>3
<1>4. QED
  BY <1>1, <1>3, CutOutcome

LEMMA CrashCalm ==
  ASSUME TypeInv, HandleInv, Calm, Alone', TypeInv', Crash
  PROVE  Calm'
<1>0. /\ openFiles' = None /\ \A h \in Handles : ~handle'[h].open
      /\ \A a \in Appenders : proc'[a].pc = "idle"
      /\ proc'[Compactor].pc \in {"idle", "done"}
  BY CrashEffect, ProcKinds
<1>1. OneHandle'
  BY <1>0 DEF OneHandle, At, Opening, OpenPc, HoldPc, OpenedPc
<1>2. GoodFiles'
  <2>1. \A f \in Files : Good(content[f]) /\ Good(disk[f])
    BY DEF Calm, GoodFiles
  <2>2. \A f \in Files : \A s \in CrashOutcomes(f) : Good(s)
    BY <2>1, GoodCrash DEF TypeInv
  <2>3. QED
    BY <1>0, <2>1, <2>2, CrashEffect DEF GoodFiles, files
<1>3. Counts'
  BY <1>0 DEF Counts
<1>4. Counted'
  BY <1>0 DEF Counted, At
<1>5. QED
  BY <1>1, <1>2, <1>3, <1>4 DEF Calm

LEMMA CalmStep ==
  ASSUME TypeInv, HandleInv, Calm, Next, Alone'
  PROVE  Calm'
<1>1. TypeInv'
  BY TypeStep
<1>2. ASSUME NEW a \in Appenders, AppendStep(a) PROVE Calm'
  BY <1>1, <1>2, LookCalm, TruncateCalm, OpenCalm, StoreCalm, DirSyncCalm, LockCalm,
     WriteCalm, SyncCalm, RollbackCalm, DropCalm DEF AppendStep
<1>3. CASE CloserStep
  BY <1>1, <1>3, CloserCalm, IdleCalm, RenameCalm DEF CloserStep
<1>4. QED
  BY <1>1, <1>2, <1>3, CrashCalm, StepOf

LEMMA AloneStep == TypeInv /\ HandleInv /\ AloneInv /\ [Next]_vars => AloneInv'
<1> SUFFICES ASSUME TypeInv, HandleInv, AloneInv, [Next]_vars PROVE AloneInv'
  OBVIOUS
<1>1. CASE UNCHANGED vars
  BY <1>1 DEF vars, files, bounds, AloneInv, Calm, Alone, OneHandle, GoodFiles, Counts,
     Counted, Current, Journal, Opening, Busy, Compacting, At
<1>2. CASE Next
  BY <1>2, AloneNext, CalmStep DEF AloneInv
<1>3. QED
  BY <1>1, <1>2

LEMMA AloneInit == Init => AloneInv
<1> SUFFICES ASSUME Init PROVE Calm
  BY DEF AloneInv
<1>1. /\ \A p \in Procs : proc[p].pc = "idle"
      /\ Appenders \subseteq Procs /\ Compactor \in Procs
  BY IdleType, ProcKinds DEF Init
<1>2. Alone /\ OneHandle /\ Counted
  BY <1>1 DEF Alone, OneHandle, Counted, Opening, OpenPc, HoldPc, OpenedPc, Busy, At, Compacting
<1>3. GoodFiles
  BY <1>1, GoodEmpty DEF Init, GoodFiles
<1>4. Counts
  <2>1. \A h \in Handles : ~handle[h].open
    BY DEF Init, Closed
  <2>2. QED
    BY <2>1 DEF Counts
<1>5. QED
  BY <1>2, <1>3, <1>4 DEF Calm

-----------------------------------------------------------------------------
\* The name of the file on disk

LEMMA AppendNames ==
  ASSUME TypeInv, NEW a \in Appenders, AppendStep(a)
  PROVE  /\ Busy(a) \/ At(Compactor, "idle")
         /\ proc'[Compactor] = proc[Compactor]
         /\ \A b \in Appenders \ {a} : proc'[b] = proc[b]
         /\ \/ UNCHANGED <<path, dpath>>
            \/ dpath' = dpath /\ (path' = path \/ path = None)
            \/ path' = path /\ dpath' \in {dpath, path}
<1>1. proc'[Compactor] = proc[Compactor] /\ \A b \in Appenders \ {a} : proc'[b] = proc[b]
  BY AppendProc, ProcKinds
<1>2. CASE Begin(a) \/ Lookup(a) \/ OpenFails(a) \/ JournalTail(a) \/ Stat(a)
  BY <1>1, <1>2, LookEffect DEF Busy, At, files, AppendOpenPc
<1>3. CASE TruncateJournalTo(a)
  BY <1>1, <1>3, TruncateEffect DEF Busy, At
<1>4. CASE Open(a)
  BY <1>1, <1>4, OpenEffect DEF Busy, At
<1>5. CASE LoadOrStore(a)
  BY <1>1, <1>5, StoreEffect DEF Busy, At, files
<1>6. CASE DirSync(a)
  BY <1>1, <1>6, DirSyncEffect DEF Busy, At
<1>7. CASE Lock(a)
  BY <1>1, <1>7, LockEffect DEF Busy, At, files
<1>8. CASE Write(a)
  BY <1>1, <1>8, WriteEffect DEF Busy, At
<1>9. CASE Sync(a)
  BY <1>1, <1>9, SyncEffect DEF Busy, At
<1>10. CASE Rollback(a)
  BY <1>1, <1>10, RollbackEffect DEF Busy, At
<1>11. CASE Drop(a)
  BY <1>1, <1>11, DropEffect DEF Busy, At, files
<1>12. QED
  BY <1>2, <1>3, <1>4, <1>5, <1>6, <1>7, <1>8, <1>9, <1>10, <1>11 DEF AppendStep

LEMMA CloserNames ==
  ASSUME TypeInv, CloserStep
  PROVE  \/ /\ UNCHANGED <<path, dpath>>
            /\ \/ proc'[Compactor] = proc[Compactor]
               \/ proc[Compactor].pc \notin {"dirsync", "done"}
         \/ /\ At(Compactor, "rename") /\ proc'[Compactor].pc = "dirsync"
            /\ path' # None /\ dpath' = dpath
         \/ /\ At(Compactor, "dirsync") /\ proc'[Compactor].pc = "done"
            /\ path' = path /\ dpath' \in {path, dpath}
<1>1. ASSUME NEW c \in Closers, TakeHandle(c) \/ CloseHandle(c)
      PROVE  /\ UNCHANGED <<path, dpath>>
             /\ \/ proc'[Compactor] = proc[Compactor]
                \/ proc[Compactor].pc \notin {"dirsync", "done"}
  <2>1. UNCHANGED files /\ proc[c].pc \in {"take", "close"}
        /\ \A q \in Procs \ {c} : proc'[q] = proc[q]
    BY <1>1, TakeEffect, CloseEffect DEF At, Moves
  <2>2. QED
    BY <2>1, ProcKinds DEF files
<1>2. CASE Evict
  BY <1>2, EvictEffect, ProcKinds DEF Moves, files
<1>3. CASE CompactRead
  BY <1>3, CompactReadEffect, ProcKinds DEF Moves, files, At
<1>4. CASE Rename
  BY <1>4, RenameEffect, ProcKinds DEF Moves, At
<1>5. CASE SyncDir
  BY <1>5, SyncDirEffect, ProcKinds DEF Moves, At
<1>6. QED
  BY <1>1, <1>2, <1>3, <1>4, <1>5 DEF CloserStep

LEMMA NameStep == TypeInv /\ AloneInv /\ NameInv /\ [Next]_vars => NameInv'
<1> SUFFICES ASSUME TypeInv, AloneInv, NameInv, [Next]_vars PROVE NameInv'
  OBVIOUS
<1>1. CASE UNCHANGED vars
  BY <1>1 DEF vars, files, NameInv, Busy, At
<1>2. ASSUME Next PROVE path' = None => dpath' = None
  <2>1. CASE \E a \in Appenders : AppendStep(a)
    BY <2>1, AppendNames DEF NameInv
  <2>2. CASE CloserStep
    BY <2>2, CloserNames DEF NameInv
  <2>3. CASE Crash
    BY <2>3, CrashEffect DEF NameInv, files
  <2>4. QED
    BY <1>2, <2>1, <2>2, <2>3, StepOf
<1>3. ASSUME Next, ~overlapped', dpath' \notin {None, path'}
      PROVE  /\ proc'[Compactor].pc \in {"dirsync", "done"}
             /\ \A a \in Appenders : ~Busy(a)'
  <2>1. Alone /\ ~overlapped
    BY <1>3, AloneNext DEF AloneInv, Calm
  <2>2. dpath \notin {None, path} =>
          proc[Compactor].pc \in {"dirsync", "done"} /\ \A a \in Appenders : proc[a].pc = "idle"
    BY <2>1 DEF NameInv, Busy, At
  <2>3. path = None => dpath = None
    BY DEF NameInv
  <2>4. ~(\E a \in Appenders : AppendStep(a))
    BY <1>3, <2>2, <2>3, AppendNames DEF Busy, At
  <2>5. CASE CloserStep
    <3>1. \A a \in Appenders : proc'[a] = proc[a]
      BY <2>5, CloserTypes DEF CloserTyped
    <3>2. proc[Compactor].pc \in {"rename", "dirsync"} =>
            \A a \in Appenders : proc[a].pc = "idle"
      BY <2>1, Solo
    <3>3. QED
      BY <1>3, <2>2, <2>5, <3>1, <3>2, CloserNames DEF Busy, At
  <2>6. CASE Crash
    <3>1. dpath' = dpath /\ path' = path
      BY <1>3, <2>6, CrashEffect DEF files
    <3>2. QED
      BY <1>3, <2>2, <2>6, <3>1, CrashEffect, ProcKinds DEF Busy, At
  <2>7. QED
    BY <1>3, <2>4, <2>5, <2>6, StepOf
<1>4. QED
  BY <1>1, <1>2, <1>3 DEF NameInv

LEMMA NameInit == Init => NameInv
BY NoneIsNoName DEF Init, NameInv

-----------------------------------------------------------------------------
\* Where the acknowledged records are

LEMMA WithinKept ==
  ASSUME NEW op, Within(op), HandlesTyped, HandlesTyped',
         \A h \in Handles : Current(h)' /\ handle'[h].open =>
           /\ Current(h) /\ handle[h].open /\ handle'[h].count >= handle[h].count
           /\ \A k \in 1..handle[h].count : Journal'[k] = Journal[k]
  PROVE  Within(op)'
<1> SUFFICES ASSUME NEW h \in Handles, Current(h)', handle'[h].open
             PROVE  \E k \in 1..handle'[h].count : Journal'[k].op = op
  BY DEF Within
<1>1. /\ Current(h) /\ handle[h].open /\ handle'[h].count >= handle[h].count
      /\ \A k \in 1..handle[h].count : Journal'[k] = Journal[k]
  OBVIOUS
<1>2. handle[h].count \in Nat /\ handle'[h].count \in Nat
  BY DEF HandlesTyped, HandleState
<1>3. PICK k \in 1..handle[h].count : Journal[k].op = op
  BY <1>1 DEF Within
<1>4. QED
  BY <1>1, <1>2, <1>3

\* A step that changes no file.
LEMMA FilesKept ==
  ASSUME NEW op, Within(op), Stored(op), HandlesTyped, HandlesTyped',
         UNCHANGED <<path, content, disk>>, dpath' \in {path, dpath},
         \A h \in Handles : Current(h)' /\ handle'[h].open =>
           Current(h) /\ handle[h].open /\ handle'[h].count = handle[h].count
  PROVE  Within(op)' /\ Stored(op)'
<1>1. Journal' = Journal
  BY DEF Journal
<1>2. Stored(op)'
  BY DEF Stored
<1>3. \A h \in Handles : handle[h].count \in Nat
  BY DEF HandlesTyped, HandleState
<1>4. Within(op)'
  BY <1>1, <1>3, WithinKept
<1>5. QED
  BY <1>2, <1>4

LEMMA RecordsHas ==
  ASSUME NEW s \in Seq(AnyFrame), NEW op \in 1..MaxOps
  PROVE  op \in Records(s) <=> Has(s, op)
<1>1. DOMAIN s = 1..Len(s)
  OBVIOUS
<1>2. QED
  BY <1>1 DEF Records, Has

\* A stored record is found by a scan whose reads do not fail.
LEMMA StoredReadable ==
  ASSUME TypeInv, Calm, path \in Files, NEW op \in 1..MaxOps, Stored(op)
  PROVE  op \in Readable /\ Has(Journal, op)
<1>1. Journal \in Seq(AnyFrame) /\ Good(Journal) /\ Has(Journal, op)
  BY GoodJournal, FileTypes, NoneIsNoName DEF Calm, Stored
<1>2. Intact(Journal) \in Seq(AnyFrame) /\ Has(Intact(Journal), op)
  BY <1>1, HasInIntact, IntactOfGood
<1>3. QED
  BY <1>1, <1>2, RecordsHas DEF Readable

\* While one appender steps, another is not opening the file.
LEMMA BusyAround ==
  ASSUME TypeInv, Alone, Alone', NEW a \in Appenders, AppendStep(a), NEW b \in Appenders \ {a}
  PROVE  proc'[b] = proc[b] /\ proc[b].pc \notin {"stat", "truncate"}
<1>1. proc'[b] = proc[b]
  BY AppendProc, ProcKinds
<1>2. Busy(a) \/ Busy(a)'
  <2>1. CASE Begin(a)
    <3>1. Begin(a) \/ Lookup(a) \/ OpenFails(a) \/ JournalTail(a) \/ Stat(a)
      BY <2>1
    <3>2. At(a, "idle")
      BY <2>1 DEF Begin
    <3>3. proc'[a].pc = "lookup"
      BY <3>1, <3>2, LookEffect DEF At, Moves, AppendOpenPc
    <3>4. QED
      BY <3>3 DEF Busy, At
  <2>2. CASE ~Begin(a)
    <3>1. proc[a].pc \in {"lookup", "tail", "stat", "truncate", "open", "store", "dirsync", "lock",
                          "write", "sync", "rollback", "drop"}
      BY <2>2 DEF AppendStep, Lookup, OpenFails, JournalTail, Stat, TruncateJournalTo, Open,
         LoadOrStore, DirSync, Lock, Write, Sync, Rollback, Drop, At
    <3>2. QED
      BY <3>1 DEF Busy, At
  <2>3. QED
    BY <2>1, <2>2
<1>3. QED
  BY <1>1, <1>2 DEF Alone, Opening, OpenPc, Busy, At

\* Where the appender that steps goes after its scan.
LEMMA ScanMoves ==
  ASSUME TypeInv, NEW a \in Appenders, AppendStep(a), proc'[a].pc \in {"stat", "truncate"}
  PROVE  /\ UNCHANGED files
         /\ \/ /\ At(a, "tail") /\ proc'[a].pc = "stat"
               /\ \E scan \in Scans(Journal) \cup Misreads(Journal) :
                    scan # None /\ Read(scan) /\ proc'[a].count = Len(scan)
            \/ At(a, "stat") /\ proc'[a].count = proc[a].count
<1> USE DEF Moves
<1>1. CASE Begin(a) \/ Lookup(a) \/ OpenFails(a) \/ JournalTail(a) \/ Stat(a)
  BY <1>1, LookEffect
<1>2. CASE TruncateJournalTo(a)
  BY <1>2, TruncateEffect
<1>3. CASE Open(a)
  BY <1>3, OpenEffect
<1>4. CASE LoadOrStore(a)
  BY <1>4, StoreEffect
<1>5. CASE DirSync(a)
  BY <1>5, DirSyncEffect
<1>6. CASE Lock(a)
  BY <1>6, LockEffect
<1>7. CASE Write(a)
  BY <1>7, WriteEffect
<1>8. CASE Sync(a)
  BY <1>8, SyncEffect
<1>9. CASE Rollback(a)
  BY <1>9, RollbackEffect
<1>10. CASE Drop(a)
  BY <1>10, DropEffect
<1>11. QED
  BY <1>1, <1>2, <1>3, <1>4, <1>5, <1>6, <1>7, <1>8, <1>9, <1>10 DEF AppendStep

\* A record that the scan has not left out is among the frames it counts.
LEMMA ScannedByAppender ==
  ASSUME TypeInv, Calm, Alone', NEW a \in Appenders, AppendStep(a), NEW op \in 1..MaxOps,
         At(a, "tail") \/ At(a, "stat") =>
           path \in Files /\ Stored(op) /\ Scanned(op) /\ op \notin LeftOut
  PROVE  Scanned(op)'
<1> SUFFICES ASSUME proc'[a].pc \in {"stat", "truncate"}
             PROVE  \E k \in 1..proc'[a].count : Journal'[k].op = op
  BY BusyAround DEF Calm, Scanned
<1>1. Journal' = Journal /\ (At(a, "tail") \/ At(a, "stat"))
  BY ScanMoves DEF Journal, files
<1>2. path \in Files /\ Stored(op) /\ Scanned(op) /\ op \notin LeftOut
  BY <1>1
<1>3. CASE At(a, "stat") /\ proc'[a].count = proc[a].count
  BY <1>1, <1>2, <1>3 DEF Scanned, At
<1>4. CASE /\ At(a, "tail") /\ proc'[a].pc = "stat"
           /\ \E scan \in Scans(Journal) \cup Misreads(Journal) :
                scan # None /\ Read(scan) /\ proc'[a].count = Len(scan)
  <2> DEFINE n == proc'[a].count
  <2>1. Journal \in Seq(AnyFrame) /\ Good(Journal)
    BY GoodJournal DEF Calm
  <2>2. PICK scan \in Scans(Journal) \cup Misreads(Journal) : n = Len(scan) /\ Read(scan)
    BY <1>4
  <2>3. n \in Nat /\ n <= Len(Intact(Journal))
    BY <2>1, <2>2, ScansAreFronts
  <2>4. n <= Len(Journal)
    BY <2>1, <2>3, IntactOfGood
  <2>5. /\ Cut(Journal, n) \in Seq(AnyFrame) /\ Len(Cut(Journal, n)) = n
        /\ \A k \in 1..n : k <= Len(Journal) => Cut(Journal, n)[k] = Journal[k]
    BY <2>1, <2>3, CutShape
  <2>6. ASSUME faults' # faults PROVE Has(Cut(Journal, n), op)
    <3>1. op \in Readable
      BY <1>2, StoredReadable
    <3>2. op \in Records(Cut(Journal, n))
      BY <1>2, <1>4, <2>6, <3>1 DEF LeftOut
    <3>3. QED
      BY <2>5, <3>2, RecordsHas
  <2>10. ASSUME faults' = faults PROVE Has(Cut(Journal, n), op)
    <3>1. scan = Intact(Journal) /\ Has(Journal, op)
      BY <1>2, <2>1, <2>2, <2>10, ScansOfGood, StoredReadable DEF Read
    <3>2. Has(Intact(Journal), op)
      BY <2>1, <3>1, HasInIntact
    <3>3. QED
      BY <2>1, <2>2, <2>4, <2>5, <3>1, <3>2, IntactOfGood DEF Has
  <2>7. Has(Cut(Journal, n), op)
    BY <2>6, <2>10
  <2>8. \A k \in 1..n : Cut(Journal, n)[k] = Journal[k]
    BY <2>1, <2>3, <2>4, <2>5
  <2>9. QED
    BY <1>1, <2>5, <2>7, <2>8 DEF Has
<1>5. QED
  BY <1>3, <1>4, ScanMoves

LEMMA ScannedByCloser ==
  ASSUME TypeInv, Calm, CloserStep, NEW op, Scanned(op)
  PROVE  Scanned(op)'
<1>1. \A a \in Appenders : proc'[a] = proc[a]
  BY CloserTypes DEF CloserTyped
<1>2. CASE Rename
  BY <1>1, <1>2, RenameEffect, Solo DEF Calm, Scanned, At
<1>3. CASE ~Rename
  <2>1. ASSUME NEW c \in Closers, TakeHandle(c) \/ CloseHandle(c) PROVE UNCHANGED <<path, content>>
    BY <2>1, TakeEffect, CloseEffect DEF files
  <2>2. UNCHANGED <<path, content>>
    BY <1>3, <2>1, EvictEffect, CompactReadEffect, SyncDirEffect DEF CloserStep, files
  <2>3. QED
    BY <1>1, <2>2 DEF Scanned, Journal
<1>4. QED
  BY <1>2, <1>3

LEMMA HasCut ==
  ASSUME NEW s \in Seq(AnyFrame), NEW n \in 0..Len(s), NEW op,
         \E k \in 1..n : s[k].op = op
  PROVE  Has(Cut(s, n), op)
<1>1. PICK k \in 1..n : s[k].op = op
  OBVIOUS
<1>2. Len(Cut(s, n)) = n /\ Cut(s, n)[k] = s[k]
  BY CutShape
<1>3. QED
  BY <1>1, <1>2 DEF Has

\* Only frames that the scan has not counted are cut off when the file is opened.
LEMMA TruncateSafe ==
  ASSUME TypeInv, HandleInv, Calm, NEW a \in Appenders, TruncateJournalTo(a),
         path \in Files, dpath = path, NEW op \in 1..MaxOps, Stored(op), Within(op), Scanned(op)
  PROVE  Stored(op)' /\ Within(op)'
<1> DEFINE n == proc[a].count
           s == content[path]
<1>1. /\ At(a, "truncate") /\ proc'[a].pc \in {"open", "idle"} /\ UNCHANGED <<path, dpath, openFiles>>
      /\ \A b \in Appenders \ {a} : proc'[b] = proc[b]
      /\ \/ UNCHANGED <<content, disk>>
         \/ \E d \in {disk[path], Cut(s, n)} : Sets(path, Cut(s, n), d)
  BY TruncateEffect, ProcKinds DEF Moves
<1>2. \A h \in Handles : ~Current(h)'
  BY <1>1, Places, OnlyOne DEF Calm, CurrentOne, Current, AppendOpenPc, OpenedPc, At
<1>3. Within(op)'
  BY <1>2 DEF Within
<1>4. s \in Seq(AnyFrame) /\ Good(s) /\ Journal = s /\ n \in Nat /\ n <= Len(Intact(s))
  BY <1>1, GoodJournal, FileTypes, ProcKinds, NoneIsNoName
     DEF Calm, Counted, At, TypeInv, ProcState
<1>5. Has(s, op) /\ Has(disk[path], op)
  BY NoneIsNoName DEF Stored
<1>6. n \in 0..Len(s)
  BY <1>4, IntactOfGood
<1>7. \E k \in 1..n : s[k].op = op
  BY <1>1, <1>4 DEF Scanned, At
<1>8. Has(Cut(s, n), op)
  BY <1>4, <1>6, <1>7, HasCut
<1>9. Stored(op)'
  BY <1>1, <1>5, <1>8 DEF Stored, Sets
<1>10. QED
  BY <1>3, <1>9

LEMMA OpenSafe ==
  ASSUME TypeInv, HandleInv, Calm, TypeInv', Calm', NEW a \in Appenders, Open(a),
         path \in Files, NEW op \in 1..MaxOps, Stored(op)
  PROVE  Stored(op)' /\ Within(op)'
<1>1. /\ At(a, "open") /\ UNCHANGED <<path, dpath, content, disk>>
      /\ proc'[a].pc = "store" /\ proc'[a].h \in Handles
      /\ handle'[proc'[a].h].count = proc[a].count
  BY OpenEffect, NoneIsNoName DEF Moves
<1>2. Stored(op)'
  BY <1>1 DEF Stored
<1>3. \A h \in Handles : Current(h)' => h = proc'[a].h
  BY <1>1, OnlyOneNext DEF CurrentOne, Calm, OpenedPc
<1>4. Journal = content[path] /\ Journal' = Journal /\ proc[a].count = Len(Journal)
  BY <1>1, FileTypes, NoneIsNoName DEF Calm, Counted, At, Journal
<1>5. Has(Journal, op)
  BY <1>4, NoneIsNoName DEF Stored
<1>6. Within(op)'
  BY <1>1, <1>3, <1>4, <1>5 DEF Within, Has
<1>7. QED
  BY <1>2, <1>6

\* Steps of an appender that change no file.
LEMMA QuietSafe ==
  ASSUME TypeInv, HandleInv, Calm, TypeInv', Calm', NEW a \in Appenders,
         \/ Begin(a) \/ Lookup(a) \/ OpenFails(a) \/ JournalTail(a) \/ Stat(a)
         \/ LoadOrStore(a) \/ DirSync(a) \/ Lock(a) \/ Drop(a),
         NEW op \in 1..MaxOps, Stored(op), Within(op)
  PROVE  Stored(op)' /\ Within(op)'
<1>0. HandlesTyped /\ HandlesTyped'
  BY DEF TypeInv
<1>1. /\ UNCHANGED <<path, content, disk>> /\ dpath' \in {path, dpath}
      /\ \A h \in Handles : Current(h)' /\ handle'[h].open =>
           Current(h) /\ handle[h].open /\ handle'[h].count = handle[h].count
  <2>1. CASE Begin(a) \/ Lookup(a) \/ OpenFails(a) \/ JournalTail(a) \/ Stat(a)
    BY <2>1, LookEffect, Places DEF Current, Moves, files
  <2>2. CASE LoadOrStore(a)
    <3>1. openFiles = None
      BY <2>2, StoreEffect DEF Calm, OneHandle, Opening, OpenPc, At
    <3>2. /\ UNCHANGED <<files, handle>> /\ openFiles' = proc[a].h /\ proc'[a].h = proc[a].h
          /\ \A q \in Procs \ {a} : proc'[q] = proc[q]
      BY <2>2, <3>1, StoreEffect, Places DEF Moves, Keeps
    <3>3. \A h \in Handles : Current(h)' => Current(h)
      BY <2>2, <3>2, StoreEffect, Places DEF Current, At
    <3>4. QED
      BY <3>2, <3>3 DEF files
  <2>3. CASE DirSync(a)
    <3>1. \A h \in Handles : Current(h)' => Current(h)
      BY <2>3, DirSyncEffect, Places DEF Current, Moves, Keeps, At
    <3>2. QED
      BY <2>3, <3>1, DirSyncEffect DEF Shuts
  <2>4. CASE Lock(a)
    <3>1. \A h \in Handles : Current(h)' => Current(h)
      BY <2>4, LockEffect, Places DEF Current, Moves, Keeps, At
    <3>2. QED
      BY <2>4, <3>1, LockEffect DEF Marks, files
  <2>5. CASE Drop(a)
    <3>1. \A h \in Handles : Current(h)' => Current(h)
      BY <2>5, DropEffect, Places DEF Current, Moves, At
    <3>2. QED
      BY <2>5, <3>1, DropEffect DEF Marks, files
  <2>6. QED
    BY <2>1, <2>2, <2>3, <2>4, <2>5
<1>2. QED
  BY <1>0, <1>1, FilesKept

\* A frame, whole or torn, is written behind those that are there.
LEMMA WriteSafe ==
  ASSUME TypeInv, HandleInv, Calm, TypeInv', Calm', NEW a \in Appenders, Write(a),
         NEW op \in 1..MaxOps, Stored(op), Within(op)
  PROVE  Stored(op)' /\ Within(op)'
<1> DEFINE f == Mine(a).file
<1>0. At(a, "write") /\ proc[a].pc \in MuPc /\ UNCHANGED <<path, dpath, disk, openFiles, handle>>
      /\ proc'[a].h = proc[a].h
  BY WriteEffect DEF At, MuPc, Keeps
<1>1. \/ UNCHANGED content
      \/ \E fr \in AnyFrame :
           /\ Mine(a).open
           /\ content'[f] = Append(content[f], fr)
           /\ \A g \in Files \ {f} : content'[g] = content[g]
  BY <1>0, WriteEffect, FrameOfAppend, FrameTypes DEF Sets
<1>2. \A g \in Files : content[g] \in Seq(AnyFrame)
  BY DEF TypeInv, FilesTyped
<1>3. \A g \in Files : Has(content[g], op) => Has(content'[g], op)
  BY <1>1, <1>2 DEF Has
<1>4. Stored(op)'
  BY <1>0, <1>3, ProcKinds DEF Stored, TypeInv
<1>5. \A h \in Handles : Current(h)' => Current(h)
  BY <1>0, WriteEffect, Places DEF Current, Moves
<1>6. Mine(a).open => /\ path \in Files /\ f = path /\ Journal = content[path]
                      /\ proc[a].h \in Handles
                      /\ \A h \in Handles : Current(h) => h = proc[a].h
                      /\ Mine(a).count \in Nat /\ Mine(a).count <= Len(Journal)
  BY <1>0, HolderKnows
<1>7. \A h \in Handles : Current(h) /\ handle[h].open =>
        \A k \in 1..handle[h].count : Journal'[k] = Journal[k]
  <2>1. CASE UNCHANGED content
    BY <1>0, <2>1 DEF Journal
  <2>2. ASSUME NEW fr \in AnyFrame, Mine(a).open, content'[f] = Append(content[f], fr)
        PROVE  \A k \in 1..Mine(a).count : Journal'[k] = Journal[k]
    <3>1. Journal' = Append(Journal, fr) /\ Journal \in Seq(AnyFrame)
      BY <1>0, <1>2, <1>6, <2>2, NoneIsNoName DEF Journal
    <3>2. QED
      BY <1>6, <2>2, <3>1
  <2>3. CASE ~Mine(a).open
    <3>1. \A h \in Handles : Current(h) => h = proc[a].h
      BY <1>0, HolderKnows
    <3>2. QED
      BY <2>3, <3>1 DEF Mine
  <2>4. QED
    BY <1>1, <1>6, <2>1, <2>2, <2>3 DEF Mine
<1>8. HandlesTyped /\ HandlesTyped' /\ \A h \in Handles : handle[h].count \in Nat
  BY DEF TypeInv, HandlesTyped, HandleState
<1>9. Within(op)'
  BY <1>0, <1>5, <1>7, <1>8, WithinKept
<1>10. QED
  BY <1>4, <1>9

\* The record that is acknowledged is the last of the file, and on disk.
LEMMA SyncSafe ==
  ASSUME TypeInv, HandleInv, Calm, TypeInv', Calm', NEW a \in Appenders, Sync(a),
         dpath \in {None, path}
  PROVE  /\ \A op \in 1..MaxOps : Stored(op) /\ Within(op) => Stored(op)' /\ Within(op)'
         /\ \A op \in acked' \ acked :
              path \in Files /\ Stored(op)' /\ Within(op)' /\ Buffered(op)'
<1>0. At(a, "sync") /\ proc[a].pc \in MuPc /\ UNCHANGED <<path, dpath, content, openFiles>>
      /\ proc[a].h \in Handles
  BY SyncEffect DEF At, MuPc
<1>1. /\ \A h \in Handles : Current(h)' => Current(h)
      /\ \A h \in Handles : Current(h) => h = proc[a].h
      /\ proc[Compactor].pc \in {"idle", "done"}
  <2>1. \A h \in Handles : Current(h)' => Current(h)
    BY <1>0, SyncEffect, Places DEF Current, Moves, Keeps, At
  <2>2. QED
    BY <1>0, <2>1, HolderKnows
<1>2. /\ HandlesTyped /\ HandlesTyped' /\ \A h \in Handles : handle[h].count \in Nat
      /\ Journal' = Journal
  BY <1>0 DEF TypeInv, HandlesTyped, HandleState, Journal
<1>3. CASE UNCHANGED <<disk, handle, acked>>
  BY <1>0, <1>1, <1>2, <1>3, FilesKept
<1>4. CASE ~UNCHANGED <<disk, handle, acked>>
  <2> DEFINE f == Mine(a).file
  <2>1. /\ Mine(a).open /\ f = path /\ f \in Files
        /\ disk'[f] = content[f] /\ (\A g \in Files \ {f} : disk'[g] = disk[g])
        /\ acked' = acked \cup {proc[a].op}
        /\ \A g \in Handles \ {proc[a].h} : handle'[g] = handle[g]
        /\ handle'[proc[a].h].count = Mine(a).count + 1
        /\ proc'[Compactor] = proc[Compactor]
    BY <1>0, <1>4, SyncEffect, HolderKnows, ProcKinds DEF Sets, Moves
  <2>2. /\ Journal = content[path] /\ Len(Journal) = Mine(a).count + 1
        /\ Journal[Len(Journal)].op = proc[a].op /\ Mine(a).count \in Nat
    BY <1>0, <2>1, HolderKnows DEF At
  <2>3. ASSUME NEW op \in 1..MaxOps, Stored(op), Within(op)
        PROVE  Stored(op)' /\ Within(op)'
    <3>1. Stored(op)'
      BY <1>0, <2>1, <2>3, ProcKinds DEF Stored, TypeInv
    <3>2. Within(op)'
      BY <1>1, <1>2, <2>1, <2>2, <2>3, WithinKept DEF Mine
    <3>3. QED
      BY <3>1, <3>2
  <2>4. Has(content[path], proc[a].op)
    BY <2>1, <2>2 DEF Has
  <2>5. ASSUME NEW op, op = proc[a].op
        PROVE  path \in Files /\ Stored(op)' /\ Within(op)' /\ Buffered(op)'
    <3>1. Stored(op)'
      BY <1>0, <2>1, <2>4, <2>5 DEF Stored
    <3>2. Within(op)'
      BY <1>0, <1>1, <1>2, <2>1, <2>2, <2>5 DEF Within
    <3>3. Buffered(op)'
      BY <1>1, <2>1 DEF Buffered
    <3>4. QED
      BY <2>1, <3>1, <3>2, <3>3
  <2>6. QED
    BY <2>1, <2>3, <2>5
<1>5. QED
  BY <1>3, <1>4

\* A rollback cuts behind what the handle has counted.
LEMMA RollbackSafe ==
  ASSUME TypeInv, HandleInv, Calm, TypeInv', Calm', NEW a \in Appenders, Rollback(a),
         NEW op \in 1..MaxOps, Stored(op), Within(op)
  PROVE  Stored(op)' /\ Within(op)'
<1> DEFINE f == Mine(a).file
           n == Mine(a).count
<1>0. At(a, "rollback") /\ proc[a].pc \in MuPc /\ UNCHANGED <<path, dpath, openFiles>>
      /\ proc[a].h \in Handles /\ ~handle'[proc[a].h].open
  BY RollbackEffect DEF At, MuPc, Shuts
<1>1. \A h \in Handles : Current(h)' => h = proc[a].h
  <2>1. proc'[a].pc = "drop" /\ proc'[a].h = proc[a].h
    BY RollbackEffect DEF Moves, Keeps
  <2>2. QED
    BY <2>1, OnlyOneNext DEF CurrentOne, Calm, OpenedPc
<1>2. Within(op)'
  BY <1>0, <1>1 DEF Within
<1>3. CASE UNCHANGED <<content, disk>>
  BY <1>0, <1>2, <1>3 DEF Stored
<1>4. CASE ~UNCHANGED <<content, disk>>
  <2>1. /\ Mine(a).open /\ f \in Files
        /\ content'[f] = Cut(content[f], n) /\ disk'[f] \in {disk[f], Cut(content[f], n)}
        /\ \A g \in Files \ {f} : content'[g] = content[g] /\ disk'[g] = disk[g]
    BY <1>4, RollbackEffect DEF Sets
  <2>2. /\ Current(proc[a].h) /\ Journal = content[f] /\ n \in 0..Len(content[f])
        /\ content[f] \in Seq(AnyFrame)
    BY <1>0, <2>1, HolderKnows DEF TypeInv, FilesTyped
  <2>3. Has(Cut(content[f], n), op)
    BY <1>0, <2>1, <2>2, HasCut DEF Within, Mine
  <2>4. QED
    BY <1>0, <1>2, <2>1, <2>3, ProcKinds DEF Stored, TypeInv
<1>5. QED
  BY <1>3, <1>4

\* Closing the handle, and the steps of compaction before and after its rename.
LEMMA CloserSafe ==
  ASSUME TypeInv, HandleInv, Calm, TypeInv', Calm', CloserStep, ~Rename,
         path \in Files, NEW op \in 1..MaxOps, Safe(op), op \notin LeftOut
  PROVE  Safe(op)'
<1>0. /\ HandlesTyped /\ HandlesTyped' /\ Stored(op) /\ Within(op) /\ Buffered(op)
      /\ \A b \in Appenders : proc'[b] = proc[b]
  BY CloserTypes DEF TypeInv, Safe, CloserTyped
<1>1. ASSUME NEW c \in Closers, TakeHandle(c) \/ CloseHandle(c)
      PROVE  Safe(op)'
  <2>1. /\ UNCHANGED files /\ openFiles' \in {None, openFiles}
        /\ \A h \in Handles : handle'[h].open =>
             handle[h].open /\ handle'[h].count = handle[h].count
    <3>1. CASE TakeHandle(c)
      BY <3>1, TakeEffect
    <3>2. CASE CloseHandle(c)
      BY <3>2, CloseEffect DEF Shuts
    <3>3. QED
      BY <1>1, <3>1, <3>2
  <2>2. \A h \in Handles : Current(h)' => Current(h)
    BY <1>0, <2>1, Places DEF Current
  <2>3. Within(op)' /\ Stored(op)'
    BY <1>0, <2>1, <2>2, FilesKept DEF files
  <2>4. Buffered(op)'
    BY <1>0, <1>1, TakeEffect, CloseEffect, ProcKinds DEF Buffered, Moves, At, AfterTake
  <2>5. QED
    BY <2>3, <2>4 DEF Safe
<1>2. CASE Evict \/ CompactRead \/ SyncDir
  <2>1. /\ UNCHANGED <<path, content, disk, openFiles, handle>> /\ dpath' \in {path, dpath}
    BY <1>2, EvictEffect, CompactReadEffect, SyncDirEffect DEF files
  <2>2. \A h \in Handles : Current(h)' => Current(h)
    BY <1>0, <2>1 DEF Current
  <2>3. Within(op)' /\ Stored(op)'
    BY <1>0, <2>1, <2>2, FilesKept
  <2>4. ASSUME Evict PROVE Buffered(op)'
    BY <1>0, <2>4, EvictEffect, ProcKinds DEF Buffered, Moves
  <2>5. ASSUME SyncDir PROVE Buffered(op)'
    BY <1>0, <2>5, SyncDirEffect DEF Buffered, Moves
  <2>6. ASSUME CompactRead PROVE Buffered(op)'
    <3>1. At(Compactor, "idle") /\ proc'[Compactor].pc \in {"done", "take"}
      BY <2>6, CompactReadEffect DEF Moves
    <3>2. proc'[Compactor].buf \in Seq(AnyFrame)
      BY ProcKinds DEF TypeInv, ProcState
    <3>6. op \in Readable /\ Has(Journal, op)
      BY <1>0, StoredReadable
    <3>3. ASSUME proc'[Compactor].pc = "take", faults' # faults
          PROVE  Has(proc'[Compactor].buf, op)
      <4>1. op \in Records(proc'[Compactor].buf)
        BY <3>1, <3>3, <3>6 DEF LeftOut
      <4>2. QED
        BY <3>2, <4>1, RecordsHas
    <3>7. ASSUME proc'[Compactor].pc = "take", faults' = faults
          PROVE  Has(proc'[Compactor].buf, op)
      <4>1. Journal \in Seq(AnyFrame) /\ Good(Journal)
        BY GoodJournal DEF Calm
      <4>2. /\ Scans(Journal) = {Intact(Journal)} /\ Intact(Journal) \in Seq(AnyFrame)
            /\ Whole(Intact(Journal)) /\ Has(Intact(Journal), op)
        BY <3>6, <4>1, ScansOfGood, IntactOfGood, HasInIntact
      <4>3. PICK order \in SetToSeqs(DOMAIN Intact(Journal)) :
              proc'[Compactor].buf = Shuffled(Intact(Journal), order)
        BY <2>6, <3>7, <4>2, CompactReadEffect DEF Moves, Read
      <4>4. QED
        BY <4>2, <4>3, ShuffleKeeps
    <3>4. proc'[Compactor].pc = "take" => Has(proc'[Compactor].buf, op)
      BY <3>3, <3>7
    <3>5. QED
      BY <3>1, <3>4 DEF Buffered
  <2>7. QED
    BY <1>2, <2>3, <2>4, <2>5, <2>6 DEF Safe
<1>3. QED
  BY <1>1, <1>2 DEF CloserStep

\* The compacted file has every record before its name changes.
LEMMA RenameSafe ==
  ASSUME TypeInv, HandleInv, Calm, TypeInv', Calm', Rename,
         NEW op \in 1..MaxOps, Safe(op)
  PROVE  Safe(op)'
<1>1. At(Compactor, "rename") /\ UNCHANGED <<dpath, openFiles, handle>>
      /\ \A q \in Appenders : proc'[q] = proc[q]
  BY RenameEffect, ProcKinds DEF Moves
<1>2. \A h \in Handles : ~Current(h)'
  <2>1. \A h \in Handles : ~Current(h)
    BY <1>1, OnlyOne DEF CurrentOne, Calm, At
  <2>2. QED
    BY <1>1, <2>1 DEF Current
<1>3. Within(op)'
  BY <1>2 DEF Within
<1>4. Buffered(op)'
  BY RenameEffect DEF Buffered, Moves
<1>5. Has(proc[Compactor].buf, op)
  BY <1>1 DEF Safe, Buffered, At
<1>6. Stored(op)'
  <2>1. CASE UNCHANGED <<path, content, disk>>
    BY <1>1, <2>1 DEF Safe, Stored
  <2>2. CASE /\ path' \in Files /\ FreeFile(path')
             /\ Sets(path', proc[Compactor].buf, proc[Compactor].buf)
    <3>1. path' # dpath /\ dpath \in Files \cup {None}
      BY <2>2 DEF FreeFile, TypeInv
    <3>2. QED
      BY <1>1, <1>5, <2>2, <3>1 DEF Safe, Stored, Sets
  <2>3. QED
    BY <2>1, <2>2, RenameEffect
<1>7. QED
  BY <1>3, <1>4, <1>6 DEF Safe

LEMMA CrashSafe ==
  ASSUME TypeInv, HandleInv, Calm, TypeInv', Calm', Crash,
         NEW op \in 1..MaxOps, Safe(op)
  PROVE  Safe(op)'
<1>1. Within(op)' /\ Buffered(op)'
  BY CrashEffect DEF Within, Buffered
<1>2. Stored(op)'
  <2>1. CASE UNCHANGED files
    BY <2>1 DEF Safe, Stored, files
  <2>2. CASE /\ path' \in {path, dpath} /\ dpath' = path'
             /\ \A f \in Files : content'[f] \in CrashOutcomes(f) /\ disk'[f] = content'[f]
    <3> SUFFICES ASSUME NEW f \in {path', dpath'} \ {None}
                 PROVE  Has(content'[f], op) /\ Has(disk'[f], op)
      BY DEF Stored
    <3>1. f \in {path, dpath} \ {None} /\ f \in Files
      BY <2>2 DEF TypeInv
    <3>2. Has(content[f], op) /\ Has(disk[f], op) /\ Good(content[f]) /\ Good(disk[f])
      BY <3>1 DEF Safe, Stored, Calm, GoodFiles
    <3>3. Has(content'[f], op)
      BY <2>2, <3>1, <3>2, GoodCrash, BoundsAreNats DEF TypeInv
    <3>4. QED
      BY <2>2, <3>1, <3>3
  <2>3. QED
    BY <2>1, <2>2, CrashEffect
<1>3. QED
  BY <1>1, <1>2 DEF Safe

LEMMA AckedStep ==
  ASSUME TypeInv, HandleInv, AloneInv, NameInv, AckedInv, Next, ~overlapped', ~unnamed'
  PROVE  AckedInv'
<1>1. TypeInv' /\ Calm /\ Calm' /\ ~overlapped
  <2>1. ~overlapped /\ Alone'
    BY AloneNext
  <2>2. QED
    BY <2>1, TypeStep, AloneStep DEF AloneInv
<1>2. ~Unnamed'
  BY DEF Next, TypeInv
<1>3. /\ acked \subseteq 1..MaxOps /\ \A op \in acked \ unread : Safe(op) /\ Scanned(op)
      /\ acked # {} => dpath # None /\ path \in Files
  BY DEF TypeInv, AckedInv, NameInv
<1>8. unread' = unread \cup LeftOut
  BY DEF Next
<1>4. ASSUME NEW a \in Appenders, AppendStep(a)
      PROVE  /\ \A op \in acked' \ unread' : Safe(op)'
             /\ acked' # {} => dpath' # None
  <2>1. Busy(a) => dpath \in {None, path}
    BY <1>1 DEF NameInv
  <2>2. proc'[Compactor] = proc[Compactor]
    BY <1>4, AppendProc, ProcKinds
  <2>3. \A op : Buffered(op) => Buffered(op)'
    BY <2>2 DEF Buffered
  <2>4. CASE \/ Begin(a) \/ Lookup(a) \/ OpenFails(a) \/ JournalTail(a) \/ Stat(a)
             \/ LoadOrStore(a) \/ DirSync(a) \/ Lock(a) \/ Drop(a)
    <3>1. acked' = acked
      BY <2>4, LookEffect, StoreEffect, DirSyncEffect, LockEffect, DropEffect
    <3>2. dpath' \in {dpath, path}
      BY <2>4, LookEffect, StoreEffect, DirSyncEffect, LockEffect, DropEffect DEF files
    <3>3. ASSUME NEW op \in acked \ unread PROVE Safe(op)'
      <4>1. op \in 1..MaxOps /\ Stored(op) /\ Within(op) /\ Buffered(op)
        BY <1>3 DEF Safe
      <4>2. Stored(op)' /\ Within(op)'
        BY <1>1, <2>4, <4>1, QuietSafe
      <4>3. QED
        BY <2>3, <4>1, <4>2 DEF Safe
    <3>4. QED
      BY <1>3, <1>8, <3>1, <3>2, <3>3, NoneIsNoName
  <2>5. CASE TruncateJournalTo(a)
    <3>1. /\ acked' = acked /\ dpath' = dpath /\ Busy(a)
      BY <2>5, TruncateEffect DEF Busy, At
    <3>2. ASSUME NEW op \in acked \ unread PROVE Safe(op)'
      <4>1. op \in 1..MaxOps /\ Stored(op) /\ Within(op) /\ Buffered(op) /\ Scanned(op)
        BY <1>3 DEF Safe
      <4>2. path \in Files /\ dpath = path
        BY <1>3, <2>1, <3>1, <3>2
      <4>4. Stored(op)' /\ Within(op)'
        BY <1>1, <2>5, <4>1, <4>2, TruncateSafe
      <4>3. QED
        BY <2>3, <4>1, <4>4 DEF Safe
    <3>3. QED
      BY <1>3, <1>8, <3>1, <3>2
  <2>6. CASE Open(a)
    <3>1. acked' = acked /\ dpath' = dpath
      BY <2>6, OpenEffect
    <3>2. ASSUME NEW op \in acked \ unread PROVE Safe(op)'
      <4>1. op \in 1..MaxOps /\ Stored(op) /\ Within(op) /\ Buffered(op)
        BY <1>3 DEF Safe
      <4>2. Stored(op)' /\ Within(op)'
        BY <1>1, <1>3, <2>6, <4>1, OpenSafe
      <4>3. QED
        BY <2>3, <4>1, <4>2 DEF Safe
    <3>3. QED
      BY <1>3, <1>8, <3>1, <3>2
  <2>7. CASE Write(a) \/ Rollback(a)
    <3>1. acked' = acked /\ dpath' = dpath
      BY <2>7, WriteEffect, RollbackEffect
    <3>2. ASSUME NEW op \in acked \ unread PROVE Safe(op)'
      <4>1. op \in 1..MaxOps /\ Stored(op) /\ Within(op) /\ Buffered(op)
        BY <1>3 DEF Safe
      <4>2. Stored(op)' /\ Within(op)'
        BY <1>1, <2>7, <4>1, WriteSafe, RollbackSafe
      <4>3. QED
        BY <2>3, <4>1, <4>2 DEF Safe
    <3>3. QED
      BY <1>3, <1>8, <3>1, <3>2
  <2>8. CASE Sync(a)
    <3>1. At(a, "sync") /\ Busy(a) /\ path' = path /\ dpath' = dpath
      BY <2>8, SyncEffect DEF Busy, At
    <3>2. /\ \A op \in 1..MaxOps : Stored(op) /\ Within(op) => Stored(op)' /\ Within(op)'
          /\ \A op \in acked' \ acked :
               path \in Files /\ Stored(op)' /\ Within(op)' /\ Buffered(op)'
      BY <1>1, <2>1, <2>8, <3>1, SyncSafe
    <3>3. ASSUME NEW op \in acked' \ unread' PROVE Safe(op)'
      BY <1>3, <1>8, <2>3, <3>2, <3>3 DEF Safe
    <3>4. ASSUME acked' # {} PROVE dpath' # None
      <4>1. path \in Files
        BY <1>3, <3>2, <3>4
      <4>2. \A b \in Appenders \ {a} :
              proc[b].pc \notin AppendOpenPc \cup {"store", "dirsync"} /\ proc'[b] = proc[b]
        BY <1>1, <1>4, <3>1, Solo, AppendProc, ProcKinds DEF Calm, Busy, At
      <4>3. proc'[a].pc \in {"idle", "rollback"}
        BY <2>8, SyncEffect DEF Moves
      <4>4. \A b \in Appenders : ~Opening(b)'
        BY <4>2, <4>3 DEF Opening, OpenPc, AppendOpenPc
      <4>5. QED
        BY <1>2, <3>1, <4>1, <4>4, NoneIsNoName DEF Unnamed
    <3>5. QED
      BY <3>3, <3>4
  <2>9. QED
    BY <1>4, <2>4, <2>5, <2>6, <2>7, <2>8 DEF AppendStep
<1>5. CASE CloserStep
  <2>1. acked' = acked
    BY <1>5, TakeEffect, CloseEffect, EvictEffect, CompactReadEffect, RenameEffect, SyncDirEffect
       DEF CloserStep
  <2>2. \A op \in acked \ unread' : Safe(op)' /\ Scanned(op)'
    <3> SUFFICES ASSUME NEW op \in acked \ unread' PROVE Safe(op)' /\ Scanned(op)'
      OBVIOUS
    <3>1. op \in 1..MaxOps /\ Safe(op) /\ Scanned(op) /\ op \notin LeftOut /\ path \in Files
      BY <1>3, <1>8
    <3>2. Safe(op)'
      BY <1>1, <1>5, <3>1, CloserSafe, RenameSafe
    <3>3. Scanned(op)'
      BY <1>1, <1>5, <3>1, ScannedByCloser
    <3>4. QED
      BY <3>2, <3>3
  <2>3. dpath' \in {path, dpath}
    BY <1>5, CloserNames
  <2>4. QED
    BY <1>2, <1>3, <2>1, <2>2, <2>3, NoneIsNoName DEF AckedInv
<1>6. CASE Crash
  <2>1. acked' = acked /\ dpath' \in {path, dpath}
    BY <1>6, CrashEffect DEF files
  <2>2. \A op \in acked \ unread : Safe(op)'
    BY <1>1, <1>3, <1>6, CrashSafe
  <2>4. \A op : Scanned(op)'
    BY <1>6, CrashEffect, ProcKinds DEF Scanned
  <2>3. QED
    BY <1>2, <1>3, <1>8, <2>1, <2>2, <2>4, NoneIsNoName DEF AckedInv
<1>7. ASSUME NEW a \in Appenders, AppendStep(a), NEW op \in acked' \ unread'
      PROVE  Scanned(op)'
  <2>1. At(a, "tail") \/ At(a, "stat") => acked' = acked
    BY <1>7, LookEffect
       DEF AppendStep, TruncateJournalTo, Open, LoadOrStore, DirSync, Lock, Write, Sync,
           Rollback, Drop, At
  <2>2. op \in acked => Safe(op) /\ Scanned(op) /\ path \in Files
    BY <1>3, <1>8, <1>7
  <2>3. op \in 1..MaxOps /\ op \notin LeftOut
    BY <1>1, <1>7, <1>8 DEF TypeInv
  <2>4. Alone'
    BY <1>1 DEF Calm
  <2>5. QED
    BY <1>1, <1>7, <2>1, <2>2, <2>3, <2>4, ScannedByAppender DEF Safe
<1>9. QED
  BY <1>2, <1>4, <1>5, <1>6, <1>7, StepOf DEF AckedInv

LEMMA Invariant ==
  /\ Init => IInv
  /\ IInv /\ [Next]_vars => IInv'
<1>1. Init => IInv
  <2>1. Init => ~Unnamed /\ acked = {}
    BY DEF Init, Unnamed
  <2>2. QED
    BY <2>1, TypeInit, HandleInit, AloneInit, NameInit DEF IInv, AckedInv
<1>2. ASSUME IInv, [Next]_vars PROVE IInv'
  <2>1. TypeInv' /\ HandleInv' /\ AloneInv' /\ NameInv'
    BY <1>2, TypeStep, HandleStep, AloneStep, NameStep DEF IInv
  <2>2. ASSUME ~overlapped', ~unnamed' PROVE AckedInv'
    <3>1. CASE UNCHANGED vars
      BY <1>2, <2>2, <3>1 DEF IInv, vars, files, bounds, AckedInv, Safe, Stored, Buffered,
         Within, Scanned, Current, Journal, Unnamed, Opening
    <3>2. CASE Next
      <4>1. ~overlapped /\ ~unnamed
        BY <1>2, <2>2, <3>2 DEF Next, IInv, TypeInv
      <4>2. QED
        BY <1>2, <2>2, <3>2, <4>1, AckedStep DEF IInv
    <3>3. QED
      BY <1>2, <3>1, <3>2
  <2>3. QED
    BY <2>1, <2>2 DEF IInv
<1>3. QED
  BY <1>1, <1>2

-----------------------------------------------------------------------------
\* The results about a journal that nobody opens or compacts beside an append

\* A journal that is opened and compacted while no other goroutine is in appendFrame:
\* an append never lands behind a torn frame, whatever write, fsync, truncate or
\* rollback failed and wherever power was lost, and frame k is written as frame k, as
\* its MAC demands.
THEOREM NoFrameBehindTorn == Spec => []WellFormed
<1>1. IInv => WellFormed
  <2> SUFFICES ASSUME IInv, ~overlapped
               PROVE  /\ FirstTorn(Journal) \in {0, Len(Journal)}
                      /\ ~Misplaced(Intact(Journal))
    BY DEF WellFormed
  <2>1. Journal \in Seq(AnyFrame) /\ Good(Journal)
    BY GoodJournal DEF IInv, AloneInv, Calm
  <2>2. QED
    BY <2>1, IntactOfGood, ScansOfGood
<1>2. QED
  BY <1>1, Invariant, PTL DEF Spec

\* Under the same condition, the open handle of the run counts the frames of the file
\* that journal.log names whenever no append is between its write and its return: the
\* next frame gets the next index, and a rollback cuts at the right place.
THEOREM HandleCountsFrames == Spec => []HandleAgrees
<1>1. IInv => HandleAgrees
  <2> SUFFICES ASSUME IInv, ~overlapped, openFiles # None,
                      handle[openFiles].mu = None, handle[openFiles].open
               PROVE  /\ handle[openFiles].file = path
                      /\ handle[openFiles].count = Len(Journal)
    BY DEF HandleAgrees
  <2>1. openFiles \in Handles /\ Current(openFiles)
    BY DEF IInv, TypeInv, Current
  <2>2. Counts
    BY DEF IInv, AloneInv, Calm
  <2>3. QED
    BY <2>1, <2>2 DEF Counts
<1>2. QED
  BY <1>1, Invariant, PTL DEF Spec

\* Under the same condition, and when the file has not been in use before its directory
\* entry was on disk: a record whose append has returned is found by every later
\* replay whose own reads do not fail, through failed writes, fsyncs, truncations and
\* rollbacks, reopenings that cut a torn tail, evictions, compaction, and power losses
\* wherever they fall. The exception is what the code does with a failed read: a
\* record that the scan of an opening or of the compaction could not read, or that
\* stands behind one, may be lost, and no other is.
THEOREM AcknowledgedStays == Spec => []AckedReadableAlone
<1>1. IInv => AckedReadableAlone
  <2> SUFFICES ASSUME IInv, ~overlapped, ~unnamed, NEW op \in acked \ unread
               PROVE  op \in Readable
    BY DEF AckedReadableAlone
  <2>1. /\ TypeInv /\ Calm /\ Stored(op) /\ op \in 1..MaxOps /\ path \in Files
    BY DEF IInv, AloneInv, NameInv, AckedInv, Safe, TypeInv
  <2>2. QED
    BY <2>1, StoredReadable
<1>2. QED
  BY <1>1, Invariant, PTL DEF Spec

=============================================================================
