--------------------------- MODULE DataDir_proofs ---------------------------
(***************************************************************************)
(* The data directory with its users: the runs of a task, the lock of the  *)
(* directory, and both together.                                           *)
(*                                                                         *)
(* The runs: for any number of them, of callers and of removers, and with  *)
(* writes and removals failing at will:                                    *)
(*                                                                         *)
(*   ListedSpared       nothing of a run goes from under its goroutine,    *)
(*                      except by a DeleteTask that had not listed it      *)
(*   OldestResumed      RunTask resumes no run younger than one active     *)
(*                      since its listing                                  *)
(*   PurgeOldestFirst   a purge goes by age                                *)
(*   PurgeSparesActive  and removes no active run, while no write fails    *)
(*                                                                         *)
(* The first rests on who holds a run's lock: the goroutine from its first *)
(* read to its last write (RunningHoldsLock), a remover each run it has    *)
(* locked (HeldIsOwned), among them the one it removes                     *)
(* (RemovesWhatItHolds). When the engine is down there is neither          *)
(* (DownIsQuiet), so its sweep of orphans meets no one.                    *)
(*                                                                         *)
(* The others are about a call that goes by a listing while the runs go    *)
(* on. Of what was so all along it has lost nothing: RunTask no active run *)
(* (CallInv), a purge no terminal run nor their order (PurgeInv), for only *)
(* a run that is not terminal becomes so, and is the youngest then         *)
(* (EndedInv, RunInv). What was terminal in its walk and is active now has *)
(* its goroutine, which holds the lock (FaultlessInv).                     *)
(*                                                                         *)
(* The lock: for any number of processes, engines and readers, and         *)
(* processes killed at any time:                                           *)
(*                                                                         *)
(*   Exclusive        an engine that is inside is alone there              *)
(*   OccupancyCounts  the table of a process counts the openers it let in  *)
(*                                                                         *)
(* Neither is inductive alone. A reader of the engine's own process is     *)
(* kept out by the table, so the table must be exact (OccupancyCounts) and *)
(* a writer in it alone (AloneInProcess); one of another process is kept   *)
(* out by the flock, so whoever is inside must hold it (HeldInside) and no *)
(* two processes may hold it with a writer among them (AloneWithFlock).    *)
(*                                                                         *)
(* What DirLock and TaskTree promise alone then holds of them together,    *)
(* since each step of DataDir is a step of either or of both, or of        *)
(* neither (StepsOfTheParts); and                                          *)
(*                                                                         *)
(*   ReaderSnapshot  nothing is written while a reader is open             *)
(*                                                                         *)
(* That is Exclusive, the fact that whoever writes is an engine which is   *)
(* inside (EngineIsIn), and that with the engine down nothing is left that *)
(* could write (DownIsQuiet).                                              *)
(***************************************************************************)
EXTENDS DataDir, FiniteSetTheorems, TLAPS

-----------------------------------------------------------------------------
\* The runs of a task

RunDir == [there : BOOLEAN, meta : Status, journal : BOOLEAN]

\* Of the removers only that they are such records: nothing here depends on more.
RemoverRecords(T) ==
  [kind : T, pc : T, todo : T, held : T, aged : T, remain : T, kept : T]

Shapes ==
  /\ dir \in [Runs -> RunDir]
  /\ exec \in [Runs -> [pc : ExecPc, barred : BOOLEAN]]
  /\ owner \in [Runs -> Removers \cup {Executor, Nobody}]
  /\ \E T : remover \in [Removers -> RemoverRecords(T)]

RunningHoldsLock ==
  \A r \in Runs : exec[r].pc \in {"load", "run", "compact"} <=> owner[r] = Executor

HeldIsOwned ==
  \A d \in Removers, r \in Runs : r \in remover[d].held => owner[r] = d

RemovesWhatItHolds ==
  \A d \in Removers : remover[d].pc = "remove" /\ remover[d].kind # "task" =>
                        Next1(d) \in remover[d].held

DownIsQuiet ==
  engine = "down" => /\ \A r \in Runs : exec[r].pc = "off"
                     /\ \A d \in Removers : remover[d].pc = "idle"

TreeInv == Shapes /\ RunningHoldsLock /\ HeldIsOwned /\ RemovesWhatItHolds /\ DownIsQuiet

-----------------------------------------------------------------------------
\* Lemmas about the runs

\* What a remover does to itself.
LEMMA RemoverMoves ==
  ASSUME NEW T, remover \in [Removers -> RemoverRecords(T)], NEW d \in Removers,
         NEW U, NEW rec \in RemoverRecords(U), remover' = [remover EXCEPT ![d] = rec]
  PROVE  /\ \E V : remover' \in [Removers -> RemoverRecords(V)]
         /\ remover'[d] = rec
         /\ \A e \in Removers \ {d} : remover'[e] = remover[e]
<1>1. rec \in RemoverRecords(T \cup U) /\ \A e \in Removers : remover[e] \in RemoverRecords(T \cup U)
  BY DEF RemoverRecords
<1>2. remover' \in [Removers -> RemoverRecords(T \cup U)]
  BY <1>1
<1> QED
  BY <1>2

LEMMA Owners == ASSUME NEW d \in Removers PROVE d # Executor /\ d # Nobody /\ Executor # Nobody
BY OwnersDiffer

LEMMA InitiallyQuiet == TreeInit => TreeInv
<1> SUFFICES ASSUME TreeInit PROVE TreeInv
  OBVIOUS
<1>1. Shapes
  <2>1. remover \in [Removers -> RemoverRecords({"run", "idle", <<>>, {}, 0})]
    BY DEF TreeInit, NoRemoval, RemoverRecords
  <2>2. dir \in [Runs -> RunDir] /\ exec \in [Runs -> [pc : ExecPc, barred : BOOLEAN]]
    BY DEF TreeInit, Gone, RunDir, Status, ExecPc
  <2>3. owner \in [Runs -> Removers \cup {Executor, Nobody}]
    BY DEF TreeInit
  <2> QED
    BY <2>1, <2>2, <2>3 DEF Shapes
<1>2. RunningHoldsLock
  BY OwnersDiffer DEF TreeInit, RunningHoldsLock
<1>3. HeldIsOwned /\ RemovesWhatItHolds /\ DownIsQuiet
  BY DEF TreeInit, NoRemoval, HeldIsOwned, RemovesWhatItHolds, DownIsQuiet
<1> QED
  BY <1>1, <1>2, <1>3 DEF TreeInv

-----------------------------------------------------------------------------
\* RunTask calls, and the goroutines

LEMMA CallKeeps ==
  ASSUME TreeInv, NEW c \in Callers, CallStep(c)
  PROVE  TreeInv' /\ UNCHANGED dir
<1>1. /\ UNCHANGED <<dir, engine, owner, remover>>
      /\ exec' = exec \/ \E id : /\ engine = "up" /\ exec[id].pc = "off"
                                 /\ exec' = [exec EXCEPT ![id] = [pc |-> "lock", barred |-> FALSE]]
  <2>1. CASE Register(c)
    BY <2>1 DEF Register, files
  <2>2. CASE ~Register(c)
    BY <2>2 DEF CallStep, Call, Scan, Peek, MakeID, Check, callerOnly, files
  <2> QED
    BY <2>1, <2>2
<1> DEFINE Moved(r) == exec[r].pc = "off" /\ exec'[r].pc = "lock" /\ engine = "up"
<1>2. /\ exec' \in [Runs -> [pc : ExecPc, barred : BOOLEAN]]
      /\ \A r \in Runs : exec'[r].pc = exec[r].pc \/ Moved(r)
  <2>1. exec \in [Runs -> [pc : ExecPc, barred : BOOLEAN]]
    BY DEF TreeInv, Shapes
  <2>2. ASSUME NEW id, engine = "up", exec[id].pc = "off",
               exec' = [exec EXCEPT ![id] = [pc |-> "lock", barred |-> FALSE]]
        PROVE  /\ exec' \in [Runs -> [pc : ExecPc, barred : BOOLEAN]]
               /\ \A r \in Runs : exec'[r].pc = exec[r].pc \/ Moved(r)
    <3>1. CASE id \in Runs
      BY <2>1, <2>2, <3>1 DEF ExecPc
    <3>2. CASE id \notin Runs
      BY <2>1, <2>2, <3>2
    <3> QED
      BY <3>1, <3>2
  <2> QED
    BY <1>1, <2>1, <2>2
<1>4. Shapes'
  BY <1>1, <1>2 DEF TreeInv, Shapes
<1>5. RunningHoldsLock'
  BY <1>1, <1>2 DEF TreeInv, RunningHoldsLock
<1>6. HeldIsOwned' /\ RemovesWhatItHolds' /\ DownIsQuiet'
  BY <1>1, <1>2 DEF TreeInv, HeldIsOwned, RemovesWhatItHolds, DownIsQuiet, Next1
<1> QED
  BY <1>1, <1>4, <1>5, <1>6 DEF TreeInv

\* A goroutine that gives its lock back, or goes on with it.
LEMMA LockMoves ==
  ASSUME Shapes, NEW r \in Runs, owner[r] = Executor, NEW pc \in {"run", "compact"},
         \/ exec' = [exec EXCEPT ![r] = [pc |-> "off", barred |-> FALSE]] /\ owner' = [owner EXCEPT ![r] = Nobody]
         \/ exec' = [exec EXCEPT ![r].pc = pc] /\ owner' = owner
  PROVE  /\ exec' \in [Runs -> [pc : ExecPc, barred : BOOLEAN]]
         /\ owner' \in [Runs -> Removers \cup {Executor, Nobody}]
         /\ \A q \in Runs \ {r} : exec'[q] = exec[q] /\ owner'[q] = owner[q]
         /\ exec'[r].pc \in {"load", "run", "compact"} <=> owner'[r] = Executor
<1>1. CASE exec' = [exec EXCEPT ![r] = [pc |-> "off", barred |-> FALSE]] /\ owner' = [owner EXCEPT ![r] = Nobody]
  BY <1>1, OwnersDiffer DEF Shapes, ExecPc
<1>2. CASE exec' = [exec EXCEPT ![r].pc = pc] /\ owner' = owner
  <2>1. exec' \in [Runs -> [pc : ExecPc, barred : BOOLEAN]] /\ exec'[r].pc = pc
    BY <1>2 DEF Shapes, ExecPc
  <2> QED
    BY <1>2, <2>1 DEF Shapes
<1> QED
  BY <1>1, <1>2

\* A goroutine writes to its own run only, and holds the lock when it does. It takes
\* nothing away.
LEMMA RunEffects ==
  ASSUME TreeInv, NEW r \in Runs, RunStep(r)
  PROVE  /\ UNCHANGED <<engine, remover>> /\ exec[r].pc # "off"
         /\ dir' \in [Runs -> RunDir] /\ exec' \in [Runs -> [pc : ExecPc, barred : BOOLEAN]]
         /\ owner' \in [Runs -> Removers \cup {Executor, Nobody}]
         /\ \A q \in Runs \ {r} : dir'[q] = dir[q] /\ exec'[q] = exec[q] /\ owner'[q] = owner[q]
         /\ dir[r].journal => dir'[r].journal
         /\ dir[r].meta # "none" => dir'[r].meta # "none"
         /\ exec'[r].pc \in {"load", "run", "compact"} <=> owner'[r] = Executor
         /\ owner[r] \in Removers => owner'[r] = owner[r]
<1> USE OwnersDiffer DEF TreeInv, Shapes, RunningHoldsLock, ExecPc
<1>1. CASE LockRun(r)
  BY <1>1 DEF LockRun, execOnly, files
<1>2. CASE LockRefused(r)
  BY <1>2 DEF LockRefused, Ends, execOnly, files
<1>3. CASE LoadRun(r)
  <2>1. UNCHANGED <<engine, remover>> /\ exec[r].pc = "load"
    BY <1>3 DEF LoadRun, execOnly
  <2>2. PICK entry \in RunDir : /\ dir' = [dir EXCEPT ![r] = entry] /\ entry.journal = dir[r].journal
                                /\ entry.meta = dir[r].meta \/ entry.meta = "running"
    <3>1. dir[r] \in RunDir /\ dir = [dir EXCEPT ![r] = dir[r]]
      OBVIOUS
    <3>2. \A entry : dir' = [dir EXCEPT ![r] = entry] /\
                     entry \in {dir[r], [dir[r] EXCEPT !.there = TRUE],
                                [dir[r] EXCEPT !.there = TRUE, !.meta = "running"]}
                     => entry \in RunDir /\ entry.journal = dir[r].journal
                        /\ (entry.meta = dir[r].meta \/ entry.meta = "running")
      BY <3>1 DEF RunDir, Status
    <3>3. \E entry : dir' = [dir EXCEPT ![r] = entry] /\
                     entry \in {dir[r], [dir[r] EXCEPT !.there = TRUE],
                                [dir[r] EXCEPT !.there = TRUE, !.meta = "running"]}
      BY <1>3, <3>1 DEF LoadRun
    <3> QED
      BY <3>2, <3>3
  <2>3. \/ exec' = [exec EXCEPT ![r] = [pc |-> "off", barred |-> FALSE]] /\ owner' = [owner EXCEPT ![r] = Nobody]
        \/ exec' = [exec EXCEPT ![r].pc = "run"] /\ owner' = owner
    BY <1>3 DEF LoadRun, Leaves, Ends
  <2>4. /\ dir' \in [Runs -> RunDir] /\ \A q \in Runs \ {r} : dir'[q] = dir[q]
        /\ dir[r].journal => dir'[r].journal
        /\ dir[r].meta # "none" => dir'[r].meta # "none"
    BY <2>2
  <2> QED
    BY <2>1, <2>3, <2>4, LockMoves
<1>4. CASE AppendRun(r)
  BY <1>4 DEF AppendRun, RunDir, execOnly
<1>5. CASE SetRunStatus(r)
  <2>1. exec[r].pc = "run" /\ UNCHANGED <<engine, remover, exec, owner>> /\ dir[r].meta \in {"running", "waiting"}
    BY <1>5 DEF SetRunStatus, execOnly, Active
  <2>2. PICK st \in {"running", "waiting"} : dir' = [dir EXCEPT ![r].meta = st]
    BY <1>5 DEF SetRunStatus
  <2> QED
    BY <2>1, <2>2 DEF RunDir, Status
<1>6. CASE FinishRun(r)
  <2>1. exec[r].pc = "run" /\ UNCHANGED <<engine, remover>>
    BY <1>6 DEF FinishRun, execOnly
  <2>2. \/ \E st \in Terminal : dir' = [dir EXCEPT ![r] = [@ EXCEPT !.there = TRUE, !.meta = st]]
        \/ dir' = [dir EXCEPT ![r].there = TRUE]
    BY <1>6 DEF FinishRun
  <2>3. \/ exec' = [exec EXCEPT ![r] = [pc |-> "off", barred |-> FALSE]] /\ owner' = [owner EXCEPT ![r] = Nobody]
        \/ exec' = [exec EXCEPT ![r].pc = "compact"] /\ owner' = owner
    BY <1>6 DEF FinishRun, Leaves, Ends
  <2>4. /\ dir' \in [Runs -> RunDir] /\ \A q \in Runs \ {r} : dir'[q] = dir[q]
        /\ dir[r].journal => dir'[r].journal
        /\ dir[r].meta # "none" => dir'[r].meta # "none"
    <3>1. CASE dir' = [dir EXCEPT ![r].there = TRUE]
      BY <3>1 DEF RunDir
    <3>2. ASSUME NEW st \in Terminal, dir' = [dir EXCEPT ![r] = [@ EXCEPT !.there = TRUE, !.meta = st]]
          PROVE  <2>4
      BY <3>2 DEF RunDir, Status, Terminal
    <3> QED
      BY <2>2, <3>1, <3>2
  <2> QED
    BY <2>1, <2>3, <2>4, LockMoves
<1>7. CASE CompactRun(r)
  BY <1>7 DEF CompactRun, Leaves, Ends, RunDir, execOnly
<1> QED
  BY <1>1, <1>2, <1>3, <1>4, <1>5, <1>6, <1>7 DEF RunStep

LEMMA RunKeeps ==
  ASSUME TreeInv, NEW r \in Runs, RunStep(r)
  PROVE  TreeInv'
<1>1. Shapes'
  BY RunEffects DEF TreeInv, Shapes
<1>2. RunningHoldsLock'
  BY RunEffects DEF TreeInv, RunningHoldsLock
<1>3. HeldIsOwned'
  BY RunEffects DEF TreeInv, HeldIsOwned
<1>4. RemovesWhatItHolds' /\ DownIsQuiet'
  BY RunEffects DEF TreeInv, RemovesWhatItHolds, DownIsQuiet, Next1
<1> QED
  BY <1>1, <1>2, <1>3, <1>4 DEF TreeInv

-----------------------------------------------------------------------------
\* Removing runs

\* What a remover does: it takes a lock that is free and holds it, or gives back all
\* it has, and what it is about to remove it holds.
Continues(d) ==
  \/ owner' = owner /\ remover'[d].held = {}
  \/ owner' = Released(d) /\ remover'[d].held = {}
  \/ /\ owner[Next1(d)] = Nobody /\ owner' = [owner EXCEPT ![Next1(d)] = d]
     /\ remover'[d].held = remover[d].held \cup {Next1(d)}

RemoverEffects(d) ==
  /\ \E T : remover' \in [Removers -> RemoverRecords(T)]
  /\ \A e \in Removers \ {d} : remover'[e] = remover[e]
  /\ Continues(d)
  /\ remover'[d].pc = "remove" /\ remover'[d].kind # "task" => Next1(d)' \in remover'[d].held

LEMMA Begins ==
  ASSUME TreeInv, NEW d \in Removers,
         (\E r \in Runs : DeleteTaskRun(d, r)) \/ DeleteTask(d) \/ Purge(d)
  PROVE  RemoverEffects(d) /\ UNCHANGED <<dir, exec, engine>> /\ engine # "down"
<1>1. PICK T : remover \in [Removers -> RemoverRecords(T)]
  BY DEF TreeInv, Shapes
<1>2. ASSUME NEW U, NEW rec \in RemoverRecords(U), remover' = [remover EXCEPT ![d] = rec],
             rec.held = {}, rec.pc = "remove" => rec.kind = "task"
      PROVE  RemoverEffects(d) \/ owner' # owner
  BY <1>1, <1>2, RemoverMoves DEF RemoverEffects, Continues
<1>3. UNCHANGED <<dir, exec, engine, owner>> /\ engine # "down"
  BY DEF DeleteTaskRun, DeleteTask, Purge, removerOnly, files
<1>4. ASSUME NEW r \in Runs, DeleteTaskRun(d, r) PROVE RemoverEffects(d)
  <2> DEFINE rec == [NoRemoval EXCEPT !.pc = "lock", !.todo = <<r>>]
  <2>1. rec \in RemoverRecords({"run", "lock", <<r>>, {}, 0}) /\ rec.held = {} /\ rec.pc = "lock"
    BY DEF NoRemoval, RemoverRecords
  <2>2. remover' = [remover EXCEPT ![d] = rec]
    BY <1>4 DEF DeleteTaskRun
  <2> HIDE DEF rec
  <2> QED
    BY <1>2, <1>3, <2>1, <2>2
<1>5. CASE DeleteTask(d)
  <2> DEFINE list == Listing
             pc == IF list = <<>> THEN "remove" ELSE "lock"
             rec == [NoRemoval EXCEPT !.kind = "task", !.pc = pc, !.todo = list]
  <2>2. remover' = [remover EXCEPT ![d] = rec]
    BY <1>5 DEF DeleteTask
  <2> HIDE DEF list, pc
  <2>1. rec \in RemoverRecords({"task", pc, list, {}, 0}) /\ rec.held = {} /\ rec.kind = "task"
    BY DEF NoRemoval, RemoverRecords
  <2> HIDE DEF rec
  <2> QED
    BY <1>2, <1>3, <2>1, <2>2
<1>6. CASE Purge(d)
  <2>1. PICK aged : remover' = [remover EXCEPT ![d] =
                      [NoRemoval EXCEPT !.kind = "purge", !.pc = "lock", !.todo = ByAge,
                                        !.aged = aged, !.remain = Len(ByAge)]]
    BY <1>6 DEF Purge
  <2> DEFINE rec == [NoRemoval EXCEPT !.kind = "purge", !.pc = "lock", !.todo = ByAge,
                                      !.aged = aged, !.remain = Len(ByAge)]
  <2>2. /\ rec \in RemoverRecords({"purge", "lock", ByAge, {}, aged, Len(ByAge)})
        /\ rec.held = {} /\ rec.pc = "lock"
    BY DEF NoRemoval, RemoverRecords
  <2>3. remover' = [remover EXCEPT ![d] = rec]
    BY <2>1
  <2> HIDE DEF rec
  <2> QED
    BY <1>2, <1>3, <2>2, <2>3
<1> QED
  BY <1>3, <1>4, <1>5, <1>6

\* What follows a run that was removed or could not be: nothing is held.
LEMMA Proceeds ==
  ASSUME TreeInv, NEW d \in Removers, NEW remain, NEW kept, remover' = Proceed(d, remain, kept)
  PROVE  /\ \E T : remover' \in [Removers -> RemoverRecords(T)]
         /\ \A e \in Removers \ {d} : remover'[e] = remover[e]
         /\ remover'[d].held = {} /\ remover'[d].pc # "remove"
<1>1. PICK T : remover \in [Removers -> RemoverRecords(T)]
  BY DEF TreeInv, Shapes
<1> DEFINE next(aged) == [NoRemoval EXCEPT !.kind = "purge", !.pc = "lock", !.todo = Rest(d),
                                           !.aged = aged, !.remain = remain, !.kept = kept]
<1>2. \/ remover' = [remover EXCEPT ![d] = NoRemoval]
      \/ \E aged : remover' = [remover EXCEPT ![d] = next(aged)]
  BY DEF Proceed
<1>3. CASE remover' = [remover EXCEPT ![d] = NoRemoval]
  <2>1. NoRemoval \in RemoverRecords({"run", "idle", <<>>, {}, 0}) /\ NoRemoval.held = {} /\ NoRemoval.pc = "idle"
    BY DEF NoRemoval, RemoverRecords
  <2> QED
    BY <1>1, <1>3, <2>1, RemoverMoves
<1>4. ASSUME NEW aged, remover' = [remover EXCEPT ![d] = next(aged)]
      PROVE  /\ \E U : remover' \in [Removers -> RemoverRecords(U)]
             /\ \A e \in Removers \ {d} : remover'[e] = remover[e]
             /\ remover'[d].held = {} /\ remover'[d].pc # "remove"
  <2>1. /\ next(aged) \in RemoverRecords({"purge", "lock", Rest(d), {}, aged, remain, kept})
        /\ next(aged).held = {} /\ next(aged).pc = "lock"
    BY DEF NoRemoval, RemoverRecords
  <2> HIDE DEF next
  <2> QED
    BY <1>1, <1>4, <2>1, RemoverMoves
<1> QED
  BY <1>2, <1>3, <1>4

LEMMA Locks ==
  ASSUME TreeInv, NEW d \in Removers, TryLockRun(d)
  PROVE  RemoverEffects(d) /\ UNCHANGED <<dir, exec, engine>> /\ remover[d].pc = "lock"
<1>1. PICK T : remover \in [Removers -> RemoverRecords(T)]
  BY DEF TreeInv, Shapes
<1> DEFINE old == remover[d]
           first == Next1(d)
           held == old.held \cup {first}
           todo == IF old.kind = "task" THEN Rest(d) ELSE old.todo
           pc == IF old.kind = "task" /\ Rest(d) # <<>> THEN "lock" ELSE "remove"
           rec == [old EXCEPT !.held = held, !.todo = todo, !.pc = pc]
<1>2. /\ remover' = [remover EXCEPT ![d] = rec]
      /\ owner[first] = Nobody /\ owner' = [owner EXCEPT ![first] = d]
      /\ UNCHANGED <<dir, exec, engine>> /\ remover[d].pc = "lock"
  BY DEF TryLockRun, removerOnly, files
<1>3. old.kind # "task" => todo = old.todo /\ first = Head(old.todo)
  BY DEF Next1
<1>4. old \in RemoverRecords(T)
  BY <1>1
<1>5. first \in held /\ held = remover[d].held \cup {first}
  OBVIOUS
<1> HIDE DEF todo, held, pc
<1>6. /\ rec \in RemoverRecords(T \cup {held, todo, pc})
      /\ rec.held = held /\ rec.todo = todo /\ rec.kind = old.kind
  BY <1>4 DEF RemoverRecords
<1> HIDE DEF rec
<1>7. /\ \E U : remover' \in [Removers -> RemoverRecords(U)]
      /\ remover'[d] = rec
      /\ \A e \in Removers \ {d} : remover'[e] = remover[e]
  BY <1>1, <1>2, <1>6, RemoverMoves
<1>8. remover'[d].pc = "remove" /\ remover'[d].kind # "task" => Next1(d)' \in remover'[d].held
  BY <1>3, <1>5, <1>6, <1>7 DEF Next1
<1>9. Continues(d)
  BY <1>2, <1>5, <1>6, <1>7 DEF Continues
<1> QED
  BY <1>2, <1>7, <1>8, <1>9 DEF RemoverEffects

LEMMA GivesBack ==
  ASSUME TreeInv, NEW d \in Removers, TryLockFails(d) \/ RemoveAll(d)
  PROVE  /\ RemoverEffects(d) /\ UNCHANGED engine /\ remover[d].pc # "idle"
         /\ \/ exec' = exec
            \/ exec' = [r \in Runs |-> IF r \in remover[d].held
                                       THEN [exec[r] EXCEPT !.barred = exec[r].pc = "lock"]
                                       ELSE exec[r]]
<1>1. \E remain, kept : remover' = Proceed(d, remain, kept)
  BY DEF TryLockFails, RemoveAll
<1>2. owner' = Released(d) /\ UNCHANGED engine /\ remover[d].pc # "idle"
  BY DEF TryLockFails, RemoveAll, removerOnly
<1>3. \/ exec' = exec
      \/ exec' = [r \in Runs |-> IF r \in remover[d].held
                                 THEN [exec[r] EXCEPT !.barred = exec[r].pc = "lock"]
                                 ELSE exec[r]]
  BY DEF TryLockFails, RemoveAll
<1> QED
  BY <1>1, <1>2, <1>3, Proceeds DEF RemoverEffects, Continues

LEMMA EffectsKeep ==
  ASSUME TreeInv, NEW d \in Removers, RemoverEffects(d), UNCHANGED engine,
         engine # "down" \/ remover[d].pc # "idle", dir' \in [Runs -> RunDir],
         \/ exec' = exec
         \/ exec' = [r \in Runs |-> IF r \in remover[d].held
                                    THEN [exec[r] EXCEPT !.barred = exec[r].pc = "lock"]
                                    ELSE exec[r]]
  PROVE  TreeInv'
<1>1. exec' \in [Runs -> [pc : ExecPc, barred : BOOLEAN]] /\ \A r \in Runs : exec'[r].pc = exec[r].pc
  BY DEF TreeInv, Shapes
<1>2. /\ owner' \in [Runs -> Removers \cup {Executor, Nobody}]
      /\ \A r \in Runs : \/ owner'[r] = owner[r]
                         \/ owner[r] = d /\ owner'[r] = Nobody
                         \/ owner[r] = Nobody /\ owner'[r] = d
  BY DEF RemoverEffects, Continues, Released, TreeInv, Shapes
<1>3. Shapes'
  BY <1>1, <1>2 DEF RemoverEffects, Shapes
<1>4. RunningHoldsLock'
  BY <1>1, <1>2, Owners DEF TreeInv, RunningHoldsLock
<1>5. HeldIsOwned'
  <2> SUFFICES ASSUME NEW e \in Removers, NEW r \in Runs, r \in remover'[e].held PROVE owner'[r] = e
    BY DEF HeldIsOwned
  <2>1. CASE e = d
    <3>1. owner' = [owner EXCEPT ![Next1(d)] = d] /\ r \in remover[d].held \cup {Next1(d)}
      BY <2>1 DEF RemoverEffects, Continues
    <3> QED
      BY <2>1, <3>1 DEF TreeInv, Shapes, HeldIsOwned
  <2>2. CASE e # d
    <3>1. owner[r] = e
      BY <2>2 DEF RemoverEffects, TreeInv, HeldIsOwned
    <3> QED
      BY <1>2, <2>2, <3>1, Owners
  <2> QED
    BY <2>1, <2>2
<1>6. RemovesWhatItHolds'
  BY DEF RemoverEffects, TreeInv, RemovesWhatItHolds, Next1
<1>7. DownIsQuiet'
  BY <1>1 DEF RemoverEffects, TreeInv, DownIsQuiet
<1> QED
  BY <1>3, <1>4, <1>5, <1>6, <1>7 DEF TreeInv

LEMMA RemoveKeeps ==
  ASSUME TreeInv, NEW d \in Removers, RemoveStep(d)
  PROVE  TreeInv'
<1>0. dir \in [Runs -> RunDir]
  BY DEF TreeInv, Shapes
<1>1. CASE (\E r \in Runs : DeleteTaskRun(d, r)) \/ DeleteTask(d) \/ Purge(d)
  <2>1. RemoverEffects(d) /\ UNCHANGED <<exec, engine>> /\ engine # "down" /\ UNCHANGED dir
    BY <1>1, Begins
  <2> QED
    BY <1>0, <2>1, EffectsKeep
<1>2. CASE TryLockRun(d)
  BY <1>0, <1>2, Locks, EffectsKeep
<1>3. CASE TryLockFails(d) \/ RemoveAll(d)
  <2>1. dir' \in [Runs -> RunDir]
    <3>1. CASE TryLockFails(d)
      BY <3>1 DEF TryLockFails, files, TreeInv, Shapes
    <3>2. CASE dir' = [r \in Runs |-> IF r \in Targets(d) THEN Gone ELSE dir[r]]
      BY <3>2 DEF TreeInv, Shapes, RunDir, Gone, Status
    <3>3. ASSUME NEW r, NEW left \in Remnants(r), dir' = [dir EXCEPT ![r] = left]
          PROVE  dir' \in [Runs -> RunDir]
      <4>1. CASE r \in Runs
        <5>1. dir[r] \in RunDir
          BY <1>0, <4>1
        <5>2. \A entry \in RunDir : /\ [entry EXCEPT !.meta = "none"] \in RunDir
                                    /\ [entry EXCEPT !.journal = FALSE] \in RunDir
                                    /\ Gone \in RunDir
          BY DEF RunDir, Gone, Status
        <5>3. left \in {Gone, [dir[r] EXCEPT !.meta = "none"], [dir[r] EXCEPT !.journal = FALSE], dir[r]}
          BY <3>3 DEF Remnants
        <5>4. left \in RunDir
          BY <5>1, <5>2, <5>3
        <5> QED
          BY <1>0, <3>3, <5>4
      <4>2. CASE r \notin Runs
        BY <1>0, <3>3, <4>2
      <4> QED
        BY <4>1, <4>2
    <3> QED
      BY <1>3, <3>1, <3>2, <3>3 DEF RemoveAll
  <2> QED
    BY <1>3, <2>1, GivesBack, EffectsKeep
<1> QED
  BY <1>1, <1>2, <1>3 DEF RemoveStep

-----------------------------------------------------------------------------
\* The engine

LEMMA EngineKeeps ==
  ASSUME TreeInv, OpenEngine \/ StopEngine \/ CloseEngine \/ Crash
  PROVE  TreeInv'
<1>1. CASE OpenEngine
  <2>1. dir' \in [Runs -> RunDir] /\ UNCHANGED <<exec, owner, remover>> /\ engine' # "down"
    BY <1>1 DEF OpenEngine, TreeInv, Shapes, RunDir, Gone, Status
  <2> QED
    BY <2>1 DEF TreeInv, Shapes, RunningHoldsLock, HeldIsOwned, RemovesWhatItHolds, DownIsQuiet, Next1
<1>2. CASE StopEngine \/ CloseEngine
  <2>1. /\ UNCHANGED <<dir, exec, owner, remover>>
        /\ engine' = "down" => /\ \A r \in Runs : exec[r].pc = "off"
                               /\ \A d \in Removers : remover[d].pc = "idle"
    BY <1>2 DEF StopEngine, CloseEngine, files
  <2> QED
    BY <2>1 DEF TreeInv, Shapes, RunningHoldsLock, HeldIsOwned, RemovesWhatItHolds, DownIsQuiet, Next1
<1>3. CASE Crash
  <2>1. /\ dir' = dir
        /\ exec' = [r \in Runs |-> [pc |-> "off", barred |-> FALSE]]
        /\ owner' = [r \in Runs |-> Nobody]
        /\ remover' = [d \in Removers |-> NoRemoval]
    BY <1>3 DEF Crash, files
  <2>2. remover' \in [Removers -> RemoverRecords({"run", "idle", <<>>, {}, 0})]
    BY <2>1 DEF NoRemoval, RemoverRecords
  <2>3. Shapes'
    BY <2>1, <2>2 DEF TreeInv, Shapes, ExecPc
  <2>4. RunningHoldsLock'
    BY <2>1, OwnersDiffer DEF RunningHoldsLock
  <2>5. HeldIsOwned' /\ RemovesWhatItHolds' /\ DownIsQuiet'
    BY <2>1 DEF HeldIsOwned, RemovesWhatItHolds, DownIsQuiet, NoRemoval
  <2> QED
    BY <2>3, <2>4, <2>5 DEF TreeInv
<1> QED
  BY <1>1, <1>2, <1>3

LEMMA TreeStepKeeps == TreeInv /\ [TreeNext]_treeVars => TreeInv'
<1> SUFFICES ASSUME TreeInv, [TreeNext]_treeVars PROVE TreeInv'
  OBVIOUS
<1>1. CASE TreeStep
  BY <1>1, CallKeeps, RunKeeps, RemoveKeeps DEF TreeStep
<1>2. CASE OpenEngine \/ StopEngine \/ CloseEngine \/ Crash
  BY <1>2, EngineKeeps
<1>3. CASE UNCHANGED treeVars
  BY <1>3 DEF treeVars, TreeInv, Shapes, RunningHoldsLock, HeldIsOwned, RemovesWhatItHolds, DownIsQuiet, Next1
<1> QED
  BY <1>1, <1>2, <1>3 DEF TreeNext

LEMMA TreeSpecKeeps == TreeSpec => []TreeInv
<1>1. TreeInv /\ [TreeNext]_treeVars => TreeInv'
  BY TreeStepKeeps
<1> QED
  BY <1>1, InitiallyQuiet, PTL DEF TreeSpec

-----------------------------------------------------------------------------
\* What calls have listed

MetaIsThere == \A r \in Runs : dir[r].meta # "none" => dir[r].there

CallerRecords(T) == [pc : T, ids : T, id : T]

\* No run that was active all along has been passed over.
CallInv ==
  /\ \E T : caller \in [Callers -> CallerRecords(T)]
  /\ \A c \in Callers : caller[c].pc = "peek" => steady[c] \subseteq caller[c].ids

EndedInv ==
  /\ ended \in Seq(Runs) /\ IsInjective(ended)
  /\ \A r \in Range(ended) : Ended(r)

RunInv == \A r \in Runs : exec[r].pc = "run" => ~Ended(r)

\* A run that was terminal in the walk of a purge and is active now has its
\* goroutine, unless a write failed.
FaultlessInv ==
  /\ used \in [faults : Nat, calls : Nat]
  /\ used.faults = 0 =>
       /\ \A r \in Runs : exec[r].pc = "compact" => ~Active(r)
       /\ \A d \in Removers : remover[d].kind = "purge" =>
            \A r \in Range(remover[d].todo) : Active(r) => owner[r] = Executor

\* Of two runs terminal since the walk, the older was kept or comes first.
PurgeInv ==
  \A d \in Removers : remover[d].kind = "purge" =>
    /\ remover[d].todo \in Seq(Runs) \ {<<>>} /\ IsInjective(remover[d].todo)
    /\ \A q \in steady[d], r \in steady[d] \cap Range(remover[d].todo) :
         Precedes(ended, q, r) => q \in remover[d].kept \/ Precedes(remover[d].todo, q, r)

ListInv == TreeInv /\ MetaIsThere /\ CallInv /\ EndedInv /\ RunInv /\ FaultlessInv /\ PurgeInv

-----------------------------------------------------------------------------
\* Lemmas on sequences of runs

LEMMA WithoutKeepsOrder ==
  ASSUME NEW seq \in Seq(Runs), NEW gone, NEW rest \in Without(seq, gone)
  PROVE  /\ rest \in Seq(Runs) /\ IsInjective(rest)
         /\ Range(rest) \subseteq Range(seq) \ gone
         /\ \A q, r \in Runs : Precedes(rest, q, r) => Precedes(seq, q, r)
<1> DEFINE S == Range(seq) \ gone
<1>1. S \subseteq Runs
  BY DEF Range
<1>2. Cardinality(S) \in Nat
  <2>1. IsFiniteSet(Runs)
    BY TreeBounds, FS_Interval DEF Runs
  <2> QED
    BY <1>1, <2>1, FS_Subset, FS_CardinalityType
<1> HIDE DEF S
<1>3. /\ rest \in [1..Cardinality(S) -> S]
      /\ \A i, j \in 1..Cardinality(S) : i # j => rest[i] # rest[j]
      /\ \A q, r \in Runs : Precedes(rest, q, r) => Precedes(seq, q, r)
  BY DEF Without, SetToSeqs, S
<1>4. rest \in Seq(Runs)
  BY <1>1, <1>2, <1>3
<1>5. IsInjective(rest) /\ Range(rest) \subseteq S
  BY <1>3 DEF IsInjective, Range
<1> QED
  BY <1>3, <1>4, <1>5 DEF S

LEMMA AppendKeepsOrder ==
  ASSUME NEW seq \in Seq(Runs), IsInjective(seq), NEW r \in Runs \ Range(seq)
  PROVE  /\ Append(seq, r) \in Seq(Runs) /\ IsInjective(Append(seq, r))
         /\ Range(Append(seq, r)) = Range(seq) \cup {r}
         /\ \A p, q \in Runs \ {r} : Precedes(Append(seq, r), p, q) => Precedes(seq, p, q)
<1> DEFINE more == Append(seq, r)
<1>1. /\ more \in Seq(Runs) /\ Len(seq) \in Nat /\ DOMAIN seq = 1..Len(seq)
      /\ DOMAIN more = 1..(Len(seq) + 1) /\ more[Len(seq) + 1] = r
      /\ \A i \in 1..Len(seq) : more[i] = seq[i]
  OBVIOUS
<1> HIDE DEF more
<1>2. \A i \in DOMAIN more : (i \in DOMAIN seq /\ more[i] = seq[i]) \/ (i = Len(seq) + 1 /\ more[i] = r)
  BY <1>1
<1>3. \A i \in DOMAIN seq : i \in DOMAIN more /\ more[i] = seq[i] /\ more[i] # r
  BY <1>1 DEF Range
<1>4. IsInjective(more)
  BY <1>2, <1>3 DEF IsInjective
<1>5. Range(more) = Range(seq) \cup {r}
  <2>1. Len(seq) + 1 \in DOMAIN more /\ more[Len(seq) + 1] = r
    BY <1>1
  <2> QED
    BY <1>2, <1>3, <2>1 DEF Range
<1>6. \A p, q \in Runs \ {r} : Precedes(more, p, q) => Precedes(seq, p, q)
  BY <1>2, <1>3 DEF Precedes
<1> QED
  BY <1>1, <1>4, <1>5, <1>6 DEF more

LEMMA TailKeepsOrder ==
  ASSUME NEW seq \in Seq(Runs) \ {<<>>}, IsInjective(seq)
  PROVE  /\ Head(seq) \in Range(seq)
         /\ Tail(seq) \in Seq(Runs) /\ IsInjective(Tail(seq))
         /\ Range(Tail(seq)) \subseteq Range(seq)
         /\ \A q : ~Precedes(seq, q, Head(seq))
         /\ \A q, r : Precedes(seq, q, r) /\ q # Head(seq) => Precedes(Tail(seq), q, r)
<1> DEFINE tail == Tail(seq)
<1>1. /\ tail \in Seq(Runs) /\ Len(seq) \in Nat /\ Len(seq) > 0 /\ DOMAIN seq = 1..Len(seq)
      /\ DOMAIN tail = 1..(Len(seq) - 1) /\ Head(seq) = seq[1]
      /\ \A i \in 1..(Len(seq) - 1) : tail[i] = seq[i + 1]
  OBVIOUS
<1> HIDE DEF tail
<1>2. IsInjective(tail)
  <2> SUFFICES ASSUME NEW i \in DOMAIN tail, NEW j \in DOMAIN tail, tail[i] = tail[j] PROVE i = j
    BY DEF IsInjective
  <2>1. i + 1 \in DOMAIN seq /\ j + 1 \in DOMAIN seq /\ seq[i + 1] = seq[j + 1] /\ i \in Int /\ j \in Int
    BY <1>1
  <2>2. i + 1 = j + 1
    BY <2>1 DEF IsInjective
  <2> QED
    BY <2>1, <2>2
<1>3. Head(seq) \in Range(seq) /\ Range(tail) \subseteq Range(seq)
  BY <1>1 DEF Range
<1>4. ASSUME NEW q, Precedes(seq, q, Head(seq)) PROVE FALSE
  BY <1>1, <1>4 DEF Precedes, IsInjective
<1>5. ASSUME NEW q, NEW r, Precedes(seq, q, r), q # Head(seq) PROVE Precedes(tail, q, r)
  <2>1. PICK i, j \in DOMAIN seq : i < j /\ seq[i] = q /\ seq[j] = r
    BY <1>5 DEF Precedes
  <2>2. /\ i - 1 \in DOMAIN tail /\ j - 1 \in DOMAIN tail /\ i - 1 < j - 1
        /\ tail[i - 1] = q /\ tail[j - 1] = r
    BY <1>1, <1>5, <2>1
  <2> QED
    BY <2>2 DEF Precedes
<1> QED
  BY <1>1, <1>2, <1>3, <1>4, <1>5 DEF tail

-----------------------------------------------------------------------------
\* What a step does to the files and to what calls have listed

\* The runs that are terminal keep their order.
KeepsOrder == \A q, r \in Runs : Ended(q) /\ Ended(r) /\ Precedes(ended', q, r) => Precedes(ended, q, r)

\* An active run without its goroutine was that before, unless a write failed or a
\* crash has ended every purge.
KeepsGoroutines ==
  /\ used' \in [faults : Nat, calls : Nat]
  /\ used'.faults = 0 =>
       /\ used.faults = 0
       /\ \A r \in Runs : exec'[r].pc = "compact" => ~Active(r)'
       /\ \/ \A r \in Runs : Active(r)' => owner'[r] = Executor \/ (Active(r) /\ owner[r] # Executor)
          \/ \A d \in Removers : remover'[d].kind # "purge"

FilesKept == MetaIsThere' /\ EndedInv' /\ RunInv' /\ KeepsOrder /\ KeepsGoroutines

\* A purge goes on as it was, begins, or is done with the first of its runs.
PurgeGoes(d) ==
  remover'[d].kind = "purge" =>
    \/ /\ remover[d].kind = "purge"
       /\ remover'[d].todo = remover[d].todo /\ remover'[d].kept = remover[d].kept
    \/ remover'[d].todo = ended /\ ended # <<>>
    \/ /\ remover[d].kind = "purge"
       /\ remover'[d].todo = Rest(d) /\ Rest(d) # <<>>
       /\ remover[d].kept \subseteq remover'[d].kept
       /\ Next1(d) \in remover'[d].kept \/ dir'[Next1(d)].meta \notin Terminal

\* A call lists what is there, or passes over a run that is not active.
CallGoes(c) ==
  caller'[c].pc = "peek" =>
    \/ caller'[c].ids = There
    \/ caller[c].pc = "peek" /\ caller'[c].ids = caller[c].ids
    \/ /\ caller[c].pc = "peek"
       /\ \E r : ~Active(r) /\ caller'[c].ids = caller[c].ids \ {r}

CallersKept == (\E T : caller' \in [Callers -> CallerRecords(T)]) /\ \A c \in Callers : CallGoes(c)

LEMMA Observed ==
  ASSUME Observe
  PROVE  /\ \A c \in Callers : steady'[c] = {r \in Runs : /\ caller'[c].pc = "peek" /\ Active(r) /\ Active(r)'
                                                          /\ (caller[c].pc = "peek" => r \in steady[c])}
         /\ \A d \in Removers : steady'[d] = {r \in Runs : /\ remover'[d].kind = "purge" /\ Ended(r) /\ Ended(r)'
                                                           /\ (remover[d].kind = "purge" => r \in steady[d])}
<1>1. \A x \in Callers \cup Removers : x \in Removers => x \notin Callers
  BY CallersAreNotRemovers
<1> QED
  BY <1>1 DEF Observe

LEMMA CallInvKept ==
  ASSUME CallInv, MetaIsThere, CallersKept, Observe
  PROVE  CallInv'
<1> SUFFICES ASSUME NEW c \in Callers, caller'[c].pc = "peek", NEW r \in steady'[c]
             PROVE  r \in caller'[c].ids
  BY DEF CallInv, CallersKept
<1>1. r \in Runs /\ Active(r) /\ (caller[c].pc = "peek" => r \in steady[c])
  BY Observed
<1>2. r \in There
  BY <1>1 DEF MetaIsThere, There, Active
<1> QED
  BY <1>1, <1>2 DEF CallInv, CallersKept, CallGoes

LEMMA PurgeInvKept ==
  ASSUME PurgeInv, EndedInv, KeepsOrder, Observe, \A d \in Removers : PurgeGoes(d)
  PROVE  PurgeInv'
<1> SUFFICES ASSUME NEW d \in Removers, remover'[d].kind = "purge"
             PROVE  /\ remover'[d].todo \in Seq(Runs) \ {<<>>} /\ IsInjective(remover'[d].todo)
                    /\ \A q \in steady'[d], r \in steady'[d] \cap Range(remover'[d].todo) :
                         Precedes(ended', q, r) => q \in remover'[d].kept \/ Precedes(remover'[d].todo, q, r)
  BY DEF PurgeInv
<1>1. \A q \in steady'[d] : q \in Runs /\ Ended(q) /\ dir'[q].meta \in Terminal /\ (remover[d].kind = "purge" => q \in steady[d])
  BY Observed DEF Ended
<1>2. \A q, r \in steady'[d] : Precedes(ended', q, r) => Precedes(ended, q, r)
  BY <1>1 DEF KeepsOrder
<1>3. CASE /\ remover[d].kind = "purge"
           /\ remover'[d].todo = remover[d].todo /\ remover'[d].kept = remover[d].kept
  BY <1>1, <1>2, <1>3 DEF PurgeInv
<1>4. CASE remover'[d].todo = ended /\ ended # <<>>
  BY <1>2, <1>4 DEF EndedInv
<1>5. CASE /\ remover[d].kind = "purge"
           /\ remover'[d].todo = Rest(d) /\ Rest(d) # <<>>
           /\ remover[d].kept \subseteq remover'[d].kept
           /\ Next1(d) \in remover'[d].kept \/ dir'[Next1(d)].meta \notin Terminal
  <2> DEFINE todo == remover[d].todo
  <2>1. todo \in Seq(Runs) \ {<<>>} /\ IsInjective(todo)
    BY <1>5 DEF PurgeInv
  <2>2. /\ Tail(todo) \in Seq(Runs) /\ IsInjective(Tail(todo))
        /\ Range(Tail(todo)) \subseteq Range(todo)
        /\ \A q, r : Precedes(todo, q, r) /\ q # Head(todo) => Precedes(Tail(todo), q, r)
    BY <2>1, TailKeepsOrder
  <2>3. remover'[d].todo = Tail(todo) /\ Next1(d) = Head(todo)
    BY <1>5 DEF Rest, Next1
  <2>4. ASSUME NEW q \in steady'[d], NEW r \in steady'[d] \cap Range(Tail(todo)), Precedes(ended', q, r)
        PROVE  q \in remover'[d].kept \/ Precedes(Tail(todo), q, r)
    <3>1. q \in remover[d].kept \/ Precedes(todo, q, r)
      BY <1>1, <1>2, <1>5, <2>2, <2>4 DEF PurgeInv
    <3>2. q = Head(todo) => q \in remover'[d].kept
      BY <1>1, <1>5, <2>3
    <3> QED
      BY <1>5, <2>2, <3>1, <3>2
  <2> QED
    BY <1>5, <2>2, <2>3, <2>4
<1> QED
  BY <1>3, <1>4, <1>5 DEF PurgeGoes

LEMMA FaultlessInvKept ==
  ASSUME FaultlessInv, EndedInv, PurgeInv, KeepsGoroutines, \A d \in Removers : PurgeGoes(d)
  PROVE  FaultlessInv'
<1> SUFFICES ASSUME used'.faults = 0, NEW d \in Removers, remover'[d].kind = "purge",
                    NEW r \in Range(remover'[d].todo), Active(r)'
             PROVE  owner'[r] = Executor
  BY DEF FaultlessInv, KeepsGoroutines
<1>1. \/ remover[d].kind = "purge" /\ r \in Range(remover[d].todo) /\ r \in Runs
      \/ r \in Range(ended) /\ r \in Runs
  <2>1. CASE remover[d].kind = "purge" /\ remover'[d].todo \in {remover[d].todo, Rest(d)}
    <3>1. remover[d].todo \in Seq(Runs) \ {<<>>} /\ IsInjective(remover[d].todo)
      BY <2>1 DEF PurgeInv
    <3>2. Range(Rest(d)) \subseteq Range(remover[d].todo) /\ Range(remover[d].todo) \subseteq Runs
      BY <3>1, TailKeepsOrder DEF Rest, Range
    <3> QED
      BY <2>1, <3>2
  <2>2. CASE remover'[d].todo = ended
    BY <2>2 DEF EndedInv, Range
  <2> QED
    BY <2>1, <2>2 DEF PurgeGoes
<1>2. r \in Range(ended) => ~Active(r)
  BY DEF EndedInv, Ended, Active, Terminal
<1> QED
  BY <1>1, <1>2 DEF FaultlessInv, KeepsGoroutines

\* A goroutine writes the meta.json of its own run only.
RunWrites(r) ==
  /\ dir'[r].meta # "none" => dir'[r].there
  /\ exec'[r].pc = "run" => ~Ended(r)'
  /\ used' \in [faults : Nat, calls : Nat]
  /\ used'.faults = 0 => /\ used.faults = 0
                         /\ exec'[r].pc = "compact" => ~Active(r)'
                         /\ Active(r)' => owner'[r] = Executor \/ (Active(r) /\ owner[r] # Executor)
  /\ \/ ended' = ended /\ (Ended(r)' <=> Ended(r))
     \/ ~Ended(r) /\ Ended(r)' /\ \E rest \in Without(ended, {r}) : ended' = Append(rest, r)

LEMMA FaultIsCounted ==
  ASSUME used \in [faults : Nat, calls : Nat], Fault
  PROVE  used' \in [faults : Nat, calls : Nat] /\ used'.faults # 0
BY DEF Fault

LEMMA BeginIsNoFault ==
  ASSUME used \in [faults : Nat, calls : Nat], Begin
  PROVE  used' \in [faults : Nat, calls : Nat] /\ used'.faults = used.faults
BY DEF Begin

LEMMA RunWritesMeta ==
  ASSUME ListInv, NEW r \in Runs, RunStep(r)
  PROVE  RunWrites(r)
<1>1. /\ dir \in [Runs -> RunDir] /\ exec \in [Runs -> [pc : ExecPc, barred : BOOLEAN]]
      /\ owner \in [Runs -> Removers \cup {Executor, Nobody}]
      /\ dir[r].meta # "none" => dir[r].there
      /\ exec[r].pc = "run" => ~Ended(r)
      /\ exec[r].pc \in {"load", "run", "compact"} <=> owner[r] = Executor
      /\ used \in [faults : Nat, calls : Nat]
      /\ used.faults = 0 /\ exec[r].pc = "compact" => ~Active(r)
  BY DEF ListInv, TreeInv, Shapes, RunningHoldsLock, MetaIsThere, RunInv, FaultlessInv
<1> USE DEF Ended, Active, Terminal
<1>2. CASE LockRun(r)
  BY <1>1, <1>2 DEF LockRun, RunWrites, execOnly, files
<1>3. CASE LockRefused(r)
  BY <1>1, <1>3, OwnersDiffer DEF LockRefused, Ends, RunWrites, execOnly, files
<1>4. CASE LoadRun(r)
  <2>1. ended' = ended
    BY <1>4 DEF LoadRun
  <2>2. CASE Ended(r) /\ Leaves(r) /\ UNCHANGED <<dir, used>>
    BY <1>1, <2>1, <2>2 DEF Leaves, Ends, RunWrites
  <2>3. CASE /\ ~Ended(r)
             /\ dir' = [dir EXCEPT ![r] = [@ EXCEPT !.there = TRUE, !.meta = "running"]]
             /\ exec' = [exec EXCEPT ![r].pc = "run"]
             /\ UNCHANGED <<owner, used>>
    <3>1. dir'[r].meta = "running" /\ dir'[r].there
      BY <1>1, <2>3 DEF RunDir
    <3>2. exec[r].pc = "load" /\ owner'[r] = Executor /\ exec'[r].pc = "run"
      BY <1>1, <1>4, <2>3 DEF LoadRun
    <3> QED
      BY <1>1, <2>1, <2>3, <3>1, <3>2 DEF RunWrites
  <2>4. CASE /\ ~Ended(r) /\ Fault /\ Leaves(r)
             /\ \E left \in {dir[r], [dir[r] EXCEPT !.there = TRUE],
                             [dir[r] EXCEPT !.there = TRUE, !.meta = "running"]} :
                  dir' = [dir EXCEPT ![r] = left]
    <3>1. used' \in [faults : Nat, calls : Nat] /\ used'.faults # 0
      BY <1>1, <2>4, FaultIsCounted
    <3>2. dir'[r] = dir[r] \/ (dir'[r].there /\ dir'[r].meta \in {dir[r].meta, "running"})
      <4>1. dir[r] \in RunDir
        BY <1>1
      <4>2. \A left \in {dir[r], [dir[r] EXCEPT !.there = TRUE],
                         [dir[r] EXCEPT !.there = TRUE, !.meta = "running"]} :
              left = dir[r] \/ (left.there /\ left.meta \in {dir[r].meta, "running"})
        BY <4>1 DEF RunDir
      <4>3. dir'[r] \in {dir[r], [dir[r] EXCEPT !.there = TRUE],
                         [dir[r] EXCEPT !.there = TRUE, !.meta = "running"]}
        BY <1>1, <2>4
      <4> QED
        BY <4>2, <4>3
    <3>3. exec'[r].pc = "off"
      BY <1>1, <2>4 DEF Leaves, Ends
    <3> QED
      BY <1>1, <2>1, <2>4, <3>1, <3>2, <3>3 DEF RunWrites
  <2> QED
    BY <1>4, <2>2, <2>3, <2>4 DEF LoadRun
<1>5. CASE AppendRun(r)
  <2>1. dir'[r].meta = dir[r].meta /\ dir'[r].there
    BY <1>1, <1>5 DEF AppendRun, RunDir
  <2> QED
    BY <1>1, <1>5, <2>1 DEF AppendRun, RunWrites, execOnly
<1>6. CASE SetRunStatus(r)
  <2>1. dir'[r].meta \in {"running", "waiting"} /\ dir'[r].there = dir[r].there
    BY <1>1, <1>6 DEF SetRunStatus, RunDir
  <2> QED
    BY <1>1, <1>6, <2>1 DEF SetRunStatus, RunWrites, execOnly
<1>7. CASE FinishRun(r)
  <2>1. exec[r].pc = "run"
    BY <1>7 DEF FinishRun
  <2>2. ASSUME NEW st \in Terminal, dir' = [dir EXCEPT ![r] = [@ EXCEPT !.there = TRUE, !.meta = st]],
               \E rest \in Without(ended, {r}) : ended' = Append(rest, r),
               exec' = [exec EXCEPT ![r].pc = "compact"], UNCHANGED <<owner, used>>
        PROVE  RunWrites(r)
    <3>1. dir'[r].meta = st /\ dir'[r].there /\ exec'[r].pc = "compact"
      BY <1>1, <2>2 DEF RunDir
    <3> QED
      BY <1>1, <2>1, <2>2, <3>1 DEF RunWrites
  <2>3. CASE /\ Fault
             /\ dir' = [dir EXCEPT ![r].there = TRUE]
             /\ Leaves(r) \/ (exec' = [exec EXCEPT ![r].pc = "compact"] /\ UNCHANGED owner)
             /\ UNCHANGED ended
    <3>1. used' \in [faults : Nat, calls : Nat] /\ used'.faults # 0
      BY <1>1, <2>3, FaultIsCounted
    <3>2. dir'[r].meta = dir[r].meta /\ dir'[r].there
      BY <1>1, <2>3 DEF RunDir
    <3>3. exec'[r].pc \in {"off", "compact"}
      BY <1>1, <2>3 DEF Leaves, Ends
    <3> QED
      BY <1>1, <2>1, <2>3, <3>1, <3>2, <3>3 DEF RunWrites
  <2> QED
    BY <1>7, <2>2, <2>3 DEF FinishRun
<1>8. CASE CompactRun(r)
  <2>1. dir'[r].meta = dir[r].meta /\ dir'[r].there /\ exec'[r].pc = "off"
    BY <1>1, <1>8 DEF CompactRun, Leaves, Ends, RunDir
  <2> QED
    BY <1>1, <1>8, <2>1 DEF CompactRun, RunWrites, execOnly
<1> QED
  BY <1>2, <1>3, <1>4, <1>5, <1>6, <1>7, <1>8 DEF RunStep

LEMMA RunKeepsFiles ==
  ASSUME ListInv, NEW r \in Runs, RunStep(r)
  PROVE  FilesKept /\ CallersKept /\ \A d \in Removers : PurgeGoes(d)
<1>1. RunWrites(r)
  BY RunWritesMeta
<1>2. \A q \in Runs \ {r} : dir'[q] = dir[q] /\ exec'[q] = exec[q] /\ owner'[q] = owner[q]
  BY RunEffects DEF ListInv
<1>3. MetaIsThere' /\ RunInv'
  BY <1>1, <1>2 DEF RunWrites, ListInv, MetaIsThere, RunInv, Ended
<1>4. KeepsGoroutines
  BY <1>1, <1>2 DEF RunWrites, ListInv, FaultlessInv, KeepsGoroutines, Active
<1>5. EndedInv' /\ KeepsOrder
  <2>1. CASE ended' = ended /\ (Ended(r)' <=> Ended(r))
    BY <1>2, <2>1 DEF ListInv, EndedInv, KeepsOrder, Ended, Range
  <2>2. ASSUME ~Ended(r), Ended(r)', NEW rest \in Without(ended, {r}), ended' = Append(rest, r)
        PROVE  EndedInv' /\ KeepsOrder
    <3>1. /\ rest \in Seq(Runs) /\ IsInjective(rest) /\ Range(rest) \subseteq Range(ended) \ {r}
          /\ \A p, q \in Runs : Precedes(rest, p, q) => Precedes(ended, p, q)
      BY <2>2, WithoutKeepsOrder DEF ListInv, EndedInv
    <3>2. /\ ended' \in Seq(Runs) /\ IsInjective(ended') /\ Range(ended') = Range(rest) \cup {r}
          /\ \A p, q \in Runs \ {r} : Precedes(ended', p, q) => Precedes(rest, p, q)
      BY <2>2, <3>1, AppendKeepsOrder
    <3>3. \A q \in Range(ended') : Ended(q)'
      <4>1. \A q \in Range(rest) : q \in Runs \ {r} /\ Ended(q)
        BY <3>1 DEF Range, ListInv, EndedInv
      <4> QED
        BY <1>2, <2>2, <3>2, <4>1 DEF Ended
    <3>4. KeepsOrder
      BY <2>2, <3>1, <3>2 DEF KeepsOrder
    <3> QED
      BY <3>2, <3>3, <3>4 DEF EndedInv
  <2> QED
    BY <1>1, <2>1, <2>2 DEF RunWrites
<1>6. caller' = caller /\ remover' = remover
  BY DEF RunStep, LockRun, LockRefused, LoadRun, AppendRun, SetRunStatus, FinishRun, CompactRun, execOnly
<1> QED
  BY <1>3, <1>4, <1>5, <1>6 DEF FilesKept, CallersKept, CallGoes, PurgeGoes, ListInv, CallInv

LEMMA CallKeepsFiles ==
  ASSUME ListInv, NEW c \in Callers, CallStep(c)
  PROVE  FilesKept /\ CallersKept /\ \A d \in Removers : PurgeGoes(d)
<1>1. UNCHANGED <<files, owner, remover>>
  BY DEF CallStep, Call, Scan, Peek, MakeID, Check, Register, callerOnly
<1>2. used' \in [faults : Nat, calls : Nat] /\ used'.faults = used.faults
  <2>1. used \in [faults : Nat, calls : Nat]
    BY DEF ListInv, FaultlessInv
  <2>2. Begin \/ used' = used
    BY DEF CallStep, Call, Scan, Peek, MakeID, Check, Register
  <2> QED
    BY <2>1, <2>2, BeginIsNoFault
<1>3. \A r \in Runs : exec'[r].pc \in {exec[r].pc, "lock"}
  <2>1. exec \in [Runs -> [pc : ExecPc, barred : BOOLEAN]]
    BY DEF ListInv, TreeInv, Shapes
  <2>2. exec' = exec \/ \E id : exec' = [exec EXCEPT ![id] = [pc |-> "lock", barred |-> FALSE]]
    BY DEF CallStep, Call, Scan, Peek, MakeID, Check, Register, callerOnly
  <2> QED
    BY <2>1, <2>2
<1>4. MetaIsThere' /\ EndedInv' /\ RunInv' /\ KeepsOrder /\ KeepsGoroutines
  BY <1>1, <1>2, <1>3 DEF files, ListInv, MetaIsThere, EndedInv, RunInv, KeepsOrder, KeepsGoroutines, Ended,
                          Active, FaultlessInv
<1>5. CallersKept
  <2>1. PICK T : caller \in [Callers -> CallerRecords(T)]
    BY DEF ListInv, CallInv
  <2>2. ASSUME NEW U, NEW rec \in CallerRecords(U), caller' = [caller EXCEPT ![c] = rec],
               rec.pc = "peek" => \/ rec.ids = There
                                  \/ caller[c].pc = "peek" /\ rec.ids = caller[c].ids
                                  \/ /\ caller[c].pc = "peek"
                                     /\ \E r : ~Active(r) /\ rec.ids = caller[c].ids \ {r}
        PROVE  CallersKept
    <3>1. rec \in CallerRecords(T \cup U) /\ \A x \in Callers : caller[x] \in CallerRecords(T \cup U)
      BY <2>1, <2>2 DEF CallerRecords
    <3>2. caller' \in [Callers -> CallerRecords(T \cup U)]
      BY <2>1, <2>2, <3>1
    <3>3. caller'[c] = rec /\ \A x \in Callers \ {c} : caller'[x] = caller[x]
      BY <2>1, <2>2
    <3> QED
      BY <2>2, <3>2, <3>3 DEF CallersKept, CallGoes
  <2> DEFINE old == caller[c]
  <2>3. old \in CallerRecords(T)
    BY <2>1
  <2>4. ASSUME NEW pc, pc # "peek", caller' = [caller EXCEPT ![c].pc = pc] PROVE CallersKept
    <3>1. [old EXCEPT !.pc = pc] \in CallerRecords(T \cup {pc}) /\ [old EXCEPT !.pc = pc].pc # "peek"
      BY <2>3, <2>4 DEF CallerRecords
    <3> QED
      BY <2>1, <2>2, <2>4, <3>1
  <2>5. ASSUME NEW pc, pc # "peek", NEW id, caller' = [caller EXCEPT ![c].pc = pc, ![c].id = id] PROVE CallersKept
    <3>1. [old EXCEPT !.pc = pc, !.id = id] \in CallerRecords(T \cup {pc, id}) /\ [old EXCEPT !.pc = pc, !.id = id].pc # "peek"
      BY <2>3, <2>5 DEF CallerRecords
    <3> QED
      BY <2>1, <2>2, <2>5, <3>1
  <2>6. ASSUME caller' = [caller EXCEPT ![c] = NoCall] PROVE CallersKept
    <3>1. NoCall \in CallerRecords({"idle", {}, 0}) /\ NoCall.pc # "peek"
      BY DEF NoCall, CallerRecords
    <3> QED
      BY <2>2, <2>6, <3>1
  <2>7. CASE Call(c)
    BY <2>4, <2>5, <2>7 DEF Call, GoesTo
  <2>8. CASE Scan(c)
    <3> DEFINE rec == [old EXCEPT !.pc = "peek", !.ids = There]
    <3>1. rec \in CallerRecords(T \cup {"peek", There}) /\ rec.ids = There
      BY <2>3 DEF CallerRecords
    <3>2. caller' = [caller EXCEPT ![c] = rec]
      BY <2>1, <2>8 DEF Scan
    <3> HIDE DEF rec
    <3> QED
      BY <2>2, <3>1, <3>2
  <2>9. CASE Peek(c)
    <3>1. PICK r \in caller[c].ids :
            \/ caller' = [caller EXCEPT ![c] = [NoCall EXCEPT !.pc = "check", !.id = r]]
            \/ ~Resumable(r) /\ caller' = [caller EXCEPT ![c].ids = @ \ {r}]
      BY <2>9 DEF Peek
    <3>2. CASE caller' = [caller EXCEPT ![c] = [NoCall EXCEPT !.pc = "check", !.id = r]]
      <4> DEFINE rec == [NoCall EXCEPT !.pc = "check", !.id = r]
      <4>1. rec \in CallerRecords({"check", {}, r}) /\ rec.pc # "peek"
        BY DEF NoCall, CallerRecords
      <4>2. caller' = [caller EXCEPT ![c] = rec]
        BY <3>2
      <4> HIDE DEF rec
      <4> QED
        BY <2>2, <4>1, <4>2
    <3>3. CASE ~Resumable(r) /\ caller' = [caller EXCEPT ![c].ids = @ \ {r}]
      <4> DEFINE fewer == old.ids \ {r}
                 rec == [old EXCEPT !.ids = fewer]
      <4>1. caller' = [caller EXCEPT ![c] = rec]
        BY <2>1, <3>3
      <4>2. rec \in CallerRecords(T \cup {fewer}) /\ rec.ids = fewer
        BY <2>3 DEF CallerRecords
      <4>3. caller[c].pc = "peek" /\ ~Active(r)
        BY <2>9, <3>3 DEF Peek, Resumable
      <4> HIDE DEF rec
      <4> QED
        BY <2>2, <4>1, <4>2, <4>3
    <3> QED
      BY <3>1, <3>2, <3>3
  <2>10. CASE MakeID(c)
    BY <2>5, <2>10 DEF MakeID
  <2>11. CASE Check(c)
    <3>1. \/ caller' = [caller EXCEPT ![c] = NoCall]
          \/ caller' = [caller EXCEPT ![c].pc = "register"]
      BY <2>1, <2>11 DEF Check
    <3> QED
      BY <2>4, <2>6, <3>1
  <2>12. CASE Register(c)
    BY <2>6, <2>12 DEF Register
  <2> QED
    BY <2>7, <2>8, <2>9, <2>10, <2>11, <2>12 DEF CallStep
<1> QED
  BY <1>1, <1>4, <1>5 DEF FilesKept, PurgeGoes

\* What a remover leaves of a run, and of the locks.
Removes ==
  /\ \A r \in Runs : \/ dir'[r] = dir[r] \/ dir'[r] = Gone
                     \/ dir'[r].there = dir[r].there /\ dir'[r].meta \in {dir[r].meta, "none"}
  /\ \A r \in Runs : /\ exec'[r].pc = exec[r].pc
                     /\ owner'[r] = Executor <=> owner[r] = Executor
  /\ used' \in [faults : Nat, calls : Nat] /\ (used'.faults = 0 => used.faults = 0)
  /\ caller' = caller
  /\ \/ ended' = ended /\ dir' = dir
     \/ ended' \in Without(ended, {r \in Runs : dir'[r].meta \notin Terminal})

LEMMA RemovesOnly ==
  ASSUME ListInv, NEW d \in Removers, RemoveStep(d)
  PROVE  Removes
<1>1. /\ dir \in [Runs -> RunDir] /\ exec \in [Runs -> [pc : ExecPc, barred : BOOLEAN]]
      /\ owner \in [Runs -> Removers \cup {Executor, Nobody}]
      /\ used \in [faults : Nat, calls : Nat]
  BY DEF ListInv, TreeInv, Shapes, FaultlessInv
<1>2. d # Executor /\ Nobody # Executor
  BY Owners
<1>3. CASE (\E r \in Runs : DeleteTaskRun(d, r)) \/ DeleteTask(d) \/ Purge(d)
  <2>1. UNCHANGED <<dir, ended, exec, owner, caller>> /\ Begin
    BY <1>3 DEF DeleteTaskRun, DeleteTask, Purge, files, removerOnly
  <2> QED
    BY <1>1, <2>1, BeginIsNoFault DEF Removes
<1>4. CASE TryLockRun(d)
  <2>1. /\ UNCHANGED <<dir, ended, exec, used, caller>>
        /\ owner[Next1(d)] = Nobody /\ owner' = [owner EXCEPT ![Next1(d)] = d]
    BY <1>4 DEF TryLockRun, files, removerOnly
  <2> QED
    BY <1>1, <1>2, <2>1 DEF Removes
<1>5. CASE TryLockFails(d)
  <2>1. UNCHANGED <<dir, ended, exec, used, caller>> /\ owner' = Released(d)
    BY <1>5 DEF TryLockFails, files, removerOnly
  <2> QED
    BY <1>1, <1>2, <2>1 DEF Released, Removes
<1>6. CASE RemoveAll(d)
  <2>1. /\ ended' \in Without(ended, {r \in Runs : dir'[r].meta \notin Terminal})
        /\ owner' = Released(d) /\ caller' = caller
    BY <1>6 DEF RemoveAll, removerOnly
  <2>2. \A r \in Runs : owner'[r] = Executor <=> owner[r] = Executor
    BY <1>1, <1>2, <2>1 DEF Released
  <2>3. CASE /\ dir' = [r \in Runs |-> IF r \in Targets(d) THEN Gone ELSE dir[r]]
             /\ exec' = [r \in Runs |-> IF r \in remover[d].held
                                        THEN [exec[r] EXCEPT !.barred = exec[r].pc = "lock"] ELSE exec[r]]
             /\ UNCHANGED used
    <3>1. \A r \in Runs : exec'[r].pc = exec[r].pc /\ (dir'[r] = dir[r] \/ dir'[r] = Gone)
      BY <1>1, <2>3
    <3> QED
      BY <1>1, <2>1, <2>2, <2>3, <3>1 DEF Removes
  <2>4. CASE /\ Fault /\ UNCHANGED exec
             /\ \E r \in Targets(d) : \E left \in Remnants(r) : dir' = [dir EXCEPT ![r] = left]
    <3>1. PICK q \in Targets(d) : \E left \in Remnants(q) : dir' = [dir EXCEPT ![q] = left]
      BY <2>4
    <3>2. PICK left \in Remnants(q) : dir' = [dir EXCEPT ![q] = left]
      BY <3>1
    <3>3. \A r \in Runs : dir'[r] = IF r = q THEN left ELSE dir[r]
      BY <1>1, <3>2
    <3>4. ASSUME q \in Runs
          PROVE  left = Gone \/ (left.there = dir[q].there /\ left.meta \in {dir[q].meta, "none"})
      <4>1. dir[q] \in RunDir
        BY <1>1, <3>4
      <4>2. \A entry \in {[dir[q] EXCEPT !.meta = "none"], [dir[q] EXCEPT !.journal = FALSE], dir[q]} :
              entry.there = dir[q].there /\ entry.meta \in {dir[q].meta, "none"}
        BY <4>1 DEF RunDir
      <4>3. left = Gone \/ left \in {[dir[q] EXCEPT !.meta = "none"], [dir[q] EXCEPT !.journal = FALSE], dir[q]}
        BY <3>2 DEF Remnants
      <4> QED
        BY <4>2, <4>3
    <3>5. \A r \in Runs : \/ dir'[r] = dir[r] \/ dir'[r] = Gone
                          \/ dir'[r].there = dir[r].there /\ dir'[r].meta \in {dir[r].meta, "none"}
      BY <3>3, <3>4
    <3>6. used' \in [faults : Nat, calls : Nat] /\ used'.faults # 0
      BY <1>1, <2>4, FaultIsCounted
    <3> QED
      BY <2>1, <2>2, <2>4, <3>5, <3>6 DEF Removes
  <2> QED
    BY <1>6, <2>3, <2>4 DEF RemoveAll
<1> QED
  BY <1>3, <1>4, <1>5, <1>6 DEF RemoveStep

LEMMA PurgesGo ==
  ASSUME ListInv, NEW d \in Removers, RemoveStep(d)
  PROVE  \A e \in Removers : PurgeGoes(e)
<1>1. PICK T : remover \in [Removers -> RemoverRecords(T)]
  BY DEF ListInv, TreeInv, Shapes
<1>2. \E rec : remover' = [remover EXCEPT ![d] = rec]
  BY DEF RemoveStep, DeleteTaskRun, DeleteTask, Purge, TryLockRun, TryLockFails, RemoveAll, Proceed
<1>3. \A e \in Removers \ {d} : remover'[e] = remover[e]
  BY <1>1, <1>2
<1>4. PurgeGoes(d)
  <2>1. CASE (\E r \in Runs : DeleteTaskRun(d, r)) \/ DeleteTask(d)
    <3>1. remover'[d].kind # "purge"
      BY <1>1, <2>1 DEF DeleteTaskRun, DeleteTask, NoRemoval
    <3> QED
      BY <3>1 DEF PurgeGoes
  <2>2. CASE Purge(d)
    <3>1. ByAge # <<>> /\ remover'[d].todo = ByAge
      BY <1>1, <2>2 DEF Purge, NoRemoval
    <3> QED
      BY <3>1 DEF PurgeGoes, ByAge
  <2>3. CASE TryLockRun(d)
    <3> DEFINE old == remover[d]
               held == old.held \cup {Next1(d)}
               todo == IF old.kind = "task" THEN Rest(d) ELSE old.todo
               pc == IF old.kind = "task" /\ Rest(d) # <<>> THEN "lock" ELSE "remove"
               rec == [old EXCEPT !.held = held, !.todo = todo, !.pc = pc]
    <3>1. remover' = [remover EXCEPT ![d] = rec] /\ old \in RemoverRecords(T)
      BY <1>1, <2>3 DEF TryLockRun
    <3>2. old.kind = "purge" => todo = old.todo
      OBVIOUS
    <3> HIDE DEF held, todo, pc
    <3>3. rec.kind = old.kind /\ rec.todo = todo /\ rec.kept = old.kept
      BY <3>1 DEF RemoverRecords
    <3> HIDE DEF rec
    <3>4. remover'[d] = rec
      BY <1>1, <3>1
    <3> QED
      BY <3>2, <3>3, <3>4 DEF PurgeGoes
  <2>4. ASSUME NEW remain, NEW kept, remover' = Proceed(d, remain, kept), remover[d].kept \subseteq kept,
               remover[d].kind = "purge" => Next1(d) \in kept \/ dir'[Next1(d)].meta \notin Terminal
        PROVE  PurgeGoes(d)
    <3> DEFINE next(aged) == [NoRemoval EXCEPT !.kind = "purge", !.pc = "lock", !.todo = Rest(d),
                                               !.aged = aged, !.remain = remain, !.kept = kept]
    <3>1. \/ remover' = [remover EXCEPT ![d] = NoRemoval]
          \/ /\ remover[d].kind = "purge" /\ Rest(d) # <<>>
             /\ \E aged : remover' = [remover EXCEPT ![d] = next(aged)]
      BY <2>4 DEF Proceed
    <3>2. CASE remover' = [remover EXCEPT ![d] = NoRemoval]
      BY <1>1, <3>2 DEF NoRemoval, PurgeGoes
    <3>3. ASSUME remover[d].kind = "purge", Rest(d) # <<>>,
                 NEW aged, remover' = [remover EXCEPT ![d] = next(aged)]
          PROVE  PurgeGoes(d)
      <4>1. next(aged).todo = Rest(d) /\ next(aged).kept = kept
        BY DEF NoRemoval
      <4> HIDE DEF next
      <4>2. remover'[d] = next(aged)
        BY <1>1, <3>3
      <4> QED
        BY <2>4, <3>3, <4>1, <4>2 DEF PurgeGoes
    <3> QED
      BY <3>1, <3>2, <3>3
  <2>5. CASE TryLockFails(d)
    BY <2>4, <2>5 DEF TryLockFails
  <2>6. CASE RemoveAll(d)
    <3>1. CASE /\ dir' = [r \in Runs |-> IF r \in Targets(d) THEN Gone ELSE dir[r]]
               /\ remover' = Proceed(d, remover[d].remain - 1, remover[d].kept)
      <4>1. ASSUME remover[d].kind = "purge" PROVE dir'[Next1(d)].meta \notin Terminal
        <5>1. Next1(d) \in Runs
          BY <4>1 DEF ListInv, PurgeInv, Next1
        <5>2. Next1(d) \in Targets(d)
          BY <4>1 DEF Targets
        <5> QED
          BY <3>1, <5>1, <5>2 DEF Gone, Terminal
      <4> QED
        BY <2>4, <3>1, <4>1
    <3>2. CASE remover' = Proceed(d, remover[d].remain, remover[d].kept \cup Targets(d))
      <4>1. remover[d].kind = "purge" => Next1(d) \in Targets(d)
        BY DEF Targets
      <4> QED
        BY <2>4, <3>2, <4>1
    <3> QED
      BY <2>6, <3>1, <3>2 DEF RemoveAll
  <2> QED
    BY <2>1, <2>2, <2>3, <2>5, <2>6 DEF RemoveStep
<1> QED
  BY <1>3, <1>4 DEF PurgeGoes

LEMMA RemoveKeepsFiles ==
  ASSUME ListInv, NEW d \in Removers, RemoveStep(d)
  PROVE  FilesKept /\ CallersKept /\ \A e \in Removers : PurgeGoes(e)
<1>1. Removes
  BY RemovesOnly
<1>2. \A r \in Runs : /\ dir'[r].meta # "none" => dir[r].meta = dir'[r].meta
                      /\ dir'[r].meta # "none" /\ dir[r].there => dir'[r].there
  BY <1>1 DEF Removes, Gone
<1>3. \A r \in Runs : (Ended(r)' => Ended(r)) /\ (Active(r)' => Active(r))
  BY <1>2 DEF Ended, Active, Terminal
<1>4. MetaIsThere' /\ RunInv'
  BY <1>1, <1>2, <1>3 DEF Removes, ListInv, MetaIsThere, RunInv
<1>5. KeepsGoroutines
  BY <1>1, <1>3 DEF Removes, ListInv, FaultlessInv, KeepsGoroutines
<1>6. EndedInv' /\ KeepsOrder
  <2>1. CASE ended' = ended /\ dir' = dir
    BY <2>1 DEF ListInv, EndedInv, KeepsOrder, Ended
  <2> DEFINE gone == {r \in Runs : dir'[r].meta \notin Terminal}
  <2>2. CASE ended' \in Without(ended, gone)
    <3> HIDE DEF gone
    <3>1. /\ ended' \in Seq(Runs) /\ IsInjective(ended') /\ Range(ended') \subseteq Range(ended) \ gone
          /\ \A p, q \in Runs : Precedes(ended', p, q) => Precedes(ended, p, q)
      BY <2>2, WithoutKeepsOrder DEF ListInv, EndedInv
    <3>2. \A r \in Range(ended') : Ended(r)'
      BY <3>1 DEF Range, Ended, gone
    <3> QED
      BY <3>1, <3>2 DEF EndedInv, KeepsOrder
  <2> QED
    BY <1>1, <2>1, <2>2 DEF Removes
<1>7. CallersKept
  BY <1>1 DEF Removes, ListInv, CallInv, CallersKept, CallGoes
<1> QED
  BY <1>4, <1>5, <1>6, <1>7, PurgesGo DEF FilesKept

LEMMA EngineKeepsFiles ==
  ASSUME ListInv, OpenEngine \/ StopEngine \/ CloseEngine \/ Crash
  PROVE  FilesKept /\ CallersKept /\ \A d \in Removers : PurgeGoes(d)
<1>1. used' = used /\ ended' = ended
  BY DEF OpenEngine, StopEngine, CloseEngine, Crash, files
<1>2. \A r \in Runs : dir'[r] = dir[r] \/ (dir[r].meta = "none" /\ dir'[r] = Gone)
  <2>1. dir \in [Runs -> RunDir]
    BY DEF ListInv, TreeInv, Shapes
  <2> QED
    BY <2>1 DEF OpenEngine, StopEngine, CloseEngine, Crash, files, Orphan
<1>3. \A r \in Runs : /\ dir'[r].meta = dir[r].meta /\ (Ended(r)' <=> Ended(r)) /\ (Active(r)' <=> Active(r))
                      /\ dir'[r].meta # "none" /\ dir[r].there => dir'[r].there
  BY <1>2 DEF Gone, Ended, Active
<1>4. \A r \in Runs : exec'[r].pc \in {exec[r].pc, "off"}
  BY DEF OpenEngine, StopEngine, CloseEngine, Crash
<1>5. MetaIsThere' /\ RunInv' /\ EndedInv' /\ KeepsOrder
  <2>1. \A r \in Range(ended) : r \in Runs
    BY DEF ListInv, EndedInv, Range
  <2> QED
    BY <1>1, <1>3, <1>4, <2>1 DEF ListInv, MetaIsThere, RunInv, EndedInv, KeepsOrder
<1>6. \/ UNCHANGED <<owner, remover>>
      \/ \A d \in Removers : remover'[d] = NoRemoval
  BY DEF OpenEngine, StopEngine, CloseEngine, Crash
<1>7. KeepsGoroutines
  BY <1>1, <1>3, <1>4, <1>6 DEF NoRemoval, ListInv, FaultlessInv, KeepsGoroutines
<1>8. \A d \in Removers : PurgeGoes(d)
  BY <1>6 DEF NoRemoval, PurgeGoes
<1>9. CallersKept
  <2>1. caller' = caller \/ caller' = [c \in Callers |-> NoCall]
    BY DEF OpenEngine, StopEngine, CloseEngine, Crash
  <2>2. NoCall \in CallerRecords({"idle", {}, 0}) /\ NoCall.pc # "peek"
    BY DEF NoCall, CallerRecords
  <2>3. CASE caller' = caller
    BY <2>3 DEF ListInv, CallInv, CallersKept, CallGoes
  <2>4. CASE caller' = [c \in Callers |-> NoCall]
    <3> HIDE DEF NoCall
    <3>1. caller' \in [Callers -> CallerRecords({"idle", {}, 0})]
      BY <2>2, <2>4
    <3> QED
      BY <2>2, <2>4, <3>1 DEF CallersKept, CallGoes
  <2> QED
    BY <2>1, <2>3, <2>4
<1> QED
  BY <1>5, <1>7, <1>8, <1>9 DEF FilesKept

-----------------------------------------------------------------------------
\* The invariant of the runs

LEMMA InitiallyEmpty == TreeInit => ListInv
<1> SUFFICES ASSUME TreeInit PROVE ListInv
  OBVIOUS
<1>1. MetaIsThere /\ RunInv
  BY DEF TreeInit, Gone, MetaIsThere, RunInv
<1>2. CallInv
  <2>1. NoCall \in CallerRecords({"idle", {}, 0}) /\ NoCall.pc # "peek"
    BY DEF NoCall, CallerRecords
  <2> QED
    BY <2>1 DEF TreeInit, CallInv
<1>3. EndedInv
  BY DEF TreeInit, EndedInv, IsInjective, Range
<1>4. FaultlessInv /\ PurgeInv
  BY DEF TreeInit, FaultlessInv, PurgeInv, NoRemoval
<1> QED
  BY <1>1, <1>2, <1>3, <1>4, InitiallyQuiet DEF ListInv

LEMMA ListsKept == ListInv /\ [TreeNext]_treeVars => ListInv'
<1> SUFFICES ASSUME ListInv, [TreeNext]_treeVars PROVE ListInv'
  OBVIOUS
<1>1. TreeInv'
  BY TreeStepKeeps DEF ListInv
<1>2. CASE TreeNext
  <2>1. FilesKept /\ CallersKept /\ \A d \in Removers : PurgeGoes(d)
    BY <1>2, CallKeepsFiles, RunKeepsFiles, RemoveKeepsFiles, EngineKeepsFiles DEF TreeNext, TreeStep
  <2>2. Observe
    BY <1>2 DEF TreeNext
  <2>3. CallInv' /\ PurgeInv' /\ FaultlessInv'
    BY <2>1, <2>2, CallInvKept, PurgeInvKept, FaultlessInvKept DEF ListInv, FilesKept
  <2> QED
    BY <1>1, <2>1, <2>3 DEF ListInv, FilesKept
<1>3. CASE UNCHANGED treeVars
  <2>1. MetaIsThere' /\ CallInv' /\ EndedInv' /\ RunInv' /\ FaultlessInv' /\ PurgeInv'
    BY <1>3 DEF treeVars, ListInv, MetaIsThere, CallInv, EndedInv, RunInv, FaultlessInv, PurgeInv, Ended, Active
  <2> QED
    BY <1>1, <2>1 DEF ListInv
<1> QED
  BY <1>2, <1>3

LEMMA TreeSpecLists == TreeSpec => []ListInv
<1> QED
  BY InitiallyEmpty, ListsKept, PTL DEF TreeSpec

-----------------------------------------------------------------------------
\* Theorems about the runs

\* Neither a delete, nor a purge, nor the sweep of an opening engine takes a file
\* from a run whose goroutine has locked it, unless a DeleteTask removes the task's
\* directory with a run in it that it has not locked.
THEOREM GoroutineKeepsItsRun == TreeSpec => ListedSpared
<1> DEFINE Executes(r) == exec[r].pc \in {"load", "run", "compact"}
           Loses(r) == \/ dir[r].journal /\ ~dir'[r].journal
                       \/ dir[r].meta # "none" /\ dir'[r].meta = "none"
           ByTask(r) == \E d \in Removers : /\ remover[d].kind = "task" /\ remover[d].pc = "remove"
                                            /\ r \notin remover[d].held
<1>1. TreeInv /\ [TreeNext]_treeVars => \A r \in Runs : Executes(r) /\ Loses(r) => ByTask(r)
  <2> SUFFICES ASSUME TreeInv, [TreeNext]_treeVars, NEW r \in Runs, Executes(r), Loses(r)
               PROVE  ByTask(r)
    OBVIOUS
  <2>1. dir \in [Runs -> RunDir] /\ owner[r] = Executor
    BY DEF TreeInv, Shapes, RunningHoldsLock
  <2>2. dir' # dir
    OBVIOUS
  <2>3. ~\E c \in Callers : CallStep(c)
    BY <2>2, CallKeeps
  <2>4. ASSUME NEW q \in Runs, RunStep(q) PROVE FALSE
    <3>1. /\ r # q => dir'[r] = dir[r]
          /\ dir[q].journal => dir'[q].journal
          /\ dir[q].meta # "none" => dir'[q].meta # "none"
      BY <2>4, RunEffects
    <3> QED
      BY <3>1
  <2>5. ASSUME NEW d \in Removers, RemoveStep(d) PROVE ByTask(r)
    <3>1. RemoveAll(d)
      BY <2>2, <2>5, Begins, Locks DEF RemoveStep, TryLockFails, files
    <3>2. r \in Targets(d)
      BY <2>1, <3>1 DEF RemoveAll
    <3>3. r \notin remover[d].held
      BY <2>1, Owners DEF TreeInv, HeldIsOwned
    <3>4. remover[d].kind = "task"
      BY <3>1, <3>2, <3>3 DEF RemoveAll, Targets, TreeInv, RemovesWhatItHolds
    <3> QED
      BY <3>1, <3>3, <3>4 DEF RemoveAll
  <2>6. ~(OpenEngine \/ StopEngine \/ CloseEngine \/ Crash)
    BY <2>2 DEF OpenEngine, StopEngine, CloseEngine, Crash, files, TreeInv, DownIsQuiet
  <2>7. ~UNCHANGED treeVars
    BY <2>2 DEF treeVars
  <2> QED
    BY <2>3, <2>4, <2>5, <2>6, <2>7 DEF TreeNext, TreeStep
<1> DEFINE Spared == \A r \in Runs :
       /\ exec[r].pc \in {"load", "run", "compact"}
       /\ \/ dir[r].journal /\ ~dir'[r].journal
          \/ dir[r].meta # "none" /\ dir'[r].meta = "none"
       => \E d \in Removers : /\ remover[d].kind = "task" /\ remover[d].pc = "remove"
                              /\ r \notin remover[d].held
<1>2. TreeInv /\ [TreeNext]_treeVars => Spared
  BY <1>1
<1>3. [][TreeNext]_treeVars /\ []TreeInv => [][Spared]_treeVars
  BY <1>2, PTL
<1> QED
  BY <1>3, TreeSpecKeeps, PTL DEF TreeSpec, ListedSpared

\* resolveRunID: while runs suspend, resume and go, a RunTask call takes no run
\* younger than one that has been active since its listing, and makes no new one.
THEOREM OldestIsResumed == TreeSpec => OldestResumed
<1> DEFINE Oldest == \A c \in Callers :
                       caller[c].pc = "peek" /\ caller'[c].pc = "check" =>
                         \A r \in steady[c] : caller'[c].id <= r
<1>1. ListInv /\ [TreeNext]_treeVars => Oldest
  <2> SUFFICES ASSUME ListInv, [TreeNext]_treeVars, NEW c \in Callers,
                      caller[c].pc = "peek", caller'[c].pc = "check", NEW r \in steady[c]
               PROVE  caller'[c].id <= r
    OBVIOUS
  <2>1. PICK T : caller \in [Callers -> CallerRecords(T)]
    BY DEF ListInv, CallInv
  <2>2. r \in caller[c].ids
    BY DEF ListInv, CallInv
  <2>3. CallStep(c)
    <3>1. ASSUME NEW x \in Callers, CallStep(x), x # c PROVE FALSE
      <4>1. \E rec : caller' = [caller EXCEPT ![x] = rec]
        BY <2>1, <3>1 DEF CallStep, Call, Scan, Peek, MakeID, Check, Register, GoesTo
      <4> QED
        BY <2>1, <3>1, <4>1
    <3>2. ASSUME NEW q \in Runs, RunStep(q) PROVE FALSE
      BY <3>2 DEF RunStep, LockRun, LockRefused, LoadRun, AppendRun, SetRunStatus, FinishRun, CompactRun, execOnly
    <3>3. ASSUME NEW d \in Removers, RemoveStep(d) PROVE FALSE
      BY <3>3, RemovesOnly DEF Removes
    <3>4. ~(OpenEngine \/ StopEngine \/ CloseEngine \/ Crash)
      BY DEF OpenEngine, StopEngine, CloseEngine, Crash, NoCall
    <3> QED
      BY <3>1, <3>2, <3>3, <3>4 DEF TreeNext, TreeStep, treeVars
  <2>4. Peek(c)
    BY <2>2, <2>3 DEF CallStep, Call, Scan, MakeID, Check, Register
  <2>5. PICK q \in caller[c].ids :
          /\ \A p \in caller[c].ids : q <= p
          /\ \/ caller' = [caller EXCEPT ![c] = [NoCall EXCEPT !.pc = "check", !.id = q]]
             \/ caller' = [caller EXCEPT ![c].ids = @ \ {q}]
    BY <2>4 DEF Peek
  <2>6. caller'[c].pc # caller[c].pc
    OBVIOUS
  <2>7. caller'[c].id = q
    BY <2>1, <2>5, <2>6 DEF NoCall, CallerRecords
  <2> QED
    BY <2>2, <2>5, <2>7
<1>2. [][TreeNext]_treeVars /\ []ListInv => [][Oldest]_treeVars
  BY <1>1, PTL
<1> QED
  BY <1>2, TreeSpecLists, PTL DEF TreeSpec, OldestResumed

\* purge: of two runs that have both been terminal since its walk, the younger goes
\* only after the older was tried, whatever deletes and restarts happen meanwhile.
THEOREM OldestIsPurged == TreeSpec => PurgeOldestFirst
<1> DEFINE InTurn == \A d \in Removers, r \in Runs :
                       Purged(d, r) /\ r \in steady[d] =>
                         \A q \in steady[d] : Precedes(ended, q, r) => q \in remover[d].kept
<1>1. ListInv => InTurn
  <2> SUFFICES ASSUME ListInv, NEW d \in Removers, NEW r \in Runs, Purged(d, r), r \in steady[d],
                      NEW q \in steady[d], Precedes(ended, q, r)
               PROVE  q \in remover[d].kept
    OBVIOUS
  <2>1. remover[d].kind = "purge" /\ r = Head(remover[d].todo)
    BY DEF Purged, Next1
  <2>2. remover[d].todo \in Seq(Runs) \ {<<>>} /\ IsInjective(remover[d].todo)
    BY <2>1 DEF ListInv, PurgeInv
  <2>3. r \in Range(remover[d].todo) /\ ~Precedes(remover[d].todo, q, r)
    BY <2>1, <2>2, TailKeepsOrder
  <2> QED
    BY <2>1, <2>3 DEF ListInv, PurgeInv
<1>2. [][TreeNext]_treeVars /\ []ListInv => [][InTurn]_treeVars
  BY <1>1, PTL
<1> QED
  BY <1>2, TreeSpecLists, PTL DEF TreeSpec, PurgeOldestFirst

\* purge: while no write has failed it removes no running or waiting run, though it
\* goes by a walk that may be long past.
THEOREM ActiveIsNotPurged == TreeSpec => PurgeSparesActive
<1> DEFINE Spares == \A d \in Removers, r \in Runs : Purged(d, r) /\ used.faults = 0 => ~Active(r)
<1>1. ListInv => Spares
  <2> SUFFICES ASSUME ListInv, NEW d \in Removers, NEW r \in Runs, Purged(d, r), used.faults = 0, Active(r)
               PROVE  FALSE
    OBVIOUS
  <2>1. remover[d].kind = "purge" /\ remover[d].pc = "remove" /\ r = Next1(d)
    BY DEF Purged
  <2>2. owner[r] = d
    BY <2>1 DEF ListInv, TreeInv, RemovesWhatItHolds, HeldIsOwned
  <2>3. r \in Range(remover[d].todo)
    BY <2>1, TailKeepsOrder DEF ListInv, PurgeInv, Next1
  <2>4. owner[r] = Executor
    BY <2>1, <2>3 DEF ListInv, FaultlessInv
  <2> QED
    BY <2>2, <2>4, Owners
<1>2. [][TreeNext]_treeVars /\ []ListInv => [][Spares]_treeVars
  BY <1>1, PTL
<1> QED
  BY <1>2, TreeSpecLists, PTL DEF TreeSpec, PurgeSparesActive

-----------------------------------------------------------------------------
\* The directory lock

In(S) == {o \in S : opener[o] # "closed"}

DirTypes ==
  /\ occupancy \in [Processes -> [writers : Int, readers : Int]]
  /\ flock \subseteq Openers
  /\ opener \in [Openers -> OpenerPc]

AloneInProcess ==
  \A w \in Writers, o \in Openers :
    /\ opener[w] # "closed" /\ opener[o] # "closed"
    /\ ProcessOf(w) = ProcessOf(o)
    => w = o

HeldInside == \A o \in Openers : o \in flock <=> Inside(o)

AloneWithFlock ==
  \A w \in Writers, o \in Openers :
    w \in flock /\ o \in flock => ProcessOf(w) = ProcessOf(o)

DirInv == DirTypes /\ OccupancyCounts /\ AloneInProcess /\ HeldInside /\ AloneWithFlock

-----------------------------------------------------------------------------
\* Lemmas about the lock

LEMMA ProcessOfOpener ==
  ASSUME NEW o \in Openers
  PROVE  /\ ProcessOf(o) \in Processes /\ o \in ProcessOf(o)
         /\ \A p \in Processes : o \in p => p = ProcessOf(o)
<1>1. PICK p \in Processes : o \in p
  BY EveryOpenerHasAProcess
<1>2. ProcessOf(o) \in Processes /\ o \in ProcessOf(o)
  BY <1>1 DEF ProcessOf
<1> QED
  BY <1>2, ProcessesPartition

\* The openers of a process of one kind are finitely many, and so are those in.
LEMMA FiniteIn ==
  ASSUME NEW S \in SUBSET Openers
  PROVE  IsFiniteSet(In(S)) /\ Cardinality(In(S)) \in Nat
<1>1. In(S) \in SUBSET Openers
  BY DEF In
<1>2. IsFiniteSet(In(S))
  BY <1>1, FiniteOpeners, FS_Subset
<1> QED
  BY <1>2, FS_CardinalityType

\* An opener that moves changes the count of a set only when it enters or leaves,
\* and is of it.
LEMMA MoveCounts ==
  ASSUME DirTypes, NEW o \in Openers, NEW pc \in OpenerPc,
         opener' = [opener EXCEPT ![o] = pc], NEW S \in SUBSET Openers
  PROVE  Cardinality(In(S)') =
           IF o \notin S \/ (opener[o] = "closed" <=> pc = "closed") THEN Cardinality(In(S))
           ELSE IF pc = "closed" THEN Cardinality(In(S)) - 1 ELSE Cardinality(In(S)) + 1
<1>1. IsFiniteSet(In(S))
  BY FiniteIn
<1>2. CASE o \notin S \/ (opener[o] = "closed" <=> pc = "closed")
  <2>1. In(S)' = In(S)
    BY <1>2 DEF In, DirTypes
  <2> QED
    BY <1>2, <2>1
<1>3. CASE o \in S /\ opener[o] = "closed" /\ pc # "closed"
  <2>1. In(S)' = In(S) \cup {o} /\ o \notin In(S)
    BY <1>3 DEF In, DirTypes
  <2>2. Cardinality(In(S) \cup {o}) = Cardinality(In(S)) + 1
    BY <1>1, <2>1, FS_AddElement
  <2> QED
    BY <1>3, <2>1, <2>2
<1>4. CASE o \in S /\ opener[o] # "closed" /\ pc = "closed"
  <2>1. In(S)' = In(S) \ {o} /\ o \in In(S)
    BY <1>4 DEF In, DirTypes
  <2>2. Cardinality(In(S) \ {o}) = Cardinality(In(S)) - 1
    BY <1>1, <2>1, FS_RemoveElement
  <2> QED
    BY <1>4, <2>1, <2>2
<1> QED
  BY <1>2, <1>3, <1>4

\* An empty count means that nobody is in.
LEMMA NobodyIn ==
  ASSUME NEW S \in SUBSET Openers, Cardinality(In(S)) = 0
  PROVE  \A o \in S : opener[o] = "closed"
<1>1. In(S) = {}
  BY FiniteIn, FS_EmptySet
<1> QED
  BY <1>1 DEF In

\* OccupancyCounts with the sets of openers that are in.
LEMMA CountsOf ==
  OccupancyCounts <=> \A p \in Processes : /\ occupancy[p].writers = Cardinality(In(p \cap Writers))
                                           /\ occupancy[p].readers = Cardinality(In(p \cap Readers))
BY DEF OccupancyCounts, In

LEMMA KindsOfProcess ==
  ASSUME NEW p \in Processes
  PROVE  /\ p \cap Writers \in SUBSET Openers /\ p \cap Readers \in SUBSET Openers
         /\ p \subseteq Openers
BY ProcessesPartition DEF Openers

-----------------------------------------------------------------------------
\* The inductive invariant

LEMMA InitiallyAlone == DirInit => DirInv
<1> SUFFICES ASSUME DirInit PROVE DirInv
  OBVIOUS
<1>1. DirTypes
  BY DEF DirInit, DirTypes, Vacant, OpenerPc
<1>2. OccupancyCounts
  <2> SUFFICES ASSUME NEW p \in Processes
               PROVE  /\ occupancy[p].writers = Cardinality(In(p \cap Writers))
                      /\ occupancy[p].readers = Cardinality(In(p \cap Readers))
    BY CountsOf
  <2>1. In(p \cap Writers) = {} /\ In(p \cap Readers) = {}
    BY KindsOfProcess DEF DirInit, In
  <2> QED
    BY <2>1, FS_EmptySet DEF DirInit, Vacant
<1>3. AloneInProcess /\ HeldInside /\ AloneWithFlock
  BY DEF DirInit, AloneInProcess, HeldInside, AloneWithFlock, Inside, Openers
<1> QED
  BY <1>1, <1>2, <1>3 DEF DirInv

\* An opener between its gates, which leaves the table alone.
LEMMA MoveInside ==
  ASSUME DirInv, NEW o \in Openers, NEW pc \in OpenerPc \ {"closed"}, opener[o] # "closed",
         opener' = [opener EXCEPT ![o] = pc], UNCHANGED occupancy, flock' \subseteq Openers
  PROVE  DirTypes' /\ OccupancyCounts' /\ AloneInProcess'
<1> USE DEF DirInv
<1>1. DirTypes'
  BY DEF DirTypes
<1>2. OccupancyCounts'
  <2>1. ASSUME NEW S \in SUBSET Openers PROVE Cardinality(In(S)') = Cardinality(In(S))
    BY MoveCounts
  <2>2. \A p \in Processes : /\ Cardinality(In(p \cap Writers)') = Cardinality(In(p \cap Writers))
                             /\ Cardinality(In(p \cap Readers)') = Cardinality(In(p \cap Readers))
    BY <2>1, KindsOfProcess
  <2> QED
    BY <2>2 DEF OccupancyCounts, In
<1>3. AloneInProcess'
  BY DEF AloneInProcess, DirTypes, ProcessOf, Openers
<1> QED
  BY <1>1, <1>2, <1>3

\* It keeps its flock, or has none, as long as it stays on one side of the gate.
LEMMA MoveOnOneSide ==
  ASSUME DirInv, NEW o \in Openers, NEW pc \in OpenerPc,
         opener' = [opener EXCEPT ![o] = pc], UNCHANGED flock, Inside(o) = Inside(o)'
  PROVE  HeldInside' /\ AloneWithFlock'
<1>1. \A q \in Openers : Inside(q)' = Inside(q)
  BY DEF DirInv, DirTypes, Inside
<1> QED
  BY <1>1 DEF DirInv, HeldInside, AloneWithFlock, ProcessOf

LEMMA OccupyKeeps ==
  ASSUME DirInv, NEW o \in Openers, Occupy(o)
  PROVE  DirInv'
<1> DEFINE p == ProcessOf(o)
<1> USE DEF DirInv
<1>1. /\ opener[o] = "closed" /\ opener' = [opener EXCEPT ![o] = "acquire"] /\ UNCHANGED flock
      /\ p = ProcessOf(o) /\ p \in Processes /\ o \in p /\ \A q \in Processes : o \in q => q = p
  BY ProcessOfOpener DEF Occupy, Goes
<1> HIDE DEF p
<1>2. \A S \in SUBSET Openers :
        Cardinality(In(S)') = IF o \in S THEN Cardinality(In(S)) + 1 ELSE Cardinality(In(S))
  BY <1>1, MoveCounts DEF OpenerPc
<1>3. \A q \in Processes :
        /\ occupancy[q].writers = Cardinality(In(q \cap Writers))
        /\ occupancy[q].readers = Cardinality(In(q \cap Readers))
        /\ occupancy[q].writers \in Int /\ occupancy[q].readers \in Int
        /\ Cardinality(In(q \cap Writers)') = IF o \in q \cap Writers THEN Cardinality(In(q \cap Writers)) + 1
                                              ELSE Cardinality(In(q \cap Writers))
        /\ Cardinality(In(q \cap Readers)') = IF o \in q \cap Readers THEN Cardinality(In(q \cap Readers)) + 1
                                              ELSE Cardinality(In(q \cap Readers))
  BY <1>2, CountsOf, KindsOfProcess DEF DirTypes
<1>4. HeldInside' /\ AloneWithFlock'
  <2>1. Inside(o) = Inside(o)'
    BY <1>1 DEF Inside, DirTypes
  <2> QED
    BY <1>1, <2>1, MoveOnOneSide DEF OpenerPc
<1>5. CASE o \in Writers
  <2>1. /\ occupancy[p] = Vacant
        /\ occupancy' = [occupancy EXCEPT ![p].writers = 1]
    BY <1>5 DEF Occupy, p
  <2>7. /\ occupancy[p].writers = 0
        /\ occupancy'[p].writers = 1 /\ occupancy'[p].readers = occupancy[p].readers
        /\ \A q \in Processes \ {p} : occupancy'[q] = occupancy[q]
    BY <1>1, <2>1 DEF DirTypes, Vacant
  <2>2. DirTypes'
    BY <1>1, <2>1 DEF DirTypes, OpenerPc
  <2>3. \A q \in p : opener[q] = "closed"
    <3>. occupancy[p].writers = 0 /\ occupancy[p].readers = 0
      BY <2>1 DEF Vacant
    <3>1. Cardinality(In(p \cap Writers)) = 0 /\ Cardinality(In(p \cap Readers)) = 0
      BY <1>1, <1>3
    <3>2. (\A q \in p \cap Writers : opener[q] = "closed") /\ (\A q \in p \cap Readers : opener[q] = "closed")
      BY <1>1, <3>1, NobodyIn, KindsOfProcess
    <3> QED
      BY <1>1, <3>2, KindsOfProcess DEF Openers
  <2>4. OccupancyCounts'
    <3> SUFFICES ASSUME NEW q \in Processes
                 PROVE  /\ occupancy'[q].writers = Cardinality(In(q \cap Writers)')
                        /\ occupancy'[q].readers = Cardinality(In(q \cap Readers)')
      BY DEF OccupancyCounts, In
    <3>. DEFINE w == Cardinality(In(q \cap Writers)')
                r == Cardinality(In(q \cap Readers)')
    <3>0. /\ w = IF o \in q \cap Writers THEN occupancy[q].writers + 1 ELSE occupancy[q].writers
          /\ r = IF o \in q \cap Readers THEN occupancy[q].readers + 1 ELSE occupancy[q].readers
      BY <1>3
    <3> HIDE DEF w, r
    <3>. occupancy'[q].writers = w /\ occupancy'[q].readers = r
      <4>1. CASE q = p
        BY <1>1, <1>5, <2>7, <3>0, <4>1, WritersAreNotReaders
      <4>2. CASE q # p
        BY <1>1, <2>7, <3>0, <4>2
      <4> QED
        BY <4>1, <4>2
    <3> QED
      BY DEF w, r
  <2>5. AloneInProcess'
    <3> SUFFICES ASSUME NEW w \in Writers, NEW q \in Openers,
                        opener'[w] # "closed", opener'[q] # "closed", ProcessOf(w) = ProcessOf(q)
                 PROVE  w = q
      BY DEF AloneInProcess, ProcessOf
    <3>1. w \in Openers /\ w \in ProcessOf(w) /\ q \in ProcessOf(q) /\ ProcessOf(w) \in Processes
      BY ProcessOfOpener DEF Openers
    <3>2. CASE ProcessOf(w) = p
      BY <1>1, <2>3, <3>1, <3>2 DEF DirTypes
    <3>3. CASE ProcessOf(w) # p
      BY <1>1, <3>1, <3>3 DEF DirTypes, AloneInProcess
    <3> QED
      BY <3>2, <3>3
  <2> QED
    BY <1>4, <2>2, <2>4, <2>5
<1>6. CASE o \notin Writers
  <2>1. /\ occupancy[p].writers = 0
        /\ occupancy' = [occupancy EXCEPT ![p].readers = @ + 1]
        /\ o \in Readers
    BY <1>6 DEF Occupy, Openers, p
  <2>7. /\ occupancy'[p].writers = occupancy[p].writers
        /\ occupancy'[p].readers = occupancy[p].readers + 1
        /\ \A q \in Processes \ {p} : occupancy'[q] = occupancy[q]
    BY <1>1, <2>1 DEF DirTypes
  <2>2. DirTypes'
    BY <1>1, <2>1 DEF DirTypes, OpenerPc
  <2>3. \A q \in p \cap Writers : opener[q] = "closed"
    BY <1>1, <1>3, <2>1, NobodyIn, KindsOfProcess
  <2>4. OccupancyCounts'
    <3> SUFFICES ASSUME NEW q \in Processes
                 PROVE  /\ occupancy'[q].writers = Cardinality(In(q \cap Writers)')
                        /\ occupancy'[q].readers = Cardinality(In(q \cap Readers)')
      BY DEF OccupancyCounts, In
    <3>. DEFINE w == Cardinality(In(q \cap Writers)')
                r == Cardinality(In(q \cap Readers)')
    <3>0. /\ w = IF o \in q \cap Writers THEN occupancy[q].writers + 1 ELSE occupancy[q].writers
          /\ r = IF o \in q \cap Readers THEN occupancy[q].readers + 1 ELSE occupancy[q].readers
      BY <1>3
    <3> HIDE DEF w, r
    <3>. occupancy'[q].writers = w /\ occupancy'[q].readers = r
      <4>1. CASE q = p
        BY <1>1, <1>6, <2>1, <2>7, <3>0, <4>1
      <4>2. CASE q # p
        BY <1>1, <2>7, <3>0, <4>2
      <4> QED
        BY <4>1, <4>2
    <3> QED
      BY DEF w, r
  <2>5. AloneInProcess'
    <3> SUFFICES ASSUME NEW w \in Writers, NEW q \in Openers,
                        opener'[w] # "closed", opener'[q] # "closed", ProcessOf(w) = ProcessOf(q)
                 PROVE  w = q
      BY DEF AloneInProcess, ProcessOf
    <3>1. w \in Openers /\ w \in ProcessOf(w) /\ w # o
      BY <1>6, ProcessOfOpener DEF Openers
    <3>2. opener[w] # "closed"
      BY <1>1, <3>1 DEF DirTypes
    <3>3. q # o
      BY <1>1, <2>3, <3>1, <3>2
    <3> QED
      BY <1>1, <3>1, <3>2, <3>3 DEF DirTypes, AloneInProcess
  <2> QED
    BY <1>4, <2>2, <2>4, <2>5
<1> QED
  BY <1>5, <1>6

LEMMA VacateKeeps ==
  ASSUME DirInv, NEW o \in Openers, Vacate(o)
  PROVE  DirInv'
<1> DEFINE p == ProcessOf(o)
<1> USE DEF DirInv
<1>1. /\ opener[o] = "vacate" /\ opener' = [opener EXCEPT ![o] = "closed"] /\ UNCHANGED flock
      /\ p = ProcessOf(o) /\ p \in Processes /\ o \in p /\ \A q \in Processes : o \in q => q = p
  BY ProcessOfOpener DEF Vacate, Goes
<1>2. occupancy' = IF o \in Writers THEN [occupancy EXCEPT ![p].writers = @ - 1]
                   ELSE [occupancy EXCEPT ![p].readers = @ - 1]
  BY DEF Vacate
<1> HIDE DEF p
<1>3. /\ occupancy'[p].writers = IF o \in Writers THEN occupancy[p].writers - 1 ELSE occupancy[p].writers
      /\ occupancy'[p].readers = IF o \in Writers THEN occupancy[p].readers ELSE occupancy[p].readers - 1
      /\ \A q \in Processes \ {p} : occupancy'[q] = occupancy[q]
  <2>1. CASE o \in Writers
    BY <1>1, <1>2, <2>1 DEF DirTypes
  <2>2. CASE o \notin Writers
    BY <1>1, <1>2, <2>2 DEF DirTypes
  <2> QED
    BY <2>1, <2>2
<1>4. DirTypes'
  <2>1. CASE o \in Writers
    BY <1>1, <1>2, <2>1 DEF DirTypes, OpenerPc
  <2>2. CASE o \notin Writers
    BY <1>1, <1>2, <2>2 DEF DirTypes, OpenerPc
  <2> QED
    BY <2>1, <2>2
<1>5. \A S \in SUBSET Openers :
        Cardinality(In(S)') = IF o \in S THEN Cardinality(In(S)) - 1 ELSE Cardinality(In(S))
  BY <1>1, MoveCounts DEF OpenerPc
<1>6. OccupancyCounts'
  <2> SUFFICES ASSUME NEW q \in Processes
               PROVE  /\ occupancy'[q].writers = Cardinality(In(q \cap Writers)')
                      /\ occupancy'[q].readers = Cardinality(In(q \cap Readers)')
    BY DEF OccupancyCounts, In
  <2>. DEFINE w == Cardinality(In(q \cap Writers)')
              r == Cardinality(In(q \cap Readers)')
  <2>1. /\ w = IF o \in q \cap Writers THEN occupancy[q].writers - 1 ELSE occupancy[q].writers
        /\ r = IF o \in q \cap Readers THEN occupancy[q].readers - 1 ELSE occupancy[q].readers
    BY <1>5, CountsOf, KindsOfProcess
  <2> HIDE DEF w, r
  <2>. occupancy'[q].writers = w /\ occupancy'[q].readers = r
    <3>1. CASE q = p
      BY <1>1, <1>3, <2>1, <3>1, WritersAreNotReaders DEF Openers
    <3>2. CASE q # p
      BY <1>1, <1>3, <2>1, <3>2
    <3> QED
      BY <3>1, <3>2
  <2> QED
    BY DEF w, r
<1>7. AloneInProcess'
  BY <1>1 DEF AloneInProcess, DirTypes, ProcessOf, Openers
<1>8. HeldInside' /\ AloneWithFlock'
  <2>1. Inside(o) = Inside(o)'
    BY <1>1 DEF Inside, DirTypes
  <2> QED
    BY <1>1, <2>1, MoveOnOneSide DEF OpenerPc
<1> QED
  BY <1>4, <1>6, <1>7, <1>8

LEMMA AcquireKeeps ==
  ASSUME DirInv, NEW o \in Openers, Acquire(o)
  PROVE  DirInv'
<1> DEFINE pc == IF o \in Writers THEN "probe" ELSE "open"
<1>1. /\ opener[o] = "acquire" /\ opener' = [opener EXCEPT ![o] = pc] /\ UNCHANGED occupancy
      /\ flock' = flock \cup {o}
      /\ pc \in OpenerPc \ {"closed"}
  BY DEF Acquire, Goes, OpenerPc
<1>2. DirTypes' /\ OccupancyCounts' /\ AloneInProcess'
  <2>1. flock' \subseteq Openers
    BY <1>1 DEF DirInv, DirTypes
  <2> HIDE DEF pc
  <2> QED
    BY <1>1, <2>1, MoveInside
<1>3. HeldInside'
  BY <1>1 DEF DirInv, DirTypes, HeldInside, Inside
<1>4. AloneWithFlock'
  <2> SUFFICES ASSUME NEW w \in Writers, NEW q \in Openers, w \in flock', q \in flock'
               PROVE  ProcessOf(w) = ProcessOf(q)
    BY DEF AloneWithFlock, ProcessOf
  <2>1. \A h \in flock : h \in ProcessOf(o) \/ (o \in Readers /\ h \in Readers)
    BY DEF Acquire, Compatible
  <2>2. \A h \in flock : h \in Openers /\ (h \in ProcessOf(o) => ProcessOf(h) = ProcessOf(o))
    BY ProcessOfOpener DEF DirInv, DirTypes
  <2>3. w \notin Readers
    BY WritersAreNotReaders
  <2>4. CASE w # o /\ q # o
    BY <1>1, <2>4 DEF DirInv, AloneWithFlock
  <2>5. CASE w = o \/ q = o
    BY <1>1, <2>1, <2>2, <2>3, <2>5
  <2> QED
    BY <2>4, <2>5
<1> QED
  BY <1>2, <1>3, <1>4 DEF DirInv

LEMMA UnlockKeeps ==
  ASSUME DirInv, NEW o \in Openers, Unlock(o)
  PROVE  DirInv'
<1>1. /\ opener[o] = "unlock" /\ opener' = [opener EXCEPT ![o] = "vacate"] /\ UNCHANGED occupancy
      /\ flock' = flock \ {o}
  BY DEF Unlock, Goes
<1>2. DirTypes' /\ OccupancyCounts' /\ AloneInProcess'
  <2>1. flock' \subseteq Openers
    BY <1>1 DEF DirInv, DirTypes
  <2> QED
    BY <1>1, <2>1, MoveInside DEF OpenerPc
<1>3. HeldInside'
  BY <1>1 DEF DirInv, DirTypes, HeldInside, Inside
<1>4. AloneWithFlock'
  BY <1>1 DEF DirInv, AloneWithFlock, ProcessOf
<1> QED
  BY <1>2, <1>3, <1>4 DEF DirInv

\* GiveUp, Probe, Sweep, BeginClose, EndClose and CloseReader.
LEMMA OtherMovesKeep ==
  ASSUME DirInv, NEW o \in Openers,
         GiveUp(o) \/ Probe(o) \/ Sweep(o) \/ BeginClose(o) \/ EndClose(o) \/ CloseReader(o)
  PROVE  DirInv'
<1>1. PICK pc \in OpenerPc \ {"closed"} :
        /\ opener[o] # "closed" /\ opener' = [opener EXCEPT ![o] = pc]
        /\ UNCHANGED <<occupancy, flock>>
        /\ Inside(o) <=> pc \in {"probe", "sweep", "open", "closing", "unlock"}
  BY DEF GiveUp, Probe, Sweep, BeginClose, EndClose, CloseReader, Goes, Inside, OpenerPc
<1>2. Inside(o) = Inside(o)'
  BY <1>1 DEF DirInv, DirTypes, Inside
<1>3. DirTypes' /\ OccupancyCounts' /\ AloneInProcess'
  BY <1>1, MoveInside DEF DirInv, DirTypes
<1>4. HeldInside' /\ AloneWithFlock'
  BY <1>1, <1>2, MoveOnOneSide
<1> QED
  BY <1>3, <1>4 DEF DirInv

\* Whoever dies leaves both gates; the other processes see no difference but the
\* flocks that are free again.
LEMMA KillKeeps ==
  ASSUME DirInv, NEW p \in Processes, Kill(p)
  PROVE  DirInv'
<1> USE DEF DirInv
<1>1. /\ occupancy' = [occupancy EXCEPT ![p] = Vacant] /\ flock' = flock \ p
      /\ opener' = [o \in Openers |-> IF o \in p THEN "closed" ELSE opener[o]]
  BY DEF Kill
<1>2. DirTypes'
  BY <1>1 DEF DirTypes, OpenerPc, Vacant
<1>3. OccupancyCounts'
  <2> SUFFICES ASSUME NEW q \in Processes
               PROVE  /\ occupancy'[q].writers = Cardinality(In(q \cap Writers)')
                      /\ occupancy'[q].readers = Cardinality(In(q \cap Readers)')
    BY DEF OccupancyCounts, In
  <2>1. CASE q = p
    <3>1. In(q \cap Writers)' = {} /\ In(q \cap Readers)' = {}
      BY <1>1, <2>1, KindsOfProcess DEF In
    <3>2. occupancy'[q] = Vacant
      BY <1>1, <2>1 DEF DirTypes
    <3> QED
      BY <3>1, <3>2, FS_EmptySet DEF Vacant
  <2>2. CASE q # p
    <3>1. q \cap p = {} /\ q \subseteq Openers
      BY <2>2, ProcessesPartition
    <3>2. In(q \cap Writers)' = In(q \cap Writers) /\ In(q \cap Readers)' = In(q \cap Readers)
      BY <1>1, <3>1 DEF In
    <3>3. occupancy'[q] = occupancy[q]
      BY <1>1, <2>2 DEF DirTypes
    <3>4. /\ occupancy[q].writers = Cardinality(In(q \cap Writers))
          /\ occupancy[q].readers = Cardinality(In(q \cap Readers))
      BY CountsOf
    <3> QED
      BY <3>2, <3>3, <3>4
  <2> QED
    BY <2>1, <2>2
<1>4. AloneInProcess'
  BY <1>1 DEF AloneInProcess, ProcessOf, Openers
<1>5. HeldInside'
  BY <1>1 DEF HeldInside, Inside
<1>6. AloneWithFlock'
  BY <1>1 DEF AloneWithFlock, ProcessOf
<1> QED
  BY <1>2, <1>3, <1>4, <1>5, <1>6

LEMMA DirStepKeeps == DirInv /\ [DirNext]_dirVars => DirInv'
<1> SUFFICES ASSUME DirInv, [DirNext]_dirVars PROVE DirInv'
  OBVIOUS
<1>1. ASSUME NEW o \in Openers, DirStep(o) \/ Sweep(o) \/ BeginClose(o) \/ EndClose(o)
      PROVE  DirInv'
  BY <1>1, OccupyKeeps, AcquireKeeps, UnlockKeeps, VacateKeeps, OtherMovesKeep DEF DirStep
<1>2. ASSUME NEW p \in Processes, Kill(p) PROVE DirInv'
  BY <1>2, KillKeeps
<1>3. CASE UNCHANGED dirVars
  <2>1. occupancy' = occupancy /\ flock' = flock /\ opener' = opener
    BY <1>3 DEF dirVars
  <2>2. DirTypes' /\ OccupancyCounts'
    BY <2>1 DEF DirInv, DirTypes, OccupancyCounts
  <2>3. AloneInProcess' /\ HeldInside' /\ AloneWithFlock'
    BY <2>1 DEF DirInv, AloneInProcess, HeldInside, AloneWithFlock, Inside, ProcessOf
  <2> QED
    BY <2>2, <2>3 DEF DirInv
<1> QED
  BY <1>1, <1>2, <1>3 DEF DirNext

\* Whoever is inside holds the flock: an engine there shares it at most with openers
\* of its process, and the table keeps those out.
LEMMA AloneInside == DirInv => Exclusive
BY DEF DirInv, HeldInside, AloneWithFlock, AloneInProcess, Exclusive, Inside, Openers

-----------------------------------------------------------------------------
\* Theorems about the lock

LEMMA DirSpecKeeps == DirSpec => []DirInv
<1>1. DirInit => DirInv
  BY InitiallyAlone
<1>2. DirInv /\ [DirNext]_dirVars => DirInv'
  BY DirStepKeeps
<1> QED
  BY <1>1, <1>2, PTL DEF DirSpec

\* An engine that has passed both gates of NewEngine is alone with the directory, and
\* stays so until it has left the flock, however the processes die.
THEOREM EngineIsAlone == DirSpec => []Exclusive
BY AloneInside, DirSpecKeeps, PTL

\* occupyExclusive, occupyShared and releaseOccupancy keep an exact count.
THEOREM OccupancyIsExact == DirSpec => []OccupancyCounts
<1>1. DirInv => OccupancyCounts
  BY DEF DirInv
<1> QED
  BY <1>1, DirSpecKeeps, PTL

-----------------------------------------------------------------------------
\* The whole directory

ReaderShape == reader = [o \in Readers |-> reader[o]]

\* A reader that is not open has read nothing.
ReadsWhenOpen == \A o \in Readers : opener[o] # "open" => reader[o] = NotReading

OnlyWriters == \A o \in Openers : opener[o] \in {"probe", "sweep", "closing"} => o \in Writers

EngineIsIn == engine # "down" => \E o \in Openers : WritesNow(o)

DataInv ==
  DirInv /\ TreeInv /\ ReaderShape /\ ReadsWhenOpen /\ OnlyWriters /\ EngineIsIn /\ ReaderSnapshot

-----------------------------------------------------------------------------
\* Lemmas about the whole

LEMMA StepsOfTheParts ==
  [Next]_vars => [DirNext]_dirVars /\ [TreeNext]_treeVars
<1> SUFFICES ASSUME [Next]_vars PROVE [DirNext]_dirVars /\ [TreeNext]_treeVars
  OBVIOUS
<1>1. ASSUME NEW o \in Openers, Gate(o) \/ Open(o) \/ Close(o)
      PROVE  [DirNext]_dirVars /\ [TreeNext]_treeVars
  <2>1. DirNext
    BY <1>1 DEF Gate, Open, Close, DirNext
  <2>2. TreeNext \/ UNCHANGED treeVars
    BY <1>1 DEF Gate, Open, Close, TreeNext
  <2> QED
    BY <2>1, <2>2
<1>2. ASSUME NEW p \in Processes, Killed(p) PROVE [DirNext]_dirVars /\ [TreeNext]_treeVars
  <2>1. DirNext
    BY <1>2 DEF Killed, DirNext
  <2>2. TreeNext \/ UNCHANGED treeVars
    BY <1>2 DEF Killed, TreeNext
  <2> QED
    BY <2>1, <2>2
<1>3. CASE Use
  BY <1>3 DEF Use, TreeNext
<1>4. CASE \E o \in Readers : List(o) \/ ReadMeta(o)
  BY <1>4 DEF List, ReadMeta
<1>5. CASE UNCHANGED vars
  BY <1>5 DEF vars
<1> QED
  BY <1>1, <1>2, <1>3, <1>4, <1>5 DEF Next

LEMMA PartsKeep == DataInv /\ [Next]_vars => DirInv' /\ TreeInv'
BY StepsOfTheParts, DirStepKeeps, TreeStepKeeps DEF DataInv

\* As long as a reader is open the directory stays as it is.
LEMMA OpenReaderSeesNoWrite ==
  ASSUME DataInv, [Next]_vars, NEW o \in Readers, opener[o] = "open"
  PROVE  UNCHANGED dir
<1>1. o \in Openers /\ Inside(o) /\ o \notin Writers
  BY WritersAreNotReaders DEF Openers, Inside
<1>2. \A w \in Writers : ~Inside(w)
  BY <1>1, AloneInside DEF DataInv, Exclusive
<1>3. engine = "down"
  BY <1>2 DEF DataInv, EngineIsIn, WritesNow, Inside
<1>4. CASE Use
  <2>1. CASE \E c \in Callers : CallStep(c)
    BY <2>1, CallKeeps DEF DataInv
  <2>2. ~\E r \in Runs : RunStep(r)
    BY <1>3, RunEffects DEF DataInv, TreeInv, DownIsQuiet
  <2>3. ~\E d \in Removers : RemoveStep(d)
    BY <1>3 DEF DataInv, TreeInv, DownIsQuiet, RemoveStep, DeleteTaskRun, DeleteTask, Purge,
                TryLockRun, TryLockFails, RemoveAll
  <2> QED
    BY <1>4, <2>1, <2>2, <2>3 DEF Use, TreeStep
<1>5. ASSUME NEW w \in Openers PROVE ~Open(w) /\ ~Close(w)
  BY <1>2 DEF Open, Close, Sweep, BeginClose, EndClose, Goes, Inside, DataInv, OnlyWriters
<1>6. ASSUME NEW w \in Openers, Gate(w) PROVE UNCHANGED dir
  BY <1>6 DEF Gate, treeVars
<1>7. CASE \E p \in Processes : Killed(p)
  BY <1>7 DEF Killed, Crash, files, treeVars
<1>8. CASE (\E q \in Readers : List(q) \/ ReadMeta(q)) \/ UNCHANGED vars
  BY <1>8 DEF List, ReadMeta, treeVars, vars
<1> QED
  BY <1>4, <1>5, <1>6, <1>7, <1>8 DEF Next

\* Of the openers only what matters here: who can be where after a step.
LEMMA OpenersMove ==
  ASSUME DataInv, [Next]_vars
  PROVE  OnlyWriters' /\ EngineIsIn'
<1> USE DEF DataInv
<1>1. opener \in [Openers -> OpenerPc]
  BY DEF DirInv, DirTypes
<1>2. CASE UNCHANGED dirVars /\ UNCHANGED engine
  BY <1>2 DEF dirVars, OnlyWriters, EngineIsIn, WritesNow
<1>3. ASSUME NEW o \in Openers, Gate(o) PROVE OnlyWriters' /\ EngineIsIn'
  <2>1. /\ opener' \in [Openers -> OpenerPc]
        /\ \A q \in Openers : q # o => opener'[q] = opener[q]
        /\ opener'[o] \in {"probe", "sweep", "closing"} => o \in Writers
        /\ ~WritesNow(o)
        /\ UNCHANGED engine
    BY <1>1, <1>3, WritersAreNotReaders DEF Gate, DirStep, Occupy, Acquire, GiveUp, Probe, CloseReader,
       Unlock, Vacate, Goes, OnlyWriters, WritesNow, treeVars, OpenerPc
  <2> QED
    BY <2>1 DEF OnlyWriters, EngineIsIn, WritesNow
<1>4. ASSUME NEW o \in Openers, Open(o) \/ Close(o) PROVE OnlyWriters' /\ EngineIsIn'
  <2>1. /\ o \in Writers
        /\ \A q \in Openers : q # o => opener'[q] = opener[q]
        /\ opener'[o] \in {"open", "closing"} \/ engine' = "down"
    BY <1>1, <1>4 DEF Open, Close, Sweep, BeginClose, EndClose, CloseEngine, Goes, OnlyWriters
  <2> QED
    BY <2>1 DEF OnlyWriters, EngineIsIn, WritesNow
<1>5. ASSUME NEW p \in Processes, Killed(p) PROVE OnlyWriters' /\ EngineIsIn'
  <2>1. opener' = [o \in Openers |-> IF o \in p THEN "closed" ELSE opener[o]]
    BY <1>5 DEF Killed, Kill
  <2>2. (\E o \in p : WritesNow(o)) => engine' = "down"
    BY <1>5 DEF Killed, Crash
  <2>3. ~(\E o \in p : WritesNow(o)) => engine' = engine
    BY <1>5 DEF Killed, treeVars
  <2> QED
    BY <2>1, <2>2, <2>3 DEF OnlyWriters, EngineIsIn, WritesNow
<1>6. CASE Use
  <2>1. UNCHANGED engine
    BY <1>6, CallKeeps, RunEffects, Begins, Locks, GivesBack DEF Use, TreeStep, RemoveStep, CallStep,
       Call, Scan, Peek, MakeID, Check, Register, callerOnly
  <2> QED
    BY <1>2, <1>6, <2>1 DEF Use
<1>7. CASE (\E q \in Readers : List(q) \/ ReadMeta(q)) \/ UNCHANGED vars
  BY <1>2, <1>7 DEF List, ReadMeta, treeVars, vars
<1> QED
  BY <1>3, <1>4, <1>5, <1>6, <1>7 DEF Next

\* Each reader keeps what it has, loses it with the directory, or reads on.
LEMMA ReadersRead ==
  ASSUME DataInv, [Next]_vars
  PROVE  /\ ReaderShape' /\ ReadsWhenOpen'
         /\ \A o \in Readers : \A seen \in reader'[o].got :
              seen \in reader[o].got \/ (opener[o] = "open" /\ dir[seen[1]].meta = seen[2])
<1> USE DEF DataInv
<1>1. opener \in [Openers -> OpenerPc]
  BY DEF DirInv, DirTypes
<1>2. CASE ReadersLeave
  <2>1. \A o \in Readers : reader'[o] = reader[o] \/ reader'[o].got = {}
    BY <1>2 DEF ReadersLeave, NotReading
  <2> QED
    BY <1>2, <2>1 DEF ReadersLeave, ReaderShape, ReadsWhenOpen
<1>3. ASSUME UNCHANGED reader, \A o \in Readers : opener[o] = "open" => opener'[o] = "open"
      PROVE  ReaderShape' /\ ReadsWhenOpen'
  BY <1>3 DEF ReaderShape, ReadsWhenOpen
<1>4. ASSUME NEW o \in Openers, Open(o) \/ Close(o)
      PROVE  UNCHANGED reader /\ \A q \in Readers : opener[q] = "open" => opener'[q] = "open"
  BY <1>1, <1>4, WritersAreNotReaders DEF Open, Close, Sweep, BeginClose, EndClose, Goes, OnlyWriters, Openers
<1>5. CASE Use \/ UNCHANGED vars
  BY <1>3, <1>5 DEF Use, vars, dirVars
<1>6. ASSUME NEW o \in Readers, List(o) \/ ReadMeta(o)
      PROVE  /\ ReaderShape' /\ ReadsWhenOpen'
             /\ \A q \in Readers : \A seen \in reader'[q].got :
                  seen \in reader[q].got \/ (opener[q] = "open" /\ dir[seen[1]].meta = seen[2])
  <2>1. opener[o] = "open" /\ UNCHANGED opener
    BY <1>6 DEF List, ReadMeta, ReadsWhenOpen, NotReading, dirVars
  <2>2. PICK rec : /\ reader' = [reader EXCEPT ![o] = rec]
                   /\ \A seen \in rec.got : seen \in reader[o].got \/ dir[seen[1]].meta = seen[2]
    <3>1. CASE List(o)
      <4>1. reader' = [reader EXCEPT ![o] = [NotReading EXCEPT !.todo = Listing]]
        BY <3>1 DEF List
      <4>2. [NotReading EXCEPT !.todo = Listing].got = {}
        BY DEF NotReading
      <4> QED
        BY <4>1, <4>2
    <3>2. CASE ReadMeta(o)
      <4> DEFINE r == Head(reader[o].todo)
                 rec == [todo |-> Tail(reader[o].todo),
                         got |-> reader[o].got \cup {<<r, dir[r].meta>>}]
      <4>1. reader' = [reader EXCEPT ![o] = rec]
        BY <3>2 DEF ReadMeta
      <4>2. \A seen \in rec.got : seen \in reader[o].got \/ dir[seen[1]].meta = seen[2]
        OBVIOUS
      <4> HIDE DEF rec
      <4> QED
        BY <4>1, <4>2
    <3> QED
      BY <1>6, <3>1, <3>2
  <2>3. ReaderShape' /\ reader'[o] = rec /\ \A q \in Readers \ {o} : reader'[q] = reader[q]
    BY <2>2 DEF ReaderShape
  <2> QED
    BY <2>1, <2>2, <2>3 DEF ReadsWhenOpen
<1> QED
  BY <1>2, <1>3, <1>4, <1>5, <1>6 DEF Next, Gate, Killed, Use, vars

LEMMA DataStepKeeps == DataInv /\ [Next]_vars => DataInv'
<1> SUFFICES ASSUME DataInv, [Next]_vars PROVE DataInv'
  OBVIOUS
<1>1. ReaderSnapshot'
  <2> SUFFICES ASSUME NEW o \in Readers, NEW seen \in reader'[o].got PROVE dir'[seen[1]].meta = seen[2]
    BY DEF ReaderSnapshot
  <2>1. opener[o] = "open" /\ dir[seen[1]].meta = seen[2]
    BY ReadersRead DEF DataInv, ReadsWhenOpen, NotReading, ReaderSnapshot
  <2>2. UNCHANGED dir
    BY <2>1, OpenReaderSeesNoWrite
  <2> QED
    BY <2>1, <2>2
<1> QED
  BY <1>1, PartsKeep, OpenersMove, ReadersRead DEF DataInv

LEMMA InitiallyNoneReads == Init => DataInv
<1> SUFFICES ASSUME Init PROVE DataInv
  OBVIOUS
<1>1. DirInv /\ TreeInv
  BY InitiallyAlone, InitiallyQuiet DEF Init
<1>2. ReaderShape /\ ReadsWhenOpen /\ ReaderSnapshot
  BY DEF Init, ReaderShape, ReadsWhenOpen, ReaderSnapshot, NotReading
<1>3. OnlyWriters /\ EngineIsIn
  BY DEF Init, DirInit, TreeInit, OnlyWriters, EngineIsIn
<1> QED
  BY <1>1, <1>2, <1>3 DEF DataInv

LEMMA SpecKeeps == Spec => []DataInv
BY InitiallyNoneReads, DataStepKeeps, PTL DEF Spec

-----------------------------------------------------------------------------
\* Theorems about the whole

\* Composed, the parts behave as each does alone: opening, closing and killing act on
\* both, and neither sees more of it than its own specification allows.
THEOREM PartsHold == Spec => DirSpec /\ TreeSpec
<1>1. Init => DirInit /\ TreeInit
  BY DEF Init
<1> QED
  BY <1>1, StepsOfTheParts, PTL DEF Spec, DirSpec, TreeSpec

\* While a read-only engine is open nobody writes to the directory: ListTasks, which
\* reads meta.json after meta.json, returns a state the directory was in.
THEOREM ReadersSeeOneState == Spec => []ReaderSnapshot
<1>1. DataInv => ReaderSnapshot
  BY DEF DataInv
<1> QED
  BY <1>1, SpecKeeps, PTL

\* The properties of the parts, of the whole: an engine that is inside is alone, the
\* table of each process counts its openers, no run loses a file under its goroutine
\* but to a DeleteTask that had not listed it, RunTask and purges keep their order, and
\* a purge spares active runs.
THEOREM WholeKeepsParts ==
  Spec => /\ []Exclusive /\ []OccupancyCounts /\ ListedSpared
          /\ OldestResumed /\ PurgeOldestFirst /\ PurgeSparesActive
BY PartsHold, EngineIsAlone, OccupancyIsExact, GoroutineKeepsItsRun, OldestIsResumed, OldestIsPurged,
   ActiveIsNotPurged, PTL
=============================================================================
