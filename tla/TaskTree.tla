------------------------------ MODULE TaskTree ------------------------------
(***************************************************************************)
(* The run directories of one task and the calls that make, end and remove *)
(* runs, beside each other:                                                *)
(*                                                                         *)
(*   - RunTask with and without a run ID (RunTask, resolveRunID), and the  *)
(*     goroutine it starts, reduced to what it does to the directory;      *)
(*   - DeleteTaskRun, DeleteTask, and a pass of the auto-purger;           *)
(*   - the engine's opening, which sweeps orphans, its Close, and a crash. *)
(*                                                                         *)
(* Runs are their IDs, numbered in the order ULIDs are made, which is the  *)
(* order scanRuns lists them in. A run lock is its owner: RunLocks models  *)
(* the table of them. A failing write or RemoveAll (MaxFaults) may have    *)
(* taken effect in part.                                                   *)
(***************************************************************************)
EXTENDS Naturals, Sequences, SequencesExt

CONSTANTS MaxRuns,    \* ULIDs made
          Callers,    \* RunTask calls under way at one time
          Removers,   \* DeleteTaskRun, DeleteTask and purge calls likewise
          KeepRuns,   \* autoPurgeMaxRuns; 0: no cap
          Executor,   \* the owner of a run's lock that is its goroutine
          Nobody,
          MaxCalls,   \* bound: calls made, of RunTask and of the rest together
          MaxFaults   \* bound: writes and removals that fail

Runs == 1..MaxRuns

ASSUME TreeBounds == /\ MaxRuns \in Nat /\ KeepRuns \in Nat /\ MaxFaults \in Nat
                     /\ MaxCalls \in Nat
ASSUME OwnersDiffer == Executor \notin Removers /\ Nobody \notin Removers /\ Executor # Nobody
ASSUME CallersAreNotRemovers == Callers \cap Removers = {}

VARIABLES
  dir,      \* run directories: there at all, status in meta.json, journal.log
  ended,    \* runs with a terminal meta.json, by UpdatedAt
  made,     \* number of ULIDs made
  engine,   \* "down", "up", "closing" (stopCh closed)
  exec,     \* the goroutine of each registered run (runCancels)
  owner,    \* who holds each run's lock
  caller,   \* RunTask calls
  steady,   \* history: runs active ever since a RunTask call listed the runs, or
            \* terminal ever since a purge did
  remover,  \* calls that remove runs
  used      \* how much of the environment's bounds is used up

treeVars == <<dir, ended, made, engine, exec, owner, caller, steady, remover, used>>

Status == {"none", "running", "waiting", "completed", "failed"}
Terminal == {"completed", "failed"}
Gone == [there |-> FALSE, meta |-> "none", journal |-> FALSE]
ExecPc == {"off", "lock", "load", "run", "compact"}

NoCall == [pc |-> "idle", ids |-> {}, id |-> 0]
\* todo: runs still to lock or to delete; held: those locked. Of a purge: how many
\* of todo are beyond its age, terminal runs that remain, candidates it left alone
NoRemoval == [kind |-> "run", pc |-> "idle", todo |-> <<>>, held |-> {}, aged |-> 0,
              remain |-> 0, kept |-> {}]

TreeTypeOK ==
  /\ dir \in [Runs -> [there : BOOLEAN, meta : Status, journal : BOOLEAN]]
  /\ \A r \in Runs : dir[r].there \/ dir[r] = Gone
  /\ ended \in Seq(Runs)
  /\ \A r \in Runs : dir[r].meta \in Terminal <=> \E i \in DOMAIN ended : ended[i] = r
  /\ made \in 0..MaxRuns
  /\ engine \in {"down", "up", "closing"}
  /\ exec \in [Runs -> [pc : ExecPc, barred : BOOLEAN]]
  /\ owner \in [Runs -> Removers \cup {Executor, Nobody}]
  /\ caller \in [Callers -> [pc : {"idle", "scan", "peek", "check", "register"},
                             ids : SUBSET Runs, id : Runs \cup {0}]]
  /\ steady \in [Callers \cup Removers -> SUBSET Runs]
  /\ remover \in [Removers -> [kind : {"run", "task", "purge"}, pc : {"idle", "lock", "remove"},
                               todo : Seq(Runs), held : SUBSET Runs, aged : Nat,
                               remain : Nat, kept : SUBSET Runs]]
  /\ used \in [faults : 0..MaxFaults, calls : 0..MaxCalls]

TreeInit ==
  /\ dir = [r \in Runs |-> Gone]
  /\ ended = <<>>
  /\ made = 0
  /\ engine = "down"
  /\ exec = [r \in Runs |-> [pc |-> "off", barred |-> FALSE]]
  /\ owner = [r \in Runs |-> Nobody]
  /\ caller = [c \in Callers |-> NoCall]
  /\ steady = [x \in Callers \cup Removers |-> {}]
  /\ remover = [d \in Removers |-> NoRemoval]
  /\ used = [faults |-> 0, calls |-> 0]

files == <<dir, ended>>

There == {r \in Runs : dir[r].there}
Active(r) == dir[r].meta \in {"running", "waiting"}
Ended(r) == dir[r].meta \in Terminal

Precedes(seq, q, r) == \E i, j \in DOMAIN seq : i < j /\ seq[i] = q /\ seq[j] = r

\* The runs of seq that are not gone, in the order they have there.
Without(seq, gone) == {rest \in SetToSeqs(Range(seq) \ gone) :
                         \A q, r \in Runs : Precedes(rest, q, r) => Precedes(seq, q, r)}

\* scanRuns: run directories in the order of their names.
Listing == SelectSeq([r \in Runs |-> r], LAMBDA r : r \in There)

Begin == used.calls < MaxCalls /\ used' = [used EXCEPT !.calls = @ + 1]
Fault == used.faults < MaxFaults /\ used' = [used EXCEPT !.faults = @ + 1]

-----------------------------------------------------------------------------
\* RunTask

GoesTo(c, pc) == caller' = [caller EXCEPT ![c].pc = pc]
callerOnly == <<files, engine, exec, owner, remover>>

\* With a run ID the call starts from meta.json, without one from a listing.
Call(c) ==
  /\ engine = "up" /\ caller[c].pc = "idle" /\ Begin
  /\ \/ GoesTo(c, "scan")
     \/ \E id \in 1..made : caller' = [caller EXCEPT ![c].pc = "check", ![c].id = id]
  /\ UNCHANGED <<callerOnly, made>>

\* resolveRunID
Scan(c) ==
  /\ caller[c].pc = "scan"
  /\ caller' = [caller EXCEPT ![c].pc = "peek", ![c].ids = There]
  /\ UNCHANGED <<callerOnly, made, used>>

\* As it would be if a suspended run did not count as active.
IsRunning(r) == dir[r].meta = "running"

Resumable(r) == Active(r)

\* loadMeta of the next run listed: the first active one is resumed.
Peek(c) ==
  /\ caller[c].pc = "peek"
  /\ \E r \in caller[c].ids :
       /\ \A q \in caller[c].ids : r <= q
       /\ \/ Resumable(r) /\ caller' = [caller EXCEPT ![c] = [NoCall EXCEPT !.pc = "check", !.id = r]]
          \/ ~Resumable(r) /\ caller' = [caller EXCEPT ![c].ids = @ \ {r}]
  /\ UNCHANGED <<callerOnly, made, used>>

\* None is active: a new ULID.
MakeID(c) ==
  /\ caller[c].pc = "peek" /\ caller[c].ids = {} /\ made < MaxRuns
  /\ made' = made + 1
  /\ caller' = [caller EXCEPT ![c].pc = "check", ![c].id = made + 1]
  /\ UNCHANGED <<callerOnly, used>>

\* The stored result of a run that has ended is returned at once.
Check(c) ==
  /\ caller[c].pc = "check"
  /\ caller' = [caller EXCEPT ![c] = IF Ended(@.id) THEN NoCall
                                     ELSE [@ EXCEPT !.pc = "register"]]
  /\ UNCHANGED <<callerOnly, made, used>>

\* Under e.mu: ErrEngineClosed, the handle of a run that is registered, or a new
\* goroutine. RunTask returns.
Register(c) ==
  /\ caller[c].pc = "register"
  /\ caller' = [caller EXCEPT ![c] = NoCall]
  /\ exec' = IF engine = "up" /\ exec[caller[c].id].pc = "off"
             THEN [exec EXCEPT ![caller[c].id] = [pc |-> "lock", barred |-> FALSE]] ELSE exec
  /\ UNCHANGED <<files, made, engine, owner, remover, used>>

-----------------------------------------------------------------------------
\* The goroutine of a run

execOnly == <<made, engine, caller, remover>>
Ends(r) == [exec EXCEPT ![r] = [pc |-> "off", barred |-> FALSE]]

\* As it would be if the goroutine did not wait for the mutex.
LockAtOnce(r) ==
  /\ exec[r].pc = "lock"
  /\ owner' = [owner EXCEPT ![r] = Executor]
  /\ exec' = [exec EXCEPT ![r] = [pc |-> "load", barred |-> FALSE]]
  /\ UNCHANGED <<files, execOnly, used>>

LockRun(r) ==
  /\ exec[r].pc = "lock" /\ owner[r] = Nobody
  /\ owner' = [owner EXCEPT ![r] = Executor]
  /\ exec' = [exec EXCEPT ![r] = [pc |-> "load", barred |-> FALSE]]
  /\ UNCHANGED <<files, execOnly, used>>

\* It waited for the mutex while a delete succeeded: tombstone, ErrRunActive.
LockRefused(r) ==
  /\ exec[r].pc = "lock" /\ exec[r].barred /\ owner[r] = Nobody
  /\ exec' = Ends(r)
  /\ UNCHANGED <<files, owner, execOnly, used>>

Leaves(r) == exec' = Ends(r) /\ owner' = [owner EXCEPT ![r] = Nobody]

\* executeRun, to the call of the task: nothing to do for a run that has ended;
\* else meta.json says running. An error may come before that, at it or after.
LoadRun(r) ==
  /\ exec[r].pc = "load"
  /\ \/ /\ Ended(r)
        /\ Leaves(r)
        /\ UNCHANGED <<dir, used>>
     \/ /\ ~Ended(r)
        /\ dir' = [dir EXCEPT ![r] = [@ EXCEPT !.there = TRUE, !.meta = "running"]]
        /\ exec' = [exec EXCEPT ![r].pc = "run"]
        /\ UNCHANGED <<owner, used>>
     \/ /\ ~Ended(r) /\ Fault
        /\ \E left \in {dir[r], [dir[r] EXCEPT !.there = TRUE],
                       [dir[r] EXCEPT !.there = TRUE, !.meta = "running"]} :
             dir' = [dir EXCEPT ![r] = left]
        /\ Leaves(r)
  /\ UNCHANGED <<ended, execOnly>>

\* appendFrame opens the journal, and makes the directory for it, or goes through
\* a handle that is open, which is of no use when the file has been removed.
AppendRun(r) ==
  /\ exec[r].pc = "run"
  /\ dir' = [dir EXCEPT ![r] = [@ EXCEPT !.there = TRUE, !.journal = TRUE]]
  /\ UNCHANGED <<ended, owner, exec, execOnly, used>>

\* setRunStatus, by addWaiting and leaveWaiting: an error without meta.json.
SetRunStatus(r) ==
  /\ exec[r].pc = "run" /\ Active(r)
  /\ dir' = [dir EXCEPT ![r].meta = IF @ = "running" THEN "waiting" ELSE "running"]
  /\ UNCHANGED <<ended, owner, exec, execOnly, used>>

\* The task returns: a terminal meta.json, made anew if there is none any more. If
\* output.json or meta.json of a success cannot be written the run stays active;
\* a failure is compacted all the same.
FinishRun(r) ==
  /\ exec[r].pc = "run"
  /\ \/ /\ \E st \in Terminal : dir' = [dir EXCEPT ![r] = [@ EXCEPT !.there = TRUE, !.meta = st]]
        /\ \E rest \in Without(ended, {r}) : ended' = Append(rest, r)
        /\ exec' = [exec EXCEPT ![r].pc = "compact"]
        /\ UNCHANGED <<owner, used>>
     \/ /\ Fault
        /\ dir' = [dir EXCEPT ![r].there = TRUE]
        /\ Leaves(r) \/ (exec' = [exec EXCEPT ![r].pc = "compact"] /\ UNCHANGED owner)
        /\ UNCHANGED ended
  /\ UNCHANGED execOnly

\* compactJournal writes a journal whether there was one or not; then the deferred
\* calls give the lock back and take the handle out of runCancels.
CompactRun(r) ==
  /\ exec[r].pc = "compact"
  /\ dir' = [dir EXCEPT ![r] = [@ EXCEPT !.there = TRUE, !.journal = TRUE]]
  /\ Leaves(r)
  /\ UNCHANGED <<ended, execOnly, used>>

-----------------------------------------------------------------------------
\* Removing runs

removerOnly == <<made, engine, caller>>

DeleteTaskRun(d, r) ==
  /\ engine # "down" /\ remover[d].pc = "idle" /\ Begin
  /\ remover' = [remover EXCEPT ![d] = [NoRemoval EXCEPT !.pc = "lock", !.todo = <<r>>]]
  /\ UNCHANGED <<files, exec, owner, removerOnly>>

\* The runs to lock are those listed now.
DeleteTask(d) ==
  /\ engine # "down" /\ remover[d].pc = "idle" /\ Begin
  /\ remover' = [remover EXCEPT ![d] =
       [NoRemoval EXCEPT !.kind = "task", !.pc = IF Listing = <<>> THEN "remove" ELSE "lock",
                         !.todo = Listing]]
  /\ UNCHANGED <<files, exec, owner, removerOnly>>

\* As it would be if the candidates were not sorted.
ByID == SelectSeq(Listing, LAMBDA r : Ended(r))

\* The terminal runs, oldest first.
ByAge == ended

\* After its age a purge goes by the cap. Both fall to the oldest first, so the
\* first run that need not go ends the pass. The cap in bytes is not modelled.
Drops(aged, remain) == aged > 0 \/ (KeepRuns > 0 /\ remain > KeepRuns)

\* purge: one pass at a time, which Close waits for. The walk is one step.
Purge(d) ==
  /\ engine # "down" /\ remover[d].pc = "idle" /\ Begin
  /\ \A e \in Removers : remover[e].pc # "idle" => remover[e].kind # "purge"
  /\ \E aged \in 0..Len(ByAge) :
       /\ ByAge # <<>> /\ Drops(aged, Len(ByAge))
       /\ remover' = [remover EXCEPT ![d] =
            [NoRemoval EXCEPT !.kind = "purge", !.pc = "lock", !.todo = ByAge,
                              !.aged = aged, !.remain = Len(ByAge)]]
  /\ UNCHANGED <<files, exec, owner, removerOnly>>

Next1(d) == Head(remover[d].todo)
Rest(d) == Tail(remover[d].todo)

\* After a run that could not be locked or removed, or one that was: only a purge
\* goes on to another.
Proceed(d, remain, kept) ==
  LET aged == IF remover[d].aged > 0 THEN remover[d].aged - 1 ELSE 0 IN
  IF remover[d].kind = "purge" /\ Rest(d) # <<>> /\ Drops(aged, remain)
  THEN [remover EXCEPT ![d] = [NoRemoval EXCEPT !.kind = "purge", !.pc = "lock", !.todo = Rest(d),
                                                !.aged = aged, !.remain = remain, !.kept = kept]]
  ELSE [remover EXCEPT ![d] = NoRemoval]

\* As it would be if a purge removed what it found in its listing without a lock.
LockAnyway(d) ==
  /\ remover[d].pc = "lock"
  /\ remover[d].kind = "purge"
  /\ remover' = [remover EXCEPT ![d].pc = "remove"]
  /\ UNCHANGED <<files, exec, owner, removerOnly, used>>

\* tryLockRun
TryLockRun(d) ==
  /\ remover[d].pc = "lock" /\ owner[Next1(d)] = Nobody
  /\ owner' = [owner EXCEPT ![Next1(d)] = d]
  /\ remover' = [remover EXCEPT
       ![d] = [remover[d] EXCEPT
                 !.held = @ \cup {Next1(d)},
                 !.todo = IF remover[d].kind = "task" THEN Rest(d) ELSE @,
                 !.pc = IF remover[d].kind = "task" /\ Rest(d) # <<>> THEN "lock" ELSE "remove"]]
  /\ UNCHANGED <<files, exec, removerOnly, used>>

Released(d) == [r \in Runs |-> IF owner[r] = d THEN Nobody ELSE owner[r]]

\* ErrRunActive: DeleteTask gives back what it holds, a purge keeps the run.
TryLockFails(d) ==
  /\ remover[d].pc = "lock" /\ owner[Next1(d)] # Nobody
  /\ owner' = Released(d)
  /\ remover' = Proceed(d, remover[d].remain, remover[d].kept \cup {Next1(d)})
  /\ UNCHANGED <<files, exec, removerOnly, used>>

\* RemoveAll of the run's directory, or of the task's with every run in it; then
\* the locks are tombstoned and given back. When it fails, part of it is gone.
Targets(d) == IF remover[d].kind = "task" THEN Runs ELSE {Next1(d)}

Remnants(r) == {Gone, [dir[r] EXCEPT !.meta = "none"], [dir[r] EXCEPT !.journal = FALSE], dir[r]}

RemoveAll(d) ==
  /\ remover[d].pc = "remove"
  /\ \/ /\ dir' = [r \in Runs |-> IF r \in Targets(d) THEN Gone ELSE dir[r]]
        /\ exec' = [r \in Runs |-> IF r \in remover[d].held THEN [exec[r] EXCEPT !.barred = exec[r].pc = "lock"]
                                   ELSE exec[r]]
        /\ remover' = Proceed(d, remover[d].remain - 1, remover[d].kept)
        /\ UNCHANGED used
     \/ /\ Fault
        /\ \E r \in Targets(d) : \E left \in Remnants(r) : dir' = [dir EXCEPT ![r] = left]
        /\ remover' = Proceed(d, remover[d].remain, remover[d].kept \cup Targets(d))
        /\ UNCHANGED exec
  /\ ended' \in Without(ended, {r \in Runs : dir'[r].meta \notin Terminal})
  /\ owner' = Released(d)
  /\ UNCHANGED removerOnly

-----------------------------------------------------------------------------
\* The engine

\* sweepOrphanRunDirs removes a directory with neither meta.json nor a journal.
Orphan(r) == dir[r].meta = "none" /\ ~dir[r].journal

OpenEngine ==
  /\ engine = "down"
  /\ engine' = "up"
  /\ dir' = [r \in Runs |-> IF Orphan(r) THEN Gone ELSE dir[r]]
  /\ UNCHANGED <<ended, made, exec, owner, caller, remover, used>>

StopEngine ==
  /\ engine = "up"
  /\ engine' = "closing"
  /\ UNCHANGED <<files, made, exec, owner, caller, remover, used>>

\* As it would be if Close waited for no run.
CloseAtOnce ==
  /\ engine = "closing"
  /\ engine' = "down"
  /\ caller' = [c \in Callers |-> NoCall]
  /\ UNCHANGED <<files, made, exec, owner, remover, used>>

\* runs.Wait: the goroutines of the runs and the purger have returned. It does not
\* wait for calls of DeleteTaskRun and DeleteTask: that clients let these return
\* first is an assumption. A RunTask call can only fail from here on.
CloseEngine ==
  /\ engine = "closing"
  /\ \A r \in Runs : exec[r].pc = "off"
  /\ \A d \in Removers : remover[d].pc = "idle"
  /\ engine' = "down"
  /\ caller' = [c \in Callers |-> NoCall]
  /\ UNCHANGED <<files, made, exec, owner, remover, used>>

Crash ==
  /\ engine' = "down"
  /\ exec' = [r \in Runs |-> [pc |-> "off", barred |-> FALSE]]
  /\ owner' = [r \in Runs |-> Nobody]
  /\ caller' = [c \in Callers |-> NoCall]
  /\ remover' = [d \in Removers |-> NoRemoval]
  /\ UNCHANGED <<files, made, used>>

-----------------------------------------------------------------------------
CallStep(c) == Call(c) \/ Scan(c) \/ Peek(c) \/ MakeID(c) \/ Check(c) \/ Register(c)
RunStep(r) == \/ LockRun(r) \/ LockRefused(r) \/ LoadRun(r) \/ AppendRun(r) \/ SetRunStatus(r)
              \/ FinishRun(r) \/ CompactRun(r)
RemoveStep(d) == \/ (\E r \in Runs : DeleteTaskRun(d, r))
                 \/ DeleteTask(d) \/ Purge(d)
                 \/ TryLockRun(d) \/ TryLockFails(d) \/ RemoveAll(d)

TreeStep == \/ (\E c \in Callers : CallStep(c))
            \/ (\E r \in Runs : RunStep(r))
            \/ \E d \in Removers : RemoveStep(d)

Observe ==
  steady' = [x \in Callers \cup Removers |->
    IF x \in Callers
    THEN {r \in Runs : /\ caller'[x].pc = "peek" /\ Active(r) /\ Active(r)'
                       /\ (caller[x].pc = "peek" => r \in steady[x])}
    ELSE {r \in Runs : /\ remover'[x].kind = "purge" /\ Ended(r) /\ Ended(r)'
                       /\ (remover[x].kind = "purge" => r \in steady[x])}]

TreeNext == (TreeStep \/ OpenEngine \/ StopEngine \/ CloseEngine \/ Crash) /\ Observe

TreeSpec == TreeInit /\ [][TreeNext]_treeVars

-----------------------------------------------------------------------------
\* Properties

\* task.go:347-348 ("an empty runID to resume the oldest active run"): RunTask
\* looks at one run after the other while runs suspend, resume and go; it takes no
\* run younger than one that has been active since its listing, and makes no new
\* one beside it.
OldestResumed ==
  [][\A c \in Callers :
       caller[c].pc = "peek" /\ caller'[c].pc = "check" =>
         \A r \in steady[c] : caller'[c].id <= r]_treeVars

\* At this step a purge removes r.
Purged(d, r) == /\ remover[d].kind = "purge" /\ remover[d].pc = "remove" /\ Next1(d) = r
                /\ dir[r].there /\ ~dir'[r].there

\* engine.go:385 ("the oldest terminal runs"): of two runs that have both been
\* terminal since its walk, a purge removes the younger only after it tried the
\* older.
PurgeOldestFirst ==
  [][\A d \in Removers, r \in Runs :
       Purged(d, r) /\ r \in steady[d] =>
         \A q \in steady[d] : Precedes(ended, q, r) => q \in remover[d].kept]_treeVars

\* engine.go:387 ("Running and Waiting runs are never purged"), though the purge
\* goes by what it read in its walk, and a run may have been deleted and begun
\* anew since. After an I/O error this is not so: such a run may be left Running
\* with nobody holding its lock.
PurgeSparesActive ==
  [][\A d \in Removers, r \in Runs : Purged(d, r) /\ used.faults = 0 => ~Active(r)]_treeVars

\* Nothing of a run disappears from under the goroutine that executes it, except
\* by a DeleteTask that did not find it when it listed the runs.
ListedSpared ==
  [][\A r \in Runs :
       /\ exec[r].pc \in {"load", "run", "compact"}
       /\ \/ dir[r].journal /\ ~dir'[r].journal
          \/ dir[r].meta # "none" /\ dir'[r].meta = "none"
       => \E d \in Removers : /\ remover[d].kind = "task" /\ remover[d].pc = "remove"
                              /\ r \notin remover[d].held]_treeVars
=============================================================================
