------------------------------ MODULE RunLocks ------------------------------
(***************************************************************************)
(* The run locks of one run (engine.go): a map from the run's key to a     *)
(* mutex with a reference count and a tombstone, taken by                  *)
(*                                                                         *)
(*   - the goroutine of RunTask (lockRun), for the run's whole execution;  *)
(*     runCancels admits one of them at a time;                            *)
(*   - DeleteTaskRun, and DeleteTask for each of its runs (tryLockRun).    *)
(*                                                                         *)
(* Every atomic operation of the code is a step: LoadOrStore, refs.Add,    *)
(* Lock, deleted.Load, Delete. A lock that neither the map nor an actor    *)
(* refers to is garbage, and its name is used again for a new one, so the  *)
(* number of calls is not bounded.                                         *)
(***************************************************************************)
EXTENDS Naturals, FiniteSets

CONSTANTS Runners,   \* RunTask callers
          Deleters,  \* DeleteTaskRun callers
          Locks,     \* names of runLock objects
          None       \* no lock, no actor

Actors == Runners \cup Deleters

ASSUME DisjointActors == Runners \cap Deleters = {}
ASSUME NoneIsNeither == None \notin Actors \cup Locks
ASSUME FiniteActors == IsFiniteSet(Actors)

VARIABLES
  runLocks,   \* the lock the map has for the key, or None
  lock,       \* the runLock objects: holder of mu, refs, deleted
  actor,      \* each call: where it is, its lock, the lock dropIdleRunLock found
  registered  \* runCancels: the RunTask call whose goroutine is alive, or None

vars == <<runLocks, lock, actor, registered>>

Pc == {"idle", "load", "ref", "acquire", "check", "own", "mark",
       "drop", "peek", "try", "recheck", "delete", "unlock", "unref", "tomb", "remove", "end"}

NewLock == [holder |-> None, refs |-> 0, deleted |-> FALSE]

TypeOK ==
  /\ runLocks \in Locks \cup {None}
  /\ lock \in [Locks -> [holder : Actors \cup {None}, refs : Nat, deleted : BOOLEAN]]
  /\ actor \in [Actors -> [pc : Pc, lock : Locks \cup {None}, found : Locks \cup {None}]]
  /\ registered \in Runners \cup {None}

Idle == [pc |-> "idle", lock |-> None, found |-> None]

Init ==
  /\ runLocks = None
  /\ lock = [l \in Locks |-> NewLock]
  /\ actor = [a \in Actors |-> Idle]
  /\ registered = None

Mine(a) == lock[actor[a].lock]
At(a, pc) == actor[a].pc = pc
Go(a, pc) == actor' = [actor EXCEPT ![a].pc = pc]

-----------------------------------------------------------------------------
\* acquireRunLock

\* RunTask registers its handle before its goroutine takes the lock; a call that
\* finds one registered joins that run and takes no lock.
Begin(a) ==
  /\ At(a, "idle")
  /\ a \in Runners => registered = None
  /\ registered' = IF a \in Runners THEN a ELSE registered
  /\ Go(a, "load")
  /\ UNCHANGED <<runLocks, lock>>

Garbage(l) == /\ l # runLocks
              /\ \A a \in Actors : actor[a].lock # l /\ actor[a].found # l

\* runLocks.LoadOrStore
LoadOrStore(a) ==
  /\ At(a, "load")
  /\ \/ /\ runLocks # None
        /\ actor' = [actor EXCEPT ![a] = [@ EXCEPT !.pc = "ref", !.lock = runLocks]]
        /\ UNCHANGED <<runLocks, lock>>
     \/ /\ runLocks = None
        /\ \E l \in Locks : Garbage(l)
        /\ LET l == CHOOSE l \in Locks : Garbage(l) IN
           /\ lock' = [lock EXCEPT ![l] = NewLock]
           /\ runLocks' = l
           /\ actor' = [actor EXCEPT ![a] = [@ EXCEPT !.pc = "ref", !.lock = l]]
  /\ UNCHANGED registered

AddRef(a) ==
  /\ At(a, "ref")
  /\ lock' = [lock EXCEPT ![actor[a].lock].refs = @ + 1]
  /\ Go(a, "acquire")
  /\ UNCHANGED <<runLocks, registered>>

\* mu.Lock for RunTask, mu.TryLock for the others.
Acquire(a) ==
  /\ At(a, "acquire") /\ Mine(a).holder = None
  /\ lock' = [lock EXCEPT ![actor[a].lock].holder = a]
  /\ Go(a, "check")
  /\ UNCHANGED <<runLocks, registered>>

\* As it would be if a failed TryLock kept its reference.
KeepRef(a) ==
  /\ a \in Deleters
  /\ At(a, "acquire") /\ Mine(a).holder # None
  /\ Go(a, "end")
  /\ UNCHANGED <<runLocks, lock, registered>>

TryFails(a) ==
  /\ a \in Deleters
  /\ At(a, "acquire") /\ Mine(a).holder # None
  /\ Go(a, "unref")
  /\ UNCHANGED <<runLocks, lock, registered>>

\* As it would be if the tombstone were not looked at again under the mutex.
IgnoreTombstone(a) == FALSE

Tombstoned(a) == Mine(a).deleted

\* A tombstoned lock is given back: the caller gets ErrRunActive.
CheckDeleted(a) ==
  /\ At(a, "check")
  /\ IF Tombstoned(a)
     THEN /\ lock' = [lock EXCEPT ![actor[a].lock].holder = None]
          /\ Go(a, "unref")
     ELSE Go(a, "own") /\ UNCHANGED lock
  /\ UNCHANGED <<runLocks, registered>>

-----------------------------------------------------------------------------
\* What the owner does

\* executeRun returns; the deferred calls begin with dropIdleRunLock.
RunEnds(a) ==
  /\ a \in Runners /\ At(a, "own")
  /\ Go(a, "drop")
  /\ UNCHANGED <<runLocks, lock, registered>>

\* As it would be if a failed RemoveAll returned ahead of the deferred unlock.
FailHoldingLock(a) ==
  /\ a \in Deleters /\ At(a, "own")
  /\ Go(a, "mark") \/ Go(a, "unref")
  /\ UNCHANGED <<runLocks, lock, registered>>

\* RemoveAll: only when it succeeds is the lock marked deleted.
RemoveRun(a) ==
  /\ a \in Deleters /\ At(a, "own")
  /\ Go(a, "mark") \/ Go(a, "unlock")
  /\ UNCHANGED <<runLocks, lock, registered>>

MarkDeleted(a) ==
  /\ At(a, "mark")
  /\ lock' = [lock EXCEPT ![actor[a].lock].deleted = TRUE]
  /\ Go(a, "unlock")
  /\ UNCHANGED <<runLocks, registered>>

-----------------------------------------------------------------------------
\* dropIdleRunLock

Found(a) == lock[actor[a].found]

DropLoad(a) ==
  /\ At(a, "drop")
  /\ actor' = [actor EXCEPT ![a] = [@ EXCEPT !.pc = IF runLocks = None THEN "unlock" ELSE "peek",
                                             !.found = runLocks]]
  /\ UNCHANGED <<runLocks, lock, registered>>

DropPeek(a) ==
  /\ At(a, "peek")
  /\ Go(a, IF Found(a).refs # 0 THEN "unlock" ELSE "try")
  /\ UNCHANGED <<runLocks, lock, registered>>

DropTryLock(a) ==
  /\ At(a, "try")
  /\ IF Found(a).holder = None
     THEN lock' = [lock EXCEPT ![actor[a].found].holder = a] /\ Go(a, "recheck")
     ELSE UNCHANGED lock /\ Go(a, "unlock")
  /\ UNCHANGED <<runLocks, registered>>

DropRecheck(a) ==
  /\ At(a, "recheck")
  /\ IF Found(a).refs # 0
     THEN lock' = [lock EXCEPT ![actor[a].found].holder = None] /\ Go(a, "unlock")
     ELSE UNCHANGED lock /\ Go(a, "delete")
  /\ UNCHANGED <<runLocks, registered>>

DropDelete(a) ==
  /\ At(a, "delete")
  /\ runLocks' = None
  /\ lock' = [lock EXCEPT ![actor[a].found].holder = None]
  /\ Go(a, "unlock")
  /\ UNCHANGED registered

-----------------------------------------------------------------------------
\* unlockRun and releaseRunLockRef

Unlock(a) ==
  /\ At(a, "unlock")
  /\ lock' = [lock EXCEPT ![actor[a].lock].holder = None]
  /\ Go(a, "unref")
  /\ UNCHANGED <<runLocks, registered>>

\* refs.Add(-1)
ReleaseRef(a) ==
  /\ At(a, "unref")
  /\ lock' = [lock EXCEPT ![actor[a].lock].refs = @ - 1]
  /\ Go(a, IF Mine(a).refs = 1 THEN "tomb" ELSE "end")
  /\ UNCHANGED <<runLocks, registered>>

LoadTombstone(a) ==
  /\ At(a, "tomb")
  /\ Go(a, IF Mine(a).deleted THEN "remove" ELSE "end")
  /\ UNCHANGED <<runLocks, lock, registered>>

\* As it would be if the tombstoned lock stayed in the map.
KeepEntry(a) ==
  /\ At(a, "remove")
  /\ Go(a, "end")
  /\ UNCHANGED <<runLocks, lock, registered>>

\* runLocks.Delete, by key: whichever lock the map has now.
RemoveEntry(a) ==
  /\ At(a, "remove")
  /\ runLocks' = None
  /\ Go(a, "end")
  /\ UNCHANGED <<lock, registered>>

\* The call returns; a RunTask goroutine takes its handle out of runCancels.
End(a) ==
  /\ At(a, "end")
  /\ actor' = [actor EXCEPT ![a] = Idle]
  /\ registered' = IF registered = a THEN None ELSE registered
  /\ UNCHANGED <<runLocks, lock>>

-----------------------------------------------------------------------------
\* What a call does once begun, but for taking the mutex.
Progress(a) ==
  \/ LoadOrStore(a) \/ AddRef(a) \/ TryFails(a) \/ CheckDeleted(a)
  \/ RunEnds(a) \/ RemoveRun(a) \/ MarkDeleted(a)
  \/ DropLoad(a) \/ DropPeek(a) \/ DropTryLock(a) \/ DropRecheck(a) \/ DropDelete(a)
  \/ Unlock(a) \/ ReleaseRef(a) \/ LoadTombstone(a) \/ RemoveEntry(a) \/ End(a)

Next == \E a \in Actors : Begin(a) \/ Acquire(a) \/ Progress(a)

Spec == Init /\ [][Next]_vars

\* Goroutines are scheduled and a run ends. A goroutine blocked in Lock gets the
\* mutex if it is free again and again, also against TryLock calls: sync.Mutex
\* hands over to a starving waiter.
Fairness == \A a \in Actors : WF_vars(Progress(a)) /\ SF_vars(Acquire(a))

FairSpec == Spec /\ Fairness

-----------------------------------------------------------------------------
\* Properties

HasRef == {"acquire", "check", "own", "mark", "drop", "peek", "try", "recheck", "delete",
           "unlock", "unref"}

\* The count of a lock in the map is the number of calls that use it: it is not
\* dropped under a call that waits for it, nor kept alive by one that is gone.
RefsCounted ==
  \A l \in Locks : ~Garbage(l) =>
    lock[l].refs = Cardinality({a \in Actors : actor[a].lock = l /\ actor[a].pc \in HasRef})

\* No call owns the run through a lock that a delete has tombstoned: a caller that
\* was blocked behind DeleteTaskRun is turned away.
TombstoneRespected ==
  \A a \in Actors : actor[a].pc \in {"own", "drop"} => ~Mine(a).deleted

\* A call waiting for the run's lock, and every other call, comes to an end.
CallsReturn == \A a \in Actors : ~At(a, "idle") ~> At(a, "idle")

\* A deleted run's key does not stay bound to the tombstoned lock, which would
\* refuse every later RunTask of that run ID: as long as the map has such a lock,
\* there is a call under way that drops it.
TombstoneLeaves ==
  runLocks # None /\ lock[runLocks].deleted
    => \E a \in Actors : actor[a].lock = runLocks /\ actor[a].pc \notin {"load", "end"}

\* task.go:947 ("Returns ErrRunActive if the run is currently executing"): no
\* DeleteTaskRun removes the directory of a run that executes.
DeleteSparesRunning ==
  (\E a \in Runners : At(a, "own")) => \A d \in Deleters : ~At(d, "own")
=============================================================================
