-------------------------- MODULE RunLocks_proofs --------------------------
(***************************************************************************)
(* The lock table of a run, for any number of RunTask and delete calls:    *)
(*                                                                         *)
(*   RefsCounted        the count of a lock is the number of its users     *)
(*   TombstoneRespected no run goes on under a tombstoned lock             *)
(*   TombstoneLeaves    a tombstoned lock in the map has a user that will  *)
(*                      take it out                                        *)
(*                                                                         *)
(* What makes them inductive is that the mutex is one: whoever is between  *)
(* its Lock and its Unlock is the holder, also of the second lock that     *)
(* dropIdleRunLock may hold for a moment (MutexOf). So a tombstone is set  *)
(* only by the holder, with no run past its check of that lock; and its    *)
(* last user, by the count, is the one that finds the tombstone. Does says *)
(* what each step changes; the invariants are proved from that alone.      *)
(***************************************************************************)
EXTENDS RunLocks, FiniteSetTheorems, TLAPS

Holding == {"check", "own", "mark", "drop", "peek", "try", "recheck", "delete", "unlock"}

\* What a call knows of the locks it refers to.
MutexOf(a) ==
  /\ actor[a].pc \in {"idle", "load"} <=> actor[a].lock = None
  /\ actor[a].pc \in {"peek", "try", "recheck", "delete"} => actor[a].found # None
  /\ actor[a].pc \in Holding => Mine(a).holder = a
  /\ actor[a].pc \in {"recheck", "delete"} => Found(a).holder = a /\ actor[a].found # actor[a].lock
  /\ actor[a].pc \in {"own", "drop"} => ~Mine(a).deleted

Typed ==
  /\ runLocks \in Locks \cup {None}
  /\ lock \in [Locks -> [holder : Actors \cup {None}, refs : Int, deleted : BOOLEAN]]
  /\ actor \in [Actors -> [pc : Pc, lock : Locks \cup {None}, found : Locks \cup {None}]]
  /\ registered \in Runners \cup {None}

MutexInv == Typed /\ \A a \in Actors : MutexOf(a)

-----------------------------------------------------------------------------
\* The mutex and the tombstone

LEMMA InitiallyFree == Init => MutexInv
BY NoneIsNeither DEF Init, Idle, NewLock, MutexInv, Typed, MutexOf, Holding, Pc

LEMMA GoesOn ==
  ASSUME Typed, NEW a \in Actors, NEW pc \in Pc, Go(a, pc)
  PROVE  /\ actor' \in [Actors -> [pc : Pc, lock : Locks \cup {None}, found : Locks \cup {None}]]
         /\ actor'[a].pc = pc /\ actor'[a].lock = actor[a].lock /\ actor'[a].found = actor[a].found
         /\ \A b \in Actors \ {a} : actor'[b] = actor[b]
BY DEF Typed, Go

LockTypes == [Locks -> [holder : Actors \cup {None}, refs : Int, deleted : BOOLEAN]]

LEMMA HolderSet ==
  ASSUME Typed, NEW l \in Locks, NEW h \in Actors \cup {None}, lock' = [lock EXCEPT ![l].holder = h]
  PROVE  /\ lock' \in LockTypes
         /\ lock'[l].holder = h /\ lock'[l].refs = lock[l].refs /\ lock'[l].deleted = lock[l].deleted
         /\ \A k \in Locks \ {l} : lock'[k] = lock[k]
BY DEF Typed, LockTypes

LEMMA RefsSet ==
  ASSUME Typed, NEW l \in Locks, NEW n \in Int, lock' = [lock EXCEPT ![l].refs = n]
  PROVE  /\ lock' \in LockTypes
         /\ lock'[l].holder = lock[l].holder /\ lock'[l].refs = n /\ lock'[l].deleted = lock[l].deleted
         /\ \A k \in Locks \ {l} : lock'[k] = lock[k]
BY DEF Typed, LockTypes

LEMMA DeletedSet ==
  ASSUME Typed, NEW l \in Locks, lock' = [lock EXCEPT ![l].deleted = TRUE]
  PROVE  /\ lock' \in LockTypes
         /\ lock'[l].holder = lock[l].holder /\ lock'[l].refs = lock[l].refs /\ lock'[l].deleted
         /\ \A k \in Locks \ {l} : lock'[k] = lock[k]
BY DEF Typed, LockTypes

\* The lock a step is about is one.
LEMMA LocksNamed ==
  ASSUME MutexInv, NEW a \in Actors
  PROVE  /\ actor[a].pc \notin {"idle", "load"} => actor[a].lock \in Locks /\ lock[actor[a].lock].refs \in Int
         /\ actor[a].pc \in {"peek", "try", "recheck", "delete"} => actor[a].found \in Locks
         /\ actor[a].pc \in Pc
BY NoneIsNeither DEF MutexInv, Typed, MutexOf

-----------------------------------------------------------------------------
\* What a step does, by the field it changes

Moves(a, from, to) ==
  /\ actor[a].pc = from /\ actor'[a].pc = to
  /\ actor'[a].lock = actor[a].lock /\ actor'[a].found = actor[a].found

HolderOnly(l, h) ==
  /\ lock'[l].holder = h /\ lock'[l].refs = lock[l].refs /\ lock'[l].deleted = lock[l].deleted
  /\ \A k \in Locks \ {l} : lock'[k] = lock[k]

RefsOnly(l, n) ==
  /\ lock'[l].holder = lock[l].holder /\ lock'[l].refs = n /\ lock'[l].deleted = lock[l].deleted
  /\ \A k \in Locks \ {l} : lock'[k] = lock[k]

DeletedOnly(l) ==
  /\ lock'[l].holder = lock[l].holder /\ lock'[l].refs = lock[l].refs /\ lock'[l].deleted
  /\ \A k \in Locks \ {l} : lock'[k] = lock[k]

\* Begin, TryFails, CheckDeleted of a lock that is not deleted, RunEnds, RemoveRun,
\* DropPeek, DropTryLock and DropRecheck without success, LoadTombstone.
Quiet(a) ==
  /\ \/ Moves(a, "idle", "load")
     \/ Moves(a, "acquire", "unref")
     \/ Moves(a, "check", "own") /\ ~Mine(a).deleted
     \/ Moves(a, "own", "drop")
     \/ Moves(a, "own", "mark") \/ Moves(a, "own", "unlock")
     \/ Moves(a, "peek", "unlock") \/ Moves(a, "peek", "try") \/ Moves(a, "try", "unlock")
     \/ Moves(a, "recheck", "delete")
     \/ Moves(a, "tomb", "remove") \/ (Moves(a, "tomb", "end") /\ ~Mine(a).deleted)
  /\ UNCHANGED <<lock, runLocks>>

Takes(a) == /\ Moves(a, "acquire", "check") /\ Mine(a).holder = None
            /\ HolderOnly(actor[a].lock, a) /\ UNCHANGED runLocks

Finds(a) == /\ actor[a].pc = "load" /\ actor'[a].pc = "ref" /\ actor'[a].found = actor[a].found
            /\ runLocks # None /\ actor'[a].lock = runLocks /\ UNCHANGED <<lock, runLocks>>

Stores(a) == /\ actor[a].pc = "load" /\ actor'[a].pc = "ref" /\ actor'[a].found = actor[a].found
             /\ runLocks = None /\ runLocks' \in Locks /\ Garbage(runLocks')
             /\ actor'[a].lock = runLocks' /\ lock'[runLocks'] = NewLock
             /\ \A k \in Locks \ {runLocks'} : lock'[k] = lock[k]

Adds(a) == /\ Moves(a, "ref", "acquire") /\ RefsOnly(actor[a].lock, Mine(a).refs + 1)
           /\ UNCHANGED runLocks

Gives(a) == /\ Moves(a, "check", "unref") \/ Moves(a, "unlock", "unref")
            /\ HolderOnly(actor[a].lock, None) /\ UNCHANGED runLocks

Marks(a) == /\ Moves(a, "mark", "unlock") /\ DeletedOnly(actor[a].lock) /\ UNCHANGED runLocks

Looks(a) == /\ actor[a].pc = "drop" /\ actor'[a].pc \in {"unlock", "peek"}
            /\ actor'[a].pc = "peek" => runLocks # None
            /\ actor'[a].lock = actor[a].lock /\ actor'[a].found = runLocks
            /\ UNCHANGED <<lock, runLocks>>

Borrows(a) == /\ Moves(a, "try", "recheck") /\ Found(a).holder = None
              /\ HolderOnly(actor[a].found, a) /\ UNCHANGED runLocks

Returns(a) == /\ Moves(a, "recheck", "unlock") \/ Moves(a, "delete", "unlock")
              /\ HolderOnly(actor[a].found, None) /\ runLocks' \in {runLocks, None}

Releases(a) == /\ Moves(a, "unref", IF Mine(a).refs = 1 THEN "tomb" ELSE "end")
               /\ RefsOnly(actor[a].lock, Mine(a).refs - 1) /\ UNCHANGED runLocks

Removes(a) == /\ Moves(a, "remove", "end") /\ runLocks' = None /\ UNCHANGED lock

Leaves(a) == /\ actor[a].pc = "end" /\ actor'[a] = Idle /\ UNCHANGED <<lock, runLocks>>

Does(a) == \/ Quiet(a) \/ Takes(a) \/ Finds(a) \/ Stores(a) \/ Adds(a) \/ Gives(a) \/ Marks(a)
           \/ Looks(a) \/ Borrows(a) \/ Returns(a) \/ Releases(a) \/ Removes(a) \/ Leaves(a)

LEMMA StepDoes ==
  ASSUME MutexInv, NEW a \in Actors, Begin(a) \/ Acquire(a) \/ Progress(a)
  PROVE  Typed' /\ (\A b \in Actors \ {a} : actor'[b] = actor[b]) /\ Does(a)
<1> DEFINE Goal == Typed' /\ (\A b \in Actors \ {a} : actor'[b] = actor[b]) /\ Does(a)
<1>0. Typed
  BY DEF MutexInv
<1> USE DEF At, LockTypes
<1>1. CASE Begin(a)
  <2>1. UNCHANGED <<lock, runLocks>> /\ registered' \in Runners \cup {None} /\ actor[a].pc = "idle"
    BY <1>0, <1>1 DEF Begin, Typed
  <2>2. PICK pc \in {"load"} : Go(a, pc)
    BY <1>1 DEF Begin
  <2>3. pc \in Pc
    BY DEF Pc
  <2>4. Moves(a, actor[a].pc, pc) /\ Typed' /\ \A b \in Actors \ {a} : actor'[b] = actor[b]
    BY <1>0, <2>1, <2>2, <2>3, GoesOn DEF Typed, Moves
  <2> QED
    BY <2>1, <2>2, <2>4 DEF Does, Quiet
<1>2. CASE TryFails(a)
  <2>1. UNCHANGED <<lock, runLocks>> /\ registered' \in Runners \cup {None} /\ actor[a].pc = "acquire"
    BY <1>0, <1>2 DEF TryFails, Typed
  <2>2. PICK pc \in {"unref"} : Go(a, pc)
    BY <1>2 DEF TryFails
  <2>3. pc \in Pc
    BY DEF Pc
  <2>4. Moves(a, actor[a].pc, pc) /\ Typed' /\ \A b \in Actors \ {a} : actor'[b] = actor[b]
    BY <1>0, <2>1, <2>2, <2>3, GoesOn DEF Typed, Moves
  <2> QED
    BY <2>1, <2>2, <2>4 DEF Does, Quiet
<1>3. CASE RunEnds(a)
  <2>1. UNCHANGED <<lock, runLocks>> /\ registered' \in Runners \cup {None} /\ actor[a].pc = "own"
    BY <1>0, <1>3 DEF RunEnds, Typed
  <2>2. PICK pc \in {"drop"} : Go(a, pc)
    BY <1>3 DEF RunEnds
  <2>3. pc \in Pc
    BY DEF Pc
  <2>4. Moves(a, actor[a].pc, pc) /\ Typed' /\ \A b \in Actors \ {a} : actor'[b] = actor[b]
    BY <1>0, <2>1, <2>2, <2>3, GoesOn DEF Typed, Moves
  <2> QED
    BY <2>1, <2>2, <2>4 DEF Does, Quiet
<1>4. CASE RemoveRun(a)
  <2>1. UNCHANGED <<lock, runLocks>> /\ registered' \in Runners \cup {None} /\ actor[a].pc = "own"
    BY <1>0, <1>4 DEF RemoveRun, Typed
  <2>2. PICK pc \in {"mark", "unlock"} : Go(a, pc)
    BY <1>4 DEF RemoveRun
  <2>3. pc \in Pc
    BY DEF Pc
  <2>4. Moves(a, actor[a].pc, pc) /\ Typed' /\ \A b \in Actors \ {a} : actor'[b] = actor[b]
    BY <1>0, <2>1, <2>2, <2>3, GoesOn DEF Typed, Moves
  <2> QED
    BY <2>1, <2>2, <2>4 DEF Does, Quiet
<1>5. CASE DropPeek(a)
  <2>1. UNCHANGED <<lock, runLocks>> /\ registered' \in Runners \cup {None} /\ actor[a].pc = "peek"
    BY <1>0, <1>5 DEF DropPeek, Typed
  <2>2. PICK pc \in {"unlock", "try"} : Go(a, pc)
    BY <1>5 DEF DropPeek
  <2>3. pc \in Pc
    BY DEF Pc
  <2>4. Moves(a, actor[a].pc, pc) /\ Typed' /\ \A b \in Actors \ {a} : actor'[b] = actor[b]
    BY <1>0, <2>1, <2>2, <2>3, GoesOn DEF Typed, Moves
  <2> QED
    BY <2>1, <2>2, <2>4 DEF Does, Quiet
<1>6. CASE LoadTombstone(a)
  <2>1. UNCHANGED <<lock, runLocks>> /\ registered' \in Runners \cup {None} /\ actor[a].pc = "tomb"
    BY <1>0, <1>6 DEF LoadTombstone, Typed
  <2>2. PICK pc \in {"remove", "end"} : Go(a, pc) /\ (pc = "end" => ~Mine(a).deleted)
    BY <1>6 DEF LoadTombstone
  <2>3. pc \in Pc
    BY DEF Pc
  <2>4. Moves(a, actor[a].pc, pc) /\ Typed' /\ \A b \in Actors \ {a} : actor'[b] = actor[b]
    BY <1>0, <2>1, <2>2, <2>3, GoesOn DEF Typed, Moves
  <2> QED
    BY <2>1, <2>2, <2>4 DEF Does, Quiet
<1>7. CASE Acquire(a)
  <2>1. registered' = registered /\ Go(a, "check") /\ actor[a].pc = "acquire" /\ UNCHANGED runLocks /\ Mine(a).holder = None
        /\ lock' = [lock EXCEPT ![actor[a].lock].holder = a]
    BY <1>7 DEF Acquire
  <2>2. actor[a].lock \in Locks /\ "check" \in Pc
    BY <2>1, LocksNamed DEF Pc
  <2>3. lock' \in LockTypes /\ HolderOnly(actor[a].lock, a)
    BY <1>0, <2>1, <2>2, LocksNamed, HolderSet DEF HolderOnly
  <2>4. Moves(a, "acquire", "check") /\ Typed' /\ \A b \in Actors \ {a} : actor'[b] = actor[b]
    BY <1>0, <2>1, <2>2, <2>3, GoesOn DEF Typed, Moves
  <2> QED
    BY <2>1, <2>3, <2>4 DEF Does, Takes
<1>8. CASE AddRef(a)
  <2>1. registered' = registered /\ Go(a, "acquire") /\ actor[a].pc = "ref" /\ UNCHANGED runLocks
        /\ lock' = [lock EXCEPT ![actor[a].lock].refs = lock[actor[a].lock].refs + 1]
    BY <1>8 DEF AddRef
  <2>2. actor[a].lock \in Locks /\ "acquire" \in Pc /\ lock[actor[a].lock].refs + 1 \in Int
    BY <2>1, LocksNamed DEF Pc
  <2>3. lock' \in LockTypes /\ RefsOnly(actor[a].lock, lock[actor[a].lock].refs + 1)
    BY <1>0, <2>1, <2>2, RefsSet DEF RefsOnly
  <2>4. Moves(a, "ref", "acquire") /\ Typed' /\ \A b \in Actors \ {a} : actor'[b] = actor[b]
    BY <1>0, <2>1, <2>2, <2>3, GoesOn DEF Typed, Moves
  <2> QED
    BY <2>1, <2>3, <2>4 DEF Does, Adds, Mine
<1>9. CASE MarkDeleted(a)
  <2>1. registered' = registered /\ Go(a, "unlock") /\ actor[a].pc = "mark" /\ UNCHANGED runLocks
        /\ lock' = [lock EXCEPT ![actor[a].lock].deleted = TRUE]
    BY <1>9 DEF MarkDeleted
  <2>2. actor[a].lock \in Locks /\ "unlock" \in Pc
    BY <2>1, LocksNamed DEF Pc
  <2>3. lock' \in LockTypes /\ DeletedOnly(actor[a].lock)
    BY <1>0, <2>1, <2>2, LocksNamed, DeletedSet DEF DeletedOnly
  <2>4. Moves(a, "mark", "unlock") /\ Typed' /\ \A b \in Actors \ {a} : actor'[b] = actor[b]
    BY <1>0, <2>1, <2>2, <2>3, GoesOn DEF Typed, Moves
  <2> QED
    BY <2>1, <2>3, <2>4 DEF Does, Marks
<1>10. CASE Unlock(a)
  <2>1. registered' = registered /\ Go(a, "unref") /\ actor[a].pc = "unlock" /\ UNCHANGED runLocks
        /\ lock' = [lock EXCEPT ![actor[a].lock].holder = None]
    BY <1>10 DEF Unlock
  <2>2. actor[a].lock \in Locks /\ "unref" \in Pc
    BY <2>1, LocksNamed DEF Pc
  <2>3. lock' \in LockTypes /\ HolderOnly(actor[a].lock, None)
    BY <1>0, <2>1, <2>2, LocksNamed, HolderSet DEF HolderOnly
  <2>4. Moves(a, "unlock", "unref") /\ Typed' /\ \A b \in Actors \ {a} : actor'[b] = actor[b]
    BY <1>0, <2>1, <2>2, <2>3, GoesOn DEF Typed, Moves
  <2> QED
    BY <2>1, <2>3, <2>4 DEF Does, Gives
<1>11. CASE DropDelete(a)
  <2>1. registered' = registered /\ Go(a, "unlock") /\ actor[a].pc = "delete" /\ runLocks' = None
        /\ lock' = [lock EXCEPT ![actor[a].found].holder = None]
    BY <1>11 DEF DropDelete
  <2>2. actor[a].found \in Locks /\ "unlock" \in Pc
    BY <2>1, LocksNamed DEF Pc
  <2>3. lock' \in LockTypes /\ HolderOnly(actor[a].found, None)
    BY <1>0, <2>1, <2>2, LocksNamed, HolderSet DEF HolderOnly
  <2>4. Moves(a, "delete", "unlock") /\ Typed' /\ \A b \in Actors \ {a} : actor'[b] = actor[b]
    BY <1>0, <2>1, <2>2, <2>3, GoesOn DEF Typed, Moves
  <2> QED
    BY <2>1, <2>3, <2>4 DEF Does, Returns
<1>12. CASE ReleaseRef(a)
  <2> DEFINE pc == IF Mine(a).refs = 1 THEN "tomb" ELSE "end"
  <2>1. registered' = registered /\ Go(a, pc) /\ actor[a].pc = "unref" /\ UNCHANGED runLocks
        /\ lock' = [lock EXCEPT ![actor[a].lock].refs = lock[actor[a].lock].refs - 1]
    BY <1>12 DEF ReleaseRef
  <2>2. actor[a].lock \in Locks /\ pc \in Pc /\ lock[actor[a].lock].refs - 1 \in Int
    BY <2>1, LocksNamed DEF Pc
  <2> HIDE DEF pc
  <2>3. lock' \in LockTypes /\ RefsOnly(actor[a].lock, lock[actor[a].lock].refs - 1)
    BY <1>0, <2>1, <2>2, RefsSet DEF RefsOnly
  <2>4. Moves(a, "unref", pc) /\ Typed' /\ \A b \in Actors \ {a} : actor'[b] = actor[b]
    BY <1>0, <2>1, <2>2, <2>3, GoesOn DEF Typed, Moves
  <2> QED
    BY <2>1, <2>3, <2>4 DEF Does, Releases, Mine, pc
<1>13. CASE RemoveEntry(a)
  <2>1. UNCHANGED <<lock, registered>> /\ Go(a, "end") /\ actor[a].pc = "remove" /\ runLocks' = None
    BY <1>13 DEF RemoveEntry
  <2>2. "end" \in Pc
    BY DEF Pc
  <2>3. Moves(a, "remove", "end") /\ Typed' /\ \A b \in Actors \ {a} : actor'[b] = actor[b]
    BY <1>0, <2>1, <2>2, GoesOn DEF Typed, Moves
  <2> QED
    BY <2>1, <2>3 DEF Does, Removes
<1>14. CASE CheckDeleted(a)
  <2>1. registered' = registered /\ actor[a].pc = "check" /\ UNCHANGED runLocks
    BY <1>14 DEF CheckDeleted
  <2>2. actor[a].lock \in Locks /\ "unref" \in Pc /\ "own" \in Pc
    BY <2>1, LocksNamed DEF Pc
  <2>3. CASE Mine(a).deleted
    <3>1. lock' = [lock EXCEPT ![actor[a].lock].holder = None] /\ Go(a, "unref")
      BY <1>14, <2>3 DEF CheckDeleted, Tombstoned
    <3>2. lock' \in LockTypes /\ HolderOnly(actor[a].lock, None)
      BY <1>0, <2>2, <3>1, HolderSet DEF HolderOnly
    <3>3. Moves(a, "check", "unref") /\ Typed' /\ \A b \in Actors \ {a} : actor'[b] = actor[b]
      BY <1>0, <2>1, <2>2, <3>1, <3>2, GoesOn DEF Typed, Moves
    <3> QED
      BY <2>1, <3>2, <3>3 DEF Does, Gives
  <2>4. CASE ~Mine(a).deleted
    <3>1. UNCHANGED lock /\ Go(a, "own")
      BY <1>14, <2>4 DEF CheckDeleted, Tombstoned
    <3>2. Moves(a, "check", "own") /\ Typed' /\ \A b \in Actors \ {a} : actor'[b] = actor[b]
      BY <1>0, <2>1, <2>2, <3>1, GoesOn DEF Typed, Moves
    <3> QED
      BY <2>1, <2>4, <3>1, <3>2 DEF Does, Quiet
  <2> QED
    BY <2>3, <2>4
<1>15. CASE DropTryLock(a)
  <2>1. registered' = registered /\ actor[a].pc = "try" /\ UNCHANGED runLocks
    BY <1>15 DEF DropTryLock
  <2>2. actor[a].found \in Locks /\ "recheck" \in Pc /\ "unlock" \in Pc
    BY <2>1, LocksNamed DEF Pc
  <2>3. CASE Found(a).holder = None
    <3>1. lock' = [lock EXCEPT ![actor[a].found].holder = a] /\ Go(a, "recheck")
      BY <1>15, <2>3 DEF DropTryLock
    <3>2. lock' \in LockTypes /\ HolderOnly(actor[a].found, a)
      BY <1>0, <2>2, <3>1, HolderSet DEF HolderOnly
    <3>3. Moves(a, "try", "recheck") /\ Typed' /\ \A b \in Actors \ {a} : actor'[b] = actor[b]
      BY <1>0, <2>1, <2>2, <3>1, <3>2, GoesOn DEF Typed, Moves
    <3> QED
      BY <2>1, <2>3, <3>2, <3>3 DEF Does, Borrows
  <2>4. CASE Found(a).holder # None
    <3>1. UNCHANGED lock /\ Go(a, "unlock")
      BY <1>15, <2>4 DEF DropTryLock
    <3>2. Moves(a, "try", "unlock") /\ Typed' /\ \A b \in Actors \ {a} : actor'[b] = actor[b]
      BY <1>0, <2>1, <2>2, <3>1, GoesOn DEF Typed, Moves
    <3> QED
      BY <2>1, <3>1, <3>2 DEF Does, Quiet
  <2> QED
    BY <2>3, <2>4
<1>16. CASE DropRecheck(a)
  <2>1. registered' = registered /\ actor[a].pc = "recheck" /\ UNCHANGED runLocks
    BY <1>16 DEF DropRecheck
  <2>2. actor[a].found \in Locks /\ "delete" \in Pc /\ "unlock" \in Pc
    BY <2>1, LocksNamed DEF Pc
  <2>3. CASE Found(a).refs # 0
    <3>1. lock' = [lock EXCEPT ![actor[a].found].holder = None] /\ Go(a, "unlock")
      BY <1>16, <2>3 DEF DropRecheck
    <3>2. lock' \in LockTypes /\ HolderOnly(actor[a].found, None)
      BY <1>0, <2>2, <3>1, HolderSet DEF HolderOnly
    <3>3. Moves(a, "recheck", "unlock") /\ Typed' /\ \A b \in Actors \ {a} : actor'[b] = actor[b]
      BY <1>0, <2>1, <2>2, <3>1, <3>2, GoesOn DEF Typed, Moves
    <3> QED
      BY <2>1, <3>2, <3>3 DEF Does, Returns
  <2>4. CASE Found(a).refs = 0
    <3>1. UNCHANGED lock /\ Go(a, "delete")
      BY <1>16, <2>4 DEF DropRecheck
    <3>2. Moves(a, "recheck", "delete") /\ Typed' /\ \A b \in Actors \ {a} : actor'[b] = actor[b]
      BY <1>0, <2>1, <2>2, <3>1, GoesOn DEF Typed, Moves
    <3> QED
      BY <2>1, <3>1, <3>2 DEF Does, Quiet
  <2> QED
    BY <2>3, <2>4
<1>17. CASE DropLoad(a)
  <2> DEFINE pc == IF runLocks = None THEN "unlock" ELSE "peek"
  <2>1. /\ UNCHANGED <<lock, runLocks, registered>> /\ actor[a].pc = "drop"
        /\ actor' = [actor EXCEPT ![a] = [actor[a] EXCEPT !.pc = pc, !.found = runLocks]]
    BY <1>17 DEF DropLoad
  <2>2. pc \in {"unlock", "peek"} /\ (pc = "peek" => runLocks # None)
    OBVIOUS
  <2> HIDE DEF pc
  <2>3. /\ Typed' /\ actor'[a].pc = pc /\ actor'[a].lock = actor[a].lock /\ actor'[a].found = runLocks
        /\ \A b \in Actors \ {a} : actor'[b] = actor[b]
    BY <1>0, <2>1, <2>2 DEF Typed, Pc
  <2> QED
    BY <2>1, <2>2, <2>3 DEF Does, Looks
<1>18. CASE End(a)
  <2>1. /\ UNCHANGED <<lock, runLocks>> /\ registered' \in {registered, None} /\ actor[a].pc = "end"
        /\ actor' = [actor EXCEPT ![a] = Idle]
    BY <1>18 DEF End
  <2>2. Typed' /\ actor'[a] = Idle /\ \A b \in Actors \ {a} : actor'[b] = actor[b]
    BY <1>0, <2>1 DEF Typed, Pc, Idle
  <2> QED
    BY <2>1, <2>2 DEF Does, Leaves
<1>19. CASE LoadOrStore(a)
  <2>1. registered' = registered /\ actor[a].pc = "load"
    BY <1>19 DEF LoadOrStore
  <2>2. ASSUME NEW l \in Locks, actor' = [actor EXCEPT ![a] = [actor[a] EXCEPT !.pc = "ref", !.lock = l]]
        PROVE  /\ actor' \in [Actors -> [pc : Pc, lock : Locks \cup {None}, found : Locks \cup {None}]]
               /\ actor'[a].pc = "ref" /\ actor'[a].lock = l /\ actor'[a].found = actor[a].found
               /\ \A b \in Actors \ {a} : actor'[b] = actor[b]
    BY <1>0, <2>2 DEF Typed, Pc
  <2>3. CASE runLocks # None
    <3>1. /\ actor' = [actor EXCEPT ![a] = [actor[a] EXCEPT !.pc = "ref", !.lock = runLocks]]
          /\ UNCHANGED <<runLocks, lock>> /\ runLocks \in Locks
      BY <1>0, <1>19, <2>3 DEF LoadOrStore, Typed
    <3> QED
      BY <1>0, <2>1, <2>2, <2>3, <3>1 DEF Typed, Does, Finds
  <2>4. CASE runLocks = None
    <3>1. PICK l \in Locks :
            /\ Garbage(l) /\ lock' = [lock EXCEPT ![l] = NewLock] /\ runLocks' = l
            /\ actor' = [actor EXCEPT ![a] = [actor[a] EXCEPT !.pc = "ref", !.lock = l]]
      <4> DEFINE l == CHOOSE l \in Locks : Garbage(l)
      <4>1. l \in Locks /\ Garbage(l)
        BY <1>19, <2>4 DEF LoadOrStore
      <4> QED
        BY <1>19, <2>4, <4>1 DEF LoadOrStore
    <3>2. lock' \in LockTypes /\ lock'[l] = NewLock /\ \A k \in Locks \ {l} : lock'[k] = lock[k]
      BY <1>0, <3>1 DEF Typed, NewLock
    <3> QED
      BY <1>0, <2>1, <2>2, <2>4, <3>1, <3>2 DEF Typed, Does, Stores
  <2> QED
    BY <2>3, <2>4
<1> QED
  BY <1>1, <1>2, <1>3, <1>4, <1>5, <1>6, <1>7, <1>8, <1>9, <1>10, <1>11, <1>12, <1>13, <1>14, <1>15,
     <1>16, <1>17, <1>18, <1>19 DEF Progress

-----------------------------------------------------------------------------
\* The mutex and the tombstone

LEMMA MutexKept ==
  ASSUME MutexInv, NEW a \in Actors, Typed', \A b \in Actors \ {a} : actor'[b] = actor[b], Does(a)
  PROVE  MutexInv'
<1> USE NoneIsNeither DEF MutexInv
<1>1. \A b \in Actors : MutexOf(b)
  OBVIOUS
<1>2. ASSUME NEW b \in Actors \ {a} PROVE MutexOf(b)'
  <2>1. /\ \A l \in Locks : \/ lock'[l].holder = lock[l].holder
                            \/ lock[l].holder = None
                            \/ lock[l].holder = a
                            \/ Garbage(l)
        /\ \A l \in Locks : lock'[l].deleted => lock[l].deleted \/ lock[l].holder = a \/ Garbage(l)
    <3>1. CASE UNCHANGED lock
      BY <3>1
    <3>2. CASE Stores(a)
      BY <3>2 DEF Stores
    <3>3. CASE Takes(a) \/ Gives(a) \/ Marks(a)
      BY <1>1, <3>3, LocksNamed DEF Takes, Gives, Marks, Moves, MutexOf, Mine, Holding, HolderOnly, DeletedOnly
    <3>4. CASE Borrows(a) \/ Returns(a)
      BY <1>1, <3>4, LocksNamed DEF Borrows, Returns, Moves, MutexOf, Found, HolderOnly
    <3>5. CASE Adds(a) \/ Releases(a)
      BY <3>5, LocksNamed DEF Adds, Releases, Moves, RefsOnly
    <3> QED
      BY <3>1, <3>2, <3>3, <3>4, <3>5 DEF Does, Quiet, Finds, Looks, Removes, Leaves
  <2>2. actor'[b] = actor[b] /\ MutexOf(b) /\ b # None /\ b # a
    BY <1>1, <1>2
  <2>3. actor[b].lock \in Locks => ~Garbage(actor[b].lock)
    BY DEF Garbage
  <2>4. actor[b].found \in Locks => ~Garbage(actor[b].found)
    BY DEF Garbage
  <2>5. /\ actor[b].pc \notin {"idle", "load"} => actor[b].lock \in Locks
        /\ actor[b].pc \in {"recheck", "delete"} => actor[b].found \in Locks
    BY LocksNamed
  <2> QED
    BY <2>1, <2>2, <2>3, <2>4, <2>5 DEF MutexOf, Mine, Found, Holding
<1>3. MutexOf(a)'
  <2>1. MutexOf(a)
    BY <1>1
  <2>2. CASE Quiet(a)
    BY <2>1, <2>2 DEF Quiet, Moves, MutexOf, Mine, Found, Holding
  <2>3. CASE Takes(a) \/ Adds(a) \/ Gives(a) \/ Marks(a)
    BY <2>1, <2>3, LocksNamed DEF Takes, Adds, Gives, Marks, Moves, MutexOf, Mine, Found, Holding,
       HolderOnly, RefsOnly, DeletedOnly
  <2>4. CASE Finds(a) \/ Stores(a) \/ Looks(a)
    BY <2>1, <2>4 DEF Finds, Stores, Looks, MutexOf, Mine, Found, Holding
  <2>5. CASE Borrows(a)
    <3>1. actor[a].found \in Locks /\ actor[a].lock \in Locks /\ Mine(a).holder = a /\ Found(a).holder = None
      BY <2>1, <2>5, LocksNamed DEF Borrows, Moves, MutexOf, Holding
    <3>2. actor[a].found # actor[a].lock /\ a # None
      BY <3>1 DEF Mine, Found
    <3> QED
      BY <2>1, <2>5, <3>1, <3>2 DEF Borrows, Moves, MutexOf, Mine, Found, Holding, HolderOnly
  <2>6. CASE Returns(a)
    <3>1. actor[a].lock \in Locks /\ Mine(a).holder = a /\ actor[a].found # actor[a].lock
      BY <2>1, <2>6, LocksNamed DEF Returns, Moves, MutexOf, Holding
    <3> QED
      BY <2>1, <2>6, <3>1 DEF Returns, Moves, MutexOf, Mine, Found, Holding, HolderOnly
  <2>7. CASE Releases(a) \/ Removes(a) \/ Leaves(a)
    BY <2>1, <2>7 DEF Releases, Removes, Leaves, Idle, Moves, MutexOf, Mine, Found, Holding
  <2> QED
    BY <2>2, <2>3, <2>4, <2>5, <2>6, <2>7 DEF Does
<1> QED
  BY <1>2, <1>3

-----------------------------------------------------------------------------
\* The count

Users(l) == {a \in Actors : actor[a].lock = l /\ actor[a].pc \in HasRef}

CountInv == \A l \in Locks : ~Garbage(l) => lock[l].refs = Cardinality(Users(l))

LEMMA FiniteUsers == ASSUME NEW l PROVE IsFiniteSet(Users(l)) /\ Cardinality(Users(l)) \in Nat
<1>1. Users(l) \in SUBSET Actors
  BY DEF Users
<1>2. IsFiniteSet(Users(l))
  BY <1>1, FiniteActors, FS_Subset
<1> QED
  BY <1>2, FS_CardinalityType

\* How the users of a lock change when one call moves.
LEMMA UsersMove ==
  ASSUME NEW a \in Actors, \A b \in Actors \ {a} : actor'[b] = actor[b], NEW l
  PROVE  /\ (a \in Users(l) <=> a \in Users(l)') => Cardinality(Users(l)') = Cardinality(Users(l))
         /\ a \notin Users(l) /\ a \in Users(l)' => Cardinality(Users(l)') = Cardinality(Users(l)) + 1
         /\ a \in Users(l) /\ a \notin Users(l)' => Cardinality(Users(l)') = Cardinality(Users(l)) - 1
<1>1. \A b \in Actors \ {a} : b \in Users(l) <=> b \in Users(l)'
  BY DEF Users
<1>2. Users(l) \subseteq Actors /\ Users(l)' \subseteq Actors /\ IsFiniteSet(Users(l))
  BY FiniteUsers DEF Users
<1>3. CASE a \in Users(l) <=> a \in Users(l)'
  <2>1. Users(l)' = Users(l)
    BY <1>1, <1>2, <1>3
  <2> QED
    BY <1>3, <2>1
<1>4. CASE a \notin Users(l) /\ a \in Users(l)'
  <2>1. Users(l)' = Users(l) \cup {a}
    BY <1>1, <1>2, <1>4
  <2>2. Cardinality(Users(l) \cup {a}) = Cardinality(Users(l)) + 1
    BY <1>2, <1>4, FS_AddElement
  <2> QED
    BY <1>4, <2>1, <2>2
<1>5. CASE a \in Users(l) /\ a \notin Users(l)'
  <2>1. Users(l)' = Users(l) \ {a}
    BY <1>1, <1>2, <1>5
  <2>2. Cardinality(Users(l) \ {a}) = Cardinality(Users(l)) - 1
    BY <1>2, <1>5, FS_RemoveElement
  <2> QED
    BY <1>5, <2>1, <2>2
<1> QED
  BY <1>3, <1>4, <1>5

\* No step but LoadOrStore brings a lock that was garbage back.
LEMMA GarbageStays ==
  ASSUME MutexInv, NEW a \in Actors, \A b \in Actors \ {a} : actor'[b] = actor[b], Does(a),
         NEW l \in Locks, Garbage(l), ~Stores(a)
  PROVE  Garbage(l)'
<1>1. l # None /\ l # runLocks /\ actor[a].lock # l /\ actor[a].found # l
      /\ \A b \in Actors \ {a} : actor'[b].lock # l /\ actor'[b].found # l
  BY NoneIsNeither DEF Garbage
<1>2. runLocks' # l /\ actor'[a].lock # l /\ actor'[a].found # l
  <2>1. CASE Quiet(a) \/ Takes(a) \/ Adds(a) \/ Gives(a) \/ Marks(a) \/ Borrows(a) \/ Returns(a)
             \/ Releases(a) \/ Removes(a)
    BY <1>1, <2>1 DEF Quiet, Takes, Adds, Gives, Marks, Borrows, Returns, Releases, Removes, Moves
  <2>2. CASE Finds(a) \/ Looks(a) \/ Leaves(a)
    BY <1>1, <2>2 DEF Finds, Looks, Leaves, Idle
  <2> QED
    BY <2>1, <2>2 DEF Does
<1> QED
  BY <1>1, <1>2 DEF Garbage

LEMMA CountKept ==
  ASSUME MutexInv, CountInv, NEW a \in Actors, Typed', \A b \in Actors \ {a} : actor'[b] = actor[b], Does(a)
  PROVE  CountInv'
<1> SUFFICES ASSUME NEW l \in Locks, ~Garbage(l)' PROVE lock'[l].refs = Cardinality(Users(l)')
  BY DEF CountInv
<1>0. Cardinality(Users(l)) \in Int /\ l # None /\ MutexOf(a)
  BY FiniteUsers, NoneIsNeither DEF MutexInv
<1>1. CASE Stores(a)
  <2>1. a \notin Users(l) /\ a \notin Users(l)'
    BY <1>0, <1>1 DEF Users, Stores, HasRef, MutexOf
  <2>2. Cardinality(Users(l)') = Cardinality(Users(l))
    BY <2>1, UsersMove
  <2>3. CASE l = runLocks'
    <3>1. Users(l) = {} /\ lock'[l].refs = 0
      BY <1>1, <2>3 DEF Stores, Garbage, Users, NewLock
    <3> QED
      BY <2>2, <3>1, FS_EmptySet
  <2>4. CASE l # runLocks'
    <3>1. ~Garbage(l)
      BY <1>0, <1>1, <2>4 DEF Stores, Garbage
    <3> QED
      BY <1>1, <2>2, <2>4, <3>1 DEF Stores, CountInv
  <2> QED
    BY <2>3, <2>4
<1>2. CASE ~Stores(a)
  <2>1. lock[l].refs = Cardinality(Users(l))
    BY <1>2, GarbageStays DEF CountInv
  <2>2. CASE Adds(a)
    <3>1. actor[a].lock \in Locks /\ (a \in Users(l)' <=> l = actor[a].lock) /\ a \notin Users(l)
      BY <2>2, LocksNamed DEF Adds, Moves, Users, HasRef
    <3>2. lock'[l].refs = IF l = actor[a].lock THEN lock[l].refs + 1 ELSE lock[l].refs
      BY <2>2, <3>1 DEF Adds, RefsOnly, Mine
    <3> QED
      BY <2>1, <3>1, <3>2, UsersMove
  <2>3. CASE Releases(a)
    <3>1. actor[a].lock \in Locks /\ (a \in Users(l) <=> l = actor[a].lock) /\ a \notin Users(l)'
      BY <2>3, LocksNamed DEF Releases, Moves, Users, HasRef
    <3>2. lock'[l].refs = IF l = actor[a].lock THEN lock[l].refs - 1 ELSE lock[l].refs
      BY <2>3, <3>1 DEF Releases, RefsOnly, Mine
    <3> QED
      BY <2>1, <3>1, <3>2, UsersMove
  <2>4. CASE ~Adds(a) /\ ~Releases(a)
    <3>1. a \in Users(l) <=> a \in Users(l)'
      <4>1. CASE Quiet(a)
        BY <4>1 DEF Quiet, Moves, Users, HasRef
      <4>2. CASE Takes(a) \/ Gives(a) \/ Marks(a) \/ Borrows(a) \/ Returns(a) \/ Removes(a)
        BY <4>2 DEF Takes, Gives, Marks, Borrows, Returns, Removes, Moves, Users, HasRef
      <4>3. CASE Finds(a) \/ Looks(a) \/ Leaves(a)
        BY <4>3 DEF Finds, Looks, Leaves, Idle, Users, HasRef
      <4> QED
        BY <1>2, <2>4, <4>1, <4>2, <4>3 DEF Does
    <3>2. lock'[l].refs = lock[l].refs
      <4>1. CASE UNCHANGED lock
        BY <4>1
      <4>2. CASE Takes(a) \/ Gives(a) \/ Marks(a) \/ Borrows(a) \/ Returns(a)
        BY <4>2 DEF Takes, Gives, Marks, Borrows, Returns, HolderOnly, DeletedOnly
      <4> QED
        BY <1>2, <2>4, <4>1, <4>2 DEF Does, Quiet, Finds, Looks, Removes, Leaves
    <3> QED
      BY <2>1, <3>1, <3>2, UsersMove
  <2> QED
    BY <2>2, <2>3, <2>4
<1> QED
  BY <1>1, <1>2

\* A lock is marked deleted by its holder, who then releases it. Whoever leaves it,
\* and is not the last, leaves another behind; the last one finds the mark.
LEMMA TombstoneKept ==
  ASSUME MutexInv, CountInv, TombstoneLeaves,
         NEW a \in Actors, Typed', \A b \in Actors \ {a} : actor'[b] = actor[b], Does(a)
  PROVE  TombstoneLeaves'
<1> DEFINE Stays(b) == actor[b].lock = runLocks /\ actor[b].pc \notin {"load", "end"}
<1> SUFFICES ASSUME runLocks' # None, lock'[runLocks'].deleted
             PROVE  \E b \in Actors : Stays(b)'
  BY DEF TombstoneLeaves
<1>0. runLocks' \in Locks /\ runLocks' # None
  BY DEF Typed
<1>1. ~Stores(a) /\ ~Removes(a)
  BY DEF Stores, Removes, NewLock
<1>2. runLocks' = runLocks
  BY <1>1 DEF Does, Quiet, Takes, Finds, Adds, Gives, Marks, Looks, Borrows, Returns, Releases, Leaves
<1>3. CASE Marks(a) /\ actor[a].lock = runLocks
  BY <1>2, <1>3 DEF Marks, Moves
<1>4. CASE ~(Marks(a) /\ actor[a].lock = runLocks)
  <2>1. lock[runLocks].deleted
    <3>1. CASE Takes(a) \/ Gives(a) \/ Borrows(a) \/ Returns(a) \/ Adds(a) \/ Releases(a) \/ Marks(a)
      BY <1>0, <1>2, <1>4, <3>1 DEF Takes, Gives, Borrows, Returns, Adds, Releases, Marks, HolderOnly,
         RefsOnly, DeletedOnly
    <3>2. CASE UNCHANGED lock
      BY <1>2, <3>2
    <3> QED
      BY <1>1, <3>1, <3>2 DEF Does, Quiet, Finds, Looks, Leaves
  <2>2. PICK b \in Actors : Stays(b)
    BY <1>0, <1>2, <2>1 DEF TombstoneLeaves
  <2>3. CASE b # a \/ Stays(a)'
    BY <1>2, <2>2, <2>3
  <2>4. CASE b = a /\ ~Stays(a)'
    <3>1. Releases(a) /\ Mine(a).refs # 1
      <4>1. CASE Quiet(a)
        BY <1>0, <1>2, <2>1, <2>2, <2>4, <4>1 DEF Quiet, Moves, Mine, MutexInv, MutexOf
      <4>2. CASE Takes(a) \/ Adds(a) \/ Gives(a) \/ Marks(a) \/ Borrows(a) \/ Returns(a)
        BY <1>2, <2>2, <2>4, <4>2 DEF Takes, Adds, Gives, Marks, Borrows, Returns, Moves
      <4>3. CASE Finds(a) \/ Looks(a) \/ Leaves(a)
        BY <1>2, <2>2, <2>4, <4>3 DEF Finds, Looks, Leaves
      <4>4. CASE Releases(a)
        BY <1>2, <2>2, <2>4, <4>4 DEF Releases, Moves
      <4> QED
        BY <1>1, <4>1, <4>2, <4>3, <4>4 DEF Does
    <3>2. a \in Users(runLocks) /\ Cardinality(Users(runLocks)) # 1
      BY <1>0, <1>2, <2>2, <2>4, <3>1 DEF Releases, Moves, Users, HasRef, CountInv, Garbage, Mine
    <3>3. Users(runLocks) # {a}
      BY <3>2, FS_Singleton
    <3>4. PICK c \in Users(runLocks) : c # a
      BY <3>2, <3>3
    <3> QED
      BY <1>2, <3>4 DEF Users, HasRef
  <2> QED
    BY <2>3, <2>4
<1> QED
  BY <1>3, <1>4

\* The count of a lock that a call releases has that call in it.
NoneNegative == \A l \in Locks : lock[l].refs \in Nat

LEMMA CountsStayNatural ==
  ASSUME MutexInv, CountInv, NoneNegative,
         NEW a \in Actors, Typed', \A b \in Actors \ {a} : actor'[b] = actor[b], Does(a)
  PROVE  NoneNegative'
<1> SUFFICES ASSUME NEW l \in Locks PROVE lock'[l].refs \in Nat
  BY DEF NoneNegative
<1>1. lock[l].refs \in Nat
  BY DEF NoneNegative
<1>2. CASE UNCHANGED lock
  BY <1>1, <1>2
<1>3. CASE Takes(a) \/ Gives(a) \/ Marks(a) \/ Borrows(a) \/ Returns(a)
  BY <1>1, <1>3 DEF Takes, Gives, Marks, Borrows, Returns, HolderOnly, DeletedOnly
<1>4. CASE Adds(a)
  BY <1>1, <1>4 DEF Adds, RefsOnly, Mine
<1>5. CASE Stores(a)
  BY <1>1, <1>5 DEF Stores, NewLock
<1>6. CASE Releases(a)
  <2>1. CASE l # actor[a].lock
    BY <1>1, <1>6, <2>1 DEF Releases, RefsOnly
  <2>2. CASE l = actor[a].lock
    <3>1. a \in Users(l) /\ ~Garbage(l)
      BY <1>6, <2>2 DEF Releases, Moves, Users, HasRef, Garbage
    <3>2. lock[l].refs = Cardinality(Users(l))
      BY <3>1 DEF CountInv
    <3>3. Users(l) # {} /\ IsFiniteSet(Users(l))
      BY <3>1, FiniteUsers
    <3>4. Cardinality(Users(l)) # 0
      BY <3>3, FS_EmptySet
    <3>5. lock'[l].refs = lock[l].refs - 1
      BY <1>6, <2>2 DEF Releases, RefsOnly, Mine
    <3> QED
      BY <1>1, <3>2, <3>4, <3>5
  <2> QED
    BY <2>1, <2>2
<1> QED
  BY <1>2, <1>3, <1>4, <1>5, <1>6 DEF Does, Quiet, Finds, Looks, Removes, Leaves

-----------------------------------------------------------------------------
\* Theorems

LockInv == MutexInv /\ CountInv /\ TombstoneLeaves /\ NoneNegative

LEMMA LockStepKeeps == LockInv /\ [Next]_vars => LockInv'
<1> SUFFICES ASSUME LockInv, [Next]_vars PROVE LockInv'
  OBVIOUS
<1>1. ASSUME NEW a \in Actors, Begin(a) \/ Acquire(a) \/ Progress(a) PROVE LockInv'
  <2>1. Typed' /\ (\A b \in Actors \ {a} : actor'[b] = actor[b]) /\ Does(a)
    BY <1>1, StepDoes DEF LockInv
  <2> QED
    BY <2>1, MutexKept, CountKept, TombstoneKept, CountsStayNatural DEF LockInv
<1>2. CASE UNCHANGED vars
  <2>1. UNCHANGED <<runLocks, lock, actor, registered>>
    BY <1>2 DEF vars
  <2>2. MutexInv'
    BY <2>1 DEF LockInv, MutexInv, Typed, MutexOf, Mine, Found
  <2>3. CountInv' /\ TombstoneLeaves' /\ NoneNegative'
    BY <2>1 DEF LockInv, CountInv, Users, Garbage, TombstoneLeaves, NoneNegative
  <2> QED
    BY <2>2, <2>3 DEF LockInv
<1> QED
  BY <1>1, <1>2 DEF Next

LEMMA InitiallyUnlocked == Init => LockInv
<1> SUFFICES ASSUME Init PROVE LockInv
  OBVIOUS
<1>1. MutexInv
  BY InitiallyFree
<1>2. CountInv /\ TombstoneLeaves /\ NoneNegative
  BY NoneIsNeither DEF Init, Idle, NewLock, CountInv, Garbage, TombstoneLeaves, NoneNegative
<1> QED
  BY <1>1, <1>2 DEF LockInv

LEMMA LockSpecKeeps == Spec => []LockInv
BY InitiallyUnlocked, LockStepKeeps, PTL DEF Spec

\* A lock's count is that of its users on every path of acquireRunLock, unlockRun and
\* releaseRunLockRef, and is never negative.
THEOREM CountsAreExact == Spec => [](RefsCounted /\ TypeOK)
<1>1. LockInv => RefsCounted
  BY DEF LockInv, CountInv, RefsCounted, Users
<1>2. LockInv => TypeOK
  <2> SUFFICES ASSUME LockInv PROVE TypeOK
    OBVIOUS
  <2>1. Typed /\ NoneNegative
    BY DEF LockInv, MutexInv
  <2>2. lock \in [Locks -> [holder : Actors \cup {None}, refs : Nat, deleted : BOOLEAN]]
    BY <2>1 DEF Typed, NoneNegative
  <2> QED
    BY <2>1, <2>2 DEF Typed, TypeOK
<1> QED
  BY <1>1, <1>2, LockSpecKeeps, PTL

\* A RunTask call that waited while a delete removed the run is turned away: nothing
\* executes under a lock that a delete has marked.
THEOREM NoRunUnderTombstone == Spec => []TombstoneRespected
<1>1. LockInv => TombstoneRespected
  BY DEF LockInv, MutexInv, MutexOf, TombstoneRespected
<1> QED
  BY <1>1, LockSpecKeeps, PTL

\* The ID of a deleted run can be used again: the marked lock is in the map only as
\* long as some call is on its way to take it out.
THEOREM TombstoneHasAUser == Spec => []TombstoneLeaves
<1>1. LockInv => TombstoneLeaves
  BY DEF LockInv
<1> QED
  BY <1>1, LockSpecKeeps, PTL
=============================================================================
