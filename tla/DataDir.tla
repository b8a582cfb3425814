------------------------------ MODULE DataDir ------------------------------
(***************************************************************************)
(* The data directory as its users share it: DirLock says who may use it,  *)
(* TaskTree what the open engine does in it, and a read-only engine that   *)
(* is open lists the runs, one meta.json after the other, beside whatever  *)
(* goes on then. Opening an engine sweeps the directory, closing it waits, *)
(* and killing its process takes its goroutines with it.                   *)
(***************************************************************************)
EXTENDS DirLock, TaskTree

VARIABLE reader  \* what each ReadOnlyEngine has still to read and has read

vars == <<dirVars, treeVars, reader>>

NotReading == [todo |-> <<>>, got |-> {}]

TypeOK ==
  /\ DirTypeOK
  /\ TreeTypeOK
  /\ reader \in [Readers -> [todo : Seq(Runs), got : SUBSET (Runs \X Status)]]

Init == DirInit /\ TreeInit /\ reader = [o \in Readers |-> NotReading]

WritesNow(o) == o \in Writers /\ opener[o] \in {"open", "closing"}

\* What a reader has read is returned, or lost, when it is no longer open.
ReadersLeave == reader' = [o \in Readers |-> IF opener'[o] = "open" THEN reader[o] ELSE NotReading]

Gate(o) == DirStep(o) /\ ReadersLeave /\ UNCHANGED treeVars

Use == TreeStep /\ Observe /\ UNCHANGED <<dirVars, reader>>

\* NewEngine sweeps while it holds the directory, and starts the engine.
Open(o) == Sweep(o) /\ OpenEngine /\ Observe /\ UNCHANGED reader

\* Engine.Close, in two halves: stopCh, and what follows when it has waited.
Close(o) ==
  /\ \/ BeginClose(o) /\ StopEngine
     \/ EndClose(o) /\ CloseEngine
  /\ Observe
  /\ UNCHANGED reader

\* The process dies, and with it the engine if it is there.
Killed(p) ==
  /\ Kill(p)
  /\ IF \E o \in p : WritesNow(o) THEN Crash /\ Observe
     ELSE UNCHANGED treeVars
  /\ ReadersLeave

\* ReadOnlyEngine.ListTasks: the names in the directory, then each meta.json.
List(o) ==
  /\ opener[o] = "open" /\ reader[o] = NotReading
  /\ reader' = [reader EXCEPT ![o].todo = Listing]
  /\ UNCHANGED <<dirVars, treeVars>>

ReadMeta(o) ==
  /\ reader[o].todo # <<>>
  /\ LET r == Head(reader[o].todo) IN
     reader' = [reader EXCEPT ![o] = [todo |-> Tail(@.todo), got |-> @.got \cup {<<r, dir[r].meta>>}]]
  /\ UNCHANGED <<dirVars, treeVars>>

Next ==
  \/ \E o \in Openers : Gate(o) \/ Open(o) \/ Close(o)
  \/ \E o \in Readers : List(o) \/ ReadMeta(o)
  \/ \E p \in Processes : Killed(p)
  \/ Use

Spec == Init /\ [][Next]_vars

-----------------------------------------------------------------------------
\* Properties

\* lock.go:76-77 ("so a writer never shares the journal with another writer or a
\* reader"): a reader reads the directory run by run, and what it read first still
\* holds when it reads the last: no engine, and nothing that an engine started,
\* writes while a reader is open.
ReaderSnapshot ==
  \A o \in Readers : \A seen \in reader[o].got : dir[seen[1]].meta = seen[2]
=============================================================================
