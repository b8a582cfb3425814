------------------------ MODULE DurableRunRefinement ------------------------
(***************************************************************************)
(* DurableRun implements MemoStore, for a task that passes no versions and *)
(* a disk that does not fail. A step is decided by its journal record, and *)
(* a suspended one already by its signal: from the append on, whether the  *)
(* waiter has noticed or the process crashes first. The record of a step   *)
(* that was resumed from the cache stays "waiting" in the journal, so once *)
(* the run has ended its signal counts if the task has seen it.            *)
(***************************************************************************)
EXTENDS MCDurableRun

memoStatus == IF meta.st \in Terminal THEN meta.st ELSE "active"

memoDecided == [s \in Steps |->
  IF journal.steps[s].st \in Terminal
  THEN [st |-> journal.steps[s].st, val |-> journal.steps[s].val]
  ELSE IF /\ journal.steps[s].st = "waiting" /\ journal.signals[s] # None
          /\ memoStatus = "active" \/ obs[s] # {}
       THEN Completed(journal.signals[s])
       ELSE NoOutcome]

memoSeen == [s \in Steps |-> {[st |-> o.st, val |-> o.val] : o \in obs[s]}]

MemoOutcomes == [st : Terminal, val : Value]

Memo == INSTANCE MemoStore WITH
  Outcomes <- MemoOutcomes, Undecided <- NoOutcome,
  status <- memoStatus, decided <- memoDecided, seen <- memoSeen

\* Every step of every actor is a step of the memo store, or invisible there: a
\* step is decided once, shown as decided, and the run ends once.
RefinesMemoStore == Memo!MemoSpec
=============================================================================
