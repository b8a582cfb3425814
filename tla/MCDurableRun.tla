---------------------------- MODULE MCDurableRun ----------------------------
(***************************************************************************)
(* DurableRun for TLC. The constants get their values in the .cfg files.   *)
(* Step IDs and the names of callers are interchangeable, so every safety  *)
(* run may reduce by their permutations; the liveness run does not.        *)
(***************************************************************************)
EXTENDS DurableRun, FiniteSets, TLC

Symmetry == Permutations(Steps) \cup Permutations(Completers \ BadCompleters)
              \cup Permutations(Cancellers)

Begun == {s \in Steps : execs[s] > 0 \/ go[s].pc # "idle"}

\* Some step was run under a new version.
Bumped == \E s \in Steps : go[s].ver # "" \/ journal.steps[s].ver # ""

\* Failing I/O calls, timeouts of the run, retries of a step and new versions are
\* followed for one step, a new version without the others; crashes, retries of the
\* task and timeouts of steps for siblings too.
Bound ==
  /\ Cardinality(Begun) > 1 => ~Bumped
  /\ Cardinality(Begun) > 1 \/ Bumped => /\ used.faults = 0 /\ used.timeouts = 0
                                        /\ \A s \in Steps : go[s].try = 0
=============================================================================
