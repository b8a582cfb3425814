------------------------------ MODULE MemoStore ------------------------------
(***************************************************************************)
(* What a durable run promises its task: every step gets one outcome, and  *)
(* the task never sees another one; the run ends once. How often a step's  *)
(* function runs, where its outcome comes from, crashes and retries are    *)
(* not visible here.                                                       *)
(*                                                                         *)
(* The one loss it allows: an outcome no one has seen yet may be dropped   *)
(* when the run ends (the signal of a suspended step which the run did not *)
(* live to consume).                                                       *)
(***************************************************************************)
EXTENDS Naturals

CONSTANTS Steps, Outcomes, Undecided  \* Undecided: no outcome

VARIABLES
  status,   \* "active", "completed" or "failed"
  decided,  \* the outcome of each step
  seen      \* the outcomes the task was given, per step

memoVars == <<status, decided, seen>>

MemoTypeOK ==
  /\ status \in {"active", "completed", "failed"}
  /\ decided \in [Steps -> Outcomes \cup {Undecided}]
  /\ seen \in [Steps -> SUBSET Outcomes]

MemoInit ==
  /\ status = "active"
  /\ decided = [s \in Steps |-> Undecided]
  /\ seen = [s \in Steps |-> {}]

\* A step gets its outcome, and the task may see it at once.
Decide(s) ==
  /\ status = "active" /\ decided[s] = Undecided
  /\ decided'[s] \in Outcomes /\ decided' = [decided EXCEPT ![s] = decided'[s]]
  /\ seen' \in {seen, [seen EXCEPT ![s] = @ \cup {decided'[s]}]}
  /\ UNCHANGED status

Show(s) ==
  /\ status = "active" /\ decided[s] # Undecided
  /\ seen' = [seen EXCEPT ![s] = @ \cup {decided[s]}]
  /\ UNCHANGED <<status, decided>>

End(st) ==
  /\ status = "active" /\ status' = st
  /\ \E lost \in SUBSET {s \in Steps : seen[s] = {}} :
       decided' = [s \in Steps |-> IF s \in lost THEN Undecided ELSE decided[s]]
  /\ UNCHANGED seen

MemoNext ==
  \/ \E s \in Steps : Show(s) \/ Decide(s)
  \/ \E st \in {"completed", "failed"} : End(st)

MemoSpec == MemoInit /\ [][MemoNext]_memoVars

\* What the task saw of a step is the step's outcome, in every state: so it never
\* saw two.
SeenIsDecided == \A s \in Steps : seen[s] \subseteq {decided[s]}
=============================================================================
