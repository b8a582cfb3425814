---------------------------- MODULE MCStepWatch ----------------------------
(***************************************************************************)
(* StepWatch for TLC. Behaviours are followed for one frame less when a    *)
(* second client watches, for two less when a second step appends, and not *)
(* when both do: steps matter to a watch by the order of their fan-outs,   *)
(* other watches by the set they share with it. The steps append in the    *)
(* order of their names. A client for whom compaction fell between its     *)
(* reads is not followed further, nor is one with two excuses.             *)
(***************************************************************************)
EXTENDS StepWatch, FiniteSets

CONSTANT First  \* the step that appends first

Begun == {log[i].step : i \in DOMAIN log}
Watching == {w \in Watchers : ~At(w, "idle") \/ client[w].got # <<>> \/ excuse[w] # {}}

Bound ==
  /\ Begun # {} => First \in Begun
  /\ Cardinality(Begun) <= 1 \/ Cardinality(Watching) <= 1
  /\ Len(log) + 2 * Cardinality(Begun) + Cardinality(Watching) <= MaxFrames + 3
  /\ \A w \in Watchers : Cardinality(excuse[w]) <= 1 /\ "straddled" \notin excuse[w]
=============================================================================
