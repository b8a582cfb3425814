---------------------------- MODULE MCStepTokens ----------------------------
(* StepTokens for TLC: step IDs with colons in every place, and digits where  *)
(* an expiry could be.                                                        *)
EXTENDS StepTokens, TLC

MCDecimal == [n \in 0..9 |-> ToString(n)]
MCField == {"", "a"} \cup {ToString(n) : n \in 0..9}
MCPathIDs == {"a", "1"}
MCStepIDs == {<<"a">>, <<"a", "1">>, <<"", "a">>, <<"a", "">>, <<"", "">>}
=============================================================================
