----------------------------- MODULE MCFrameScan -----------------------------
(* FrameScan for TLC: two entries, and one that is too large by one byte.     *)
EXTENDS FrameScan

MCPayloads == {<<1>>, <<2, 0, 1>>, [k \in 1..(MaxPayload + 1) |-> 1]}
=============================================================================
