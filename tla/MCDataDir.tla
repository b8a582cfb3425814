----------------------------- MODULE MCDataDir -----------------------------
(* DataDir for TLC: openers w1 and r1 in one process, w2 in another.       *)
EXTENDS DataDir, TLC

CONSTANTS w1, w2, r1

MCWriters == {w1, w2}
MCReaders == {r1}
MCProcesses == {{w1, r1}, {w2}}

\* The actors that remove runs take the same steps.
Symmetry == Permutations(Removers)

\* Behaviours with an I/O error are followed less far.
Bound == used.faults > 0 => used.calls < MaxCalls
=============================================================================
