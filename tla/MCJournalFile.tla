--------------------------- MODULE MCJournalFile ---------------------------
\* JournalFile for TLC: the appenders are interchangeable, and behaviours in which
\* appends have overlapped, of which fewer properties speak, are followed less far.
EXTENDS JournalFile

Symmetry == Permutations(Appenders)
Bound == overlapped => ops <= 2 /\ faults <= 1
=============================================================================
