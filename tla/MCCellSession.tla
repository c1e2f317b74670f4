----------------------------- MODULE MCCellSession -----------------------------
EXTENDS CellSession, TLC

\* Runs, inputs and stop requests are interchangeable.
MCSymmetry == Permutations(Runs) \cup Permutations(Inputs) \cup Permutations(Stoppers)

=============================================================================
