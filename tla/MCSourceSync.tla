---------------------------- MODULE MCSourceSync ----------------------------
\* Instances of SourceSync for TLC: the requests are interchangeable.
EXTENDS SourceSync, TLC

Symmetry == Permutations(Worker)
=============================================================================
