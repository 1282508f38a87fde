------------------------- MODULE MCArchiveAdmission -------------------------
\* Instances of ArchiveAdmission for TLC: the symmetry of the model values.
EXTENDS ArchiveAdmission, TLC

Symmetry ==
    Permutations(Intake) \cup Permutations(Row) \cup Permutations(Key)
=============================================================================
