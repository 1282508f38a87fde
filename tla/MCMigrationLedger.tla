------------------------- MODULE MCMigrationLedger --------------------------
\* Instances of MigrationLedger for TLC: a build, the next one with a
\* migration more, and one whose second migration was edited in place.
EXTENDS MigrationLedger, TLC

MCList == [b \in {"old", "new", "edited"} |->
    CASE b = "old" -> <<"a", "b">>
      [] b = "new" -> <<"a", "b", "c">>
      [] b = "edited" -> <<"a", "x">>]
=============================================================================
