SPECIFICATION QueueSpec
CONSTANTS
    Request = {r1, r2, r3}
    Sync = {s1, s2}
SYMMETRY Symmetry
INVARIANT QueuedIsKept
