\* Three threads: two that despawn and one that spawns meanwhile.  Four
\* entities: enough for a full registry and one that is entered late.
CONSTANTS
    Caller = {c1, c2, c3}
    MaxEntity = 4
SYMMETRY Symmetry
SPECIFICATION RegistrySpec
INVARIANTS
    NoLeak
    DeletedOnce
