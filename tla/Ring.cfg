\* Two slots and four index values: both indices wrap, the ring fills and
\* empties, and a call can be longer than the room or the content it finds.
CONSTANTS
    Byte = {0, 1}
    Cap = 2
    W = 4
    MaxN = 3
SPECIFICATION Spec
INVARIANTS NoRace CountSafe
PROPERTY Linearizable
