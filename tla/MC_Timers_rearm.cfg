\* Handlers that re-arm timers from inside a timer callback.
CONSTANTS
    h1 = h1
    h2 = h2
    b1 = b1
    b2 = b2
    none = none
    Heights <- MCHeights
    Blks <- MCBlks
    None <- none
SPECIFICATION Spec
INVARIANTS RearmedStaysArmed
