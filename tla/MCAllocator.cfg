CONSTANTS
    Blocks = 3
    Keep = 1
    Sizes = {1, 2, 4}
    Bases = {0, 3, 7}
SPECIFICATION Spec
INVARIANTS Tiled Coalesced Accounted
PROPERTIES MapsWhenFull KeepsPromise
