CONSTANTS
    x1 = x1  x2 = x2
    Activation = {x1, x2}
    MaxFaults = 2
    MaxCrashes = 1
SYMMETRY Activations
SPECIFICATION JarSpec
INVARIANTS OnlyVerified PriorKept NoLitter RunsPinned
CHECK_DEADLOCK FALSE
