\* Three requests of two addresses, over two cooldowns.
CONSTANTS
    IPs = {x, y}
    Reqs = {r1, r2, r3}
    Threshold = 2
    Window = 2
    Cooldown = 3
    MaxTime = 10
\* The clock stops at MaxTime, and an address in cooldown then has no step left.
CHECK_DEADLOCK FALSE
SPECIFICATION Spec
SYMMETRY Symmetry
INVARIANT FailureRateBounded
PROPERTY CooldownDeserved
PROPERTY CooldownServed
