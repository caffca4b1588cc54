\* Every timer, three seconds.
CONSTANTS
    UsPerSec = 10
    NsPerUs = 10
    IntMax = 255
    Timers <- AllTimers
    MaxSec = 2
SPECIFICATION Spec
INVARIANTS NotEarly NotLate RefusedExactly
