\* One connection, a clock of 4 ticks and time limits of 1 and 2 ticks, so
\* that a limit passes while a statement runs, between statements, and while
\* the checkpoint thread is busy.
CONSTANTS
    MaxTime = 4
    TimeLimits = {1, 2}

SPECIFICATION Spec

INVARIANT TypeOK
INVARIANT AutoRollbackFlagExact
