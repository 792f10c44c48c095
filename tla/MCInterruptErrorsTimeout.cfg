\* The same bounds; checks only that a timeout is reported over a
\* checkpoint request.
CONSTANTS
    MaxTime = 4
    TimeLimits = {1, 2}

SPECIFICATION Spec

PROPERTY TimeoutReported
