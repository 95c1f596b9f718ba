\* Two scripts, each calling a helper for the one name, once more after
\* an error; one failed call.  The scripts end, so a state where every
\* call has ended is no deadlock.
CONSTANTS
    Callers = {c1, c2}
    Names = {n1}
    Ids <- MCIds
    MaxRetries = 1
    MaxFailures = 1
    Asked = {"organization", "user"}
    Free = Free

SPECIFICATION Spec
INVARIANT NoDuplicateName
CHECK_DEADLOCK FALSE
