\* One script calling get_or_create_user, once more after the create timed
\* out.
\* The script ends, so a state where every call has ended is no deadlock.
CONSTANTS
    Callers = {c1}
    Names = {n1}
    Ids <- MCIds
    MaxRetries = 1
    MaxFailures = 1
    Asked = {"user"}
    Free = Free

SPECIFICATION Spec
INVARIANT NoDuplicateName
CHECK_DEADLOCK FALSE
