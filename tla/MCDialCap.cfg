\* A dial against the cap that the comment on dialTimeout names.
SPECIFICATION DeadlineSpec
CONSTANTS
    Path <- AllPaths
    dialTimeout = 3
    requestTimeout = 9
    clientHandshakeTimeout = 9
    clientIdleTimeout = 12
    ScramMessages = 2
INVARIANTS
    DialWithinTimeout
