CONSTANTS
    UNREAD = UNREAD
    FAILED = FAILED
    Uris = {"https", "ipfs"}
SPECIFICATION Spec
INVARIANT NeverWaitsInVain
CHECK_DEADLOCK FALSE
