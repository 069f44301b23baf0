CONSTANTS
    Callers = {c1, c2}
    Reader = reader
    NoOne = noone
    NoResponse = noresponse
    ResponsePrefixes = {p1}
    Digit = digit
    AnyPrefix = any
    HasTimeout = TRUE
    HasClosedCb = TRUE
    SharedStrbuf = FALSE
    CallersClose = FALSE
    HandshakeTries = 2
    MaxCalls = 3
    MaxInfos = 2
    MaxUrcs = 1
    Scenarios <- Safety
SPECIFICATION Spec
SYMMETRY CallerSymmetry
INVARIANTS
    LockInv
    AnswersItsCommand
    IntermediatesComplete
PROPERTY
    WritesOwnCommand
