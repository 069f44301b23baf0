CONSTANTS
    Callers = {c1, c2}
    Reader = reader
    NoOne = noone
    NoResponse = noresponse
    ResponsePrefixes = {p1}
    Digit = digit
    AnyPrefix = any
    HasTimeout = FALSE
    HasClosedCb = TRUE
    SharedStrbuf = TRUE
    CallersClose = TRUE
    HandshakeTries = 2
    MaxCalls = 2
    MaxInfos = 1
    MaxUrcs = 0
    Scenarios <- Live
SPECIFICATION FairSpec
PROPERTIES
    CommandReturns
    ReaderEnds
