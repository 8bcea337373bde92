CONSTANTS
    Requests = {r1, r2}
    Patterns = {"orders"}
    Codes = {0, 103, 204}
    MaxCalls = 2
SPECIFICATION XSpec
SYMMETRY Symmetry
INVARIANTS InflightMatches RecordedIsSent PanicAnswered SuccessIsServed
CHECK_DEADLOCK FALSE
