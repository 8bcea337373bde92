CONSTANTS
    Requests = {r1}
    Patterns = {"orders"}
    Codes = {200, 404}
    MaxCalls = 2
SPECIFICATION Spec
INVARIANTS ProblemIsWholeResponse
CHECK_DEADLOCK FALSE
