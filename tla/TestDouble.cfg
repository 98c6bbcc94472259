SPECIFICATION FairSpec
CONSTANTS
    c1 = c1
    c2 = c2
    Callers = {c1, c2}
    MaxCalls <- MCMaxCalls
    Indices = {1}
    Doubles <- MCDoubles
    None = None
INVARIANT
    CopyIsOfOneInstant
PROPERTIES
    AnswersAsSetUp
    CallsReturn
CHECK_DEADLOCK FALSE
