SPECIFICATION FairSpec
CONSTANTS
    Calls = {c1, c2}
    c1 = c1
    c2 = c2
    Base = 4
    Procedure <- OneProcedure
    Arguments <- SomeArguments
    Cut <- SomeCuts
    Arity <- TwoArguments
    LastIndex <- LargeIndex
    Script <- SomeScript
    PipeSize = 4
    IntSize = 2
    None = None
INVARIANTS RightArguments StopsRightly
PROPERTIES RefinesFifo CallsRun EndNoticed
CHECK_DEADLOCK FALSE
