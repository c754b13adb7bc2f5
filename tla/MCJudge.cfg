\* Every outcome of the runs and checkers of two tests.
SPECIFICATION JudgeSpec
CONSTANT N = 2
INVARIANTS JudgeTypeOK AcceptedIsChecked
PROPERTY ImplementsVerdict
CHECK_DEADLOCK FALSE
