SPECIFICATION Spec
INVARIANT SomeStatementStands
CHECK_DEADLOCK FALSE
