SPECIFICATION Spec
CONSTANT Commits = 3
INVARIANT MemoryOnlyContract
CHECK_DEADLOCK FALSE
