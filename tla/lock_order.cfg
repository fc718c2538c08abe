SPECIFICATION Spec
CONSTANT Calls <- MCCalls
INVARIANT NoDeadlock
CHECK_DEADLOCK FALSE
