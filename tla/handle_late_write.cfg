SPECIFICATION Spec
CONSTANT MaxDispatch = 1
INVARIANT UnreachableNeverDelivered
CHECK_DEADLOCK FALSE
