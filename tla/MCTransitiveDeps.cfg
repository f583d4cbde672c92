SPECIFICATION Spec
CONSTANT TaskIds = {1, 2, 3}
INVARIANT TypeOK
INVARIANT ResultIsReach
PROPERTY Returns
CHECK_DEADLOCK FALSE
