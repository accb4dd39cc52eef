SPECIFICATION Spec
CONSTANT Documents <- MCDocuments
INVARIANTS TypeOK PoolSound UsedOnce NamesComplete
CHECK_DEADLOCK FALSE
