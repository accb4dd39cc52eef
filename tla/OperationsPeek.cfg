SPECIFICATION Spec
CONSTANT Documents <- MCSeveralBodies
INVARIANTS ReadsWhatItConsumes
CHECK_DEADLOCK FALSE
