SPECIFICATION Spec
INVARIANTS TypeOK NeverRepeated EvidenceIsTrue
CHECK_DEADLOCK FALSE
