SPECIFICATION Spec
CHECK_DEADLOCK FALSE
CONSTANT MaxFaults = 2
INVARIANTS ReplyTypeOK AcceptedAsDocumented NothingMissing RefusedOtherwise
