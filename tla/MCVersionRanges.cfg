SPECIFICATION Spec
INVARIANT RangesMeanWhatTheySay
CHECK_DEADLOCK FALSE
