CONSTANT MaxHostRefs = 8
SPECIFICATION DllFairSpec
\* After process exit nothing happens.
CHECK_DEADLOCK FALSE
INVARIANTS NoCodeAfterUnmap FailedAttachLeavesNothing StopEventUsable
PROPERTY LoaderLockReleased
