---------------------------- MODULE MCLockOrder ---------------------------
\* Two calls.
EXTENDS LockOrder

MCCalls == {0, 1}
=============================================================================
