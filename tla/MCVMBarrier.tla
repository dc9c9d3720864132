----------------------------- MODULE MCVMBarrier ------------------------------
\* Five PETs: a process with three threads, and one with two.
EXTENDS VMBarrier

MCPid == [p \in PET |-> IF p \in {0, 1, 3} THEN 0 ELSE 1]
MCCalls == <<"barrier", "threadbarrier", "barrier", "barrier">>
==============================================================================
