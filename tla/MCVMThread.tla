------------------------------ MODULE MCVMThread ------------------------------
\* Three PETs, threads of one process: PET 0 spawns the child PETs c1 and c2, PETs 1 and 2
\* contribute their cores.
EXTENDS VMThread

CONSTANTS c1, c2

MCPid == [p \in PET |-> 0]
\* PET 0 spawns two child PETs, or only one.
MCSpawned == [p \in PET |-> IF p = 0 THEN <<c1, c2>> ELSE <<>>]
MCSpawnedOne == [p \in PET |-> IF p = 0 THEN <<c1>> ELSE <<>>]
\* Each contributes to another child PET, or both to the first, or there is no contributor.
Apart == [k \in {1, 2} |-> IF k = 1 THEN c1 ELSE c2]
Together == [k \in {1, 2} |-> c1]
Nobody == [k \in {} |-> c1]
==============================================================================
