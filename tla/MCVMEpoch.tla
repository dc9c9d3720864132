------------------------------ MODULE MCVMEpoch -------------------------------
\* Three PETs and four epochs: PET 0 sends two messages to each of the others; PET 0 sends one
\* and PET 2 two to PET 1; PET 1 sends to PET 0; PET 0 sends to both others again.
EXTENDS VMEpoch

Only(m) == [x \in Pair |-> IF x \in DOMAIN m THEN m[x] ELSE 0]
To12 == Only([x \in {<<0, 1>>, <<0, 2>>} |-> 2])
From2 == Only([x \in {<<0, 1>>, <<2, 1>>} |-> IF x[1] = 0 THEN 1 ELSE 2])
Back == Only([x \in {<<1, 0>>} |-> 1])
To2 == Only([x \in {<<0, 2>>, <<0, 1>>} |-> 1])
MCCount == <<To12, From2, Back, To2>>
==============================================================================
