---------------------------- MODULE ServiceWindow ----------------------------
(***************************************************************************)
(* What the work queue of a DELayout promises its PETs: every DE is        *)
(* serviced in rounds, a round of a DE is granted to exactly one PET, and  *)
(* the service windows of one DE never overlap.  There is no mutex, no     *)
(* counter and no call in progress here; WorkQueue implements this module. *)
(***************************************************************************)
EXTENDS Naturals

CONSTANTS PET,        \* the PETs of one VM
          DE,         \* the DEs of one DELayout
          NoPet       \* "no PET holds the window"

VARIABLES round,      \* round[d]: number of rounds of d granted so far
          pending,    \* <<p, d>>: p was granted a round of d and waits for the window
          window      \* window[d]: the PET working on d, or NoPet

winVars == <<round, pending, window>>

Init == /\ round = [d \in DE |-> 0]
        /\ pending = {}
        /\ window = [d \in DE |-> NoPet]

\* The next round of d goes to p.
Grant(p, d) == /\ <<p, d>> \notin pending
               /\ window[d] # p
               /\ round' = [round EXCEPT ![d] = @ + 1]
               /\ pending' = pending \cup {<<p, d>>}
               /\ UNCHANGED window

Open(p, d) == /\ <<p, d>> \in pending
              /\ window[d] = NoPet
              /\ window' = [window EXCEPT ![d] = p]
              /\ pending' = pending \ {<<p, d>>}
              /\ UNCHANGED round

Close(p, d) == /\ window[d] = p
               /\ window' = [window EXCEPT ![d] = NoPet]
               /\ UNCHANGED <<round, pending>>

Next == \E p \in PET, d \in DE : Grant(p, d) \/ Open(p, d) \/ Close(p, d)

Spec == Init /\ [][Next]_winVars
==============================================================================
