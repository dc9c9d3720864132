----------------------------- MODULE MCWorkQueue -----------------------------
\* WorkQueue with three PETs and two DEs: two PETs are threads of one VAS and compete, the
\* third one is alone in a second VAS and refused.
EXTENDS WorkQueue, TLC

CONSTANTS p1, p2, p3, d1, d2

TwoVas == p1 :> "vas1" @@ p2 :> "vas1" @@ p3 :> "vas2"
\* The DE to PET mapping of a petMap that names p1 and p2 only.
MCDePet == d1 :> p1 @@ d2 :> p2
==============================================================================
