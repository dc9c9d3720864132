--------------------------- MODULE ShmChannelProofs ---------------------------
(***************************************************************************)
(* TLAPS proofs about ShmChannel, for any number of transfers, any route   *)
(* through any set of buffers, and any user memory.                        *)
(***************************************************************************)
EXTENDS ShmChannel, TLAPS

USE NAssumption, RouteAssumption, SlotAssumption

\* The PET has raised its flag in the handshake of its current transfer.
Flipped == {"spinFlip", "copy", "flop", "spinFlop"}

\* The receiver (sender) has taken the flag of the sender's (receiver's) transfer down.
RPassed == rNo > sNo \/ (rNo = sNo /\ rPc = "spinFlop")
SPassed == sNo > rNo \/ (sNo = rNo /\ sPc = "spinFlop")

\* A PET inside a call is in the branch that the route of its transfer selects.
PcMatchesRoute ==
  /\ sPc \in DirectPc => sNo <= N /\ Route[sNo] = Direct
  /\ rPc \in DirectPc => rNo <= N /\ Route[rNo] = Direct
  /\ sPc \in {"waitEmpty", "copyIn", "setFull"} => sNo <= N /\ Route[sNo] \in Buffer
  /\ rPc \in {"waitFull", "copyOut", "setEmpty"} => rNo <= N /\ Route[rNo] \in Buffer

\* What each flag says of the two program counters.
Flags == /\ aDone = 1 <=> sPc \in Flipped /\ ~RPassed
         /\ bDone = 1 <=> rPc \in Flipped /\ ~SPassed

\* Where the peer is when a PET has got through its first spin.
Meet ==
  /\ sPc \in {"copy", "flop"} => sNo = rNo /\ rPc \in Flipped
  /\ rPc \in {"copy", "flop"} => sNo = rNo /\ sPc \in Flipped
  /\ sPc = "spinFlop" => (sNo = rNo /\ rPc \in Flipped) \/ rNo = sNo + 1
  /\ rPc = "spinFlop" => (sNo = rNo /\ sPc \in Flipped) \/ sNo > rNo

\* What the sender is ahead by went through buffers.
AheadIsBuffered == \A u \in 1..N : rNo < u /\ u < sNo => Route[u] # Direct

Control == PcMatchesRoute /\ Flags /\ Meet /\ AheadIsBuffered /\ Rendezvous

\* Transfers that were sent and not received occupy one buffer each.
InFlight(u) == rNo <= u /\ u < sNo

OneEach == \A u, v \in 1..N : InFlight(u) /\ InFlight(v) /\ u # v /\ Route[u] \in Buffer
                                => Route[u] # Route[v]
FullIff == \A i \in Buffer : full[i] = 1 <=> \E u \in 1..N : InFlight(u) /\ Route[u] = i
Holds == \A u \in 1..N : InFlight(u) /\ Route[u] \in Buffer => buffer[Route[u]] = u
InCall == /\ sPc \in {"copyIn", "setFull"} => full[Route[sNo]] = 0
          /\ sPc = "setFull" => buffer[Route[sNo]] = sNo
          /\ rPc \in {"copyOut", "setEmpty"} => rNo < sNo

Buffers == OneEach /\ FullIff /\ Holds /\ InCall

Pointers ==
  /\ sPc \in DirectPc \ {"point"} => ptrSrc = sSlot
  /\ rPc \in DirectPc \ {"point"} => ptrDst = rSlot
  /\ sPc # "idle" => src[sSlot] = sNo

\* The halves of the receiver's memory that are already there.
Halves ==
  /\ rPc \in {"flop", "spinFlop"} => dst[rSlot].upper = rNo
  /\ rPc \in Flipped /\ (sNo > rNo \/ (sNo = rNo /\ sPc \in {"flop", "spinFlop"}))
       => dst[rSlot].lower = rNo
  /\ rPc = "setEmpty" => dst[rSlot] = [lower |-> rNo, upper |-> rNo]

\* The inductive strengthening.
Inv == Control /\ Buffers /\ Pointers /\ Halves /\ ReceivedIntact

\* sync_reset leaves a well typed channel ...
LEMMA InitType == Init => TypeOK
BY DEF Init, TypeOK, DirectPc

\* ... and each step of send and recv keeps it so.
LEMMA StepType == TypeOK /\ PcMatchesRoute /\ [Next]_vars => TypeOK'
<1> SUFFICES ASSUME TypeOK, PcMatchesRoute, [Next]_vars PROVE TypeOK'
  OBVIOUS
<1> USE DEF TypeOK, DirectPc, PcMatchesRoute
<1>1. ASSUME NEW x \in Slot, SCall(x) PROVE TypeOK'
  <2>1. src' \in [Slot -> 0..N]
    BY <1>1 DEF SCall
  <2>2. sPc' \in DirectPc \cup {"idle", "waitEmpty", "copyIn", "setFull"}
    BY <1>1 DEF SCall
  <2> QED
    BY <1>1, <2>1, <2>2 DEF SCall, sVars, rVars
<1>2. ASSUME SPoint PROVE TypeOK'
  BY <1>2 DEF SPoint, sVars, rVars
<1>3. ASSUME SFlip PROVE TypeOK'
  <2>1. aDone' \in 0..1
    BY <1>3 DEF SFlip
  <2>2. sPc' \in DirectPc
    BY <1>3 DEF SFlip
  <2> QED
    BY <1>3, <2>1, <2>2 DEF SFlip, sVars, rVars
<1>4. ASSUME SSpinFlip PROVE TypeOK'
  BY <1>4 DEF SSpinFlip, sVars, rVars
<1>5. ASSUME SCopy PROVE TypeOK'
  BY <1>5 DEF SCopy, sVars, rVars
<1>6. ASSUME SFlop PROVE TypeOK'
  <2>1. bDone' \in 0..1
    BY <1>6 DEF SFlop
  <2>2. sPc' \in DirectPc
    BY <1>6 DEF SFlop
  <2> QED
    BY <1>6, <2>1, <2>2 DEF SFlop, sVars, rVars
<1>7. ASSUME SSpinFlop PROVE TypeOK'
  <2>1. sNo' \in 1..(N + 1) /\ sPc' = "idle"
    BY <1>7 DEF SSpinFlop
  <2> QED
    BY <1>7, <2>1 DEF SSpinFlop, sVars, rVars
<1>8. ASSUME SWaitEmpty PROVE TypeOK'
  BY <1>8 DEF SWaitEmpty, sVars, rVars
<1>9. ASSUME SCopyIn PROVE TypeOK'
  BY <1>9 DEF SCopyIn, sVars, rVars
<1>10. ASSUME SSetFull PROVE TypeOK'
  <2>1. sNo' \in 1..(N + 1) /\ sPc' = "idle"
    BY <1>10 DEF SSetFull
  <2>2. full' \in [Buffer -> 0..1]
    BY <1>10 DEF SSetFull
  <2> QED
    BY <1>10, <2>1, <2>2 DEF SSetFull, sVars, rVars
<1>11. ASSUME NEW x \in Slot, RCall(x) PROVE TypeOK'
  BY <1>11 DEF RCall, sVars, rVars
<1>12. ASSUME RPoint PROVE TypeOK'
  BY <1>12 DEF RPoint, sVars, rVars
<1>13. ASSUME RFlip PROVE TypeOK'
  <2>1. bDone' \in 0..1
    BY <1>13 DEF RFlip
  <2>2. rPc' \in DirectPc
    BY <1>13 DEF RFlip
  <2> QED
    BY <1>13, <2>1, <2>2 DEF RFlip, sVars, rVars
<1>14. ASSUME RSpinFlip PROVE TypeOK'
  BY <1>14 DEF RSpinFlip, sVars, rVars
<1>15. ASSUME RCopy PROVE TypeOK'
  BY <1>15 DEF RCopy, sVars, rVars
<1>16. ASSUME RFlop PROVE TypeOK'
  <2>1. aDone' \in 0..1
    BY <1>16 DEF RFlop
  <2>2. rPc' \in DirectPc
    BY <1>16 DEF RFlop
  <2> QED
    BY <1>16, <2>1, <2>2 DEF RFlop, sVars, rVars
<1>17. ASSUME RSpinFlop PROVE TypeOK'
  <2>1. rNo' \in 1..(N + 1) /\ rPc' = "idle"
    BY <1>17 DEF RSpinFlop
  <2> QED
    BY <1>17, <2>1 DEF RSpinFlop, sVars, rVars
<1>18. ASSUME RWaitFull PROVE TypeOK'
  BY <1>18 DEF RWaitFull, sVars, rVars
<1>19. ASSUME RCopyOut PROVE TypeOK'
  BY <1>19 DEF RCopyOut, sVars, rVars
<1>20. ASSUME RSetEmpty PROVE TypeOK'
  <2>1. rNo' \in 1..(N + 1) /\ rPc' = "idle"
    BY <1>20 DEF RSetEmpty
  <2>2. full' \in [Buffer -> 0..1]
    BY <1>20 DEF RSetEmpty
  <2> QED
    BY <1>20, <2>1, <2>2 DEF RSetEmpty, sVars, rVars
<1>21. CASE UNCHANGED vars
  BY <1>21 DEF vars, sVars, rVars
<1> QED
  BY <1>1, <1>2, <1>3, <1>4, <1>5, <1>6, <1>7, <1>8, <1>9, <1>10,
     <1>11, <1>12, <1>13, <1>14, <1>15, <1>16, <1>17, <1>18, <1>19, <1>20, <1>21
     DEF Next, Sender, Receiver

\* The strengthening holds after sync_reset.
LEMMA InitInv == Init => Inv
BY DEF Init, Inv, Control, PcMatchesRoute, Flags, Meet, AheadIsBuffered, Rendezvous,
       Buffers, OneEach, FullIff, Holds, InCall, InFlight, Pointers, Halves,
       ReceivedIntact, RPassed, SPassed, Flipped, DirectPc

\* The handshake: program counters, transfer numbers and flags.
LEMMA StepControl == TypeOK /\ Control /\ Buffers /\ [Next]_vars => Control'
<1> SUFFICES ASSUME TypeOK, Control, Buffers, [Next]_vars PROVE Control'
  OBVIOUS
<1>t. sNo \in 1..(N + 1) /\ rNo \in 1..(N + 1) /\ aDone \in 0..1 /\ bDone \in 0..1
  BY DEF TypeOK
<1> USE <1>t DEF Control, PcMatchesRoute, Flags, Meet, AheadIsBuffered, Rendezvous,
            RPassed, SPassed, Flipped, DirectPc
<1>1. ASSUME NEW x \in Slot, SCall(x) PROVE Control'
  BY <1>1 DEF SCall, sVars, rVars
<1>2. ASSUME SPoint PROVE Control'
  BY <1>2 DEF SPoint, sVars, rVars
<1>3. ASSUME SFlip PROVE Control'
  BY <1>3 DEF SFlip, sVars, rVars
<1>4. ASSUME SSpinFlip PROVE Control'
  BY <1>4 DEF SSpinFlip, sVars, rVars
<1>5. ASSUME SCopy PROVE Control'
  BY <1>5 DEF SCopy, sVars, rVars
<1>6. ASSUME SFlop PROVE Control'
  BY <1>6 DEF SFlop, sVars, rVars
<1>7. ASSUME SSpinFlop PROVE Control'
  <2>1. /\ sNo' = sNo + 1 /\ sPc' = "idle" /\ rPc' = rPc /\ rNo' = rNo
        /\ sPc = "spinFlop" /\ aDone # 1 /\ aDone' = aDone /\ bDone' = bDone
        /\ sNo <= N /\ Route[sNo] = Direct
    BY <1>7 DEF SSpinFlop, rVars
  <2>2. rNo = sNo + 1 \/ (sNo = rNo /\ rPc = "spinFlop")
    BY <2>1
  <2>3. AheadIsBuffered'
    BY <2>1, <2>2
  <2>4. Rendezvous'
    BY <2>1, <2>2
  <2>5. PcMatchesRoute' /\ Meet'
    BY <2>1, <2>2
  <2>6. Flags'
    BY <2>1, <2>2
  <2> QED
    BY <2>3, <2>4, <2>5, <2>6
<1>8. ASSUME SWaitEmpty PROVE Control'
  BY <1>8 DEF SWaitEmpty, sVars, rVars
<1>9. ASSUME SCopyIn PROVE Control'
  BY <1>9 DEF SCopyIn, sVars, rVars
<1>10. ASSUME SSetFull PROVE Control'
  <2>1. /\ sNo' = sNo + 1 /\ sPc' = "idle" /\ rPc' = rPc /\ rNo' = rNo
        /\ sPc = "setFull" /\ aDone' = aDone /\ bDone' = bDone
        /\ sNo <= N /\ Route[sNo] # Direct
    BY <1>10 DEF SSetFull, rVars
  <2>2. rNo <= sNo
    BY <2>1
  <2>3. AheadIsBuffered'
    <3>1. ASSUME NEW u \in 1..N, rNo < u, u < sNo + 1 PROVE Route[u] # Direct
      <4>1. CASE u = sNo
        BY <2>1, <4>1
      <4>2. CASE u < sNo
        BY <3>1, <4>2
      <4> QED
        BY <3>1, <4>1, <4>2
    <3> QED
      BY <2>1, <3>1
  <2>4. Rendezvous'
    BY <2>1, <2>2
  <2>5. PcMatchesRoute' /\ Meet'
    BY <2>1, <2>2
  <2>6. Flags'
    BY <2>1, <2>2
  <2> QED
    BY <2>3, <2>4, <2>5, <2>6
<1>11. ASSUME NEW x \in Slot, RCall(x) PROVE Control'
  BY <1>11 DEF RCall, sVars, rVars
<1>12. ASSUME RPoint PROVE Control'
  BY <1>12 DEF RPoint, sVars, rVars
<1>13. ASSUME RFlip PROVE Control'
  BY <1>13 DEF RFlip, sVars, rVars
<1>14. ASSUME RSpinFlip PROVE Control'
  BY <1>14 DEF RSpinFlip, sVars, rVars
<1>15. ASSUME RCopy PROVE Control'
  BY <1>15 DEF RCopy, sVars, rVars
<1>16. ASSUME RFlop PROVE Control'
  BY <1>16 DEF RFlop, sVars, rVars
<1>17. ASSUME RSpinFlop PROVE Control'
  <2>1. /\ rNo' = rNo + 1 /\ rPc' = "idle" /\ sPc' = sPc /\ sNo' = sNo
        /\ rPc = "spinFlop" /\ bDone # 1 /\ aDone' = aDone /\ bDone' = bDone
        /\ rNo <= N /\ Route[rNo] = Direct
    BY <1>17 DEF RSpinFlop, sVars
  <2>2. sNo > rNo \/ (sNo = rNo /\ sPc = "spinFlop")
    BY <2>1
  <2>3. AheadIsBuffered'
    BY <2>1
  <2>4. Rendezvous'
    BY <2>1, <2>2
  <2>5. PcMatchesRoute' /\ Meet'
    BY <2>1, <2>2
  <2>6. Flags'
    BY <2>1, <2>2
  <2> QED
    BY <2>3, <2>4, <2>5, <2>6
<1>18. ASSUME RWaitFull PROVE Control'
  BY <1>18 DEF RWaitFull, sVars, rVars, Buffers, InCall
<1>19. ASSUME RCopyOut PROVE Control'
  BY <1>19 DEF RCopyOut, sVars, rVars, Buffers, InCall
<1>20. ASSUME RSetEmpty PROVE Control'
  <2>1. rNo < sNo /\ rNo' = rNo + 1 /\ rPc' = "idle" /\ sPc' = sPc /\ sNo' = sNo
        /\ rPc = "setEmpty" /\ aDone' = aDone /\ bDone' = bDone /\ rNo <= N
    BY <1>20 DEF RSetEmpty, Buffers, InCall, sVars
  <2>2. rNo' <= sNo /\ sPc \notin {"copy", "flop", "spinFlop"}
    BY <2>1
  <2>3. AheadIsBuffered'
    BY <2>1
  <2>4. Rendezvous'
    BY <2>1, <2>2
  <2>5. PcMatchesRoute' /\ Meet'
    BY <2>1, <2>2
  <2>6. Flags'
    BY <2>1, <2>2
  <2> QED
    BY <2>3, <2>4, <2>5, <2>6
<1>21. CASE UNCHANGED vars
  BY <1>21 DEF vars, sVars, rVars
<1> QED
  BY <1>1, <1>2, <1>3, <1>4, <1>5, <1>6, <1>7, <1>8, <1>9, <1>10,
     <1>11, <1>12, <1>13, <1>14, <1>15, <1>16, <1>17, <1>18, <1>19, <1>20, <1>21
     DEF Next, Sender, Receiver

\* The buffers hold what was sent and not received.
LEMMA StepBuffers == TypeOK /\ Control /\ Buffers /\ Pointers /\ [Next]_vars => Buffers'
<1> SUFFICES ASSUME TypeOK, Control, Buffers, Pointers, [Next]_vars PROVE Buffers'
  OBVIOUS
<1>t. /\ sNo \in Nat /\ rNo \in Nat /\ sNo >= 1 /\ rNo >= 1
      /\ full \in [Buffer -> 0..1] /\ buffer \in [Buffer -> 0..N]
  <2>1. sNo \in 1..(N + 1) /\ rNo \in 1..(N + 1)
    BY DEF TypeOK
  <2>2. full \in [Buffer -> 0..1] /\ buffer \in [Buffer -> 0..N]
    BY DEF TypeOK
  <2> QED
    BY <2>1, <2>2
<1> USE DEF Buffers
<1>1. ASSUME NEW x \in Slot, SCall(x) PROVE Buffers'
  <2>1. UNCHANGED <<full, buffer, sNo, rNo>>
    BY <1>1 DEF SCall, sVars, rVars
  <2>2. OneEach' /\ FullIff' /\ Holds'
    BY <2>1 DEF OneEach, FullIff, Holds, InFlight
  <2>3. InCall'
    BY <1>1 DEF SCall, InCall, sVars, rVars
  <2> QED
    BY <2>2, <2>3
<1>2. ASSUME SPoint PROVE Buffers'
  <2>1. UNCHANGED <<full, buffer, sNo, rNo>>
    BY <1>2 DEF SPoint, sVars, rVars
  <2>2. OneEach' /\ FullIff' /\ Holds'
    BY <2>1 DEF OneEach, FullIff, Holds, InFlight
  <2>3. InCall'
    BY <1>2 DEF SPoint, InCall, sVars, rVars
  <2> QED
    BY <2>2, <2>3
<1>3. ASSUME SFlip PROVE Buffers'
  <2>1. UNCHANGED <<full, buffer, sNo, rNo>>
    BY <1>3 DEF SFlip, sVars, rVars
  <2>2. OneEach' /\ FullIff' /\ Holds'
    BY <2>1 DEF OneEach, FullIff, Holds, InFlight
  <2>3. InCall'
    BY <1>3 DEF SFlip, InCall, sVars, rVars
  <2> QED
    BY <2>2, <2>3
<1>4. ASSUME SSpinFlip PROVE Buffers'
  <2>1. UNCHANGED <<full, buffer, sNo, rNo>>
    BY <1>4 DEF SSpinFlip, sVars, rVars
  <2>2. OneEach' /\ FullIff' /\ Holds'
    BY <2>1 DEF OneEach, FullIff, Holds, InFlight
  <2>3. InCall'
    BY <1>4 DEF SSpinFlip, InCall, sVars, rVars
  <2> QED
    BY <2>2, <2>3
<1>5. ASSUME SCopy PROVE Buffers'
  <2>1. UNCHANGED <<full, buffer, sNo, rNo>>
    BY <1>5 DEF SCopy, sVars, rVars
  <2>2. OneEach' /\ FullIff' /\ Holds'
    BY <2>1 DEF OneEach, FullIff, Holds, InFlight
  <2>3. InCall'
    BY <1>5 DEF SCopy, InCall, sVars, rVars
  <2> QED
    BY <2>2, <2>3
<1>6. ASSUME SFlop PROVE Buffers'
  <2>1. UNCHANGED <<full, buffer, sNo, rNo>>
    BY <1>6 DEF SFlop, sVars, rVars
  <2>2. OneEach' /\ FullIff' /\ Holds'
    BY <2>1 DEF OneEach, FullIff, Holds, InFlight
  <2>3. InCall'
    BY <1>6 DEF SFlop, InCall, sVars, rVars
  <2> QED
    BY <2>2, <2>3
<1>7. ASSUME SSpinFlop PROVE Buffers'
  <2>1. rNo = sNo \/ rNo = sNo + 1
    BY <1>7, <1>t DEF SSpinFlop, Control, Meet, Flipped
  <2>2. \A u \in 1..N : Route[u] \in Buffer => (InFlight(u)' <=> InFlight(u))
    <3>1. Route[sNo] \notin Buffer /\ rNo' = rNo /\ sNo' = sNo + 1
      BY <1>7 DEF SSpinFlop, Control, PcMatchesRoute, DirectPc, rVars
    <3> QED
      BY <1>t, <3>1 DEF InFlight
  <2>3. \A u \in 1..N : ~InFlight(u)
    BY <1>t, <2>1 DEF InFlight
  <2>4. \A u \in 1..N : InFlight(u)' => Route[u] \notin Buffer
    BY <2>2, <2>3
  <2>5. OneEach'
    BY <2>4 DEF OneEach
  <2>6. FullIff' /\ Holds'
    BY <1>7, <2>2 DEF SSpinFlop, FullIff, Holds
  <2>7. InCall'
    BY <1>7, <1>t, <2>1 DEF SSpinFlop, InCall, rVars, Control, Meet, Flipped, PcMatchesRoute, DirectPc
  <2> QED
    BY <2>5, <2>6, <2>7
<1>8. ASSUME SWaitEmpty PROVE Buffers'
  <2>1. UNCHANGED <<full, buffer, sNo, rNo>>
    BY <1>8 DEF SWaitEmpty, sVars, rVars
  <2>2. OneEach' /\ FullIff' /\ Holds'
    BY <2>1 DEF OneEach, FullIff, Holds, InFlight
  <2>3. InCall'
    BY <1>8, <1>t DEF SWaitEmpty, InCall, Control, PcMatchesRoute, rVars
  <2> QED
    BY <2>2, <2>3
<1>9. ASSUME SCopyIn PROVE Buffers'
  <2>1. \A u \in 1..N : InFlight(u)' <=> InFlight(u)
    BY <1>9 DEF SCopyIn, InFlight, rVars
  <2>2. OneEach' /\ FullIff'
    BY <1>9, <2>1 DEF SCopyIn, OneEach, FullIff
  <2>3. full[Route[sNo]] = 0 /\ Route[sNo] \in Buffer /\ src[sSlot] = sNo
    BY <1>9 DEF SCopyIn, InCall, Pointers, Control, PcMatchesRoute
  <2>4. Holds'
    <3>1. \A u \in 1..N : InFlight(u) => Route[u] # Route[sNo]
      BY <2>3 DEF FullIff
    <3> QED
      BY <1>9, <1>t, <2>1, <2>3, <3>1 DEF SCopyIn, Holds
  <2>5. InCall'
    BY <1>9, <1>t, <2>3 DEF SCopyIn, InCall, rVars
  <2> QED
    BY <2>2, <2>4, <2>5
<1>10. ASSUME SSetFull PROVE Buffers'
  <2>1. /\ sNo \in 1..N /\ Route[sNo] \in Buffer /\ full[Route[sNo]] = 0
        /\ buffer[Route[sNo]] = sNo /\ rNo <= sNo
    BY <1>10, <1>t DEF SSetFull, InCall, Control, PcMatchesRoute, Rendezvous
  <2>2. \A u \in 1..N : InFlight(u)' <=> (InFlight(u) \/ u = sNo)
    BY <1>10, <1>t, <2>1 DEF SSetFull, InFlight, rVars
  <2>3. \A u \in 1..N : InFlight(u) => Route[u] # Route[sNo] /\ u # sNo
    BY <1>t, <2>1 DEF FullIff, InFlight
  <2>4. OneEach'
    BY <2>2, <2>3 DEF OneEach
  <2>5. FullIff'
    BY <1>10, <1>t, <2>1, <2>2, <2>3 DEF SSetFull, FullIff
  <2>6. Holds'
    BY <1>10, <2>1, <2>2 DEF SSetFull, Holds
  <2>7. InCall'
    BY <1>10, <1>t, <2>1 DEF SSetFull, InCall, rVars
  <2> QED
    BY <2>4, <2>5, <2>6, <2>7
<1>11. ASSUME NEW x \in Slot, RCall(x) PROVE Buffers'
  <2>1. UNCHANGED <<full, buffer, sNo, rNo>>
    BY <1>11 DEF RCall, sVars, rVars
  <2>2. OneEach' /\ FullIff' /\ Holds'
    BY <2>1 DEF OneEach, FullIff, Holds, InFlight
  <2>3. InCall'
    BY <1>11 DEF RCall, InCall, sVars, rVars
  <2> QED
    BY <2>2, <2>3
<1>12. ASSUME RPoint PROVE Buffers'
  <2>1. UNCHANGED <<full, buffer, sNo, rNo>>
    BY <1>12 DEF RPoint, sVars, rVars
  <2>2. OneEach' /\ FullIff' /\ Holds'
    BY <2>1 DEF OneEach, FullIff, Holds, InFlight
  <2>3. InCall'
    BY <1>12 DEF RPoint, InCall, sVars, rVars
  <2> QED
    BY <2>2, <2>3
<1>13. ASSUME RFlip PROVE Buffers'
  <2>1. UNCHANGED <<full, buffer, sNo, rNo>>
    BY <1>13 DEF RFlip, sVars, rVars
  <2>2. OneEach' /\ FullIff' /\ Holds'
    BY <2>1 DEF OneEach, FullIff, Holds, InFlight
  <2>3. InCall'
    BY <1>13 DEF RFlip, InCall, sVars, rVars
  <2> QED
    BY <2>2, <2>3
<1>14. ASSUME RSpinFlip PROVE Buffers'
  <2>1. UNCHANGED <<full, buffer, sNo, rNo>>
    BY <1>14 DEF RSpinFlip, sVars, rVars
  <2>2. OneEach' /\ FullIff' /\ Holds'
    BY <2>1 DEF OneEach, FullIff, Holds, InFlight
  <2>3. InCall'
    BY <1>14 DEF RSpinFlip, InCall, sVars, rVars
  <2> QED
    BY <2>2, <2>3
<1>15. ASSUME RCopy PROVE Buffers'
  <2>1. UNCHANGED <<full, buffer, sNo, rNo>>
    BY <1>15 DEF RCopy, sVars, rVars
  <2>2. OneEach' /\ FullIff' /\ Holds'
    BY <2>1 DEF OneEach, FullIff, Holds, InFlight
  <2>3. InCall'
    BY <1>15 DEF RCopy, InCall, sVars, rVars
  <2> QED
    BY <2>2, <2>3
<1>16. ASSUME RFlop PROVE Buffers'
  <2>1. UNCHANGED <<full, buffer, sNo, rNo>>
    BY <1>16 DEF RFlop, sVars, rVars
  <2>2. OneEach' /\ FullIff' /\ Holds'
    BY <2>1 DEF OneEach, FullIff, Holds, InFlight
  <2>3. InCall'
    BY <1>16 DEF RFlop, InCall, sVars, rVars
  <2> QED
    BY <2>2, <2>3
<1>17. ASSUME RSpinFlop PROVE Buffers'
  <2>1. rNo \in 1..N /\ Route[rNo] = Direct
    BY <1>17, <1>t DEF RSpinFlop, Control, PcMatchesRoute, DirectPc
  <2>2. \A u \in 1..N : Route[u] \in Buffer => (InFlight(u)' <=> InFlight(u))
    BY <1>17, <1>t, <2>1 DEF RSpinFlop, InFlight, sVars
  <2>3. \A u \in 1..N : InFlight(u)' => InFlight(u)
    BY <1>17, <1>t DEF RSpinFlop, InFlight, sVars
  <2>4. OneEach'
    BY <2>3 DEF OneEach
  <2>5. FullIff' /\ Holds'
    BY <1>17, <2>2 DEF RSpinFlop, FullIff, Holds
  <2>6. InCall'
    BY <1>17 DEF RSpinFlop, InCall, sVars
  <2> QED
    BY <2>4, <2>5, <2>6
<1>18. ASSUME RWaitFull PROVE Buffers'
  <2>1. UNCHANGED <<full, buffer, sNo, rNo>>
    BY <1>18 DEF RWaitFull, sVars, rVars
  <2>2. OneEach' /\ FullIff' /\ Holds'
    BY <2>1 DEF OneEach, FullIff, Holds, InFlight
  <2>3. rNo < sNo
    <3>1. full[Route[rNo]] = 1 /\ Route[rNo] \in Buffer
      BY <1>18, <1>t DEF RWaitFull, Control, PcMatchesRoute
    <3>2. PICK u \in 1..N : InFlight(u)
      BY <3>1 DEF FullIff
    <3> QED
      BY <1>t, <3>2 DEF InFlight
  <2>4. InCall'
    BY <1>18, <2>3 DEF RWaitFull, InCall, sVars
  <2> QED
    BY <2>2, <2>4
<1>19. ASSUME RCopyOut PROVE Buffers'
  <2>1. UNCHANGED <<full, buffer, sNo, rNo>>
    BY <1>19 DEF RCopyOut, sVars, rVars
  <2>2. OneEach' /\ FullIff' /\ Holds'
    BY <2>1 DEF OneEach, FullIff, Holds, InFlight
  <2>3. InCall'
    BY <1>19 DEF RCopyOut, InCall, sVars, rVars
  <2> QED
    BY <2>2, <2>3
<1>20. ASSUME RSetEmpty PROVE Buffers'
  <2>1. rNo \in 1..N /\ Route[rNo] \in Buffer /\ rNo < sNo
    BY <1>20, <1>t DEF RSetEmpty, InCall, Control, PcMatchesRoute
  <2>2. \A u \in 1..N : InFlight(u)' <=> (InFlight(u) /\ u # rNo)
    BY <1>20, <1>t, <2>1 DEF RSetEmpty, InFlight, sVars
  <2>3. \A u \in 1..N : InFlight(u)' => Route[u] # Route[rNo]
    BY <1>t, <2>1, <2>2 DEF OneEach, InFlight
  <2>4. OneEach'
    BY <2>2 DEF OneEach
  <2>5. FullIff'
    BY <1>20, <1>t, <2>1, <2>2, <2>3 DEF RSetEmpty, FullIff
  <2>6. Holds'
    BY <1>20, <2>2 DEF RSetEmpty, Holds
  <2>7. InCall'
    <3>1. sPc = "setFull" \/ sPc = "copyIn" => full'[Route[sNo]] = 0
      BY <1>20, <1>t DEF RSetEmpty, InCall, Control, PcMatchesRoute
    <3> QED
      BY <1>20, <3>1 DEF RSetEmpty, InCall, sVars
  <2> QED
    BY <2>4, <2>5, <2>6, <2>7
<1>21. CASE UNCHANGED vars
  BY <1>21 DEF vars, sVars, rVars, OneEach, FullIff, Holds, InCall, InFlight
<1> QED
  BY <1>1, <1>2, <1>3, <1>4, <1>5, <1>6, <1>7, <1>8, <1>9, <1>10,
     <1>11, <1>12, <1>13, <1>14, <1>15, <1>16, <1>17, <1>18, <1>19, <1>20, <1>21
     DEF Next, Sender, Receiver

\* The user's memory.
LEMMA StepData == TypeOK /\ Inv /\ [Next]_vars => Pointers' /\ Halves' /\ ReceivedIntact'
<1> SUFFICES ASSUME TypeOK, Inv, [Next]_vars PROVE Pointers' /\ Halves' /\ ReceivedIntact'
  OBVIOUS
<1>t. /\ sNo \in 1..(N + 1) /\ rNo \in 1..(N + 1)
      /\ sSlot \in Slot /\ rSlot \in Slot /\ ptrSrc \in Slot /\ ptrDst \in Slot
      /\ src \in [Slot -> 0..N] /\ dst \in [Slot -> [lower : 0..N, upper : 0..N]]
      /\ aDone \in 0..1 /\ bDone \in 0..1
  BY DEF TypeOK
<1> USE <1>t DEF Inv, Control, PcMatchesRoute, Flags, Meet, Rendezvous, RPassed, SPassed,
                 Flipped, DirectPc, Pointers, Halves, ReceivedIntact
<1>1. ASSUME NEW x \in Slot, SCall(x) PROVE Pointers' /\ Halves' /\ ReceivedIntact'
  BY <1>1 DEF SCall, sVars, rVars
<1>2. ASSUME SPoint PROVE Pointers' /\ Halves' /\ ReceivedIntact'
  BY <1>2 DEF SPoint, sVars, rVars
<1>3. ASSUME SFlip PROVE Pointers' /\ Halves' /\ ReceivedIntact'
  BY <1>3 DEF SFlip, sVars, rVars
<1>4. ASSUME SSpinFlip PROVE Pointers' /\ Halves' /\ ReceivedIntact'
  BY <1>4 DEF SSpinFlip, sVars, rVars
<1>5. ASSUME SCopy PROVE Pointers' /\ Halves' /\ ReceivedIntact'
  BY <1>5 DEF SCopy, sVars, rVars
<1>6. ASSUME SFlop PROVE Pointers' /\ Halves' /\ ReceivedIntact'
  BY <1>6 DEF SFlop, sVars, rVars
<1>7. ASSUME SSpinFlop PROVE Pointers' /\ Halves' /\ ReceivedIntact'
  BY <1>7 DEF SSpinFlop, sVars, rVars
<1>8. ASSUME SWaitEmpty PROVE Pointers' /\ Halves' /\ ReceivedIntact'
  BY <1>8 DEF SWaitEmpty, sVars, rVars
<1>9. ASSUME SCopyIn PROVE Pointers' /\ Halves' /\ ReceivedIntact'
  BY <1>9 DEF SCopyIn, sVars, rVars
<1>10. ASSUME SSetFull PROVE Pointers' /\ Halves' /\ ReceivedIntact'
  BY <1>10 DEF SSetFull, sVars, rVars
<1>11. ASSUME NEW x \in Slot, RCall(x) PROVE Pointers' /\ Halves' /\ ReceivedIntact'
  BY <1>11 DEF RCall, sVars, rVars
<1>12. ASSUME RPoint PROVE Pointers' /\ Halves' /\ ReceivedIntact'
  BY <1>12 DEF RPoint, sVars, rVars
<1>13. ASSUME RFlip PROVE Pointers' /\ Halves' /\ ReceivedIntact'
  BY <1>13 DEF RFlip, sVars, rVars
<1>14. ASSUME RSpinFlip PROVE Pointers' /\ Halves' /\ ReceivedIntact'
  BY <1>14 DEF RSpinFlip, sVars, rVars
<1>15. ASSUME RCopy PROVE Pointers' /\ Halves' /\ ReceivedIntact'
  BY <1>15 DEF RCopy, sVars, rVars
<1>16. ASSUME RFlop PROVE Pointers' /\ Halves' /\ ReceivedIntact'
  BY <1>16 DEF RFlop, sVars, rVars
<1>17. ASSUME RSpinFlop PROVE Pointers' /\ Halves' /\ ReceivedIntact'
  BY <1>17 DEF RSpinFlop, sVars, rVars
<1>18. ASSUME RWaitFull PROVE Pointers' /\ Halves' /\ ReceivedIntact'
  BY <1>18 DEF RWaitFull, sVars, rVars
<1>19. ASSUME RCopyOut PROVE Pointers' /\ Halves' /\ ReceivedIntact'
  <2>1. rPc = "copyOut" /\ rNo < sNo /\ rNo \in 1..N /\ Route[rNo] \in Buffer
    BY <1>19 DEF RCopyOut, Buffers, InCall
  <2>2. buffer[Route[rNo]] = rNo
    BY <2>1 DEF Buffers, Holds, InFlight
  <2>3. dst' = [dst EXCEPT ![rSlot] = [lower |-> rNo, upper |-> rNo]]
    BY <1>19, <2>2 DEF RCopyOut
  <2> QED
    BY <1>19, <2>1, <2>3 DEF RCopyOut, sVars
<1>20. ASSUME RSetEmpty PROVE Pointers' /\ Halves' /\ ReceivedIntact'
  BY <1>20 DEF RSetEmpty, sVars, rVars
<1>21. CASE UNCHANGED vars
  BY <1>21 DEF vars, sVars, rVars
<1> QED
  BY <1>1, <1>2, <1>3, <1>4, <1>5, <1>6, <1>7, <1>8, <1>9, <1>10,
     <1>11, <1>12, <1>13, <1>14, <1>15, <1>16, <1>17, <1>18, <1>19, <1>20, <1>21
     DEF Next, Sender, Receiver

\* The channel's inductive invariant.
THEOREM ChannelInv == Spec => [](TypeOK /\ Inv)
<1>1. TypeOK /\ Inv /\ [Next]_vars => TypeOK' /\ Inv'
  BY StepType, StepControl, StepBuffers, StepData DEF Inv, Control
<1> QED
  BY <1>1, InitType, InitInv, PTL DEF Spec

\* The flags, pointers, buffers and transfer numbers of a channel stay in their ranges.
THEOREM ChannelType == Spec => []TypeOK
BY ChannelInv, PTL

\* recv returns exactly the transfer that was due, whatever mixture of buffered and
\* direct transfers went before, although the sender reuses its memory at once.
THEOREM Intact == Spec => []ReceivedIntact
BY ChannelInv, PTL DEF Inv

\* Neither side of a direct transfer returns before the other one has copied.
THEOREM RendezvousHolds == Spec => []Rendezvous
BY ChannelInv, PTL DEF Inv, Control

\* A buffer is never written and read at the same time.
THEOREM Exclusive == Spec => []ExclusiveBuffer
<1>1. TypeOK /\ Inv => ExclusiveBuffer
  <2> SUFFICES ASSUME TypeOK, Inv, sPc = "copyIn", rPc = "copyOut", Route[sNo] = Route[rNo]
               PROVE  FALSE
    BY DEF ExclusiveBuffer
  <2>1. rNo \in 1..N /\ InFlight(rNo) /\ Route[rNo] \in Buffer
    BY DEF TypeOK, Inv, Control, PcMatchesRoute, Buffers, InCall, InFlight
  <2>2. full[Route[rNo]] = 1
    BY <2>1 DEF Inv, Buffers, FullIff
  <2> QED
    BY <2>2 DEF Inv, Buffers, InCall
<1> QED
  BY <1>1, ChannelInv, PTL
==============================================================================
