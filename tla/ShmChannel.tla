----------------------------- MODULE ShmChannel ------------------------------
(***************************************************************************)
(* Blocking VMK::send and VMK::recv between two PETs that share memory:    *)
(* the channel types SHMHACK (threads of one process) and POSIXIPC         *)
(* (processes of one node).  The two PETs only spin on flags.              *)
(*                                                                         *)
(* A message is a sequence of transfers.  A message that fits is copied    *)
(* through the channel's buffer; POSIXIPC cuts a long one into chunks that *)
(* alternate between two buffers; SHMHACK copies a long one directly, the  *)
(* sender the lower and the receiver the upper half, between the "flip"    *)
(* and the "flop" of a handshake.  Both PETs know the sizes, so both derive*)
(* the same Route.  Shared accesses are interleaved one at a time.         *)
(***************************************************************************)
EXTENDS Naturals, Sequences, SequencesExt

CONSTANTS N,         \* number of transfers on the channel
          Route,     \* Route[n]: the buffer transfer n goes through, or Direct
          Buffer,    \* the buffers of the channel
          Direct,    \* no buffer: the halves are copied between flip and flop
          Slot       \* user memory of each PET: it may reuse a slot once the call returned

ASSUME NAssumption == N \in Nat
ASSUME RouteAssumption == Route \in [1..N -> Buffer \cup {Direct}] /\ Direct \notin Buffer
ASSUME SlotAssumption == Slot # {}

\* The route of messages that have the given numbers of POSIXIPC chunks: every message
\* starts again at buffer 0 and then alternates (i = i^1).
PipcRoute(chunks) ==
  FlattenSeq([m \in DOMAIN chunks |-> [k \in 1..chunks[m] |-> (k - 1) % 2]])

\* The route of SHMHACK messages: small ones through buffer 0, the others directly.
ShmhackRoute(small, direct) == [m \in DOMAIN small |-> IF small[m] THEN 0 ELSE direct]

VARIABLES sPc, sNo, sSlot,   \* the sender: where it is, its transfer, the slot it sends from
          rPc, rNo, rSlot,   \* the receiver: the same
          src, dst,          \* user memory: number of the transfer each slot (half) holds
          ptrSrc, ptrDst,    \* the pointers in shared_mp
          aDone, bDone,      \* flip/flop flags of the sender and of the receiver
          full, buffer       \* buffer_done[i], and the transfer each buffer holds

sVars == <<sPc, sNo, sSlot, src, ptrSrc>>
rVars == <<rPc, rNo, rSlot, ptrDst>>
vars == <<sVars, rVars, dst, aDone, bDone, full, buffer>>

\* Mutant: sync_reset is forgotten, a flag starts with what the memory held.
InitFlagGarbage ==
  /\ sPc = "idle" /\ sNo = 1 /\ sSlot = (CHOOSE x \in Slot : TRUE)
  /\ rPc = "idle" /\ rNo = 1 /\ rSlot = (CHOOSE x \in Slot : TRUE)
  /\ src = [x \in Slot |-> 0]
  /\ dst = [x \in Slot |-> [lower |-> 0, upper |-> 0]]
  /\ ptrSrc = (CHOOSE x \in Slot : TRUE) /\ ptrDst = (CHOOSE x \in Slot : TRUE)
  /\ aDone = 2 /\ bDone = 0
  /\ full = [i \in Buffer |-> 0] /\ buffer = [i \in Buffer |-> 0]

Init == /\ sPc = "idle" /\ sNo = 1 /\ sSlot = (CHOOSE x \in Slot : TRUE)
        /\ rPc = "idle" /\ rNo = 1 /\ rSlot = (CHOOSE x \in Slot : TRUE)
        /\ src = [x \in Slot |-> 0]
        /\ dst = [x \in Slot |-> [lower |-> 0, upper |-> 0]]
        /\ ptrSrc = (CHOOSE x \in Slot : TRUE) /\ ptrDst = (CHOOSE x \in Slot : TRUE)
        /\ aDone = 0 /\ bDone = 0
        /\ full = [i \in Buffer |-> 0] /\ buffer = [i \in Buffer |-> 0]

------------------------------------------------------------------------------
\* The sender's program writes the next transfer into a slot and calls send.
SCall(x) == /\ sPc = "idle" /\ sNo <= N
            /\ src' = [src EXCEPT ![x] = sNo]
            /\ sSlot' = x
            /\ sPc' = IF Route[sNo] = Direct THEN "point" ELSE "waitEmpty"
            /\ UNCHANGED <<sNo, ptrSrc, rVars, dst, aDone, bDone, full, buffer>>

SPoint == /\ sPc = "point"
          /\ ptrSrc' = sSlot
          /\ sPc' = "flip"
          /\ UNCHANGED <<sNo, sSlot, src, rVars, dst, aDone, bDone, full, buffer>>

\* sync_a_flip
SFlip == /\ sPc = "flip"
         /\ aDone' = 1
         /\ sPc' = "spinFlip"
         /\ UNCHANGED <<sNo, sSlot, src, ptrSrc, rVars, dst, bDone, full, buffer>>

SSpinFlip == /\ sPc = "spinFlip" /\ bDone # 0
             /\ sPc' = "copy"
             /\ UNCHANGED <<sNo, sSlot, src, ptrSrc, rVars, dst, aDone, bDone, full, buffer>>

SCopy == /\ sPc = "copy"
         /\ dst' = [dst EXCEPT ![ptrDst].lower = src[ptrSrc]]
         /\ sPc' = "flop"
         /\ UNCHANGED <<sNo, sSlot, src, ptrSrc, rVars, aDone, bDone, full, buffer>>

\* Mutant: the sender forgets to take the receiver's flag down.
SFlopKeepsFlag == /\ sPc = "flop"
                  /\ sPc' = "spinFlop"
                  /\ UNCHANGED <<sNo, sSlot, src, ptrSrc, rVars, dst, aDone, bDone, full, buffer>>

\* sync_a_flop
SFlop == /\ sPc = "flop"
         /\ bDone' = 0
         /\ sPc' = "spinFlop"
         /\ UNCHANGED <<sNo, sSlot, src, ptrSrc, rVars, dst, aDone, full, buffer>>

\* Mutant: send returns without waiting for the receiver's copy.
SSpinFlopNoWait ==
  /\ sPc = "spinFlop"
  /\ sPc' = "idle" /\ sNo' = sNo + 1
  /\ UNCHANGED <<sSlot, src, ptrSrc, rVars, dst, aDone, bDone, full, buffer>>

SSpinFlop == /\ sPc = "spinFlop" /\ aDone # 1
             /\ sPc' = "idle" /\ sNo' = sNo + 1
             /\ UNCHANGED <<sSlot, src, ptrSrc, rVars, dst, aDone, bDone, full, buffer>>

\* sync_buffer_wait_empty
SWaitEmpty == /\ sPc = "waitEmpty" /\ full[Route[sNo]] # 1
              /\ sPc' = "copyIn"
              /\ UNCHANGED <<sNo, sSlot, src, ptrSrc, rVars, dst, aDone, bDone, full, buffer>>

SCopyIn == /\ sPc = "copyIn"
           /\ buffer' = [buffer EXCEPT ![Route[sNo]] = src[sSlot]]
           /\ sPc' = "setFull"
           /\ UNCHANGED <<sNo, sSlot, src, ptrSrc, rVars, dst, aDone, bDone, full>>

\* sync_buffer_flag_fill; send returns (or turns to its next chunk).
SSetFull == /\ sPc = "setFull"
            /\ full' = [full EXCEPT ![Route[sNo]] = 1]
            /\ sPc' = "idle" /\ sNo' = sNo + 1
            /\ UNCHANGED <<sSlot, src, ptrSrc, rVars, dst, aDone, bDone, buffer>>

------------------------------------------------------------------------------
\* The receiver's program calls recv for the next transfer.
RCall(x) == /\ rPc = "idle" /\ rNo <= N
            /\ rSlot' = x
            /\ rPc' = IF Route[rNo] = Direct THEN "point" ELSE "waitFull"
            /\ UNCHANGED <<rNo, ptrDst, sVars, dst, aDone, bDone, full, buffer>>

RPoint == /\ rPc = "point"
          /\ ptrDst' = rSlot
          /\ rPc' = "flip"
          /\ UNCHANGED <<rNo, rSlot, sVars, dst, aDone, bDone, full, buffer>>

\* sync_b_flip
RFlip == /\ rPc = "flip"
         /\ bDone' = 1
         /\ rPc' = "spinFlip"
         /\ UNCHANGED <<rNo, rSlot, ptrDst, sVars, dst, aDone, full, buffer>>

RSpinFlip == /\ rPc = "spinFlip" /\ aDone # 0
             /\ rPc' = "copy"
             /\ UNCHANGED <<rNo, rSlot, ptrDst, sVars, dst, aDone, bDone, full, buffer>>

RCopy == /\ rPc = "copy"
         /\ dst' = [dst EXCEPT ![ptrDst].upper = src[ptrSrc]]
         /\ rPc' = "flop"
         /\ UNCHANGED <<rNo, rSlot, ptrDst, sVars, aDone, bDone, full, buffer>>

\* sync_b_flop
RFlop == /\ rPc = "flop"
         /\ aDone' = 0
         /\ rPc' = "spinFlop"
         /\ UNCHANGED <<rNo, rSlot, ptrDst, sVars, dst, bDone, full, buffer>>

\* Mutant: recv returns without waiting for the sender's copy.
RSpinFlopNoWait ==
  /\ rPc = "spinFlop"
  /\ rPc' = "idle" /\ rNo' = rNo + 1
  /\ UNCHANGED <<rSlot, ptrDst, sVars, dst, aDone, bDone, full, buffer>>

RSpinFlop == /\ rPc = "spinFlop" /\ bDone # 1
             /\ rPc' = "idle" /\ rNo' = rNo + 1
             /\ UNCHANGED <<rSlot, ptrDst, sVars, dst, aDone, bDone, full, buffer>>

\* Mutant: the receiver does not wait until the buffer is full.
RWaitFullNoWait ==
  /\ rPc = "waitFull"
  /\ rPc' = "copyOut"
  /\ UNCHANGED <<rNo, rSlot, ptrDst, sVars, dst, aDone, bDone, full, buffer>>

\* sync_buffer_wait_fill
RWaitFull == /\ rPc = "waitFull" /\ full[Route[rNo]] # 0
             /\ rPc' = "copyOut"
             /\ UNCHANGED <<rNo, rSlot, ptrDst, sVars, dst, aDone, bDone, full, buffer>>

RCopyOut == /\ rPc = "copyOut"
            /\ LET b == buffer[Route[rNo]] IN
               dst' = [dst EXCEPT ![rSlot] = [lower |-> b, upper |-> b]]
            /\ rPc' = "setEmpty"
            /\ UNCHANGED <<rNo, rSlot, ptrDst, sVars, aDone, bDone, full, buffer>>

\* sync_buffer_flag_empty; recv returns (or turns to its next chunk).
RSetEmpty == /\ rPc = "setEmpty"
             /\ full' = [full EXCEPT ![Route[rNo]] = 0]
             /\ rPc' = "idle" /\ rNo' = rNo + 1
             /\ UNCHANGED <<rSlot, ptrDst, sVars, dst, aDone, bDone, buffer>>

------------------------------------------------------------------------------
Sender == \/ \E x \in Slot : SCall(x)
          \/ SPoint \/ SFlip \/ SSpinFlip \/ SCopy \/ SFlop \/ SSpinFlop
          \/ SWaitEmpty \/ SCopyIn \/ SSetFull

Receiver == \/ \E x \in Slot : RCall(x)
            \/ RPoint \/ RFlip \/ RSpinFlip \/ RCopy \/ RFlop \/ RSpinFlop
            \/ RWaitFull \/ RCopyOut \/ RSetEmpty

Next == Sender \/ Receiver

Spec == Init /\ [][Next]_vars

\* Each PET is a running thread or process whose program makes all its calls.
FairSpec == Spec /\ WF_vars(Sender) /\ WF_vars(Receiver)

------------------------------------------------------------------------------
DirectPc == {"point", "flip", "spinFlip", "copy", "flop", "spinFlop"}

\* The type invariant: control points, counters and flags stay in the ranges the code can
\* give them.
TypeOK == /\ sPc \in DirectPc \cup {"idle", "waitEmpty", "copyIn", "setFull"}
          /\ rPc \in DirectPc \cup {"idle", "waitFull", "copyOut", "setEmpty"}
          /\ sNo \in 1..(N + 1) /\ rNo \in 1..(N + 1)
          /\ sSlot \in Slot /\ rSlot \in Slot /\ ptrSrc \in Slot /\ ptrDst \in Slot
          /\ src \in [Slot -> 0..N]
          /\ dst \in [Slot -> [lower : 0..N, upper : 0..N]]
          /\ aDone \in 0..1 /\ bDone \in 0..1
          /\ full \in [Buffer -> 0..1] /\ buffer \in [Buffer -> 0..N]

\* When recv has returned, and as long as the receiver does not call it again, the
\* user's memory holds exactly the transfer that was due: both halves are of it, in
\* order, although the sender reuses its memory as soon as send returns.
ReceivedIntact == rPc = "idle" /\ rNo > 1
                    => dst[rSlot] = [lower |-> rNo - 1, upper |-> rNo - 1]

\* The two PETs never touch the same buffer at the same time.
ExclusiveBuffer == ~(sPc = "copyIn" /\ rPc = "copyOut" /\ Route[sNo] = Route[rNo])

\* No call returns from a direct transfer before its peer has copied its half: the
\* sender is ahead of a direct transfer only while the receiver leaves it, and the
\* receiver is ahead only while the sender leaves it.
Rendezvous == /\ sNo > rNo /\ Route[rNo] = Direct => rPc = "spinFlop"
              /\ rNo > sNo => rNo = sNo + 1 /\ Route[sNo] = Direct /\ sPc = "spinFlop"

\* Every message sent is received in the end.
AllReceived == <>(rNo = N + 1)
==============================================================================
