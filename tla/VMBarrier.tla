------------------------------- MODULE VMBarrier -------------------------------
(***************************************************************************)
(* VMK::barrier and VMK::threadbarrier of a multi-threaded VM.  The PETs   *)
(* with one pid are threads of one process; the one with tid 0 is their    *)
(* master.  The master "flips" with each of its threads over their shared  *)
(* memory channel, in a barrier synchronizes with the other masters by     *)
(* MPI_Barrier, and then "flops" with each of its threads.                 *)
(***************************************************************************)
EXTENDS Naturals, Sequences, FiniteSetsExt

CONSTANTS PET,     \* 0 .. npets-1
          Pid,     \* Pid[p]: the process PET p is a thread of
          Master,  \* the PETs with tid 0, one per process
          Calls    \* the sequence of barrier calls every PET makes

ASSUME PetAssumption == PET \subseteq Nat /\ Master \subseteq PET
ASSUME MasterAssumption == \A p \in PET : \E m \in Master :
                             Pid[m] = Pid[p] /\ \A n \in Master : Pid[n] = Pid[p] => n = m
ASSUME CallsAssumption == Calls \in Seq({"barrier", "threadbarrier"})

VARIABLES pc,       \* pc[p]: where p is in its call, "out" outside of it
          entered,  \* entered[p]: number of calls p has begun
          todo,     \* todo[m]: the threads master m still has to flip (or flop) with
          aDone,    \* aDone[p], bDone[p]: the flags on the channel from the master of p to p
          bDone,
          mpiCount  \* mpiCount[m]: how often m has entered MPI_Barrier

vars == <<pc, entered, todo, aDone, bDone, mpiCount>>

Threads(m) == {p \in PET : p # m /\ Pid[p] = Pid[m]}

\* The PET the master's loop is at.
Cur(m) == Min(todo[m])

\* The call p is in.
Call(p) == Calls[entered[p]]

\* Mutant: the flags of the channels are not reset at startup.
InitFlagGarbage == /\ pc = [p \in PET |-> "out"]
                   /\ entered = [p \in PET |-> 0]
                   /\ todo = [m \in Master |-> {}]
                   /\ aDone = [p \in PET |-> 2] /\ bDone = [p \in PET |-> 0]
                   /\ mpiCount = [m \in Master |-> 0]

Init == /\ pc = [p \in PET |-> "out"]
        /\ entered = [p \in PET |-> 0]
        /\ todo = [m \in Master |-> {}]
        /\ aDone = [p \in PET |-> 0] /\ bDone = [p \in PET |-> 0]
        /\ mpiCount = [m \in Master |-> 0]

Goto(p, label) == pc' = [pc EXCEPT ![p] = label]

------------------------------------------------------------------------------
\* Calls by the master (tid 0).

EnterMaster(m) == /\ pc[m] = "out" /\ entered[m] < Len(Calls)
                  /\ entered' = [entered EXCEPT ![m] = @ + 1]
                  /\ todo' = [todo EXCEPT ![m] = Threads(m)]
                  /\ Goto(m, "flip")
                  /\ UNCHANGED <<aDone, bDone, mpiCount>>

\* sync_a_flip with the next thread ...
AFlip(m) == /\ pc[m] = "flip" /\ todo[m] # {}
            /\ aDone' = [aDone EXCEPT ![Cur(m)] = 1]
            /\ Goto(m, "spinFlip")
            /\ UNCHANGED <<entered, todo, bDone, mpiCount>>

\* Mutant: the master does not wait for the thread to flip.
ASpinFlipNoWait(m) == /\ pc[m] = "spinFlip"
                      /\ todo' = [todo EXCEPT ![m] = @ \ {Cur(m)}]
                      /\ Goto(m, "flip")
                      /\ UNCHANGED <<entered, aDone, bDone, mpiCount>>

ASpinFlip(m) == /\ pc[m] = "spinFlip" /\ bDone[Cur(m)] # 0
                /\ todo' = [todo EXCEPT ![m] = @ \ {Cur(m)}]
                /\ Goto(m, "flip")
                /\ UNCHANGED <<entered, aDone, bDone, mpiCount>>

\* ... until all have flipped: a barrier turns to the other masters.
Flipped(m) == /\ pc[m] = "flip" /\ todo[m] = {}
              /\ IF Call(m) = "barrier"
                 THEN /\ mpiCount' = [mpiCount EXCEPT ![m] = @ + 1]
                      /\ Goto(m, "mpi")
                      /\ UNCHANGED todo
                 ELSE /\ todo' = [todo EXCEPT ![m] = Threads(m)]
                      /\ Goto(m, "flop")
                      /\ UNCHANGED mpiCount
              /\ UNCHANGED <<entered, aDone, bDone>>

\* Mutant: the masters are not synchronized.
LeaveMpiEarly(m) == /\ pc[m] = "mpi"
                    /\ todo' = [todo EXCEPT ![m] = Threads(m)]
                    /\ Goto(m, "flop")
                    /\ UNCHANGED <<entered, aDone, bDone, mpiCount>>

\* MPI_Barrier returns when every master has entered it as often as m.
LeaveMpi(m) == /\ pc[m] = "mpi"
               /\ \A n \in Master : mpiCount[n] >= mpiCount[m]
               /\ todo' = [todo EXCEPT ![m] = Threads(m)]
               /\ Goto(m, "flop")
               /\ UNCHANGED <<entered, aDone, bDone, mpiCount>>

\* sync_a_flop with the next thread, until all have flopped.
AFlop(m) == /\ pc[m] = "flop" /\ todo[m] # {}
            /\ bDone' = [bDone EXCEPT ![Cur(m)] = 0]
            /\ Goto(m, "spinFlop")
            /\ UNCHANGED <<entered, todo, aDone, mpiCount>>

ASpinFlop(m) == /\ pc[m] = "spinFlop" /\ aDone[Cur(m)] # 1
                /\ todo' = [todo EXCEPT ![m] = @ \ {Cur(m)}]
                /\ Goto(m, "flop")
                /\ UNCHANGED <<entered, aDone, bDone, mpiCount>>

LeaveMaster(m) == /\ pc[m] = "flop" /\ todo[m] = {}
                  /\ Goto(m, "out")
                  /\ UNCHANGED <<entered, todo, aDone, bDone, mpiCount>>

------------------------------------------------------------------------------
\* Calls by the other threads.

Enter(p) == /\ pc[p] = "out" /\ entered[p] < Len(Calls)
            /\ entered' = [entered EXCEPT ![p] = @ + 1]
            /\ Goto(p, "flip")
            /\ UNCHANGED <<todo, aDone, bDone, mpiCount>>

\* sync_b_flip
BFlip(p) == /\ pc[p] = "flip"
            /\ bDone' = [bDone EXCEPT ![p] = 1]
            /\ Goto(p, "spinFlip")
            /\ UNCHANGED <<entered, todo, aDone, mpiCount>>

BSpinFlip(p) == /\ pc[p] = "spinFlip" /\ aDone[p] # 0
                /\ Goto(p, "flop")
                /\ UNCHANGED <<entered, todo, aDone, bDone, mpiCount>>

\* Mutant: a thread forgets to take the master's flag down.
BFlopKeepsFlag(p) == /\ pc[p] = "flop"
                     /\ Goto(p, "spinFlop")
                     /\ UNCHANGED <<entered, todo, aDone, bDone, mpiCount>>

\* sync_b_flop
BFlop(p) == /\ pc[p] = "flop"
            /\ aDone' = [aDone EXCEPT ![p] = 0]
            /\ Goto(p, "spinFlop")
            /\ UNCHANGED <<entered, todo, bDone, mpiCount>>

BSpinFlop(p) == /\ pc[p] = "spinFlop" /\ bDone[p] # 1
                /\ Goto(p, "out")
                /\ UNCHANGED <<entered, todo, aDone, bDone, mpiCount>>

------------------------------------------------------------------------------
MasterStep(m) == \/ EnterMaster(m) \/ AFlip(m) \/ ASpinFlip(m) \/ Flipped(m)
                 \/ LeaveMpi(m) \/ AFlop(m) \/ ASpinFlop(m) \/ LeaveMaster(m)

ThreadStep(p) == \/ Enter(p) \/ BFlip(p) \/ BSpinFlip(p) \/ BFlop(p) \/ BSpinFlop(p)

Next == \/ \E m \in Master : MasterStep(m)
        \/ \E p \in PET \ Master : ThreadStep(p)

Spec == Init /\ [][Next]_vars

\* Every PET is a running thread whose program makes all the calls.
FairSpec == /\ Spec
            /\ \A m \in Master : WF_vars(MasterStep(m))
            /\ \A p \in PET \ Master : WF_vars(ThreadStep(p))

------------------------------------------------------------------------------
\* The type invariant: control points, counters and flags stay in the ranges the code can
\* give them.
TypeOK == /\ pc \in [PET -> {"out", "flip", "spinFlip", "mpi", "flop", "spinFlop"}]
          /\ entered \in [PET -> 0..Len(Calls)]
          /\ todo \in [Master -> SUBSET PET]
          /\ aDone \in [PET -> 0..1] /\ bDone \in [PET -> 0..1]
          /\ mpiCount \in [Master -> Nat]

\* The number of calls p has returned from.
Left(p) == IF pc[p] = "out" THEN entered[p] ELSE entered[p] - 1

\* No thread of a process returns from a barrier or threadbarrier before all
\* threads of the process have entered it.
GroupBarrier == \A p, q \in PET : Pid[p] = Pid[q] => Left(p) <= entered[q]

\* No PET returns from a barrier before every PET of the VM has entered it.
FullBarrier == \A p, q \in PET : \A k \in 1..Len(Calls) :
                 Calls[k] = "barrier" /\ Left(p) >= k => entered[q] >= k

\* Every PET gets through all its barriers.
AllLeave == <>(\A p \in PET : Left(p) = Len(Calls))
==============================================================================
