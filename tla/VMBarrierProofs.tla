---------------------------- MODULE VMBarrierProofs ----------------------------
(***************************************************************************)
(* TLAPS proofs about VMBarrier, for every set of PETs, every grouping of  *)
(* them into processes, and every sequence of barrier calls.               *)
(***************************************************************************)
EXTENDS VMBarrier, LeastNumber

Flipping == {"flip", "spinFlip"}
Flopping == {"flop", "spinFlop"}

\* In how many calls thread p has raised its flag, has seen the flag of its master raised, and
\* has taken that flag down.  (Left counts the calls in which it saw its own flag down.)
Raised(p)  == IF pc[p] = "flip" THEN entered[p] - 1 ELSE entered[p]
Seen(p)    == IF pc[p] \in Flipping THEN entered[p] - 1 ELSE entered[p]
Lowered(p) == IF pc[p] \in Flipping \cup {"flop"} THEN entered[p] - 1 ELSE entered[p]

\* The same of master m towards its thread p: the loops go over the threads one by one.
MRaised(m, p)  == IF pc[m] \in Flipping /\ p \in todo[m] /\ ~(pc[m] = "spinFlip" /\ p = Cur(m))
                  THEN entered[m] - 1 ELSE entered[m]
MSeen(m, p)    == IF pc[m] \in Flipping /\ p \in todo[m]
                  THEN entered[m] - 1 ELSE entered[m]
MLowered(m, p) == IF \/ pc[m] \in Flipping \cup {"mpi"}
                     \/ pc[m] \in Flopping /\ p \in todo[m] /\ ~(pc[m] = "spinFlop" /\ p = Cur(m))
                  THEN entered[m] - 1 ELSE entered[m]
MDone(m, p)    == IF \/ pc[m] \in Flipping \cup {"mpi"}
                     \/ pc[m] \in Flopping /\ p \in todo[m]
                  THEN entered[m] - 1 ELSE entered[m]

\* A flag of a channel is up iff it has been raised once more than taken down.
PairFlags(m, p) == /\ aDone[p] = MRaised(m, p) - Lowered(p)
                   /\ bDone[p] = Raised(p) - MLowered(m, p)

\* A PET has seen no flip or flop that its partner has not made.
PairOrder(m, p) == /\ MSeen(m, p) <= Raised(p)
                   /\ Seen(p) <= MRaised(m, p)
                   /\ MDone(m, p) <= Lowered(p)
                   /\ Left(p) <= MLowered(m, p)

PairInv == \A m \in Master : \A p \in Threads(m) : PairFlags(m, p) /\ PairOrder(m, p)

\* What the control points say of the loops and of the number of calls.
LoopInv == /\ \A p \in PET : pc[p] # "out" => entered[p] >= 1
           /\ \A p \in PET \ Master : pc[p] # "mpi"
           /\ \A m \in Master :
                /\ todo[m] \subseteq Threads(m)
                /\ pc[m] \in {"spinFlip", "spinFlop"} => todo[m] # {}
                /\ pc[m] = "mpi" => Call(m) = "barrier"

\* The calls in which master m has flipped with all its threads, and those in which it is
\* past MPI_Barrier (if the call has one).
Gathered(m) == IF pc[m] \in Flipping THEN entered[m] - 1 ELSE entered[m]
Passed(m)   == IF pc[m] \in Flipping \cup {"mpi"} THEN entered[m] - 1 ELSE entered[m]

\* The number of barriers among the first j calls.
Barriers(j) == Cardinality({i \in 1..j : Calls[i] = "barrier"})

\* A master has entered MPI_Barrier once for each barrier it has gathered its threads for, and
\* gets past a barrier only when every master has gathered its threads.
MpiInv == /\ \A m \in Master : mpiCount[m] = Barriers(Gathered(m))
          /\ \A m, n \in Master : \A k \in 1..Len(Calls) :
               Calls[k] = "barrier" /\ Passed(m) >= k => Gathered(n) >= k

USE PetAssumption

------------------------------------------------------------------------------
(* Facts about the constants and the helpers.                               *)

\* A nonempty set of numbers has a minimum.
LEMMA MinInSet == ASSUME NEW S \in SUBSET Nat, S # {} PROVE Min(S) \in S
BY LeastNumber DEF Min

\* A thread has one master and is none itself.
LEMMA OneMaster == ASSUME NEW m \in Master, NEW p \in Threads(m)
                   PROVE  /\ p \in PET \ Master /\ m \in PET
                          /\ \A n \in Master : p \in Threads(n) => n = m
BY MasterAssumption DEF Threads

\* Every PET is a master or the thread of one.
LEMMA HasMaster == ASSUME NEW p \in PET
                   PROVE  \E m \in Master : Pid[m] = Pid[p] /\ (p = m \/ p \in Threads(m))
BY MasterAssumption DEF Threads

\* The program makes finitely many calls.
LEMMA LenCalls == Len(Calls) \in Nat
BY CallsAssumption

\* The number of barriers is a number ...
LEMMA BarriersType == ASSUME NEW j \in Nat PROVE Barriers(j) \in Nat
<1> DEFINE S == {k \in 1..j : Calls[k] = "barrier"}
<1>1. IsFiniteSet(1..j) /\ S \in SUBSET (1..j)
  BY FS_Interval
<1>2. IsFiniteSet(S)
  BY <1>1, FS_Subset
<1> QED
  BY <1>2, FS_CardinalityType DEF Barriers

\* ... that grows with the number of calls ...
LEMMA BarriersGrow == ASSUME NEW i \in Nat, NEW j \in Nat, i <= j
                      PROVE  Barriers(i) <= Barriers(j)
<1> DEFINE S(n) == {k \in 1..n : Calls[k] = "barrier"}
<1>1. IsFiniteSet(1..j)
  BY FS_Interval
<1>2. S(j) \in SUBSET (1..j) /\ S(i) \in SUBSET S(j)
  OBVIOUS
<1>3. IsFiniteSet(S(j))
  BY <1>1, <1>2, FS_Subset
<1>4. Cardinality(S(i)) <= Cardinality(S(j))
  BY <1>2, <1>3, FS_Subset
<1> QED
  BY <1>4 DEF Barriers

\* ... by one at each barrier and not at the other calls.
LEMMA BarriersStep == ASSUME NEW j \in Nat, j >= 1
                      PROVE  Barriers(j) = IF Calls[j] = "barrier" THEN Barriers(j - 1) + 1
                                                                   ELSE Barriers(j - 1)
<1> DEFINE S(n) == {k \in 1..n : Calls[k] = "barrier"}
<1>1. IsFiniteSet(1..(j - 1))
  BY FS_Interval
<1>2. S(j - 1) \in SUBSET (1..(j - 1))
  OBVIOUS
<1>3. IsFiniteSet(S(j - 1))
  BY <1>1, <1>2, FS_Subset
<1>4. CASE Calls[j] = "barrier"
  <2>1. S(j) = S(j - 1) \cup {j} /\ j \notin S(j - 1)
    BY <1>4
  <2>2. Cardinality(S(j - 1) \cup {j}) = Cardinality(S(j - 1)) + 1
    BY <1>3, <2>1, FS_AddElement
  <2> QED
    BY <1>4, <2>1, <2>2 DEF Barriers
<1>5. CASE Calls[j] # "barrier"
  <2>1. S(j) = S(j - 1)
    BY <1>5
  <2> QED
    BY <1>5, <2>1 DEF Barriers
<1> QED
  BY <1>4, <1>5

------------------------------------------------------------------------------
(* Types and loops.                                                         *)

\* Outside of the last rounds of its loops a master is at a thread it still has to meet.
LEMMA CurInTodo == ASSUME TypeOK, LoopInv, NEW m \in Master, todo[m] # {}
                   PROVE  Cur(m) \in todo[m] /\ Cur(m) \in Threads(m)
<1>1. todo[m] \in SUBSET Nat /\ todo[m] \subseteq Threads(m)
  BY DEF TypeOK, LoopInv
<1> QED
  BY <1>1, MinInSet DEF Cur

\* Setting a flag leaves a flag.
LEMMA SetFlag == ASSUME NEW f \in [PET -> 0..1], NEW c, NEW v \in 0..1
                 PROVE  [f EXCEPT ![c] = v] \in [PET -> 0..1]
OBVIOUS

\* VMK::construct leaves all PETs outside and all flags down ...
LEMMA InitInv == Init => TypeOK /\ LoopInv /\ PairInv /\ MpiInv
<1> SUFFICES ASSUME Init PROVE TypeOK /\ LoopInv /\ PairInv /\ MpiInv
  OBVIOUS
<1> USE DEF Init
<1>1. TypeOK
  BY DEF TypeOK
<1>2. LoopInv
  BY DEF LoopInv
<1>3. PairInv
  <2> SUFFICES ASSUME NEW m \in Master, NEW p \in Threads(m)
               PROVE  PairFlags(m, p) /\ PairOrder(m, p)
    BY DEF PairInv
  <2> QED
    BY OneMaster DEF PairFlags, PairOrder, Raised, Seen, Lowered, Left, MRaised, MSeen,
                     MLowered, MDone, Flipping, Flopping
<1>4. MpiInv
  <2>1. Barriers(0) = 0
    <3>1. {i \in 1..0 : Calls[i] = "barrier"} = {}
      OBVIOUS
    <3> QED
      BY <3>1, FS_EmptySet DEF Barriers
  <2> QED
    BY <2>1 DEF MpiInv, Gathered, Passed, Flipping
<1> QED
  BY <1>1, <1>2, <1>3, <1>4

\* ... and every step keeps the ranges ...
LEMMA StepType == TypeOK /\ LoopInv /\ [Next]_vars => TypeOK'
<1> SUFFICES ASSUME TypeOK, LoopInv, [Next]_vars PROVE TypeOK'
  OBVIOUS
<1> USE LenCalls DEF TypeOK, Goto
<1>1. ASSUME NEW m \in Master, MasterStep(m) PROVE TypeOK'
  <2> m \in PET /\ Threads(m) \subseteq PET
    BY DEF Threads
  <2>1. CASE EnterMaster(m)
    BY <2>1 DEF EnterMaster
  <2>2. CASE AFlip(m)
    <3>1. aDone' \in [PET -> 0..1]
      BY <2>2, SetFlag DEF AFlip
    <3> QED
      BY <2>2, <3>1 DEF AFlip
  <2>3. CASE ASpinFlip(m)
    BY <2>3 DEF ASpinFlip
  <2>4. CASE Flipped(m)
    BY <2>4 DEF Flipped
  <2>5. CASE LeaveMpi(m)
    BY <2>5 DEF LeaveMpi
  <2>6. CASE AFlop(m)
    <3>1. bDone' \in [PET -> 0..1]
      BY <2>6, SetFlag DEF AFlop
    <3> QED
      BY <2>6, <3>1 DEF AFlop
  <2>7. CASE ASpinFlop(m)
    BY <2>7 DEF ASpinFlop
  <2>8. CASE LeaveMaster(m)
    BY <2>8 DEF LeaveMaster
  <2> QED
    BY <1>1, <2>1, <2>2, <2>3, <2>4, <2>5, <2>6, <2>7, <2>8 DEF MasterStep
<1>2. ASSUME NEW p \in PET \ Master, ThreadStep(p) PROVE TypeOK'
  <2>1. CASE Enter(p)
    BY <2>1 DEF Enter
  <2>2. CASE BFlip(p)
    BY <2>2 DEF BFlip
  <2>3. CASE BSpinFlip(p)
    BY <2>3 DEF BSpinFlip
  <2>4. CASE BFlop(p)
    BY <2>4 DEF BFlop
  <2>5. CASE BSpinFlop(p)
    BY <2>5 DEF BSpinFlop
  <2> QED
    BY <1>2, <2>1, <2>2, <2>3, <2>4, <2>5 DEF ThreadStep
<1>3. CASE UNCHANGED vars
  BY <1>3 DEF vars
<1> QED
  BY <1>1, <1>2, <1>3 DEF Next

\* ... and the loops: a master waits only for threads it has not met.
LEMMA StepLoop == TypeOK /\ LoopInv /\ [Next]_vars => LoopInv'
<1> SUFFICES ASSUME TypeOK, LoopInv, [Next]_vars PROVE LoopInv'
  OBVIOUS
<1> USE DEF TypeOK, LoopInv, Goto, Call, Threads
<1>1. ASSUME NEW m \in Master, MasterStep(m) PROVE LoopInv'
  <2>1. CASE EnterMaster(m)
    BY <2>1 DEF EnterMaster
  <2>2. CASE AFlip(m)
    BY <2>2 DEF AFlip
  <2>3. CASE ASpinFlip(m)
    BY <2>3 DEF ASpinFlip
  <2>4. CASE Flipped(m)
    BY <2>4 DEF Flipped
  <2>5. CASE LeaveMpi(m)
    BY <2>5 DEF LeaveMpi
  <2>6. CASE AFlop(m)
    BY <2>6 DEF AFlop
  <2>7. CASE ASpinFlop(m)
    BY <2>7 DEF ASpinFlop
  <2>8. CASE LeaveMaster(m)
    BY <2>8 DEF LeaveMaster
  <2> QED
    BY <1>1, <2>1, <2>2, <2>3, <2>4, <2>5, <2>6, <2>7, <2>8 DEF MasterStep
<1>2. ASSUME NEW p \in PET \ Master, ThreadStep(p) PROVE LoopInv'
  <2>1. CASE Enter(p)
    BY <2>1 DEF Enter
  <2>2. CASE BFlip(p)
    BY <2>2 DEF BFlip
  <2>3. CASE BSpinFlip(p)
    BY <2>3 DEF BSpinFlip
  <2>4. CASE BFlop(p)
    BY <2>4 DEF BFlop
  <2>5. CASE BSpinFlop(p)
    BY <2>5 DEF BSpinFlop
  <2> QED
    BY <1>2, <2>1, <2>2, <2>3, <2>4, <2>5 DEF ThreadStep
<1>3. CASE UNCHANGED vars
  BY <1>3 DEF vars
<1> QED
  BY <1>1, <1>2, <1>3 DEF Next

------------------------------------------------------------------------------
(* The flags of the channels.                                               *)

\* A step of a thread keeps what the flags of its channel say ...
LEMMA ThreadPair == ASSUME TypeOK, LoopInv, PairInv, NEW p \in PET \ Master, ThreadStep(p)
                    PROVE  PairInv'
<1> SUFFICES ASSUME NEW m \in Master, NEW q \in Threads(m)
             PROVE  PairFlags(m, q)' /\ PairOrder(m, q)'
  BY DEF PairInv, Threads
<1>0. /\ m \in PET /\ m # p /\ q \in PET /\ q \notin Master
      /\ PairFlags(m, q) /\ PairOrder(m, q)
  BY OneMaster DEF PairInv
<1>1. todo' = todo /\ mpiCount' = mpiCount
  BY DEF ThreadStep, Enter, BFlip, BSpinFlip, BFlop, BSpinFlop
<1>2. pc'[m] = pc[m] /\ entered'[m] = entered[m]
  BY <1>0 DEF TypeOK, Goto, ThreadStep, Enter, BFlip, BSpinFlip, BFlop, BSpinFlop
<1>3. /\ MRaised(m, q)' = MRaised(m, q) /\ MSeen(m, q)' = MSeen(m, q)
      /\ MLowered(m, q)' = MLowered(m, q) /\ MDone(m, q)' = MDone(m, q)
  BY <1>1, <1>2 DEF MRaised, MSeen, MLowered, MDone, Cur, Flipping, Flopping
<1>4. entered[m] \in Nat /\ entered[q] \in Nat /\ aDone[q] \in 0..1 /\ bDone[q] \in 0..1
  BY <1>0 DEF TypeOK
<1>5. /\ MRaised(m, q) \in Int /\ MSeen(m, q) \in Int
      /\ MLowered(m, q) \in Int /\ MDone(m, q) \in Int
  BY <1>4 DEF MRaised, MSeen, MLowered, MDone
<1>6. CASE q # p
  <2>1. /\ pc'[q] = pc[q] /\ entered'[q] = entered[q]
        /\ aDone'[q] = aDone[q] /\ bDone'[q] = bDone[q]
    BY <1>0, <1>6 DEF TypeOK, Goto, ThreadStep, Enter, BFlip, BSpinFlip, BFlop, BSpinFlop
  <2> QED
    BY <1>0, <1>3, <2>1 DEF PairFlags, PairOrder, Raised, Seen, Lowered, Left
\* The channel of p itself: the counts of its master stand still.
<1>7. CASE q = p
  <2> USE <1>0, <1>3, <1>4, <1>5, <1>7 DEF TypeOK, Goto, PairFlags, PairOrder, Raised, Seen,
          Lowered, Left, Flipping
  <2>1. CASE Enter(p)
    BY <2>1 DEF Enter
  <2>2. CASE BFlip(p)
    <3>1. /\ pc[q] = "flip" /\ pc'[q] = "spinFlip" /\ entered' = entered
          /\ bDone'[q] = 1 /\ aDone' = aDone
      BY <2>2 DEF BFlip
    <3>2. MLowered(m, q) = entered[q] - 1
      BY <3>1
    <3> QED
      BY <3>1, <3>2
  <2>3. CASE BSpinFlip(p)
    BY <2>3 DEF BSpinFlip
  <2>4. CASE BFlop(p)
    BY <2>4 DEF BFlop
  <2>5. CASE BSpinFlop(p)
    BY <2>5 DEF BSpinFlop
  <2> QED
    BY <2>1, <2>2, <2>3, <2>4, <2>5 DEF ThreadStep
<1> QED
  BY <1>6, <1>7

\* ... and a step of a master what those of its channels say.
LEMMA MasterPair == ASSUME TypeOK, LoopInv, PairInv, NEW m \in Master, MasterStep(m)
                    PROVE  PairInv'
<1> SUFFICES ASSUME NEW n \in Master, NEW q \in Threads(n)
             PROVE  PairFlags(n, q)' /\ PairOrder(n, q)'
  BY DEF PairInv, Threads
<1>0. /\ m \in PET /\ n \in PET /\ q \in PET /\ q \notin Master /\ q # m
      /\ PairFlags(n, q) /\ PairOrder(n, q)
  BY OneMaster DEF PairInv
<1>1. todo[m] # {} => Cur(m) \in todo[m] /\ Cur(m) \in Threads(m)
  BY CurInTodo
<1>2. pc'[q] = pc[q] /\ entered'[q] = entered[q]
  BY <1>0 DEF TypeOK, Goto, MasterStep, EnterMaster, AFlip, ASpinFlip, Flipped, LeaveMpi, AFlop,
              ASpinFlop, LeaveMaster
<1>3. /\ Raised(q)' = Raised(q) /\ Seen(q)' = Seen(q)
      /\ Lowered(q)' = Lowered(q) /\ Left(q)' = Left(q)
  BY <1>2 DEF Raised, Seen, Lowered, Left, Flipping
<1>4. entered[n] \in Nat /\ entered[q] \in Nat /\ aDone[q] \in 0..1 /\ bDone[q] \in 0..1
  BY <1>0 DEF TypeOK
<1>5. Raised(q) \in Int /\ Seen(q) \in Int /\ Lowered(q) \in Int /\ Left(q) \in Int
  BY <1>4 DEF Raised, Seen, Lowered, Left
\* A channel of another process.
<1>6. CASE n # m
  <2>1. pc'[n] = pc[n] /\ entered'[n] = entered[n] /\ todo'[n] = todo[n]
    BY <1>0, <1>6 DEF TypeOK, Goto, MasterStep, EnterMaster, AFlip, ASpinFlip, Flipped, LeaveMpi,
                      AFlop, ASpinFlop, LeaveMaster
  <2>2. todo[m] # {} => Cur(m) # q
    BY <1>1, <1>6, OneMaster
  <2>3. aDone'[q] = aDone[q] /\ bDone'[q] = bDone[q]
    BY <1>0, <2>2 DEF TypeOK, MasterStep, EnterMaster, AFlip, ASpinFlip, Flipped, LeaveMpi, AFlop,
                      ASpinFlop, LeaveMaster
  <2> QED
    BY <1>0, <1>3, <2>1, <2>3 DEF PairFlags, PairOrder, MRaised, MSeen, MLowered, MDone, Cur
\* A channel of its own: the counts of the thread stand still.
<1>7. CASE n = m
  <2> q \in Threads(m)
    BY <1>7
  <2>l. /\ todo[m] \subseteq Threads(m) /\ pc[m] \in {"spinFlip", "spinFlop"} => todo[m] # {}
    BY DEF LoopInv
  <2> USE <1>0, <1>1, <1>3, <1>4, <1>5, <1>7 DEF TypeOK, Goto, PairFlags, PairOrder
  <2>1. CASE EnterMaster(m)
    <3>1. /\ MRaised(m, q)' = MRaised(m, q) /\ MSeen(m, q)' = MSeen(m, q)
          /\ MLowered(m, q)' = MLowered(m, q) /\ MDone(m, q)' = MDone(m, q)
      BY <2>1 DEF EnterMaster, MRaised, MSeen, MLowered, MDone, Flipping, Flopping
    <3> QED
      BY <2>1, <3>1 DEF EnterMaster
  <2>2. CASE AFlip(m)
    <3>1. /\ MSeen(m, q)' = MSeen(m, q) /\ MLowered(m, q)' = MLowered(m, q)
          /\ MDone(m, q)' = MDone(m, q)
      BY <2>2 DEF AFlip, MSeen, MLowered, MDone, Flipping, Flopping
    <3>2. CASE q = Cur(m)
      <4>1. aDone'[q] = 1 /\ bDone' = bDone
        BY <2>2, <3>2 DEF AFlip
      <4>2. MRaised(m, q) = entered[m] - 1 /\ MRaised(m, q)' = entered[m]
        BY <2>2, <3>2 DEF AFlip, MRaised, Cur, Flipping
      <4>3. MDone(m, q) = entered[m] - 1
        BY <2>2 DEF AFlip, MDone, Flipping
      <4> QED
        BY <3>1, <4>1, <4>2, <4>3
    <3>3. CASE q # Cur(m)
      <4>1. aDone'[q] = aDone[q] /\ bDone' = bDone
        BY <2>2, <3>3 DEF AFlip
      <4>2. MRaised(m, q)' = MRaised(m, q)
        BY <2>2, <3>3 DEF AFlip, MRaised, Cur, Flipping
      <4> QED
        BY <3>1, <4>1, <4>2
    <3> QED
      BY <3>2, <3>3
  <2>3. CASE ASpinFlip(m)
    <3>1. /\ MRaised(m, q)' = MRaised(m, q) /\ MLowered(m, q)' = MLowered(m, q)
          /\ MDone(m, q)' = MDone(m, q)
      BY <2>3 DEF ASpinFlip, MRaised, MLowered, MDone, Flipping, Flopping
    <3>2. MSeen(m, q)' = MSeen(m, q) \/ (q = Cur(m) /\ MSeen(m, q)' = entered[m])
      <4>1. entered' = entered /\ pc[m] = "spinFlip" /\ pc'[m] = "flip"
        BY <2>3 DEF ASpinFlip
      <4>2. q \in todo'[m] <=> q \in todo[m] /\ q # Cur(m)
        BY <2>3 DEF ASpinFlip
      <4>3. CASE q = Cur(m)
        BY <4>1, <4>2, <4>3 DEF MSeen, Flipping
      <4>4. CASE q # Cur(m)
        BY <4>1, <4>2, <4>4 DEF MSeen, Flipping
      <4> QED
        BY <4>3, <4>4
    <3>3. MLowered(m, q) = entered[m] - 1
      BY <2>3 DEF ASpinFlip, MLowered, Flipping
    <3> QED
      BY <2>3, <3>1, <3>2, <3>3 DEF ASpinFlip
  <2>4. CASE Flipped(m)
    BY <2>4 DEF Flipped, MRaised, MSeen, MLowered, MDone, Flipping, Flopping
  <2>5. CASE LeaveMpi(m)
    BY <2>5 DEF LeaveMpi, MRaised, MSeen, MLowered, MDone, Flipping, Flopping
  <2>6. CASE AFlop(m)
    <3>1. /\ MRaised(m, q)' = MRaised(m, q) /\ MSeen(m, q)' = MSeen(m, q)
          /\ MDone(m, q)' = MDone(m, q)
      BY <2>6 DEF AFlop, MRaised, MSeen, MDone, Flipping, Flopping
    <3>2. CASE q = Cur(m)
      <4>1. bDone'[q] = 0 /\ aDone' = aDone
        BY <2>6, <3>2 DEF AFlop
      <4>2. MLowered(m, q) = entered[m] - 1 /\ MLowered(m, q)' = entered[m]
        BY <2>6, <3>2 DEF AFlop, MLowered, Cur, Flipping, Flopping
      <4>3. MSeen(m, q) = entered[m]
        BY <2>6 DEF AFlop, MSeen, Flipping
      <4> QED
        BY <3>1, <4>1, <4>2, <4>3
    <3>3. CASE q # Cur(m)
      <4>1. bDone'[q] = bDone[q] /\ aDone' = aDone
        BY <2>6, <3>3 DEF AFlop
      <4>2. MLowered(m, q)' = MLowered(m, q)
        BY <2>6, <3>3 DEF AFlop, MLowered, Cur, Flipping, Flopping
      <4> QED
        BY <3>1, <4>1, <4>2
    <3> QED
      BY <3>2, <3>3
  <2>7. CASE ASpinFlop(m)
    <3>1. /\ MRaised(m, q)' = MRaised(m, q) /\ MSeen(m, q)' = MSeen(m, q)
          /\ MLowered(m, q)' = MLowered(m, q)
      BY <2>l, <2>7 DEF ASpinFlop, MRaised, MSeen, MLowered, Flipping, Flopping
    <3>2. MDone(m, q)' = MDone(m, q) \/ (q = Cur(m) /\ MDone(m, q)' = entered[m])
      <4>1. entered' = entered /\ pc[m] = "spinFlop" /\ pc'[m] = "flop"
        BY <2>7 DEF ASpinFlop
      <4>2. q \in todo'[m] <=> q \in todo[m] /\ q # Cur(m)
        BY <2>7 DEF ASpinFlop
      <4>3. CASE q = Cur(m)
        BY <4>1, <4>2, <4>3 DEF MDone, Flipping, Flopping
      <4>4. CASE q # Cur(m)
        BY <4>1, <4>2, <4>4 DEF MDone, Flipping, Flopping
      <4> QED
        BY <4>3, <4>4
    <3>3. MRaised(m, q) = entered[m]
      BY <2>7 DEF ASpinFlop, MRaised, Flipping
    <3> QED
      BY <2>7, <3>1, <3>2, <3>3 DEF ASpinFlop
  <2>8. CASE LeaveMaster(m)
    BY <2>8 DEF LeaveMaster, MRaised, MSeen, MLowered, MDone, Flipping, Flopping
  <2> QED
    BY <2>1, <2>2, <2>3, <2>4, <2>5, <2>6, <2>7, <2>8 DEF MasterStep
<1> QED
  BY <1>6, <1>7

\* Together: every step keeps what the flags of all channels say.
LEMMA StepPair == TypeOK /\ LoopInv /\ PairInv /\ [Next]_vars => PairInv'
<1> SUFFICES ASSUME TypeOK, LoopInv, PairInv, [Next]_vars PROVE PairInv'
  OBVIOUS
<1>1. CASE UNCHANGED vars
  BY <1>1 DEF vars, PairInv, PairFlags, PairOrder, Raised, Seen, Lowered, Left, MRaised, MSeen,
              MLowered, MDone, Cur
<1> QED
  BY <1>1, ThreadPair, MasterPair DEF Next

------------------------------------------------------------------------------
(* MPI_Barrier.                                                             *)

\* A master is let past MPI_Barrier only when all have gathered their threads for it.
LEMMA StepMpi == TypeOK /\ LoopInv /\ MpiInv /\ [Next]_vars => MpiInv'
<1> SUFFICES ASSUME TypeOK, LoopInv, MpiInv, [Next]_vars PROVE MpiInv'
  OBVIOUS
<1> USE LenCalls
<1>t. \A n \in Master : /\ n \in PET /\ entered[n] \in Nat /\ entered[n] <= Len(Calls)
                        /\ (pc[n] # "out" => entered[n] >= 1)
                        /\ pc[n] \in {"out", "flip", "spinFlip", "mpi", "flop", "spinFlop"}
  BY DEF TypeOK, LoopInv
\* Most steps change neither how often a master has gathered its threads nor what it has passed.
<1>k. ASSUME mpiCount' = mpiCount,
             \A n \in Master : Gathered(n)' = Gathered(n) /\ Passed(n)' = Passed(n)
      PROVE  MpiInv'
  BY <1>k DEF MpiInv, Barriers
<1>1. ASSUME NEW m \in Master, MasterStep(m) PROVE MpiInv'
  <2> USE <1>t DEF TypeOK, Goto
  <2>0. /\ \A n \in Master : n # m => pc'[n] = pc[n] /\ entered'[n] = entered[n]
        /\ \A n \in Master : n # m => Gathered(n)' = Gathered(n) /\ Passed(n)' = Passed(n)
    <3>1. \A n \in Master : n # m => pc'[n] = pc[n] /\ entered'[n] = entered[n]
      BY <1>1 DEF MasterStep, EnterMaster, AFlip, ASpinFlip, Flipped, LeaveMpi, AFlop, ASpinFlop,
                  LeaveMaster
    <3> QED
      BY <3>1 DEF Gathered, Passed
  <2>k. ASSUME mpiCount' = mpiCount, Gathered(m)' = Gathered(m), Passed(m)' = Passed(m)
        PROVE  MpiInv'
    BY <2>0, <2>k, <1>k
  <2>1. CASE EnterMaster(m)
    BY <2>1, <2>k DEF EnterMaster, Gathered, Passed, Flipping
  <2>2. CASE AFlip(m)
    BY <2>2, <2>k DEF AFlip, Gathered, Passed, Flipping
  <2>3. CASE ASpinFlip(m)
    BY <2>3, <2>k DEF ASpinFlip, Gathered, Passed, Flipping
  <2>4. CASE Flipped(m)
    <3> DEFINE e == entered[m]
    <3>1. /\ e >= 1 /\ Gathered(m) = e - 1 /\ Gathered(m)' = e /\ Passed(m) = e - 1
      BY <2>4 DEF Flipped, Gathered, Passed, Flipping
    <3>2. Barriers(e) = IF Calls[e] = "barrier" THEN Barriers(e - 1) + 1 ELSE Barriers(e - 1)
      BY <3>1, BarriersStep
    <3>3. mpiCount[m] = Barriers(e - 1)
      BY <3>1 DEF MpiInv
    <3>4. CASE Call(m) = "barrier"
      <4>1. mpiCount' = [mpiCount EXCEPT ![m] = @ + 1] /\ Passed(m)' = Passed(m)
        BY <2>4, <3>1, <3>4 DEF Flipped, Passed, Flipping
      <4>2. mpiCount'[m] = Barriers(Gathered(m)')
        BY <3>1, <3>2, <3>3, <3>4, <4>1 DEF Call
      <4>3. \A n \in Master : mpiCount'[n] = Barriers(Gathered(n)')
        BY <2>0, <4>1, <4>2 DEF MpiInv
      <4>4. \A n, l \in Master : \A k \in 1..Len(Calls) :
               Calls[k] = "barrier" /\ Passed(n)' >= k => Gathered(l)' >= k
        <5> SUFFICES ASSUME NEW n \in Master, NEW l \in Master, NEW k \in 1..Len(Calls),
                            Calls[k] = "barrier", Passed(n)' >= k
                     PROVE  Gathered(l)' >= k
          OBVIOUS
        <5>1. Passed(n)' = Passed(n)
          BY <2>0, <4>1
        <5>2. Gathered(l) >= k
          BY <5>1 DEF MpiInv
        <5> QED
          BY <2>0, <3>1, <5>2
      <4> QED
        BY <4>3, <4>4 DEF MpiInv, Barriers
    <3>5. CASE Call(m) # "barrier"
      <4>1. mpiCount' = mpiCount /\ Passed(m)' = e
        BY <2>4, <3>5 DEF Flipped, Passed, Flipping
      <4>2. mpiCount'[m] = Barriers(Gathered(m)')
        BY <3>1, <3>2, <3>3, <3>5, <4>1 DEF Call
      <4>3. \A n \in Master : mpiCount'[n] = Barriers(Gathered(n)')
        BY <2>0, <4>1, <4>2 DEF MpiInv
      <4>4. \A n, l \in Master : \A k \in 1..Len(Calls) :
               Calls[k] = "barrier" /\ Passed(n)' >= k => Gathered(l)' >= k
        <5> SUFFICES ASSUME NEW n \in Master, NEW l \in Master, NEW k \in 1..Len(Calls),
                            Calls[k] = "barrier", Passed(n)' >= k
                     PROVE  Gathered(l)' >= k
          OBVIOUS
        <5>1. Passed(n) >= k
          BY <2>0, <3>1, <3>5, <4>1 DEF Call
        <5>2. Gathered(l) >= k
          BY <5>1 DEF MpiInv
        <5> QED
          BY <2>0, <3>1, <5>2
      <4> QED
        BY <4>3, <4>4 DEF MpiInv, Barriers
    <3> QED
      BY <3>4, <3>5
  <2>5. CASE LeaveMpi(m)
    <3> DEFINE e == entered[m]
    <3>1. /\ e >= 1 /\ Calls[e] = "barrier"
          /\ Gathered(m) = e /\ Gathered(m)' = e /\ Passed(m)' = e /\ mpiCount' = mpiCount
          /\ \A n \in Master : mpiCount[n] >= mpiCount[m]
      BY <2>5 DEF LeaveMpi, LoopInv, Call, Gathered, Passed, Flipping
    <3>2. \A n \in Master : Gathered(n)' = Gathered(n)
      BY <2>0, <3>1
    \* A master that had gathered its threads less often would have entered MPI_Barrier less
    \* often, because this call is a barrier.
    <3>3. ASSUME NEW n \in Master PROVE Gathered(n) >= e
      <4>1. Gathered(n) \in Nat
        BY DEF Gathered, Flipping
      <4>2. SUFFICES ASSUME Gathered(n) <= e - 1 PROVE FALSE
        BY <3>1, <4>1
      <4>3. Barriers(Gathered(n)) <= Barriers(e - 1) /\ Barriers(e - 1) \in Nat
        <5>1. e - 1 \in Nat
          BY <3>1
        <5>2. Barriers(Gathered(n)) <= Barriers(e - 1)
          BY <4>1, <4>2, <5>1, BarriersGrow
        <5> QED
          BY <5>1, <5>2, BarriersType
      <4>4. Barriers(e) = Barriers(e - 1) + 1
        BY <3>1, BarriersStep
      <4>5. mpiCount[n] = Barriers(Gathered(n)) /\ mpiCount[m] = Barriers(e)
        BY <3>1 DEF MpiInv
      <4>6. Barriers(Gathered(n)) \in Nat
        BY <4>1, BarriersType
      <4> QED
        BY <3>1, <4>3, <4>4, <4>5, <4>6
    <3>4. \A n, l \in Master : \A k \in 1..Len(Calls) :
             Calls[k] = "barrier" /\ Passed(n)' >= k => Gathered(l)' >= k
      <4> SUFFICES ASSUME NEW n \in Master, NEW l \in Master, NEW k \in 1..Len(Calls),
                          Calls[k] = "barrier", Passed(n)' >= k
                   PROVE  Gathered(l) >= k
        BY <3>2
      <4>1. CASE n = m
        <5>1. Gathered(l) >= e /\ Gathered(l) \in Int
          BY <3>3 DEF Gathered
        <5> QED
          BY <3>1, <4>1, <5>1
      <4>2. CASE n # m
        BY <2>0, <4>2 DEF MpiInv
      <4> QED
        BY <4>1, <4>2
    <3> QED
      BY <3>1, <3>2, <3>4 DEF MpiInv, Barriers
  <2>6. CASE AFlop(m)
    BY <2>6, <2>k DEF AFlop, Gathered, Passed, Flipping
  <2>7. CASE ASpinFlop(m)
    BY <2>7, <2>k DEF ASpinFlop, Gathered, Passed, Flipping
  <2>8. CASE LeaveMaster(m)
    BY <2>8, <2>k DEF LeaveMaster, Gathered, Passed, Flipping
  <2> QED
    BY <1>1, <2>1, <2>2, <2>3, <2>4, <2>5, <2>6, <2>7, <2>8 DEF MasterStep
<1>2. ASSUME NEW p \in PET \ Master, ThreadStep(p) PROVE MpiInv'
  <2>1. mpiCount' = mpiCount /\ \A n \in Master : pc'[n] = pc[n] /\ entered'[n] = entered[n]
    BY <1>2 DEF TypeOK, Goto, ThreadStep, Enter, BFlip, BSpinFlip, BFlop, BSpinFlop
  <2> QED
    BY <2>1, <1>k DEF Gathered, Passed
<1>3. CASE UNCHANGED vars
  BY <1>3, <1>k DEF vars, Gathered, Passed
<1> QED
  BY <1>1, <1>2, <1>3 DEF Next

------------------------------------------------------------------------------
(* The theorems.                                                            *)

\* Control points, counts and flags stay in their ranges, and the invariants hold, in every
\* behaviour of barrier and threadbarrier.
LEMMA Invariants == Spec => [](TypeOK /\ LoopInv /\ PairInv /\ MpiInv)
<1>1. TypeOK /\ LoopInv /\ PairInv /\ MpiInv /\ [Next]_vars
        => TypeOK' /\ LoopInv' /\ PairInv' /\ MpiInv'
  BY StepType, StepLoop, StepPair, StepMpi
<1> QED
  BY InitInv, <1>1, PTL DEF Spec

\* The flags of the channels of a barrier are only ever 0 or 1, whatever the order in which the
\* PETs raise them and take them down.
THEOREM BarrierType == Spec => []TypeOK
BY Invariants, PTL

\* How far a thread has got bounds what its master has, and conversely.
LEMMA PairMeets == ASSUME TypeOK, PairInv, NEW m \in Master, NEW p \in Threads(m)
                   PROVE  /\ Left(m) <= entered[p] /\ Left(p) <= entered[m]
                          /\ Left(p) <= Passed(m) /\ Gathered(m) <= entered[p]
                          /\ \A q \in Threads(m) : Left(p) <= entered[q]
<1>1. /\ m \in PET /\ entered[m] \in Nat
      /\ \A q \in Threads(m) : q \in PET /\ entered[q] \in Nat /\ PairOrder(m, q)
  BY DEF PairInv, TypeOK, Threads
<1>2. ASSUME NEW q \in Threads(m)
      PROVE  /\ Raised(q) <= entered[q] /\ Lowered(q) <= entered[q] /\ Left(q) \in Int
             /\ Raised(q) \in Int /\ Lowered(q) \in Int
             /\ MSeen(m, q) \in Int /\ MDone(m, q) \in Int /\ MLowered(m, q) \in Int
  BY <1>1 DEF Raised, Lowered, Left, MSeen, MDone, MLowered
<1>3. ASSUME NEW q \in Threads(m)
      PROVE  /\ Left(m) <= MDone(m, q) /\ Gathered(m) <= MSeen(m, q)
             /\ MLowered(m, q) <= Passed(m) /\ MLowered(m, q) <= Gathered(m)
             /\ Gathered(m) <= entered[m] /\ Passed(m) <= entered[m]
             /\ Left(m) \in Int /\ Gathered(m) \in Int /\ Passed(m) \in Int
  BY <1>1 DEF Left, Gathered, Passed, MSeen, MDone, MLowered, Flipping, Flopping
<1>4. ASSUME NEW q \in Threads(m)
      PROVE  Left(m) <= entered[q] /\ Gathered(m) <= entered[q] /\ Left(q) <= Gathered(m)
             /\ Left(q) <= Passed(m)
  BY <1>1, <1>2, <1>3 DEF PairOrder
<1> QED
  BY <1>1, <1>2, <1>3, <1>4

\* No thread of a process returns from a barrier or threadbarrier before all threads of the
\* process have entered it, for any number of threads: the master is the go-between of the
\* flips and flops of sync_a and sync_b.
THEOREM GroupBarrierHolds == Spec => []GroupBarrier
<1>1. TypeOK /\ PairInv => GroupBarrier
  <2> SUFFICES ASSUME TypeOK, PairInv, NEW p \in PET, NEW q \in PET, Pid[p] = Pid[q]
               PROVE  Left(p) <= entered[q]
    BY DEF GroupBarrier
  <2>1. PICK m \in Master : Pid[m] = Pid[p] /\ (p = m \/ p \in Threads(m))
    BY HasMaster
  <2>2. q = m \/ q \in Threads(m)
    BY <2>1 DEF Threads
  <2>3. p = q => Left(p) <= entered[q]
    BY DEF Left, TypeOK
  <2> QED
    BY <2>1, <2>2, <2>3, PairMeets
<1> QED
  BY <1>1, Invariants, PTL

\* No PET returns from a barrier before every PET of the VM has entered it, for any number of
\* processes and threads and any sequence of barriers and threadbarriers.
THEOREM FullBarrierHolds == Spec => []FullBarrier
<1>1. TypeOK /\ PairInv /\ MpiInv => FullBarrier
  <2> SUFFICES ASSUME TypeOK, PairInv, MpiInv, NEW p \in PET, NEW q \in PET,
                      NEW k \in 1..Len(Calls), Calls[k] = "barrier", Left(p) >= k
               PROVE  entered[q] >= k
    BY DEF FullBarrier
  <2>1. PICK m \in Master : p = m \/ p \in Threads(m)
    BY HasMaster
  <2>2. PICK n \in Master : q = n \/ q \in Threads(n)
    BY HasMaster
  <2>3. /\ entered[m] \in Nat /\ entered[n] \in Nat /\ entered[p] \in Nat /\ entered[q] \in Nat
        /\ k \in Nat
    BY LenCalls DEF TypeOK
  <2>4. Left(p) <= Passed(m)
    BY <2>1, <2>3, PairMeets DEF Left, Passed, Flipping
  <2>5. Passed(m) >= k
    BY <2>3, <2>4 DEF Left, Passed
  <2>6. Gathered(n) >= k
    BY <2>5 DEF MpiInv
  <2>7. Gathered(n) <= entered[q]
    BY <2>2, <2>3, PairMeets DEF Gathered
  <2> QED
    BY <2>3, <2>6, <2>7 DEF Gathered
<1> QED
  BY <1>1, Invariants, PTL
==============================================================================
