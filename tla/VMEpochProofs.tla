----------------------------- MODULE VMEpochProofs -----------------------------
(***************************************************************************)
(* TLAPS proofs about VMEpoch, for every set of PETs and every program:    *)
(* any number of epochs with any number of messages of each pair.          *)
(***************************************************************************)
EXTENDS VMEpoch, LeastNumber, SequenceTheorems

\* The number of the first n epochs in which pair x has messages.
Busy(x, n) == Cardinality({k \in 1..n : Count[k][x] > 0})

\* The epochs the sender of pair x has exited, and those whose MPI message its receiver has
\* taken (in an epoch: when it has made a receive).
Exited(x) == IF epoch[x[1]] = "buffer" THEN no[x[1]] - 1 ELSE no[x[1]]
Taken(x)  == IF epoch[x[2]] = "buffer" /\ due[x] = Count[no[x[2]]][x]
             THEN no[x[2]] - 1 ELSE no[x[2]]

\* The stream of a sender in an epoch holds what it has sent there, and is its own.
Stream(x) ==
  /\ put[x] <= Len(memory[x])
  /\ epoch[x[1]] = "buffer" =>
       /\ no[x[1]] >= 1
       /\ put[x] + left[x] = Count[no[x[1]]][x]
       /\ sendFirst[x] <=> put[x] = 0
       /\ put[x] > 0 => ~pending[x]
       /\ \A i \in 1..put[x] : memory[x][i] = <<no[x[1]], i>>
  /\ epoch[x[1]] # "buffer" => left[x] = 0 /\ put[x] = 0

\* A receiver in an epoch has in its buffer what it has still to receive there.
Buffer(x) ==
  /\ ~failed[x[2]]
  /\ epoch[x[2]] = "buffer" =>
       LET count == Count[no[x[2]]][x] IN
       /\ no[x[2]] >= 1
       /\ due[x] <= count
       /\ recvFirst[x] <=> due[x] = count
       /\ ~recvFirst[x] => /\ Len(chunks[x]) = due[x]
                           /\ \A i \in 1..due[x] : chunks[x][i] = <<no[x[2]], count - due[x] + i>>
  /\ epoch[x[2]] # "buffer" => due[x] = 0

\* Entry i of the network is the message of the busy epoch k that is due i-th.
Carries(x, i, k) ==
  /\ net[x][i].size = Count[k][x]
  /\ net[x][i].copied => net[x][i].data = MessagesOf(x, k)
  /\ ~net[x][i].copied => /\ Count[k][x] <= Len(memory[x])
                          /\ \A j \in 1..Count[k][x] : memory[x][j] = <<k, j>>

Network(x) ==
  /\ posted[x] = Busy(x, Exited(x))
  /\ posted[x] - Len(net[x]) = Busy(x, Taken(x))
  /\ \A i \in 1..Len(net[x]), k \in 1..Epochs :
       Count[k][x] > 0 /\ Busy(x, k) = Busy(x, Taken(x)) + i => Carries(x, i, k)
  /\ \A i \in 1..Len(net[x]) : ~net[x][i].copied <=> (pending[x] /\ i = Len(net[x]))
  /\ pending[x] => net[x] # <<>> /\ net[x][Len(net[x])].size <= Len(memory[x])

Delivered(x) ==
  LET program == Program[no[x[2]]][x] IN
  /\ Len(program) - due[x] >= 0
  /\ got[x] = SubSeq(program, 1, Len(program) - due[x])

Inv == \A x \in Pair : Stream(x) /\ Buffer(x) /\ Network(x) /\ Delivered(x)

------------------------------------------------------------------------------
(* Facts about the program.                                                 *)

\* The counts of the program are numbers.
LEMMA CountType == /\ Epochs \in Nat
                   /\ \A k \in 1..Epochs, x \in Pair : Count[k][x] \in Nat
BY CountAssumption DEF Epochs

\* The equation that defines Program: by the least n up to which no function satisfies it.
LEMMA ProgramDef ==
  \A n \in 0..Epochs, x \in Pair :
    Program[n][x] = IF n = 0 THEN <<>> ELSE Program[n - 1][x] \o MessagesOf(x, n)
<1> DEFINE Solves(f, N) == f = [n \in 0..N |->
             [x \in Pair |-> IF n = 0 THEN <<>> ELSE f[n - 1][x] \o MessagesOf(x, n)]]
           Bad == {N \in Nat : \A f : ~Solves(f, N)}
<1>1. Bad = {}
  <2> SUFFICES ASSUME Bad # {} PROVE FALSE
    OBVIOUS
  <2>1. PICK N \in Bad : \A M \in Bad : N <= M
    BY LeastNumber
  <2>2. N # 0
    <3> DEFINE g == [n \in 0..0 |-> [x \in Pair |-> <<>>]]
    <3>1. ASSUME NEW n \in 0..0
          PROVE  [x \in Pair |-> IF n = 0 THEN <<>> ELSE g[n - 1][x] \o MessagesOf(x, n)] = g[n]
      <4>1. n = 0
        OBVIOUS
      <4> QED
        BY <4>1, Zenon
    <3>2. g = [n \in 0..0 |-> g[n]]
      OBVIOUS
    <3>3. Solves(g, 0)
      <4> HIDE DEF g
      <4> QED
        BY <3>1, <3>2
    <3> HIDE DEF Solves
    <3> QED
      BY <2>1, <3>3
  <2>3. N \in Nat /\ N - 1 \in Nat /\ N - 1 \notin Bad
    <3>1. N \in Nat /\ \A M \in Bad : N <= M
      BY <2>1
    <3> HIDE DEF Bad
    <3> QED
      BY <3>1, <2>2
  <2>4. PICK f : Solves(f, N - 1)
    <3> HIDE DEF Solves
    <3> QED
      BY <2>3
  <2> DEFINE g == [n \in 0..N |-> IF n = N THEN [x \in Pair |-> f[N - 1][x] \o MessagesOf(x, N)]
                                  ELSE f[n]]
  <2>5. Solves(g, N)
    <3> DEFINE eqn(n) == [x \in Pair |-> IF n = 0 THEN <<>> ELSE g[n - 1][x] \o MessagesOf(x, n)]
    <3>1. ASSUME NEW n \in 0..N PROVE g[n] = eqn(n)
      <4>1. CASE n = N
        <5>1. g[n - 1] = f[N - 1]
          BY <2>3, <4>1
        <5>2. g[n] = [x \in Pair |-> f[N - 1][x] \o MessagesOf(x, N)]
          BY <4>1
        <5>3. n # 0
          BY <2>3, <4>1
        <5> HIDE DEF g
        <5> QED
          BY <4>1, <5>1, <5>2, <5>3, Zenon
      <4>2. CASE n # N
        <5>1. n \in 0..(N - 1) /\ (n # 0 => n - 1 \in 0..(N - 1) /\ n - 1 # N)
          BY <2>3, <4>2
        <5>2. f[n] = [x \in Pair |-> IF n = 0 THEN <<>> ELSE f[n - 1][x] \o MessagesOf(x, n)]
          BY <2>4, <5>1
        <5>3. n # 0 => g[n - 1] = f[n - 1]
          BY <2>3, <5>1
        <5> QED
          BY <4>2, <5>2, <5>3
      <4> QED
        BY <4>1, <4>2
    <3>2. g = [n \in 0..N |-> g[n]]
      OBVIOUS
    <3> HIDE DEF g
    <3> QED
      BY <3>1, <3>2
  <2> HIDE DEF Solves
  <2> QED
    BY <2>1, <2>5
<1>2. \E f : Solves(f, Epochs)
  <2> HIDE DEF Solves
  <2> QED
    BY <1>1, CountType
<1>3. Solves(Program, Epochs)
  BY <1>2 DEF Program
<1>4. ASSUME NEW n \in 0..Epochs, NEW x \in Pair
      PROVE  Program[n][x] = IF n = 0 THEN <<>> ELSE Program[n - 1][x] \o MessagesOf(x, n)
  <2>1. Program[n] = [y \in Pair |-> IF n = 0 THEN <<>>
                                     ELSE Program[n - 1][y] \o MessagesOf(y, n)]
    BY <1>3
  <2> QED
    BY <2>1
<1> QED
  BY <1>4

\* The messages of a pair in an epoch, one by one.
LEMMA MessagesType ==
  ASSUME NEW x \in Pair, NEW k \in 1..Epochs
  PROVE  /\ MessagesOf(x, k) \in Seq(Message)
         /\ Len(MessagesOf(x, k)) = Count[k][x]
         /\ \A i \in 1..Count[k][x] : MessagesOf(x, k)[i] = <<k, i>> /\ <<k, i>> \in Message
<1>1. ASSUME NEW i \in 1..Count[k][x] PROVE <<k, i>> \in Message
  BY CountType DEF Message
<1> QED
  BY <1>1, CountType DEF MessagesOf

\* An epoch with messages counts one more.
LEMMA BusyStep ==
  ASSUME NEW x \in Pair, NEW n \in 0..Epochs
  PROVE  /\ Busy(x, n) \in 0..n
         /\ n > 0 => Busy(x, n) = Busy(x, n - 1) + (IF Count[n][x] > 0 THEN 1 ELSE 0)
<1> DEFINE S(m) == {k \in 1..m : Count[k][x] > 0}
<1>1. \A m \in Nat : IsFiniteSet(S(m)) /\ Cardinality(S(m)) \in 0..m
  <2> SUFFICES ASSUME NEW m \in Nat PROVE IsFiniteSet(S(m)) /\ Cardinality(S(m)) \in 0..m
    OBVIOUS
  <2>1. IsFiniteSet(1..m) /\ Cardinality(1..m) = m
    BY FS_Interval
  <2>2. S(m) \in SUBSET (1..m)
    OBVIOUS
  <2>3. IsFiniteSet(S(m)) /\ Cardinality(S(m)) <= m
    BY <2>1, <2>2, FS_Subset
  <2> QED
    BY <2>3, FS_CardinalityType
<1>2. ASSUME n > 0
      PROVE  Cardinality(S(n)) = Cardinality(S(n - 1)) + (IF Count[n][x] > 0 THEN 1 ELSE 0)
  <2>0. n \in Nat /\ n - 1 \in Nat
    BY <1>2, CountType
  <2>1. S(n) = IF Count[n][x] > 0 THEN S(n - 1) \cup {n} ELSE S(n - 1)
    <3>1. 1..n = (1..(n - 1)) \cup {n}
      BY <1>2, CountType
    <3> QED
      BY <3>1
  <2>2. n \notin S(n - 1)
    BY CountType
  <2>3. IsFiniteSet(S(n - 1))
    BY <1>1, <2>0
  <2>4. Cardinality(S(n - 1) \cup {n}) = Cardinality(S(n - 1)) + 1
    BY <2>2, <2>3, FS_AddElement
  <2> QED
    <3> HIDE DEF S
    <3> QED
      BY <1>1, <2>0, <2>1, <2>4
<1> QED
  BY <1>1, <1>2, CountType DEF Busy

\* Later epochs have no smaller numbers.
LEMMA BusyMonotone ==
  ASSUME NEW x \in Pair, NEW m \in 0..Epochs, NEW n \in m..Epochs
  PROVE  Busy(x, m) <= Busy(x, n)
<1> DEFINE S(k) == {j \in 1..k : Count[j][x] > 0}
<1>1. IsFiniteSet(1..n)
  BY FS_Interval, CountType
<1>2. S(n) \in SUBSET (1..n)
  OBVIOUS
<1>3. IsFiniteSet(S(n))
  BY <1>1, <1>2, FS_Subset
<1>4. S(m) \in SUBSET S(n)
  BY CountType
<1>5. Cardinality(S(m)) <= Cardinality(S(n))
  BY <1>3, <1>4, FS_Subset
<1> QED
  BY <1>5 DEF Busy

\* No two busy epochs have the same number.
LEMMA BusyUnique ==
  ASSUME NEW x \in Pair, NEW k \in 1..Epochs, NEW n \in 1..Epochs,
         Count[k][x] > 0, Count[n][x] > 0, Busy(x, k) = Busy(x, n)
  PROVE  k = n
<1>1. \A i, j \in 1..Epochs : i < j /\ Count[j][x] > 0 => Busy(x, i) < Busy(x, j)
  <2> SUFFICES ASSUME NEW i \in 1..Epochs, NEW j \in 1..Epochs, i < j, Count[j][x] > 0
               PROVE  Busy(x, i) < Busy(x, j)
    OBVIOUS
  <2>1. i \in 0..Epochs /\ j - 1 \in i..Epochs /\ j \in 0..Epochs
    BY CountType
  <2>2. Busy(x, i) <= Busy(x, j - 1)
    BY <2>1, BusyMonotone
  <2>3. Busy(x, j) = Busy(x, j - 1) + 1
    BY <2>1, BusyStep, CountType
  <2>4. Busy(x, i) \in Int /\ Busy(x, j - 1) \in Int
    BY <2>1, BusyStep, CountType
  <2> QED
    BY <2>2, <2>3, <2>4
<1>2. Busy(x, k) \in Int
  BY BusyStep, CountType
<1> QED
  BY <1>1, <1>2, CountType

\* What a pair sends in the first n epochs is a sequence of messages.
LEMMA ProgramType ==
  \A n \in 0..Epochs, x \in Pair : Program[n][x] \in Seq(Message)
<1> DEFINE Bad == {n \in 0..Epochs : \E x \in Pair : Program[n][x] \notin Seq(Message)}
<1>1. Bad = {}
  <2> SUFFICES ASSUME Bad # {} PROVE FALSE
    OBVIOUS
  <2>1. Bad \in SUBSET Nat
    BY CountType
  <2>2. PICK n \in Bad : \A m \in Bad : n <= m
    BY <2>1, LeastNumber
  <2>3. PICK x \in Pair : Program[n][x] \notin Seq(Message)
    BY <2>2
  <2>4. n # 0
    <3>1. 0 \in 0..Epochs
      BY CountType
    <3>2. Program[0][x] = <<>>
      BY <3>1, ProgramDef
    <3> QED
      BY <2>3, <3>2, EmptySeq
  <2>5. n - 1 \in 0..Epochs /\ n \in 1..Epochs
    BY <2>2, <2>4, CountType
  <2>6. Program[n - 1][x] \in Seq(Message)
    BY <2>2, <2>5
  <2>7. MessagesOf(x, n) \in Seq(Message)
    BY <2>5, MessagesType
  <2>8. Program[n][x] = Program[n - 1][x] \o MessagesOf(x, n)
    BY <2>4, <2>5, ProgramDef
  <2> QED
    BY <2>3, <2>6, <2>7, <2>8, ConcatProperties
<1> QED
  BY <1>1

\* The program of one more epoch is longer by its messages.
LEMMA ProgramStep ==
  ASSUME NEW x \in Pair, NEW n \in 1..Epochs
  PROVE  /\ Program[n][x] \in Seq(Message) /\ Program[n - 1][x] \in Seq(Message)
         /\ Len(Program[n][x]) = Len(Program[n - 1][x]) + Count[n][x]
         /\ SubSeq(Program[n][x], 1, Len(Program[n - 1][x])) = Program[n - 1][x]
         /\ \A i \in 1..Count[n][x] : Program[n][x][Len(Program[n - 1][x]) + i] = <<n, i>>
<1>1. n \in 0..Epochs /\ n - 1 \in 0..Epochs /\ n # 0
  BY CountType
<1> DEFINE P == Program[n - 1][x]
           M == MessagesOf(x, n)
<1>2. Program[n][x] = P \o M
  BY <1>1, ProgramDef
<1>3. P \in Seq(Message) /\ M \in Seq(Message) /\ Len(M) = Count[n][x]
  BY <1>1, ProgramType, MessagesType
<1>4. /\ P \o M \in Seq(Message)
      /\ Len(P \o M) = Len(P) + Len(M)
      /\ \A i \in 1..Len(P) + Len(M) : (P \o M)[i] = IF i <= Len(P) THEN P[i] ELSE M[i - Len(P)]
  BY <1>3, ConcatProperties
<1>5. Len(P) \in Nat /\ Len(M) \in Nat
  BY <1>3, LenProperties
<1>6. \A i \in 1..Count[n][x] : M[i] = <<n, i>>
  BY MessagesType
<1> HIDE DEF P, M
<1>7. SubSeq(P \o M, 1, Len(P)) = P
  <2>1. \A i \in 1..Len(P) : (P \o M)[i] = P[i] /\ P[i] \in Message
    BY <1>3, <1>4, <1>5, ElementOfSeq
  <2>2. /\ SubSeq(P \o M, 1, Len(P)) \in Seq(Message)
        /\ Len(SubSeq(P \o M, 1, Len(P))) = Len(P)
        /\ \A i \in 1..Len(P) : SubSeq(P \o M, 1, Len(P))[i] = (P \o M)[i]
    BY <1>5, <2>1, SubSeqProperties
  <2> QED
    BY <1>3, <2>1, <2>2, SeqEqual
<1>8. \A i \in 1..Len(M) : (P \o M)[Len(P) + i] = M[i]
  BY <1>4, <1>5
<1> QED
  BY <1>2, <1>3, <1>4, <1>6, <1>7, <1>8 DEF P, M

\* A prefix that is longer by one ends in the next element.
LEMMA SubSeqStep ==
  ASSUME NEW S, NEW s \in Seq(S), NEW n \in 0..(Len(s) - 1)
  PROVE  SubSeq(s, 1, n + 1) = Append(SubSeq(s, 1, n), s[n + 1])
<1>1. Len(s) \in Nat /\ \A i \in 1..Len(s) : s[i] \in S
  BY LenProperties, ElementOfSeq
<1>2. /\ SubSeq(s, 1, n) \in Seq(S) /\ Len(SubSeq(s, 1, n)) = n
      /\ \A i \in 1..n : SubSeq(s, 1, n)[i] = s[i]
  BY <1>1, SubSeqProperties
<1>3. /\ SubSeq(s, 1, n + 1) \in Seq(S) /\ Len(SubSeq(s, 1, n + 1)) = n + 1
      /\ \A i \in 1..(n + 1) : SubSeq(s, 1, n + 1)[i] = s[i]
  BY <1>1, SubSeqProperties
<1>4. s[n + 1] \in S
  BY <1>1
<1> DEFINE t == Append(SubSeq(s, 1, n), s[n + 1])
<1>5. /\ t \in Seq(S) /\ Len(t) = n + 1
      /\ \A i \in 1..n : t[i] = s[i]
      /\ t[n + 1] = s[n + 1]
  BY <1>2, <1>4, AppendProperties
<1>6. \A i \in 1..(n + 1) : SubSeq(s, 1, n + 1)[i] = t[i]
  BY <1>3, <1>5
<1> HIDE DEF t
<1>7. SubSeq(s, 1, n + 1) = t
  BY <1>3, <1>5, <1>6, SeqEqual
<1> QED
  BY <1>7 DEF t

\* A pair is a sender and a receiver.
LEMMA PairParts == ASSUME NEW x \in Pair
                   PROVE  x[1] \in PET /\ x[2] \in PET /\ x = <<x[1], x[2]>>
BY DEF Pair

------------------------------------------------------------------------------
(* The initial states.                                                      *)

\* epochInit: every part of the invariant holds for a pair that has done nothing.
LEMMA InitInv == Init => TypeOK /\ Inv
<1> SUFFICES ASSUME Init PROVE TypeOK /\ Inv
  OBVIOUS
<1>1. TypeOK
  BY CountType, EmptySeq DEF Init, TypeOK
<1>2. ASSUME NEW x \in Pair PROVE Stream(x) /\ Buffer(x) /\ Network(x) /\ Delivered(x)
  <2>1. x[1] \in PET /\ x[2] \in PET
    BY PairParts
  <2>2. Stream(x) /\ Buffer(x)
    BY <2>1 DEF Init, Stream, Buffer
  <2>3. 0 \in 0..Epochs
    BY CountType
  <2>4. Busy(x, 0) = 0
    BY <2>3, BusyStep
  <2>5. Network(x)
    BY <2>1, <2>4 DEF Init, Network, Exited, Taken
  <2>6. Program[0][x] = <<>>
    BY <2>3, ProgramDef
  <2>7. Len(Program[0][x]) = 0 /\ SubSeq(Program[0][x], 1, 0) = <<>>
    BY <2>6, SubSeqEmpty, EmptySeq
  <2> QED
    BY <2>1, <2>2, <2>5, <2>7 DEF Init, Delivered
<1> QED
  BY <1>1, <1>2 DEF Inv

------------------------------------------------------------------------------
(* What an action leaves alone of a pair.                                   *)

\* The stream of a pair whose sender does nothing.
LEMMA StreamFrame ==
  ASSUME NEW x \in Pair, Stream(x),
         UNCHANGED <<epoch[x[1]], no[x[1]], left[x], sendFirst[x], memory[x], put[x], pending[x]>>
  PROVE  Stream(x)'
BY DEF Stream

\* The receive buffer of a pair whose receiver does nothing.
LEMMA BufferFrame ==
  ASSUME NEW x \in Pair, Buffer(x),
         UNCHANGED <<epoch[x[2]], no[x[2]], due[x], recvFirst[x], chunks[x], failed[x[2]]>>
  PROVE  Buffer(x)'
BY DEF Buffer

\* The network between sender and receiver when neither posts, takes nor copies.
LEMMA NetworkFrame ==
  ASSUME NEW x \in Pair, Network(x),
         UNCHANGED <<Exited(x), Taken(x), posted[x], net[x], pending[x], memory[x]>>
  PROVE  Network(x)'
BY DEF Network, Carries

\* What is delivered when the receiver does nothing.
LEMMA DeliveredFrame ==
  ASSUME NEW x \in Pair, Delivered(x), UNCHANGED <<no[x[2]], due[x], got[x]>>
  PROVE  Delivered(x)'
BY DEF Delivered

------------------------------------------------------------------------------
(* One step.                                                                *)

\* epochEnter takes the messages of the next epoch as what is left and due.
LEMMA EnterStep ==
  ASSUME TypeOK, Inv, NEW p \in PET, EpochEnter(p)
  PROVE  TypeOK' /\ Inv'
<1> USE DEF EpochEnter
<1>1. no[p] \in Nat /\ no[p] + 1 \in 1..Epochs /\ no[p] + 1 \in 0..Epochs
  BY CountType DEF TypeOK
<1>2. TypeOK'
  <2>1. \A x \in Pair : Count[no[p] + 1][x] \in Nat
    BY <1>1, CountType
  <2>2. left' \in [Pair -> Nat] /\ due' \in [Pair -> Nat]
    BY <2>1 DEF TypeOK
  <2>3. epoch' \in [PET -> {"none", "buffer", "final"}] /\ no' \in [PET -> 0..Epochs]
    BY <1>1 DEF TypeOK
  <2>4. sendFirst' \in [Pair -> BOOLEAN] /\ recvFirst' \in [Pair -> BOOLEAN]
    BY DEF TypeOK
  <2> QED
    BY <2>2, <2>3, <2>4 DEF TypeOK
<1>3. ASSUME NEW x \in Pair PROVE Stream(x)' /\ Buffer(x)' /\ Network(x)' /\ Delivered(x)'
  <2>1. /\ x[1] \in PET /\ x[2] \in PET
        /\ Stream(x) /\ Buffer(x) /\ Network(x) /\ Delivered(x)
    BY PairParts DEF Inv
  <2>2. /\ x[1] = p => epoch'[x[1]] = "buffer" /\ no'[x[1]] = no[p] + 1
        /\ x[1] # p => UNCHANGED <<epoch[x[1]], no[x[1]]>>
        /\ x[2] = p => epoch'[x[2]] = "buffer" /\ no'[x[2]] = no[p] + 1
        /\ x[2] # p => UNCHANGED <<epoch[x[2]], no[x[2]]>>
    BY <2>1 DEF TypeOK
  <2>3. /\ left'[x] = IF x[1] = p THEN Count[no[p] + 1][x] ELSE left[x]
        /\ due'[x] = IF x[2] = p THEN Count[no[p] + 1][x] ELSE due[x]
        /\ sendFirst'[x] = (x[1] = p \/ sendFirst[x])
        /\ recvFirst'[x] = (x[2] = p \/ recvFirst[x])
    OBVIOUS
  <2>4. Count[no[p] + 1][x] \in Nat
    BY <1>1, CountType
  <2>5. Stream(x)'
    <3>1. CASE x[1] = p
      <4>1. /\ put'[x] = 0 /\ put'[x] <= Len(memory'[x]) /\ sendFirst'[x] = TRUE
            /\ left'[x] = Count[no[p] + 1][x]
        BY <2>1, <2>3, <3>1 DEF Stream
      <4>2. \A i \in 1..put'[x] : memory'[x][i] = <<no'[x[1]], i>>
        BY <4>1
      <4> QED
        BY <1>1, <2>2, <2>4, <3>1, <4>1, <4>2 DEF Stream
    <3>2. CASE x[1] # p
      BY <2>1, <2>2, <2>3, <3>2, StreamFrame DEF TypeOK
    <3> QED
      BY <3>1, <3>2
  <2>6. Buffer(x)'
    <3>1. CASE x[2] = p
      <4>1. recvFirst'[x] = TRUE /\ due'[x] = Count[no[p] + 1][x] /\ ~failed'[x[2]]
        BY <2>1, <2>3, <3>1 DEF Buffer
      <4> QED
        BY <1>1, <2>2, <2>4, <3>1, <4>1 DEF Buffer
    <3>2. CASE x[2] # p
      BY <2>1, <2>2, <2>3, <3>2, BufferFrame DEF TypeOK
    <3> QED
      BY <3>1, <3>2
  <2>7. UNCHANGED <<Exited(x), Taken(x)>>
    BY <1>1, <2>1, <2>2, <2>3 DEF Exited, Taken
  <2>8. Network(x)'
    BY <2>1, <2>7, NetworkFrame
  <2>9. Delivered(x)'
    <3>1. CASE x[2] = p
      <4>1. due[x] = 0
        BY <2>1, <3>1 DEF Buffer
      <4> DEFINE P == Program[no[p]][x]
                 Q == Program[no[p] + 1][x]
      <4>2. /\ P \in Seq(Message) /\ SubSeq(Q, 1, Len(P)) = P
            /\ Len(Q) = Len(P) + Count[no[p] + 1][x]
        <5>1. (no[p] + 1) - 1 = no[p]
          BY <1>1
        <5> QED
          BY <1>1, <5>1, ProgramStep
      <4>3. P \in Seq(Message) /\ Len(P) \in Nat /\ SubSeq(P, 1, Len(P)) = P
        BY <4>2, SubSeqFull, LenProperties
      <4>4. got[x] = P
        BY <2>1, <3>1, <4>1, <4>3 DEF Delivered
      <4> HIDE DEF P, Q
      <4>5. Program[no'[x[2]]][x] = Q
        BY <2>2, <3>1 DEF Q
      <4>6. Len(Q) - due'[x] = Len(P)
        BY <2>3, <2>4, <3>1, <4>2, <4>3
      <4> QED
        BY <4>2, <4>3, <4>4, <4>5, <4>6 DEF Delivered
    <3>2. CASE x[2] # p
      BY <2>1, <2>2, <2>3, <3>2, DeliveredFrame
    <3> QED
      BY <3>1, <3>2
  <2> QED
    BY <2>5, <2>6, <2>8, <2>9
<1> QED
  BY <1>2, <1>3 DEF Inv

\* A write to a stream keeps what is there and adds one message.
LEMMA WrittenProperties ==
  ASSUME TypeOK, NEW x \in Pair, NEW m \in Message
  PROVE  /\ Written(x, m) \in Seq(Message)
         /\ put[x] + 1 <= Len(Written(x, m))
         /\ \A i \in 1..put[x] : Written(x, m)[i] = memory[x][i]
         /\ Written(x, m)[put[x] + 1] = m
<1> DEFINE mem == memory[x]
           n == put[x]
           front == SubSeq(mem, 1, n)
           back == SubSeq(mem, n + 2, Len(mem))
<1>1. mem \in Seq(Message) /\ n \in Nat /\ n <= Len(mem)
  BY DEF TypeOK
<1> HIDE DEF mem, n
<1>2. Len(mem) \in Nat /\ \A i \in 1..Len(mem) : mem[i] \in Message
  BY <1>1, LenProperties, ElementOfSeq
<1>3. front \in Seq(Message) /\ Len(front) = n /\ \A i \in 1..n : front[i] = mem[i]
  BY <1>1, <1>2, SubSeqProperties
<1>4. back \in Seq(Message) /\ Len(back) \in Nat
  <2>1. back \in Seq(Message)
    BY <1>1, <1>2, SubSeqProperties
  <2> QED
    BY <2>1, LenProperties
<1>5. <<m>> \in Seq(Message) /\ Len(<<m>>) = 1 /\ <<m>>[1] = m
  OBVIOUS
<1> HIDE DEF front, back
<1>6. /\ front \o <<m>> \in Seq(Message) /\ Len(front \o <<m>>) = n + 1
      /\ \A i \in 1..n : (front \o <<m>>)[i] = mem[i]
      /\ (front \o <<m>>)[n + 1] = m
  BY <1>1, <1>3, <1>5, ConcatProperties
<1>7. /\ (front \o <<m>>) \o back \in Seq(Message)
      /\ n + 1 <= Len((front \o <<m>>) \o back)
      /\ \A i \in 1..n : ((front \o <<m>>) \o back)[i] = mem[i]
      /\ ((front \o <<m>>) \o back)[n + 1] = m
  BY <1>1, <1>4, <1>6, ConcatProperties
<1> QED
  BY <1>7 DEF Written, front, back, mem, n

\* A send adds to the stream only when no transfer reads it.
LEMMA SendStep ==
  ASSUME TypeOK, Inv, NEW x \in Pair, Send(x)
  PROVE  TypeOK' /\ Inv'
<1> USE DEF Send
<1> DEFINE n == no[x[1]]
           m == <<n, Count[n][x] - left[x] + 1>>
<1>1. /\ x[1] \in PET /\ x[2] \in PET
      /\ Stream(x) /\ Buffer(x) /\ Network(x) /\ Delivered(x)
  BY PairParts DEF Inv
<1>2. n \in 1..Epochs
  BY <1>1 DEF Stream, TypeOK
<1>3. Count[n][x] \in Nat
  BY <1>2, CountType
<1>4. put[x] \in Nat /\ left[x] \in Nat /\ put[x] + left[x] = Count[n][x]
  BY <1>1 DEF Stream, TypeOK
<1>5. m = <<n, put[x] + 1>>
  BY <1>3, <1>4
<1>6. m \in Message
  <2>1. put[x] + 1 \in 1..Count[n][x]
    BY <1>4
  <2> QED
    BY <1>2, <1>5, <2>1, MessagesType
<1>7. ~pending[x]
  BY <1>1, <1>4 DEF Stream, Cleared, TypeOK
<1> HIDE DEF n, m
<1>8. memory' = [memory EXCEPT ![x] = Written(x, m)]
  BY DEF n, m
<1>9. /\ Written(x, m) \in Seq(Message)
      /\ put[x] + 1 <= Len(Written(x, m))
      /\ \A i \in 1..put[x] : Written(x, m)[i] = memory[x][i]
      /\ Written(x, m)[put[x] + 1] = m
  BY <1>6, WrittenProperties
<1>10. /\ memory'[x] = Written(x, m) /\ put'[x] = put[x] + 1 /\ left'[x] = left[x] - 1
       /\ sendFirst'[x] = FALSE
       /\ \A y \in Pair : y # x => UNCHANGED <<memory[y], put[y], left[y], sendFirst[y]>>
  BY <1>8 DEF TypeOK
<1>11. TypeOK'
  <2>1. memory' \in [Pair -> Seq(Message)] /\ put' \in [Pair -> Nat] /\ left' \in [Pair -> Nat]
    BY <1>4, <1>8, <1>9 DEF TypeOK
  <2>2. \A y \in Pair : put'[y] <= Len(memory'[y])
    BY <1>9, <1>10 DEF TypeOK
  <2> QED
    BY <2>1, <2>2 DEF TypeOK, petVars, recvVars
<1>12. ASSUME NEW y \in Pair PROVE Stream(y)' /\ Buffer(y)' /\ Network(y)' /\ Delivered(y)'
  <2>1. Stream(y) /\ Buffer(y) /\ Network(y) /\ Delivered(y)
    BY DEF Inv
  <2>2. Buffer(y)' /\ Delivered(y)'
    BY <2>1, BufferFrame, DeliveredFrame DEF petVars, recvVars
  <2>3. UNCHANGED <<Exited(y), Taken(y)>>
    BY DEF Exited, Taken, petVars, recvVars
  <2>4. CASE y # x
    BY <1>10, <2>1, <2>2, <2>3, <2>4, StreamFrame, NetworkFrame DEF petVars
  <2>5. CASE y = x
    <3>1. Stream(x)'
      <4>1. \A i \in 1..(put[x] + 1) : memory'[x][i] = <<n, i>>
        <5>1. \A i \in 1..put[x] : memory[x][i] = <<n, i>>
          BY <1>1 DEF Stream, n
        <5> SUFFICES ASSUME NEW i \in 1..(put[x] + 1) PROVE memory'[x][i] = <<n, i>>
          OBVIOUS
        <5>2. CASE i = put[x] + 1
          BY <1>5, <1>9, <1>10, <5>2
        <5>3. CASE i \in 1..put[x]
          BY <1>9, <1>10, <5>1, <5>3
        <5> QED
          BY <1>4, <5>2, <5>3
      <4>2. /\ UNCHANGED <<epoch, no, pending>> /\ epoch[x[1]] = "buffer"
            /\ put'[x] + left'[x] = Count[n][x]
        BY <1>3, <1>4, <1>10 DEF petVars
      <4>3. put'[x] # 0 /\ ~pending'[x] /\ put'[x] <= Len(memory'[x])
        BY <1>4, <1>7, <1>9, <1>10, <4>2
      <4>4. \A i \in 1..put'[x] : memory'[x][i] = <<n, i>>
        BY <1>10, <4>1
      <4>5. no'[x[1]] = n /\ epoch'[x[1]] = "buffer" /\ n >= 1 /\ sendFirst'[x] = FALSE
        BY <1>2, <1>10, <4>2 DEF n
      <4> HIDE DEF n
      <4> QED
        BY <4>2, <4>3, <4>4, <4>5 DEF Stream
    <3>2. Network(x)'
      BY <1>1, <1>7, <2>3, <2>5 DEF Network, Carries
    <3> QED
      BY <2>2, <2>5, <3>1, <3>2
  <2> QED
    BY <2>4, <2>5
<1> QED
  BY <1>11, <1>12 DEF Inv

\* A receive finds what it waits for: the buffer holds the messages of its epoch that are
\* still due, and the next of them is delivered.
LEMMA RecvEffect ==
  ASSUME TypeOK, Inv, NEW x \in Pair, Recv(x)
  PROVE  \E buffer \in Seq(Message) :
           /\ Len(buffer) = due[x]
           /\ \A i \in 1..due[x] : buffer[i] = <<no[x[2]], Count[no[x[2]]][x] - due[x] + i>>
           /\ chunks' = [chunks EXCEPT ![x] = Tail(buffer)]
           /\ got' = [got EXCEPT ![x] = Append(@, buffer[1])]
           /\ failed' = failed
<1> DEFINE n == no[x[2]]
           count == Count[n][x]
           message == Head(net[x])
           buffer == IF ~recvFirst[x] THEN chunks[x]
                     ELSE IF message.copied THEN message.data
                     ELSE SubSeq(memory[x], 1, message.size)
           expected == <<n, count - due[x] + 1>>
<1>1. /\ x[1] \in PET /\ x[2] \in PET
      /\ Buffer(x) /\ Network(x) /\ epoch[x[2]] = "buffer" /\ due[x] > 0 /\ due[x] \in Nat
  BY PairParts DEF Inv, Recv, TypeOK
<1>2. n \in 1..Epochs /\ n \in 0..Epochs
  BY <1>1 DEF Buffer, TypeOK
<1>3. count \in Nat /\ due[x] <= count
  BY <1>1, <1>2, CountType DEF Buffer
<1>4. /\ buffer \in Seq(Message) /\ Len(buffer) = due[x]
      /\ \A i \in 1..due[x] : buffer[i] = <<n, count - due[x] + i>>
  <2>1. CASE ~recvFirst[x]
    BY <1>1, <2>1 DEF Buffer, TypeOK
  <2>2. CASE recvFirst[x]
    <3>1. due[x] = count
      BY <1>1, <2>2 DEF Buffer
    <3>2. net[x] # <<>>
      BY <2>2 DEF Recv, Probed
    <3>3. net[x] \in Seq([size : Nat, copied : BOOLEAN, data : Seq(Message)])
      BY DEF TypeOK
    <3>4. Len(net[x]) \in Nat /\ Len(net[x]) >= 1 /\ message = net[x][1]
      BY <3>2, <3>3
    <3>5. Taken(x) = n - 1
      BY <1>1, <3>1 DEF Taken
    <3>6. Busy(x, n) = Busy(x, Taken(x)) + 1
      BY <1>1, <1>2, <3>1, <3>5, BusyStep
    <3> HIDE DEF n
    <3>7. Carries(x, 1, n)
      BY <1>1, <1>2, <3>1, <3>4, <3>6 DEF Network, n
    <3> USE DEF n
    <3>8. buffer = MessagesOf(x, n)
      <4>1. CASE net[x][1].copied
        BY <2>2, <3>4, <3>7, <4>1 DEF Carries
      <4>2. CASE ~net[x][1].copied
        <5>1. buffer = SubSeq(memory[x], 1, count)
          BY <2>2, <3>4, <3>7, <4>2 DEF Carries
        <5>2. /\ count <= Len(memory[x]) /\ memory[x] \in Seq(Message)
              /\ \A i \in 1..count : memory[x][i] = <<n, i>>
          BY <3>7, <4>2 DEF Carries, TypeOK
        <5>3. \A i \in 1..count : memory[x][i] \in Message
          BY <1>2, <5>2, MessagesType
        <5>4. /\ SubSeq(memory[x], 1, count) \in Seq(Message)
              /\ Len(SubSeq(memory[x], 1, count)) = count
              /\ \A i \in 1..count : SubSeq(memory[x], 1, count)[i] = memory[x][i]
          BY <1>3, <5>3, SubSeqProperties
        <5> HIDE DEF n, count, buffer
        <5>5. /\ MessagesOf(x, n) \in Seq(Message) /\ Len(MessagesOf(x, n)) = count
              /\ \A i \in 1..count : MessagesOf(x, n)[i] = <<n, i>>
          BY <1>2, MessagesType DEF count
        <5>6. \A i \in 1..count : SubSeq(memory[x], 1, count)[i] = MessagesOf(x, n)[i]
          <6>1. \A i \in 1..count : memory[x][i] = <<n, i>>
            BY <5>2
          <6> QED
            BY <5>4, <5>5, <6>1
        <5>7. SubSeq(memory[x], 1, count) = MessagesOf(x, n)
          BY <5>4, <5>5, <5>6, SeqEqual
        <5> QED
          BY <5>1, <5>7
      <4> QED
        BY <4>1, <4>2
    <3>9. /\ MessagesOf(x, n) \in Seq(Message) /\ Len(MessagesOf(x, n)) = count
          /\ \A i \in 1..count : MessagesOf(x, n)[i] = <<n, i>>
      BY <1>2, MessagesType
    <3> HIDE DEF n, count, buffer
    <3>10. \A i \in 1..count : i = count - due[x] + i
      BY <1>3, <3>1
    <3> QED
      BY <3>1, <3>8, <3>9, <3>10
  <2> QED
    BY <2>1, <2>2
<1>5. buffer # <<>> /\ Head(buffer) = buffer[1] /\ buffer[1] = expected
  <2> HIDE DEF n, count, buffer
  <2>1. Len(buffer) > 0
    BY <1>1, <1>4
  <2> QED
    BY <1>1, <1>4, <2>1
<1>6. /\ got' = [got EXCEPT ![x] = Append(@, Head(buffer))]
      /\ chunks' = [chunks EXCEPT ![x] = Rest(buffer)]
      /\ UNCHANGED failed
  <2>1. buffer # <<>> /\ Tag(Head(buffer)) = Tag(expected)
    BY <1>5
  <2> QED
    BY <2>1 DEF Recv
<1> HIDE DEF buffer
<1> QED
  BY <1>4, <1>5, <1>6 DEF Rest

\* A receive takes the MPI message of its epoch or the next chunk of it.
LEMMA RecvStep ==
  ASSUME TypeOK, Inv, NEW x \in Pair, Recv(x)
  PROVE  TypeOK' /\ Inv'
<1> DEFINE n == no[x[2]]
           count == Count[n][x]
           d == due[x]
<1>1. /\ x[1] \in PET /\ x[2] \in PET
      /\ Stream(x) /\ Buffer(x) /\ Network(x) /\ Delivered(x)
      /\ epoch[x[2]] = "buffer" /\ d > 0 /\ d \in Nat
  BY PairParts DEF Inv, Recv, TypeOK
<1>2. n \in 1..Epochs /\ n \in 0..Epochs
  BY <1>1 DEF Buffer, TypeOK
<1>3. count \in Nat /\ d <= count
  BY <1>1, <1>2, CountType DEF Buffer
<1>4. PICK buffer \in Seq(Message) :
           /\ Len(buffer) = d
           /\ \A i \in 1..d : buffer[i] = <<n, count - d + i>>
           /\ chunks' = [chunks EXCEPT ![x] = Tail(buffer)]
           /\ got' = [got EXCEPT ![x] = Append(@, buffer[1])]
           /\ failed' = failed
  BY RecvEffect
<1>5. /\ Tail(buffer) \in Seq(Message) /\ Len(Tail(buffer)) = d - 1
      /\ \A i \in 1..(d - 1) : Tail(buffer)[i] = buffer[i + 1]
      /\ buffer[1] \in Message
  <2>1. buffer # <<>>
    BY <1>1, <1>4
  <2> QED
    BY <1>1, <1>4, <2>1, HeadTailProperties, ElementOfSeq
<1>6. /\ net' = [net EXCEPT ![x] = IF recvFirst[x] THEN Tail(@) ELSE @]
      /\ pending' = [pending EXCEPT ![x] = IF recvFirst[x] /\ ~Head(net[x]).copied THEN FALSE ELSE @]
      /\ recvFirst' = [recvFirst EXCEPT ![x] = FALSE]
      /\ due' = [due EXCEPT ![x] = @ - 1]
      /\ recvFirst[x] => net[x] # <<>>
      /\ UNCHANGED <<epoch, no, left, sendFirst, memory, put, posted>>
  BY DEF Recv, Probed, petVars
<1>7. /\ due'[x] = d - 1 /\ recvFirst'[x] = FALSE /\ chunks'[x] = Tail(buffer)
      /\ got'[x] = Append(got[x], buffer[1])
      /\ net'[x] = IF recvFirst[x] THEN Tail(net[x]) ELSE net[x]
      /\ pending'[x] = IF recvFirst[x] /\ ~Head(net[x]).copied THEN FALSE ELSE pending[x]
      /\ \A y \in Pair : y # x =>
           UNCHANGED <<due[y], recvFirst[y], chunks[y], got[y], net[y], pending[y]>>
  BY <1>4, <1>6 DEF TypeOK
<1> HIDE DEF n, count, d
<1> DEFINE Entry == [size : Nat, copied : BOOLEAN, data : Seq(Message)]
<1>8. net[x] \in Seq(Entry) /\ pending[x] \in BOOLEAN
  BY DEF TypeOK
<1>9. recvFirst[x] =>
        /\ Tail(net[x]) \in Seq(Entry) /\ Len(Tail(net[x])) = Len(net[x]) - 1
        /\ \A i \in 1..(Len(net[x]) - 1) : Tail(net[x])[i] = net[x][i + 1]
        /\ Head(net[x]) = net[x][1]
  <2> HIDE DEF Entry
  <2> QED
    BY <1>6, <1>8, HeadTailProperties
<1>10. TypeOK'
  <2>1. net' \in [Pair -> Seq(Entry)]
    <3> HIDE DEF Entry
    <3>1. net \in [Pair -> Seq(Entry)]
      BY DEF TypeOK, Entry
    <3> QED
      BY <1>6, <1>9, <3>1
  <2>2. due' \in [Pair -> Nat]
    BY <1>1, <1>6 DEF TypeOK, d
  <2>3. chunks' \in [Pair -> Seq(Message)]
    BY <1>4, <1>5 DEF TypeOK
  <2>4. got' \in [Pair -> Seq(Message)]
    BY <1>4, <1>5, AppendProperties DEF TypeOK
  <2>5. recvFirst' \in [Pair -> BOOLEAN] /\ pending' \in [Pair -> BOOLEAN]
    BY <1>6 DEF TypeOK
  <2> QED
    BY <1>4, <1>6, <2>1, <2>2, <2>3, <2>4, <2>5 DEF TypeOK
<1>11. ASSUME NEW y \in Pair PROVE Stream(y)' /\ Buffer(y)' /\ Network(y)' /\ Delivered(y)'
  <2>1. Stream(y) /\ Buffer(y) /\ Network(y) /\ Delivered(y)
    BY DEF Inv
  <2>2. CASE y # x
    <3>1. UNCHANGED <<Exited(y), Taken(y)>>
      BY <1>6, <1>7, <2>2 DEF Exited, Taken
    <3> QED
      BY <1>4, <1>6, <1>7, <2>1, <2>2, <3>1, StreamFrame, BufferFrame, NetworkFrame, DeliveredFrame
  <2>3. CASE y = x
    <3>1. Stream(x)'
      <4>1. pending'[x] => pending[x]
        BY <1>7
      <4> QED
        BY <1>1, <1>6, <4>1 DEF Stream
    <3>2. Buffer(x)'
      <4>1. /\ n >= 1 /\ d - 1 <= count /\ d - 1 # count
            /\ \A i \in 1..(d - 1) : Tail(buffer)[i] = <<n, count - (d - 1) + i>>
        <5>1. ASSUME NEW i \in 1..(d - 1) PROVE Tail(buffer)[i] = <<n, count - (d - 1) + i>>
          <6>1. i + 1 \in 1..d /\ count - d + (i + 1) = count - (d - 1) + i
            BY <1>1, <1>3
          <6> QED
            BY <1>4, <1>5, <6>1
        <5>2. n >= 1 /\ d - 1 <= count /\ d - 1 # count
          BY <1>1, <1>2, <1>3
        <5> QED
          BY <5>1, <5>2
      <4>2. no'[x[2]] = n /\ Count[n][x] = count /\ epoch'[x[2]] = "buffer"
            /\ ~failed'[x[2]]
        BY <1>1, <1>4, <1>6 DEF n, count, Buffer
      <4> QED
        BY <1>5, <1>7, <4>1, <4>2 DEF Buffer
    <3>3. Network(x)'
      <4>1. UNCHANGED <<Exited(x), posted[x], memory[x]>>
        BY <1>6 DEF Exited
      <4>2. Taken(x)' = n
        BY <1>1, <1>3, <1>6, <1>7 DEF Taken, n, count, d
      <4>3. CASE ~recvFirst[x]
        <5>1. Taken(x) = n
          BY <1>1, <4>3 DEF Taken, Buffer, n
        <5> QED
          BY <1>1, <1>7, <4>1, <4>2, <4>3, <5>1, NetworkFrame
      <4>4. CASE recvFirst[x]
        <5>1. d = count
          BY <1>1, <4>4 DEF Buffer, n, count, d
        <5>2. Taken(x) = n - 1
          BY <1>1, <5>1 DEF Taken, n, count, d
        <5>3. Busy(x, n) = Busy(x, n - 1) + 1 /\ Busy(x, n - 1) \in Nat /\ Busy(x, n) \in Nat
          <6>1. n - 1 \in 0..Epochs
            BY <1>2, CountType
          <6> QED
            BY <1>1, <1>2, <1>3, <5>1, <6>1, BusyStep DEF count
        <5>4. Len(net[x]) \in Nat /\ Len(net[x]) >= 1
          BY <1>6, <1>8, <4>4, EmptySeq, LenProperties
        <5> DEFINE L == Len(net[x])
        <5>5. /\ net'[x] = Tail(net[x]) /\ Len(net'[x]) = L - 1
              /\ \A i \in 1..(L - 1) : net'[x][i] = net[x][i + 1]
          BY <1>7, <1>9, <4>4
        <5>6. pending'[x] = (IF ~net[x][1].copied THEN FALSE ELSE pending[x])
          BY <1>7, <1>9, <4>4
        <5>7. \A i \in 1..L : ~net[x][i].copied <=> (pending[x] /\ i = L)
          BY <1>1 DEF Network
        <5>8. posted'[x] = Busy(x, Exited(x)') /\ posted'[x] - Len(net'[x]) = Busy(x, Taken(x)')
          <6>1. posted[x] = Busy(x, Exited(x)) /\ posted[x] - L = Busy(x, n - 1) /\ posted[x] \in Nat
            BY <1>1, <5>2 DEF Network, TypeOK
          <6>2. posted[x] - (L - 1) = Busy(x, n)
            BY <5>3, <5>4, <6>1
          <6> QED
            BY <4>1, <4>2, <5>5, <6>1, <6>2
        <5>9. ASSUME NEW i \in 1..(L - 1), NEW k \in 1..Epochs,
                     Count[k][x] > 0, Busy(x, k) = Busy(x, n) + i
              PROVE  Carries(x, i, k)'
          <6>1. i + 1 \in 1..L /\ Busy(x, k) = Busy(x, n - 1) + (i + 1)
            BY <5>3, <5>4, <5>9
          <6>2. Carries(x, i + 1, k)
            BY <1>1, <5>2, <5>9, <6>1 DEF Network
          <6> QED
            BY <4>1, <5>5, <6>2 DEF Carries
        <5>10. \A i \in 1..(L - 1) : ~net'[x][i].copied <=> (pending'[x] /\ i = L - 1)
          <6> SUFFICES ASSUME NEW i \in 1..(L - 1)
                       PROVE  ~net'[x][i].copied <=> (pending'[x] /\ i = L - 1)
            OBVIOUS
          <6>1. i + 1 \in 1..L /\ 1 \in 1..L /\ 1 # L /\ (i + 1 = L <=> i = L - 1)
            <7>1. L \in Nat
              BY <5>4
            <7> HIDE DEF L
            <7> QED
              BY <7>1
          <6>2. net'[x][i] = net[x][i + 1]
            BY <5>5
          <6> HIDE DEF L
          <6>3. ~net[x][i + 1].copied <=> (pending[x] /\ i + 1 = L)
            BY <5>7, <6>1
          <6>4. net[x][1].copied
            BY <5>7, <6>1
          <6>5. pending'[x] = pending[x]
            BY <5>6, <6>4
          <6> QED
            BY <6>1, <6>2, <6>3, <6>5
        <5>11. pending'[x] => net'[x] # <<>> /\ net'[x][L - 1].size <= Len(memory'[x])
          <6>1. pending'[x] => pending[x] /\ net[x][1].copied /\ L # 1
            <7>1. 1 \in 1..L
              BY <5>4
            <7> HIDE DEF L
            <7>2. ~net[x][1].copied <=> (pending[x] /\ 1 = L)
              BY <5>7, <7>1
            <7> QED
              BY <5>6, <7>2
          <6>2. pending'[x] => L - 1 \in 1..(L - 1) /\ (L - 1) + 1 = L /\ L \in Nat
            <7> HIDE DEF L
            <7>1. L \in Nat /\ L >= 1
              BY <5>4 DEF L
            <7> QED
              BY <6>1, <7>1
          <6>3. pending'[x] => net'[x][L - 1] = net[x][L] /\ net[x][L].size <= Len(memory[x])
            BY <1>1, <5>5, <6>1, <6>2 DEF Network
          <6>4. pending'[x] => Len(net'[x]) # 0
            <7> HIDE DEF L
            <7> QED
              BY <5>5, <6>1, <6>2
          <6> QED
            BY <4>1, <6>3, <6>4, EmptySeq
        <5> HIDE DEF L
        <5> QED
          BY <4>2, <5>5, <5>8, <5>9, <5>10, <5>11 DEF Network
      <4> QED
        BY <4>3, <4>4
    <3>4. Delivered(x)'
      <4> DEFINE P == Program[n][x]
                 Q == Program[n - 1][x]
      <4>1. /\ P \in Seq(Message) /\ Q \in Seq(Message) /\ Len(P) = Len(Q) + count
            /\ \A i \in 1..count : P[Len(Q) + i] = <<n, i>>
        BY <1>2, ProgramStep DEF count
      <4> HIDE DEF P, Q
      <4>2. Len(P) \in Nat /\ Len(Q) \in Nat
        BY <4>1, LenProperties
      <4>3. Len(P) - d \in 0..(Len(P) - 1) /\ (Len(P) - d) + 1 = Len(P) - (d - 1)
        BY <1>1, <1>3, <4>1, <4>2
      <4>4. P[Len(P) - d + 1] = buffer[1]
        <5>1. count - d + 1 \in 1..count /\ Len(P) - d + 1 = Len(Q) + (count - d + 1) /\ 1 \in 1..d
          BY <1>1, <1>3, <4>1, <4>2
        <5> QED
          BY <1>4, <4>1, <5>1
      <4>5. got[x] = SubSeq(P, 1, Len(P) - d)
        BY <1>1 DEF Delivered, P, n, d
      <4>6. got'[x] = SubSeq(P, 1, Len(P) - (d - 1))
        <5>1. SubSeq(P, 1, (Len(P) - d) + 1) = Append(SubSeq(P, 1, Len(P) - d), P[(Len(P) - d) + 1])
          BY <4>1, <4>3, SubSeqStep
        <5> QED
          BY <1>7, <4>3, <4>4, <4>5, <5>1
      <4>7. Program[no'[x[2]]][x] = P
        BY <1>6 DEF P, n
      <4> QED
        BY <1>7, <4>3, <4>6, <4>7 DEF Delivered
    <3> QED
      BY <2>3, <3>1, <3>2, <3>3, <3>4
  <2> QED
    BY <2>2, <2>3
<1> QED
  BY <1>10, <1>11 DEF Inv

\* The messages of the streams that an exit sends stay where they are until MPI has copied them.
LEMMA ExitStep ==
  ASSUME TypeOK, Inv, NEW p \in PET, NEW keepAlloc \in BOOLEAN, EpochExit(p, keepAlloc)
  PROVE  TypeOK' /\ Inv'
<1> DEFINE Entry == [size : Nat, copied : BOOLEAN, data : Seq(Message)]
           New(x) == [size |-> put[x], copied |-> FALSE, data |-> <<>>]
<1>1. /\ epoch[p] = "buffer"
      /\ \A x \in Pair : (x[1] = p => left[x] = 0) /\ (x[2] = p => due[x] = 0)
      /\ epoch' = [epoch EXCEPT ![p] = "none"]
      /\ UNCHANGED <<no, left, sendFirst, memory, due, got, failed>>
  BY DEF EpochExit
<1>2. /\ net' = [x \in Pair |-> IF x \in Outgoing(p) THEN Append(net[x], New(x)) ELSE net[x]]
      /\ pending' = [x \in Pair |-> x \in Outgoing(p) \/ pending[x]]
      /\ posted' = [x \in Pair |-> IF x \in Outgoing(p) THEN posted[x] + 1 ELSE posted[x]]
      /\ put' = [x \in Pair |-> IF x \in Outgoing(p) THEN 0 ELSE put[x]]
      /\ chunks' = [x \in Pair |-> IF x[2] = p /\ ~keepAlloc THEN <<>> ELSE chunks[x]]
      /\ recvFirst' = [x \in Pair |-> (x[2] = p /\ ~keepAlloc) \/ recvFirst[x]]
  BY DEF EpochExit
<1>3. \A x \in Pair : New(x) \in Entry /\ net[x] \in Seq(Entry)
  <2>1. <<>> \in Seq(Message)
    BY EmptySeq
  <2> QED
    BY <2>1 DEF TypeOK
<1>4. ASSUME NEW x \in Pair
      PROVE  /\ Append(net[x], New(x)) \in Seq(Entry)
             /\ Len(Append(net[x], New(x))) = Len(net[x]) + 1 /\ Len(net[x]) \in Nat
             /\ \A i \in 1..Len(net[x]) : Append(net[x], New(x))[i] = net[x][i]
             /\ Append(net[x], New(x))[Len(net[x]) + 1] = New(x)
  <2> HIDE DEF Entry, New
  <2> QED
    BY <1>3, AppendProperties, LenProperties
<1> HIDE DEF Entry
\* What the exit does to one pair.
<1>5. ASSUME NEW x \in Pair
      PROVE  /\ Stream(x)' /\ Buffer(x)' /\ Network(x)' /\ Delivered(x)'
             /\ posted'[x] \in 0..Epochs
  <2>1. /\ x[1] \in PET /\ x[2] \in PET
        /\ Stream(x) /\ Buffer(x) /\ Network(x) /\ Delivered(x)
    BY PairParts DEF Inv
  <2>2. /\ x[1] = p => epoch'[x[1]] = "none"
        /\ x[1] # p => epoch'[x[1]] = epoch[x[1]]
        /\ x[2] = p => epoch'[x[2]] = "none"
        /\ x[2] # p => epoch'[x[2]] = epoch[x[2]]
    BY <1>1, <2>1 DEF TypeOK
  <2>3. x \in Outgoing(p) <=> x[1] = p /\ put[x] > 0
    BY DEF Outgoing
  <2>4. Taken(x)' = Taken(x) \/ (Busy(x, Taken(x)') = Busy(x, Taken(x)))
    <3>1. CASE x[2] = p
      <4> DEFINE n == no[x[2]]
      <4>1. n \in 1..Epochs /\ n \in 0..Epochs /\ due[x] = 0 /\ Taken(x)' = n
        BY <1>1, <2>1, <2>2, <3>1 DEF Buffer, TypeOK, Taken
      <4>2. CASE Count[n][x] = 0
        <5>1. Taken(x) = n - 1
          BY <1>1, <3>1, <4>1, <4>2 DEF Taken
        <5>2. Busy(x, n) = Busy(x, n - 1)
          <6>1. Busy(x, n) = Busy(x, n - 1) + 0 /\ n - 1 \in 0..Epochs
            BY <4>1, <4>2, BusyStep, CountType
          <6>2. Busy(x, n - 1) \in Nat
            BY <6>1, BusyStep
          <6> QED
            BY <6>1, <6>2
        <5> QED
          BY <4>1, <5>1, <5>2
      <4>3. CASE Count[n][x] # 0
        BY <1>1, <3>1, <4>1, <4>3 DEF Taken
      <4> QED
        BY <4>2, <4>3
    <3>2. CASE x[2] # p
      BY <1>1, <2>2, <3>2 DEF Taken
    <3> QED
      BY <3>1, <3>2
  <2>5. Busy(x, Taken(x)') = Busy(x, Taken(x))
    BY <2>4
  <2>6. Buffer(x)'
    <3>1. CASE x[2] = p
      BY <1>1, <2>1, <2>2, <3>1 DEF Buffer
    <3>2. CASE x[2] # p
      BY <1>1, <1>2, <2>1, <2>2, <3>2, BufferFrame DEF TypeOK
    <3> QED
      BY <3>1, <3>2
  <2>7. Delivered(x)'
    BY <1>1, <2>1, DeliveredFrame
  <2>8. CASE x \in Outgoing(p)
    <3> DEFINE n == no[p]
               L == Len(net[x])
    <3>1. x[1] = p /\ put[x] > 0 /\ left[x] = 0 /\ put[x] \in Nat /\ put[x] <= Len(memory[x])
      BY <1>1, <2>3, <2>8 DEF TypeOK
    <3>2. /\ n \in 1..Epochs /\ n \in 0..Epochs /\ n - 1 \in 0..Epochs
          /\ put[x] = Count[n][x] /\ ~pending[x]
          /\ \A i \in 1..put[x] : memory[x][i] = <<n, i>>
      BY <1>1, <2>1, <3>1, CountType DEF Stream, TypeOK
    <3>3. /\ put'[x] = 0 /\ pending'[x] = TRUE /\ posted'[x] = posted[x] + 1
          /\ net'[x] = Append(net[x], New(x))
      BY <1>2, <2>8
    <3>4. /\ Len(net'[x]) = L + 1 /\ L \in Nat
          /\ \A i \in 1..L : net'[x][i] = net[x][i]
          /\ net'[x][L + 1] = New(x)
      BY <1>4, <3>3
    <3>5. Exited(x) = n - 1 /\ Exited(x)' = n
      BY <1>1, <2>2, <3>1 DEF Exited
    <3>6. Busy(x, n) = Busy(x, n - 1) + 1 /\ Busy(x, n) \in 0..Epochs /\ Busy(x, n - 1) \in Nat
      <4>1. Busy(x, n - 1) \in 0..(n - 1)
        BY <3>2, BusyStep
      <4>2. Busy(x, n) = Busy(x, n - 1) + (IF Count[n][x] > 0 THEN 1 ELSE 0) /\ Busy(x, n) \in 0..n
        BY <3>2, BusyStep
      <4>3. Count[n][x] > 0
        BY <3>1, <3>2
      <4> HIDE DEF n
      <4> QED
        BY <3>2, <4>1, <4>2, <4>3, CountType
    <3>7. posted[x] = Busy(x, n - 1) /\ posted[x] - L = Busy(x, Taken(x))
      BY <2>1, <3>5 DEF Network
    <3> HIDE DEF n, L
    <3>8. Stream(x)'
      BY <1>1, <2>1, <2>2, <3>1, <3>3 DEF Stream
    <3>9. posted'[x] = Busy(x, Exited(x)') /\ posted'[x] - Len(net'[x]) = Busy(x, Taken(x)')
      BY <2>5, <3>3, <3>4, <3>5, <3>6, <3>7
    <3>10. ASSUME NEW i \in 1..(L + 1), NEW k \in 1..Epochs,
                  Count[k][x] > 0, Busy(x, k) = Busy(x, Taken(x)) + i
           PROVE  Carries(x, i, k)'
      <4>1. CASE i \in 1..L
        <5>1. Carries(x, i, k)
          BY <2>1, <3>10, <4>1 DEF Network, L
        <5> QED
          BY <1>1, <3>4, <4>1, <5>1 DEF Carries
      <4>2. CASE i = L + 1
        <5>1. Busy(x, k) = Busy(x, n)
          BY <3>4, <3>6, <3>7, <3>10, <4>2
        <5>2. k = n
          BY <3>1, <3>2, <3>10, <5>1, BusyUnique
        <5>3. /\ net'[x][i].size = Count[k][x] /\ ~net'[x][i].copied
              /\ Count[k][x] <= Len(memory[x])
              /\ \A j \in 1..Count[k][x] : memory[x][j] = <<k, j>>
          BY <3>1, <3>2, <3>4, <4>2, <5>2
        <5> QED
          BY <1>1, <5>3 DEF Carries
      <4> QED
        BY <3>4, <4>1, <4>2
    <3>11. \A i \in 1..(L + 1) : ~net'[x][i].copied <=> (pending'[x] /\ i = L + 1)
      <4> SUFFICES ASSUME NEW i \in 1..(L + 1)
                   PROVE  ~net'[x][i].copied <=> i = L + 1
        BY <3>3
      <4>1. CASE i \in 1..L
        <5>1. net[x][i].copied
          BY <2>1, <3>2, <4>1 DEF Network, L
        <5> QED
          BY <3>4, <4>1, <5>1
      <4>2. CASE i = L + 1
        BY <3>4, <4>2
      <4> QED
        BY <3>4, <4>1, <4>2
    <3>12. net'[x] # <<>> /\ net'[x][L + 1].size <= Len(memory'[x])
      BY <1>1, <3>1, <3>4
    <3>13. Network(x)'
      BY <2>5, <3>4, <3>9, <3>10, <3>11, <3>12 DEF Network
    <3> QED
      BY <2>6, <2>7, <3>3, <3>6, <3>7, <3>8, <3>13
  <2>9. CASE x \notin Outgoing(p)
    <3>1. UNCHANGED <<net[x], pending[x], posted[x], put[x], memory[x], left[x], sendFirst[x], no[x[1]]>>
      BY <1>1, <1>2, <2>9 DEF TypeOK
    <3>2. Stream(x)'
      <4>1. CASE x[1] = p
        BY <1>1, <2>1, <2>2, <2>3, <2>9, <3>1, <4>1 DEF Stream, TypeOK
      <4>2. CASE x[1] # p
        BY <2>1, <2>2, <3>1, <4>2, StreamFrame
      <4> QED
        BY <4>1, <4>2
    <3>3. Busy(x, Exited(x)') = Busy(x, Exited(x))
      <4>1. CASE x[1] = p
        <5> DEFINE n == no[p]
        <5>1. n \in 1..Epochs /\ n \in 0..Epochs /\ n - 1 \in 0..Epochs /\ Count[n][x] = 0
          BY <1>1, <2>1, <2>3, <2>9, <4>1, CountType DEF Stream, TypeOK
        <5>2. Exited(x) = n - 1 /\ Exited(x)' = n
          BY <1>1, <2>2, <4>1 DEF Exited
        <5>3. Busy(x, n) = Busy(x, n - 1) + 0 /\ Busy(x, n - 1) \in Nat
          BY <5>1, BusyStep
        <5> QED
          BY <5>2, <5>3
      <4>2. CASE x[1] # p
        BY <1>1, <2>2, <4>2 DEF Exited
      <4> QED
        BY <4>1, <4>2
    <3>4. Network(x)'
      BY <2>1, <2>5, <3>1, <3>3 DEF Network, Carries
    <3> QED
      BY <2>6, <2>7, <3>1, <3>2, <3>4 DEF TypeOK
  <2> QED
    BY <2>8, <2>9
<1>6. TypeOK'
  <2>1. net' \in [Pair -> Seq(Entry)]
    BY <1>2, <1>3, <1>4
  <2>2. put' \in [Pair -> Nat] /\ \A x \in Pair : put'[x] <= Len(memory'[x])
    <3>1. put' \in [Pair -> Nat]
      BY <1>2 DEF TypeOK
    <3> QED
      BY <1>5, <3>1 DEF Stream
  <2>3. posted' \in [Pair -> 0..Epochs]
    BY <1>2, <1>5
  <2>4. chunks' \in [Pair -> Seq(Message)]
    BY <1>2, EmptySeq DEF TypeOK
  <2>5. pending' \in [Pair -> BOOLEAN] /\ recvFirst' \in [Pair -> BOOLEAN]
    BY <1>2 DEF TypeOK
  <2>6. epoch' \in [PET -> {"none", "buffer", "final"}]
    BY <1>1 DEF TypeOK
  <2> QED
    BY <1>1, <2>1, <2>2, <2>3, <2>4, <2>5, <2>6 DEF TypeOK, Entry
<1> QED
  BY <1>5, <1>6 DEF Inv

\* epochFinal changes nothing of any pair.
LEMMA FinalStep ==
  ASSUME TypeOK, Inv, NEW p \in PET, EpochFinal(p)
  PROVE  TypeOK' /\ Inv'
<1> USE DEF EpochFinal, sendVars, recvVars
<1>1. TypeOK'
  BY DEF TypeOK
<1>2. ASSUME NEW x \in Pair PROVE Stream(x)' /\ Buffer(x)' /\ Network(x)' /\ Delivered(x)'
  <2>1. /\ x[1] \in PET /\ x[2] \in PET
        /\ Stream(x) /\ Buffer(x) /\ Network(x) /\ Delivered(x)
    BY PairParts DEF Inv
  <2>2. epoch'[x[1]] = "buffer" <=> epoch[x[1]] = "buffer"
    BY <2>1 DEF TypeOK
  <2>3. epoch'[x[2]] = "buffer" <=> epoch[x[2]] = "buffer"
    BY <2>1 DEF TypeOK
  <2>4. UNCHANGED <<Exited(x), Taken(x)>>
    BY <2>2, <2>3 DEF Exited, Taken
  <2> QED
    BY <2>1, <2>2, <2>3, <2>4, NetworkFrame, DeliveredFrame DEF Stream, Buffer
<1> QED
  BY <1>1, <1>2 DEF Inv

\* MPI copies the messages of the right epoch: nothing has overwritten them.
LEMMA CopyStep ==
  ASSUME TypeOK, Inv, NEW x \in Pair, Copy(x)
  PROVE  TypeOK' /\ Inv'
<1> DEFINE Entry == [size : Nat, copied : BOOLEAN, data : Seq(Message)]
           L == Len(net[x])
           size == net[x][L].size
           data == SubSeq(memory[x], 1, size)
           new == [size |-> size, copied |-> TRUE, data |-> data]
<1>1. /\ Stream(x) /\ Buffer(x) /\ Network(x) /\ Delivered(x)
      /\ net[x] \in Seq(Entry) /\ memory[x] \in Seq(Message)
  BY DEF Inv, TypeOK
<1>2. PICK i \in DOMAIN net[x] :
        /\ ~net[x][i].copied
        /\ net' = [net EXCEPT ![x][i] = [size |-> @.size, copied |-> TRUE,
                                         data |-> SubSeq(memory[x], 1, @.size)]]
  BY DEF Copy
<1>3. /\ pending' = [pending EXCEPT ![x] = FALSE]
      /\ UNCHANGED <<epoch, no, left, sendFirst, memory, put, posted, due, recvFirst, chunks, got, failed>>
  BY DEF Copy, petVars, recvVars
<1>4. L \in Nat /\ i \in 1..L
  BY <1>1, <1>2, LenProperties
<1>5. i = L /\ pending[x] /\ size <= Len(memory[x])
  BY <1>1, <1>2, <1>4 DEF Network
<1>6. size \in Nat
  <2>1. net[x][L] \in Entry
    <3> HIDE DEF Entry
    <3> QED
      BY <1>1, <1>4, <1>5, ElementOfSeq
  <2> QED
    BY <2>1
<1>7. /\ net' = [net EXCEPT ![x] = [net[x] EXCEPT ![L] = new]]
      /\ net'[x] = [net[x] EXCEPT ![L] = new]
  BY <1>2, <1>5 DEF TypeOK
<1>8. /\ data \in Seq(Message) /\ Len(data) = size
      /\ \A j \in 1..size : data[j] = memory[x][j]
  <2>1. Len(memory[x]) \in Nat /\ \A j \in 1..Len(memory[x]) : memory[x][j] \in Message
    BY <1>1, LenProperties, ElementOfSeq
  <2> HIDE DEF size
  <2> QED
    BY <1>5, <1>6, <2>1, SubSeqProperties
<1>9. new \in Entry /\ new.size = size /\ new.copied = TRUE /\ new.data = data
  BY <1>6, <1>8
<1>10. /\ net'[x] \in Seq(Entry) /\ Len(net'[x]) = L
       /\ \A j \in 1..L : net'[x][j] = IF j = L THEN new ELSE net[x][j]
  <2> HIDE DEF new, Entry
  <2> QED
    BY <1>1, <1>4, <1>5, <1>7, <1>9, ExceptSeq
<1>11. pending'[x] = FALSE /\ \A y \in Pair : y # x => UNCHANGED <<pending[y], net[y]>>
  BY <1>3, <1>7 DEF TypeOK
<1>12. TypeOK'
  <2>1. net' \in [Pair -> Seq(Entry)]
    <3> HIDE DEF Entry
    <3>1. net \in [Pair -> Seq(Entry)]
      BY DEF TypeOK, Entry
    <3> QED
      BY <1>7, <1>10, <3>1
  <2> QED
    BY <1>3, <2>1 DEF TypeOK
<1>13. ASSUME NEW y \in Pair PROVE Stream(y)' /\ Buffer(y)' /\ Network(y)' /\ Delivered(y)'
  <2>1. Stream(y) /\ Buffer(y) /\ Network(y) /\ Delivered(y)
    BY DEF Inv
  <2>2. UNCHANGED <<Exited(y), Taken(y)>>
    BY <1>3 DEF Exited, Taken
  <2>3. Buffer(y)' /\ Delivered(y)'
    BY <1>3, <2>1, BufferFrame, DeliveredFrame
  <2>4. CASE y # x
    BY <1>3, <1>11, <2>1, <2>2, <2>3, <2>4, StreamFrame, NetworkFrame
  <2>5. CASE y = x
    <3>1. Stream(x)'
      BY <1>1, <1>3, <1>11 DEF Stream
    <3>2. ASSUME NEW j \in 1..L, NEW k \in 1..Epochs,
                 Count[k][x] > 0, Busy(x, k) = Busy(x, Taken(x)) + j
          PROVE  Carries(x, j, k)'
      <4>1. Carries(x, j, k)
        BY <1>1, <3>2 DEF Network
      <4>2. CASE j # L
        BY <1>3, <1>10, <4>1, <4>2 DEF Carries
      <4>3. CASE j = L
        <5>1. size = Count[k][x] /\ \A m \in 1..Count[k][x] : memory[x][m] = <<k, m>>
          BY <1>2, <1>5, <4>1, <4>3 DEF Carries
        <5>2. /\ MessagesOf(x, k) \in Seq(Message) /\ Len(MessagesOf(x, k)) = Count[k][x]
              /\ \A m \in 1..Count[k][x] : MessagesOf(x, k)[m] = <<k, m>>
          BY MessagesType
        <5> HIDE DEF data, size, new
        <5>3. \A m \in 1..size : data[m] = MessagesOf(x, k)[m]
          BY <1>8, <5>1, <5>2
        <5>4. data = MessagesOf(x, k)
          BY <1>8, <5>1, <5>2, <5>3, SeqEqual
        <5>5. net'[x][j].size = Count[k][x] /\ net'[x][j].copied /\ net'[x][j].data = MessagesOf(x, k)
          BY <1>9, <1>10, <4>3, <5>1, <5>4
        <5> QED
          BY <5>5 DEF Carries
      <4> QED
        BY <4>2, <4>3
    <3>3. \A j \in 1..L : net'[x][j].copied
      <4> SUFFICES ASSUME NEW j \in 1..L PROVE net'[x][j].copied
        OBVIOUS
      <4> HIDE DEF new
      <4>1. CASE j = L
        BY <1>9, <1>10, <4>1
      <4>2. CASE j # L
        <5>1. net[x][j].copied
          BY <1>1, <4>2 DEF Network
        <5> QED
          BY <1>10, <4>2, <5>1
      <4> QED
        BY <4>1, <4>2
    <3>4. posted'[x] = Busy(x, Exited(x)') /\ posted'[x] - Len(net'[x]) = Busy(x, Taken(x)')
      BY <1>1, <1>3, <1>10, <2>2, <2>5 DEF Network
    <3> HIDE DEF L
    <3>5. Network(x)'
      BY <1>10, <1>11, <2>2, <2>5, <3>2, <3>3, <3>4 DEF Network
    <3> QED
      BY <2>3, <2>5, <3>1, <3>5
  <2> QED
    BY <2>4, <2>5
<1> QED
  BY <1>12, <1>13 DEF Inv

\* Every step keeps the invariant.
LEMMA Step == TypeOK /\ Inv /\ [Next]_vars => TypeOK' /\ Inv'
<1> SUFFICES ASSUME TypeOK, Inv, [Next]_vars PROVE TypeOK' /\ Inv'
  OBVIOUS
<1>1. ASSUME NEW p \in PET, EpochEnter(p) PROVE TypeOK' /\ Inv'
  BY <1>1, EnterStep
<1>2. ASSUME NEW p \in PET, EpochFinal(p) PROVE TypeOK' /\ Inv'
  BY <1>2, FinalStep
<1>3. ASSUME NEW p \in PET, NEW q \in PET, Send(<<p, q>>) PROVE TypeOK' /\ Inv'
  <2>1. <<p, q>> \in Pair
    BY DEF Pair
  <2> QED
    BY <1>3, <2>1, SendStep
<1>4. ASSUME NEW p \in PET, NEW q \in PET, Recv(<<q, p>>) PROVE TypeOK' /\ Inv'
  <2>1. <<q, p>> \in Pair
    BY DEF Pair
  <2> QED
    BY <1>4, <2>1, RecvStep
<1>5. ASSUME NEW p \in PET, NEW keepAlloc \in BOOLEAN, EpochExit(p, keepAlloc) PROVE TypeOK' /\ Inv'
  BY <1>5, ExitStep
<1>6. ASSUME NEW x \in Pair, Copy(x) PROVE TypeOK' /\ Inv'
  BY <1>6, CopyStep
<1>7. CASE UNCHANGED vars
  <2>1. TypeOK'
    BY <1>7 DEF TypeOK, vars, petVars, sendVars, recvVars
  <2>2. ASSUME NEW x \in Pair PROVE Stream(x)' /\ Buffer(x)' /\ Network(x)' /\ Delivered(x)'
    <3>1. Stream(x) /\ Buffer(x) /\ Network(x) /\ Delivered(x)
      BY DEF Inv
    <3>2. UNCHANGED <<Exited(x), Taken(x)>>
      BY <1>7 DEF Exited, Taken, vars, petVars, sendVars, recvVars
    <3> QED
      BY <1>7, <3>1, <3>2, StreamFrame, BufferFrame, NetworkFrame, DeliveredFrame
         DEF vars, petVars, sendVars, recvVars
  <2> QED
    BY <2>1, <2>2 DEF Inv
<1> QED
  BY <1>1, <1>2, <1>3, <1>4, <1>5, <1>6, <1>7 DEF Next, Pet

------------------------------------------------------------------------------
(* The theorems.                                                            *)

\* The inductive invariant of the epochs: for each pair, what the stream, the network and the
\* buffer hold are the messages of the epochs in which sender and receiver are.
THEOREM EpochInv == Spec => [](TypeOK /\ Inv)
BY InitInv, Step, PTL DEF Spec

\* The counters, flags, streams and buffers of epochEnter, epochExit, send and recv stay in
\* their ranges, and the put position inside of the stream.
THEOREM EpochType == Spec => []TypeOK
BY EpochInv, PTL

\* Whatever the program, however far senders run ahead, and whenever MPI copies a message:
\* the receives of a pair deliver the messages of its sends, unchanged and in order.
THEOREM InOrderHolds == Spec => []InOrder
<1>1. Inv => InOrder
  BY DEF Inv, InOrder, Buffer, Delivered
<1> QED
  BY <1>1, EpochInv, PTL

\* epochExit sends one message for a pair with messages, and none for a pair without.
THEOREM OneTransferHolds == Spec => []OneTransfer
<1>1. TypeOK /\ Inv => OneTransfer
  BY DEF TypeOK, Inv, OneTransfer, Network, Exited, Busy
<1> QED
  BY <1>1, EpochInv, PTL

\* sendBuffer::clear keeps the stream of a pair, and its mpireq, to one transfer at a time.
THEOREM OneOutstandingHolds == Spec => []OneOutstanding
<1>1. ASSUME TypeOK, Inv, NEW x \in Pair
      PROVE  /\ Cardinality({i \in DOMAIN net[x] : ~net[x][i].copied}) = IF pending[x] THEN 1 ELSE 0
             /\ pending[x] /\ epoch[x[1]] = "buffer" => put[x] = 0
  <2>1. net[x] \in Seq([size : Nat, copied : BOOLEAN, data : Seq(Message)])
    BY <1>1 DEF TypeOK
  <2>2. Len(net[x]) \in Nat /\ DOMAIN net[x] = 1..Len(net[x])
    BY <2>1, LenProperties
  <2>3. Stream(x) /\ Network(x) /\ put[x] \in Nat
    BY <1>1 DEF Inv, TypeOK
  <2>4. CASE pending[x]
    <3>1. Len(net[x]) \in 1..Len(net[x])
      BY <2>1, <2>2, <2>3, <2>4, EmptySeq DEF Network
    <3>2. {i \in DOMAIN net[x] : ~net[x][i].copied} = {Len(net[x])}
      BY <2>2, <2>3, <2>4, <3>1 DEF Network
    <3>3. Cardinality({i \in DOMAIN net[x] : ~net[x][i].copied}) = 1
      BY <3>2, FS_Singleton
    <3>4. epoch[x[1]] = "buffer" => put[x] = 0
      BY <2>3, <2>4 DEF Stream
    <3> QED
      BY <2>4, <3>3, <3>4
  <2>5. CASE ~pending[x]
    <3>1. {i \in DOMAIN net[x] : ~net[x][i].copied} = {}
      BY <2>2, <2>3, <2>5 DEF Network
    <3> QED
      BY <2>5, <3>1, FS_EmptySet
  <2> QED
    BY <2>4, <2>5
<1>2. TypeOK /\ Inv => OneOutstanding
  BY <1>1 DEF OneOutstanding
<1> QED
  BY <1>2, EpochInv, PTL
==============================================================================
