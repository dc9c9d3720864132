---------------------------- MODULE CommQueueProofs ----------------------------
(***************************************************************************)
(* TLAPS proofs about CommQueue, for any finite set of addresses and any   *)
(* set of variables of the program.                                        *)
(***************************************************************************)
EXTENDS CommQueue, LeastNumber, SequenceTheorems

Allocated == {i \in Handle : type[i] # "free"}

\* The n-th handle of a list; there is none before the first and after the last.
At(s, n) == IF n \in 1..Len(s) THEN s[n] ELSE Null

\* The queue is the doubly linked list of the handles of sequence s, which are the allocated
\* ones, each of them once.
Links(s) ==
  /\ Len(s) = nhandles
  /\ \A m, n \in 1..Len(s) : s[m] = s[n] => m = n
  /\ \A n \in 1..Len(s) : s[n] \in Allocated
  /\ \A i \in Allocated : \E n \in 1..Len(s) : s[n] = i
  /\ first = At(s, 1)
  /\ \A n \in 1..Len(s) : prev[s[n]] = At(s, n - 1)
  /\ \A n \in 1..Len(s) : next[s[n]] = At(s, n + 1)

\* A variable of the program holds an allocated handle, and no other does.
Held == /\ \A v \in Var : ch[v] # Null => ch[v] \in Allocated
        /\ \A v, w \in Var : ch[v] = ch[w] /\ ch[v] # Null => v = w

\* commqueuewait has as many calls of commwait to make as there are handles left, which the
\* program has dropped; after it, the queue is empty until the program starts something.
Clearing == /\ waiting > 0 => waiting = nhandles /\ ~buffering /\ \A v \in Var : ch[v] = Null
            /\ cleared = "outside" => waiting = nhandles

\* As long as the program has neither entered an epoch nor tested a container, an allocated
\* handle has its contents, and a freed one no request.
Safe == ~risky => /\ ~buffering /\ ~bad
                  /\ \A i \in Allocated : type[i] # "unset" /\ contents[i]
                  /\ \A i \in Handle \ Allocated : open[i] = 0

Inv == Queue \in Seq(Handle) /\ Links(Queue) /\ Held /\ Clearing /\ Safe

------------------------------------------------------------------------------
(* Walking the queue.                                                       *)

\* The number of addresses.
LEMMA HandleCount == Cardinality(Handle) \in Nat
BY HandleAssumption, FS_CardinalityType

\* The equation that defines Nth: by the least n up to which no function satisfies it.
LEMMA NthDef ==
  /\ DOMAIN Nth = 1..(Cardinality(Handle) + 1)
  /\ \A n \in 1..(Cardinality(Handle) + 1) :
       Nth[n] = IF n = 1 THEN first ELSE IF Nth[n - 1] = Null THEN Null ELSE next[Nth[n - 1]]
<1> DEFINE Solves(f, N) == f = [n \in 1..N |->
             IF n = 1 THEN first ELSE IF f[n - 1] = Null THEN Null ELSE next[f[n - 1]]]
           Bad == {N \in Nat : \A f : ~Solves(f, N)}
<1>1. Bad = {}
  <2> SUFFICES ASSUME Bad # {} PROVE FALSE
    OBVIOUS
  <2>1. PICK N \in Bad : \A M \in Bad : N <= M
    BY LeastNumber
  <2>2. N # 0
    <3>1. Solves([n \in 1..0 |-> Null], 0)
      OBVIOUS
    <3> QED
      BY <2>1, <3>1
  <2>3. N \in Nat /\ N - 1 \in Nat /\ N - 1 \notin Bad
    <3>1. N \in Nat /\ \A M \in Bad : N <= M
      BY <2>1
    <3> HIDE DEF Bad
    <3> QED
      BY <2>2, <3>1
  <2>4. PICK f : Solves(f, N - 1)
    <3> HIDE DEF Solves
    <3> QED
      BY <2>3
  <2> DEFINE last == IF N = 1 THEN first ELSE IF f[N - 1] = Null THEN Null ELSE next[f[N - 1]]
             g == [n \in 1..N |-> IF n = N THEN last ELSE f[n]]
  <2>5. Solves(g, N)
    <3>1. ASSUME NEW n \in 1..N
          PROVE  g[n] = IF n = 1 THEN first ELSE IF g[n - 1] = Null THEN Null ELSE next[g[n - 1]]
      <4>1. n # 1 => n - 1 \in 1..(N - 1) /\ g[n - 1] = f[n - 1]
        BY <2>3
      <4>2. CASE n = N
        <5>1. g[n] = last
          BY <4>2
        <5> HIDE DEF g
        <5> QED
          BY <4>1, <4>2, <5>1
      <4>3. CASE n # N
        <5>1. n \in 1..(N - 1) /\ g[n] = f[n]
          BY <2>3, <4>3
        <5>2. f[n] = IF n = 1 THEN first ELSE IF f[n - 1] = Null THEN Null ELSE next[f[n - 1]]
          BY <2>4, <5>1
        <5> HIDE DEF g
        <5> QED
          BY <4>1, <5>1, <5>2
      <4> QED
        BY <4>2, <4>3
    <3>2. g = [n \in 1..N |-> g[n]]
      OBVIOUS
    <3> HIDE DEF g
    <3> QED
      BY <3>1, <3>2
  <2> HIDE DEF Solves
  <2> QED
    BY <2>1, <2>5
<1>2. \E f : Solves(f, Cardinality(Handle) + 1)
  <2> HIDE DEF Solves
  <2> QED
    BY <1>1, HandleCount
<1>3. Solves(Nth, Cardinality(Handle) + 1)
  BY <1>2 DEF Nth
<1> QED
  BY <1>3

\* A queue without duplicates is not longer than there are addresses.
LEMMA QueueLength ==
  \A s \in Seq(Handle) : Links(s) => Len(s) \in 0..Cardinality(Handle)
<1> SUFFICES ASSUME NEW s \in Seq(Handle), Links(s) PROVE Len(s) \in 0..Cardinality(Handle)
  OBVIOUS
<1>1. Len(s) \in Nat /\ \A n \in 1..Len(s) : s[n] \in Handle
  BY LenProperties, ElementOfSeq
<1> DEFINE f == [n \in 1..Len(s) |-> s[n]]
<1>2. f \in Injection(1..Len(s), Handle)
  <2>1. f \in [1..Len(s) -> Handle]
    BY <1>1
  <2>2. \A m, n \in 1..Len(s) : f[m] = f[n] => m = n
    BY DEF Links
  <2> QED
    BY <2>1, <2>2 DEF Injection, IsInjective
<1>3. Cardinality(1..Len(s)) <= Cardinality(Handle)
  BY <1>2, HandleAssumption, FS_Injection
<1>4. Cardinality(1..Len(s)) = Len(s)
  <2> DEFINE L == Len(s)
  <2> HIDE DEF L
  <2>1. Cardinality(1..L) = IF 1 > L THEN 0 ELSE L - 1 + 1
    BY <1>1, FS_Interval DEF L
  <2> QED
    BY <1>1, <2>1 DEF L
<1> QED
  BY <1>1, <1>3, <1>4, HandleCount

\* Walking a well-formed list from firsthandle on meets its handles in order.
LEMMA QueueIs == \A s \in Seq(Handle) : Links(s) => Queue = s
<1> SUFFICES ASSUME NEW s \in Seq(Handle), Links(s) PROVE Queue = s
  OBVIOUS
<1> DEFINE L == Len(s)
           C == Cardinality(Handle)
<1>1. /\ L \in 0..C /\ L \in Nat /\ C \in Nat
      /\ \A n \in 1..L : s[n] \in Handle /\ s[n] # Null
  BY QueueLength, HandleCount, HandleAssumption, LenProperties, ElementOfSeq
<1> HIDE DEF C
<1>2. \A n \in 1..(C + 1) :
        Nth[n] = IF n = 1 THEN first ELSE IF Nth[n - 1] = Null THEN Null ELSE next[Nth[n - 1]]
  BY NthDef DEF C
<1> DEFINE Bad == {n \in 1..(C + 1) : Nth[n] # At(s, n)}
<1>3. Bad = {}
  <2> SUFFICES ASSUME Bad # {} PROVE FALSE
    OBVIOUS
  <2>1. PICK n \in Bad : \A m \in Bad : n <= m
    <3>1. Bad \in SUBSET Nat
      BY <1>1
    <3> QED
      BY <3>1, LeastNumber
  <2>2. n # 1
    <3>1. Nth[1] = first /\ first = At(s, 1)
      BY <1>1, <1>2 DEF Links
    <3> QED
      BY <2>1, <3>1
  <2>3. n - 1 \in 1..(C + 1) /\ n - 1 < n /\ n \in 1..(C + 1) /\ (n - 1) + 1 = n
    BY <1>1, <2>1, <2>2
  <2>4. Nth[n - 1] = At(s, n - 1)
    BY <2>1, <2>3
  <2>5. Nth[n] = IF At(s, n - 1) = Null THEN Null ELSE next[At(s, n - 1)]
    BY <1>2, <2>2, <2>3, <2>4
  <2>6. CASE n - 1 \in 1..L
    <3>1. At(s, n - 1) = s[n - 1] /\ s[n - 1] # Null
      BY <1>1, <2>6 DEF At
    <3>2. next[s[n - 1]] = At(s, n)
      BY <2>3, <2>6 DEF Links
    <3> QED
      BY <2>1, <2>5, <3>1, <3>2
  <2>7. CASE n - 1 > L
    <3>1. At(s, n - 1) = Null /\ At(s, n) = Null
      BY <1>1, <2>3, <2>7 DEF At
    <3> QED
      BY <2>1, <2>5, <3>1
  <2> QED
    BY <1>1, <2>3, <2>6, <2>7
<1>4. \A n \in 1..(C + 1) : Nth[n] = At(s, n)
  BY <1>3
<1>5. {m \in DOMAIN Nth : Nth[m] # Null} = 1..L
  <2>1. DOMAIN Nth = 1..(C + 1)
    BY NthDef DEF C
  <2>2. \A n \in 1..(C + 1) : At(s, n) # Null <=> n \in 1..L
    BY <1>1 DEF At
  <2> QED
    BY <1>1, <1>4, <2>1, <2>2
<1>6. Queue = [n \in 1..L |-> Nth[n]]
  <2>1. Cardinality(1..L) = IF 1 > L THEN 0 ELSE L - 1 + 1
    <3> HIDE DEF L
    <3> QED
      BY <1>1, FS_Interval
  <2>2. Cardinality(1..L) = L
    BY <1>1, <2>1
  <2> QED
    BY <1>5, <2>2 DEF Queue
<1>7. s = [n \in 1..L |-> s[n]]
  BY LenProperties
<1>8. \A n \in 1..L : Nth[n] = s[n]
  BY <1>1, <1>4 DEF At
<1> QED
  BY <1>6, <1>7, <1>8

\* The same in the next state.
LEMMA QueueIsNext == (\A s \in Seq(Handle) : Links(s) => Queue = s)'
BY QueueIs, PTL

\* The same bound in the next state.
LEMMA QueueLengthNext ==
  (\A s \in Seq(Handle) : Links(s) => Len(s) \in 0..Cardinality(Handle))'
BY QueueLength, PTL

------------------------------------------------------------------------------
(* Linking and unlinking.                                                   *)

\* commqueueitem_link appends the new handle to the queue.
LEMMA LinkStep ==
  ASSUME TypeOK, Queue \in Seq(Handle), Links(Queue),
         NEW i \in Handle \ Allocated, Link(i),
         NEW t \in {"unset", "requests", "container"}, type' = [type EXCEPT ![i] = t]
  PROVE  /\ Queue' \in Seq(Handle) /\ Links(Queue)'
         /\ Allocated' = Allocated \cup {i}
         /\ nhandles' = nhandles + 1
         /\ nhandles' \in 0..Cardinality(Handle)
         /\ first' \in Handle
         /\ next' \in [Handle -> Handle \cup {Null}] /\ prev' \in [Handle -> Handle \cup {Null}]
<1>1. PICK s \in Seq(Handle) : s = Queue /\ Links(s)
  OBVIOUS
<1> DEFINE L == Len(s)
           q == Append(s, i)
<1>2. /\ L \in Nat /\ L = nhandles /\ \A n \in 1..L : s[n] \in Handle /\ s[n] # i
      /\ i # Null /\ i \in Handle /\ Null \notin Handle
  <2>1. L \in Nat /\ \A n \in 1..L : s[n] \in Handle
    BY LenProperties, ElementOfSeq
  <2>2. \A n \in 1..L : s[n] \in Allocated
    BY <1>1 DEF Links
  <2>3. L = nhandles
    BY <1>1 DEF Links
  <2> QED
    BY <2>1, <2>2, <2>3, HandleAssumption
<1>3. /\ q \in Seq(Handle) /\ Len(q) = L + 1 /\ q[L + 1] = i
      /\ \A n \in 1..L : q[n] = s[n]
  BY <1>2, AppendProperties
<1>4. Allocated' = Allocated \cup {i}
  BY <1>2 DEF Allocated, TypeOK
<1>5. /\ \A m, n \in 1..L : s[m] = s[n] => m = n
      /\ \A n \in 1..L : s[n] \in Allocated
      /\ \A j \in Allocated : \E n \in 1..L : s[n] = j
      /\ first = At(s, 1)
      /\ \A n \in 1..L : prev[s[n]] = At(s, n - 1)
      /\ \A n \in 1..L : next[s[n]] = At(s, n + 1)
  BY <1>1 DEF Links
<1>6. /\ \A n \in 1..L : At(q, n) = s[n] /\ At(s, n) = s[n]
      /\ At(q, L + 1) = i /\ At(q, L + 2) = Null /\ At(q, 0) = Null
      /\ At(s, 0) = Null /\ At(s, L + 1) = Null
  BY <1>2, <1>3 DEF At
<1> HIDE DEF q, L
\* What the call does to first, next_handle and prev_handle.
<1>7. /\ nhandles' = L + 1
      /\ first' = IF L = 0 THEN i ELSE first
      /\ prev'[i] = IF L = 0 THEN Null ELSE s[L]
      /\ next'[i] = Null
      /\ \A j \in Handle : j # i => prev'[j] = prev[j]
      /\ \A j \in Handle : j # i => next'[j] = IF L # 0 /\ j = s[L] THEN i ELSE next[j]
      /\ next' \in [Handle -> Handle \cup {Null}] /\ prev' \in [Handle -> Handle \cup {Null}]
  <2>1. CASE L = 0
    BY <1>2, <2>1 DEF Link, TypeOK
  <2>2. CASE L # 0
    <3>1. Queue[Len(Queue)] = s[L] /\ s[L] \in Handle /\ s[L] # i
      BY <1>1, <1>2, <2>2 DEF L
    <3>2. /\ next' = [next EXCEPT ![s[L]] = i, ![i] = Null]
          /\ prev' = [prev EXCEPT ![i] = s[L]]
          /\ nhandles' = nhandles + 1 /\ first' = first
      BY <1>2, <2>2, <3>1 DEF Link
    <3> QED
      BY <1>2, <2>2, <3>1, <3>2 DEF TypeOK
  <2> QED
    BY <2>1, <2>2
<1>8. Links(q)'
  <2>1. Len(q) = nhandles'
    BY <1>3, <1>7
  <2>2. ASSUME NEW n \in 1..(L + 1) PROVE n = L + 1 \/ n \in 1..L
    BY <1>2
  <2>3. \A m, n \in 1..(L + 1) : q[m] = q[n] => m = n
    <3> SUFFICES ASSUME NEW m \in 1..(L + 1), NEW n \in 1..(L + 1), q[m] = q[n] PROVE m = n
      OBVIOUS
    <3> QED
      BY <1>2, <1>3, <1>5, <2>2
  <2>4. \A n \in 1..(L + 1) : q[n] \in Allocated'
    BY <1>3, <1>4, <1>5, <2>2
  <2>5. \A j \in Allocated' : \E n \in 1..(L + 1) : q[n] = j
    <3> SUFFICES ASSUME NEW j \in Allocated' PROVE \E n \in 1..(L + 1) : q[n] = j
      OBVIOUS
    <3>1. CASE j = i
      BY <1>2, <1>3, <3>1
    <3>2. CASE j \in Allocated
      <4>1. PICK n \in 1..L : s[n] = j
        BY <1>5, <3>2
      <4> QED
        BY <1>2, <1>3, <4>1
    <3> QED
      BY <1>4, <3>1, <3>2
  <2>6. first' = At(q, 1)
    <3>1. CASE L = 0
      BY <1>6, <1>7, <3>1
    <3>2. CASE L # 0
      <4>1. 1 \in 1..L
        BY <1>2, <3>2
      <4>2. At(q, 1) = s[1] /\ At(s, 1) = s[1]
        BY <1>6, <4>1
      <4> QED
        BY <1>5, <1>7, <3>2, <4>2
    <3> QED
      BY <3>1, <3>2
  <2>7. ASSUME NEW n \in 1..(L + 1)
        PROVE  prev'[q[n]] = At(q, n - 1) /\ next'[q[n]] = At(q, n + 1)
    <3>1. CASE n = L + 1
      <4>1. q[n] = i /\ (L + 1) - 1 = L /\ (L + 1) + 1 = L + 2 /\ (L # 0 => L \in 1..L)
        BY <1>2, <1>3, <3>1
      <4> QED
        BY <1>6, <1>7, <3>1, <4>1
    <3>2. CASE n \in 1..L
      <4>1. q[n] = s[n] /\ s[n] \in Handle /\ s[n] # i /\ L # 0 /\ L \in 1..L
        BY <1>2, <1>3, <3>2
      <4>2. At(s, n - 1) = At(q, n - 1)
        <5>1. n - 1 = 0 \/ n - 1 \in 1..L
          BY <1>2, <3>2
        <5> QED
          BY <1>6, <5>1
      <4>3. prev'[s[n]] = At(s, n - 1)
        <5>1. prev'[s[n]] = prev[s[n]]
          BY <1>7, <4>1
        <5>2. prev[s[n]] = At(s, n - 1)
          BY <1>5, <3>2
        <5> QED
          BY <5>1, <5>2
      <4>4. next'[s[n]] = IF s[n] = s[L] THEN i ELSE next[s[n]]
        BY <1>7, <4>1
      <4>5. next[s[n]] = At(s, n + 1)
        BY <1>5, <3>2
      <4>6. CASE n = L
        BY <1>6, <4>1, <4>2, <4>3, <4>4, <4>6
      <4>7. CASE n # L
        <5>1. n + 1 \in 1..L
          BY <1>2, <3>2, <4>7
        <5>2. s[n] # s[L]
          BY <1>5, <3>2, <4>1, <4>7
        <5>3. At(s, n + 1) = At(q, n + 1)
          BY <1>6, <5>1
        <5> QED
          BY <4>1, <4>2, <4>3, <4>4, <4>5, <5>2, <5>3
      <4> QED
        BY <4>6, <4>7
    <3> QED
      BY <2>2, <3>1, <3>2
  <2> QED
    BY <1>3, <2>1, <2>3, <2>4, <2>5, <2>6, <2>7 DEF Links
<1>9. Queue' = q
  BY <1>3, <1>8, QueueIsNext
<1>10. Len(q) \in 0..Cardinality(Handle)
  BY <1>3, <1>8, QueueLengthNext
<1>11. first' \in Handle
  <2>1. CASE L = 0
    BY <1>2, <1>7, <2>1
  <2>2. CASE L # 0
    <3>1. 1 \in 1..L
      BY <1>2, <2>2
    <3>2. At(s, 1) = s[1] /\ s[1] \in Handle
      BY <1>2, <1>6, <3>1
    <3>3. first' = s[1]
      BY <1>5, <1>7, <2>2, <3>2
    <3> QED
      BY <3>2, <3>3
  <2> QED
    BY <2>1, <2>2
<1>12. Links(Queue)'
  BY <1>8, <1>9
<1> QED
  BY <1>2, <1>3, <1>4, <1>7, <1>9, <1>10, <1>11, <1>12

\* commqueueitem_unlink takes a handle out of the queue, wherever it is.
LEMMA UnlinkStep ==
  ASSUME TypeOK, Queue \in Seq(Handle), Links(Queue),
         NEW i \in Allocated, Unlink(i), type' = [type EXCEPT ![i] = "free"]
  PROVE  /\ Queue' \in Seq(Handle) /\ Links(Queue)'
         /\ Allocated' = Allocated \ {i}
         /\ nhandles' = nhandles - 1
         /\ nhandles' \in 0..Cardinality(Handle)
         /\ first' \in Handle \cup {Null}
         /\ next' \in [Handle -> Handle \cup {Null}] /\ prev' \in [Handle -> Handle \cup {Null}]
<1>1. PICK s \in Seq(Handle) : s = Queue /\ Links(s)
  OBVIOUS
<1> DEFINE L == Len(s)
<1>2. /\ L \in Nat /\ L = nhandles /\ \A n \in 1..L : s[n] \in Handle
      /\ Null \notin Handle /\ i \in Handle
  BY <1>1, HandleAssumption, LenProperties, ElementOfSeq DEF Links, Allocated
<1>3. /\ \A m, n \in 1..L : s[m] = s[n] => m = n
      /\ \A n \in 1..L : s[n] \in Allocated
      /\ \A j \in Allocated : \E n \in 1..L : s[n] = j
      /\ first = At(s, 1)
      /\ \A n \in 1..L : prev[s[n]] = At(s, n - 1)
      /\ \A n \in 1..L : next[s[n]] = At(s, n + 1)
  BY <1>1 DEF Links
<1>4. PICK k \in 1..L : s[k] = i
  BY <1>3
<1>5. /\ \A n \in 1..L : At(s, n) = s[n]
      /\ \A n \in Int : n \notin 1..L => At(s, n) = Null
  BY <1>2 DEF At
<1> HIDE DEF L
\* The n-th of the handles that remain was the Old(n)-th.
<1> DEFINE Old(n) == IF n < k THEN n ELSE n + 1
           q == [n \in 1..(L - 1) |-> s[Old(n)]]
<1>6. \A n \in 1..(L - 1) : Old(n) \in 1..L /\ Old(n) # k /\ Old(n) \in Int
  BY <1>2
<1>7. /\ q \in Seq(Handle) /\ Len(q) = L - 1
      /\ \A n \in 1..(L - 1) : q[n] = s[Old(n)]
  <2> HIDE DEF Old
  <2>1. \A n \in 1..(L - 1) : s[Old(n)] \in Handle
    BY <1>2, <1>6
  <2>2. L - 1 \in Nat
    BY <1>2
  <2> QED
    BY <2>1, <2>2
<1>8. \A n \in 0..L : At(q, n) = IF n = 0 THEN Null ELSE At(s, Old(n))
  <2> SUFFICES ASSUME NEW n \in 0..L PROVE At(q, n) = IF n = 0 THEN Null ELSE At(s, Old(n))
    OBVIOUS
  <2>1. CASE n = 0
    BY <2>1 DEF At
  <2>2. CASE n = L
    <3>1. Old(n) \in Int /\ Old(n) \notin 1..L /\ n \notin 1..(L - 1) /\ n # 0
      BY <1>2, <2>2
    <3>2. At(q, n) = Null
      BY <1>7, <3>1 DEF At
    <3> HIDE DEF Old
    <3> QED
      BY <1>5, <3>1, <3>2
  <2>3. CASE n \in 1..(L - 1)
    <3> HIDE DEF Old
    <3>1. At(q, n) = s[Old(n)]
      BY <1>7, <2>3 DEF At
    <3>2. At(s, Old(n)) = s[Old(n)] /\ n # 0
      BY <1>5, <1>6, <2>3
    <3> QED
      BY <3>1, <3>2
  <2> QED
    BY <1>2, <2>1, <2>2, <2>3
<1> HIDE DEF q
<1>9. prev[i] = At(s, k - 1) /\ next[i] = At(s, k + 1)
  BY <1>3, <1>4
<1>10. /\ nhandles' = L - 1
       /\ first' = IF k = 1 THEN next[i] ELSE first
       /\ \A j \in Handle : next'[j] = IF j = prev[i] THEN next[i] ELSE next[j]
       /\ \A j \in Handle : prev'[j] = IF j = next[i] THEN prev[i] ELSE prev[j]
  <2>1. CASE k = 1
    <3>1. k - 1 \in Int /\ k - 1 \notin 1..L
      BY <2>1
    <3>2. prev[i] = Null
      BY <1>5, <1>9, <3>1
    <3> QED
      BY <1>2, <2>1, <3>2 DEF Unlink
  <2>2. CASE k # 1
    <3>1. k - 1 \in 1..L
      BY <1>2, <2>2
    <3>2. prev[i] # Null
      BY <1>2, <1>5, <1>9, <3>1
    <3> QED
      BY <1>2, <2>2, <3>2 DEF Unlink
  <2> QED
    BY <2>1, <2>2
<1>11. Allocated' = Allocated \ {i}
  BY DEF Allocated, TypeOK
\* At places m and n of the list there is the same handle only if they are the same place.
<1>12. ASSUME NEW m \in 1..L, NEW n \in Int PROVE s[m] = At(s, n) <=> m = n
  <2>1. CASE n \in 1..L
    <3>1. At(s, n) = s[n]
      BY <1>5, <2>1
    <3>2. s[m] = s[n] => m = n
      BY <1>3, <2>1
    <3> QED
      BY <3>1, <3>2
  <2>2. CASE n \notin 1..L
    BY <1>2, <1>5, <2>2
  <2> QED
    BY <2>1, <2>2
<1>13. Links(q)'
  <2>1. Len(q) = nhandles'
    BY <1>7, <1>10
  <2>2. \A m, n \in 1..(L - 1) : q[m] = q[n] => m = n
    <3> SUFFICES ASSUME NEW m \in 1..(L - 1), NEW n \in 1..(L - 1), q[m] = q[n] PROVE m = n
      OBVIOUS
    <3>1. Old(m) = Old(n)
      <4> HIDE DEF Old
      <4>1. s[Old(m)] = s[Old(n)]
        BY <1>7
      <4>2. Old(m) \in 1..L /\ Old(n) \in 1..L
        BY <1>6
      <4> QED
        BY <1>3, <4>1, <4>2
    <3> QED
      BY <3>1
  <2>3. \A n \in 1..(L - 1) : q[n] \in Allocated'
    <3> HIDE DEF Old
    <3> SUFFICES ASSUME NEW n \in 1..(L - 1) PROVE q[n] \in Allocated \ {i}
      BY <1>11
    <3>1. Old(n) \in 1..L /\ Old(n) # k /\ q[n] = s[Old(n)]
      BY <1>6, <1>7
    <3>2. s[Old(n)] \in Allocated
      BY <1>3, <3>1
    <3>3. s[Old(n)] # s[k]
      BY <1>3, <3>1
    <3> QED
      BY <1>4, <3>1, <3>2, <3>3
  <2>4. ASSUME NEW j \in Allocated' PROVE \E n \in 1..(L - 1) : q[n] = j
    <3>1. PICK m \in 1..L : s[m] = j
      BY <1>3, <1>11
    <3>2. m # k
      BY <1>4, <1>11, <3>1
    <3> DEFINE n == IF m < k THEN m ELSE m - 1
    <3>3. n \in 1..(L - 1) /\ Old(n) = m
      BY <1>2, <3>2
    <3> HIDE DEF n, Old
    <3> QED
      BY <1>7, <3>1, <3>3
  <2>5. first' = At(q, 1)
    <3>1. 1 \in 0..L /\ 1 # 0
      BY <1>2
    <3>2. At(q, 1) = At(s, Old(1))
      BY <1>8, <3>1, Zenon
    <3>3. CASE k = 1
      <4>1. Old(1) = k + 1
        BY <3>3
      <4> QED
        BY <1>9, <1>10, <3>2, <3>3, <4>1
    <3>4. CASE k # 1
      <4>1. Old(1) = 1
        BY <3>4
      <4> QED
        BY <1>3, <1>10, <3>2, <3>4, <4>1
    <3> QED
      BY <3>3, <3>4
  <2>6. ASSUME NEW n \in 1..(L - 1)
        PROVE  prev'[q[n]] = At(q, n - 1) /\ next'[q[n]] = At(q, n + 1)
    <3> DEFINE m == Old(n)
    <3>1. m \in 1..L /\ q[n] = s[m] /\ s[m] \in Handle
      <4> HIDE DEF Old
      <4> QED
        BY <1>2, <1>6, <1>7
    <3>2. /\ At(q, n + 1) = At(s, Old(n + 1))
          /\ At(q, n - 1) = IF n = 1 THEN Null ELSE At(s, Old(n - 1))
      <4>1. n + 1 \in 0..L /\ n - 1 \in 0..L /\ n + 1 # 0 /\ (n = 1 <=> n - 1 = 0)
        BY <1>2
      <4> HIDE DEF Old
      <4> QED
        BY <1>8, <4>1
    <3>3. next'[s[m]] = IF m = k - 1 THEN At(s, k + 1) ELSE At(s, m + 1)
      <4> HIDE DEF m
      <4>1. s[m] = prev[i] <=> m = k - 1
        <5>1. k - 1 \in Int
          OBVIOUS
        <5>2. s[m] = At(s, k - 1) <=> m = k - 1
          BY <1>12, <3>1, <5>1
        <5> QED
          BY <1>9, <5>2
      <4>2. next'[s[m]] = IF s[m] = prev[i] THEN next[i] ELSE next[s[m]]
        BY <1>10, <3>1
      <4>3. next[s[m]] = At(s, m + 1)
        BY <1>3, <3>1
      <4> QED
        BY <1>9, <4>1, <4>2, <4>3
    <3>4. prev'[s[m]] = IF m = k + 1 THEN At(s, k - 1) ELSE At(s, m - 1)
      <4> HIDE DEF m
      <4>1. s[m] = next[i] <=> m = k + 1
        <5>1. k + 1 \in Int
          OBVIOUS
        <5>2. s[m] = At(s, k + 1) <=> m = k + 1
          BY <1>12, <3>1, <5>1
        <5> QED
          BY <1>9, <5>2
      <4>2. prev'[s[m]] = IF s[m] = next[i] THEN prev[i] ELSE prev[s[m]]
        BY <1>10, <3>1
      <4>3. prev[s[m]] = At(s, m - 1)
        BY <1>3, <3>1
      <4> QED
        BY <1>9, <4>1, <4>2, <4>3
    <3>5. (IF m = k - 1 THEN k + 1 ELSE m + 1) = Old(n + 1)
      BY <3>1
    <3>6. n # 1 => (IF m = k + 1 THEN k - 1 ELSE m - 1) = Old(n - 1)
      BY <3>1
    <3>7. n = 1 => (IF m = k + 1 THEN k - 1 ELSE m - 1) = 0
      BY <3>1
    <3>8. At(s, 0) = Null
      BY <1>5
    <3> HIDE DEF m, Old
    <3>9. next'[s[m]] = At(q, n + 1)
      BY <3>2, <3>3, <3>5
    <3>10. prev'[s[m]] = At(q, n - 1)
      BY <3>2, <3>4, <3>6, <3>7, <3>8
    <3> QED
      BY <3>1, <3>9, <3>10
  <2> QED
    BY <1>7, <2>1, <2>2, <2>3, <2>4, <2>5, <2>6 DEF Links
<1>14. Queue' = q
  BY <1>7, <1>13, QueueIsNext
<1>15. Links(Queue)'
  BY <1>13, <1>14
<1>16. nhandles' \in 0..Cardinality(Handle)
  BY <1>7, <1>10, <1>13, QueueLengthNext
<1>17. /\ next' \in [Handle -> Handle \cup {Null}] /\ prev' \in [Handle -> Handle \cup {Null}]
       /\ first' \in Handle \cup {Null}
  BY <1>2 DEF Unlink, TypeOK
<1> QED
  BY <1>2, <1>7, <1>10, <1>11, <1>14, <1>15, <1>16, <1>17

------------------------------------------------------------------------------
(* The initial states, and one step.                                        *)

\* VMK::construct: an empty queue.
LEMMA InitInv == Init => TypeOK /\ Inv
<1> SUFFICES ASSUME Init PROVE TypeOK /\ Inv
  OBVIOUS
<1>1. TypeOK
  <2>1. 0 \in 0..Cardinality(Handle) /\ 0 \in 0..2
    BY HandleCount
  <2>2. {buffering, risky, bad} \subseteq BOOLEAN
    BY DEF Init
  <2> QED
    BY <2>1, <2>2 DEF Init, TypeOK
<1>2. Allocated = {}
  BY DEF Init, Allocated
<1>3. <<>> \in Seq(Handle) /\ Len(<<>>) = 0
  BY EmptySeq
<1>4. Links(<<>>)
  BY <1>2, <1>3 DEF Init, Links, At
<1>5. Queue = <<>>
  BY <1>3, <1>4, QueueIs
<1> QED
  BY <1>1, <1>2, <1>3, <1>4, <1>5 DEF Init, Inv, Held, Clearing, Safe

\* The queue when no handle is linked or unlinked.
LEMMA QueueFrame ==
  ASSUME Queue \in Seq(Handle), Links(Queue), UNCHANGED <<queueVars, type>>
  PROVE  Queue' \in Seq(Handle) /\ Links(Queue)' /\ Allocated' = Allocated
<1>1. PICK s \in Seq(Handle) : s = Queue /\ Links(s)
  OBVIOUS
<1>2. Allocated' = Allocated
  BY DEF Allocated
<1>3. Links(s)'
  BY <1>1, <1>2 DEF Links, queueVars
<1>4. Queue' = s
  BY <1>3, QueueIsNext
<1>5. Links(Queue)'
  BY <1>3, <1>4
<1> QED
  BY <1>1, <1>2, <1>4, <1>5

\* The queue is empty exactly when nothing is allocated.
LEMMA EmptyQueue ==
  ASSUME Queue \in Seq(Handle), Links(Queue)
  PROVE  /\ nhandles = 0 => first = Null /\ Allocated = {}
         /\ nhandles # 0 => first \in Allocated
<1> DEFINE L == Len(Queue)
<1>1. L \in Nat /\ L = nhandles
  BY LenProperties DEF Links
<1>2. /\ first = At(Queue, 1)
      /\ \A n \in 1..L : Queue[n] \in Allocated
      /\ \A i \in Allocated : \E n \in 1..L : Queue[n] = i
  BY DEF Links
<1>3. CASE L = 0
  BY <1>1, <1>2, <1>3 DEF At
<1>4. CASE L # 0
  <2>1. 1 \in 1..L
    BY <1>1, <1>4
  <2> QED
    BY <1>1, <1>2, <1>4, <2>1 DEF At
<1> QED
  BY <1>3, <1>4

\* A non-blocking call links a new handle and gives it to one variable.
LEMMA StartStep ==
  ASSUME TypeOK, Inv, ~bad, NEW v \in Var, NEW i \in Handle, NEW kind \in {"requests", "container"},
         Start(v, i, kind)
  PROVE  TypeOK' /\ Inv'
<1> DEFINE t == IF buffering THEN "unset" ELSE kind
<1>1. /\ waiting = 0 /\ ch[v] = Null /\ type[i] = "free"
      /\ Link(i) /\ ch' = [ch EXCEPT ![v] = i] /\ type' = [type EXCEPT ![i] = t]
      /\ open' = [open EXCEPT ![i] = IF buffering THEN 0 ELSE IF kind = "container" THEN 2 ELSE 1]
      /\ contents' = [contents EXCEPT ![i] = ~buffering]
      /\ cleared' = "no" /\ UNCHANGED <<buffering, waiting, risky, bad>>
  BY DEF Start
<1>2. i \in Handle \ Allocated /\ t \in {"unset", "requests", "container"} /\ i # Null
  BY <1>1, HandleAssumption DEF Allocated
<1> HIDE DEF t
<1>3. /\ Queue' \in Seq(Handle) /\ Links(Queue)'
      /\ Allocated' = Allocated \cup {i}
      /\ nhandles' = nhandles + 1
      /\ nhandles' \in 0..Cardinality(Handle)
      /\ first' \in Handle
      /\ next' \in [Handle -> Handle \cup {Null}] /\ prev' \in [Handle -> Handle \cup {Null}]
  BY <1>1, <1>2, LinkStep DEF Inv
<1>4. TypeOK'
  <2>1. type' \in [Handle -> {"free", "unset", "requests", "container"}]
    BY <1>1, <1>2 DEF TypeOK
  <2>2. open' \in [Handle -> 0..2] /\ contents' \in [Handle -> BOOLEAN]
    BY <1>1 DEF TypeOK
  <2>3. ch' \in [Var -> Handle \cup {Null}]
    BY <1>1 DEF TypeOK
  <2> QED
    BY <1>1, <1>3, <2>1, <2>2, <2>3 DEF TypeOK
<1>5. Held'
  BY <1>1, <1>2, <1>3 DEF TypeOK, Inv, Held
<1>6. Clearing'
  BY <1>1 DEF TypeOK, Inv, Clearing
<1>7. Safe'
  BY <1>1, <1>2, <1>3 DEF TypeOK, Inv, Safe, t, Allocated
<1> QED
  BY <1>3, <1>4, <1>5, <1>6, <1>7 DEF Inv

\* What freeing an allocated handle does: its requests are complete unless an epoch or a test
\* of a container came first.
LEMMA DeleteStep ==
  ASSUME TypeOK, Inv, NEW i \in Allocated, Delete(i), open[i] = 0 \/ ~contents[i]
  PROVE  /\ Queue' \in Seq(Handle) /\ Links(Queue)'
         /\ Allocated' = Allocated \ {i}
         /\ nhandles' = nhandles - 1
         /\ nhandles' \in 0..Cardinality(Handle)
         /\ first' \in Handle \cup {Null}
         /\ next' \in [Handle -> Handle \cup {Null}] /\ prev' \in [Handle -> Handle \cup {Null}]
         /\ type' \in [Handle -> {"free", "unset", "requests", "container"}]
         /\ open' \in [Handle -> 0..2] /\ contents' \in [Handle -> BOOLEAN]
         /\ ~risky => /\ type[i] # "unset" /\ contents[i]
                      /\ \A j \in Allocated' : type'[j] # "unset" /\ contents'[j]
                      /\ \A j \in Handle \ Allocated' : open'[j] = 0
<1>1. /\ Unlink(i) /\ type' = [type EXCEPT ![i] = "free"]
      /\ contents' = [contents EXCEPT ![i] = FALSE] /\ open' = open
  BY DEF Delete
<1>2. /\ Queue' \in Seq(Handle) /\ Links(Queue)'
      /\ Allocated' = Allocated \ {i}
      /\ nhandles' = nhandles - 1
      /\ nhandles' \in 0..Cardinality(Handle)
      /\ first' \in Handle \cup {Null}
      /\ next' \in [Handle -> Handle \cup {Null}] /\ prev' \in [Handle -> Handle \cup {Null}]
  BY <1>1, UnlinkStep DEF Inv
<1>3. /\ type' \in [Handle -> {"free", "unset", "requests", "container"}]
      /\ open' \in [Handle -> 0..2] /\ contents' \in [Handle -> BOOLEAN]
  BY <1>1 DEF TypeOK
<1>4. ASSUME ~risky
      PROVE  /\ type[i] # "unset" /\ contents[i]
             /\ \A j \in Allocated' : type'[j] # "unset" /\ contents'[j]
             /\ \A j \in Handle \ Allocated' : open'[j] = 0
  <2>1. /\ \A j \in Allocated : type[j] # "unset" /\ contents[j]
        /\ \A j \in Handle \ Allocated : open[j] = 0
    BY <1>4 DEF Inv, Safe
  <2> QED
    BY <1>1, <1>2, <2>1 DEF TypeOK, Allocated
<1> QED
  BY <1>2, <1>3, <1>4

\* A handle of the program is freed, and its variable set to NULL.
LEMMA DeleteHeld ==
  ASSUME TypeOK, Inv, NEW v \in Var, ch[v] # Null, waiting = 0,
         Delete(ch[v]), open[ch[v]] = 0 \/ ~contents[ch[v]],
         ch' = [ch EXCEPT ![v] = Null], UNCHANGED <<buffering, waiting, cleared>>,
         bad' \in BOOLEAN, risky' = risky,
         ~risky /\ ~bad /\ type[ch[v]] # "unset" /\ contents[ch[v]] => ~bad'
  PROVE  TypeOK' /\ Inv'
<1>1. ch[v] \in Allocated
  BY DEF Inv, Held
<1>2. /\ Queue' \in Seq(Handle) /\ Links(Queue)'
      /\ Allocated' = Allocated \ {ch[v]}
      /\ nhandles' \in 0..Cardinality(Handle)
      /\ first' \in Handle \cup {Null}
      /\ next' \in [Handle -> Handle \cup {Null}] /\ prev' \in [Handle -> Handle \cup {Null}]
      /\ type' \in [Handle -> {"free", "unset", "requests", "container"}]
      /\ open' \in [Handle -> 0..2] /\ contents' \in [Handle -> BOOLEAN]
      /\ ~risky => /\ type[ch[v]] # "unset" /\ contents[ch[v]]
                   /\ \A j \in Allocated' : type'[j] # "unset" /\ contents'[j]
                   /\ \A j \in Handle \ Allocated' : open'[j] = 0
  BY <1>1, DeleteStep
<1>3. TypeOK'
  <2>1. ch' \in [Var -> Handle \cup {Null}]
    BY DEF TypeOK
  <2> QED
    BY <1>2, <2>1 DEF TypeOK
<1>4. Held'
  BY <1>2 DEF TypeOK, Inv, Held
<1>5. cleared # "outside"
  <2>1. nhandles # 0
    BY <1>1, EmptyQueue DEF Inv
  <2> QED
    BY <2>1 DEF Inv, Clearing
<1>6. Clearing'
  BY <1>5 DEF Clearing
<1>7. Safe'
  BY <1>2 DEF Inv, Safe
<1> QED
  BY <1>2, <1>3, <1>4, <1>6, <1>7 DEF Inv

\* commwait by the program frees the handle of a variable.
LEMMA WaitStep ==
  ASSUME TypeOK, Inv, NEW v \in Var, Wait(v)
  PROVE  TypeOK' /\ Inv'
<1>1. /\ waiting = 0 /\ ch[v] # Null /\ Delete(ch[v])
      /\ open[ch[v]] = 0 \/ ~contents[ch[v]]
      /\ ch' = [ch EXCEPT ![v] = Null] /\ UNCHANGED <<buffering, waiting, cleared, risky>>
      /\ bad' = (bad \/ type[ch[v]] = "unset" \/ ~contents[ch[v]])
  BY DEF Wait, CommWait
<1>2. bad' \in BOOLEAN /\ (~bad /\ type[ch[v]] # "unset" /\ contents[ch[v]] => ~bad')
  BY <1>1
<1> QED
  BY <1>1, <1>2, DeleteHeld

\* commtest frees a handle whose requests are complete, and keeps a container.
LEMMA TestStep ==
  ASSUME TypeOK, Inv, NEW v \in Var, Test(v)
  PROVE  TypeOK' /\ Inv'
<1> DEFINE i == ch[v]
<1>1. /\ waiting = 0 /\ i # Null
      /\ \/ open[i] = 0 \/ ~contents[i]
         \/ type[i] = "container" /\ buffering
      /\ risky' = (risky \/ type[i] = "container")
      /\ UNCHANGED <<buffering, waiting, cleared>>
  BY DEF Test
<1>2. i \in Allocated
  BY <1>1 DEF Inv, Held
<1>3. CASE type[i] = "container"
  <2>1. /\ contents' = [contents EXCEPT ![i] = FALSE]
        /\ bad' = (bad \/ ~contents[i]) /\ UNCHANGED <<queueVars, type, open, ch>>
        /\ risky' = TRUE
    BY <1>1, <1>3 DEF Test
  <2>2. /\ Queue' \in Seq(Handle) /\ Links(Queue)' /\ Allocated' = Allocated
    BY <2>1, QueueFrame DEF Inv
  <2>3. TypeOK'
    BY <1>1, <2>1 DEF TypeOK, queueVars
  <2>4. Held' /\ Clearing' /\ Safe'
    BY <1>1, <2>1, <2>2 DEF Inv, Held, Clearing, Safe, queueVars
  <2> QED
    BY <2>2, <2>3, <2>4 DEF Inv
<1>4. CASE type[i] # "container"
  <2>1. /\ Delete(i) /\ ch' = [ch EXCEPT ![v] = Null]
        /\ bad' = (bad \/ type[i] = "unset")
    BY <1>1, <1>4 DEF Test
  <2>2. bad' \in BOOLEAN /\ (~bad /\ type[i] # "unset" => ~bad')
    BY <2>1
  <2>3. risky' = risky
    BY <1>1, <1>4 DEF TypeOK
  <2> QED
    BY <1>1, <1>4, <2>1, <2>2, <2>3, DeleteHeld
<1> QED
  BY <1>3, <1>4

\* commqueuewait frees the first handle, which no variable holds any more.
LEMMA WaitFirstStep ==
  ASSUME TypeOK, Inv, WaitFirst
  PROVE  TypeOK' /\ Inv'
<1>1. /\ waiting > 0 /\ Delete(first)
      /\ (open[first] = 0 \/ ~contents[first])
      /\ waiting' = waiting - 1 /\ UNCHANGED <<ch, buffering, cleared, risky>>
      /\ bad' = (bad \/ type[first] = "unset" \/ ~contents[first])
  BY DEF WaitFirst, CommWait
<1>2. waiting = nhandles /\ ~buffering /\ (\A v \in Var : ch[v] = Null) /\ waiting \in Nat
  BY <1>1, HandleCount DEF Inv, Clearing, TypeOK
<1>3. first \in Allocated
  <2>1. nhandles # 0
    BY <1>1, <1>2
  <2> QED
    BY <2>1, EmptyQueue DEF Inv
<1>4. /\ Queue' \in Seq(Handle) /\ Links(Queue)'
      /\ Allocated' = Allocated \ {first}
      /\ nhandles' = nhandles - 1
      /\ nhandles' \in 0..Cardinality(Handle)
      /\ first' \in Handle \cup {Null}
      /\ next' \in [Handle -> Handle \cup {Null}] /\ prev' \in [Handle -> Handle \cup {Null}]
      /\ type' \in [Handle -> {"free", "unset", "requests", "container"}]
      /\ open' \in [Handle -> 0..2] /\ contents' \in [Handle -> BOOLEAN]
      /\ ~risky => /\ type[first] # "unset" /\ contents[first]
                   /\ \A j \in Allocated' : type'[j] # "unset" /\ contents'[j]
                   /\ \A j \in Handle \ Allocated' : open'[j] = 0
  <2>1. PICK i \in Allocated : i = first
    BY <1>3
  <2>2. Delete(i) /\ (open[i] = 0 \/ ~contents[i])
    BY <1>1, <2>1
  <2> QED
    BY <2>1, <2>2, DeleteStep
<1>5. waiting' = nhandles'
  BY <1>1, <1>2, <1>4
<1>6. TypeOK'
  BY <1>1, <1>4, <1>5 DEF TypeOK
<1>7. Held' /\ Clearing'
  BY <1>1, <1>2, <1>5 DEF Held, Clearing
<1>8. Safe'
  BY <1>1, <1>4 DEF Inv, Safe
<1> QED
  BY <1>4, <1>6, <1>7, <1>8 DEF Inv

\* commqueuewait begins: the program drops its handles.
LEMMA WaitAllStep ==
  ASSUME TypeOK, Inv, WaitAll
  PROVE  TypeOK' /\ Inv'
<1>1. /\ waiting = 0 /\ nhandles > 0
      /\ waiting' = IF buffering THEN 0 ELSE nhandles
      /\ ch' = [v \in Var |-> Null]
      /\ cleared' = IF buffering THEN "inside" ELSE "outside"
      /\ UNCHANGED <<first, nhandles, next, prev, type, open, contents, buffering, risky, bad>>
  BY DEF WaitAll, queueVars, handleVars
<1>2. /\ Queue' \in Seq(Handle) /\ Links(Queue)' /\ Allocated' = Allocated
  BY <1>1, QueueFrame DEF Inv, queueVars
<1>3. TypeOK'
  BY <1>1 DEF TypeOK
<1>4. Held' /\ Clearing' /\ Safe'
  BY <1>1, <1>2 DEF TypeOK, Inv, Held, Clearing, Safe
<1> QED
  BY <1>2, <1>3, <1>4 DEF Inv

\* Entering and leaving an epoch touches no handle.
LEMMA EpochStep ==
  ASSUME TypeOK, Inv, Epoch
  PROVE  TypeOK' /\ Inv'
<1>1. /\ waiting = 0 /\ buffering' = ~buffering /\ risky' = TRUE
      /\ UNCHANGED <<first, nhandles, next, prev, type, open, contents, ch, waiting, cleared, bad>>
  BY DEF Epoch, queueVars, handleVars
<1>2. /\ Queue' \in Seq(Handle) /\ Links(Queue)' /\ Allocated' = Allocated
  BY <1>1, QueueFrame DEF Inv, queueVars
<1>3. TypeOK'
  BY <1>1 DEF TypeOK
<1>4. Held' /\ Clearing' /\ Safe'
  BY <1>1, <1>2 DEF Inv, Held, Clearing, Safe
<1> QED
  BY <1>2, <1>3, <1>4 DEF Inv

\* MPI completes a request of an allocated handle only.
LEMMA CompleteStep ==
  ASSUME TypeOK, Inv, NEW i \in Handle, Complete(i)
  PROVE  TypeOK' /\ Inv'
<1>1. /\ open[i] > 0 /\ open' = [open EXCEPT ![i] = @ - 1]
      /\ UNCHANGED <<first, nhandles, next, prev, type, contents, ch, buffering, waiting,
                     cleared, risky, bad>>
  BY DEF Complete, queueVars
<1>2. /\ Queue' \in Seq(Handle) /\ Links(Queue)' /\ Allocated' = Allocated
  BY <1>1, QueueFrame DEF Inv, queueVars
<1>3. TypeOK'
  <2>1. open' \in [Handle -> 0..2]
    BY <1>1 DEF TypeOK
  <2> QED
    BY <1>1, <2>1 DEF TypeOK
<1>4. Held' /\ Clearing'
  BY <1>1, <1>2 DEF Inv, Held, Clearing
<1>5. Safe'
  BY <1>1, <1>2 DEF Inv, Safe, TypeOK
<1> QED
  BY <1>2, <1>3, <1>4, <1>5 DEF Inv

\* Every step keeps the invariant.
LEMMA Step == TypeOK /\ Inv /\ [Next]_vars => TypeOK' /\ Inv'
<1> SUFFICES ASSUME TypeOK, Inv, [Next]_vars PROVE TypeOK' /\ Inv'
  OBVIOUS
<1>1. ASSUME NEW v \in Var, NEW i \in Handle, NEW kind \in {"requests", "container"}, ~bad,
             Start(v, i, kind)
      PROVE  TypeOK' /\ Inv'
  BY <1>1, StartStep
<1>2. ASSUME NEW i \in Handle, Complete(i) PROVE TypeOK' /\ Inv'
  BY <1>2, CompleteStep
<1>3. ASSUME NEW v \in Var, Wait(v) PROVE TypeOK' /\ Inv'
  BY <1>3, WaitStep
<1>4. ASSUME NEW v \in Var, Test(v) PROVE TypeOK' /\ Inv'
  BY <1>4, TestStep
<1>5. CASE WaitAll
  BY <1>5, WaitAllStep
<1>6. CASE WaitFirst
  BY <1>6, WaitFirstStep
<1>7. CASE Epoch
  BY <1>7, EpochStep
<1>8. CASE UNCHANGED vars
  <2>1. UNCHANGED <<first, nhandles, next, prev, type, open, contents, ch, buffering, waiting,
                    cleared, risky, bad>>
    BY <1>8 DEF vars, queueVars, handleVars
  <2>2. /\ Queue' \in Seq(Handle) /\ Links(Queue)' /\ Allocated' = Allocated
    BY <2>1, QueueFrame DEF Inv, queueVars
  <2>3. TypeOK'
    BY <2>1 DEF TypeOK
  <2>4. Held' /\ Clearing' /\ Safe'
    BY <2>1, <2>2 DEF Inv, Held, Clearing, Safe
  <2> QED
    BY <2>2, <2>3, <2>4 DEF Inv
<1> QED
  BY <1>1, <1>2, <1>3, <1>4, <1>5, <1>6, <1>7, <1>8 DEF Next

------------------------------------------------------------------------------
(* The theorems.                                                            *)

\* The inductive invariant of the queue: it is the doubly linked list of the allocated handles,
\* the program's variables hold different ones of them, commqueuewait has a call left for each,
\* and a handle without its contents needs an epoch or a test of a container.
THEOREM QueueInv == Spec => [](TypeOK /\ Inv)
BY InitInv, Step, PTL DEF Spec

\* The queue's variables stay in their ranges: there are never more handles than addresses.
THEOREM QueueType == Spec => []TypeOK
BY QueueInv, PTL

\* Whatever is linked, tested, waited for and deleted in whatever order, firsthandle,
\* next_handle, prev_handle and nhandles describe one list: that of the allocated handles.
THEOREM ListHolds == Spec => []ListOK
<1>1. Inv => ListOK
  <2> SUFFICES ASSUME Inv PROVE ListOK
    OBVIOUS
  <2>1. Queue \in Seq(Handle) /\ Links(Queue)
    BY DEF Inv
  <2>2. Len(Queue) = nhandles
    BY <2>1 DEF Links
  <2>3. {Queue[n] : n \in 1..Len(Queue)} = Allocated
    BY <2>1 DEF Links
  <2>4. ASSUME NEW n \in 1..Len(Queue)
        PROVE  prev[Queue[n]] = IF n = 1 THEN Null ELSE Queue[n - 1]
    <3>1. Len(Queue) \in Nat
      BY <2>1, LenProperties
    <3>2. prev[Queue[n]] = At(Queue, n - 1)
      BY <2>1 DEF Links
    <3>3. n # 1 <=> n - 1 \in 1..Len(Queue)
      BY <3>1
    <3> QED
      BY <3>2, <3>3 DEF At
  <2> QED
    BY <2>2, <2>3, <2>4 DEF ListOK, Allocated
<1> QED
  BY <1>1, QueueInv, PTL

\* The program never holds a freed handle, nor one handle twice; and without epochs and tests
\* of containers no request is forgotten and no freed memory used.
THEOREM HandlesHold == Spec => []HandlesSound
<1>1. TypeOK /\ Inv => HandlesSound
  BY DEF TypeOK, Inv, Held, Safe, Allocated, HandlesSound
<1> QED
  BY <1>1, QueueInv, PTL

\* When commqueuewait has returned outside of an epoch, the queue is empty, whatever handles
\* were in it.
THEOREM WaitAllHolds == Spec => []WaitAllClears
<1>1. Inv => WaitAllClears
  BY EmptyQueue DEF Inv, Clearing, WaitAllClears
<1> QED
  BY <1>1, QueueInv, PTL
==============================================================================
