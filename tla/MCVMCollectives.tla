---------------------------- MODULE MCVMCollectives ----------------------------
EXTENDS VMCollectives

Blocking(name, root) == [name |-> name, root |-> root, nb |-> FALSE]
NonBlocking(name, root) == [name |-> name, root |-> root, nb |-> TRUE]

Scenario(n, calls, eager, dst, request, response) ==
  [npets |-> n, calls |-> calls, eager |-> eager, dst |-> dst,
   request |-> request, response |-> response]

\* The PET one up, around the VM.
Up(n) == [p \in 0..(n - 1) |-> (p + 1) % n]

Plain(n, calls, eager) == Scenario(n, calls, eager, Up(n), {}, {})

\* Every way to send to one other PET and receive from one.
Derangements(n) == LET P == 0..(n - 1) IN
                   {f \in [P -> P] : /\ \A p \in P : f[p] # p
                                     /\ \A p, q \in P : f[p] = f[q] => p = q}

\* All pairs, those from and to PET 0, those downwards.
All(n) == (0..(n - 1)) \X (0..(n - 1))
FromZero(n) == {c \in All(n) : c[1] = 0}
ToZero(n) == {c \in All(n) : c[2] = 0}
Downwards(n) == {c \in All(n) : c[1] > c[2]}

BlockingCalls == {Blocking("broadcast", 1), Blocking("scatter", 2), Blocking("scatterv", 0),
                  Blocking("gather", 1), Blocking("gatherv", 0), Blocking("allgatherv", 0),
                  Blocking("reduce", 2), Blocking("allreduce", 0), Blocking("sendrecv", 0)}

NonBlockingCalls == {NonBlocking("broadcast", 1), NonBlocking("scatter", 2),
                     NonBlocking("gather", 1), NonBlocking("allgather", 0),
                     NonBlocking("sendrecv", 0)}

\* One call after the other, the first of them blocking or not.
OneByOne == {Plain(3, <<c, d>>, FALSE) : c, d \in BlockingCalls}
Started == {Plain(3, <<c, d>>, FALSE) :
              c \in NonBlockingCalls, d \in NonBlockingCalls \cup {Blocking("scatter", 1)}}

Sendrecvs == {Scenario(4, <<Blocking("sendrecv", 0)>>, FALSE, f, {}, {}) : f \in Derangements(4)}

\* alltoall needs channels that keep a message.
Alltoalls == {Plain(3, <<Blocking("alltoall", 0), Blocking("alltoall", 0)>>, TRUE)}

Exchanges == {Scenario(4, <<Blocking("totalExchange", 0)>>, FALSE, Up(4), r, {}) :
                r \in {FromZero(4), ToZero(4), Downwards(4)}}
               \cup {Scenario(3, <<Blocking("totalExchange", 0)>>, FALSE, Up(3), All(3), {})}

\* With two PETs the one that asks is also the one that answers.
Questions == {Scenario(2, <<Blocking("totalExchange2", 0)>>, FALSE, Up(2), r, s) :
                r, s \in SUBSET (All(2) \ {<<0, 0>>, <<1, 1>>})}
               \cup {Scenario(3, <<Blocking("totalExchange2", 0)>>, FALSE, Up(3), r, s) :
                       r \in {All(3), FromZero(3)}, s \in {All(3), Downwards(3)}}

MCScenarios == OneByOne \cup Started \cup Sendrecvs \cup Alltoalls \cup Exchanges \cup Questions
==============================================================================
