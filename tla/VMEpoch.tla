------------------------------- MODULE VMEpoch --------------------------------
(***************************************************************************)
(* ESMF_VMEPOCH_BUFFER: between VMK::epochEnter and VMK::epochExit the     *)
(* non-blocking sends of a PET to one destination are collected in the     *)
(* stream of that destination, and leave as a single MPI message at the    *)
(* exit.  The first non-blocking receive from a source takes that message  *)
(* whole, and the receives of the epoch are served from it chunk by chunk. *)
(*                                                                         *)
(* PETs do not synchronize: a sender may be epochs ahead of a receiver.    *)
(* MPI reads the memory of the stream until the request completes, that is *)
(* until the message is received or (an eager MPI) copied away before.  A  *)
(* message is <<epoch, number>>; its tag stands for size and tag.          *)
(***************************************************************************)
EXTENDS Naturals, Sequences, FiniteSets

CONSTANTS PET,
          Count     \* Count[k][<<p, q>>]: messages from p to q in epoch k (the program)

Epochs == Len(Count)
Pair == PET \X PET

\* "no PET must send and receive within the same epoch"
ASSUME CountAssumption ==
  /\ Count \in Seq([Pair -> Nat])
  /\ \A k \in 1..Len(Count) : \A p, q, r \in PET :
       ~(Count[k][<<p, q>>] > 0 /\ Count[k][<<r, p>>] > 0)

VARIABLES epoch,      \* epoch[p]: "none", "buffer", or "final" after epochFinal
          no,         \* no[p]: number of epochs p has entered
          left,       \* left[x]: messages of pair x its sender has still to send in its epoch
          due,        \* due[x]: messages of pair x its receiver has still to receive
          sendFirst,  \* sendMap[..].firstFlag, stream (its memory and put position), mpireq
          memory,
          put,
          pending,
          recvFirst,  \* recvMap[..].firstFlag, streamBuffer from the next chunk on
          chunks,
          net,        \* net[x]: MPI messages of pair x not yet received, in order
          got,        \* got[x]: what the receives of pair x have delivered
          failed,     \* failed[p]: a receive of p returned "chunk size / tag incorrect"
          posted      \* posted[x]: number of MPI_Isends for pair x

petVars == <<epoch, no>>
sendVars == <<left, sendFirst, memory, put, pending, posted>>
recvVars == <<due, recvFirst, chunks, got, failed>>
vars == <<petVars, sendVars, recvVars, net>>

Tag(m) == m[2] % 2

\* The messages of pair x in epoch k, and those of each pair in the first n epochs.
MessagesOf(x, k) == [i \in 1..Count[k][x] |-> <<k, i>>]
Program[n \in 0..Epochs] ==
  [x \in Pair |-> IF n = 0 THEN <<>> ELSE Program[n - 1][x] \o MessagesOf(x, n)]

\* Mutant: a new stream does not start at its first position.
InitPutGarbage == /\ epoch = [p \in PET |-> "none"] /\ no = [p \in PET |-> 0]
                  /\ left = [x \in Pair |-> 0] /\ due = [x \in Pair |-> 0]
                  /\ sendFirst = [x \in Pair |-> TRUE] /\ recvFirst = [x \in Pair |-> TRUE]
                  /\ memory = [x \in Pair |-> <<>>] /\ put = [x \in Pair |-> 1]
                  /\ pending = [x \in Pair |-> FALSE]
                  /\ chunks = [x \in Pair |-> <<>>]
                  /\ net = [x \in Pair |-> <<>>]
                  /\ got = [x \in Pair |-> <<>>] /\ failed = [p \in PET |-> FALSE]
                  /\ posted = [x \in Pair |-> 0]

Init == /\ epoch = [p \in PET |-> "none"] /\ no = [p \in PET |-> 0]
        /\ left = [x \in Pair |-> 0] /\ due = [x \in Pair |-> 0]
        /\ sendFirst = [x \in Pair |-> TRUE] /\ recvFirst = [x \in Pair |-> TRUE]
        /\ memory = [x \in Pair |-> <<>>] /\ put = [x \in Pair |-> 0]
        /\ pending = [x \in Pair |-> FALSE]
        /\ chunks = [x \in Pair |-> <<>>]
        /\ net = [x \in Pair |-> <<>>]
        /\ got = [x \in Pair |-> <<>>] /\ failed = [p \in PET |-> FALSE]
        /\ posted = [x \in Pair |-> 0]

------------------------------------------------------------------------------
\* epochEnter and epochSetFirst: every buffer is due for its first action.
EpochEnter(p) ==
  /\ epoch[p] = "none" /\ no[p] < Epochs
  /\ epoch' = [epoch EXCEPT ![p] = "buffer"]
  /\ no' = [no EXCEPT ![p] = @ + 1]
  /\ left' = [x \in Pair |-> IF x[1] = p THEN Count[no[p] + 1][x] ELSE left[x]]
  /\ due' = [x \in Pair |-> IF x[2] = p THEN Count[no[p] + 1][x] ELSE due[x]]
  /\ sendFirst' = [x \in Pair |-> x[1] = p \/ sendFirst[x]]
  /\ recvFirst' = [x \in Pair |-> x[2] = p \/ recvFirst[x]]
  /\ UNCHANGED <<memory, put, pending, posted, chunks, got, failed, net>>

\* Write m at the put position of the stream of pair x.
Written(x, m) == SubSeq(memory[x], 1, put[x]) \o <<m>>
                   \o SubSeq(memory[x], put[x] + 2, Len(memory[x]))

\* Mutant: clear() does not wait.
ClearedNot(x) == TRUE

\* sendBuffer::clear returns: the transfer of an earlier epoch is complete.
Cleared(x) == ~pending[x]

\* VMK::send (non-blocking).  The first of an epoch waits in sendBuffer::clear for the
\* transfer of an earlier epoch.
Send(x) ==
  /\ epoch[x[1]] = "buffer" /\ left[x] > 0
  /\ sendFirst[x] => Cleared(x)
  /\ sendFirst' = [sendFirst EXCEPT ![x] = FALSE]
  /\ memory' = [memory EXCEPT ![x] = Written(x, <<no[x[1]], Count[no[x[1]]][x] - left[x] + 1>>)]
  /\ put' = [put EXCEPT ![x] = @ + 1]
  /\ left' = [left EXCEPT ![x] = @ - 1]
  /\ UNCHANGED <<petVars, pending, posted, recvVars, net>>

\* Mutant: every receive of an epoch probes for a message.
ProbedAlways(x) == net[x] # <<>>

\* The receive does not wait in MPI_Probe.
Probed(x) == recvFirst[x] => net[x] # <<>>

\* Mutant: the buffer pointer does not advance to the next chunk.
RestAll(buffer) == buffer

\* What is left of a buffer after its first chunk.
Rest(buffer) == Tail(buffer)

\* VMK::recv (non-blocking).  The first of an epoch probes for the message of the
\* source and receives it whole.
Recv(x) ==
  /\ epoch[x[2]] = "buffer" /\ due[x] > 0 /\ ~failed[x[2]]
  /\ Probed(x)
  /\ LET message == Head(net[x])
         buffer == IF ~recvFirst[x] THEN chunks[x]
                   ELSE IF message.copied THEN message.data
                   ELSE SubSeq(memory[x], 1, message.size)
         expected == <<no[x[2]], Count[no[x[2]]][x] - due[x] + 1>>
     IN /\ net' = [net EXCEPT ![x] = IF recvFirst[x] THEN Tail(@) ELSE @]
        /\ pending' = [pending EXCEPT ![x] = IF recvFirst[x] /\ ~message.copied THEN FALSE ELSE @]
        /\ IF buffer # <<>> /\ Tag(Head(buffer)) = Tag(expected)
           THEN /\ got' = [got EXCEPT ![x] = Append(@, Head(buffer))]
                /\ chunks' = [chunks EXCEPT ![x] = Rest(buffer)]
                /\ UNCHANGED failed
           ELSE /\ failed' = [failed EXCEPT ![x[2]] = TRUE]
                /\ chunks' = [chunks EXCEPT ![x] = buffer]
                /\ UNCHANGED got
  /\ recvFirst' = [recvFirst EXCEPT ![x] = FALSE]
  /\ due' = [due EXCEPT ![x] = @ - 1]
  /\ UNCHANGED <<petVars, left, sendFirst, memory, put, posted>>

\* Mutant: an empty stream is sent, too.
OutgoingAll(p) == {x \in Pair : x[1] = p}

\* The streams of p that are not empty.
Outgoing(p) == {x \in Pair : x[1] = p /\ put[x] > 0}

\* epochExit: one MPI_Isend for every stream that is not empty; its put position goes
\* back to the start, and ~keepAlloc drops the receive buffers.
EpochExit(p, keepAlloc) ==
  /\ epoch[p] = "buffer"
  /\ \A x \in Pair : (x[1] = p => left[x] = 0) /\ (x[2] = p => due[x] = 0)
  /\ epoch' = [epoch EXCEPT ![p] = "none"]
  /\ LET out == Outgoing(p) IN
     /\ net' = [x \in Pair |-> IF x \in out
                               THEN Append(net[x], [size |-> put[x], copied |-> FALSE, data |-> <<>>])
                               ELSE net[x]]
     /\ pending' = [x \in Pair |-> x \in out \/ pending[x]]
     /\ posted' = [x \in Pair |-> IF x \in out THEN posted[x] + 1 ELSE posted[x]]
     /\ put' = [x \in Pair |-> IF x \in out THEN 0 ELSE put[x]]
  /\ chunks' = [x \in Pair |-> IF x[2] = p /\ ~keepAlloc THEN <<>> ELSE chunks[x]]
  /\ recvFirst' = [x \in Pair |-> (x[2] = p /\ ~keepAlloc) \/ recvFirst[x]]
  /\ UNCHANGED <<no, left, sendFirst, memory, due, got, failed>>

\* epochFinal: wait for all outstanding transfers.
EpochFinal(p) ==
  /\ epoch[p] = "none" /\ no[p] = Epochs
  /\ \A q \in PET : ~pending[<<p, q>>]
  /\ epoch' = [epoch EXCEPT ![p] = "final"]
  /\ UNCHANGED <<no, sendVars, recvVars, net>>

\* MPI may copy a message and complete the request before the receive.
Copy(x) ==
  /\ \E i \in DOMAIN net[x] :
       /\ ~net[x][i].copied
       /\ net' = [net EXCEPT ![x][i] = [size |-> @.size, copied |-> TRUE,
                                        data |-> SubSeq(memory[x], 1, @.size)]]
  /\ pending' = [pending EXCEPT ![x] = FALSE]
  /\ UNCHANGED <<petVars, left, sendFirst, memory, put, posted, recvVars>>

------------------------------------------------------------------------------
Pet(p) == \/ EpochEnter(p) \/ EpochFinal(p)
          \/ \E q \in PET : Send(<<p, q>>) \/ Recv(<<q, p>>)
          \/ \E keepAlloc \in BOOLEAN : EpochExit(p, keepAlloc)

Next == \/ \E p \in PET : Pet(p)
        \/ \E x \in Pair : Copy(x)

Spec == Init /\ [][Next]_vars

\* Every PET is a running process whose program makes all its calls.  MPI need not copy.
FairSpec == Spec /\ \A p \in PET : WF_vars(Pet(p))

------------------------------------------------------------------------------
Message == {m \in (1..Epochs) \X Nat : \E x \in Pair : m[2] \in 1..Count[m[1]][x]}

\* The type invariant: control points, counters and flags stay in the ranges the code can
\* give them.
TypeOK == /\ epoch \in [PET -> {"none", "buffer", "final"}] /\ no \in [PET -> 0..Epochs]
          /\ left \in [Pair -> Nat] /\ due \in [Pair -> Nat]
          /\ sendFirst \in [Pair -> BOOLEAN] /\ recvFirst \in [Pair -> BOOLEAN]
          /\ memory \in [Pair -> Seq(Message)]
          /\ put \in [Pair -> Nat] /\ \A x \in Pair : put[x] <= Len(memory[x])
          /\ chunks \in [Pair -> Seq(Message)] /\ got \in [Pair -> Seq(Message)]
          /\ pending \in [Pair -> BOOLEAN] /\ failed \in [PET -> BOOLEAN]
          /\ posted \in [Pair -> 0..Epochs]
          /\ net \in [Pair -> Seq([size : Nat, copied : BOOLEAN, data : Seq(Message)])]

\* The receives of a pair deliver the messages of its sends, unchanged and in order,
\* however far the sender has gone on to write the next epoch into the same memory.
InOrder == \A x \in Pair : LET program == Program[no[x[2]]][x] IN
             /\ ~failed[x[2]]
             /\ got[x] = SubSeq(program, 1, Len(program) - due[x])

\* "A single message is sent between unique pairs of src-dst PETs" (in each epoch).
OneTransfer == \A x \in Pair : epoch[x[1]] # "buffer" =>
                 posted[x] = Cardinality({k \in 1..no[x[1]] : Count[k][x] > 0})

\* At most one transfer of a pair has not completed: the one memory of its stream is
\* enough, and mpireq is not overwritten while it is in use.
OneOutstanding == \A x \in Pair :
  /\ Cardinality({i \in DOMAIN net[x] : ~net[x][i].copied}) = IF pending[x] THEN 1 ELSE 0
  /\ pending[x] /\ epoch[x[1]] = "buffer" => put[x] = 0

\* Every PET gets through its epochs and its epochFinal.
AllFinal == <>(\A p \in PET : epoch[p] = "final")
==============================================================================
