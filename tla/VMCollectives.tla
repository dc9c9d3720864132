----------------------------- MODULE VMCollectives -----------------------------
(***************************************************************************)
(* The collective calls of VMK where they are made of point to point       *)
(* messages (VMs with threads, and every non-blocking call), and the       *)
(* exchange patterns ComPat and ComPat2.                                   *)
(*                                                                         *)
(* A call is, for each PET, a sequence of instructions: post a send, post  *)
(* a receive, wait for a handle, move local data.  A blocking send or      *)
(* receive is a post and a wait.  The messages from one PET to another all *)
(* have the same tag: the n-th send meets the n-th receive.  A wait for a  *)
(* send returns when the message is received; it may also return before    *)
(* that, when the channel has room to keep the message (an eager MPI       *)
(* message, the buffer of a shared memory channel), but only "eager"       *)
(* scenarios rely on it.                                                   *)
(***************************************************************************)
EXTENDS Integers, Sequences, SequencesExt

CONSTANTS NPets,      \* the most PETs a VM has
          BoostSize,  \* ComPat: the most messages posted at once
          Scenarios   \* what the PETs may do: records with the fields
                      \*   npets: the PETs of the VM are 0 .. npets-1
                      \*   calls: the calls, each [name, root, nb]
                      \*   eager: the channels surely keep one message
                      \*   dst: the PET each PET sends to in a sendrecv
                      \*   request: the pairs <<p, q>> with a message from p to q
                      \*   response: the pairs <<p, q>> such that p answers q's request

PET == 0..(NPets - 1)

ASSUME NPetsAssumption == NPets \in Nat \ {0} /\ BoostSize \in Nat \ {0}
ASSUME ScenarioAssumption ==
  \A s \in Scenarios :
    LET pets == 0..(s.npets - 1)
    IN /\ pets # {} /\ pets \subseteq PET
       /\ \A p \in pets : \E q \in pets \ {p} : s.dst[q] = p
       /\ s.request \cup s.response \subseteq pets \X pets

VARIABLES sc,     \* the scenario
          prog,   \* prog[p]: the instructions PET p executes in it
          pc,     \* pc[p]: the instruction PET p is at
          sends,  \* sends[<<p, q>>]: the messages from p to q that q has posted no receive for
          recvs,  \* recvs[<<p, q>>]: the receives q has posted and p has posted no message for
          open,   \* open[p]: the handles p has posted and not waited for
          mem     \* mem[p]: what p has written to its memory, a function of the locations

vars == <<sc, prog, pc, sends, recvs, open, mem>>

Pairs == PET \X PET

\* A location is <<call, array, index>>.  What PET p finds there before anything is written:
\* a size for the sizes of requests and responses, a value of its own elsewhere.
Size(nonzero) == <<"size", IF nonzero THEN 1 ELSE 0>>

Initial(scn, p, loc) ==
  CASE loc[2] = "requestSize"  -> Size(<<p, loc[3]>> \in scn.request)
    [] loc[2] = "responseSize" -> Size(<<p, loc[3]>> \in scn.response)
    [] loc[2] = "none"         -> Size(FALSE)
    [] OTHER                   -> <<loc[1], p, loc[2], loc[3]>>

------------------------------------------------------------------------------
\* Instructions.  "at" lists locations, "when" those that have to hold a nonzero size.
\* A handle is <<call, ...>>.
Instruction(op, peer, at, h) == [op |-> op, peer |-> peer, at |-> at, h |-> h, when |-> {}]

Isend(q, at, h) == <<Instruction("send", q, at, h)>>
Irecv(q, at, h) == <<Instruction("recv", q, at, h)>>
Wait(h) == <<Instruction("wait", 0, <<>>, h)>>
Copy2(k, from, to, from2, to2) == <<Instruction("copy", 0, <<from, from2, to, to2>>, <<k>>)>>
Copy(k, from, to) == <<Instruction("copy", 0, <<from, to>>, <<k>>)>>

\* *to = the sum, minimum or maximum over the locations "from".
Combine(k, from, to) == <<Instruction("combine", 0, Append(from, to), <<k>>)>>

\* if (*loc > 0) { code }
If(loc, code) == [j \in DOMAIN code |-> [code[j] EXCEPT !.when = @ \cup {loc}]]

\* for (i=a; i<b; i++) { Code(i) }, and the same downwards from a to above b
For(a, b, Code(_)) == FlattenSeq([j \in 1..(b - a) |-> Code(a + j - 1)])
ForDown(a, b, Code(_)) == FlattenSeq([j \in 1..(a - b) |-> Code(a - j + 1)])

\* A send or receive of call k, as the call is non-blocking or not; the non-blocking one
\* is waited for later.  The root tells the handles of the gathers of an allgather apart.
Send(k, root, q, at, nb) ==
  LET h == <<k, root, q>> IN Isend(q, at, h) \o (IF nb THEN <<>> ELSE Wait(h))
Recv(k, root, q, at, nb) ==
  LET h == <<k, root, q>> IN Irecv(q, at, h) \o (IF nb THEN <<>> ELSE Wait(h))

In(k, i) == <<k, "in", i>>
Out(k, i) == <<k, "out", i>>

------------------------------------------------------------------------------
\* The calls, as the code of PET p for call k.

Broadcast(n, p, k, root, at, nb) ==
  IF p = root
  THEN For(0, n, LAMBDA i : IF i = p THEN <<>> ELSE Send(k, root, i, at, nb))
  ELSE Recv(k, root, root, at, nb)

Scatter(n, p, k, root, nb) ==
  LET SendTo(i) == Send(k, root, i, <<In(k, i)>>, nb)
  IN IF p = root
     THEN For(0, root, SendTo) \o Copy(k, In(k, p), Out(k, p)) \o For(root + 1, n, SendTo)
     ELSE Recv(k, root, root, <<Out(k, p)>>, nb)

\* The local root hides the argument: the root is always PET 0.
Scatterv(n, p, k, root) == Scatter(n, p, k, 0, FALSE)

\* Mutant: the root does not skip its own chunk.
GatherShift(n, p, k, root, array, nb) ==
  IF p = root
  THEN For(0, root, LAMBDA i : Recv(k, root, i, <<<<k, array, i>>>>, nb))
         \o Copy(k, In(k, p), <<k, array, p>>)
         \o For(root + 1, n, LAMBDA i : Recv(k, root, i, <<<<k, array, i - 1>>>>, nb))
  ELSE Send(k, root, root, <<In(k, p)>>, nb)

\* Every PET's chunk ends up on the root, in the array given.
Gather(n, p, k, root, array, nb) ==
  LET RecvFrom(i) == Recv(k, root, i, <<<<k, array, i>>>>, nb)
  IN IF p = root
     THEN For(0, root, RecvFrom) \o Copy(k, In(k, p), <<k, array, p>>) \o For(root + 1, n, RecvFrom)
     ELSE Send(k, root, root, <<In(k, p)>>, nb)

Gatherv(n, p, k, root) == Gather(n, p, k, 0, "out", FALSE)

\* The non-blocking one.
Allgather(n, p, k) == For(0, n, LAMBDA root : Gather(n, p, k, root, "out", TRUE))

\* With the segments of "out" one after the other, as the broadcast takes them to be.
Allgatherv(n, p, k) ==
  Gather(n, p, k, 0, "out", FALSE)
    \o Broadcast(n, p, k, 0, [i \in 1..n |-> Out(k, i - 1)], FALSE)

CombineAll(n, p, k) == Combine(k, [i \in 1..n |-> <<k, "temp", i - 1>>], Out(k, p))

Reduce(n, p, k, root) ==
  Gather(n, p, k, root, "temp", FALSE) \o (IF p = root THEN CombineAll(n, p, k) ELSE <<>>)

Allreduce(n, p, k) ==
  For(0, n, LAMBDA root : Gather(n, p, k, root, "temp", FALSE)) \o CombineAll(n, p, k)

\* Also alltoallv.
Alltoall(n, p, k) ==
  LET SendTo(i) == Send(k, 0, i, <<In(k, i)>>, FALSE)
      RecvFrom(i) == Recv(k, 0, i, <<Out(k, i)>>, FALSE)
  IN For(0, p, SendTo) \o Copy(k, In(k, p), Out(k, p)) \o For(p + 1, n, RecvFrom)
       \o For(p + 1, n, SendTo) \o For(0, p, RecvFrom)

\* Mutant: everybody sends first.
SendrecvSendFirst(scn, p, k, nb) ==
  LET src == CHOOSE q \in 0..(scn.npets - 1) : scn.dst[q] = p
  IN Send(k, "dst", scn.dst[p], <<In(k, scn.dst[p])>>, nb)
       \o Recv(k, "src", src, <<Out(k, src)>>, nb)

Sendrecv(scn, p, k, nb) ==
  LET dst == scn.dst[p]
      src == CHOOSE q \in 0..(scn.npets - 1) : scn.dst[q] = p
      ToDst == Send(k, "dst", dst, <<In(k, dst)>>, nb)
      FromSrc == Recv(k, "src", src, <<Out(k, src)>>, nb)
  IN IF p < dst THEN FromSrc \o ToDst ELSE ToDst \o FromSrc

------------------------------------------------------------------------------
\* ComPat::totalExchange: at most BoostSize messages at a time.
TotalExchange(scn, p, k) ==
  LET n == scn.npets
      Has(q, r) == <<q, r>> \in scn.request
      Buffer(q) == <<k, "recvBuffer", q>>
      Post(ii) == LET q == ii % n IN
                  IF Has(q, p) THEN Irecv(q, <<Buffer(q)>>, <<k, "recv", q>>) ELSE <<>>
      Ship(ii) == LET q == ii % n IN
                  IF Has(p, q) THEN Isend(q, <<In(k, q)>>, <<k, "send", q>>) ELSE <<>>
      Process(ii) == LET q == ii % n IN
                     IF Has(q, p) THEN Wait(<<k, "recv", q>>) \o Copy(k, Buffer(q), Out(k, q))
                     ELSE <<>>
      Finish(ii) == LET q == ii % n IN
                    IF Has(p, q) THEN Wait(<<k, "send", q>>) ELSE <<>>
      offset == 2 * p + n  \* sendIndexOffset
      Round(j) == LET start == p + 1 + j * BoostSize
                      end == IF start + BoostSize > p + n THEN p + n
                             ELSE start + BoostSize
                  IN For(start, end, Post) \o ForDown(offset - start, offset - end, Ship)
                       \o (IF j = 0 THEN Copy(k, In(k, p), Out(k, p)) ELSE <<>>)
                       \o For(start, end, Process) \o ForDown(offset - start, offset - end, Finish)
  IN For(0, (n + BoostSize - 2) \div BoostSize, Round)

\* The variables of ComPat2::totalExchange.
Var(k, name) == <<k, name, 0>>

sendCommh(k, j) == <<k, "sendCommh", j>>

\* Mutant: nobody waits until the size of the request is sent.
FinishRoundEarly(k) == If(Var(k, "sendResponseSize"), Wait(sendCommh(k, 4)))
                         \o If(Var(k, "recvRequestSize"), Wait(sendCommh(k, 3)))

\* The last waits of a round.
FinishRound(k) == Wait(sendCommh(k, 1))
                    \o If(Var(k, "sendResponseSize"), Wait(sendCommh(k, 4)))
                    \o If(Var(k, "recvRequestSize"), Wait(sendCommh(k, 3)))

\* ComPat2::totalExchange: in round i, p asks responsePet and answers requestPet.  A
\* request is answered with what it said.
TotalExchange2(scn, p, k) ==
  LET n == scn.npets
      recvRequestSize == Var(k, "recvRequestSize")
      sendRequestSize == Var(k, "sendRequestSize")
      recvResponseSize == Var(k, "recvResponseSize")
      sendResponseSize == Var(k, "sendResponseSize")
      recvBuffer1 == Var(k, "recvBuffer1")
      recvBuffer2 == Var(k, "recvBuffer2")
      recvCommh(j) == <<k, "recvCommh", j>>
      Round(i) ==
        LET requestPet == (n + p - i) % n
            responsePet == (p + i) % n
            handled == <<k, "handled", requestPet>>
        IN Copy2(k, Var(k, "none"), recvResponseSize, Var(k, "none"), sendResponseSize)
             \o Irecv(requestPet, <<recvRequestSize>>, recvCommh(1))
             \o Copy(k, <<k, "requestSize", responsePet>>, sendRequestSize)
             \o Isend(responsePet, <<sendRequestSize>>, sendCommh(k, 1))
             \o Wait(recvCommh(1))
             \o If(recvRequestSize, Irecv(requestPet, <<recvBuffer1>>, recvCommh(1)))
             \o If(sendRequestSize, Isend(responsePet, <<In(k, responsePet)>>, sendCommh(k, 2))
                                      \o Irecv(responsePet, <<recvResponseSize>>, recvCommh(2)))
             \o If(recvRequestSize, Wait(recvCommh(1))
                     \o Copy2(k, recvBuffer1, handled,
                              <<k, "responseSize", requestPet>>, sendResponseSize)
                     \o Isend(requestPet, <<sendResponseSize>>, sendCommh(k, 3)))
             \o If(sendRequestSize, Wait(recvCommh(2)) \o Wait(sendCommh(k, 2)))
             \o If(recvResponseSize, Irecv(responsePet, <<recvBuffer2>>, recvCommh(2)))
             \o If(sendResponseSize, Isend(requestPet, <<handled>>, sendCommh(k, 4)))
             \o If(recvResponseSize, Wait(recvCommh(2))
                                       \o Copy(k, recvBuffer2, Out(k, responsePet)))
             \o FinishRound(k)
  IN Copy(k, In(k, p), Out(k, p)) \o For(1, n, Round)

------------------------------------------------------------------------------
\* The program of PET p: its calls, and then the waits for the non-blocking ones.
Code(scn, p, k) ==
  LET c == scn.calls[k]
      n == scn.npets
  IN
  CASE c.name = "broadcast"      -> Broadcast(n, p, k, c.root, <<In(k, c.root)>>, c.nb)
    [] c.name = "scatter"        -> Scatter(n, p, k, c.root, c.nb)
    [] c.name = "scatterv"       -> Scatterv(n, p, k, c.root)
    [] c.name = "gather"         -> Gather(n, p, k, c.root, "out", c.nb)
    [] c.name = "gatherv"        -> Gatherv(n, p, k, c.root)
    [] c.name = "allgather"      -> Allgather(n, p, k)
    [] c.name = "allgatherv"     -> Allgatherv(n, p, k)
    [] c.name = "reduce"         -> Reduce(n, p, k, c.root)
    [] c.name = "allreduce"      -> Allreduce(n, p, k)
    [] c.name = "alltoall"       -> Alltoall(n, p, k)
    [] c.name = "sendrecv"       -> Sendrecv(scn, p, k, c.nb)
    [] c.name = "totalExchange"  -> TotalExchange(scn, p, k)
    [] c.name = "totalExchange2" -> TotalExchange2(scn, p, k)

Posts(code) == SelectSeq(code, LAMBDA i : i.op \in {"send", "recv"})

Program(scn, p) ==
  LET n == Len(scn.calls)
      WaitFor(k) == IF scn.calls[k].nb
                    THEN FlattenSeq([j \in DOMAIN Posts(Code(scn, p, k)) |->
                                       Wait(Posts(Code(scn, p, k))[j].h)])
                    ELSE <<>>
  IN For(1, n + 1, LAMBDA k : Code(scn, p, k)) \o For(1, n + 1, WaitFor)

------------------------------------------------------------------------------
\* What PET p finds at a location.
Value(p, loc) == IF loc \in DOMAIN mem[p] THEN mem[p][loc] ELSE Initial(sc, p, loc)
Values(p, at) == [j \in DOMAIN at |-> Value(p, at[j])]

\* Memory m once the values are put where the receive says.
Put(m, at, values) ==
  LET put == {j \in DOMAIN at : j \in DOMAIN values}
      Index(loc) == CHOOSE j \in put : at[j] = loc
  IN [loc \in DOMAIN m \cup {at[j] : j \in put} |->
        IF \E j \in put : at[j] = loc THEN values[Index(loc)] ELSE m[loc]]

Init == /\ sc \in Scenarios
        /\ prog = [p \in PET |-> IF p < sc.npets THEN Program(sc, p) ELSE <<>>]
        /\ pc = [p \in PET |-> 1]
        /\ sends = [c \in Pairs |-> <<>>] /\ recvs = [c \in Pairs |-> <<>>]
        /\ open = [p \in PET |-> {}]
        /\ mem = [p \in PET |-> [loc \in {} |-> 0]]

Running(p) == pc[p] <= Len(prog[p])
Here(p) == prog[p][pc[p]]

\* The instruction at hand is to be executed.
Chosen(p) == \A loc \in Here(p).when : Value(p, loc) # Size(FALSE)

At(p, op) == Running(p) /\ Here(p).op = op /\ Chosen(p)

Advance(p) == pc' = [pc EXCEPT ![p] = @ + 1]
Opened(p) == open' = [open EXCEPT ![p] = @ \cup {Here(p).h}]

\* The block of an if is passed over.
Skip(p) == /\ Running(p) /\ ~Chosen(p)
           /\ pc' = [pc EXCEPT ![p] = CHOOSE n \in @..(Len(prog[p]) + 1) :
                       /\ n <= Len(prog[p]) => prog[p][n].when # Here(p).when
                       /\ \A j \in @..(n - 1) : prog[p][j].when = Here(p).when]
           /\ UNCHANGED <<sc, prog, sends, recvs, open, mem>>

\* A message goes to the first receive posted for it, or stays where it is.
PostSend(p) ==
  /\ At(p, "send")
  /\ LET i == Here(p)
         c == <<p, i.peer>>
     IN IF recvs[c] # <<>>
        THEN /\ mem' = [mem EXCEPT ![i.peer] = Put(@, Head(recvs[c]).at, Values(p, i.at))]
             /\ recvs' = [recvs EXCEPT ![c] = Tail(@)]
             /\ UNCHANGED sends
        ELSE /\ sends' = [sends EXCEPT ![c] = Append(@, [at |-> i.at, h |-> i.h, kept |-> <<>>])]
             /\ UNCHANGED <<mem, recvs>>
  /\ Opened(p) /\ Advance(p)
  /\ UNCHANGED <<sc, prog>>

\* Mutant: the receive does not look for a message that is there.
PostRecvBlind(p) ==
  /\ At(p, "recv")
  /\ recvs' = [recvs EXCEPT ![<<Here(p).peer, p>>] =
                  Append(@, [at |-> Here(p).at, h |-> Here(p).h])]
  /\ Opened(p) /\ Advance(p)
  /\ UNCHANGED <<sc, prog, sends, mem>>

\* A receive takes the first message posted, the data from where the sender has it now
\* unless the channel keeps it.
PostRecv(p) ==
  /\ At(p, "recv")
  /\ LET i == Here(p)
         c == <<i.peer, p>>
         m == Head(sends[c])
     IN IF sends[c] # <<>>
        THEN /\ mem' = [mem EXCEPT ![p] = Put(@, i.at, IF m.kept # <<>> THEN m.kept
                                                       ELSE Values(i.peer, m.at))]
             /\ sends' = [sends EXCEPT ![c] = Tail(@)]
             /\ UNCHANGED recvs
        ELSE /\ recvs' = [recvs EXCEPT ![c] = Append(@, [at |-> i.at, h |-> i.h])]
             /\ UNCHANGED <<mem, sends>>
  /\ Opened(p) /\ Advance(p)
  /\ UNCHANGED <<sc, prog>>

Unsent(p, h) == {q \in PET : \E j \in DOMAIN sends[<<p, q>>] : sends[<<p, q>>][j].h = h}
Unreceived(p, h) == {q \in PET : \E j \in DOMAIN recvs[<<q, p>>] : recvs[<<q, p>>][j].h = h}

Closed(p) == open' = [open EXCEPT ![p] = @ \ {Here(p).h}]

\* The message has been received; a handle that is not in use is no handle to wait for.
WaitDone(p) == /\ At(p, "wait")
               /\ Unsent(p, Here(p).h) = {} /\ Unreceived(p, Here(p).h) = {}
               /\ Closed(p) /\ Advance(p)
               /\ UNCHANGED <<sc, prog, sends, recvs, mem>>

\* The channel keeps the message until it is received.
Kept(p, m) == IF m.h = Here(p).h THEN [at |-> m.at, h |-> <<>>, kept |-> Values(p, m.at)] ELSE m

WaitKept(p) ==
  /\ At(p, "wait")
  /\ \E q \in Unsent(p, Here(p).h) :
       sends' = [sends EXCEPT ![<<p, q>>] = [j \in DOMAIN @ |-> Kept(p, @[j])]]
  /\ Closed(p) /\ Advance(p)
  /\ UNCHANGED <<sc, prog, recvs, mem>>

Move(p) == /\ At(p, "copy")
           /\ LET at == Here(p).at
                  n == Len(at) \div 2
              IN mem' = [mem EXCEPT ![p] =
                           Put(@, SubSeq(at, n + 1, 2 * n), Values(p, SubSeq(at, 1, n)))]
           /\ Advance(p)
           /\ UNCHANGED <<sc, prog, sends, recvs, open>>

Reduction(p) == /\ At(p, "combine")
                /\ LET from == Front(Here(p).at) IN
                   mem' = [mem EXCEPT ![p] = Put(@, <<Last(Here(p).at)>>, <<Values(p, from)>>)]
                /\ Advance(p)
                /\ UNCHANGED <<sc, prog, sends, recvs, open>>

Finished == \A p \in PET : ~Running(p)

Step(p) == \/ Skip(p) \/ PostSend(p) \/ PostRecv(p) \/ WaitDone(p) \/ Move(p) \/ Reduction(p)

Next == \/ \E p \in PET : Step(p) \/ WaitKept(p)
        \/ Finished /\ UNCHANGED vars

Spec == Init /\ [][Next]_vars

\* The channel to q holds one message only, the one p waits to be rid of.
OneKept(p) == /\ sc.eager /\ At(p, "wait")
              /\ \A q \in Unsent(p, Here(p).h) : Len(sends[<<p, q>>]) = 1
              /\ WaitKept(p)

\* As long as some PET can execute its instruction one of them does, and a channel of an
\* eager scenario keeps one message.  (Every step of a PET changes its pc.)
FairSpec == Spec /\ WF_pc(\E p \in PET : Step(p) \/ OneKept(p))

------------------------------------------------------------------------------
\* The type invariant: a message and a receive that could meet have met.
TypeOK == /\ \A p \in PET : pc[p] \in 1..(Len(prog[p]) + 1)
          /\ \A c \in Pairs : sends[c] = <<>> \/ recvs[c] = <<>>
          /\ \A p \in PET : \A h \in open[p] : h[1] \in DOMAIN sc.calls

\* PET p has returned from call k, and has waited for it if it is non-blocking.
Returned(p, k) == \A j \in pc[p]..Len(prog[p]) : prog[p][j].h[1] # k

\* What call k is to leave in the memory of PET p: a function of the locations.
Result(p, k) ==
  LET c == sc.calls[k]
      root == c.root
      Sent(q, i) == Initial(sc, q, In(k, i))
      Own(to) == [loc \in {Out(k, p)} |-> to]
      All(Has(_), Of(_)) == [loc \in {Out(k, q) : q \in {r \in PET : Has(r)}} |-> Of(loc[3])]
      Every(q) == q < sc.npets
      Asked(q) == q = p \/ (<<p, q>> \in sc.request /\ <<q, p>> \in sc.response)
      Told(q) == q = p \/ <<q, p>> \in sc.request
      Onto(q) == q < sc.npets /\ sc.dst[q] = p
      ToMe(q) == Sent(q, p)
      Theirs(q) == Sent(q, q)
      Nothing == [loc \in {} |-> 0]
  IN CASE c.name = "broadcast" -> IF p = root THEN Nothing
                                  ELSE [loc \in {In(k, root)} |-> Sent(root, root)]
       [] c.name \in {"scatter", "scatterv"} -> Own(Sent(root, p))
       [] c.name \in {"gather", "gatherv"} ->
            IF p = root THEN All(Every, Theirs) ELSE Nothing
       [] c.name \in {"allgather", "allgatherv"} -> All(Every, Theirs)
       [] c.name \in {"reduce", "allreduce"} ->
            IF c.name = "allreduce" \/ p = root
            THEN Own([i \in 1..sc.npets |-> Sent(i - 1, i - 1)]) ELSE Nothing
       [] c.name = "alltoall" -> All(Every, ToMe)
       [] c.name = "sendrecv" -> All(Onto, ToMe)
       [] c.name = "totalExchange" -> All(Told, ToMe)
       [] c.name = "totalExchange2" -> All(Asked, LAMBDA q : Sent(p, q))

\* What arrives is what the call promises, at any time, and when a PET has returned from
\* a call everything the call promises has arrived.
Delivered ==
  \A p \in 0..(sc.npets - 1) : \A k \in DOMAIN sc.calls :
    LET result == Result(p, k) IN
    /\ \A loc \in DOMAIN result \cap DOMAIN mem[p] : mem[p][loc] = result[loc]
    /\ Returned(p, k) => DOMAIN result \subseteq DOMAIN mem[p]

\* No handle is posted again before it is waited for, and none is left when its call has
\* returned: no message in flight loses its handle, its buffer or the variable it goes to.
HandlesWaited ==
  \A p \in PET : /\ At(p, "send") \/ At(p, "recv") => Here(p).h \notin open[p]
                 /\ \A h \in open[p] : ~Returned(p, h[1])

\* Every PET returns from all its calls, in every scenario without help from channels that
\* keep messages, or with room for one message in those that need it.
AllReturn == <>Finished
==============================================================================
