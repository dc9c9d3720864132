------------------------------ MODULE CommQueue -------------------------------
(***************************************************************************)
(* The communication handles of one PET.  A non-blocking call with a NULL  *)
(* handle allocates one and links it at the end of the PET's queue, a      *)
(* doubly linked list.  commwait and commtest free what is complete and    *)
(* unlink and delete the handle; commqueuewait does that for all.  Inside  *)
(* ESMF_VMEPOCH_BUFFER a call links a handle but posts no request and      *)
(* leaves the type of the new handle unset, and commwait does nothing.     *)
(***************************************************************************)
EXTENDS Naturals, Sequences, FiniteSets

CONSTANTS Handle,     \* addresses of handles
          Null,
          Var         \* the program's variables that hold handles

ASSUME HandleAssumption == IsFiniteSet(Handle) /\ Null \notin Handle

VARIABLES first, nhandles,  \* the queue
          next, prev,       \* next_handle and prev_handle of each handle
          type,             \* of each handle; "free": not allocated
          open,             \* requests of the handle (and its subhandles) not yet complete
          contents,         \* its mpireq or handles array (with subhandles) is allocated
          ch,               \* the program's variables
          buffering,        \* epoch = epochBuffer
          waiting,          \* commqueuewait: calls of commwait still to make
          cleared,          \* history: where the program last waited for all ("inside" or
                            \* "outside" of an epoch), "no" when it has started more since
          risky,            \* history: an epoch was entered, or a container tested
          bad               \* freed or uninitialized memory was used: the model stops

queueVars == <<first, nhandles, next, prev>>
handleVars == <<type, open, contents>>
vars == <<queueVars, handleVars, ch, buffering, waiting, cleared, risky, bad>>

\* Mutant: the counter of handles is not initialized.
InitGarbage == /\ first = Null /\ nhandles = Cardinality(Handle) + 1
               /\ next = [i \in Handle |-> Null] /\ prev = [i \in Handle |-> Null]
               /\ type = [i \in Handle |-> "free"]
               /\ open = [i \in Handle |-> 0] /\ contents = [i \in Handle |-> FALSE]
               /\ ch = [v \in Var |-> Null]
               /\ buffering = FALSE /\ waiting = 0 /\ cleared = "no"
               /\ risky = FALSE /\ bad = FALSE

Init == /\ first = Null /\ nhandles = 0
        /\ next = [i \in Handle |-> Null] /\ prev = [i \in Handle |-> Null]
        /\ type = [i \in Handle |-> "free"]
        /\ open = [i \in Handle |-> 0] /\ contents = [i \in Handle |-> FALSE]
        /\ ch = [v \in Var |-> Null]
        /\ buffering = FALSE /\ waiting = 0 /\ cleared = "no"
        /\ risky = FALSE /\ bad = FALSE

\* The n-th handle met from firsthandle on, following next_handle (a queue that goes round in
\* a circle is followed for one more handle than there are).
Nth[n \in 1..Cardinality(Handle) + 1] ==
  IF n = 1 THEN first ELSE IF Nth[n - 1] = Null THEN Null ELSE next[Nth[n - 1]]
Queue == [n \in 1..Cardinality({m \in DOMAIN Nth : Nth[m] # Null}) |-> Nth[n]]

------------------------------------------------------------------------------
\* commqueueitem_link
Link(i) ==
  IF nhandles = 0
  THEN /\ first' = i
       /\ prev' = [prev EXCEPT ![i] = Null] /\ next' = [next EXCEPT ![i] = Null]
       /\ nhandles' = nhandles + 1
  ELSE LET last == Queue[Len(Queue)] IN
       /\ next' = [next EXCEPT ![last] = i, ![i] = Null]
       /\ prev' = [prev EXCEPT ![i] = last]
       /\ nhandles' = nhandles + 1
       /\ UNCHANGED first

\* Mutant: the next handle is not linked back.
UnlinkNoBackLink(i) ==
  /\ nhandles' = nhandles - 1
  /\ first' = IF prev[i] = Null THEN next[i] ELSE first
  /\ next' = [j \in Handle |-> IF j = prev[i] THEN next[i] ELSE next[j]]
  /\ UNCHANGED prev

\* commqueueitem_unlink of a handle that is in the queue
Unlink(i) ==
  /\ nhandles' = nhandles - 1
  /\ first' = IF prev[i] = Null THEN next[i] ELSE first
  /\ next' = [j \in Handle |-> IF j = prev[i] THEN next[i] ELSE next[j]]
  /\ prev' = [j \in Handle |-> IF j = next[i] THEN prev[i] ELSE prev[j]]

\* A non-blocking call: one request (send, recv), or a container of two (sendrecv, which is
\* left out inside of an epoch).
Start(v, i, kind) ==
  /\ waiting = 0 /\ ch[v] = Null /\ type[i] = "free"
  /\ kind = "container" => ~buffering
  /\ Link(i)
  /\ ch' = [ch EXCEPT ![v] = i]
  /\ type' = [type EXCEPT ![i] = IF buffering THEN "unset" ELSE kind]
  /\ open' = [open EXCEPT ![i] = IF buffering THEN 0 ELSE IF kind = "container" THEN 2 ELSE 1]
  /\ contents' = [contents EXCEPT ![i] = ~buffering]
  /\ cleared' = "no"
  /\ UNCHANGED <<buffering, waiting, risky, bad>>

\* MPI completes a request.
Complete(i) == /\ open[i] > 0
               /\ open' = [open EXCEPT ![i] = @ - 1]
               /\ UNCHANGED <<queueVars, type, contents, ch, buffering, waiting, cleared,
                               risky, bad>>

\* Free the contents, unlink and delete.
Delete(i) == /\ Unlink(i)
             /\ contents' = [contents EXCEPT ![i] = FALSE]
             /\ type' = [type EXCEPT ![i] = "free"]
             /\ UNCHANGED open

\* commwait of handle i outside an epoch: returns when its requests are complete.  A type
\* that is unset selects any branch, the ones that free arrays that never were, too.
CommWait(i) == /\ open[i] = 0 \/ ~contents[i]
               /\ Delete(i)
               /\ bad' = (bad \/ type[i] = "unset" \/ ~contents[i])

\* commwait by the program
Wait(v) == /\ waiting = 0 /\ ch[v] # Null /\ ~buffering
           /\ CommWait(ch[v])
           /\ ch' = [ch EXCEPT ![v] = Null]
           /\ UNCHANGED <<buffering, waiting, cleared, risky>>

\* Mutant: the completion flag of MPI_Test is not looked at.
TestIncomplete(v) == LET i == ch[v] IN
           /\ waiting = 0 /\ i # Null
           /\ IF type[i] = "container"
              THEN /\ contents' = [contents EXCEPT ![i] = FALSE]
                   /\ bad' = (bad \/ ~contents[i])
                   /\ UNCHANGED <<queueVars, type, open, ch>>
              ELSE /\ Delete(i)
                   /\ ch' = [ch EXCEPT ![v] = Null]
                   /\ bad' = (bad \/ type[i] = "unset")
           /\ risky' = (risky \/ type[i] = "container")
           /\ UNCHANGED <<buffering, waiting, cleared>>

\* commtest: a completed request is freed, unlinked and deleted.  Of a container the
\* contents are waited for (not inside an epoch, where commwait returns at once) and freed,
\* but its localCompleteFlag stays 0: it is neither unlinked nor deleted.
Test(v) == LET i == ch[v] IN
           /\ waiting = 0 /\ i # Null
           /\ \/ open[i] = 0 \/ ~contents[i]
              \/ type[i] = "container" /\ buffering
           /\ IF type[i] = "container"
              THEN /\ contents' = [contents EXCEPT ![i] = FALSE]
                   /\ bad' = (bad \/ ~contents[i])
                   /\ UNCHANGED <<queueVars, type, open, ch>>
              ELSE /\ Delete(i)
                   /\ ch' = [ch EXCEPT ![v] = Null]
                   /\ bad' = (bad \/ type[i] = "unset")
           /\ risky' = (risky \/ type[i] = "container")
           /\ UNCHANGED <<buffering, waiting, cleared>>

\* Mutant: commqueuewait leaves the last handle.
WaitAllButOne == /\ waiting = 0 /\ nhandles > 0
                 /\ waiting' = IF buffering THEN 0 ELSE nhandles - 1
                 /\ ch' = [v \in Var |-> Null]
                 /\ cleared' = IF buffering THEN "inside" ELSE "outside"
                 /\ UNCHANGED <<queueVars, handleVars, buffering, risky, bad>>

\* commqueuewait: as many calls of commwait for the first handle as there are handles;
\* inside an epoch none of them does anything.  The program drops its handles.
WaitAll == /\ waiting = 0 /\ nhandles > 0
           /\ waiting' = IF buffering THEN 0 ELSE nhandles
           /\ ch' = [v \in Var |-> Null]
           /\ cleared' = IF buffering THEN "inside" ELSE "outside"
           /\ UNCHANGED <<queueVars, handleVars, buffering, risky, bad>>

WaitFirst == /\ waiting > 0
             /\ CommWait(first)
             /\ waiting' = waiting - 1
             /\ UNCHANGED <<ch, buffering, cleared, risky>>

\* epochEnter(epochBuffer) and epochExit
Epoch == /\ waiting = 0
         /\ buffering' = ~buffering
         /\ risky' = TRUE
         /\ UNCHANGED <<queueVars, handleVars, ch, waiting, cleared, bad>>

Next == /\ ~bad
        /\ \/ \E v \in Var, i \in Handle, kind \in {"requests", "container"} :
                Start(v, i, kind)
           \/ \E i \in Handle : Complete(i)
           \/ \E v \in Var : Wait(v) \/ Test(v)
           \/ WaitAll \/ WaitFirst \/ Epoch

Spec == Init /\ [][Next]_vars

------------------------------------------------------------------------------
\* The type invariant: control points, counters and flags stay in the ranges the code can
\* give them.
TypeOK == /\ first \in Handle \cup {Null} /\ nhandles \in 0..Cardinality(Handle)
          /\ next \in [Handle -> Handle \cup {Null}] /\ prev \in [Handle -> Handle \cup {Null}]
          /\ type \in [Handle -> {"free", "unset", "requests", "container"}]
          /\ open \in [Handle -> 0..2] /\ contents \in [Handle -> BOOLEAN]
          /\ ch \in [Var -> Handle \cup {Null}]
          /\ cleared \in {"no", "inside", "outside"}
          /\ {buffering, risky, bad} \subseteq BOOLEAN /\ waiting \in 0..Cardinality(Handle)

\* The queue is a proper doubly linked list of nhandles handles: walking it from
\* firsthandle ends, meets each allocated handle once and no freed one, and prev_handle
\* leads back.
ListOK == /\ Len(Queue) = nhandles
          /\ {Queue[n] : n \in 1..Len(Queue)} = {i \in Handle : type[i] # "free"}
          /\ \A n \in 1..Len(Queue) :
               prev[Queue[n]] = IF n = 1 THEN Null ELSE Queue[n - 1]

\* A handle the program holds is allocated and its own; and as long as the program neither
\* uses ESMF_VMEPOCH_BUFFER nor tests a container, no request is forgotten before it is
\* complete, and no freed or uninitialized memory is used.
HandlesSound == /\ \A v \in Var : ch[v] # Null => type[ch[v]] # "free"
                /\ \A v, w \in Var : ch[v] = ch[w] /\ ch[v] # Null => v = w
                /\ ~risky => /\ \A i \in Handle :
                                  open[i] > 0 => type[i] # "free" /\ contents[i]
                             /\ ~bad

\* Waiting for all handles outside of an epoch clears them all, those started inside of an
\* epoch and containers already tested included (unless that ended the program).
WaitAllClears ==
  cleared = "outside" /\ waiting = 0 => first = Null /\ nhandles = 0

\* Waiting for all handles clears them all, also inside of an epoch, where the example of the
\* reference manual does so (ESMF_VMNonBlockingEx.F90).
WaitAllClearsInEpoch ==
  cleared # "no" /\ waiting = 0 => first = Null /\ nhandles = 0

\* A handle whose inside contents commwait or commtest has freed is unlinked and deleted
\* by the same call.
TestDeletes == \A i \in Handle : type[i] \in {"requests", "container"} => contents[i]
==============================================================================
