------------------------------- MODULE VMThread -------------------------------
(***************************************************************************)
(* The life of a thread-based VM: VMK::startup creates its threads (vmkt), *)
(* every VMK::enter releases and VMK::exit catches them, VMK::shutdown     *)
(* joins them.  A PET of the parent VM either spawns PETs of the child VM  *)
(* (user threads), or contributes its cores to one of them, or neither.  A *)
(* contributor has two service threads: a blocker that stays away until    *)
(* the cores come back, and a sigcatcher that awaits the signal which says *)
(* so and wakes up the blocker the message after the signal names.         *)
(*                                                                         *)
(* Locks are abstracted to who can take them.  A thread holds its mut1 (and*)
(* a blocker its mut_extra1) and the parent holds mut0 and mut_extra2 of   *)
(* its threads, except while they wait on the condition variable of that   *)
(* mutex; whoever signals takes the mutex, signals and unlocks: one step.  *)
(***************************************************************************)
EXTENDS Naturals, Sequences, FiniteSets, FiniteSetsExt, SequencesExt

CONSTANTS PET,         \* PETs of the parent VM (numbers: contributors are notified in order)
          Pid,         \* Pid[p]: the process of p
          Spawned,     \* Spawned[p]: the sequence of child PETs p spawns
          To,          \* To[k]: the child PET that contributor k gives its cores to
          Rounds,      \* bound: number of enter/exit cycles
          ExitLast,    \* FALSE: shutdown follows the last enter without an exit
          MpiMultiple, \* the MPI thread level is MPI_THREAD_MULTIPLE
          Queued       \* VM_SIG1 is a real-time signal (SIGRTMIN) and is queued

Contributor == DOMAIN To
Child == UNION {ToSet(Spawned[p]) : p \in PET}

ASSUME PetAssumption == /\ PET \subseteq Nat /\ IsFiniteSet(PET)
                        /\ Contributor \subseteq PET /\ Rounds \in Nat
\* VMK::startup numbers the child PETs in the order in which it spawns them.
ASSUME SpawnedAssumption ==
  /\ \A p \in PET : Spawned[p] \in Seq(Child)
  /\ \A p, q \in PET : \A i \in DOMAIN Spawned[p], j \in DOMAIN Spawned[q] :
       Spawned[p][i] = Spawned[q][j] => p = q /\ i = j
ASSUME ToAssumption == /\ To \in [Contributor -> Child]
                       /\ \A k \in Contributor : Spawned[k] = <<>>
ASSUME FlagAssumption == {ExitLast, MpiMultiple, Queued} \subseteq BOOLEAN

Blocker(k) == <<"blocker", k>>
Catcher(k) == <<"catcher", k>>
Thread == ({"child"} \X Child) \cup ({"blocker", "catcher"} \X Contributor)

\* The threads p creates, in the order it handles them.
Own(p) == IF p \in Contributor THEN <<Blocker(p), Catcher(p)>>
          ELSE [i \in DOMAIN Spawned[p] |-> <<"child", Spawned[p][i]>>]

From(c) == {k \in Contributor : To[k] = c}
Spawner(c) == CHOOSE p \in PET : c \in ToSet(Spawned[p])

VARIABLES pc, at, round,   \* each PET: where it is, the thread it is at, cycles entered
          hello,           \* hello[k]: "released" messages on their way to k's spawner
          tpc,             \* each thread: where it is
          ended, released, \* flag (wrap up) and released of each vmkt
          ran,             \* ran[c]: how often c's user code has completed
          todo,            \* todo[c]: the contributors c has still to notify
          sig,             \* sig[i]: pending VM_SIG1 of process i
          mail,            \* mail[k]: messages on their way that name the blocker of k
          target           \* target[k]: the blocker the sigcatcher of k was told to wake

petVars == <<pc, at, round, hello>>
vmktVars == <<tpc, ended, released>>
workVars == <<ran, todo, sig, mail, target>>
vars == <<petVars, vmktVars, workVars>>

Init == /\ pc = [p \in PET |-> "create"] /\ at = [p \in PET |-> 1]
        /\ round = [p \in PET |-> 0]
        /\ hello = [k \in Contributor |-> 0]
        /\ tpc = [v \in Thread |-> "none"]
        /\ ended = [v \in Thread |-> FALSE] /\ released = [v \in Thread |-> FALSE]
        /\ ran = [c \in Child |-> 0] /\ todo = [c \in Child |-> {}]
        /\ sig = [i \in {Pid[p] : p \in PET} |-> 0]
        /\ mail = [k \in Contributor |-> 0]
        /\ target = [k \in Contributor |-> k]

Goto(p, label) == pc' = [pc EXCEPT ![p] = label]
Run(v, label) == tpc' = [tpc EXCEPT ![v] = label]
MoreOwn(p) == at[p] <= Len(Own(p))
This(p) == Own(p)[at[p]]

\* mut1 of v is free: the parent can take it and signal cond1.
Mut1Free(v) == tpc[v] \in {"born", "waiting"}

\* The parent of v waits on the condition variable of v that "label" stands for.
ParentIn(v, label) == \E p \in PET : pc[p] = label /\ MoreOwn(p) /\ This(p) = v
Wake(v, label) == pc' = [p \in PET |-> IF pc[p] \in {"sync1", "sync2", "catch", "joinCatch"}
                                             /\ MoreOwn(p) /\ This(p) = v
                                       THEN label ELSE pc[p]]

------------------------------------------------------------------------------
\* VMK::startup: vmkt_create for each thread, with two synchronizations.
Create(p) == /\ pc[p] = "create" /\ MoreOwn(p)
             /\ Run(This(p), "born")
             /\ Goto(p, "sync1")
             /\ UNCHANGED <<at, round, hello, ended, released, workVars>>

\* back-sync #1 is over; the parent waits on cond_extra2.
Created1(p) == /\ pc[p] = "synced1"
               /\ Goto(p, "sync2")
               /\ UNCHANGED <<at, round, hello, vmktVars, workVars>>

Created2(p) == /\ pc[p] = "synced2"
               /\ at' = [at EXCEPT ![p] = @ + 1]
               /\ Goto(p, "create")
               /\ UNCHANGED <<round, hello, vmktVars, workVars>>

Started(p) == /\ pc[p] = "create" /\ ~MoreOwn(p)
              /\ Goto(p, "out")
              /\ UNCHANGED <<at, round, hello, vmktVars, workVars>>

\* VMK::enter.
Enter(p) == /\ pc[p] = "out" /\ round[p] < Rounds
            /\ round' = [round EXCEPT ![p] = @ + 1]
            /\ at' = [at EXCEPT ![p] = 1]
            /\ Goto(p, IF Spawned[p] = <<>> THEN "release" ELSE "listen")
            /\ UNCHANGED <<hello, vmktVars, workVars>>

\* Mutant: a spawner does not listen whether its contributors have released.
ListenNot(p) == /\ pc[p] = "listen"
                /\ Goto(p, "release")
                /\ UNCHANGED <<at, round, hello, vmktVars, workVars>>

\* A spawner first receives a message of every contributor.
Listen(p) == /\ pc[p] = "listen"
             /\ LET K == {k \in Contributor : Spawner(To[k]) = p} IN
                /\ \A k \in K : hello[k] > 0
                /\ hello' = [k \in Contributor |-> IF k \in K THEN hello[k] - 1 ELSE hello[k]]
             /\ Goto(p, "release")
             /\ UNCHANGED <<at, round, vmktVars, workVars>>

\* vmkt_release of the next thread: the signal is lost unless the thread waits for it.
Release(p) == /\ pc[p] = "release" /\ MoreOwn(p) /\ Mut1Free(This(p))
              /\ tpc' = [tpc EXCEPT ![This(p)] = IF @ = "waiting" THEN "released" ELSE @]
              /\ released' = [released EXCEPT ![This(p)] = TRUE]
              /\ at' = [at EXCEPT ![p] = @ + 1]
              /\ UNCHANGED <<pc, round, hello, ended, workVars>>

\* A contributor tells its spawner; enter returns.
Entered(p) == /\ pc[p] = "release" /\ ~MoreOwn(p)
              /\ hello' = [k \in Contributor |-> IF k = p THEN hello[k] + 1 ELSE hello[k]]
              /\ Goto(p, IF round[p] = Rounds /\ ~ExitLast THEN "out" ELSE "in")
              /\ UNCHANGED <<at, round, vmktVars, workVars>>

\* VMK::exit: vmkt_catch of each thread, in order.
Exit(p) == /\ pc[p] = "in"
           /\ at' = [at EXCEPT ![p] = 1]
           /\ Goto(p, IF Own(p) = <<>> THEN "barrier" ELSE "catch")
           /\ UNCHANGED <<round, hello, vmktVars, workVars>>

\* Mutant: exit catches only the first thread.
CaughtFirst(p) == /\ pc[p] = "caught"
                  /\ released' = [released EXCEPT ![This(p)] = FALSE]
                  /\ Goto(p, "barrier")
                  /\ UNCHANGED <<at, round, hello, tpc, ended, workVars>>

Caught(p) == /\ pc[p] = "caught"
             /\ released' = [released EXCEPT ![This(p)] = FALSE]
             /\ at' = [at EXCEPT ![p] = @ + 1]
             /\ Goto(p, IF at[p] < Len(Own(p)) THEN "catch" ELSE "barrier")
             /\ UNCHANGED <<round, hello, tpc, ended, workVars>>

\* Mutant: exit does not wait for the other PETs.
BarrierNot(p) == /\ pc[p] = "barrier"
                 /\ Goto(p, "out")
                 /\ UNCHANGED <<at, round, hello, vmktVars, workVars>>

\* threadbarrier among the PETs of one process (see VMBarrier).
Barrier(p) == /\ pc[p] = "barrier"
              /\ \A q \in PET : Pid[q] = Pid[p] =>
                   \/ round[q] > round[p]
                   \/ round[q] = round[p] /\ pc[q] \in {"barrier", "out", "join", "down"}
              /\ Goto(p, "out")
              /\ UNCHANGED <<at, round, hello, vmktVars, workVars>>

\* VMK::shutdown: vmkt_join of each thread; a thread still released is caught first.
Shutdown(p) == /\ pc[p] = "out" /\ round[p] = Rounds
               /\ at' = [at EXCEPT ![p] = 1]
               /\ Goto(p, "join")
               /\ UNCHANGED <<round, hello, vmktVars, workVars>>

JoinCatch(p) == /\ pc[p] = "join" /\ MoreOwn(p) /\ released[This(p)]
                /\ Goto(p, "joinCatch")
                /\ UNCHANGED <<at, round, hello, vmktVars, workVars>>

JoinCaught(p) == /\ pc[p] = "joinCaught"
                 /\ released' = [released EXCEPT ![This(p)] = FALSE]
                 /\ Goto(p, "join")
                 /\ UNCHANGED <<at, round, hello, tpc, ended, workVars>>

JoinSignal(p) == /\ pc[p] = "join" /\ MoreOwn(p) /\ ~released[This(p)] /\ ~ended[This(p)]
                 /\ Mut1Free(This(p))
                 /\ ended' = [ended EXCEPT ![This(p)] = TRUE]
                 /\ tpc' = [tpc EXCEPT ![This(p)] = IF @ = "waiting" THEN "released" ELSE @]
                 /\ UNCHANGED <<petVars, released, workVars>>

Join(p) == /\ pc[p] = "join" /\ MoreOwn(p) /\ tpc[This(p)] = "over"
           /\ at' = [at EXCEPT ![p] = @ + 1]
           /\ UNCHANGED <<pc, round, hello, vmktVars, workVars>>

Down(p) == /\ pc[p] = "join" /\ ~MoreOwn(p)
           /\ Goto(p, "down")
           /\ UNCHANGED <<at, round, hello, vmktVars, workVars>>

------------------------------------------------------------------------------
\* Every thread: back-sync #1, lock mut1 and mut_extra1, construct, back-sync #2.
Sync1(v) == /\ tpc[v] = "born" /\ ParentIn(v, "sync1")
            /\ Wake(v, "synced1")
            /\ Run(v, "locked")
            /\ UNCHANGED <<at, round, hello, ended, released, workVars>>

Sync2(v) == /\ tpc[v] = "locked" /\ ParentIn(v, "sync2")
            /\ Wake(v, "synced2")
            /\ Run(v, "loop")
            /\ UNCHANGED <<at, round, hello, ended, released, workVars>>

\* The catch/release loop: wait on cond1.
Wait(v) == /\ tpc[v] = "loop"
           /\ Run(v, "waiting")
           /\ UNCHANGED <<petVars, ended, released, workVars>>

WrapUp(v) == /\ tpc[v] = "released" /\ ended[v]
             /\ Run(v, "over")
             /\ UNCHANGED <<petVars, ended, released, workVars>>

\* Signal cond0: the thread gets mut0 only when its parent is in vmkt_catch.
Finish(v) == /\ tpc[v] = "finish"
             /\ \/ ParentIn(v, "catch") /\ Wake(v, "caught")
                \/ ParentIn(v, "joinCatch") /\ Wake(v, "joinCaught")
             /\ Run(v, "loop")
             /\ UNCHANGED <<at, round, hello, ended, released, workVars>>

------------------------------------------------------------------------------
\* vmk_spawn: the user code of child PET c.
Begin(c) == LET v == <<"child", c>> IN
            /\ tpc[v] = "released" /\ ~ended[v]
            /\ Run(v, "user")
            /\ UNCHANGED <<petVars, ended, released, workVars>>

End(c) == LET v == <<"child", c>> IN
          /\ tpc[v] = "user"
          /\ ran' = [ran EXCEPT ![c] = @ + 1]
          /\ todo' = [todo EXCEPT ![c] = From(c)]
          /\ Run(v, "notify")
          /\ UNCHANGED <<petVars, ended, released, sig, mail, target>>

\* kill(pid, VM_SIG1) to the process of the next contributor.
Kill(c) == LET v == <<"child", c>>
               i == Pid[Min(todo[c])] IN
           /\ tpc[v] = "notify" /\ todo[c] # {}
           /\ sig' = [sig EXCEPT ![i] = IF Queued THEN @ + 1 ELSE 1]
           /\ Run(v, "send")
           /\ UNCHANGED <<petVars, ended, released, ran, todo, mail, target>>

\* MPI_Send of the blocker, under mut0 unless MPI is fully thread-safe.
Send(c) == LET v == <<"child", c>> IN
           /\ tpc[v] = "send"
           /\ MpiMultiple \/ ParentIn(v, "catch") \/ ParentIn(v, "joinCatch")
           /\ mail' = [mail EXCEPT ![Min(todo[c])] = @ + 1]
           /\ Run(v, "sending")
           /\ UNCHANGED <<petVars, ended, released, ran, todo, sig, target>>

\* MPI may return at once or only when the message is received.
Sent(c, eager) == LET v == <<"child", c>> IN
                  /\ tpc[v] = "sending"
                  /\ eager \/ mail[Min(todo[c])] = 0
                  /\ todo' = [todo EXCEPT ![c] = @ \ {Min(todo[c])}]
                  /\ Run(v, "notify")
                  /\ UNCHANGED <<petVars, ended, released, ran, sig, mail, target>>

Notified(c) == LET v == <<"child", c>> IN
               /\ tpc[v] = "notify" /\ todo[c] = {}
               /\ Run(v, "finish")
               /\ UNCHANGED <<petVars, ended, released, workVars>>

------------------------------------------------------------------------------
\* vmk_sigcatcher: sigwait, then MPI_Recv from any process.
SigWait(k) == /\ tpc[Catcher(k)] = "released" /\ ~ended[Catcher(k)]
              /\ sig[Pid[k]] > 0
              /\ sig' = [sig EXCEPT ![Pid[k]] = @ - 1]
              /\ Run(Catcher(k), "recv")
              /\ UNCHANGED <<petVars, ended, released, ran, todo, mail, target>>

\* Mutant: the message that names the blocker is left in the queue (a probe).
RecvProbe(k, b) == /\ tpc[Catcher(k)] = "recv"
                   /\ Pid[b] = Pid[k] /\ mail[b] > 0
                   /\ target' = [target EXCEPT ![k] = b]
                   /\ Run(Catcher(k), "wake")
                   /\ UNCHANGED <<petVars, ended, released, ran, todo, sig, mail>>

Recv(k, b) == /\ tpc[Catcher(k)] = "recv"
              /\ Pid[b] = Pid[k] /\ mail[b] > 0
              /\ mail' = [mail EXCEPT ![b] = @ - 1]
              /\ target' = [target EXCEPT ![k] = b]
              /\ Run(Catcher(k), "wake")
              /\ UNCHANGED <<petVars, ended, released, ran, todo, sig>>

\* Mutant: the sigcatcher wakes up the blocker of its own PET.
WakeOwnBlocker(k) == LET b == Blocker(k) IN
                     /\ tpc[Catcher(k)] = "wake"
                     /\ tpc[b] \in {"born", "block", "awake"}
                     /\ tpc' = [tpc EXCEPT ![b] = IF @ = "block" THEN "awake" ELSE @,
                                           ![Catcher(k)] = "finish"]
                     /\ UNCHANGED <<petVars, ended, released, workVars>>

\* Lock mut_extra1 of the blocker, signal cond_extra1, unlock.
WakeBlocker(k) == LET b == Blocker(target[k]) IN
                  /\ tpc[Catcher(k)] = "wake"
                  /\ tpc[b] \in {"born", "block", "awake"}
                  /\ tpc' = [tpc EXCEPT ![b] = IF @ = "block" THEN "awake" ELSE @,
                                        ![Catcher(k)] = "finish"]
                  /\ UNCHANGED <<petVars, ended, released, workVars>>

\* vmk_block: wait on cond_extra1.
Block(k) == /\ tpc[Blocker(k)] = "released" /\ ~ended[Blocker(k)]
            /\ Run(Blocker(k), "block")
            /\ UNCHANGED <<petVars, ended, released, workVars>>

Unblock(k) == /\ tpc[Blocker(k)] = "awake"
              /\ Run(Blocker(k), "finish")
              /\ UNCHANGED <<petVars, ended, released, workVars>>

------------------------------------------------------------------------------
Pet(p) == \/ Create(p) \/ Created1(p) \/ Created2(p) \/ Started(p)
          \/ Enter(p) \/ Listen(p) \/ Release(p) \/ Entered(p)
          \/ Exit(p) \/ Caught(p) \/ Barrier(p)
          \/ Shutdown(p) \/ JoinCatch(p) \/ JoinCaught(p) \/ JoinSignal(p) \/ Join(p) \/ Down(p)

Vmkt(v) == Sync1(v) \/ Sync2(v) \/ Wait(v) \/ WrapUp(v) \/ Finish(v)

UserThread(c) == \/ Vmkt(<<"child", c>>)
                 \/ Begin(c) \/ End(c) \/ Kill(c) \/ Send(c) \/ Notified(c)
                 \/ \E eager \in BOOLEAN : Sent(c, eager)

BlockerThread(k) == Vmkt(Blocker(k)) \/ Block(k) \/ Unblock(k)

CatcherThread(k) == \/ Vmkt(Catcher(k))
                    \/ SigWait(k) \/ WakeBlocker(k) \/ \E b \in Contributor : Recv(k, b)

Next == \/ \E p \in PET : Pet(p)
        \/ \E c \in Child : UserThread(c)
        \/ \E k \in Contributor : BlockerThread(k) \/ CatcherThread(k)

Spec == Init /\ [][Next]_vars

\* The operating system runs every thread that can run, the user code of a child PET
\* returns, and MPI delivers.
FairSpec == /\ Spec
            /\ \A p \in PET : WF_vars(Pet(p))
            /\ \A c \in Child : WF_vars(UserThread(c))
            /\ \A k \in Contributor : WF_vars(BlockerThread(k)) /\ WF_vars(CatcherThread(k))

------------------------------------------------------------------------------
\* The type invariant: control points, counters and flags stay in the ranges the code can
\* give them.
TypeOK == /\ pc \in [PET -> {"create", "sync1", "synced1", "sync2", "synced2", "out", "listen",
                             "release", "in", "catch", "caught", "barrier", "join", "joinCatch",
                             "joinCaught", "down"}]
          /\ at \in [PET -> Nat] /\ \A p \in PET : at[p] \in 1..(Len(Own(p)) + 1)
          /\ round \in [PET -> 0..Rounds]
          /\ hello \in [Contributor -> 0..1]
          /\ tpc \in [Thread -> {"none", "born", "locked", "loop", "waiting", "released", "over",
                                 "user", "notify", "send", "sending", "finish", "recv", "wake",
                                 "block", "awake"}]
          /\ ended \in [Thread -> BOOLEAN] /\ released \in [Thread -> BOOLEAN]
          /\ ran \in [Child -> 0..Rounds] /\ todo \in [Child -> SUBSET Contributor]
          /\ sig \in [{Pid[p] : p \in PET} -> 0..Cardinality(Contributor)]
          /\ mail \in [Contributor -> 0..1] /\ target \in [Contributor -> Contributor]

\* The cycles p has completed: it is past the exit, or past the catches of its shutdown.
Completed(p) == IF pc[p] = "down" \/ (pc[p] = "out" /\ (ExitLast \/ round[p] < Rounds))
                THEN round[p]
                ELSE IF round[p] > 0 THEN round[p] - 1 ELSE 0

\* A PET of the parent VM is back from exit only when all user threads that run in its
\* process have completed.
ExitAwaitsThreads ==
  \A p, q \in PET : Pid[p] = Pid[q] /\ pc[p] = "out"
    => \A c \in ToSet(Spawned[q]) : ran[c] >= Completed(p)

\* A contributor gets its threads back, and so gets away from exit or shutdown, only when
\* the child PET that has its cores is done with them, whichever sigcatcher of the process
\* took which signal.
CoresReturned ==
  \A k \in Contributor : ran[To[k]] >= IF pc[k] = "barrier" THEN round[k] ELSE Completed(k)

\* User code runs on contributed cores only while their PETs are inside the cycle: each
\* has released its service threads, and none has gone on to another cycle.
CoresHeld == \A c \in Child : tpc[<<"child", c>>] = "user" =>
               \A k \in From(c) : round[k] = ran[c] + 1 /\ Completed(k) = ran[c]

\* All cycles complete: no release, catch or notification is missed.
AllDown == <>(\A p \in PET : pc[p] = "down")
==============================================================================
