---------------------------- MODULE VMThreadProofs ----------------------------
(***************************************************************************)
(* TLAPS proofs about VMThread, for every set of PETs and child PETs, any  *)
(* contributions of cores, and any number of cycles.                       *)
(***************************************************************************)
EXTENDS VMThread, LeastNumber

\* The PET that created thread v, and the place of v among its threads.
Host(v) == CHOOSE p \in PET : \E i \in DOMAIN Own(p) : Own(p)[i] = v
Place(v) == CHOOSE i \in DOMAIN Own(Host(v)) : Own(Host(v))[i] = v

Starting == {"create", "sync1", "synced1", "sync2", "synced2"}
Cycling == {"listen", "release", "in", "catch", "caught", "barrier"}
Joining == {"join", "joinCatch", "joinCaught", "down"}
Quiet == {"none", "born", "locked", "loop", "waiting", "released", "over", "finish"}
Busy == {"user", "notify", "send", "sending", "recv", "wake", "block", "awake"}
IdleAt == {"loop", "waiting"}
ActiveAt == {"released", "user", "notify", "send", "sending", "finish", "recv", "wake",
             "block", "awake"}

\* The types without the bounds that only hold in the states of a run.
Types == /\ pc \in [PET -> Starting \cup Cycling \cup Joining \cup {"out"}]
         /\ at \in [PET -> Nat] /\ round \in [PET -> 0..Rounds]
         /\ hello \in [Contributor -> Nat]
         /\ tpc \in [Thread -> Quiet \cup Busy]
         /\ ended \in [Thread -> BOOLEAN] /\ released \in [Thread -> BOOLEAN]
         /\ ran \in [Child -> Nat] /\ todo \in [Child -> SUBSET Contributor]
         /\ sig \in [{Pid[p] : p \in PET} -> Nat]
         /\ mail \in [Contributor -> Nat] /\ target \in [Contributor -> Contributor]

\* Shutdown follows a last enter whose threads no exit has caught.
Kept(r) == ~ExitLast /\ 0 < r /\ r = Rounds

\* What a thread can be doing: t is its control point, e and f its flags ended and released.
Idle(t, e, f)   == t \in IdleAt /\ ~e /\ ~f
Active(t, e, f) == t \in ActiveAt /\ ~e /\ f
Back(t, e, f) == t \in IdleAt /\ ~e /\ f
Over(t, e, f)   == t = "over" /\ e /\ ~f
NotYet(l, t, e, f) == t = l /\ ~e /\ ~f

\* What the i-th thread of a PET can be doing while the PET is at l, with its a-th thread, in
\* cycle r.
Slot(l, a, r, i, t, e, f) ==
  /\ l \in Starting => /\ i < a => Idle(t, e, f)
                       /\ i > a => NotYet("none", t, e, f)
  /\ l = "create" /\ i = a => NotYet("none", t, e, f)
  /\ l = "sync1" /\ i = a => NotYet("born", t, e, f)
  /\ l \in {"synced1", "sync2"} /\ i = a => NotYet("locked", t, e, f)
  /\ l = "synced2" /\ i = a => Idle(t, e, f)
  /\ l = "out" => IF Kept(r) THEN Active(t, e, f) ELSE Idle(t, e, f)
  /\ l \in {"listen", "barrier"} => Idle(t, e, f)
  /\ l = "release" => IF i < a THEN Active(t, e, f) ELSE Idle(t, e, f)
  /\ l = "in" => Active(t, e, f)
  /\ l \in {"catch", "caught"} => /\ i < a => Idle(t, e, f)
                                  /\ i > a => Active(t, e, f)
  /\ l \in {"catch", "joinCatch"} /\ i = a => Active(t, e, f)
  /\ l \in {"caught", "joinCaught"} /\ i = a => Back(t, e, f)
  /\ l \in Joining => /\ i < a => Over(t, e, f)
                      /\ i > a => IF Kept(r) THEN Active(t, e, f) ELSE Idle(t, e, f)
  /\ l = "join" /\ i = a => \/ Idle(t, e, f)
                            \/ Kept(r) /\ Active(t, e, f)
                            \/ e /\ ~f /\ t \in {"released", "over"}

Slots == \A v \in Thread : Slot(pc[Host(v)], at[Host(v)], round[Host(v)],
                                Place(v), tpc[v], ended[v], released[v])

\* Where a PET is tells what is left of its loops and the number of its cycles.
AtPlace(p) ==
  /\ at[p] \in 1..(Len(Own(p)) + 1)
  /\ pc[p] \in {"sync1", "synced1", "sync2", "synced2", "catch", "caught", "joinCatch",
                "joinCaught"} => at[p] <= Len(Own(p))
  /\ pc[p] \in Starting => round[p] = 0
  /\ pc[p] \in Cycling => round[p] > 0
  /\ pc[p] \in {"in", "catch", "caught", "barrier"} => ~Kept(round[p])
  /\ pc[p] \in Joining => round[p] = Rounds
  /\ pc[p] \in {"joinCatch", "joinCaught"} => Kept(round[p])
  /\ pc[p] = "listen" => at[p] = 1 /\ p \notin Contributor
  /\ pc[p] = "down" => at[p] = Len(Own(p)) + 1

Places == \A p \in PET : AtPlace(p)

\* The cycle thread v has last been released for.
Cycle(v) == LET p == Host(v) IN
  IF pc[p] = "listen" \/ (pc[p] = "release" /\ at[p] <= Place(v)) THEN round[p] - 1 ELSE round[p]

\* The number of cycles in which thread v has done what it waits for at the control points L.
Done(v, L) == IF tpc[v] \in L /\ ~ended[v] THEN Cycle(v) - 1 ELSE Cycle(v)

ChildThread(c) == <<"child", c>>
Woken(k) == Done(Blocker(k), {"released", "block"})
Taken(k) == Done(Catcher(k), {"released"})

\* The notifications of child PET c.
Notifying == {"notify", "send", "sending"}
Work == \A c \in Child : LET v == ChildThread(c) IN
  /\ ran[c] = Done(v, {"released", "user"})
  /\ todo[c] \subseteq From(c)
  /\ tpc[v] \notin Notifying => todo[c] = {}
  /\ tpc[v] \in {"send", "sending"} => todo[c] # {}

\* How often the child PET that has the cores of k has signalled, and sent a message, for k.
Left(k, L) == LET c == To[k] IN
  IF k \in todo[c] /\ ~(tpc[ChildThread(c)] \in L /\ k = Min(todo[c])) THEN ran[c] - 1 ELSE ran[c]
Killed(k) == Left(k, {"send", "sending"})
Mailed(k) == Left(k, {"sending"})

\* How often k has told its spawner that its threads are released, and how often a spawner
\* has received that.
Told(k) == IF pc[k] = "release" THEN round[k] - 1 ELSE round[k]
Heard(p) == IF pc[p] = "listen" THEN round[p] - 1 ELSE round[p]
Hellos == \A k \in Contributor : Told(k) = Heard(Spawner(To[k])) + hello[k]

\* The message that names the blocker of k, or the sigcatcher that has received it, is on its way
Waker(j, k) == tpc[Catcher(j)] = "wake" /\ target[j] = k
Tokens == \A k \in Contributor :
  /\ Woken(k) <= Mailed(k)
  /\ mail[k] <= 1 /\ (mail[k] > 0 => Woken(k) < Mailed(k))
  /\ \A j \in Contributor : Waker(j, k) => Woken(k) < Mailed(k) /\ mail[k] = 0
  /\ \A i, j \in Contributor : Waker(i, k) /\ Waker(j, k) => i = j

\* The exits whose barrier p has crossed: no PET of its process is behind that barrier.
Crossed(p) == IF pc[p] \in Joining \cup {"out"} /\ (ExitLast \/ round[p] < Rounds) THEN round[p]
              ELSE IF round[p] > 0 THEN round[p] - 1 ELSE 0
Barriers == \A p, q \in PET : Pid[p] = Pid[q] /\ Crossed(p) > 0 =>
   \/ round[q] > Crossed(p)
   \/ round[q] = Crossed(p) /\ pc[q] \in Joining \cup {"barrier", "out"}

\* In process i, the contributors that have been signalled for in their cycle, and those whose
\* sigcatcher has taken a signal in it; there are no more signals pending than
\* contributors in the first set and not in the second.
KilledIn(i) == {k \in Contributor : Pid[k] = i /\ Killed(k) = round[k]}
TakenIn(i) == {k \in Contributor : Pid[k] = i /\ Taken(k) = round[k]}
Signals == \A i \in {Pid[p] : p \in PET} :
  sig[i] + Cardinality(TakenIn(i)) <= Cardinality(KilledIn(i))

------------------------------------------------------------------------------
(* Facts about the constants and the helpers.                               *)

\* The threads of a PET form a sequence; two of a contributor.
LEMMA OwnSeq == ASSUME NEW p \in PET
                PROVE  /\ Own(p) \in Seq(Thread)
                       /\ Len(Own(p)) \in Nat /\ DOMAIN Own(p) = 1..Len(Own(p))
<1> USE SpawnedAssumption
<1>1. CASE p \in Contributor
  <2>1. Blocker(p) \in Thread /\ Catcher(p) \in Thread
    BY <1>1 DEF Thread, Blocker, Catcher
  <2> QED
    BY <1>1, <2>1 DEF Own
<1>2. CASE p \notin Contributor
  <2>1. Spawned[p] \in Seq(Child)
    OBVIOUS
  <2>2. \A i \in DOMAIN Spawned[p] : <<"child", Spawned[p][i]>> \in Thread
    BY <2>1 DEF Thread
  <2>3. Own(p) = [i \in 1..Len(Spawned[p]) |-> <<"child", Spawned[p][i]>>]
    BY <1>2, <2>1 DEF Own
  <2>4. Len(Spawned[p]) \in Nat /\ DOMAIN Spawned[p] = 1..Len(Spawned[p])
    BY <2>1
  <2>5. \A i \in 1..Len(Spawned[p]) : Own(p)[i] \in Thread
    <3> TAKE i \in 1..Len(Spawned[p])
    <3>1. Own(p)[i] = <<"child", Spawned[p][i]>>
      BY <2>3
    <3>2. <<"child", Spawned[p][i]>> \in Thread
      BY <2>2, <2>4
    <3> QED
      BY <3>1, <3>2
  <2>6. Own(p) \in [1..Len(Spawned[p]) -> Thread]
    BY <2>3, <2>5
  <2>7. Own(p) \in Seq(Thread)
    BY <2>4, <2>6
  <2> QED
    BY <2>7
<1> QED
  BY <1>1, <1>2

\* No two places hold the same thread ...
LEMMA OwnOnce == ASSUME NEW p \in PET, NEW q \in PET, NEW i \in DOMAIN Own(p),
                        NEW j \in DOMAIN Own(q), Own(p)[i] = Own(q)[j]
                 PROVE  p = q /\ i = j
<1> USE SpawnedAssumption
<1>1. CASE p \in Contributor
  <2>1. Own(p) = <<Blocker(p), Catcher(p)>> /\ i \in {1, 2}
    BY <1>1 DEF Own
  <2>2. q \in Contributor
    BY <1>1, <2>1 DEF Own, Blocker, Catcher
  <2>3. Own(q) = <<Blocker(q), Catcher(q)>> /\ j \in {1, 2}
    BY <2>2 DEF Own
  <2> QED
    BY <2>1, <2>3 DEF Blocker, Catcher
<1>2. CASE p \notin Contributor
  <2>1. Own(p) = [n \in DOMAIN Spawned[p] |-> <<"child", Spawned[p][n]>>]
    BY <1>2 DEF Own
  <2>2. q \notin Contributor
    BY <2>1 DEF Own, Blocker, Catcher
  <2>3. Own(q) = [n \in DOMAIN Spawned[q] |-> <<"child", Spawned[q][n]>>]
    BY <2>2 DEF Own
  <2>4. Spawned[p][i] = Spawned[q][j]
    BY <2>1, <2>3
  <2> QED
    BY <2>1, <2>3, <2>4
<1> QED
  BY <1>1, <1>2

\* ... and every thread has a place.
LEMMA HasPlace == ASSUME NEW v \in Thread
                  PROVE  \E p \in PET : \E i \in DOMAIN Own(p) : Own(p)[i] = v
<1> USE PetAssumption, ToAssumption
<1>1. CASE v \in {"child"} \X Child
  <2>1. PICK c \in Child : v = <<"child", c>>
    BY <1>1
  <2>2. PICK p \in PET : c \in ToSet(Spawned[p])
    BY DEF Child
  <2>3. PICK i \in DOMAIN Spawned[p] : Spawned[p][i] = c
    BY <2>2 DEF ToSet
  <2>4. p \notin Contributor
    <3>1. Spawned[p] # <<>>
      BY <2>3
    <3> QED
      BY <3>1
  <2> QED
    BY <2>1, <2>3, <2>4 DEF Own
<1>2. CASE v \in {"blocker", "catcher"} \X Contributor
  <2>1. PICK k \in Contributor : v = Blocker(k) \/ v = Catcher(k)
    <3>1. v = <<v[1], v[2]>> /\ v[1] \in {"blocker", "catcher"} /\ v[2] \in Contributor
      BY <1>2
    <3>2. v = Blocker(v[2]) \/ v = Catcher(v[2])
      BY <3>1, Zenon DEF Blocker, Catcher
    <3> QED
      BY <3>1, <3>2
  <2>2. Own(k) = <<Blocker(k), Catcher(k)>>
    BY DEF Own
  <2> QED
    BY <2>1, <2>2
<1> QED
  BY <1>1, <1>2 DEF Thread

\* A thread has the place that Host and Place choose.
LEMMA HostPlace == ASSUME NEW v \in Thread
                   PROVE  /\ Host(v) \in PET
                          /\ Place(v) \in 1..Len(Own(Host(v)))
                          /\ Own(Host(v))[Place(v)] = v
<1>1. Host(v) \in PET /\ \E i \in DOMAIN Own(Host(v)) : Own(Host(v))[i] = v
  BY HasPlace DEF Host
<1>2. Place(v) \in DOMAIN Own(Host(v)) /\ Own(Host(v))[Place(v)] = v
  BY <1>1 DEF Place
<1> QED
  BY <1>1, <1>2, OwnSeq

\* Host and Place find the PET and the place of a thread.
LEMMA PlaceOf == ASSUME NEW p \in PET, NEW i \in 1..Len(Own(p))
                 PROVE  /\ Own(p)[i] \in Thread
                        /\ Host(Own(p)[i]) = p /\ Place(Own(p)[i]) = i
<1>1. Own(p)[i] \in Thread /\ i \in DOMAIN Own(p)
  <2>1. i \in DOMAIN Own(p)
    BY OwnSeq
  <2>2. Own(p) \in Seq(Thread)
    BY OwnSeq
  <2> QED
    BY <2>1, <2>2
<1> DEFINE v == Own(p)[i]
<1>2. Host(v) \in PET /\ Place(v) \in DOMAIN Own(Host(v)) /\ Own(Host(v))[Place(v)] = v
  BY <1>1, HostPlace, OwnSeq
<1> QED
  BY <1>1, <1>2, OwnOnce

\* The host of each kind of thread.
LEMMA ServiceHost == ASSUME NEW k \in Contributor
                     PROVE  /\ k \in PET /\ Spawned[k] = <<>>
                            /\ Blocker(k) \in Thread /\ Host(Blocker(k)) = k /\ Place(Blocker(k)) = 1
                            /\ Catcher(k) \in Thread /\ Host(Catcher(k)) = k /\ Place(Catcher(k)) = 2
                            /\ To[k] \in Child
<1> USE PetAssumption, ToAssumption
<1>1. Own(k) = <<Blocker(k), Catcher(k)>> /\ k \in PET
  BY DEF Own
<1>2. 1 \in 1..Len(Own(k)) /\ 2 \in 1..Len(Own(k))
  BY <1>1
<1>3. Own(k)[1] = Blocker(k) /\ Own(k)[2] = Catcher(k)
  BY <1>1
<1>4. /\ Blocker(k) \in Thread /\ Host(Blocker(k)) = k /\ Place(Blocker(k)) = 1
      /\ Catcher(k) \in Thread /\ Host(Catcher(k)) = k /\ Place(Catcher(k)) = 2
  <2>1. Own(k)[1] \in Thread /\ Host(Own(k)[1]) = k /\ Place(Own(k)[1]) = 1
    BY <1>1, <1>2, PlaceOf
  <2>2. Own(k)[2] \in Thread /\ Host(Own(k)[2]) = k /\ Place(Own(k)[2]) = 2
    BY <1>1, <1>2, PlaceOf
  <2> QED
    BY <1>3, <2>1, <2>2
<1> QED
  BY <1>1, <1>4

\* The host of a child PET's thread is the PET that spawned it, which contributes no cores.
LEMMA ChildHost == ASSUME NEW c \in Child
                   PROVE  /\ ChildThread(c) \in Thread
                          /\ Spawner(c) \in PET \ Contributor
                          /\ Host(ChildThread(c)) = Spawner(c)
                          /\ c \in ToSet(Spawned[Spawner(c)])
<1> USE ToAssumption
<1>1. \E p \in PET : c \in ToSet(Spawned[p])
  BY DEF Child
<1>2. Spawner(c) \in PET /\ c \in ToSet(Spawned[Spawner(c)])
  BY <1>1 DEF Spawner
<1> DEFINE p == Spawner(c)
<1>3. PICK i \in DOMAIN Spawned[p] : Spawned[p][i] = c
  BY <1>2 DEF ToSet
<1>4. p \notin Contributor
  BY <1>2, <1>3
<1>5. Own(p) = [n \in DOMAIN Spawned[p] |-> <<"child", Spawned[p][n]>>]
  BY <1>4 DEF Own
<1>6. i \in DOMAIN Own(p) /\ Own(p)[i] = ChildThread(c)
  BY <1>3, <1>5 DEF ChildThread
<1>7. i \in 1..Len(Own(p))
  BY <1>2, <1>6, OwnSeq
<1>8. Own(p)[i] \in Thread /\ Host(Own(p)[i]) = p
  BY <1>2, <1>7, PlaceOf
<1> QED
  BY <1>2, <1>4, <1>6, <1>8

\* A child PET has one spawner.
LEMMA SpawnerOf == ASSUME NEW p \in PET, NEW c \in ToSet(Spawned[p])
                   PROVE  c \in Child /\ Spawner(c) = p
<1> USE SpawnedAssumption
<1>1. c \in Child
  BY DEF Child
<1>2. PICK i \in DOMAIN Spawned[p] : Spawned[p][i] = c
  BY DEF ToSet
<1>3. Spawner(c) \in PET /\ c \in ToSet(Spawned[Spawner(c)])
  BY <1>1, ChildHost
<1>4. PICK j \in DOMAIN Spawned[Spawner(c)] : Spawned[Spawner(c)][j] = c
  BY <1>3 DEF ToSet
<1> QED
  BY <1>1, <1>2, <1>3, <1>4

\* The kinds of threads are disjoint.
LEMMA Kinds ==
  /\ \A j, k \in Contributor : Blocker(j) # Catcher(k)
  /\ \A j, k \in Contributor : Blocker(j) = Blocker(k) => j = k
  /\ \A j, k \in Contributor : Catcher(j) = Catcher(k) => j = k
  /\ \A c \in Child, k \in Contributor : ChildThread(c) # Blocker(k)
  /\ \A c \in Child, k \in Contributor : ChildThread(c) # Catcher(k)
  /\ \A c, d \in Child : ChildThread(c) = ChildThread(d) => c = d
BY DEF Blocker, Catcher, ChildThread

\* A child PET notifies a contributor of those it has left: Min picks one.
LEMMA MinIn == ASSUME NEW S \in SUBSET Contributor, S # {} PROVE Min(S) \in S
<1>1. S \in SUBSET Nat
  BY PetAssumption
<1>2. \E x \in S : \A y \in S : x <= y
  BY <1>1, LeastNumber
<1> QED
  BY <1>2 DEF Min

\* The contributors can be counted.
LEMMA FiniteContributor == IsFiniteSet(Contributor)
BY PetAssumption, FS_Subset
------------------------------------------------------------------------------
(* Threads and their PETs.                                                  *)

\* Places are numbers from 1.
LEMMA PlaceNat == ASSUME NEW v \in Thread PROVE Place(v) \in Nat /\ Place(v) >= 1
<1>1. Len(Own(Host(v))) \in Nat /\ Place(v) \in 1..Len(Own(Host(v)))
  BY OwnSeq, HostPlace
<1> QED
  BY <1>1

\* The thread a PET is at.
LEMMA ThisThread == ASSUME NEW p \in PET, MoreOwn(p), at[p] \in Nat, at[p] >= 1
                    PROVE  /\ This(p) \in Thread /\ Host(This(p)) = p /\ Place(This(p)) = at[p]
                           /\ \A v \in Thread : Host(v) = p /\ Place(v) = at[p] => v = This(p)
<1>1. at[p] \in 1..Len(Own(p))
  BY OwnSeq DEF MoreOwn
<1>2. This(p) \in Thread /\ Host(This(p)) = p /\ Place(This(p)) = at[p]
  BY <1>1, PlaceOf DEF This
<1>3. \A v \in Thread : Host(v) = p /\ Place(v) = at[p] => v = This(p)
  BY HostPlace DEF This
<1> QED
  BY <1>2, <1>3

\* The parent of a thread that waits for it is its host, and the only one to wake up.
LEMMA WakeHost == ASSUME NEW v \in Thread, NEW l, NEW m, ParentIn(v, l), Wake(v, m), Types, Places,
                         l \in {"sync1", "sync2", "catch", "joinCatch"}
                  PROVE  /\ Host(v) \in PET /\ pc[Host(v)] = l /\ at[Host(v)] = Place(v)
                         /\ pc' = [pc EXCEPT ![Host(v)] = m]
<1>1. \A q \in PET : at[q] \in Nat /\ at[q] >= 1
  BY OwnSeq DEF Places, AtPlace
<1>2. \A q \in PET : MoreOwn(q) /\ This(q) = v => q = Host(v) /\ at[q] = Place(v)
  BY <1>1, ThisThread
<1>3. PICK p \in PET : pc[p] = l /\ MoreOwn(p) /\ This(p) = v
  BY DEF ParentIn
<1>4. p = Host(v) /\ at[p] = Place(v)
  BY <1>2, <1>3
<1>5. \A q \in PET : (pc[q] \in {"sync1", "sync2", "catch", "joinCatch"} /\ MoreOwn(q) /\ This(q) = v)
                     <=> q = p
  BY <1>2, <1>3, <1>4
<1>6. pc' = [q \in PET |-> IF q = p THEN m ELSE pc[q]]
  BY <1>5 DEF Wake
<1>7. pc' = [pc EXCEPT ![p] = m]
  BY <1>6 DEF Types
<1> QED
  BY <1>3, <1>4, <1>7

\* A step of PET p, or of a thread of it that concerns p, is about p and its threads.
PetOnly(p) == /\ \A q \in PET \ {p} : pc'[q] = pc[q] /\ at'[q] = at[q] /\ round'[q] = round[q]
              /\ \A v \in Thread : Host(v) # p => /\ tpc'[v] = tpc[v]
                                                  /\ ended'[v] = ended[v] /\ released'[v] = released[v]

\* So is every step of a PET ...
LEMMA PetIsOnly == ASSUME NEW p \in PET, Pet(p), Types, Places PROVE PetOnly(p)
<1>1. at[p] \in Nat /\ at[p] >= 1
  <2>1. at[p] \in 1..(Len(Own(p)) + 1) /\ Len(Own(p)) \in Nat
    BY OwnSeq DEF Places, AtPlace
  <2> QED
    BY <2>1
<1>2. MoreOwn(p) => This(p) \in Thread /\ Host(This(p)) = p
  BY <1>1, ThisThread
<1>3. CASE Create(p) \/ Created1(p) \/ Created2(p) \/ Started(p)
  BY <1>2, <1>3 DEF Create, Created1, Created2, Started, PetOnly, Goto, Run, Types, vmktVars
<1>4. CASE Enter(p) \/ Listen(p) \/ Entered(p) \/ Exit(p) \/ Barrier(p)
  BY <1>4 DEF Enter, Listen, Entered, Exit, Barrier, PetOnly, Goto, Types, vmktVars
<1>5. CASE Release(p)
  BY <1>2, <1>5 DEF Release, PetOnly, Types
<1>6. CASE Caught(p) \/ JoinCaught(p)
  <2>1. MoreOwn(p)
    BY <1>6 DEF Caught, JoinCaught, Places, AtPlace, MoreOwn
  <2> QED
    BY <1>2, <1>6, <2>1 DEF Caught, JoinCaught, PetOnly, Goto, Types
<1>7. CASE Shutdown(p) \/ JoinCatch(p) \/ Join(p) \/ Down(p)
  BY <1>7 DEF Shutdown, JoinCatch, Join, Down, PetOnly, Goto, Types, vmktVars
<1>8. CASE JoinSignal(p)
  BY <1>2, <1>8 DEF JoinSignal, PetOnly, petVars, Types
<1> QED
  BY <1>3, <1>4, <1>5, <1>6, <1>7, <1>8 DEF Pet

\* ... and every step of a thread through its loop, which is about its parent.
LEMMA VmktIsOnly == ASSUME NEW v \in Thread, Vmkt(v), Types, Places PROVE PetOnly(Host(v))
<1>1. CASE Sync1(v) \/ Sync2(v)
  <2>1. pc' = [pc EXCEPT ![Host(v)] = "synced1"] \/ pc' = [pc EXCEPT ![Host(v)] = "synced2"]
    BY <1>1, WakeHost DEF Sync1, Sync2
  <2> QED
    BY <1>1, <2>1 DEF Sync1, Sync2, PetOnly, Run, Types
<1>2. CASE Wait(v) \/ WrapUp(v)
  BY <1>2 DEF Wait, WrapUp, PetOnly, Run, petVars, Types
<1>3. CASE Finish(v)
  <2>1. pc' = [pc EXCEPT ![Host(v)] = "caught"] \/ pc' = [pc EXCEPT ![Host(v)] = "joinCaught"]
    BY <1>3, WakeHost DEF Finish
  <2> QED
    BY <1>3, <2>1 DEF Finish, PetOnly, Run, Types
<1> QED
  BY <1>1, <1>2, <1>3 DEF Vmkt

\* So only the slots of its threads have to be looked at.
LEMMA OwnSlots == ASSUME NEW p \in PET, PetOnly(p), Slots,
                         \A v \in Thread : Host(v) = p =>
                           Slot(pc'[p], at'[p], round'[p], Place(v), tpc'[v], ended'[v], released'[v])
                  PROVE  Slots'
<1> SUFFICES ASSUME NEW v \in Thread
             PROVE  Slot(pc'[Host(v)], at'[Host(v)], round'[Host(v)], Place(v), tpc'[v], ended'[v],
                         released'[v])
  BY DEF Slots
<1>1. CASE Host(v) = p
  BY <1>1
<1>2. CASE Host(v) # p
  BY <1>2, HostPlace DEF PetOnly, Slots
<1> QED
  BY <1>1, <1>2

------------------------------------------------------------------------------
(* What the threads can be doing.                                           *)

\* A PET creates, releases, catches and joins each thread only when the thread is where the
\* PET expects it.
LEMMA PetSlots == ASSUME NEW p \in PET, Pet(p), Types, Places, Slots PROVE Slots'
<1> SUFFICES ASSUME NEW v \in Thread, Host(v) = p
             PROVE  Slot(pc'[p], at'[p], round'[p], Place(v), tpc'[v], ended'[v], released'[v])
  BY PetIsOnly, OwnSlots
<1> DEFINE i == Place(v)
           a == at[p]
           n == Len(Own(p))
<1>1. a \in Nat /\ a >= 1 /\ a <= n + 1 /\ i \in Nat /\ i >= 1 /\ i <= n /\ n \in Nat
  <2>1. a \in 1..(n + 1) /\ n \in Nat
    BY OwnSeq DEF Places, AtPlace
  <2>2. i \in 1..n
    BY HostPlace
  <2> HIDE DEF a, i, n
  <2> QED
    BY <2>1, <2>2
<1>2. Slot(pc[p], a, round[p], i, tpc[v], ended[v], released[v])
  BY DEF Slots
<1>3. /\ pc[p] \in {"caught", "joinCaught"} => a <= n
      /\ pc[p] \in {"in", "barrier"} => ~Kept(round[p])
      /\ pc[p] \in Starting => round[p] = 0
      /\ pc[p] \in {"release"} => round[p] > 0
      /\ pc[p] = "listen" => a = 1
  BY DEF Places, AtPlace, Cycling
<1>31. round[p] \in Nat
  BY DEF Types
<1>4. MoreOwn(p) <=> a <= n
  BY DEF MoreOwn
<1>5. a <= n => (v = This(p) <=> i = a)
  BY <1>1, <1>4, ThisThread
<1>6. Own(p) = <<>> => n = 0
  OBVIOUS
<1> HIDE DEF a, n
<1>10. CASE Create(p)
  <2>1. pc'[p] = "sync1" /\ at'[p] = a /\ round'[p] = round[p] /\ pc[p] = "create"
    BY <1>10 DEF Create, Goto, Types, a
  <2>2. tpc'[v] = IF i = a THEN "born" ELSE tpc[v]
    BY <1>4, <1>5, <1>10 DEF Create, Run, Types
  <2>3. ended'[v] = ended[v] /\ released'[v] = released[v]
    BY <1>10 DEF Create
  <2> QED
    BY <1>1, <1>2, <2>1, <2>2, <2>3 DEF Slot, NotYet, Idle, Active, Back, Over, Starting, Joining
<1>11. CASE Created1(p) \/ Created2(p) \/ Started(p)
  <2>1. tpc'[v] = tpc[v] /\ ended'[v] = ended[v] /\ released'[v] = released[v] /\ round'[p] = round[p]
    BY <1>11 DEF Created1, Created2, Started, vmktVars
  <2>2. CASE Created1(p)
    <3>1. pc'[p] = "sync2" /\ at'[p] = a /\ pc[p] = "synced1"
      BY <2>2 DEF Created1, Goto, Types, a
    <3> QED
      BY <1>1, <1>2, <2>1, <3>1 DEF Slot, NotYet, Idle, Active, Back, Over, Starting, Joining
  <2>3. CASE Created2(p)
    <3>1. pc'[p] = "create" /\ at'[p] = a + 1 /\ pc[p] = "synced2"
      BY <2>3 DEF Created2, Goto, Types, a
    <3> QED
      BY <1>1, <1>2, <2>1, <3>1 DEF Slot, NotYet, Idle, Active, Back, Over, Starting, Joining
  <2>4. CASE Started(p)
    <3>1. pc'[p] = "out" /\ at'[p] = a /\ pc[p] = "create" /\ ~(a <= n)
      BY <1>4, <2>4 DEF Started, Goto, Types, a
    <3> QED
      BY <1>1, <1>2, <1>3, <1>31, <2>1, <3>1 DEF Slot, NotYet, Idle, Active, Back, Over, Starting, Joining, Kept
  <2> QED
    BY <1>11, <2>2, <2>3, <2>4
<1>12. CASE Enter(p)
  <2>1. /\ pc'[p] \in {"release", "listen"} /\ at'[p] = 1 /\ round'[p] = round[p] + 1
        /\ pc[p] = "out" /\ round[p] < Rounds
    BY <1>12 DEF Enter, Goto, Types, a
  <2>2. tpc'[v] = tpc[v] /\ ended'[v] = ended[v] /\ released'[v] = released[v]
    BY <1>12 DEF Enter, vmktVars
  <2> QED
    BY <1>1, <1>2, <1>3, <1>31, <2>1, <2>2 DEF Slot, NotYet, Idle, Active, Back, Over, Starting, Joining, Kept
<1>13. CASE Listen(p)
  <2>1. pc'[p] = "release" /\ at'[p] = a /\ round'[p] = round[p] /\ pc[p] = "listen"
    BY <1>13 DEF Listen, Goto, Types, a
  <2>2. tpc'[v] = tpc[v] /\ ended'[v] = ended[v] /\ released'[v] = released[v]
    BY <1>13 DEF Listen, vmktVars
  <2> QED
    BY <1>1, <1>2, <1>3, <1>31, <2>1, <2>2 DEF Slot, NotYet, Idle, Active, Back, Over, Starting, Joining
<1>14. CASE Release(p)
  <2>1. pc'[p] = "release" /\ at'[p] = a + 1 /\ round'[p] = round[p] /\ pc[p] = "release" /\ a <= n
    BY <1>4, <1>14 DEF Release, Types, a
  <2>2. i # a => tpc'[v] = tpc[v] /\ ended'[v] = ended[v] /\ released'[v] = released[v]
    BY <1>5, <1>14, <2>1 DEF Release, Types
  <2>3. i = a => tpc[v] \in {"born", "waiting"} /\ v = This(p)
    BY <1>5, <1>14, <2>1 DEF Release, Mut1Free
  <2>4. i = a => tpc'[v] = (IF tpc[v] = "waiting" THEN "released" ELSE tpc[v])
    BY <1>14, <2>3 DEF Release, Types
  <2>5. i = a => released'[v] = TRUE /\ ended'[v] = ended[v]
    BY <1>14, <2>3 DEF Release, Types
  <2> QED
    BY <1>1, <1>2, <2>1, <2>2, <2>3, <2>4, <2>5
       DEF Slot, NotYet, Idle, Active, Back, Over, Starting, Joining, IdleAt, ActiveAt
<1>15. CASE Entered(p)
  <2>1. /\ pc'[p] = (IF Kept(round[p]) THEN "out" ELSE "in")
        /\ at'[p] = a /\ round'[p] = round[p] /\ pc[p] = "release" /\ ~(a <= n)
    BY <1>3, <1>4, <1>15 DEF Entered, Goto, Types, a, Kept
  <2>2. tpc'[v] = tpc[v] /\ ended'[v] = ended[v] /\ released'[v] = released[v]
    BY <1>15 DEF Entered, vmktVars
  <2> QED
    BY <1>1, <1>2, <2>1, <2>2 DEF Slot, NotYet, Idle, Active, Back, Over, Starting, Joining
<1>16. CASE Exit(p)
  <2>1. pc'[p] = "catch" /\ at'[p] = 1 /\ round'[p] = round[p] /\ pc[p] = "in"
    BY <1>1, <1>6, <1>16 DEF Exit, Goto, Types, a
  <2>2. tpc'[v] = tpc[v] /\ ended'[v] = ended[v] /\ released'[v] = released[v]
    BY <1>16 DEF Exit, vmktVars
  <2> QED
    BY <1>1, <1>2, <2>1, <2>2 DEF Slot, NotYet, Idle, Active, Back, Over, Starting, Joining
<1>17. CASE Caught(p)
  <2>1. /\ pc'[p] = (IF a < n THEN "catch" ELSE "barrier")
        /\ at'[p] = a + 1 /\ round'[p] = round[p] /\ pc[p] = "caught" /\ a <= n
    BY <1>3, <1>17 DEF Caught, Goto, Types, a, n
  <2>2. tpc'[v] = tpc[v] /\ ended'[v] = ended[v]
    BY <1>17 DEF Caught
  <2>3. released'[v] = IF i = a THEN FALSE ELSE released[v]
    BY <1>5, <1>17, <2>1 DEF Caught, Types
  <2> QED
    BY <1>1, <1>2, <2>1, <2>2, <2>3 DEF Slot, NotYet, Idle, Active, Back, Over, Starting, Joining
<1>18. CASE Barrier(p)
  <2>1. pc'[p] = "out" /\ at'[p] = a /\ round'[p] = round[p] /\ pc[p] = "barrier"
    BY <1>18 DEF Barrier, Goto, Types, a
  <2>2. tpc'[v] = tpc[v] /\ ended'[v] = ended[v] /\ released'[v] = released[v]
    BY <1>18 DEF Barrier, vmktVars
  <2> QED
    BY <1>1, <1>2, <1>3, <1>31, <2>1, <2>2 DEF Slot, NotYet, Idle, Active, Back, Over, Starting, Joining
<1>19. CASE Shutdown(p)
  <2>1. pc'[p] = "join" /\ at'[p] = 1 /\ round'[p] = round[p] /\ pc[p] = "out"
    BY <1>19 DEF Shutdown, Goto, Types, a
  <2>2. tpc'[v] = tpc[v] /\ ended'[v] = ended[v] /\ released'[v] = released[v]
    BY <1>19 DEF Shutdown, vmktVars
  <2> QED
    BY <1>1, <1>2, <2>1, <2>2 DEF Slot, NotYet, Idle, Active, Back, Over, Starting, Joining
<1>20. CASE JoinCatch(p)
  <2>1. /\ pc'[p] = "joinCatch" /\ at'[p] = a /\ round'[p] = round[p] /\ pc[p] = "join"
        /\ i = a => released[v]
    BY <1>4, <1>5, <1>20 DEF JoinCatch, Goto, Types, a
  <2>2. tpc'[v] = tpc[v] /\ ended'[v] = ended[v] /\ released'[v] = released[v]
    BY <1>20 DEF JoinCatch, vmktVars
  <2> QED
    BY <1>1, <1>2, <2>1, <2>2 DEF Slot, NotYet, Idle, Active, Back, Over, Starting, Joining
<1>21. CASE JoinCaught(p)
  <2>1. /\ pc'[p] = "join" /\ at'[p] = a /\ round'[p] = round[p] /\ pc[p] = "joinCaught" /\ a <= n
    BY <1>3, <1>21 DEF JoinCaught, Goto, Types, a, n
  <2>2. tpc'[v] = tpc[v] /\ ended'[v] = ended[v]
    BY <1>21 DEF JoinCaught
  <2>3. released'[v] = IF i = a THEN FALSE ELSE released[v]
    BY <1>5, <1>21, <2>1 DEF JoinCaught, Types
  <2> QED
    BY <1>1, <1>2, <2>1, <2>2, <2>3 DEF Slot, NotYet, Idle, Active, Back, Over, Starting, Joining
<1>22. CASE JoinSignal(p)
  <2>1. pc'[p] = "join" /\ at'[p] = a /\ round'[p] = round[p] /\ pc[p] = "join" /\ a <= n
    BY <1>4, <1>22 DEF JoinSignal, petVars, a
  <2>2. i # a => tpc'[v] = tpc[v] /\ ended'[v] = ended[v] /\ released'[v] = released[v]
    BY <1>5, <1>22, <2>1 DEF JoinSignal, Types
  <2>3. i = a => /\ tpc[v] \in {"born", "waiting"} /\ v = This(p)
                 /\ ~released[v] /\ ~ended[v]
    BY <1>5, <1>22, <2>1 DEF JoinSignal, Mut1Free
  <2>4. i = a => tpc'[v] = (IF tpc[v] = "waiting" THEN "released" ELSE tpc[v])
    BY <1>22, <2>3 DEF JoinSignal, Types
  <2>5. i = a => ended'[v] = TRUE /\ released'[v] = released[v]
    BY <1>22, <2>3 DEF JoinSignal, Types
  <2> QED
    BY <1>1, <1>2, <2>1, <2>2, <2>3, <2>4, <2>5
       DEF Slot, NotYet, Idle, Active, Back, Over, Starting, Joining, IdleAt, ActiveAt
<1>23. CASE Join(p)
  <2>1. /\ pc'[p] = "join" /\ at'[p] = a + 1 /\ round'[p] = round[p] /\ pc[p] = "join" /\ a <= n
        /\ i = a => tpc[v] = "over"
    BY <1>4, <1>5, <1>23 DEF Join, Types, a
  <2>2. tpc'[v] = tpc[v] /\ ended'[v] = ended[v] /\ released'[v] = released[v]
    BY <1>23 DEF Join, vmktVars
  <2> QED
    BY <1>1, <1>2, <2>1, <2>2 DEF Slot, NotYet, Idle, Active, Back, Over, Starting, Joining, IdleAt, ActiveAt
<1>24. CASE Down(p)
  <2>1. pc'[p] = "down" /\ at'[p] = a /\ round'[p] = round[p] /\ pc[p] = "join" /\ ~(a <= n)
    BY <1>4, <1>24 DEF Down, Goto, Types, a
  <2>2. tpc'[v] = tpc[v] /\ ended'[v] = ended[v] /\ released'[v] = released[v]
    BY <1>24 DEF Down, vmktVars
  <2> QED
    BY <1>1, <1>2, <2>1, <2>2 DEF Slot, NotYet, Idle, Active, Back, Over, Starting, Joining
<1> QED
  BY <1>10, <1>11, <1>12, <1>13, <1>14, <1>15, <1>16, <1>17, <1>18, <1>19, <1>20, <1>21, <1>22,
     <1>23, <1>24 DEF Pet

\* All a thread can be doing, wherever its PET is.
LEMMA SlotKinds == ASSUME NEW l \in Starting \cup Cycling \cup Joining \cup {"out"},
                          NEW a \in Nat, NEW i \in Nat, NEW r, NEW t, NEW e, NEW f,
                          l = "down" => i < a,
                          Slot(l, a, r, i, t, e, f)
                   PROVE  \/ Idle(t, e, f) \/ Active(t, e, f) \/ Back(t, e, f) \/ Over(t, e, f)
                          \/ NotYet("none", t, e, f) \/ NotYet("born", t, e, f) \/ NotYet("locked", t, e, f)
                          \/ l = "join" /\ i = a /\ e /\ ~f /\ t \in {"released", "over"}
<1>1. i < a \/ i = a \/ i > a
  OBVIOUS
<1>2. CASE l \in Starting
  BY <1>1, <1>2 DEF Slot, Starting
<1>3. CASE l \in Cycling
  BY <1>1, <1>3 DEF Slot, Cycling
<1>4. CASE l \in Joining
  BY <1>1, <1>4 DEF Slot, Joining
<1>5. CASE l = "out"
  BY <1>5 DEF Slot
<1> QED
  BY <1>2, <1>3, <1>4, <1>5

\* The same of the threads of a state.
LEMMA Doing == ASSUME NEW v \in Thread, Types, Places, Slots
               PROVE  \/ Idle(tpc[v], ended[v], released[v]) \/ Active(tpc[v], ended[v], released[v])
                      \/ Back(tpc[v], ended[v], released[v]) \/ Over(tpc[v], ended[v], released[v])
                      \/ NotYet("none", tpc[v], ended[v], released[v])
                      \/ NotYet("born", tpc[v], ended[v], released[v])
                      \/ NotYet("locked", tpc[v], ended[v], released[v])
                      \/ /\ pc[Host(v)] = "join" /\ Place(v) = at[Host(v)]
                         /\ ended[v] /\ ~released[v] /\ tpc[v] \in {"released", "over"}
<1> DEFINE p == Host(v)
<1>1. p \in PET /\ Place(v) \in 1..Len(Own(p)) /\ Len(Own(p)) \in Nat
  BY OwnSeq, HostPlace
<1>2. pc[p] = "down" => Place(v) < at[p]
  <2>1. pc[p] = "down" => at[p] = Len(Own(p)) + 1
    BY <1>1 DEF Places, AtPlace
  <2> QED
    BY <1>1, <2>1
<1>3. Slot(pc[p], at[p], round[p], Place(v), tpc[v], ended[v], released[v])
  BY DEF Slots
<1>4. at[p] \in Nat /\ Place(v) \in Nat /\ pc[p] \in Starting \cup Cycling \cup Joining \cup {"out"}
  BY <1>1, PlaceNat DEF Types
<1> HIDE DEF p
<1>5. \/ Idle(tpc[v], ended[v], released[v]) \/ Active(tpc[v], ended[v], released[v])
      \/ Back(tpc[v], ended[v], released[v]) \/ Over(tpc[v], ended[v], released[v])
      \/ NotYet("none", tpc[v], ended[v], released[v])
      \/ NotYet("born", tpc[v], ended[v], released[v])
      \/ NotYet("locked", tpc[v], ended[v], released[v])
      \/ /\ pc[p] = "join" /\ Place(v) = at[p]
         /\ ended[v] /\ ~released[v] /\ tpc[v] \in {"released", "over"}
  BY <1>2, <1>3, <1>4, SlotKinds
<1> QED
  BY <1>5 DEF p

\* A thread goes through its loop only as far as its PET lets it.
LEMMA VmktSlots == ASSUME NEW v \in Thread, Vmkt(v), Types, Places, Slots PROVE Slots'
<1> DEFINE p == Host(v)
<1>1. p \in PET /\ PetOnly(p)
  BY HostPlace, VmktIsOnly
<1> SUFFICES ASSUME NEW w \in Thread, Host(w) = p
             PROVE  Slot(pc'[p], at'[p], round'[p], Place(w), tpc'[w], ended'[w], released'[w])
  BY <1>1, OwnSlots
<1>2. Slot(pc[p], at[p], round[p], Place(w), tpc[w], ended[w], released[w])
  BY DEF Slots
<1>3. at[p] \in Nat /\ Place(v) \in Nat /\ Place(w) \in Nat
  BY HostPlace, PlaceNat DEF Types
<1>4. w = v <=> Place(w) = Place(v)
  BY HostPlace
<1>5. at'[p] = at[p] /\ round'[p] = round[p]
  BY <1>1 DEF Vmkt, Sync1, Sync2, Wait, WrapUp, Finish, petVars
<1>6. ended'[w] = ended[w] /\ released'[w] = released[w]
  BY DEF Vmkt, Sync1, Sync2, Wait, WrapUp, Finish
<1> HIDE DEF p
<1>7. CASE Sync1(v)
  <2>1. pc[p] = "sync1" /\ at[p] = Place(v) /\ pc'[p] = "synced1"
    BY <1>1, <1>7, WakeHost DEF Sync1, Types, p
  <2>2. tpc'[w] = IF w = v THEN "locked" ELSE tpc[w]
    BY <1>7 DEF Sync1, Run, Types
  <2> QED
    BY <1>2, <1>3, <1>4, <1>5, <1>6, <2>1, <2>2
       DEF Slot, NotYet, Idle, Active, Back, Over, Starting, Joining
<1>8. CASE Sync2(v)
  <2>1. pc[p] = "sync2" /\ at[p] = Place(v) /\ pc'[p] = "synced2"
    BY <1>1, <1>8, WakeHost DEF Sync2, Types, p
  <2>2. tpc'[w] = IF w = v THEN "loop" ELSE tpc[w]
    BY <1>8 DEF Sync2, Run, Types
  <2> QED
    BY <1>2, <1>3, <1>4, <1>5, <1>6, <2>1, <2>2
       DEF Slot, NotYet, Idle, Active, Back, Over, Starting, Joining, IdleAt
<1>9. CASE Wait(v)
  <2>1. pc'[p] = pc[p]
    BY <1>9 DEF Wait, petVars
  <2>2. tpc'[w] = IF w = v THEN "waiting" ELSE tpc[w]
    BY <1>9 DEF Wait, Run, Types
  <2>3. w = v => tpc[w] = "loop"
    BY <1>9 DEF Wait
  <2> QED
    BY <1>2, <1>3, <1>4, <1>5, <1>6, <2>1, <2>2, <2>3
       DEF Slot, NotYet, Idle, Active, Back, Over, Starting, Joining, IdleAt, ActiveAt
<1>10. CASE WrapUp(v)
  <2>1. pc'[p] = pc[p]
    BY <1>10 DEF WrapUp, petVars
  <2>2. tpc'[w] = IF w = v THEN "over" ELSE tpc[w]
    BY <1>10 DEF WrapUp, Run, Types
  <2>3. w = v => tpc[w] = "released" /\ ended[w]
    BY <1>10 DEF WrapUp
  <2>5. w = v => pc[p] = "join" /\ Place(w) = at[p] /\ ~released[w]
    BY <2>3, Doing DEF NotYet, Idle, Active, Back, Over, p
  <2> QED
    BY <1>2, <1>3, <1>4, <1>5, <1>6, <2>1, <2>2, <2>3, <2>5
       DEF Slot, NotYet, Idle, Active, Back, Over, Starting, Joining
<1>11. CASE Finish(v)
  <2>1. /\ at[p] = Place(v)
        /\ \/ pc[p] = "catch" /\ pc'[p] = "caught"
           \/ pc[p] = "joinCatch" /\ pc'[p] = "joinCaught"
    <3>1. CASE ParentIn(v, "catch") /\ Wake(v, "caught")
      <4>1. pc[p] = "catch" /\ at[p] = Place(v) /\ pc' = [pc EXCEPT ![p] = "caught"]
        BY <3>1, WakeHost DEF p
      <4> QED
        BY <1>1, <4>1 DEF Types
    <3>2. CASE ParentIn(v, "joinCatch") /\ Wake(v, "joinCaught")
      <4>1. pc[p] = "joinCatch" /\ at[p] = Place(v) /\ pc' = [pc EXCEPT ![p] = "joinCaught"]
        BY <3>2, WakeHost DEF p
      <4> QED
        BY <1>1, <4>1 DEF Types
    <3> QED
      BY <1>11, <3>1, <3>2 DEF Finish
  <2>2. tpc'[w] = IF w = v THEN "loop" ELSE tpc[w]
    BY <1>11 DEF Finish, Run, Types
  <2> QED
    BY <1>2, <1>3, <1>4, <1>5, <1>6, <2>1, <2>2
       DEF Slot, NotYet, Idle, Active, Back, Over, Starting, Joining, IdleAt
<1> QED
  BY <1>7, <1>8, <1>9, <1>10, <1>11 DEF Vmkt

\* The steps between release and catch: threads at work, which no PET takes part in.
Working(v) == /\ tpc[v] \in ActiveAt /\ tpc'[v] \in ActiveAt /\ ~ended[v]
WorkOnly == /\ UNCHANGED <<petVars, ended, released>>
            /\ \A v \in Thread : tpc'[v] = tpc[v] \/ Working(v)

WorkStep == \/ \E c \in Child : \/ Begin(c) \/ End(c) \/ Kill(c) \/ Send(c) \/ Notified(c)
                                \/ \E eager \in BOOLEAN : Sent(c, eager)
            \/ \E k \in Contributor : \/ Block(k) \/ Unblock(k) \/ SigWait(k) \/ WakeBlocker(k)
                                      \/ \E b \in Contributor : Recv(k, b)

\* Only a released thread that has not been told to wrap up is anywhere else than in the loop
\* or before or after it.
LEMMA BusyActive == ASSUME NEW v \in Thread, Types, Places, Slots,
                           tpc[v] \in Busy \cup {"finish"} \/ (tpc[v] = "released" /\ ~ended[v])
                    PROVE  ~ended[v] /\ tpc[v] \in ActiveAt
BY Doing DEF NotYet, Idle, Active, Back, Over, IdleAt, ActiveAt, Busy

\* Only threads that are released and not told to wrap up work.
LEMMA WorkIsOnly == ASSUME WorkStep, Types, Places, Slots PROVE WorkOnly
<1>1. CASE \E c \in Child : \/ Begin(c) \/ End(c) \/ Kill(c) \/ Send(c) \/ Notified(c)
                            \/ \E eager \in BOOLEAN : Sent(c, eager)
  <2>1. PICK c \in Child : \/ Begin(c) \/ End(c) \/ Kill(c) \/ Send(c) \/ Notified(c)
                           \/ \E eager \in BOOLEAN : Sent(c, eager)
    BY <1>1
  <2> DEFINE v == ChildThread(c)
  <2>2. v \in Thread
    BY ChildHost
  <2>3. UNCHANGED <<petVars, ended, released>>
    BY <2>1 DEF Begin, End, Kill, Send, Notified, Sent
  <2>4. tpc[v] \in Busy \/ (tpc[v] = "released" /\ ~ended[v])
    BY <2>1 DEF Begin, End, Kill, Send, Notified, Sent, ChildThread, Busy
  <2>5. ~ended[v] /\ tpc[v] \in ActiveAt
    BY <2>2, <2>4, BusyActive
  <2>6. \E l \in ActiveAt : tpc' = [tpc EXCEPT ![v] = l]
    BY <2>1 DEF Begin, End, Kill, Send, Notified, Sent, ChildThread, Run, ActiveAt
  <2> QED
    BY <2>2, <2>3, <2>5, <2>6 DEF WorkOnly, Working, Types
<1>2. CASE \E k \in Contributor : Block(k) \/ Unblock(k)
  <2>1. PICK k \in Contributor : Block(k) \/ Unblock(k)
    BY <1>2
  <2> DEFINE v == Blocker(k)
  <2>2. v \in Thread
    BY ServiceHost
  <2>3. UNCHANGED <<petVars, ended, released>>
    BY <2>1 DEF Block, Unblock
  <2>4. tpc[v] \in Busy \/ (tpc[v] = "released" /\ ~ended[v])
    BY <2>1 DEF Block, Unblock, Busy
  <2>5. ~ended[v] /\ tpc[v] \in ActiveAt
    BY <2>2, <2>4, BusyActive
  <2>6. \E l \in ActiveAt : tpc' = [tpc EXCEPT ![v] = l]
    BY <2>1 DEF Block, Unblock, Run, ActiveAt
  <2> QED
    BY <2>2, <2>3, <2>5, <2>6 DEF WorkOnly, Working, Types
<1>3. CASE \E k \in Contributor : SigWait(k) \/ \E b \in Contributor : Recv(k, b)
  <2>1. PICK k \in Contributor : SigWait(k) \/ \E b \in Contributor : Recv(k, b)
    BY <1>3
  <2> DEFINE v == Catcher(k)
  <2>2. v \in Thread
    BY ServiceHost
  <2>3. UNCHANGED <<petVars, ended, released>>
    BY <2>1 DEF SigWait, Recv
  <2>4. tpc[v] \in Busy \/ (tpc[v] = "released" /\ ~ended[v])
    BY <2>1 DEF SigWait, Recv, Busy
  <2>5. ~ended[v] /\ tpc[v] \in ActiveAt
    BY <2>2, <2>4, BusyActive
  <2>6. \E l \in ActiveAt : tpc' = [tpc EXCEPT ![v] = l]
    BY <2>1 DEF SigWait, Recv, Run, ActiveAt
  <2> QED
    BY <2>2, <2>3, <2>5, <2>6 DEF WorkOnly, Working, Types
<1>4. CASE \E k \in Contributor : WakeBlocker(k)
  <2>1. PICK k \in Contributor : WakeBlocker(k)
    BY <1>4
  <2> DEFINE v == Catcher(k)
             b == Blocker(target[k])
  <2>2. v \in Thread /\ b \in Thread /\ v # b
    BY ServiceHost, Kinds DEF Types
  <2>3. UNCHANGED <<petVars, ended, released>>
    BY <2>1 DEF WakeBlocker
  <2>4. ~ended[v] /\ tpc[v] \in ActiveAt
    BY <2>1, <2>2, BusyActive DEF WakeBlocker, Busy
  <2>5. tpc[b] = "block" => ~ended[b] /\ tpc[b] \in ActiveAt
    BY <2>2, BusyActive DEF Busy
  <2>6. tpc' = [tpc EXCEPT ![b] = IF @ = "block" THEN "awake" ELSE @, ![v] = "finish"]
    BY <2>1 DEF WakeBlocker
  <2> HIDE DEF v, b
  <2>7. \A w \in Thread : tpc'[w] = IF w = v THEN "finish"
                                    ELSE IF w = b /\ tpc[b] = "block" THEN "awake" ELSE tpc[w]
    BY <2>2, <2>6 DEF Types
  <2>8. "finish" \in ActiveAt /\ "awake" \in ActiveAt
    BY DEF ActiveAt
  <2> QED
    BY <2>2, <2>3, <2>4, <2>5, <2>7, <2>8 DEF WorkOnly, Working
<1> QED
  BY <1>1, <1>2, <1>3, <1>4 DEF WorkStep

\* Work does not change what a thread can be doing for its PET.
LEMMA WorkSlots == ASSUME WorkStep, Types, Places, Slots PROVE Slots'
<1>1. WorkOnly
  BY WorkIsOnly
<1> SUFFICES ASSUME NEW v \in Thread
             PROVE  Slot(pc'[Host(v)], at'[Host(v)], round'[Host(v)], Place(v), tpc'[v], ended'[v],
                         released'[v])
  BY DEF Slots
<1> DEFINE p == Host(v)
<1>2. Slot(pc[p], at[p], round[p], Place(v), tpc[v], ended[v], released[v])
  BY DEF Slots
<1>3. pc' = pc /\ at' = at /\ round' = round /\ ended' = ended /\ released' = released
  BY <1>1 DEF WorkOnly, petVars
<1>4. CASE tpc'[v] = tpc[v]
  BY <1>2, <1>3, <1>4
<1>5. CASE Working(v)
  <2>1. tpc[v] \in ActiveAt /\ tpc'[v] \in ActiveAt /\ ~ended[v]
    BY <1>5 DEF Working
  <2>2. \A t \in ActiveAt : t \notin IdleAt /\ t \notin {"none", "born", "locked", "over"}
    BY DEF ActiveAt, IdleAt
  <2> HIDE DEF p
  <2>3. Slot(pc[p], at[p], round[p], Place(v), tpc'[v], ended[v], released[v])
    BY <1>2, <2>1, <2>2 DEF Slot, NotYet, Idle, Active, Back, Over, Starting, Joining
  <2> QED
    BY <1>3, <2>3 DEF p
<1> QED
  BY <1>1, <1>4, <1>5 DEF WorkOnly

------------------------------------------------------------------------------
(* Where the PETs are.                                                      *)

\* Only the place of the PET that takes a step has to be looked at.
LEMMA OwnPlaces == ASSUME NEW p \in PET, PetOnly(p), Places, AtPlace(p)' PROVE Places'
<1> SUFFICES ASSUME NEW q \in PET, q # p PROVE AtPlace(q)'
  BY DEF Places
<1>1. pc'[q] = pc[q] /\ at'[q] = at[q] /\ round'[q] = round[q]
  BY DEF PetOnly
<1>2. AtPlace(q)
  BY DEF Places
<1> QED
  BY <1>1, <1>2 DEF AtPlace

\* What is left of the loops of a PET, and its cycle, agree with where it goes.
LEMMA PetPlaces == ASSUME NEW p \in PET, Pet(p), Types, Places, Slots PROVE Places'
<1> DEFINE a == at[p]
           n == Len(Own(p))
<1>1. AtPlace(p) /\ n \in Nat /\ a \in Nat /\ round[p] \in Nat
  BY OwnSeq DEF Places, Types
<1>2. a >= 1 /\ a <= n + 1
  BY <1>1 DEF AtPlace
<1>3. MoreOwn(p) <=> a <= n
  BY DEF MoreOwn
<1>4. \A q \in PET : pc[q] \in Starting \cup Cycling \cup Joining \cup {"out"}
  BY DEF Types
<1> SUFFICES AtPlace(p)'
  BY PetIsOnly, OwnPlaces
<1>5. ASSUME NEW l, NEW b \in Nat, NEW r \in Nat, pc'[p] = l, at'[p] = b, round'[p] = r,
             b >= 1, b <= n + 1,
             l \in {"sync1", "synced1", "sync2", "synced2", "catch", "caught", "joinCatch",
                    "joinCaught"} => b <= n,
             l \in Starting => r = 0,
             l \in Cycling => r > 0,
             l \in {"in", "catch", "caught", "barrier"} => ~Kept(r),
             l \in Joining => r = Rounds,
             l \in {"joinCatch", "joinCaught"} => Kept(r),
             l = "listen" => b = 1 /\ p \notin Contributor,
             l = "down" => b = n + 1
      PROVE  AtPlace(p)'
  BY <1>1, <1>5 DEF AtPlace
<1> HIDE DEF a, n
<1>10. CASE Create(p)
  <2>1. pc'[p] = "sync1" /\ at'[p] = a /\ round'[p] = round[p] /\ pc[p] = "create" /\ a <= n
    BY <1>3, <1>10 DEF Create, Goto, Types, a
  <2> QED
    BY <1>1, <1>2, <1>5, <2>1 DEF AtPlace, Starting, Cycling, Joining
<1>11. CASE Created1(p) \/ Created2(p) \/ Started(p)
  <2>1. round'[p] = round[p]
    BY <1>11 DEF Created1, Created2, Started
  <2>2. CASE Created1(p)
    <3>1. pc'[p] = "sync2" /\ at'[p] = a /\ pc[p] = "synced1"
      BY <2>2 DEF Created1, Goto, Types, a
    <3> QED
      BY <1>1, <1>2, <1>5, <2>1, <3>1 DEF AtPlace, Starting, Cycling, Joining, a, n
  <2>3. CASE Created2(p)
    <3>1. pc'[p] = "create" /\ at'[p] = a + 1 /\ pc[p] = "synced2"
      BY <2>3 DEF Created2, Goto, Types, a
    <3> QED
      BY <1>1, <1>2, <1>5, <2>1, <3>1 DEF AtPlace, Starting, Cycling, Joining, a, n
  <2>4. CASE Started(p)
    <3>1. pc'[p] = "out" /\ at'[p] = a
      BY <2>4 DEF Started, Goto, Types, a
    <3> QED
      BY <1>1, <1>2, <1>5, <2>1, <3>1 DEF Starting, Cycling, Joining
  <2> QED
    BY <1>11, <2>2, <2>3, <2>4
<1>12. CASE Enter(p)
  <2>1. /\ pc'[p] = (IF Spawned[p] = <<>> THEN "release" ELSE "listen")
        /\ at'[p] = 1 /\ round'[p] = round[p] + 1
    BY <1>12 DEF Enter, Goto, Types
  <2>2. p \in Contributor => Spawned[p] = <<>>
    BY ServiceHost
  <2> QED
    BY <1>1, <1>2, <1>5, <2>1, <2>2 DEF Starting, Cycling, Joining
<1>13. CASE Listen(p)
  <2>1. pc'[p] = "release" /\ at'[p] = a /\ round'[p] = round[p] /\ pc[p] = "listen"
    BY <1>13 DEF Listen, Goto, Types, a
  <2>2. round[p] > 0
    BY <1>1, <2>1 DEF AtPlace, Cycling
  <2> QED
    BY <1>1, <1>2, <1>5, <2>1, <2>2 DEF Starting, Cycling, Joining
<1>14. CASE Release(p)
  <2>1. pc'[p] = "release" /\ at'[p] = a + 1 /\ round'[p] = round[p] /\ pc[p] = "release" /\ a <= n
    BY <1>3, <1>14 DEF Release, Types, a
  <2>2. round[p] > 0
    BY <1>1, <2>1 DEF AtPlace, Cycling
  <2>3. a + 1 \in Nat /\ a + 1 >= 1 /\ a + 1 <= n + 1
    BY <1>1, <2>1
  <2> QED
    BY <1>1, <1>5, <2>1, <2>2, <2>3 DEF Starting, Cycling, Joining
<1>15. CASE Entered(p)
  <2>1. /\ pc'[p] = (IF Kept(round[p]) THEN "out" ELSE "in")
        /\ at'[p] = a /\ round'[p] = round[p] /\ pc[p] = "release"
    <3>1. round[p] > 0
      BY <1>1, <1>15 DEF Entered, AtPlace, Cycling
    <3> QED
      BY <1>15, <3>1 DEF Entered, Goto, Types, a, Kept
  <2> QED
    BY <1>1, <1>2, <1>5, <2>1 DEF AtPlace, Starting, Cycling, Joining
<1>16. CASE Exit(p)
  <2>1. /\ pc'[p] = (IF Own(p) = <<>> THEN "barrier" ELSE "catch")
        /\ at'[p] = 1 /\ round'[p] = round[p] /\ pc[p] = "in"
    BY <1>16 DEF Exit, Goto, Types
  <2>2. Own(p) # <<>> => 1 <= n
    <3>1. Own(p) \in Seq(Thread)
      BY OwnSeq
    <3> QED
      BY <3>1 DEF n
  <2> QED
    BY <1>1, <1>2, <1>5, <2>1, <2>2 DEF AtPlace, Starting, Cycling, Joining
<1>17. CASE Caught(p)
  <2>1. /\ pc'[p] = (IF a < n THEN "catch" ELSE "barrier")
        /\ at'[p] = a + 1 /\ round'[p] = round[p] /\ pc[p] = "caught"
    BY <1>17 DEF Caught, Goto, Types, a, n
  <2> QED
    BY <1>1, <1>2, <1>5, <2>1 DEF AtPlace, Starting, Cycling, Joining, a, n
<1>18. CASE Barrier(p)
  <2>1. pc'[p] = "out" /\ at'[p] = a /\ round'[p] = round[p]
    BY <1>18 DEF Barrier, Goto, Types, a
  <2> QED
    BY <1>1, <1>2, <1>5, <2>1 DEF Starting, Cycling, Joining
<1>19. CASE Shutdown(p)
  <2>1. pc'[p] = "join" /\ at'[p] = 1 /\ round'[p] = round[p] /\ round[p] = Rounds
    BY <1>19 DEF Shutdown, Goto, Types
  <2> QED
    BY <1>1, <1>2, <1>5, <2>1 DEF Starting, Cycling, Joining
<1>20. CASE JoinCatch(p)
  <2>1. pc'[p] = "joinCatch" /\ at'[p] = a /\ round'[p] = round[p] /\ pc[p] = "join" /\ a <= n
    BY <1>3, <1>20 DEF JoinCatch, Goto, Types, a
  <2>2. This(p) \in Thread /\ Host(This(p)) = p /\ Place(This(p)) = a /\ released[This(p)]
    BY <1>1, <1>2, <1>20, ThisThread DEF JoinCatch, a
  <2>3. Slot(pc[p], a, round[p], a, tpc[This(p)], ended[This(p)], released[This(p)])
    BY <2>2 DEF Slots, a
  <2>4. Kept(round[p])
    BY <2>1, <2>2, <2>3 DEF Slot, Idle, Active
  <2> QED
    BY <1>1, <1>2, <1>5, <2>1, <2>4 DEF AtPlace, Starting, Cycling, Joining
<1>21. CASE JoinCaught(p)
  <2>1. pc'[p] = "join" /\ at'[p] = a /\ round'[p] = round[p] /\ pc[p] = "joinCaught"
    BY <1>21 DEF JoinCaught, Goto, Types, a
  <2> QED
    BY <1>1, <1>2, <1>5, <2>1 DEF AtPlace, Starting, Cycling, Joining
<1>22. CASE JoinSignal(p)
  <2>1. pc'[p] = pc[p] /\ at'[p] = at[p] /\ round'[p] = round[p]
    BY <1>22 DEF JoinSignal, petVars
  <2> QED
    BY <1>1, <2>1 DEF AtPlace
<1>23. CASE Join(p)
  <2>1. pc'[p] = "join" /\ at'[p] = a + 1 /\ round'[p] = round[p] /\ pc[p] = "join" /\ a <= n
    BY <1>3, <1>23 DEF Join, Types, a
  <2>2. round[p] = Rounds
    BY <1>1, <2>1 DEF AtPlace, Joining
  <2>3. a + 1 \in Nat /\ a + 1 >= 1 /\ a + 1 <= n + 1
    BY <1>1, <2>1
  <2> QED
    BY <1>1, <1>5, <2>1, <2>2, <2>3 DEF Starting, Cycling, Joining
<1>24. CASE Down(p)
  <2>1. pc'[p] = "down" /\ at'[p] = a /\ round'[p] = round[p] /\ pc[p] = "join" /\ ~(a <= n)
    BY <1>3, <1>24 DEF Down, Goto, Types, a
  <2>2. round[p] = Rounds
    BY <1>1, <2>1 DEF AtPlace, Joining
  <2>3. a = n + 1
    BY <1>1, <1>2, <2>1
  <2> QED
    BY <1>1, <1>2, <1>5, <2>1, <2>2, <2>3 DEF Starting, Cycling, Joining
<1> QED
  BY <1>10, <1>11, <1>12, <1>13, <1>14, <1>15, <1>16, <1>17, <1>18, <1>19, <1>20, <1>21, <1>22,
     <1>23, <1>24 DEF Pet

\* A thread that wakes up its PET sends it where its loop goes on.
LEMMA VmktPlaces == ASSUME NEW v \in Thread, Vmkt(v), Types, Places PROVE Places'
<1> DEFINE p == Host(v)
<1>1. p \in PET /\ PetOnly(p) /\ AtPlace(p)
  BY HostPlace, VmktIsOnly DEF Places
<1>2. at'[p] = at[p] /\ round'[p] = round[p]
  BY DEF Vmkt, Sync1, Sync2, Wait, WrapUp, Finish, petVars
<1>3. CASE Wait(v) \/ WrapUp(v)
  BY <1>3 DEF Wait, WrapUp, petVars, Places, AtPlace
<1>4. CASE Sync1(v) \/ Sync2(v) \/ Finish(v)
  <2>1. /\ pc'[p] # pc[p]
        /\ \/ pc[p] = "sync1" /\ pc'[p] = "synced1"
           \/ pc[p] = "sync2" /\ pc'[p] = "synced2"
           \/ pc[p] = "catch" /\ pc'[p] = "caught"
           \/ pc[p] = "joinCatch" /\ pc'[p] = "joinCaught"
    <3>1. \/ pc[p] = "sync1" /\ pc' = [pc EXCEPT ![p] = "synced1"]
          \/ pc[p] = "sync2" /\ pc' = [pc EXCEPT ![p] = "synced2"]
          \/ pc[p] = "catch" /\ pc' = [pc EXCEPT ![p] = "caught"]
          \/ pc[p] = "joinCatch" /\ pc' = [pc EXCEPT ![p] = "joinCaught"]
      BY <1>4, WakeHost DEF Sync1, Sync2, Finish
    <3> QED
      BY <1>1, <3>1 DEF Types
  <2> HIDE DEF p
  <2>2. AtPlace(p)'
    BY <1>1, <1>2, <2>1 DEF AtPlace, Starting, Cycling, Joining
  <2> QED
    BY <1>1, <2>2, OwnPlaces
<1> QED
  BY <1>3, <1>4 DEF Vmkt

\* Threads at work move no PET.
LEMMA WorkPlaces == ASSUME WorkOnly, Places PROVE Places'
BY DEF WorkOnly, petVars, Places, AtPlace

------------------------------------------------------------------------------
(* Types.                                                                   *)

\* The thread a PET is at is a thread.
LEMMA ThisIn == ASSUME NEW p \in PET, MoreOwn(p), Types, Places PROVE This(p) \in Thread
<1>1. at[p] \in 1..(Len(Own(p)) + 1) /\ Len(Own(p)) \in Nat
  BY OwnSeq DEF Places, AtPlace
<1> QED
  BY <1>1, ThisThread

\* A step of a PET keeps the types.
LEMMA PetTypes == ASSUME NEW p \in PET, Pet(p), Types, Places PROVE Types'
<1>1. CASE Create(p)
  BY <1>1, ThisIn DEF Create, Types, Goto, Run, Starting, Quiet, workVars
<1>2. CASE Created1(p)
  BY <1>2 DEF Created1, Types, Goto, Starting, vmktVars, workVars
<1>3. CASE Created2(p)
  BY <1>3 DEF Created2, Types, Goto, Starting, vmktVars, workVars
<1>4. CASE Started(p)
  BY <1>4 DEF Started, Types, Goto, vmktVars, workVars
<1>5. CASE Enter(p)
  <2>1. round[p] + 1 \in 0..Rounds
    BY <1>5, PetAssumption DEF Enter, Types
  <2>2. pc' = [pc EXCEPT ![p] = "release"] \/ pc' = [pc EXCEPT ![p] = "listen"]
    BY <1>5 DEF Enter, Goto
  <2> QED
    BY <1>5, <2>1, <2>2 DEF Enter, Types, Cycling, vmktVars, workVars
<1>6. CASE Listen(p)
  BY <1>6 DEF Listen, Types, Goto, Cycling, vmktVars, workVars
<1>7. CASE Release(p)
  <2>1. \E l \in Quiet \cup Busy : tpc' = [tpc EXCEPT ![This(p)] = l]
    BY <1>7, ThisIn DEF Release, Types, Quiet
  <2> QED
    BY <1>7, <2>1, ThisIn DEF Release, Types, workVars
<1>8. CASE Entered(p)
  <2>1. pc' = [pc EXCEPT ![p] = "out"] \/ pc' = [pc EXCEPT ![p] = "in"]
    BY <1>8 DEF Entered, Goto
  <2> QED
    BY <1>8, <2>1 DEF Entered, Types, Cycling, vmktVars, workVars
<1>9. CASE Exit(p)
  <2>1. pc' = [pc EXCEPT ![p] = "barrier"] \/ pc' = [pc EXCEPT ![p] = "catch"]
    BY <1>9 DEF Exit, Goto
  <2> QED
    BY <1>9, <2>1 DEF Exit, Types, Cycling, vmktVars, workVars
<1>10. CASE Caught(p)
  <2>1. pc' = [pc EXCEPT ![p] = "barrier"] \/ pc' = [pc EXCEPT ![p] = "catch"]
    BY <1>10 DEF Caught, Goto
  <2>2. released' \in [Thread -> BOOLEAN]
    BY <1>10 DEF Caught, Types
  <2>3. pc' \in [PET -> Starting \cup Cycling \cup Joining \cup {"out"}]
    BY <2>1 DEF Types, Cycling
  <2>4. at' \in [PET -> Nat]
    BY <1>10 DEF Caught, Types
  <2> QED
    BY <1>10, <2>2, <2>3, <2>4 DEF Caught, Types, workVars
<1>11. CASE Barrier(p)
  BY <1>11 DEF Barrier, Types, Goto, vmktVars, workVars
<1>12. CASE Shutdown(p)
  BY <1>12 DEF Shutdown, Types, Goto, Joining, vmktVars, workVars
<1>13. CASE JoinCatch(p)
  BY <1>13 DEF JoinCatch, Types, Goto, Joining, vmktVars, workVars
<1>14. CASE JoinCaught(p)
  BY <1>14 DEF JoinCaught, Types, Goto, Joining, workVars
<1>15. CASE JoinSignal(p)
  <2>1. \E l \in Quiet \cup Busy : tpc' = [tpc EXCEPT ![This(p)] = l]
    BY <1>15, ThisIn DEF JoinSignal, Types, Quiet
  <2> QED
    BY <1>15, <2>1, ThisIn DEF JoinSignal, Types, petVars, workVars
<1>16. CASE Join(p)
  BY <1>16 DEF Join, Types, vmktVars, workVars
<1>17. CASE Down(p)
  BY <1>17 DEF Down, Types, Goto, Joining, vmktVars, workVars
<1> QED
  BY <1>1, <1>2, <1>3, <1>4, <1>5, <1>6, <1>7, <1>8, <1>9, <1>10, <1>11, <1>12, <1>13, <1>14, <1>15,
     <1>16, <1>17 DEF Pet

\* A step of a thread through its loop keeps the types.
LEMMA VmktTypes == ASSUME NEW v \in Thread, Vmkt(v), Types, Places PROVE Types'
<1>1. CASE Sync1(v)
  <2>1. pc' = [pc EXCEPT ![Host(v)] = "synced1"]
    BY <1>1, WakeHost DEF Sync1
  <2> QED
    BY <1>1, <2>1 DEF Sync1, Run, Types, Starting, Quiet, workVars
<1>2. CASE Sync2(v)
  <2>1. pc' = [pc EXCEPT ![Host(v)] = "synced2"]
    BY <1>2, WakeHost DEF Sync2
  <2> QED
    BY <1>2, <2>1 DEF Sync2, Run, Types, Starting, Quiet, workVars
<1>3. CASE Wait(v)
  BY <1>3 DEF Wait, Run, Types, Quiet, petVars, workVars
<1>4. CASE WrapUp(v)
  BY <1>4 DEF WrapUp, Run, Types, Quiet, petVars, workVars
<1>5. CASE Finish(v)
  <2>1. pc' = [pc EXCEPT ![Host(v)] = "caught"] \/ pc' = [pc EXCEPT ![Host(v)] = "joinCaught"]
    BY <1>5, WakeHost DEF Finish
  <2> QED
    BY <1>5, <2>1 DEF Finish, Run, Types, Cycling, Joining, Quiet, workVars
<1> QED
  BY <1>1, <1>2, <1>3, <1>4, <1>5 DEF Vmkt

\* A step of a thread at work keeps the types.
LEMMA WorkTypes == ASSUME WorkStep, Types PROVE Types'
<1>1. CASE \E c \in Child : Begin(c) \/ Notified(c)
  BY <1>1 DEF Begin, Notified, Run, Types, Quiet, Busy, petVars, workVars
<1>2. ASSUME NEW c \in Child, End(c) PROVE Types'
  <2>1. From(c) \in SUBSET Contributor
    BY DEF From
  <2>2. ran' \in [Child -> Nat]
    BY <1>2 DEF End, Types
  <2>3. todo' \in [Child -> SUBSET Contributor]
    BY <1>2, <2>1 DEF End, Types
  <2>4. tpc' \in [Thread -> Quiet \cup Busy]
    BY <1>2 DEF End, Run, Types, Busy
  <2> QED
    BY <1>2, <2>2, <2>3, <2>4 DEF End, Types, petVars
<1>3. ASSUME NEW c \in Child, Kill(c) PROVE Types'
  <2>1. \E i : sig' = [sig EXCEPT ![i] = IF Queued THEN @ + 1 ELSE 1]
    BY <1>3 DEF Kill
  <2> DEFINE I == {Pid[p] : p \in PET}
  <2> HIDE DEF I
  <2>2. sig' \in [I -> Nat]
    <3>1. PICK i : sig' = [sig EXCEPT ![i] = IF Queued THEN @ + 1 ELSE 1]
      BY <2>1
    <3>2. sig \in [I -> Nat]
      BY DEF Types, I
    <3>3. \A j \in I : sig'[j] \in Nat
      BY <3>1, <3>2
    <3> QED
      BY <3>1, <3>2, <3>3
  <2> QED
    BY <1>3, <2>2 DEF I, Kill, Run, Types, Quiet, Busy, petVars
<1>4. ASSUME NEW c \in Child, Send(c) PROVE Types'
  <2>1. \E k : mail' = [mail EXCEPT ![k] = @ + 1]
    BY <1>4 DEF Send
  <2>2. mail' \in [Contributor -> Nat]
    <3>1. PICK k : mail' = [mail EXCEPT ![k] = @ + 1]
      BY <2>1
    <3>2. mail \in [Contributor -> Nat]
      BY DEF Types
    <3>3. \A j \in Contributor : mail'[j] \in Nat
      BY <3>1, <3>2
    <3> QED
      BY <3>1, <3>2, <3>3
  <2> QED
    BY <1>4, <2>2 DEF Send, Run, Types, Quiet, Busy, petVars
<1>5. ASSUME NEW c \in Child, NEW eager \in BOOLEAN, Sent(c, eager) PROVE Types'
  <2>1. todo' \in [Child -> SUBSET Contributor]
    BY <1>5 DEF Sent, Types
  <2> QED
    BY <1>5, <2>1 DEF Sent, Run, Types, Quiet, Busy, petVars
<1>6. ASSUME NEW k \in Contributor, SigWait(k) PROVE Types'
  <2>1. Pid[k] \in {Pid[p] : p \in PET}
    BY ServiceHost
  <2>2. sig[Pid[k]] \in Nat /\ sig[Pid[k]] > 0
    BY <1>6, <2>1 DEF SigWait, Types
  <2>3. sig[Pid[k]] - 1 \in Nat
    BY <2>2
  <2>4. sig' \in [{Pid[p] : p \in PET} -> Nat]
    BY <1>6, <2>3 DEF SigWait, Types
  <2> QED
    BY <1>6, <2>4 DEF SigWait, Run, Types, Quiet, Busy, petVars
<1>7. ASSUME NEW k \in Contributor, NEW b \in Contributor, Recv(k, b) PROVE Types'
  <2>1. mail[b] \in Nat /\ mail[b] > 0
    BY <1>7 DEF Recv, Types
  <2>2. mail[b] - 1 \in Nat
    BY <2>1
  <2>3. mail' \in [Contributor -> Nat]
    BY <1>7, <2>2 DEF Recv, Types
  <2> QED
    BY <1>7, <2>3 DEF Recv, Run, Types, Quiet, Busy, petVars
<1>8. ASSUME NEW k \in Contributor, WakeBlocker(k) PROVE Types'
  <2>1. tpc' = [tpc EXCEPT ![Blocker(target[k])] = IF @ = "block" THEN "awake" ELSE @,
                           ![Catcher(k)] = "finish"]
    BY <1>8 DEF WakeBlocker
  <2>2. tpc' \in [Thread -> Quiet \cup Busy]
    BY <2>1 DEF Types, Quiet, Busy
  <2> QED
    BY <1>8, <2>2 DEF WakeBlocker, Types, petVars, workVars
<1>9. CASE \E k \in Contributor : Block(k) \/ Unblock(k)
  BY <1>9 DEF Block, Unblock, Run, Types, Quiet, Busy, petVars, workVars
<1> QED
  BY <1>1, <1>2, <1>3, <1>4, <1>5, <1>6, <1>7, <1>8, <1>9 DEF WorkStep

------------------------------------------------------------------------------
(* The counts that the steps of PETs, and of threads in their loops, leave  *)
(* alone.                                                                   *)

QuietStep == \/ \E p \in PET : Pet(p)
             \/ \E v \in Thread : Vmkt(v)

\* Such a step moves a thread only between control points where it does no work.
LEMMA QuietPoints == ASSUME QuietStep, Types, Places, Slots, NEW v \in Thread
                     PROVE  /\ tpc'[v] = tpc[v] \/ (tpc[v] \in Quiet /\ tpc'[v] \in Quiet)
                            /\ UNCHANGED workVars
<1>1. CASE \E w \in Thread : Vmkt(w)
  BY <1>1 DEF Vmkt, Sync1, Sync2, Wait, WrapUp, Finish, Run, Quiet, Types, workVars
<1>2. ASSUME NEW p \in PET, Pet(p)
      PROVE  /\ tpc'[v] = tpc[v] \/ (tpc[v] \in Quiet /\ tpc'[v] \in Quiet)
             /\ UNCHANGED workVars
  <2>3. UNCHANGED workVars
    BY <1>2 DEF Pet, Create, Created1, Created2, Started, Enter, Listen, Release, Entered, Exit, Caught,
                Barrier, Shutdown, JoinCatch, JoinCaught, JoinSignal, Join, Down
  <2>1. CASE Create(p)
    <3>1. pc[p] = "create" /\ MoreOwn(p) /\ tpc' = [tpc EXCEPT ![This(p)] = "born"]
      BY <2>1 DEF Create, Run
    <3>2. at[p] \in 1..(Len(Own(p)) + 1) /\ Len(Own(p)) \in Nat
      BY OwnSeq DEF Places, AtPlace
    <3>3. This(p) \in Thread /\ Host(This(p)) = p /\ Place(This(p)) = at[p]
      BY <3>1, <3>2, ThisThread
    <3>4. tpc[This(p)] = "none"
      <4>1. Slot(pc[p], at[p], round[p], at[p], tpc[This(p)], ended[This(p)], released[This(p)])
        BY <3>3 DEF Slots
      <4> QED
        BY <3>1, <4>1 DEF Slot, NotYet
    <3> HIDE DEF This
    <3> QED
      BY <2>3, <3>1, <3>3, <3>4 DEF Types, Quiet
  <2>2. CASE Release(p) \/ JoinSignal(p)
    <3>1. MoreOwn(p) /\ Mut1Free(This(p)) /\ UNCHANGED workVars
          /\ tpc' = [tpc EXCEPT ![This(p)] = IF @ = "waiting" THEN "released" ELSE @]
      BY <2>2 DEF Release, JoinSignal
    <3> QED
      BY <3>1, ThisIn DEF Types, Quiet, Mut1Free
  <2>4. Create(p) \/ Release(p) \/ JoinSignal(p) \/ tpc' = tpc
    BY <1>2 DEF Pet, Created1, Created2, Started, Enter, Listen, Entered, Exit, Caught,
                Barrier, Shutdown, JoinCatch, JoinCaught, Join, Down, vmktVars
  <2> QED
    BY <2>1, <2>2, <2>3, <2>4
<1> QED
  BY <1>1, <1>2 DEF QuietStep

\* Nor does it change in how many cycles a thread has done what it waits for, however far its
\* PET has got: a release adds a cycle that is still to be done.
LEMMA QuietDone == ASSUME QuietStep, Types, Places, Slots, NEW v \in Thread, NEW L,
                          \A l \in Quiet : l \in L <=> l = "released"
                   PROVE  Done(v, L)' = Done(v, L)
<1> DEFINE p == Host(v)
           i == Place(v)
<1>1. /\ p \in PET /\ i \in Nat /\ i >= 1 /\ i <= Len(Own(p)) /\ Len(Own(p)) \in Nat
  <2>1. p \in PET /\ i \in 1..Len(Own(p)) /\ Len(Own(p)) \in Nat
    BY OwnSeq, HostPlace
  <2> QED
    BY <2>1
<1>2. at[p] \in Nat /\ at[p] >= 1 /\ round[p] \in Nat /\ AtPlace(p)
  <2>1. at[p] \in 1..(Len(Own(p)) + 1)
    BY <1>1 DEF Places, AtPlace
  <2> QED
    BY <1>1, <2>1 DEF Places, Types
<1>3. Slot(pc[p], at[p], round[p], i, tpc[v], ended[v], released[v])
  BY DEF Slots
<1>4. tpc'[v] = tpc[v] \/ (tpc[v] \in Quiet /\ tpc'[v] \in Quiet)
  BY QuietPoints
<1> DEFINE late == pc[p] = "listen" \/ (pc[p] = "release" /\ at[p] <= i)
           lateP == pc'[p] = "listen" \/ (pc'[p] = "release" /\ at'[p] <= i)
           waits == tpc[v] \in L /\ ~ended[v]
           waitsP == tpc'[v] \in L /\ ~ended'[v]
<1>5. /\ Done(v, L) = IF late THEN (IF waits THEN round[p] - 1 - 1 ELSE round[p] - 1)
                              ELSE (IF waits THEN round[p] - 1 ELSE round[p])
      /\ Done(v, L)' = IF lateP THEN (IF waitsP THEN round'[p] - 1 - 1 ELSE round'[p] - 1)
                                ELSE (IF waitsP THEN round'[p] - 1 ELSE round'[p])
  BY DEF Done, Cycle
<1>6. MoreOwn(p) <=> at[p] <= Len(Own(p))
  BY DEF MoreOwn
<1>7. MoreOwn(p) => (v = This(p) <=> i = at[p])
  BY <1>1, <1>2, ThisThread
<1> HIDE DEF p, i
\* Either the threads of p do not wait otherwise, and its cycle is the same ...
<1>8. CASE /\ round'[p] = round[p] /\ (late <=> lateP) /\ (waits <=> waitsP)
  BY <1>5, <1>8
\* ... or a cycle begins, or the thread is released for it.
<1>9. CASE /\ round'[p] = round[p] + 1 /\ ~late /\ lateP /\ (waits <=> waitsP)
  BY <1>2, <1>5, <1>9
<1>10. CASE /\ round'[p] = round[p] /\ late /\ ~lateP /\ ~waits /\ waitsP
  BY <1>2, <1>5, <1>10
<1>11. ASSUME NEW q \in PET, Pet(q), q # p
       PROVE  /\ round'[p] = round[p] /\ (late <=> lateP) /\ (waits <=> waitsP)
  BY <1>1, <1>11, PetIsOnly DEF PetOnly, p
<1>12. ASSUME NEW w \in Thread, Vmkt(w)
       PROVE  /\ round'[p] = round[p] /\ (late <=> lateP) /\ (waits <=> waitsP)
  <2>1. round' = round /\ at' = at /\ ended' = ended
    BY <1>12 DEF Vmkt, Sync1, Sync2, Wait, WrapUp, Finish, petVars
  <2>2. late <=> lateP
    <3>1. pc'[p] = pc[p] \/ (/\ pc'[p] \in {"synced1", "synced2", "caught", "joinCaught"}
                            /\ pc[p] \notin {"listen", "release"})
      <4>1. CASE Wait(w) \/ WrapUp(w)
        BY <4>1 DEF Wait, WrapUp, petVars
      <4>2. CASE Sync1(w) \/ Sync2(w) \/ Finish(w)
        <5>1. \E m \in {"synced1", "synced2", "caught", "joinCaught"} :
                Wake(w, m)
          BY <4>2 DEF Sync1, Sync2, Finish
        <5> QED
          BY <1>1, <5>1 DEF Wake
      <4> QED
        BY <1>12, <4>1, <4>2 DEF Vmkt
    <3> QED
      BY <2>1, <3>1
  <2>3. waits <=> waitsP
    <3>1. CASE tpc'[v] = tpc[v]
      BY <2>1, <3>1
    <3>2. CASE WrapUp(w) /\ w = v
      BY <2>1, <3>2 DEF WrapUp
    <3>3. CASE tpc[v] # "released" /\ tpc'[v] # "released" /\ tpc[v] \in Quiet /\ tpc'[v] \in Quiet
      BY <2>1, <3>3
    <3>4. \/ tpc'[v] = tpc[v] \/ (WrapUp(w) /\ w = v) \/ (tpc[v] # "released" /\ tpc'[v] # "released")
      BY <1>12 DEF Vmkt, Sync1, Sync2, Wait, WrapUp, Finish, Run, Types
    <3> QED
      BY <1>4, <3>1, <3>2, <3>3, <3>4
  <2> QED
    BY <2>1, <2>2, <2>3
<1>13. ASSUME Pet(p)
       PROVE  \/ round'[p] = round[p] /\ (late <=> lateP) /\ (waits <=> waitsP)
              \/ round'[p] = round[p] + 1 /\ ~late /\ lateP /\ (waits <=> waitsP)
              \/ round'[p] = round[p] /\ late /\ ~lateP /\ ~waits /\ waitsP
  <2>1. CASE Create(p)
    <3>1. round'[p] = round[p] /\ pc[p] = "create" /\ pc'[p] = "sync1" /\ ended' = ended
      BY <1>1, <2>1 DEF Create, Goto, Types
    <3>2. tpc'[v] = tpc[v] \/ tpc'[v] = "born"
      BY <2>1 DEF Create, Run, Types
    <3>3. tpc'[v] = tpc[v] \/ tpc[v] = "none"
      <4>1. i # at[p] => tpc'[v] = tpc[v]
        BY <1>7, <2>1 DEF Create, Run, Types
      <4>2. i = at[p] => tpc[v] = "none"
        BY <1>3, <3>1 DEF Slot, NotYet
      <4> QED
        BY <4>1, <4>2
    <3> QED
      BY <3>1, <3>2, <3>3 DEF Quiet
  <2>2. CASE Created1(p) \/ Created2(p) \/ Started(p) \/ Exit(p) \/ Caught(p) \/ Barrier(p) \/ Shutdown(p)
             \/ JoinCatch(p) \/ JoinCaught(p) \/ Join(p) \/ Down(p)
    <3>1. round' = round /\ tpc' = tpc /\ ended' = ended
      BY <2>2 DEF Created1, Created2, Started, Exit, Caught, Barrier, Shutdown, JoinCatch, JoinCaught, Join,
                  Down, vmktVars
    <3>2. pc[p] \notin {"listen", "release"} /\ pc'[p] \notin {"listen", "release"}
      BY <1>1, <2>2 DEF Created1, Created2, Started, Exit, Caught, Barrier, Shutdown, JoinCatch, JoinCaught,
                  Join, Down, Goto, Types
    <3> QED
      BY <3>1, <3>2
  <2>3. CASE Enter(p)
    <3>1. /\ round'[p] = round[p] + 1 /\ tpc' = tpc /\ ended' = ended /\ pc[p] = "out"
          /\ pc'[p] \in {"listen", "release"} /\ at'[p] = 1
      BY <1>1, <2>3 DEF Enter, Goto, Types, vmktVars
    <3> QED
      BY <1>1, <3>1
  <2>4. CASE Listen(p)
    <3>1. /\ round'[p] = round[p] /\ tpc' = tpc /\ ended' = ended /\ pc[p] = "listen"
          /\ pc'[p] = "release" /\ at'[p] = at[p]
      BY <1>1, <2>4 DEF Listen, Goto, Types, vmktVars
    <3>2. at[p] = 1
      BY <1>2, <3>1 DEF AtPlace
    <3> QED
      BY <1>1, <3>1, <3>2
  <2>5. CASE Release(p)
    <3>1. /\ round'[p] = round[p] /\ ended' = ended /\ pc[p] = "release" /\ pc'[p] = "release"
          /\ at'[p] = at[p] + 1 /\ MoreOwn(p) /\ Mut1Free(This(p))
          /\ tpc' = [tpc EXCEPT ![This(p)] = IF @ = "waiting" THEN "released" ELSE @]
      BY <1>1, <2>5 DEF Release, Types
    <3>2. CASE i # at[p]
      BY <1>1, <1>2, <1>7, <3>1, <3>2 DEF Types
    <3>3. CASE i = at[p]
      <4>1. v = This(p)
        BY <1>7, <3>1, <3>3
      <4>2. tpc[v] \in {"born", "waiting"} /\ tpc'[v] = IF tpc[v] = "waiting" THEN "released" ELSE tpc[v]
        BY <3>1, <4>1 DEF Mut1Free, Types
      <4>3. tpc[v] \in IdleAt /\ ~ended[v]
        BY <1>2, <1>3, <3>1, <3>3 DEF Slot, Idle
      <4>4. tpc[v] = "waiting"
        BY <4>2, <4>3 DEF IdleAt
      <4>5. late /\ ~lateP
        BY <1>2, <3>1, <3>3
      <4> QED
        BY <3>1, <4>2, <4>3, <4>4, <4>5 DEF Quiet
    <3> QED
      BY <3>2, <3>3
  <2>6. CASE Entered(p)
    <3>1. /\ round'[p] = round[p] /\ tpc' = tpc /\ ended' = ended /\ pc[p] = "release"
          /\ pc'[p] \in {"in", "out"} /\ ~MoreOwn(p)
      BY <1>1, <2>6 DEF Entered, Goto, Types, vmktVars
    <3> QED
      BY <1>1, <1>2, <1>6, <3>1
  <2>7. CASE JoinSignal(p)
    <3>1. /\ round'[p] = round[p] /\ pc[p] = "join" /\ pc'[p] = "join"
          /\ MoreOwn(p) /\ Mut1Free(This(p))
          /\ tpc' = [tpc EXCEPT ![This(p)] = IF @ = "waiting" THEN "released" ELSE @]
          /\ ended' = [ended EXCEPT ![This(p)] = TRUE]
      BY <1>1, <2>7 DEF JoinSignal, petVars
    <3>2. CASE i # at[p]
      BY <1>7, <3>1, <3>2 DEF Types
    <3>3. CASE i = at[p]
      <4>1. v = This(p)
        BY <1>7, <3>1, <3>3
      <4>2. tpc[v] \in {"born", "waiting"} /\ ended'[v]
        BY <3>1, <4>1 DEF Mut1Free, Types
      <4> QED
        BY <3>1, <4>2 DEF Quiet
    <3> QED
      BY <3>2, <3>3
  <2> QED
    BY <1>13, <2>1, <2>2, <2>3, <2>4, <2>5, <2>6, <2>7 DEF Pet
<1> HIDE DEF late, lateP, waits, waitsP
<1> QED
  BY <1>8, <1>9, <1>10, <1>11, <1>12, <1>13 DEF QuietStep

------------------------------------------------------------------------------
(* The counts of a state: from the wakeups of a contributor to its releases *)

\* The cycle of a thread is the cycle of its PET, or the one before.
LEMMA CycleBounds == ASSUME Types, Places, NEW v \in Thread
                     PROVE  /\ Cycle(v) \in Nat /\ round[Host(v)] \in Nat
                            /\ Cycle(v) <= round[Host(v)] /\ round[Host(v)] <= Cycle(v) + 1
<1> DEFINE p == Host(v)
<1>1. p \in PET /\ round[p] \in Nat
  BY HostPlace DEF Types
<1>2. pc[p] \in {"listen", "release"} => round[p] > 0
  BY <1>1 DEF Places, AtPlace, Cycling
<1>3. Cycle(v) = round[p] \/ (pc[p] \in {"listen", "release"} /\ Cycle(v) = round[p] - 1)
  BY DEF Cycle
<1> QED
  BY <1>1, <1>2, <1>3

\* A thread waits in a cycle only when it has been released for it.
LEMMA DoneBounds == ASSUME Types, Places, Slots, NEW v \in Thread, NEW L \in SUBSET ActiveAt
                    PROVE  /\ Done(v, L) \in Nat /\ Done(v, L) <= Cycle(v)
                           /\ round[Host(v)] <= Done(v, L) + 1
                           /\ Cycle(v) <= Done(v, L) + 1
<1> DEFINE p == Host(v)
<1>1. CASE tpc[v] \in L /\ ~ended[v]
  <2>1. tpc[v] \in ActiveAt /\ ~ended[v] /\ p \in PET
    BY <1>1, HostPlace
  <2>2. tpc[v] \notin IdleAt /\ tpc[v] \notin {"none", "born", "locked", "over"}
    BY <2>1 DEF ActiveAt, IdleAt
  <2>3. /\ Slot(pc[p], at[p], round[p], Place(v), tpc[v], ended[v], released[v])
        /\ AtPlace(p) /\ pc[p] \in Starting \cup Cycling \cup Joining \cup {"out"}
        /\ at[p] \in Nat /\ Place(v) \in Nat /\ round[p] \in Nat
    BY <2>1, PlaceNat DEF Slots, Places, Types
  <2>4. pc[p] = "down" => Place(v) < at[p]
    <3>1. Place(v) \in 1..Len(Own(p)) /\ Len(Own(p)) \in Nat
      BY <2>1, HostPlace, OwnSeq
    <3> QED
      BY <2>3, <3>1 DEF AtPlace
  <2> HIDE DEF p
  <2>5. pc[p] # "listen" /\ (pc[p] = "release" => Place(v) < at[p])
    BY <2>1, <2>2, <2>3 DEF Slot, Idle, Active, Back, Over, NotYet
  <2>6. round[p] > 0
    <3>1. CASE pc[p] \in Cycling
      BY <2>3, <3>1 DEF AtPlace
    <3>2. CASE pc[p] \in Starting
      BY <2>1, <2>2, <2>3, <3>2 DEF Slot, Idle, Active, Back, Over, NotYet, Starting
    <3>3. CASE pc[p] \in Joining
      BY <2>1, <2>2, <2>3, <2>4, <3>3 DEF Slot, Idle, Active, Back, Over, NotYet, Joining, Kept, AtPlace
    <3>4. CASE pc[p] = "out"
      BY <2>1, <2>2, <2>3, <3>4 DEF Slot, Idle, Active, Kept
    <3> QED
      BY <2>3, <3>1, <3>2, <3>3, <3>4
  <2>7. Cycle(v) = round[p]
    BY <2>3, <2>5 DEF Cycle, p
  <2>8. Done(v, L) = round[p] - 1
    BY <1>1, <2>7 DEF Done
  <2> QED
    BY <2>3, <2>6, <2>7, <2>8 DEF p
<1>2. CASE ~(tpc[v] \in L /\ ~ended[v])
  <2>1. Done(v, L) = Cycle(v)
    BY <1>2 DEF Done
  <2> QED
    BY <2>1, CycleBounds
<1> QED
  BY <1>1, <1>2

\* A contributor has a wakeup for every cycle but the last, a message for every wakeup, a
\* signal for every message, a run of the child PET for every signal, releases that the
\* spawner has heard of for every run, and is released itself as often.
LEMMA Chain == ASSUME Types, Places, Slots, Work, Hellos, Tokens, NEW k \in Contributor
               PROVE  /\ round[k] \in Nat /\ Woken(k) \in Nat /\ Mailed(k) \in Int /\ Killed(k) \in Int
                      /\ ran[To[k]] \in Nat /\ Heard(Spawner(To[k])) \in Int
                      /\ Told(k) \in Int /\ Cycle(Blocker(k)) \in Nat
                      /\ round[k] <= Woken(k) + 1 /\ Woken(k) <= Cycle(Blocker(k))
                      /\ Woken(k) <= Mailed(k) /\ Mailed(k) <= Killed(k) /\ Killed(k) <= ran[To[k]]
                      /\ ran[To[k]] <= Mailed(k) + 1
                      /\ ran[To[k]] <= Heard(Spawner(To[k])) /\ Heard(Spawner(To[k])) <= Told(k)
                      /\ Told(k) <= Cycle(Blocker(k)) /\ Told(k) <= round[k]
<1> DEFINE c == To[k]
           p == Spawner(c)
           v == ChildThread(c)
<1>1. /\ k \in PET /\ Host(Blocker(k)) = k /\ Blocker(k) \in Thread /\ Place(Blocker(k)) = 1
      /\ c \in Child /\ v \in Thread /\ p \in PET /\ Host(v) = p
  BY ServiceHost, ChildHost
<1>2. {"released", "block"} \in SUBSET ActiveAt /\ {"released", "user"} \in SUBSET ActiveAt
  BY DEF ActiveAt
<1>3. /\ Woken(k) \in Nat /\ Woken(k) <= Cycle(Blocker(k)) /\ round[k] <= Woken(k) + 1
  BY <1>1, <1>2, DoneBounds DEF Woken
<1>4. /\ Cycle(Blocker(k)) \in Nat /\ round[k] \in Nat /\ Cycle(Blocker(k)) <= round[k]
  BY <1>1, CycleBounds
<1>5. Woken(k) <= Mailed(k)
  BY DEF Tokens
<1>6. ran[c] \in Nat
  BY <1>1 DEF Types
<1>7. /\ Mailed(k) \in {ran[c], ran[c] - 1} /\ Killed(k) \in {ran[c], ran[c] - 1}
      /\ Killed(k) = ran[c] - 1 => Mailed(k) = ran[c] - 1
  BY DEF Mailed, Killed, Left
<1>8. ran[c] <= Cycle(v)
  <2>1. ran[c] = Done(v, {"released", "user"})
    BY <1>1 DEF Work
  <2> QED
    BY <1>1, <1>2, <2>1, DoneBounds
<1>9. Cycle(v) <= Heard(p) /\ Heard(p) \in Int
  <2>1. round[p] \in Nat
    BY <1>1 DEF Types
  <2> QED
    BY <1>1, <2>1 DEF Cycle, Heard
<1>10. Told(k) = Heard(p) + hello[k] /\ hello[k] \in Nat
  BY DEF Hellos, Types
<1>11. Told(k) <= Cycle(Blocker(k)) /\ Told(k) \in Int /\ Told(k) <= round[k]
  <2>1. pc[k] # "listen"
    BY <1>1 DEF Places, AtPlace
  <2> QED
    BY <1>1, <1>4, <2>1 DEF Told, Cycle
<1>12. Cycle(v) \in Nat
  BY <1>1, CycleBounds
<1> HIDE DEF c, p, v
<1>13. /\ Mailed(k) \in Int /\ Killed(k) \in Int /\ Mailed(k) <= Killed(k) /\ Killed(k) <= ran[c]
       /\ ran[c] <= Mailed(k) + 1
  BY <1>6, <1>7
<1>14. ran[c] <= Heard(p)
  BY <1>6, <1>8, <1>9, <1>12
<1>15. Heard(p) <= Told(k)
  BY <1>9, <1>10
<1>16. /\ ran[To[k]] \in Nat /\ Heard(Spawner(To[k])) \in Int
       /\ Killed(k) <= ran[To[k]] /\ ran[To[k]] <= Mailed(k) + 1
       /\ ran[To[k]] <= Heard(Spawner(To[k])) /\ Heard(Spawner(To[k])) <= Told(k)
  BY <1>6, <1>9, <1>13, <1>14, <1>15 DEF c, p
<1> QED
  BY <1>3, <1>4, <1>5, <1>11, <1>13, <1>16

------------------------------------------------------------------------------
(* What steps of PETs, and of threads in their loops, preserve.             *)

\* Quiet steps take no thread into or out of its work ...
LEMMA QuietBusy == ASSUME QuietStep, Types, Places, Slots, NEW v \in Thread, NEW l \in Busy
                   PROVE  tpc'[v] = l <=> tpc[v] = l
BY QuietPoints DEF Quiet, Busy

\* ... so they change none of the notifications that are left,
LEMMA QuietLeft == ASSUME QuietStep, Types, Places, Slots, NEW k \in Contributor,
                          NEW L \in SUBSET Busy
                   PROVE  Left(k, L)' = Left(k, L)
<1> DEFINE v == ChildThread(To[k])
<1>1. v \in Thread
  BY ServiceHost, ChildHost
<1>2. ran' = ran /\ todo' = todo
  BY <1>1, QuietPoints DEF workVars
<1>3. tpc'[v] \in L <=> tpc[v] \in L
  BY <1>1, QuietBusy
<1> QED
  BY <1>2, <1>3 DEF Left

\* and none of the four counts of a contributor.
LEMMA QuietCounts == ASSUME QuietStep, Types, Places, Slots, NEW k \in Contributor
                     PROVE  /\ Woken(k)' = Woken(k) /\ Taken(k)' = Taken(k)
                            /\ Mailed(k)' = Mailed(k) /\ Killed(k)' = Killed(k)
<1>1. \A l \in Quiet : /\ l \in {"released", "block"} <=> l = "released"
                       /\ l \in {"released"} <=> l = "released"
  BY DEF Quiet
<1>2. {"send", "sending"} \in SUBSET Busy /\ {"sending"} \in SUBSET Busy
  BY DEF Busy
<1>3. Blocker(k) \in Thread /\ Catcher(k) \in Thread
  BY ServiceHost
<1>4. Done(Blocker(k), {"released", "block"})' = Done(Blocker(k), {"released", "block"})
  BY <1>1, <1>3, QuietDone
<1>5. Done(Catcher(k), {"released"})' = Done(Catcher(k), {"released"})
  BY <1>1, <1>3, QuietDone
<1>6. Left(k, {"send", "sending"})' = Left(k, {"send", "sending"})
  BY <1>2, QuietLeft
<1>7. Left(k, {"sending"})' = Left(k, {"sending"})
  BY <1>2, QuietLeft
<1> QED
  BY <1>4, <1>5, <1>6, <1>7 DEF Woken, Taken, Mailed, Killed

\* The record of what child PETs have done holds after a quiet step.
LEMMA QuietWork == ASSUME QuietStep, Types, Places, Slots, Work PROVE Work'
<1> SUFFICES ASSUME NEW c \in Child
             PROVE  LET v == ChildThread(c) IN
                      /\ ran'[c] = Done(v, {"released", "user"})'
                      /\ todo'[c] \subseteq From(c)
                      /\ tpc'[v] \notin Notifying => todo'[c] = {}
                      /\ tpc'[v] \in {"send", "sending"} => todo'[c] # {}
  BY DEF Work
<1> DEFINE v == ChildThread(c)
<1>1. v \in Thread
  BY ChildHost
<1>2. ran' = ran /\ todo' = todo
  BY <1>1, QuietPoints DEF workVars
<1>3. \A l \in Quiet : l \in {"released", "user"} <=> l = "released"
  BY DEF Quiet
<1>4. Done(v, {"released", "user"})' = Done(v, {"released", "user"})
  BY <1>1, <1>3, QuietDone
<1>5. tpc'[v] \in Notifying <=> tpc[v] \in Notifying
  BY <1>1, QuietBusy DEF Notifying, Busy
<1>6. tpc'[v] \in {"send", "sending"} <=> tpc[v] \in {"send", "sending"}
  BY <1>1, QuietBusy DEF Busy
<1>7. /\ ran[c] = Done(v, {"released", "user"})
      /\ todo[c] \subseteq From(c)
      /\ tpc[v] \notin Notifying => todo[c] = {}
      /\ tpc[v] \in {"send", "sending"} => todo[c] # {}
  BY DEF Work
<1> HIDE DEF v
<1>8. /\ ran'[c] = Done(v, {"released", "user"})'
      /\ todo'[c] \subseteq From(c)
      /\ tpc'[v] \notin Notifying => todo'[c] = {}
      /\ tpc'[v] \in {"send", "sending"} => todo'[c] # {}
  BY <1>2, <1>4, <1>5, <1>6, <1>7
<1> QED
  BY <1>8 DEF v

\* So does that of the messages and sigcatchers on their way to a blocker.
LEMMA QuietTokens == ASSUME QuietStep, Types, Places, Slots, Tokens PROVE Tokens'
<1>1. ASSUME NEW j \in Contributor, NEW k \in Contributor PROVE Waker(j, k)' <=> Waker(j, k)
  <2>1. Catcher(j) \in Thread
    BY ServiceHost
  <2>2. target' = target
    BY <2>1, QuietPoints DEF workVars
  <2> QED
    BY <2>1, <2>2, QuietBusy DEF Waker, Busy
<1>2. ASSUME NEW k \in Contributor
      PROVE  Woken(k)' = Woken(k) /\ Mailed(k)' = Mailed(k) /\ mail'[k] = mail[k]
  BY <1>2, QuietCounts, QuietPoints, ServiceHost DEF workVars
<1> QED
  BY <1>1, <1>2 DEF Tokens

\* A contributor tells its spawner once in every cycle, and the spawner hears every message
\* before it goes on: listen and release of the two can be in any order.
LEMMA QuietHellos == ASSUME QuietStep, Types, Places, Slots, Hellos PROVE Hellos'
<1> SUFFICES ASSUME NEW k \in Contributor
             PROVE  Told(k)' = Heard(Spawner(To[k]))' + hello'[k]
  BY DEF Hellos
<1> DEFINE s == Spawner(To[k])
<1>1. /\ k \in PET /\ s \in PET /\ s # k /\ Spawned[k] = <<>> /\ To[k] \in ToSet(Spawned[s])
  BY ServiceHost, ChildHost
<1>2. Spawned[s] # <<>>
  <2>1. \E i \in DOMAIN Spawned[s] : TRUE
    BY <1>1 DEF ToSet
  <2> QED
    BY <2>1
<1>3. Told(k) = Heard(s) + hello[k]
  BY DEF Hellos
<1>4. round[k] \in Nat /\ round[s] \in Nat /\ hello[k] \in Nat
  BY <1>1 DEF Types
<1>5. /\ Told(k) = IF pc[k] = "release" THEN round[k] - 1 ELSE round[k]
      /\ Told(k)' = IF pc'[k] = "release" THEN round'[k] - 1 ELSE round'[k]
      /\ Heard(s) = IF pc[s] = "listen" THEN round[s] - 1 ELSE round[s]
      /\ Heard(s)' = IF pc'[s] = "listen" THEN round'[s] - 1 ELSE round'[s]
  BY DEF Told, Heard
<1> HIDE DEF s
<1>6. CASE \E v \in Thread : Vmkt(v)
  <2>1. round' = round /\ hello' = hello
    BY <1>6 DEF Vmkt, Sync1, Sync2, Wait, WrapUp, Finish, petVars
  <2>2. \A p \in PET : pc'[p] = pc[p] \/ {pc[p], pc'[p]} \cap {"listen", "release"} = {}
    <3>1. CASE pc' = pc
      BY <3>1
    <3>2. CASE \E v \in Thread : \E m \in {"synced1", "synced2", "caught", "joinCaught"} : Wake(v, m)
      BY <3>2 DEF Wake
    <3> QED
      BY <1>6, <3>1, <3>2 DEF Vmkt, Sync1, Sync2, Wait, WrapUp, Finish, petVars
  <2>3. pc'[k] = "release" <=> pc[k] = "release"
    BY <1>1, <2>2
  <2>4. pc'[s] = "listen" <=> pc[s] = "listen"
    BY <1>1, <2>2
  <2>5. Told(k)' = Told(k) /\ Heard(s)' = Heard(s)
    BY <1>5, <2>1, <2>3, <2>4
  <2> QED
    BY <1>3, <2>1, <2>5 DEF s
<1>7. ASSUME NEW p \in PET, Pet(p) PROVE Told(k)' = Heard(s)' + hello'[k]
  <2>1. \A q \in PET \ {p} : pc'[q] = pc[q] /\ round'[q] = round[q]
    BY <1>7, PetIsOnly DEF PetOnly
  <2>2. CASE Enter(p)
    <3>1. /\ hello' = hello /\ round'[p] = round[p] + 1 /\ pc[p] = "out"
          /\ pc'[p] = (IF Spawned[p] = <<>> THEN "release" ELSE "listen")
      BY <2>2 DEF Enter, Goto, Types
    <3>2. CASE p = k
      BY <1>1, <1>3, <1>4, <1>5, <2>1, <3>1, <3>2
    <3>3. CASE p = s
      BY <1>1, <1>2, <1>3, <1>4, <1>5, <2>1, <3>1, <3>3
    <3>4. CASE p # k /\ p # s
      BY <1>1, <1>3, <1>5, <2>1, <3>1, <3>4
    <3> QED
      BY <3>2, <3>3, <3>4
  <2>3. CASE Listen(p)
    <3>1. round'[p] = round[p] /\ pc[p] = "listen" /\ pc'[p] = "release"
      BY <2>3 DEF Listen, Goto, Types
    <3>2. /\ p = s => hello[k] > 0 /\ hello'[k] = hello[k] - 1
          /\ p # s => hello'[k] = hello[k]
      BY <2>3 DEF Listen, s
    <3>3. p # k
      BY <3>1 DEF Places, AtPlace
    <3>4. Told(k)' = Told(k)
      BY <1>1, <1>5, <2>1, <3>3
    <3>5. CASE p = s
      <4>1. Heard(s) = round[s] - 1 /\ Heard(s)' = round[s]
        BY <1>5, <3>1, <3>5
      <4> QED
        BY <1>3, <1>4, <3>2, <3>4, <3>5, <4>1
    <3>6. CASE p # s
      <4>1. Heard(s)' = Heard(s)
        BY <1>1, <1>5, <2>1, <3>6
      <4> QED
        BY <1>3, <3>2, <3>4, <3>6, <4>1
    <3> QED
      BY <3>5, <3>6
  <2>4. CASE Entered(p)
    <3>1. round'[p] = round[p] /\ pc[p] = "release" /\ pc'[p] \in {"in", "out"}
      BY <2>4 DEF Entered, Goto, Types
    <3>2. hello'[k] = IF p = k THEN hello[k] + 1 ELSE hello[k]
      BY <2>4 DEF Entered
    <3>3. Heard(s)' = Heard(s)
      <4>1. round'[s] = round[s] /\ (pc'[s] = "listen" <=> pc[s] = "listen")
        BY <1>1, <2>1, <3>1
      <4> QED
        BY <1>5, <4>1
    <3>4. CASE p = k
      <4>1. Told(k) = round[k] - 1 /\ Told(k)' = round[k]
        BY <1>5, <3>1, <3>4
      <4>2. Heard(s) \in Int
        BY <1>4, <1>5
      <4> QED
        BY <1>3, <1>4, <3>2, <3>3, <3>4, <4>1, <4>2
    <3>5. CASE p # k
      <4>1. Told(k)' = Told(k)
        BY <1>1, <1>5, <2>1, <3>5
      <4> QED
        BY <1>3, <3>2, <3>3, <3>5, <4>1
    <3> QED
      BY <3>4, <3>5
  <2>5. CASE Create(p) \/ Created1(p) \/ Created2(p) \/ Started(p) \/ Exit(p) \/ Caught(p) \/ Barrier(p)
             \/ Shutdown(p) \/ JoinCatch(p) \/ JoinCaught(p) \/ Down(p)
    <3>1. round' = round /\ hello' = hello
      BY <2>5 DEF Create, Created1, Created2, Started, Exit, Caught, Barrier, Shutdown, JoinCatch, JoinCaught,
                  Down
    <3>2. pc[p] \notin {"listen", "release"} /\ pc'[p] \notin {"listen", "release"}
      BY <2>5 DEF Create, Created1, Created2, Started, Exit, Caught, Barrier, Shutdown, JoinCatch, JoinCaught,
                  Down, Goto, Types
    <3> QED
      BY <1>1, <1>3, <1>5, <2>1, <3>1, <3>2
  <2>6. CASE Release(p) \/ Join(p) \/ JoinSignal(p)
    <3>1. round' = round /\ hello' = hello /\ pc' = pc
      BY <2>6 DEF Release, Join, JoinSignal, petVars
    <3> QED
      BY <1>3, <1>5, <3>1
  <2> QED
    BY <1>7, <2>2, <2>3, <2>4, <2>5, <2>6 DEF Pet
<1> QED
  BY <1>6, <1>7 DEF QuietStep, s

\* No PET falls behind a barrier it has reached ...
LEMMA QuietForward == ASSUME QuietStep, Types, Places, NEW q \in PET
                      PROVE  \/ round'[q] > round[q]
                             \/ /\ round'[q] = round[q]
                                /\ pc[q] \in Joining \cup {"barrier", "out"}
                                     => pc'[q] \in Joining \cup {"barrier", "out"}
<1>1. round[q] \in Nat
  BY DEF Types
<1>2. CASE \E v \in Thread : Vmkt(v)
  <2>1. round' = round
    BY <1>2 DEF Vmkt, Sync1, Sync2, Wait, WrapUp, Finish, petVars
  <2>2. CASE pc' = pc
    BY <2>1, <2>2
  <2>3. CASE \E v \in Thread : \/ ParentIn(v, "sync1") /\ Wake(v, "synced1")
                               \/ ParentIn(v, "sync2") /\ Wake(v, "synced2")
                               \/ ParentIn(v, "catch") /\ Wake(v, "caught")
                               \/ ParentIn(v, "joinCatch") /\ Wake(v, "joinCaught")
    <3>1. PICK v \in Thread : \/ ParentIn(v, "sync1") /\ Wake(v, "synced1")
                              \/ ParentIn(v, "sync2") /\ Wake(v, "synced2")
                              \/ ParentIn(v, "catch") /\ Wake(v, "caught")
                              \/ ParentIn(v, "joinCatch") /\ Wake(v, "joinCaught")
      BY <2>3
    <3>2. \/ pc[Host(v)] = "sync1" /\ pc' = [pc EXCEPT ![Host(v)] = "synced1"]
          \/ pc[Host(v)] = "sync2" /\ pc' = [pc EXCEPT ![Host(v)] = "synced2"]
          \/ pc[Host(v)] = "catch" /\ pc' = [pc EXCEPT ![Host(v)] = "caught"]
          \/ pc[Host(v)] = "joinCatch" /\ pc' = [pc EXCEPT ![Host(v)] = "joinCaught"]
      BY <3>1, WakeHost
    <3> QED
      BY <2>1, <3>2 DEF Types, Joining
  <2> QED
    BY <1>2, <2>2, <2>3 DEF Vmkt, Sync1, Sync2, Wait, WrapUp, Finish, petVars
<1>3. ASSUME NEW p \in PET, Pet(p)
      PROVE  \/ round'[q] > round[q]
             \/ /\ round'[q] = round[q]
                /\ pc[q] \in Joining \cup {"barrier", "out"} => pc'[q] \in Joining \cup {"barrier", "out"}
  <2>1. CASE q # p
    BY <1>3, <2>1, PetIsOnly DEF PetOnly
  <2>2. CASE Enter(p) /\ q = p
    <3>1. round'[q] = round[q] + 1
      BY <2>2 DEF Enter, Types
    <3> QED
      BY <1>1, <3>1
  <2>3. CASE Create(p) \/ Created1(p) \/ Created2(p) \/ Started(p) \/ Listen(p) \/ Entered(p) \/ Exit(p)
             \/ Caught(p)
    <3>1. round' = round /\ pc[p] \notin Joining \cup {"barrier", "out"}
      BY <2>3 DEF Create, Created1, Created2, Started, Listen, Entered, Exit, Caught, Joining
    <3> QED
      BY <2>1, <3>1
  <2>4. CASE Barrier(p) \/ Shutdown(p) \/ JoinCatch(p) \/ JoinCaught(p) \/ Down(p)
    <3>1. round' = round /\ pc'[p] \in Joining \cup {"out"}
      BY <2>4 DEF Barrier, Shutdown, JoinCatch, JoinCaught, Down, Goto, Types, Joining
    <3> QED
      BY <2>1, <3>1
  <2>5. CASE Release(p) \/ Join(p) \/ JoinSignal(p)
    <3>1. round' = round /\ pc' = pc
      BY <2>5 DEF Release, Join, JoinSignal, petVars
    <3> QED
      BY <3>1
  <2> QED
    BY <1>3, <2>1, <2>2, <2>3, <2>4, <2>5 DEF Pet
<1> QED
  BY <1>2, <1>3 DEF QuietStep

\* ... and one counts a cycle more as crossed only when it gets past its barrier.
LEMMA QuietCrossed == ASSUME QuietStep, Types, Places, NEW q \in PET
                      PROVE  \/ Crossed(q)' = Crossed(q)
                             \/ Barrier(q) /\ Crossed(q)' = round[q] /\ round[q] > 0
<1>1. round[q] \in Nat /\ round[q] <= Rounds /\ Rounds \in Nat
  BY PetAssumption DEF Types
<1> DEFINE past == pc[q] \in Joining \cup {"out"}
           pastP == pc'[q] \in Joining \cup {"out"}
<1>2. /\ Crossed(q) = IF past /\ (ExitLast \/ round[q] < Rounds) THEN round[q]
                      ELSE IF round[q] > 0 THEN round[q] - 1 ELSE 0
      /\ Crossed(q)' = IF pastP /\ (ExitLast \/ round'[q] < Rounds) THEN round'[q]
                       ELSE IF round'[q] > 0 THEN round'[q] - 1 ELSE 0
  BY DEF Crossed
<1> HIDE DEF past, pastP
<1>3. CASE round'[q] = round[q] /\ (past <=> pastP)
  BY <1>2, <1>3
<1>4. CASE \E v \in Thread : Vmkt(v)
  <2>1. round' = round
    BY <1>4 DEF Vmkt, Sync1, Sync2, Wait, WrapUp, Finish, petVars
  <2>2. past <=> pastP
    <3>1. CASE pc' = pc
      BY <3>1 DEF past, pastP
    <3>2. CASE \E v \in Thread : \/ ParentIn(v, "sync1") /\ Wake(v, "synced1")
                                 \/ ParentIn(v, "sync2") /\ Wake(v, "synced2")
                                 \/ ParentIn(v, "catch") /\ Wake(v, "caught")
                                 \/ ParentIn(v, "joinCatch") /\ Wake(v, "joinCaught")
      <4>1. PICK v \in Thread : \/ ParentIn(v, "sync1") /\ Wake(v, "synced1")
                                \/ ParentIn(v, "sync2") /\ Wake(v, "synced2")
                                \/ ParentIn(v, "catch") /\ Wake(v, "caught")
                                \/ ParentIn(v, "joinCatch") /\ Wake(v, "joinCaught")
        BY <3>2
      <4>2. \/ pc[Host(v)] = "sync1" /\ pc' = [pc EXCEPT ![Host(v)] = "synced1"]
            \/ pc[Host(v)] = "sync2" /\ pc' = [pc EXCEPT ![Host(v)] = "synced2"]
            \/ pc[Host(v)] = "catch" /\ pc' = [pc EXCEPT ![Host(v)] = "caught"]
            \/ pc[Host(v)] = "joinCatch" /\ pc' = [pc EXCEPT ![Host(v)] = "joinCaught"]
        BY <4>1, WakeHost
      <4> QED
        BY <4>2 DEF Types, Joining, past, pastP
    <3> QED
      BY <1>4, <3>1, <3>2 DEF Vmkt, Sync1, Sync2, Wait, WrapUp, Finish, petVars
  <2> QED
    BY <1>3, <2>1, <2>2
<1>5. ASSUME NEW p \in PET, Pet(p)
      PROVE  \/ Crossed(q)' = Crossed(q)
             \/ Barrier(q) /\ Crossed(q)' = round[q] /\ round[q] > 0
  <2>1. CASE q # p
    <3>1. round'[q] = round[q] /\ pc'[q] = pc[q]
      BY <1>5, <2>1, PetIsOnly DEF PetOnly
    <3> QED
      BY <1>3, <3>1 DEF past, pastP
  <2>2. CASE Enter(p) /\ q = p
    <3>1. round'[q] = round[q] + 1 /\ past /\ round[q] < Rounds /\ ~pastP
      BY <2>2 DEF Enter, Goto, Types, Joining, past, pastP
    <3> QED
      BY <1>1, <1>2, <3>1
  <2>3. CASE Create(p) \/ Created1(p) \/ Created2(p) \/ Listen(p) \/ Exit(p) \/ Caught(p)
    <3>1. round' = round /\ pc[p] \notin Joining \cup {"out"} /\ pc'[p] \notin Joining \cup {"out"}
      BY <2>3 DEF Create, Created1, Created2, Listen, Exit, Caught, Goto, Types, Joining
    <3> QED
      BY <1>3, <2>1, <3>1 DEF past, pastP
  <2>4. CASE Shutdown(p) \/ JoinCatch(p) \/ JoinCaught(p) \/ Down(p)
    <3>1. round' = round /\ pc[p] \in Joining \cup {"out"} /\ pc'[p] \in Joining \cup {"out"}
      BY <2>4 DEF Shutdown, JoinCatch, JoinCaught, Down, Goto, Types, Joining
    <3> QED
      BY <1>3, <2>1, <3>1 DEF past, pastP
  <2>5. CASE Release(p) \/ Join(p) \/ JoinSignal(p)
    <3>1. round' = round /\ pc' = pc
      BY <2>5 DEF Release, Join, JoinSignal, petVars
    <3> QED
      BY <1>3, <3>1 DEF past, pastP
  <2>6. CASE Started(p) /\ q = p
    <3>1. round'[q] = round[q] /\ round[q] = 0
      BY <2>6 DEF Started, Places, AtPlace, Starting
    <3> QED
      BY <1>1, <1>2, <3>1
  <2>7. CASE Entered(p) /\ q = p
    <3>1. round'[q] = round[q] /\ ~past
      BY <2>7 DEF Entered, Joining, past
    <3>2. pastP => round[q] = Rounds /\ ~ExitLast
      BY <2>7 DEF Entered, Goto, Types, Joining, pastP
    <3> QED
      BY <1>1, <1>2, <3>1, <3>2
  <2>8. CASE Barrier(p) /\ q = p
    <3>1. round'[q] = round[q] /\ pastP /\ pc[q] = "barrier"
      BY <2>8 DEF Barrier, Goto, Types, pastP
    <3>2. round[q] > 0 /\ ~Kept(round[q])
      BY <3>1 DEF Places, AtPlace, Cycling
    <3> QED
      BY <1>1, <1>2, <2>8, <3>1, <3>2, FlagAssumption DEF Kept
  <2> QED
    BY <1>5, <2>1, <2>2, <2>3, <2>4, <2>5, <2>6, <2>7, <2>8 DEF Pet
<1> QED
  BY <1>4, <1>5 DEF QuietStep

\* A PET that has crossed the barrier of a cycle leaves no PET of its process behind it.
LEMMA QuietBarriers == ASSUME QuietStep, Types, Places, Barriers PROVE Barriers'
<1> SUFFICES ASSUME NEW p \in PET, NEW q \in PET, Pid[p] = Pid[q], Crossed(p)' > 0
             PROVE  \/ round'[q] > Crossed(p)'
                    \/ round'[q] = Crossed(p)' /\ pc'[q] \in Joining \cup {"barrier", "out"}
  BY DEF Barriers
<1>1. /\ round[q] \in Nat /\ round'[q] \in Nat /\ round[p] \in Nat
  <2>1. Types'
    BY PetTypes, VmktTypes DEF QuietStep
  <2>2. round' \in [PET -> 0..Rounds]
    BY <2>1 DEF Types
  <2> QED
    BY <2>2 DEF Types
<1>2. Crossed(p) \in Nat
  BY <1>1 DEF Crossed
<1>3. CASE Crossed(p)' = Crossed(p)
  <2>1. \/ round[q] > Crossed(p)
        \/ round[q] = Crossed(p) /\ pc[q] \in Joining \cup {"barrier", "out"}
    BY <1>3 DEF Barriers
  <2> QED
    BY <1>1, <1>2, <1>3, <2>1, QuietForward
<1>4. CASE Barrier(p) /\ Crossed(p)' = round[p]
  <2>1. \/ round[q] > round[p]
        \/ round[q] = round[p] /\ pc[q] \in {"barrier", "out", "join", "down"}
    BY <1>4 DEF Barrier
  <2>2. \/ round[q] > round[p]
        \/ round[q] = round[p] /\ pc[q] \in Joining \cup {"barrier", "out"}
    BY <2>1 DEF Joining
  <2> QED
    BY <1>1, <1>4, <2>2, QuietForward
<1> QED
  BY <1>3, <1>4, QuietCrossed

\* A signal is pending or a sigcatcher is away with it for no more contributors of a process
\* than have been signalled for in their cycle; a contributor leaves both sets as it enters the
\* next one.
LEMMA QuietSignals == ASSUME QuietStep, Types, Places, Slots, Work, Hellos, Tokens, Signals
                      PROVE  Signals'
<1> SUFFICES ASSUME NEW i \in {Pid[p] : p \in PET}
             PROVE  sig'[i] + Cardinality(TakenIn(i)') <= Cardinality(KilledIn(i)')
  BY DEF Signals
<1>1. sig[i] + Cardinality(TakenIn(i)) <= Cardinality(KilledIn(i)) /\ sig[i] \in Nat
  BY DEF Signals, Types
<1>2. sig' = sig
  <2>1. CASE \E v \in Thread : Vmkt(v)
    BY <2>1 DEF Vmkt, Sync1, Sync2, Wait, WrapUp, Finish, workVars
  <2>2. CASE \E p \in PET : Pet(p)
    BY <2>2 DEF Pet, Create, Created1, Created2, Started, Enter, Listen, Release, Entered, Exit, Caught,
                Barrier, Shutdown, JoinCatch, JoinCaught, JoinSignal, Join, Down, workVars
  <2> QED
    BY <2>1, <2>2 DEF QuietStep
<1>3. \A k \in Contributor : Taken(k)' = Taken(k) /\ Killed(k)' = Killed(k)
  BY QuietCounts
<1>4. /\ TakenIn(i) \in SUBSET Contributor /\ KilledIn(i) \in SUBSET Contributor
      /\ TakenIn(i)' = {k \in Contributor : Pid[k] = i /\ Taken(k) = round'[k]}
      /\ KilledIn(i)' = {k \in Contributor : Pid[k] = i /\ Killed(k) = round'[k]}
  BY <1>3 DEF TakenIn, KilledIn
<1>5. CASE \A k \in Contributor : round'[k] = round[k]
  <2>1. TakenIn(i)' = TakenIn(i) /\ KilledIn(i)' = KilledIn(i)
    BY <1>4, <1>5 DEF TakenIn, KilledIn
  <2> QED
    BY <1>1, <1>2, <2>1
<1>6. ASSUME NEW k \in Contributor, Enter(k)
      PROVE  sig'[i] + Cardinality(TakenIn(i)') <= Cardinality(KilledIn(i)')
  <2>1. /\ k \in PET /\ pc[k] = "out" /\ round[k] < Rounds
        /\ round' = [round EXCEPT ![k] = @ + 1]
    BY <1>6, ServiceHost DEF Enter
  <2>2. /\ round[k] \in Nat /\ round'[k] = round[k] + 1
        /\ \A j \in Contributor \ {k} : round'[j] = round[j]
    BY <2>1, ServiceHost DEF Types
  <2>3. ASSUME NEW v \in Thread, Host(v) = k, NEW L \in SUBSET ActiveAt PROVE Done(v, L) = round[k]
    <3>1. Slot(pc[k], at[k], round[k], Place(v), tpc[v], ended[v], released[v])
      BY <2>3 DEF Slots
    <3>2. Idle(tpc[v], ended[v], released[v])
      BY <2>1, <2>2, <3>1 DEF Slot, Kept
    <3>3. tpc[v] \notin L
      BY <2>3, <3>2 DEF Idle, IdleAt, ActiveAt
    <3>4. Cycle(v) = round[k]
      BY <2>1, <2>3 DEF Cycle
    <3> QED
      BY <3>3, <3>4 DEF Done
  <2>4. Taken(k) = round[k] /\ Woken(k) = round[k]
    <3>1. {"released"} \in SUBSET ActiveAt /\ {"released", "block"} \in SUBSET ActiveAt
      BY DEF ActiveAt
    <3> QED
      BY <2>3, <3>1, ServiceHost DEF Taken, Woken
  <2>5. Killed(k) = round[k]
    BY <2>2, <2>4, Chain
  <2>6. CASE Pid[k] = i
    <3>1. k \in TakenIn(i) /\ k \in KilledIn(i)
      BY <2>4, <2>5, <2>6 DEF TakenIn, KilledIn
    <3>2. TakenIn(i)' = TakenIn(i) \ {k} /\ KilledIn(i)' = KilledIn(i) \ {k}
      BY <1>4, <2>2, <2>4, <2>5 DEF TakenIn, KilledIn
    <3>3. IsFiniteSet(TakenIn(i)) /\ IsFiniteSet(KilledIn(i))
      BY <1>4, FiniteContributor, FS_Subset
    <3>4. Cardinality(TakenIn(i)) \in Nat /\ Cardinality(KilledIn(i)) \in Nat
      BY <3>3, FS_CardinalityType
    <3>5. /\ Cardinality(TakenIn(i) \ {k}) = Cardinality(TakenIn(i)) - 1
          /\ Cardinality(KilledIn(i) \ {k}) = Cardinality(KilledIn(i)) - 1
      BY <3>1, <3>3, FS_RemoveElement
    <3> QED
      BY <1>1, <1>2, <3>2, <3>4, <3>5
  <2>7. CASE Pid[k] # i
    <3>1. TakenIn(i)' = TakenIn(i) /\ KilledIn(i)' = KilledIn(i)
      BY <1>4, <2>2, <2>7 DEF TakenIn, KilledIn
    <3> QED
      BY <1>1, <1>2, <3>1
  <2> QED
    BY <2>6, <2>7
<1>7. (\A k \in Contributor : round'[k] = round[k]) \/ \E k \in Contributor : Enter(k)
  <2>1. CASE \E v \in Thread : Vmkt(v)
    BY <2>1 DEF Vmkt, Sync1, Sync2, Wait, WrapUp, Finish, petVars
  <2>2. ASSUME NEW p \in PET, Pet(p)
        PROVE  (\A k \in Contributor : round'[k] = round[k]) \/ \E k \in Contributor : Enter(k)
    <3>1. CASE Enter(p) /\ p \in Contributor
      BY <3>1
    <3>2. CASE p \notin Contributor
      <4>1. \A q \in PET \ {p} : round'[q] = round[q]
        BY <2>2, PetIsOnly DEF PetOnly
      <4> QED
        BY <3>2, <4>1, ServiceHost
    <3>3. CASE ~Enter(p)
      <4>1. round' = round
        BY <2>2, <3>3 DEF Pet, Create, Created1, Created2, Started, Listen, Release, Entered, Exit, Caught,
             Barrier, Shutdown, JoinCatch, JoinCaught, JoinSignal, Join, Down, petVars
      <4> QED
        BY <4>1
    <3> QED
      BY <3>1, <3>2, <3>3
  <2> QED
    BY <2>1, <2>2 DEF QuietStep
<1> QED
  BY <1>5, <1>6, <1>7

------------------------------------------------------------------------------
(* What steps of threads at work preserve.                                  *)

\* Such a step leaves the counts of the PETs alone.
LEMMA WorkDone == ASSUME UNCHANGED petVars, ended' = ended, NEW v \in Thread, NEW L,
                         tpc'[v] \in L <=> tpc[v] \in L
                  PROVE  Done(v, L)' = Done(v, L)
BY DEF Done, Cycle, petVars

\* They leave the cycle of every thread,
LEMMA WorkCycle == ASSUME UNCHANGED petVars, NEW v \in Thread PROVE Cycle(v)' = Cycle(v)
BY DEF Cycle, petVars

\* what contributors have told and spawners have heard,
LEMMA WorkHellos == ASSUME UNCHANGED petVars, Hellos PROVE Hellos'
BY DEF Hellos, Told, Heard, petVars

\* and the barriers that are crossed.
LEMMA WorkBarriers == ASSUME UNCHANGED petVars, Barriers PROVE Barriers'
BY DEF Barriers, Crossed, petVars

\* Tokens holds as long as its counts, messages and sigcatchers stay.
LEMMA TokensKept == ASSUME Tokens,
                           \A k \in Contributor : /\ Woken(k)' = Woken(k) /\ Mailed(k)' = Mailed(k)
                                                  /\ mail'[k] = mail[k],
                           \A j, k \in Contributor : Waker(j, k)' <=> Waker(j, k)
                    PROVE  Tokens'
BY DEF Tokens

\* Signals holds as long as its counts and signals stay.
LEMMA SignalsKept == ASSUME Signals, UNCHANGED petVars, sig' = sig,
                            \A k \in Contributor : Taken(k)' = Taken(k) /\ Killed(k)' = Killed(k)
                     PROVE  Signals'
<1>1. round' = round
  BY DEF petVars
<1>2. \A i : TakenIn(i)' = TakenIn(i) /\ KilledIn(i)' = KilledIn(i)
  BY <1>1 DEF TakenIn, KilledIn
<1> QED
  BY <1>2 DEF Signals

\* What a step of the thread of child PET c leaves alone.
ChildOnly(c) == /\ UNCHANGED <<petVars, ended, target>>
                /\ \A v \in Thread \ {ChildThread(c)} : tpc'[v] = tpc[v]
                /\ \A d \in Child \ {c} : ran'[d] = ran[d] /\ todo'[d] = todo[d]

\* The record of child PET c.
WorkOf(c) == /\ ran[c] = Done(ChildThread(c), {"released", "user"})
             /\ todo[c] \subseteq From(c)
             /\ tpc[ChildThread(c)] \notin Notifying => todo[c] = {}
             /\ tpc[ChildThread(c)] \in {"send", "sending"} => todo[c] # {}

\* A step of child PET c changes the counts of its own contributors only.
LEMMA ChildCounts == ASSUME NEW c \in Child, ChildOnly(c), Work
                     PROVE  /\ \A k \in Contributor : Woken(k)' = Woken(k) /\ Taken(k)' = Taken(k)
                            /\ \A j, k \in Contributor : Waker(j, k)' <=> Waker(j, k)
                            /\ \A k \in Contributor : To[k] # c => /\ Killed(k)' = Killed(k)
                                                                   /\ Mailed(k)' = Mailed(k)
                            /\ WorkOf(c)' => Work'
<1>1. /\ UNCHANGED petVars /\ ended' = ended /\ target' = target
      /\ \A v \in Thread \ {ChildThread(c)} : tpc'[v] = tpc[v]
      /\ \A d \in Child \ {c} : ran'[d] = ran[d] /\ todo'[d] = todo[d]
  BY DEF ChildOnly
<1>2. ASSUME NEW k \in Contributor PROVE tpc'[Blocker(k)] = tpc[Blocker(k)] /\ tpc'[Catcher(k)] = tpc[Catcher(k)]
  BY <1>1, ServiceHost, Kinds
<1>3. ASSUME NEW d \in Child, d # c PROVE tpc'[ChildThread(d)] = tpc[ChildThread(d)]
  BY <1>1, <1>3, ChildHost, Kinds
<1>4. ASSUME NEW k \in Contributor PROVE Woken(k)' = Woken(k) /\ Taken(k)' = Taken(k)
  BY <1>1, <1>2, ServiceHost, WorkDone DEF Woken, Taken
<1>5. ASSUME NEW j \in Contributor, NEW k \in Contributor PROVE Waker(j, k)' <=> Waker(j, k)
  BY <1>1, <1>2 DEF Waker
<1>6. ASSUME NEW k \in Contributor, To[k] # c PROVE Killed(k)' = Killed(k) /\ Mailed(k)' = Mailed(k)
  <2>1. To[k] \in Child
    BY ServiceHost
  <2> QED
    BY <1>1, <1>3, <1>6, <2>1 DEF Killed, Mailed, Left
<1>7. ASSUME WorkOf(c)' PROVE Work'
  <2>1. ASSUME NEW d \in Child, d # c PROVE WorkOf(d)'
    <3>1. WorkOf(d)
      BY DEF Work, WorkOf
    <3>2. Done(ChildThread(d), {"released", "user"})' = Done(ChildThread(d), {"released", "user"})
      BY <1>1, <1>3, <2>1, ChildHost, WorkDone
    <3> QED
      BY <1>1, <1>3, <2>1, <3>1, <3>2 DEF WorkOf
  <2>2. \A d \in Child : WorkOf(d)'
    BY <1>7, <2>1
  <2> QED
    BY <2>2 DEF Work, WorkOf
<1> QED
  BY <1>4, <1>5, <1>6, <1>7

\* vmk_spawn calls the user code, or goes on to its last signal.
LEMMA BeginWork == ASSUME NEW c \in Child, Begin(c) \/ Notified(c), Types, Work, Tokens, Signals
                   PROVE  Work' /\ Tokens' /\ Signals'
<1> DEFINE v == ChildThread(c)
<1>1. v \in Thread
  BY ChildHost
<1>2. /\ ChildOnly(c) /\ UNCHANGED workVars
      /\ \/ tpc[v] = "released" /\ tpc'[v] = "user"
         \/ tpc[v] = "notify" /\ tpc'[v] = "finish" /\ todo[c] = {}
  BY <1>1 DEF Begin, Notified, ChildThread, ChildOnly, Run, Types, workVars
<1>3. WorkOf(c)'
  <2>1. Done(v, {"released", "user"})' = Done(v, {"released", "user"})
    BY <1>1, <1>2, WorkDone DEF ChildOnly
  <2>2. WorkOf(c)
    BY DEF Work, WorkOf
  <2>3. tpc[v] \notin Notifying => todo[c] = {}
    BY <2>2 DEF WorkOf
  <2>4. todo[c] = {}
    BY <1>2, <2>3 DEF Notifying
  <2>5. ran' = ran /\ todo' = todo
    BY <1>2 DEF workVars
  <2>6. tpc'[v] \notin {"send", "sending"}
    BY <1>2
  <2> HIDE DEF v
  <2>7. ran[c] = Done(v, {"released", "user"})
    BY <2>2 DEF WorkOf, v
  <2>8. /\ ran'[c] = Done(v, {"released", "user"})' /\ todo'[c] = {}
    BY <2>1, <2>4, <2>5, <2>7
  <2> QED
    BY <2>6, <2>8 DEF WorkOf, v
<1>4. ASSUME NEW k \in Contributor PROVE Killed(k)' = Killed(k) /\ Mailed(k)' = Mailed(k)
  <2>1. ran' = ran /\ todo' = todo
    BY <1>2 DEF workVars
  <2>2. To[k] = c => /\ tpc'[v] \notin {"send", "sending"} /\ tpc[v] \notin {"send", "sending"}
    BY <1>2
  <2> HIDE DEF v
  <2>3. CASE To[k] = c
    BY <2>1, <2>2, <2>3 DEF Killed, Mailed, Left, v
  <2>4. CASE To[k] # c
    BY <1>2, <2>4, ChildCounts
  <2> QED
    BY <2>3, <2>4
<1>5. mail' = mail /\ sig' = sig /\ UNCHANGED petVars
  BY <1>2 DEF workVars, ChildOnly
<1> QED
  BY <1>2, <1>3, <1>4, <1>5, ChildCounts, TokensKept, SignalsKept

\* The user code of c returns: it has completed a cycle more, and nobody has been notified of it.
LEMMA EndWork == ASSUME NEW c \in Child, End(c), Types, Places, Slots, Work, Tokens, Signals
                 PROVE  Work' /\ Tokens' /\ Signals'
<1> DEFINE v == ChildThread(c)
<1>1. v \in Thread
  BY ChildHost
<1>2. /\ ChildOnly(c) /\ sig' = sig /\ mail' = mail
      /\ tpc[v] = "user" /\ tpc'[v] = "notify"
      /\ ran'[c] = ran[c] + 1 /\ todo'[c] = From(c)
  BY <1>1 DEF End, ChildThread, ChildOnly, Run, Types
<1>3. ~ended[v] /\ UNCHANGED petVars /\ ended' = ended
  BY <1>1, <1>2, BusyActive DEF Busy, ChildOnly
<1>4. WorkOf(c)
  BY DEF Work, WorkOf
<1>5. todo[c] = {} /\ ran[c] \in Nat /\ Cycle(v) \in Nat
  <2>1. tpc[v] \notin Notifying
    BY <1>2 DEF Notifying
  <2> QED
    BY <1>1, <1>4, <2>1, CycleBounds DEF WorkOf, Types
<1>6. ran[c] = Cycle(v) - 1
  <2>1. ran[c] = Done(v, {"released", "user"})
    BY <1>4 DEF WorkOf
  <2> QED
    BY <1>2, <1>3, <2>1 DEF Done
<1>7. WorkOf(c)'
  <2>1. Done(v, {"released", "user"})' = Cycle(v)'
    BY <1>2 DEF Done
  <2>2. Cycle(v)' = Cycle(v)
    BY <1>1, <1>3, WorkCycle
  <2> HIDE DEF v
  <2>3. ran'[c] = Done(v, {"released", "user"})'
    BY <1>2, <1>5, <1>6, <2>1, <2>2
  <2>4. tpc'[v] \in Notifying /\ tpc'[v] \notin {"send", "sending"}
    BY <1>2 DEF Notifying
  <2> QED
    BY <1>2, <2>3, <2>4 DEF WorkOf, v
<1>8. ASSUME NEW k \in Contributor PROVE Killed(k)' = Killed(k) /\ Mailed(k)' = Mailed(k)
  <2>1. CASE To[k] = c
    <3>1. k \in todo'[c] /\ tpc'[v] \notin {"send", "sending"} /\ k \notin todo[c]
      BY <1>2, <1>5, <2>1 DEF From
    <3> HIDE DEF v
    <3>2. Killed(k)' = ran'[c] - 1 /\ Mailed(k)' = ran'[c] - 1
      BY <2>1, <3>1 DEF Killed, Mailed, Left, v
    <3>3. Killed(k) = ran[c] /\ Mailed(k) = ran[c]
      BY <2>1, <3>1 DEF Killed, Mailed, Left
    <3> QED
      BY <1>2, <1>5, <3>2, <3>3
  <2>2. CASE To[k] # c
    BY <1>2, <2>2, ChildCounts
  <2> QED
    BY <2>1, <2>2
<1> QED
  BY <1>2, <1>3, <1>7, <1>8, ChildCounts, TokensKept, SignalsKept

\* The next contributor c notifies.
LEMMA NextTodo == ASSUME NEW c \in Child, Types, Work, todo[c] # {}
                  PROVE  /\ Min(todo[c]) \in todo[c] /\ Min(todo[c]) \in Contributor
                         /\ To[Min(todo[c])] = c
<1>1. todo[c] \subseteq From(c) /\ From(c) \subseteq Contributor
  BY DEF Work, From
<1>2. Min(todo[c]) \in todo[c]
  BY <1>1, MinIn
<1> QED
  BY <1>1, <1>2 DEF From

\* c signals the process of the next contributor, once in its cycle.
LEMMA KillWork == ASSUME NEW c \in Child, Kill(c), Types, Places, Slots, Work, Hellos, Tokens, Signals
                  PROVE  Work' /\ Tokens' /\ Signals'
<1> DEFINE v == ChildThread(c)
<1>1. v \in Thread
  BY ChildHost
<1>2. /\ ChildOnly(c) /\ ran' = ran /\ todo' = todo /\ mail' = mail
      /\ tpc[v] = "notify" /\ tpc'[v] = "send" /\ todo[c] # {}
      /\ sig' = [sig EXCEPT ![Pid[Min(todo[c])]] = IF Queued THEN @ + 1 ELSE 1]
  BY <1>1 DEF Kill, ChildThread, ChildOnly, Run, Types
<1>3. PICK m \in Contributor : m = Min(todo[c]) /\ m \in todo[c] /\ To[m] = c
  BY <1>2, NextTodo
<1>4. UNCHANGED petVars /\ ended' = ended /\ ran[c] \in Nat
  BY <1>2 DEF ChildOnly, Types
<1>5. WorkOf(c)'
  <2>1. Done(v, {"released", "user"})' = Done(v, {"released", "user"})
    BY <1>1, <1>2, <1>4, WorkDone
  <2>2. WorkOf(c)
    BY DEF Work, WorkOf
  <2>3. tpc'[v] \in Notifying
    BY <1>2 DEF Notifying
  <2> HIDE DEF v
  <2>4. ran[c] = Done(v, {"released", "user"}) /\ todo[c] \subseteq From(c)
    BY <2>2 DEF WorkOf, v
  <2> QED
    BY <1>2, <2>1, <2>3, <2>4 DEF WorkOf, v
<1>6. ASSUME NEW k \in Contributor
      PROVE  Mailed(k)' = Mailed(k) /\ (k # m => Killed(k)' = Killed(k))
  <2>1. CASE To[k] = c
    <3>1. tpc[v] \notin {"send", "sending"} /\ tpc'[v] # "sending"
      BY <1>2
    <3> HIDE DEF v
    <3>2. Mailed(k)' = Mailed(k)
      BY <1>2, <2>1, <3>1 DEF Mailed, Left, v
    <3>3. ASSUME k # m PROVE Killed(k)' = Killed(k)
      BY <1>2, <1>3, <2>1, <3>1, <3>3 DEF Killed, Left, v
    <3> QED
      BY <3>2, <3>3
  <2>2. CASE To[k] # c
    BY <1>2, <2>2, ChildCounts
  <2> QED
    BY <2>1, <2>2
<1>7. Tokens'
  BY <1>2, <1>6, ChildCounts, TokensKept
<1>8. Killed(m) = ran[c] - 1 /\ Mailed(m) = ran[c] - 1
  <2>1. tpc[v] \notin {"send", "sending"}
    BY <1>2
  <2> HIDE DEF v
  <2> QED
    BY <1>3, <2>1 DEF Killed, Mailed, Left, v
<1>9. Killed(m)' = ran[c]
  <2>1. tpc'[v] \in {"send", "sending"}
    BY <1>2
  <2> HIDE DEF v
  <2> QED
    BY <1>2, <1>3, <2>1 DEF Killed, Left, v
<1>10. round[m] = ran[c]
  BY <1>3, <1>4, <1>8, Chain
<1>11. ASSUME NEW i \in {Pid[p] : p \in PET}
       PROVE  sig'[i] + Cardinality(TakenIn(i)') <= Cardinality(KilledIn(i)')
  <2>1. sig[i] \in Nat /\ sig[i] + Cardinality(TakenIn(i)) <= Cardinality(KilledIn(i))
    BY DEF Types, Signals
  <2>2. round' = round
    BY <1>4 DEF petVars
  <2>3. TakenIn(i)' = TakenIn(i)
    BY <1>2, <2>2, ChildCounts DEF TakenIn
  <2>4. /\ TakenIn(i) \in SUBSET Contributor /\ KilledIn(i) \in SUBSET Contributor
    BY DEF TakenIn, KilledIn
  <2>5. CASE i = Pid[m]
    <3>1. m \notin KilledIn(i)
      BY <1>4, <1>8, <1>10 DEF KilledIn
    <3>2. KilledIn(i)' = KilledIn(i) \cup {m}
      BY <1>3, <1>6, <1>9, <1>10, <2>2, <2>5 DEF KilledIn
    <3>3. IsFiniteSet(KilledIn(i)) /\ IsFiniteSet(TakenIn(i))
      BY <2>4, FiniteContributor, FS_Subset
    <3>4. /\ Cardinality(KilledIn(i)) \in Nat /\ Cardinality(TakenIn(i)) \in Nat
          /\ Cardinality(KilledIn(i) \cup {m}) = Cardinality(KilledIn(i)) + 1
      BY <3>1, <3>3, FS_CardinalityType, FS_AddElement
    <3>5. sig'[i] = IF Queued THEN sig[i] + 1 ELSE 1
      BY <1>2, <1>3, <2>5 DEF Types
    <3> QED
      BY <2>1, <2>3, <3>2, <3>4, <3>5
  <2>6. CASE i # Pid[m]
    <3>1. sig'[i] = sig[i]
      BY <1>2, <1>3, <2>6 DEF Types
    <3>2. KilledIn(i)' = KilledIn(i)
      BY <1>3, <1>6, <2>2, <2>6 DEF KilledIn
    <3> QED
      BY <2>1, <2>3, <3>1, <3>2
  <2> QED
    BY <2>5, <2>6
<1>12. Signals'
  BY <1>11 DEF Signals
<1> QED
  BY <1>2, <1>5, <1>7, <1>12, ChildCounts

\* c names the blocker of that contributor in a message; the one of the cycle before has done
\* its work.
LEMMA SendWork == ASSUME NEW c \in Child, Send(c), Types, Places, Slots, Work, Hellos, Tokens, Signals
                  PROVE  Work' /\ Tokens' /\ Signals'
<1> DEFINE v == ChildThread(c)
<1>1. v \in Thread
  BY ChildHost
<1>2. /\ ChildOnly(c) /\ ran' = ran /\ todo' = todo /\ sig' = sig
      /\ tpc[v] = "send" /\ tpc'[v] = "sending"
      /\ mail' = [mail EXCEPT ![Min(todo[c])] = @ + 1]
  BY <1>1 DEF Send, ChildThread, ChildOnly, Run, Types
<1>3. WorkOf(c)
  BY DEF Work, WorkOf
<1>4. todo[c] # {}
  BY <1>2, <1>3 DEF WorkOf
<1>5. PICK m \in Contributor : m = Min(todo[c]) /\ m \in todo[c] /\ To[m] = c
  BY <1>4, NextTodo
<1>6. UNCHANGED petVars /\ ended' = ended /\ ran[c] \in Nat
  BY <1>2 DEF ChildOnly, Types
<1>7. WorkOf(c)'
  <2>1. Done(v, {"released", "user"})' = Done(v, {"released", "user"})
    BY <1>1, <1>2, <1>6, WorkDone
  <2>3. tpc'[v] \in Notifying
    BY <1>2 DEF Notifying
  <2> HIDE DEF v
  <2>4. ran[c] = Done(v, {"released", "user"}) /\ todo[c] \subseteq From(c)
    BY <1>3 DEF WorkOf, v
  <2> QED
    BY <1>2, <1>4, <2>1, <2>3, <2>4 DEF WorkOf, v
<1>8. ASSUME NEW k \in Contributor
      PROVE  Killed(k)' = Killed(k) /\ (k # m => Mailed(k)' = Mailed(k))
  <2>1. CASE To[k] = c
    <3>1. tpc[v] = "send" /\ tpc'[v] = "sending"
      BY <1>2
    <3> HIDE DEF v
    <3>2. Killed(k)' = Killed(k)
      BY <1>2, <2>1, <3>1 DEF Killed, Left, v
    <3>3. ASSUME k # m PROVE Mailed(k)' = Mailed(k)
      BY <1>2, <1>5, <2>1, <3>1, <3>3 DEF Mailed, Left, v
    <3> QED
      BY <3>2, <3>3
  <2>2. CASE To[k] # c
    BY <1>2, <2>2, ChildCounts
  <2> QED
    BY <2>1, <2>2
<1>9. Signals'
  BY <1>2, <1>6, <1>8, ChildCounts, SignalsKept
<1>10. Mailed(m) = ran[c] - 1 /\ Mailed(m)' = ran[c]
  <2>1. tpc[v] # "sending" /\ tpc'[v] = "sending"
    BY <1>2
  <2> HIDE DEF v
  <2> QED
    BY <1>2, <1>5, <2>1 DEF Mailed, Left, v
<1>11. Woken(m) \in Nat /\ Woken(m) = ran[c] - 1
  BY <1>5, <1>6, <1>10, Chain
<1>12. mail[m] = 0 /\ \A j \in Contributor : ~Waker(j, m)
  <2>1. mail[m] \in Nat
    BY <1>5 DEF Types
  <2> QED
    BY <1>5, <1>6, <1>10, <1>11, <2>1 DEF Tokens
<1>13. /\ \A k \in Contributor : Woken(k)' = Woken(k)
       /\ \A j, k \in Contributor : Waker(j, k)' <=> Waker(j, k)
  BY <1>2, ChildCounts
<1>14. /\ mail'[m] = 1 /\ \A k \in Contributor \ {m} : mail'[k] = mail[k]
  BY <1>2, <1>5, <1>12 DEF Types
<1>15. Tokens'
  <2>1. ASSUME NEW k \in Contributor
        PROVE  /\ Woken(k)' <= Mailed(k)'
               /\ mail'[k] <= 1 /\ (mail'[k] > 0 => Woken(k)' < Mailed(k)')
               /\ \A j \in Contributor : Waker(j, k)' => Woken(k)' < Mailed(k)' /\ mail'[k] = 0
               /\ \A i, j \in Contributor : Waker(i, k)' /\ Waker(j, k)' => i = j
    <3>1. CASE k = m
      BY <1>6, <1>10, <1>11, <1>12, <1>13, <1>14, <3>1
    <3>2. CASE k # m
      <4>1. Woken(k)' = Woken(k) /\ Mailed(k)' = Mailed(k) /\ mail'[k] = mail[k]
        BY <1>8, <1>13, <1>14, <3>2
      <4> QED
        BY <1>13, <4>1 DEF Tokens
    <3> QED
      BY <3>1, <3>2
  <2> QED
    BY <2>1 DEF Tokens
<1> QED
  BY <1>2, <1>7, <1>9, <1>15, ChildCounts

\* The message has left: one contributor less is to be notified.
LEMMA SentWork == ASSUME NEW c \in Child, NEW eager \in BOOLEAN, Sent(c, eager), Types, Places, Slots,
                         Work, Tokens, Signals
                  PROVE  Work' /\ Tokens' /\ Signals'
<1> DEFINE v == ChildThread(c)
<1>1. v \in Thread
  BY ChildHost
<1>2. /\ ChildOnly(c) /\ ran' = ran /\ mail' = mail /\ sig' = sig
      /\ tpc[v] = "sending" /\ tpc'[v] = "notify"
      /\ todo'[c] = todo[c] \ {Min(todo[c])}
  BY <1>1 DEF Sent, ChildThread, ChildOnly, Run, Types
<1>3. WorkOf(c)
  BY DEF Work, WorkOf
<1>4. todo[c] # {}
  BY <1>2, <1>3 DEF WorkOf
<1>5. PICK m \in Contributor : m = Min(todo[c]) /\ m \in todo[c] /\ To[m] = c
  BY <1>4, NextTodo
<1>6. UNCHANGED petVars /\ ended' = ended
  BY <1>2 DEF ChildOnly
<1>7. WorkOf(c)'
  <2>1. Done(v, {"released", "user"})' = Done(v, {"released", "user"})
    BY <1>1, <1>2, <1>6, WorkDone
  <2>3. tpc'[v] \in Notifying /\ tpc'[v] \notin {"send", "sending"}
    BY <1>2 DEF Notifying
  <2> HIDE DEF v
  <2>4. ran[c] = Done(v, {"released", "user"}) /\ todo[c] \subseteq From(c)
    BY <1>3 DEF WorkOf, v
  <2> QED
    BY <1>2, <2>1, <2>3, <2>4 DEF WorkOf, v
<1>8. ASSUME NEW k \in Contributor PROVE Killed(k)' = Killed(k) /\ Mailed(k)' = Mailed(k)
  <2>1. CASE To[k] = c
    <3>1. tpc[v] = "sending" /\ tpc'[v] = "notify"
      BY <1>2
    <3>2. k \in todo'[c] <=> k \in todo[c] /\ k # m
      BY <1>2, <1>5
    <3> HIDE DEF v
    <3>3. Killed(k)' = Killed(k)
      BY <1>2, <1>5, <2>1, <3>1, <3>2 DEF Killed, Left, v
    <3>4. Mailed(k)' = Mailed(k)
      BY <1>2, <1>5, <2>1, <3>1, <3>2 DEF Mailed, Left, v
    <3> QED
      BY <3>3, <3>4
  <2>2. CASE To[k] # c
    BY <1>2, <2>2, ChildCounts
  <2> QED
    BY <2>1, <2>2
<1> QED
  BY <1>2, <1>6, <1>7, <1>8, ChildCounts, TokensKept, SignalsKept

\* What a step of a service thread leaves alone.
ServiceOnly(v) == /\ UNCHANGED <<petVars, ended, ran, todo>>
                  /\ \A w \in Thread \ {v} : tpc'[w] = tpc[w]

\* A step of a service thread changes only the count it stands for.
LEMMA ServiceCounts == ASSUME NEW v \in Thread, ServiceOnly(v), NEW k \in Contributor
                       PROVE  /\ v # Blocker(k) => Woken(k)' = Woken(k)
                              /\ v # Catcher(k) => Taken(k)' = Taken(k)
                              /\ v # ChildThread(To[k]) => /\ Killed(k)' = Killed(k)
                                                           /\ Mailed(k)' = Mailed(k)
<1>1. /\ UNCHANGED petVars /\ ended' = ended /\ ran' = ran /\ todo' = todo
      /\ \A w \in Thread \ {v} : tpc'[w] = tpc[w]
  BY DEF ServiceOnly
<1>2. v # Blocker(k) => Woken(k)' = Woken(k)
  BY <1>1, ServiceHost, WorkDone DEF Woken
<1>3. v # Catcher(k) => Taken(k)' = Taken(k)
  BY <1>1, ServiceHost, WorkDone DEF Taken
<1>4. v # ChildThread(To[k]) => Killed(k)' = Killed(k) /\ Mailed(k)' = Mailed(k)
  <2>1. ChildThread(To[k]) \in Thread
    BY ServiceHost, ChildHost
  <2> QED
    BY <1>1, <2>1 DEF Killed, Mailed, Left
<1> QED
  BY <1>2, <1>3, <1>4

\* It changes nothing in the record of child PETs.
LEMMA ServiceWork == ASSUME Work, UNCHANGED petVars, ended' = ended, ran' = ran, todo' = todo,
                            \A c \in Child : tpc'[ChildThread(c)] = tpc[ChildThread(c)]
                     PROVE  Work'
<1>1. ASSUME NEW c \in Child PROVE WorkOf(c)'
  <2>1. WorkOf(c)
    BY DEF Work, WorkOf
  <2>2. Done(ChildThread(c), {"released", "user"})' = Done(ChildThread(c), {"released", "user"})
    BY ChildHost, WorkDone
  <2> QED
    BY <2>1, <2>2 DEF WorkOf
<1> QED
  BY <1>1 DEF Work, WorkOf

\* vmk_block goes to wait, and is back.
LEMMA BlockWork == ASSUME NEW k \in Contributor, Block(k) \/ Unblock(k), Types, Work, Tokens, Signals
                   PROVE  Work' /\ Tokens' /\ Signals'
<1> DEFINE v == Blocker(k)
<1>1. v \in Thread
  BY ServiceHost
<1>2. /\ ServiceOnly(v) /\ UNCHANGED workVars
      /\ \/ tpc[v] = "released" /\ tpc'[v] = "block"
         \/ tpc[v] = "awake" /\ tpc'[v] = "finish"
  BY <1>1 DEF Block, Unblock, ServiceOnly, Run, Types, workVars
<1>3. /\ UNCHANGED petVars /\ ended' = ended /\ ran' = ran /\ todo' = todo /\ mail' = mail /\ sig' = sig
      /\ target' = target
  BY <1>2 DEF ServiceOnly, workVars
<1>4. \A c \in Child : v # ChildThread(c) /\ tpc'[ChildThread(c)] = tpc[ChildThread(c)]
  BY <1>2, Kinds, ChildHost DEF ServiceOnly
<1>5. Work'
  BY <1>3, <1>4, ServiceWork
<1>6. Woken(k)' = Woken(k)
  <2>1. tpc'[v] \in {"released", "block"} <=> tpc[v] \in {"released", "block"}
    BY <1>2
  <2> QED
    BY <1>1, <1>3, <2>1, WorkDone DEF Woken
<1>7. ASSUME NEW j \in Contributor
      PROVE  /\ Woken(j)' = Woken(j) /\ Taken(j)' = Taken(j) /\ Killed(j)' = Killed(j)
             /\ Mailed(j)' = Mailed(j)
  <2>1. v # Catcher(j) /\ v # ChildThread(To[j]) /\ (v = Blocker(j) => j = k)
    BY <1>4, Kinds, ServiceHost
  <2> QED
    BY <1>1, <1>2, <1>6, <2>1, ServiceCounts
<1>8. \A i, j \in Contributor : Waker(i, j)' <=> Waker(i, j)
  BY <1>2, <1>3, Kinds, ServiceHost DEF Waker, ServiceOnly
<1> QED
  BY <1>3, <1>5, <1>7, <1>8, TokensKept, SignalsKept

\* A step of a sigcatcher changes no count but its own.
LEMMA CatcherCounts == ASSUME NEW k \in Contributor, ServiceOnly(Catcher(k)), Work
                       PROVE  /\ Work'
                              /\ \A j \in Contributor : /\ Woken(j)' = Woken(j)
                                                        /\ Killed(j)' = Killed(j)
                                                        /\ Mailed(j)' = Mailed(j)
                                                        /\ j # k => Taken(j)' = Taken(j)
<1> DEFINE v == Catcher(k)
<1>1. v \in Thread
  BY ServiceHost
<1>2. \A c \in Child : v # ChildThread(c) /\ tpc'[ChildThread(c)] = tpc[ChildThread(c)]
  BY Kinds, ChildHost DEF ServiceOnly
<1>3. Work'
  BY <1>2, ServiceWork DEF ServiceOnly
<1>4. ASSUME NEW j \in Contributor
      PROVE  /\ Woken(j)' = Woken(j) /\ Killed(j)' = Killed(j) /\ Mailed(j)' = Mailed(j)
             /\ j # k => Taken(j)' = Taken(j)
  <2>1. v # Blocker(j) /\ v # ChildThread(To[j]) /\ (v = Catcher(j) => j = k)
    BY <1>2, Kinds, ServiceHost
  <2> QED
    BY <1>1, <2>1, ServiceCounts
<1> QED
  BY <1>3, <1>4

\* The sigcatcher of k takes a signal of its process: the one of this cycle.
LEMMA SigWaitWork == ASSUME NEW k \in Contributor, SigWait(k), Types, Places, Slots, Work, Tokens, Signals
                     PROVE  Work' /\ Tokens' /\ Signals'
<1> DEFINE v == Catcher(k)
<1>1. v \in Thread /\ Host(v) = k /\ Pid[k] \in {Pid[p] : p \in PET}
  BY ServiceHost
<1>2. /\ ServiceOnly(v) /\ mail' = mail /\ target' = target
      /\ tpc[v] = "released" /\ tpc'[v] = "recv" /\ ~ended[v]
      /\ sig[Pid[k]] > 0 /\ sig' = [sig EXCEPT ![Pid[k]] = @ - 1]
  BY <1>1 DEF SigWait, ServiceOnly, Run, Types
<1>3. UNCHANGED petVars /\ ended' = ended
  BY <1>2 DEF ServiceOnly
<1>4. \A i, j \in Contributor : Waker(i, j)' <=> Waker(i, j)
  <2>1. ASSUME NEW i \in Contributor PROVE tpc'[Catcher(i)] = "wake" <=> tpc[Catcher(i)] = "wake"
    BY <1>2, Kinds, ServiceHost DEF ServiceOnly
  <2> QED
    BY <1>2, <2>1 DEF Waker
<1>5. Work' /\ Tokens'
  BY <1>2, <1>4, CatcherCounts, TokensKept
<1>6. Taken(k) = round[k] - 1 /\ Taken(k)' = round[k] /\ round[k] \in Nat
  <2>1. Cycle(v) \in Nat /\ round[k] \in Nat /\ Cycle(v) <= round[k]
    BY <1>1, CycleBounds
  <2>2. Taken(k) = Cycle(v) - 1
    BY <1>2 DEF Taken, Done
  <2>3. {"released"} \in SUBSET ActiveAt
    BY DEF ActiveAt
  <2>4. round[k] <= Taken(k) + 1
    BY <1>1, <2>3, DoneBounds DEF Taken
  <2>5. Taken(k)' = Cycle(v)
    <3>1. Taken(k)' = Cycle(v)'
      BY <1>2 DEF Taken, Done
    <3> QED
      BY <1>1, <1>3, <3>1, WorkCycle
  <2> HIDE DEF v
  <2> QED
    BY <2>1, <2>2, <2>4, <2>5
<1>7. ASSUME NEW i \in {Pid[p] : p \in PET}
      PROVE  sig'[i] + Cardinality(TakenIn(i)') <= Cardinality(KilledIn(i)')
  <2>1. sig[i] \in Nat /\ sig[i] + Cardinality(TakenIn(i)) <= Cardinality(KilledIn(i))
    BY DEF Types, Signals
  <2>2. round' = round
    BY <1>3 DEF petVars
  <2>3. KilledIn(i)' = KilledIn(i)
    BY <1>2, <2>2, CatcherCounts DEF KilledIn
  <2>4. /\ TakenIn(i) \in SUBSET Contributor /\ KilledIn(i) \in SUBSET Contributor
    BY DEF TakenIn, KilledIn
  <2>5. IsFiniteSet(KilledIn(i)) /\ IsFiniteSet(TakenIn(i))
    BY <2>4, FiniteContributor, FS_Subset
  <2>6. Cardinality(KilledIn(i)) \in Nat /\ Cardinality(TakenIn(i)) \in Nat
    BY <2>5, FS_CardinalityType
  <2>7. CASE i = Pid[k]
    <3>1. k \notin TakenIn(i)
      BY <1>6 DEF TakenIn
    <3>2. TakenIn(i)' = TakenIn(i) \cup {k}
      BY <1>2, <1>6, <2>2, <2>7, CatcherCounts DEF TakenIn
    <3>3. Cardinality(TakenIn(i) \cup {k}) = Cardinality(TakenIn(i)) + 1
      BY <2>5, <3>1, FS_AddElement
    <3>4. sig'[i] = sig[i] - 1
      BY <1>2, <2>7 DEF Types
    <3> QED
      BY <2>1, <2>3, <2>6, <3>2, <3>3, <3>4
  <2>8. CASE i # Pid[k]
    <3>1. sig'[i] = sig[i]
      BY <1>2, <2>8 DEF Types
    <3>2. TakenIn(i)' = TakenIn(i)
      BY <1>2, <2>2, <2>8, CatcherCounts DEF TakenIn
    <3> QED
      BY <2>1, <2>3, <3>1, <3>2
  <2> QED
    BY <2>7, <2>8
<1> QED
  BY <1>5, <1>7 DEF Signals

\* It receives the name of a blocker that waits.
LEMMA RecvWork == ASSUME NEW k \in Contributor, NEW b \in Contributor, Recv(k, b), Types, Work, Tokens,
                         Signals
                  PROVE  Work' /\ Tokens' /\ Signals'
<1> DEFINE v == Catcher(k)
<1>1. v \in Thread
  BY ServiceHost
<1>2. /\ ServiceOnly(v) /\ sig' = sig
      /\ tpc[v] = "recv" /\ tpc'[v] = "wake"
      /\ mail[b] > 0 /\ mail' = [mail EXCEPT ![b] = @ - 1]
      /\ target' = [target EXCEPT ![k] = b]
  BY <1>1 DEF Recv, ServiceOnly, Run, Types
<1>3. UNCHANGED petVars /\ ended' = ended
  BY <1>2 DEF ServiceOnly
<1>4. Taken(k)' = Taken(k)
  <2>1. tpc'[v] \in {"released"} <=> tpc[v] \in {"released"}
    BY <1>2
  <2> QED
    BY <1>1, <1>3, <2>1, WorkDone DEF Taken
<1>5. Work' /\ Signals'
  BY <1>2, <1>3, <1>4, CatcherCounts, SignalsKept
<1>6. /\ mail[b] = 1 /\ Woken(b) < Mailed(b) /\ \A j \in Contributor : ~Waker(j, b)
  <2>1. mail[b] \in Nat
    BY DEF Types
  <2> QED
    BY <1>2, <2>1 DEF Tokens
<1>7. ASSUME NEW i \in Contributor, NEW j \in Contributor
      PROVE  Waker(i, j)' <=> \/ Waker(i, j)
                              \/ i = k /\ j = b
  <2>1. CASE i = k
    <3>1. ~Waker(k, j) /\ target'[k] = b
      BY <1>2 DEF Waker, Types
    <3> QED
      BY <1>2, <2>1, <3>1 DEF Waker
  <2>2. CASE i # k
    BY <1>2, <2>2, Kinds, ServiceHost DEF Waker, ServiceOnly, Types
  <2> QED
    BY <2>1, <2>2
<1>8. ASSUME NEW j \in Contributor
      PROVE  /\ Woken(j)' <= Mailed(j)'
             /\ mail'[j] <= 1 /\ (mail'[j] > 0 => Woken(j)' < Mailed(j)')
             /\ \A i \in Contributor : Waker(i, j)' => Woken(j)' < Mailed(j)' /\ mail'[j] = 0
             /\ \A i, h \in Contributor : Waker(i, j)' /\ Waker(h, j)' => i = h
  <2>1. Woken(j)' = Woken(j) /\ Mailed(j)' = Mailed(j)
    BY <1>2, CatcherCounts
  <2>2. mail'[j] = IF j = b THEN 0 ELSE mail[j]
    BY <1>2, <1>6 DEF Types
  <2>3. CASE j = b
    BY <1>6, <1>7, <2>1, <2>2, <2>3 DEF Tokens
  <2>4. CASE j # b
    <3>1. mail'[j] = mail[j] /\ \A i \in Contributor : Waker(i, j)' <=> Waker(i, j)
      BY <1>7, <2>2, <2>4
    <3> QED
      BY <2>1, <3>1 DEF Tokens
  <2> QED
    BY <2>3, <2>4
<1> QED
  BY <1>5, <1>8 DEF Tokens

\* The blocker it wakes up is one that waits, for a contributor not yet woken up in this cycle.
LEMMA WakeBlockerWork == ASSUME NEW k \in Contributor, WakeBlocker(k), Types, Places, Slots, Work, Hellos,
                                Tokens, Signals
                         PROVE  Work' /\ Tokens' /\ Signals'
<1> DEFINE v == Catcher(k)
<1>1. PICK b \in Contributor : b = target[k]
  BY DEF Types
<1>2. /\ v \in Thread /\ Blocker(b) \in Thread /\ v # Blocker(b)
  BY ServiceHost, Kinds
<1>3. Waker(k, b)
  BY <1>1 DEF WakeBlocker, Waker
<1>4. Woken(b) < Mailed(b) /\ mail[b] = 0 /\ \A j \in Contributor : Waker(j, b) => j = k
  BY <1>3 DEF Tokens
<1>5. Woken(b) < Cycle(Blocker(b)) /\ Woken(b) \in Nat /\ Cycle(Blocker(b)) \in Nat /\ Mailed(b) \in Int
  <2>1. /\ Woken(b) \in Nat /\ Cycle(Blocker(b)) \in Nat
        /\ Mailed(b) \in Int /\ Killed(b) \in Int /\ ran[To[b]] \in Nat
        /\ Heard(Spawner(To[b])) \in Int /\ Told(b) \in Int
        /\ Mailed(b) <= Killed(b) /\ Killed(b) <= ran[To[b]]
        /\ ran[To[b]] <= Heard(Spawner(To[b])) /\ Heard(Spawner(To[b])) <= Told(b)
        /\ Told(b) <= Cycle(Blocker(b))
    BY Chain
  <2> QED
    BY <1>4, <2>1
<1>6. tpc[Blocker(b)] \in {"released", "block"} /\ ~ended[Blocker(b)]
      /\ Woken(b) = Cycle(Blocker(b)) - 1
  BY <1>5 DEF Woken, Done
<1>7. tpc[Blocker(b)] = "block"
  BY <1>1, <1>6 DEF WakeBlocker
<1>8. /\ UNCHANGED <<petVars, ended, ran, todo>> /\ sig' = sig /\ mail' = mail /\ target' = target
      /\ tpc[v] = "wake" /\ tpc'[v] = "finish" /\ tpc'[Blocker(b)] = "awake"
      /\ \A w \in Thread \ {v, Blocker(b)} : tpc'[w] = tpc[w]
  BY <1>1, <1>2, <1>7 DEF WakeBlocker, workVars, Types
<1>9. UNCHANGED petVars /\ ended' = ended
  BY <1>8
<1>10. \A c \in Child : tpc'[ChildThread(c)] = tpc[ChildThread(c)]
  BY <1>8, Kinds, ChildHost
<1>11. Work'
  BY <1>8, <1>9, <1>10, ServiceWork
<1>12. ASSUME NEW j \in Contributor PROVE Killed(j)' = Killed(j) /\ Mailed(j)' = Mailed(j)
  <2>1. tpc'[ChildThread(To[j])] = tpc[ChildThread(To[j])]
    BY <1>10, ServiceHost
  <2> QED
    BY <1>8, <2>1 DEF Killed, Mailed, Left
<1>13. ASSUME NEW j \in Contributor PROVE Taken(j)' = Taken(j)
  <2>1. tpc'[Catcher(j)] \in {"released"} <=> tpc[Catcher(j)] \in {"released"}
    BY <1>8, Kinds, ServiceHost
  <2> QED
    BY <1>9, <2>1, ServiceHost, WorkDone DEF Taken
<1>14. Signals'
  BY <1>8, <1>9, <1>12, <1>13, SignalsKept
<1>15. ASSUME NEW j \in Contributor, j # b PROVE Woken(j)' = Woken(j)
  <2>1. tpc'[Blocker(j)] = tpc[Blocker(j)]
    BY <1>8, <1>15, Kinds, ServiceHost
  <2> QED
    BY <1>9, <2>1, ServiceHost, WorkDone DEF Woken
<1>16. Woken(b)' = Cycle(Blocker(b))
  <2>1. Woken(b)' = Cycle(Blocker(b))'
    BY <1>8 DEF Woken, Done
  <2> QED
    BY <1>2, <1>9, <2>1, WorkCycle
<1>17. ASSUME NEW i \in Contributor, NEW j \in Contributor
       PROVE  Waker(i, j)' <=> Waker(i, j) /\ i # k
  <2>1. tpc'[Catcher(i)] = IF i = k THEN "finish" ELSE tpc[Catcher(i)]
    BY <1>8, Kinds, ServiceHost
  <2> QED
    BY <1>8, <2>1 DEF Waker
<1> HIDE DEF v
<1>18. ASSUME NEW j \in Contributor
       PROVE  /\ Woken(j)' <= Mailed(j)'
              /\ mail'[j] <= 1 /\ (mail'[j] > 0 => Woken(j)' < Mailed(j)')
              /\ \A i \in Contributor : Waker(i, j)' => Woken(j)' < Mailed(j)' /\ mail'[j] = 0
              /\ \A i, h \in Contributor : Waker(i, j)' /\ Waker(h, j)' => i = h
  <2>1. CASE j = b
    <3>1. Woken(b)' <= Mailed(b)'
      BY <1>4, <1>5, <1>6, <1>12, <1>16
    <3>2. mail'[b] = 0 /\ \A i \in Contributor : ~Waker(i, b)'
      BY <1>4, <1>8, <1>17
    <3> QED
      BY <2>1, <3>1, <3>2
  <2>2. CASE j # b
    <3>1. /\ Woken(j)' = Woken(j) /\ Mailed(j)' = Mailed(j) /\ mail'[j] = mail[j]
      BY <1>8, <1>12, <1>15, <2>2
    <3>2. \A i \in Contributor : Waker(i, j)' => Waker(i, j)
      BY <1>17
    <3> QED
      BY <3>1, <3>2 DEF Tokens
  <2> QED
    BY <2>1, <2>2
<1> QED
  BY <1>11, <1>14, <1>18 DEF Tokens

\* So every step of a thread at work keeps what it notifies and wakes up in order.
LEMMA WorkWork == ASSUME WorkStep, Types, Places, Slots, Work, Hellos, Tokens, Signals
                  PROVE  Work' /\ Tokens' /\ Signals'
BY BeginWork, EndWork, KillWork, SendWork, SentWork, BlockWork, SigWaitWork, RecvWork, WakeBlockerWork
   DEF WorkStep

------------------------------------------------------------------------------
(* The invariant.                                                           *)

IInv == /\ Types /\ Places /\ Slots /\ Work /\ Hellos /\ Tokens /\ Barriers /\ Signals

\* No PET has created a thread yet, and all counts are 0.
LEMMA InitInv == Init => IInv
<1> SUFFICES ASSUME Init PROVE IInv
  OBVIOUS
<1>1. Types
  <2>1. pc \in [PET -> Starting \cup Cycling \cup Joining \cup {"out"}]
    BY DEF Init, Starting
  <2>2. tpc \in [Thread -> Quiet \cup Busy]
    BY DEF Init, Quiet
  <2>3. round \in [PET -> 0..Rounds]
    BY PetAssumption DEF Init
  <2> QED
    BY <2>1, <2>2, <2>3 DEF Init, Types
<1>2. Places
  <2> SUFFICES ASSUME NEW p \in PET PROVE AtPlace(p)
    BY DEF Places
  <2>1. pc[p] = "create" /\ at[p] = 1 /\ round[p] = 0 /\ Len(Own(p)) \in Nat
    BY OwnSeq DEF Init
  <2> QED
    BY <2>1 DEF AtPlace, Cycling, Joining
<1>3. ASSUME NEW v \in Thread
      PROVE  /\ pc[Host(v)] = "create" /\ at[Host(v)] = 1 /\ round[Host(v)] = 0
             /\ tpc[v] = "none" /\ ~ended[v] /\ ~released[v]
  BY HostPlace DEF Init
<1>4. Slots
  <2> SUFFICES ASSUME NEW v \in Thread
               PROVE  Slot(pc[Host(v)], at[Host(v)], round[Host(v)], Place(v), tpc[v], ended[v],
                           released[v])
    BY DEF Slots
  <2>1. Place(v) \in Nat /\ Place(v) >= 1
    BY PlaceNat
  <2> QED
    BY <1>3, <2>1 DEF Slot, NotYet, Starting, Joining
<1>5. \A v \in Thread : \A L \in SUBSET ActiveAt : Done(v, L) = 0
  BY <1>3 DEF Done, Cycle, ActiveAt
<1>6. Work
  <2>1. {"released", "user"} \in SUBSET ActiveAt
    BY DEF ActiveAt
  <2> QED
    BY <1>3, <1>5, <2>1, ChildHost DEF Work, Init
<1>7. Hellos
  <2> SUFFICES ASSUME NEW k \in Contributor PROVE Told(k) = Heard(Spawner(To[k])) + hello[k]
    BY DEF Hellos
  <2>1. k \in PET /\ Spawner(To[k]) \in PET
    BY ServiceHost, ChildHost
  <2> QED
    BY <2>1 DEF Init, Told, Heard
<1>8. ASSUME NEW k \in Contributor
      PROVE  Woken(k) = 0 /\ Taken(k) = 0 /\ Mailed(k) = 0 /\ Killed(k) = 0
  <2>1. {"released", "block"} \in SUBSET ActiveAt /\ {"released"} \in SUBSET ActiveAt
    BY DEF ActiveAt
  <2>2. Woken(k) = 0 /\ Taken(k) = 0
    BY <1>5, <2>1, ServiceHost DEF Woken, Taken
  <2>3. Mailed(k) = 0 /\ Killed(k) = 0
    BY ServiceHost DEF Mailed, Killed, Left, Init
  <2> QED
    BY <2>2, <2>3
<1>9. Tokens
  <2>1. \A j, k \in Contributor : ~Waker(j, k)
    BY <1>3, ServiceHost DEF Waker
  <2> QED
    BY <1>8, <2>1 DEF Tokens, Init
<1>10. Barriers
  BY DEF Barriers, Crossed, Init, Joining
<1>11. Signals
  <2> SUFFICES ASSUME NEW i \in {Pid[p] : p \in PET}
               PROVE  sig[i] + Cardinality(TakenIn(i)) <= Cardinality(KilledIn(i))
    BY DEF Signals
  <2>1. sig[i] = 0 /\ TakenIn(i) = KilledIn(i)
    BY <1>8 DEF Init, TakenIn, KilledIn
  <2>2. IsFiniteSet(KilledIn(i))
    <3>1. KilledIn(i) \in SUBSET Contributor
      BY DEF KilledIn
    <3> QED
      BY <3>1, FiniteContributor, FS_Subset
  <2>3. Cardinality(KilledIn(i)) \in Nat
    BY <2>2, FS_CardinalityType
  <2> QED
    BY <2>1, <2>3
<1> QED
  BY <1>1, <1>2, <1>4, <1>6, <1>7, <1>9, <1>10, <1>11 DEF IInv

\* A step is of a PET, of a thread in its loop, or of a thread at work.
LEMMA Steps == Next => QuietStep \/ WorkStep
<1> SUFFICES ASSUME Next PROVE QuietStep \/ WorkStep
  OBVIOUS
<1>1. CASE \E p \in PET : Pet(p)
  BY <1>1 DEF QuietStep
<1>2. ASSUME NEW c \in Child, UserThread(c) PROVE QuietStep \/ WorkStep
  <2>1. CASE Vmkt(<<"child", c>>)
    BY <2>1, ChildHost DEF QuietStep, ChildThread
  <2>2. CASE ~Vmkt(<<"child", c>>)
    BY <1>2, <2>2 DEF UserThread, WorkStep
  <2> QED
    BY <2>1, <2>2
<1>3. ASSUME NEW k \in Contributor, BlockerThread(k) \/ CatcherThread(k) PROVE QuietStep \/ WorkStep
  <2>1. CASE Vmkt(Blocker(k)) \/ Vmkt(Catcher(k))
    BY <2>1, ServiceHost DEF QuietStep
  <2>2. CASE ~Vmkt(Blocker(k)) /\ ~Vmkt(Catcher(k))
    BY <1>3, <2>2 DEF BlockerThread, CatcherThread, WorkStep
  <2> QED
    BY <2>1, <2>2
<1> QED
  BY <1>1, <1>2, <1>3 DEF Next

\* Every step keeps the invariant.
LEMMA NextInv == IInv /\ [Next]_vars => IInv'
<1> SUFFICES ASSUME IInv, [Next]_vars PROVE IInv'
  OBVIOUS
<1>1. Types /\ Places /\ Slots /\ Work /\ Hellos /\ Tokens /\ Barriers /\ Signals
  BY DEF IInv
<1>2. CASE QuietStep
  <2>1. Types' /\ Places' /\ Slots'
    BY <1>1, <1>2, PetTypes, VmktTypes, PetPlaces, VmktPlaces, PetSlots, VmktSlots DEF QuietStep
  <2>2. Work' /\ Hellos' /\ Tokens'
    BY <1>1, <1>2, QuietWork, QuietHellos, QuietTokens
  <2>3. Barriers' /\ Signals'
    BY <1>1, <1>2, QuietBarriers, QuietSignals
  <2> QED
    BY <2>1, <2>2, <2>3 DEF IInv
<1>3. CASE WorkStep
  <2>1. Types' /\ Places' /\ Slots'
    BY <1>1, <1>3, WorkTypes, WorkIsOnly, WorkPlaces, WorkSlots
  <2>2. UNCHANGED petVars
    BY <1>1, <1>3, WorkIsOnly DEF WorkOnly
  <2>3. Hellos' /\ Barriers'
    BY <1>1, <2>2, WorkHellos, WorkBarriers
  <2>4. Work' /\ Tokens' /\ Signals'
    BY <1>1, <1>3, WorkWork
  <2> QED
    BY <2>1, <2>3, <2>4 DEF IInv
<1>4. CASE UNCHANGED vars
  <2>1. /\ UNCHANGED <<pc, at, round, hello>> /\ UNCHANGED <<tpc, ended, released>>
        /\ UNCHANGED <<ran, todo, sig, mail, target>>
    BY <1>4 DEF vars, petVars, vmktVars, workVars
  <2> USE <1>1, <2>1
  <2>2. Types'
    BY DEF Types
  <2>3. Places'
    BY DEF Places, AtPlace
  <2>4. Slots'
    BY DEF Slots
  <2>5. \A v, L : Done(v, L)' = Done(v, L)
    BY DEF Done, Cycle
  <2>6. \A k, L : Left(k, L)' = Left(k, L)
    BY DEF Left
  <2>7. Work'
    BY <2>5 DEF Work
  <2>8. Hellos' /\ Barriers'
    BY WorkHellos, WorkBarriers DEF petVars
  <2>9. \A k : Woken(k)' = Woken(k) /\ Taken(k)' = Taken(k) /\ Mailed(k)' = Mailed(k) /\ Killed(k)' = Killed(k)
    BY <2>5, <2>6 DEF Woken, Taken, Mailed, Killed
  <2>10. Tokens'
    BY <2>9, TokensKept DEF Waker
  <2>11. Signals'
    BY <2>9, SignalsKept DEF petVars
  <2> QED
    BY <2>2, <2>3, <2>4, <2>7, <2>8, <2>10, <2>11 DEF IInv
<1> QED
  BY <1>2, <1>3, <1>4, Steps

\* The inductive invariant: where PETs and threads can be together, and how their counts hold.
THEOREM ThreadInv == Spec => []IInv
<1>1. Init => IInv
  BY InitInv
<1>2. IInv /\ [Next]_vars => IInv'
  BY NextInv
<1> QED
  BY <1>1, <1>2, PTL DEF Spec

------------------------------------------------------------------------------
(* The properties.                                                          *)

\* A contributor that an exit or a shutdown has taken its threads back from has been woken up
\* in every cycle it counts.
LEMMA WokenByExit == ASSUME IInv, NEW k \in Contributor
                     PROVE  /\ Completed(k) \in Nat /\ Completed(k) <= Woken(k)
                            /\ pc[k] = "barrier" => round[k] <= Woken(k)
<1> DEFINE v == Blocker(k)
<1>1. v \in Thread /\ k \in PET /\ Host(v) = k /\ Place(v) = 1 /\ Len(Own(k)) \in Nat /\ round[k] \in Nat
  BY ServiceHost, OwnSeq DEF IInv, Types
<1>2. Slot(pc[k], at[k], round[k], 1, tpc[v], ended[v], released[v]) /\ AtPlace(k)
  BY <1>1 DEF IInv, Slots, Places
<1>3. pc[k] = "down" => at[k] > 1
  <2>1. 1 <= Len(Own(k))
    BY <1>1, HostPlace
  <2> QED
    BY <1>1, <1>2, <2>1 DEF AtPlace
<1> HIDE DEF v
<1>4. ASSUME \/ pc[k] = "down" \/ pc[k] = "barrier"
             \/ pc[k] = "out" /\ ~Kept(round[k])
      PROVE  Woken(k) = round[k]
  <2>1. tpc[v] \notin {"released", "block"}
    BY <1>2, <1>3, <1>4 DEF Slot, Idle, Over, Joining, IdleAt
  <2>2. Cycle(v) = round[k]
    BY <1>1, <1>4 DEF Cycle
  <2> QED
    BY <2>1, <2>2 DEF Woken, Done, v
<1>5. Woken(k) \in Nat /\ round[k] <= Woken(k) + 1
  BY Chain DEF IInv
<1>6. CASE pc[k] = "down" \/ (pc[k] = "out" /\ (ExitLast \/ round[k] < Rounds))
  <2>1. Woken(k) = round[k]
    BY <1>1, <1>4, <1>6 DEF Kept
  <2>2. Completed(k) = round[k] /\ pc[k] # "barrier"
    BY <1>6 DEF Completed
  <2> QED
    BY <1>1, <2>1, <2>2
<1>7. CASE ~(pc[k] = "down" \/ (pc[k] = "out" /\ (ExitLast \/ round[k] < Rounds)))
  <2>1. Completed(k) = IF round[k] > 0 THEN round[k] - 1 ELSE 0
    BY <1>7 DEF Completed
  <2> QED
    BY <1>1, <1>4, <1>5, <2>1
<1> QED
  BY <1>6, <1>7

\* CoresReturned: a contributor that is past its catches was woken up once in every cycle it
\* counts (WokenByExit), every wakeup took a message, every message came after a signal, and
\* the child PET signals only after its user code has returned (Chain).
THEOREM CoresReturnedHolds == Spec => []CoresReturned
<1>1. IInv => CoresReturned
  <2> SUFFICES ASSUME IInv, NEW k \in Contributor
               PROVE  ran[To[k]] >= IF pc[k] = "barrier" THEN round[k] ELSE Completed(k)
    BY DEF CoresReturned
  <2>1. /\ Woken(k) \in Nat /\ Mailed(k) \in Int /\ Killed(k) \in Int /\ ran[To[k]] \in Nat
        /\ round[k] \in Nat
        /\ Woken(k) <= Mailed(k) /\ Mailed(k) <= Killed(k) /\ Killed(k) <= ran[To[k]]
    BY Chain DEF IInv
  <2> QED
    BY <2>1, WokenByExit
<1> QED
  BY <1>1, ThreadInv, PTL

\* A child PET does not run ahead of what its spawner has heard.
LEMMA ChildBounds == ASSUME IInv, NEW c \in Child
                     PROVE  /\ ran[c] \in Nat /\ ran[c] <= round[Spawner(c)]
                            /\ round[Spawner(c)] \in Nat /\ round[Spawner(c)] <= ran[c] + 1
                            /\ tpc[ChildThread(c)] = "user" => ran[c] + 1 <= Heard(Spawner(c))
<1> DEFINE v == ChildThread(c)
           p == Spawner(c)
<1>1. v \in Thread /\ Host(v) = p /\ p \in PET
  BY ChildHost
<1>2. {"released", "user"} \in SUBSET ActiveAt
  BY DEF ActiveAt
<1>3. ran[c] = Done(v, {"released", "user"})
  BY DEF IInv, Work
<1>4. ran[c] \in Nat /\ ran[c] <= Cycle(v) /\ round[p] <= ran[c] + 1
  BY <1>1, <1>2, <1>3, DoneBounds DEF IInv
<1>5. Cycle(v) \in Nat /\ round[p] \in Nat /\ Cycle(v) <= round[p]
  BY <1>1, CycleBounds DEF IInv
<1>6. Cycle(v) <= Heard(p) /\ Heard(p) \in Int
  BY <1>1, <1>5 DEF Cycle, Heard
<1>7. tpc[v] = "user" => ran[c] = Cycle(v) - 1
  <2>1. tpc[v] = "user" => ~ended[v]
    BY <1>1, BusyActive DEF IInv, Busy
  <2> QED
    BY <1>3, <2>1 DEF Done
<1> HIDE DEF v, p
<1>8. ran[c] <= round[p] /\ (tpc[v] = "user" => ran[c] + 1 <= Heard(p))
  BY <1>4, <1>5, <1>6, <1>7
<1> QED
  BY <1>4, <1>5, <1>8 DEF v, p

\* CoresHeld: user code that runs is in the cycle its spawner has heard all contributors
\* release; the same chain, with no end of the user code for that cycle yet, keeps each
\* contributor in it.
THEOREM CoresHeldHolds == Spec => []CoresHeld
<1>1. IInv => CoresHeld
  <2> SUFFICES ASSUME IInv, NEW c \in Child, tpc[<<"child", c>>] = "user", NEW k \in From(c)
               PROVE  round[k] = ran[c] + 1 /\ Completed(k) = ran[c]
    BY DEF CoresHeld
  <2>1. k \in Contributor /\ To[k] = c
    BY DEF From
  <2>2. ran[c] \in Nat /\ ran[c] + 1 <= Heard(Spawner(c))
    BY ChildBounds DEF ChildThread
  <2>3. /\ round[k] \in Nat /\ Woken(k) \in Nat /\ Mailed(k) \in Int /\ Killed(k) \in Int
        /\ Heard(Spawner(c)) \in Int /\ Told(k) \in Int
        /\ round[k] <= Woken(k) + 1 /\ Woken(k) <= Mailed(k) /\ Mailed(k) <= Killed(k)
        /\ Killed(k) <= ran[c] /\ Heard(Spawner(c)) <= Told(k) /\ Told(k) <= round[k]
    BY <2>1, Chain DEF IInv
  <2>4. round[k] = ran[c] + 1 /\ Woken(k) = ran[c]
    BY <2>2, <2>3
  <2>5. Completed(k) \in Nat /\ Completed(k) <= Woken(k)
    BY <2>1, WokenByExit
  <2>6. Completed(k) = round[k] \/ Completed(k) = round[k] - 1
    BY <2>2, <2>4 DEF Completed
  <2> QED
    BY <2>2, <2>4, <2>5, <2>6
<1> QED
  BY <1>1, ThreadInv, PTL

\* ExitAwaitsThreads: behind the barrier of exit every PET of the process has caught its
\* threads, or has gone on; its user threads are done with the cycle either way.
THEOREM ExitAwaitsHolds == Spec => []ExitAwaitsThreads
<1>1. IInv => ExitAwaitsThreads
  <2> SUFFICES ASSUME IInv, NEW p \in PET, NEW q \in PET, Pid[p] = Pid[q], pc[p] = "out",
                      NEW c \in ToSet(Spawned[q])
               PROVE  ran[c] >= Completed(p)
    BY DEF ExitAwaitsThreads
  <2> DEFINE v == ChildThread(c)
  <2>1. c \in Child /\ Spawner(c) = q
    BY SpawnerOf
  <2>2. v \in Thread /\ Host(v) = q /\ Place(v) \in 1..Len(Own(q)) /\ Len(Own(q)) \in Nat
    BY <2>1, ChildHost, HostPlace, OwnSeq
  <2>3. ran[c] \in Nat /\ round[q] \in Nat /\ round[q] <= ran[c] + 1
    BY <2>1, ChildBounds
  <2>4. Completed(p) = Crossed(p) /\ Crossed(p) \in Nat /\ Rounds \in Nat
        /\ (~ExitLast /\ Crossed(p) > 0 => Crossed(p) < Rounds)
    <3>1. round[p] \in Nat /\ round[p] <= Rounds /\ Rounds \in Nat
      BY PetAssumption DEF IInv, Types
    <3> QED
      BY <3>1 DEF Completed, Crossed
  <2>5. CASE Crossed(p) = 0
    BY <2>3, <2>4, <2>5
  <2>6. CASE round[q] > Crossed(p)
    BY <2>3, <2>4, <2>6
  <2>7. CASE /\ Crossed(p) > 0 /\ round[q] = Crossed(p)
             /\ pc[q] \in Joining \cup {"barrier", "out"}
    <3>1. ~Kept(round[q])
      BY <2>4, <2>7, FlagAssumption DEF Kept
    <3>2. Slot(pc[q], at[q], round[q], Place(v), tpc[v], ended[v], released[v]) /\ AtPlace(q)
      BY <2>2 DEF IInv, Slots, Places
    <3>3. at[q] \in Nat /\ Place(v) \in Nat /\ (pc[q] = "down" => Place(v) < at[q])
      BY <2>2, <3>2 DEF AtPlace
    <3> HIDE DEF v
    <3>4. ended[v] \/ tpc[v] \notin {"released", "user"}
      BY <2>7, <3>1, <3>2, <3>3 DEF Slot, Idle, Over, Joining, IdleAt, AtPlace
    <3>5. Cycle(v) = round[q]
      BY <2>2, <2>7 DEF Cycle, Joining
    <3>6. ran[c] = Done(v, {"released", "user"})
      BY <2>1 DEF IInv, Work, v
    <3>7. ran[c] = round[q]
      BY <3>4, <3>5, <3>6 DEF Done
    <3> QED
      BY <2>3, <2>4, <2>7, <3>7
  <2>8. \/ Crossed(p) = 0 \/ round[q] > Crossed(p)
        \/ Crossed(p) > 0 /\ round[q] = Crossed(p) /\ pc[q] \in Joining \cup {"barrier", "out"}
    BY <2>4 DEF IInv, Barriers
  <2> QED
    BY <2>5, <2>6, <2>7, <2>8
<1> QED
  BY <1>1, ThreadInv, PTL

\* TypeOK: the types and places of the invariant, with the bounds that the counts imply (one
\* message at most to a spawner or a blocker, a signal at most per contributor).
THEOREM ThreadType == Spec => []TypeOK
<1>1. IInv => TypeOK
  <2> SUFFICES ASSUME IInv PROVE TypeOK
    OBVIOUS
  <2>1. Types
    BY DEF IInv
  <2>2. pc \in [PET -> {"create", "sync1", "synced1", "sync2", "synced2", "out", "listen",
                        "release", "in", "catch", "caught", "barrier", "join", "joinCatch",
                        "joinCaught", "down"}]
    BY <2>1 DEF Types, Starting, Cycling, Joining
  <2>3. tpc \in [Thread -> {"none", "born", "locked", "loop", "waiting", "released", "over",
                            "user", "notify", "send", "sending", "finish", "recv", "wake",
                            "block", "awake"}]
    BY <2>1 DEF Types, Quiet, Busy
  <2>4. \A p \in PET : at[p] \in 1..(Len(Own(p)) + 1)
    BY DEF IInv, Places, AtPlace
  <2>5. ASSUME NEW k \in Contributor PROVE hello[k] \in 0..1 /\ mail[k] \in 0..1
    <3>1. /\ Told(k) = Heard(Spawner(To[k])) + hello[k] /\ hello[k] \in Nat
          /\ mail[k] \in Nat /\ mail[k] <= 1
      BY <2>1 DEF IInv, Hellos, Tokens, Types
    <3>2. /\ round[k] \in Nat /\ Woken(k) \in Nat /\ Mailed(k) \in Int /\ Killed(k) \in Int
          /\ ran[To[k]] \in Nat /\ Heard(Spawner(To[k])) \in Int /\ Told(k) \in Int
          /\ round[k] <= Woken(k) + 1 /\ Woken(k) <= Mailed(k) /\ Mailed(k) <= Killed(k)
          /\ Killed(k) <= ran[To[k]] /\ ran[To[k]] <= Heard(Spawner(To[k])) /\ Told(k) <= round[k]
      BY Chain DEF IInv
    <3> QED
      BY <3>1, <3>2
  <2>6. ASSUME NEW c \in Child PROVE ran[c] \in 0..Rounds
    <3>1. ran[c] \in Nat /\ round[Spawner(c)] \in Nat /\ ran[c] <= round[Spawner(c)]
      BY ChildBounds
    <3>2. round[Spawner(c)] <= Rounds /\ Rounds \in Nat
      <4>1. Spawner(c) \in PET
        BY ChildHost
      <4>2. round[Spawner(c)] \in 0..Rounds
        BY <2>1, <4>1 DEF Types
      <4> QED
        BY <4>2, PetAssumption
    <3> QED
      BY <3>1, <3>2
  <2>7. ASSUME NEW i \in {Pid[p] : p \in PET} PROVE sig[i] \in 0..Cardinality(Contributor)
    <3>1. sig[i] \in Nat /\ sig[i] + Cardinality(TakenIn(i)) <= Cardinality(KilledIn(i))
      BY <2>1 DEF IInv, Signals, Types
    <3>2. TakenIn(i) \in SUBSET Contributor /\ KilledIn(i) \in SUBSET Contributor
      BY DEF TakenIn, KilledIn
    <3>3. /\ IsFiniteSet(TakenIn(i)) /\ IsFiniteSet(KilledIn(i))
          /\ Cardinality(KilledIn(i)) <= Cardinality(Contributor)
      BY <3>2, FiniteContributor, FS_Subset
    <3>4. /\ Cardinality(TakenIn(i)) \in Nat /\ Cardinality(KilledIn(i)) \in Nat
          /\ Cardinality(Contributor) \in Nat
      BY <3>3, FiniteContributor, FS_CardinalityType
    <3> QED
      BY <3>1, <3>3, <3>4
  <2>8. hello \in [Contributor -> 0..1] /\ mail \in [Contributor -> 0..1]
    BY <2>1, <2>5 DEF Types
  <2>9. ran \in [Child -> 0..Rounds]
    BY <2>1, <2>6 DEF Types
  <2>10. sig \in [{Pid[p] : p \in PET} -> 0..Cardinality(Contributor)]
    BY <2>1, <2>7 DEF Types
  <2> QED
    BY <2>1, <2>2, <2>3, <2>4, <2>8, <2>9, <2>10 DEF Types, TypeOK
<1> QED
  BY <1>1, ThreadInv, PTL
==============================================================================
