---------------------------- MODULE AlarmProofs -----------------------------
(***************************************************************************)
(* Proofs about clocks and alarms, for any alarms, any requests and steps  *)
(* of any size: types; that stepping forward no ring time is skipped nor   *)
(* passed without a ring (RingTimeIsNext); that willRingNext foretells     *)
(* what the next step does (RingsAsForetold); what a call has met that     *)
(* does not return, with steps and ring intervals of any sign              *)
(* (EndlessOnlyIf); and that with steps of the clock's own size an alarm   *)
(* rings exactly at the time steps it should, forward and in reverse       *)
(* (RingsOnTime), and remembers whether it rang at the step before         *)
(* (PrevRingsOnTime).                                                      *)
(***************************************************************************)
EXTENDS AlarmContract, LeastNumber

\* t is one of the instants b, b + i, b + 2 * i, ...
OnInstant(t, b, i) == \E k \in Nat : t = b + k * i

-----------------------------------------------------------------------------
(* The inductive invariant                                                  *)

\* The clock's last two steps have the sign of its own step.
OneSign(c) ==
  /\ c.timeStep # 0
  /\ c.timeStep > 0 => c.currStep > 0 /\ c.prevStep > 0
  /\ c.timeStep < 0 => c.currStep < 0 /\ c.prevStep < 0

\* i does not point against the steps of the clock.
Along(c, i) == /\ c.timeStep > 0 => i >= 0
               /\ c.timeStep < 0 => i <= 0

\* The ring time t of an alarm with interval i, first due at b: the first of its instants
\* that is beyond now.
IsNextRing(c, t, b, i, now) ==
  /\ OnInstant(t, b, i)
  /\ Beyond(c, t, now)
  /\ t # b => ~Beyond(c, t - i, now)

\* An alarm whose ring time is promised has not been changed by its user, has no stop time,
\* and the clock has never gone back since it was created.
Promised(c, r, b) ==
  /\ r.stopTime = Origin
  /\ ~r.userRingTime /\ ~r.userInterval
  /\ Along(c, r.ringInterval)
  /\ c.advanceCount >= 0
  /\ ~r.endless /\ r.ringInterval # 0 =>
       IsNextRing(c, r.ringTime, b, r.ringInterval, c.currTime)

HistoryType == /\ base \in [Alarm -> Int]
               /\ kept \in [Alarm -> BOOLEAN]

ClockInv == TypeOK /\ clock.timeStep # 0

\* While no step has had another sign than the clock's own, the clock shows it.
SignInv == ClockInv /\ oneSign \in BOOLEAN /\ (oneSign => OneSign(clock))

AlarmInv ==
  /\ SignInv
  /\ HistoryType
  /\ \A a \in Alarm : kept[a] => oneSign /\ Exists(a) /\ Promised(clock, alarm[a], base[a])

\* A clock that was never turned steps forward, and alarms are endless as described.
LoopInv ==
  /\ SignInv
  /\ turns \in Nat
  /\ turns = 0 => clock.direction = Forward /\ ~clock.userDirection
  /\ EndlessOnlyIf

-----------------------------------------------------------------------------
(* Arithmetic                                                               *)

LEMMA AbsType == \A i \in Int : Abs(i) \in Nat /\ (i # 0 => Abs(i) > 0)
BY DEF Abs

LEMMA QuotientType == \A i \in Int, j \in Int \ {0} : Quotient(i, j) \in Int
BY AbsType DEF Quotient

LEMMA RemainderType == \A i \in Int, j \in Int \ {0} : Remainder(i, j) \in Int
BY QuotientType DEF Remainder

LEMMA PlusType == \A t, i \in Int : Plus(t, i) \in Int
BY ClockAssumption DEF Plus

LEMMA MinusType == \A t, u \in Int : Minus(t, u) \in Int
BY ClockAssumption DEF Minus

LEMMA ProductType == \A m, n \in Int : m * n \in Int
OBVIOUS

\* The signs of a product.
LEMMA ProductSign == \A m, n \in Int :
                       /\ m > 0 /\ n > 0 => m * n > 0
                       /\ m < 0 /\ n < 0 => m * n > 0
                       /\ m < 0 /\ n > 0 => m * n < 0
                       /\ m > 0 /\ n < 0 => m * n < 0
                       /\ m = 0 \/ n = 0 => m * n = 0
OBVIOUS

\* A multiple of b, and of i of either sign, leaves no remainder.
LEMMA MultipleMod == \A b \in Nat \ {0}, j \in Int : (b * j) % b = 0
BY SMTT(30)

LEMMA NoRemainder == \A k \in Int, i \in Int \ {0} : (k * i) % Abs(i) = 0
<1> SUFFICES ASSUME NEW k \in Int, NEW i \in Int \ {0} PROVE (k * i) % Abs(i) = 0
  OBVIOUS
<1>1. CASE i > 0
  <2>1. k * i = i * k /\ Abs(i) = i /\ i \in Nat \ {0}
    BY <1>1 DEF Abs
  <2> QED
    BY <2>1, MultipleMod
<1>2. CASE i < 0
  <2>1. k * i = (-i) * (-k) /\ Abs(i) = -i /\ -i \in Nat \ {0} /\ -k \in Int
    BY <1>2 DEF Abs
  <2> QED
    BY <2>1, MultipleMod
<1> QED
  BY <1>1, <1>2

LEMMA Instants0 == \A b, i \in Int : OnInstant(b, b, i)
<1> SUFFICES ASSUME NEW b \in Int, NEW i \in Int PROVE OnInstant(b, b, i)
  OBVIOUS
<1>1. 0 \in Nat /\ b = b + 0 * i
  OBVIOUS
<1> QED
  BY <1>1 DEF OnInstant

\* n intervals after an instant lies an instant.
LEMMA InstantsOn == \A t, b, i \in Int, n \in Nat : OnInstant(t, b, i) => OnInstant(t + n * i, b, i)
<1> SUFFICES ASSUME NEW t \in Int, NEW b \in Int, NEW i \in Int, NEW n \in Nat, OnInstant(t, b, i)
             PROVE  OnInstant(t + n * i, b, i)
  OBVIOUS
<1>1. PICK k \in Nat : t = b + k * i
  BY DEF OnInstant
<1>2. k + n \in Nat /\ t + n * i = b + (k + n) * i
  BY <1>1
<1> QED
  BY <1>2 DEF OnInstant

-----------------------------------------------------------------------------
(* A loop of the checks: the least number of iterations after which it may  *)
(* stop                                                                     *)

LEMMA IterationsIs == \A S \in SUBSET Nat :
                        LET n == Iterations(S) IN
                        \/ n = Endless
                        \/ n \in S /\ \A m \in S : n <= m
<1> SUFFICES ASSUME NEW S \in SUBSET Nat, S # {}
             PROVE  Iterations(S) \in S /\ \A m \in S : Iterations(S) <= m
  BY DEF Iterations
<1>1. \E x \in S : \A y \in S : x <= y
  BY LeastNumber
<1>2. Iterations(S) = CHOOSE x \in S : \A y \in S : x <= y
  BY DEF Iterations, Min
<1> QED
  BY <1>1, <1>2

LEMMA IterationsNone == \A S \in SUBSET Nat : Iterations(S) = Endless => S = {}
<1> SUFFICES ASSUME NEW S \in SUBSET Nat, S # {} PROVE Iterations(S) # Endless
  OBVIOUS
<1>1. \E x \in S : \A y \in S : x <= y
  BY LeastNumber
<1>2. Iterations(S) = CHOOSE x \in S : \A y \in S : x <= y
  BY DEF Iterations, Min
<1>3. Iterations(S) \in Nat
  BY <1>1, <1>2
<1> QED
  BY <1>3 DEF Endless

\* The ring time n intervals later; whether the loop may stop there; the alarm moved there.
RingAt(r, n)     == r.ringTime + n * r.ringInterval
Stops(c, r, t, n) == ~Reached(c, t, RingAt(r, n)) \/ AtLimit(c, r, RingAt(r, n))
Moved(r, n)      == [r EXCEPT !.ringTime = RingAt(r, n), !.prevRingTime = RingAt(r, n-1)]

\* What the loop that moves a ring time does: it does not end, it is not entered, or it
\* moves the ring time by the least number of intervals after which it may stop.
LEMMA PushIs == ASSUME NEW c, NEW r \in AlarmState, NEW t \in Int
                PROVE  \/ /\ PushRingTime(c, r, t) = [r EXCEPT !.endless = TRUE]
                          /\ \A m \in 0..(Abs(t - r.ringTime) + 1) : ~Stops(c, r, t, m)
                       \/ PushRingTime(c, r, t) = r /\ Stops(c, r, t, 0)
                       \/ \E n \in Nat \ {0} : /\ PushRingTime(c, r, t) = Moved(r, n)
                                               /\ Stops(c, r, t, n)
                                               /\ ~Stops(c, r, t, n-1)
                                               /\ ~Stops(c, r, t, 0)
<1> DEFINE most == Abs(t - r.ringTime) + 1
           S    == {m \in 0..most : Stops(c, r, t, m)}
           n    == Iterations(S)
<1>1. most \in Nat
  BY AbsType DEF AlarmState
<1>2. S \in SUBSET Nat
  BY <1>1
<1>3. n = Endless \/ (n \in S /\ \A m \in S : n <= m)
  BY <1>2, IterationsIs
<1>4. PushRingTime(c, r, t) =
        CASE n = Endless -> [r EXCEPT !.endless = TRUE]
          [] n = 0       -> r
          [] OTHER       -> Moved(r, n)
  BY DEF PushRingTime, Stops, Moved, RingAt
<1>5. Endless \notin Nat
  BY DEF Endless
<1> HIDE DEF n, most
<1>6. CASE n = Endless
  <2>1. PushRingTime(c, r, t) = [r EXCEPT !.endless = TRUE]
    BY <1>4, <1>5, <1>6
  <2>2. S = {}
    BY <1>2, <1>5, <1>6, IterationsNone DEF n
  <2>3. \A m \in 0..most : ~Stops(c, r, t, m)
    BY <2>2
  <2> QED
    BY <2>1, <2>3 DEF most
<1>7. CASE n \in S /\ n = 0
  BY <1>4, <1>5, <1>7
<1>8. CASE n \in S /\ n # 0 /\ \A m \in S : n <= m
  <2>1. n \in Nat \ {0} /\ Stops(c, r, t, n)
    BY <1>2, <1>8
  <2>2. ~Stops(c, r, t, n - 1) /\ ~Stops(c, r, t, 0)
    BY <1>1, <1>8, <2>1
  <2>3. PushRingTime(c, r, t) = Moved(r, n)
    BY <1>4, <1>5, <2>1
  <2> QED
    BY <2>1, <2>2, <2>3
<1> QED
  BY <1>3, <1>6, <1>7, <1>8

-----------------------------------------------------------------------------
(* Types of what the checks compute                                         *)

\* An alarm with one of its fields changed is an alarm.
LEMMA Field ==
  \A r \in AlarmState :
    /\ \A x \in Int : /\ [r EXCEPT !.ringTime = x] \in AlarmState
                      /\ [r EXCEPT !.prevRingTime = x] \in AlarmState
                      /\ [r EXCEPT !.ringInterval = x] \in AlarmState
                      /\ [r EXCEPT !.ringDuration = x] \in AlarmState
                      /\ [r EXCEPT !.ringBegin = x] \in AlarmState
                      /\ [r EXCEPT !.ringEnd = x] \in AlarmState
                      /\ [r EXCEPT !.ringingCount = x] \in AlarmState
    /\ \A x \in BOOLEAN : /\ [r EXCEPT !.ringing = x] \in AlarmState
                          /\ [r EXCEPT !.onCurrStep = x] \in AlarmState
                          /\ [r EXCEPT !.onPrevStep = x] \in AlarmState
                          /\ [r EXCEPT !.enabled = x] \in AlarmState
                          /\ [r EXCEPT !.sticky = x] \in AlarmState
                          /\ [r EXCEPT !.userRingTime = x] \in AlarmState
                          /\ [r EXCEPT !.userInterval = x] \in AlarmState
                          /\ [r EXCEPT !.endless = x] \in AlarmState
BY DEF AlarmState

LEMMA ClockTimes == \A c \in ClockState : c.currTime \in Int /\ c.prevTime \in Int
BY DEF ClockState

LEMMA FieldType ==
  \A r \in AlarmState :
    /\ {r.ringTime, r.prevRingTime, r.firstRingTime, r.ringInterval, r.stopTime,
        r.ringDuration, r.ringBegin, r.ringEnd, r.ringingCount} \subseteq Int
    /\ r.ringStepCount \in Nat
    /\ {r.ringing, r.onCurrStep, r.onPrevStep, r.enabled, r.sticky,
        r.userRingTime, r.userInterval, r.endless} \subseteq BOOLEAN
BY DEF AlarmState

LEMMA MovedType == ASSUME NEW r \in AlarmState, NEW n \in Int
                   PROVE  /\ Moved(r, n) \in AlarmState
                          /\ Moved(r, n).ringing = r.ringing
                          /\ Moved(r, n).enabled = r.enabled
<1>1. RingAt(r, n) \in Int /\ RingAt(r, n-1) \in Int
  <2>1. n * r.ringInterval \in Int /\ (n-1) * r.ringInterval \in Int
    BY ProductType, FieldType
  <2> QED
    BY <2>1, FieldType DEF RingAt
<1>2. Moved(r, n) \in AlarmState
  BY <1>1, Field, Zenon DEF Moved
<1> QED
  BY <1>2 DEF AlarmState, Moved

LEMMA PushType == ASSUME NEW c, NEW r \in AlarmState, NEW t \in Int
                  PROVE  /\ PushRingTime(c, r, t) \in AlarmState
                         /\ PushRingTime(c, r, t).ringing = r.ringing
                         /\ PushRingTime(c, r, t).enabled = r.enabled
<1>1. CASE PushRingTime(c, r, t) = [r EXCEPT !.endless = TRUE]
  BY <1>1 DEF AlarmState
<1>2. CASE PushRingTime(c, r, t) = r
  BY <1>2
<1>3. CASE \E n \in Nat \ {0} : PushRingTime(c, r, t) = Moved(r, n)
  BY <1>3, MovedType
<1> QED
  BY <1>1, <1>2, <1>3, PushIs

LEMMA TurnOnType == ASSUME NEW c \in ClockState, NEW r \in AlarmState
                    PROVE  /\ CheckTurnOn(c, r) \in AlarmState
                           /\ CheckTurnOn(c, r).enabled = r.enabled
<1> DEFINE on == [r EXCEPT !.ringing = TRUE, !.onCurrStep = TRUE, !.ringBegin = c.currTime]
           moved == [on EXCEPT !.prevRingTime = r.ringTime, !.ringTime = r.ringTime + r.ringInterval]
           quiet == [r EXCEPT !.onCurrStep = FALSE]
<1>1. on \in AlarmState /\ on.enabled = r.enabled /\ on.ringTime = r.ringTime
  <2>1. c.currTime \in Int
    BY DEF ClockState
  <2>2. on \in AlarmState
    BY <2>1, Field, Zenon
  <2> QED
    BY <2>2 DEF AlarmState
<1>2. CheckTurnOn(c, r) \in {quiet, moved, on}
  <2>1. [on EXCEPT !.prevRingTime = r.ringTime, !.ringTime = @ + r.ringInterval] = moved
    BY <1>1 DEF AlarmState
  <2> QED
    BY <2>1 DEF CheckTurnOn
<1> HIDE DEF on
<1>3. moved \in AlarmState /\ moved.enabled = r.enabled
  <2>1. r.ringTime + r.ringInterval \in Int /\ r.ringTime \in Int
    BY FieldType
  <2>2. moved \in AlarmState
    BY <1>1, <2>1, Field, Zenon
  <2> QED
    BY <1>1, <2>2 DEF AlarmState
<1>4. quiet \in AlarmState /\ quiet.enabled = r.enabled
  BY DEF AlarmState
<1> QED
  BY <1>1, <1>2, <1>3, <1>4

LEMMA SilencedType == ASSUME NEW r \in AlarmState
                      PROVE  /\ Silenced(r) \in AlarmState
                             /\ Silenced(r).enabled = r.enabled
                             /\ ~Silenced(r).ringing
<1>1. Silenced(r) \in AlarmState
  <2>1. 0 \in Int
    OBVIOUS
  <2> QED
    BY <2>1, Field, Zenon DEF Silenced
<1> QED
  BY <1>1 DEF Silenced, AlarmState

LEMMA TurnOnOrOffType == ASSUME NEW c \in ClockState, NEW r \in AlarmState, r.ringing => r.enabled
                         PROVE  /\ TurnOnOrOff(c, r) \in AlarmState
                                /\ TurnOnOrOff(c, r).ringing => TurnOnOrOff(c, r).enabled
<1>1. \/ TurnOnOrOff(c, r) = r
      \/ r.enabled /\ TurnOnOrOff(c, r) = CheckTurnOn(c, r)
      \/ TurnOnOrOff(c, r) = Silenced(r)
  BY DEF TurnOnOrOff
<1> QED
  BY <1>1, TurnOnType, SilencedType

LEMMA PreCheckType == ASSUME NEW c \in ClockState, NEW r \in AlarmState, r.ringing => r.enabled
                      PROVE  /\ PreCheck(c, r) \in AlarmState
                             /\ PreCheck(c, r).ringing => PreCheck(c, r).enabled
<1> DEFINE signed == [r EXCEPT !.ringInterval = -@, !.ringDuration = -@]
           Seen(q) == [q EXCEPT !.userRingTime = FALSE, !.userInterval = FALSE]
<1>1. /\ signed \in AlarmState
      /\ signed.ringing = r.ringing
      /\ signed.enabled = r.enabled
  <2>1. -r.ringInterval \in Int /\ -r.ringDuration \in Int
    BY FieldType
  <2>2. signed = [r EXCEPT !.ringInterval = -r.ringInterval, !.ringDuration = -r.ringDuration]
    BY DEF AlarmState
  <2>3. signed \in AlarmState
    BY <2>1, <2>2, Field, Zenon
  <2> QED
    BY <2>3 DEF AlarmState
<1>2. \A q \in AlarmState : Seen(q) \in AlarmState
  BY Field, Zenon
<1>3. \A q \in AlarmState : /\ Seen(q).ringing = q.ringing
                            /\ Seen(q).enabled = q.enabled
  BY <1>2 DEF AlarmState
<1> HIDE DEF Seen, signed
<1>4. \E q \in {r, signed} : \/ PreCheck(c, r) = Seen(q)
                             \/ PreCheck(c, r) = Seen(PushRingTime(c, q, c.prevTime))
  BY DEF PreCheck, Seen, signed
<1> QED
  BY <1>1, <1>2, <1>3, <1>4, PushType, ClockTimes

LEMMA ForwardType == ASSUME NEW c \in ClockState, NEW r \in AlarmState, r.ringing => r.enabled
                     PROVE  /\ CheckForward(c, r) \in AlarmState
                            /\ CheckForward(c, r).ringing => CheckForward(c, r).enabled
<1> DEFINE first   == [r EXCEPT !.onPrevStep = r.onCurrStep]
           checked == IF first.enabled THEN PreCheck(c, first) ELSE first
           rung    == TurnOnOrOff(c, checked)
           counted == IF rung.ringing THEN [rung EXCEPT !.ringingCount = @ + 1] ELSE rung
<1>1. first \in AlarmState /\ (first.ringing => first.enabled)
  BY DEF AlarmState
<1> HIDE DEF first
<1>2. checked \in AlarmState /\ (checked.ringing => checked.enabled)
  BY <1>1, PreCheckType
<1> HIDE DEF checked
<1>3. rung \in AlarmState /\ (rung.ringing => rung.enabled)
  BY <1>2, TurnOnOrOffType
<1> HIDE DEF rung
<1>4. counted \in AlarmState /\ (counted.ringing => counted.enabled)
  BY <1>3 DEF AlarmState
<1> HIDE DEF counted
<1>5. CheckForward(c, r) \in {first, checked, counted, PushRingTime(c, counted, c.currTime)}
  BY DEF CheckForward, first, checked, rung, counted
<1> QED
  BY <1>1, <1>2, <1>4, <1>5, PushType, ClockTimes

LEMMA ResetType == ASSUME NEW c \in ClockState, NEW r \in AlarmState, c.timeStep # 0
                   PROVE  /\ ResetRingBegin(c, r) \in AlarmState
                          /\ ResetRingBegin(c, r).ringing = r.ringing
                          /\ ResetRingBegin(c, r).enabled = r.enabled
<1>1. c.timeStep \in Int \ {0} /\ StartTime \in Int /\ r.ringTime \in Int
  BY ClockAssumption DEF ClockState, AlarmState
<1>2. Remainder(r.ringTime - StartTime, c.timeStep) \in Int
  BY <1>1, RemainderType
<1> DEFINE rem == Remainder(r.ringTime - StartTime, c.timeStep)
           x   == IF rem = 0 THEN r.ringTime
                  ELSE r.ringTime - (IF Positive(c) THEN rem ELSE -rem) + c.timeStep
<1>3. x \in Int
  BY <1>1, <1>2
<1>4. ResetRingBegin(c, r) = [r EXCEPT !.ringBegin = x]
  BY DEF ResetRingBegin
<1> HIDE DEF x
<1> QED
  BY <1>3, <1>4 DEF AlarmState

LEMMA RingEndType == ASSUME NEW c \in ClockState, NEW r \in AlarmState, NEW t \in Int
                     PROVE  RingEndFrom(c, r, t) \in Int
<1>1. r.ringStepCount * c.timeStep \in Int /\ r.ringDuration \in Int
  BY ProductType DEF ClockState, AlarmState
<1> QED
  BY <1>1, PlusType, ClockAssumption DEF RingEndFrom

LEMMA StepBackType == ASSUME NEW r \in AlarmState
                      PROVE  /\ StepBack(r) \in AlarmState
                             /\ StepBack(r).ringing = r.ringing
                             /\ StepBack(r).enabled = r.enabled
<1>1. /\ r.prevRingTime \in Int
      /\ r.prevRingTime - r.ringInterval \in Int
  BY FieldType
<1>2. StepBack(r) = [r EXCEPT !.ringTime = r.prevRingTime,
                              !.prevRingTime = r.prevRingTime - r.ringInterval]
  BY DEF StepBack, AlarmState
<1>3. \A x, y \in Int : [r EXCEPT !.ringTime = x, !.prevRingTime = y] \in AlarmState
  BY Field, Zenon
<1>4. StepBack(r) \in AlarmState
  BY <1>1, <1>2, <1>3
<1> QED
  BY <1>2, <1>4 DEF AlarmState

LEMMA PullStickyType == ASSUME NEW c \in ClockState, NEW r \in AlarmState
                        PROVE  /\ PullBackSticky(c, r) \in AlarmState
                               /\ PullBackSticky(c, r).ringing = r.ringing
                               /\ PullBackSticky(c, r).enabled = r.enabled
<1> DEFINE End(n) == r.ringEnd - n * r.ringInterval
           At(n)  == IF n = 0 THEN r.ringTime ELSE r.prevRingTime - (n-1) * r.ringInterval
           most   == Abs(r.ringEnd - c.currTime) + Abs(r.prevRingTime - r.firstRingTime) + 1
           S      == {m \in 0..most : \/ ~Beyond(c, End(m), c.currTime)
                                           \/ At(m) = r.firstRingTime}
           n      == Iterations(S)
           Pulled(x, y, z) == [r EXCEPT !.ringEnd = x, !.ringTime = y, !.prevRingTime = z]
<1>1. n = Endless \/ n \in Nat
  <2>1. S \in SUBSET Nat
    OBVIOUS
  <2> QED
    BY <2>1, IterationsIs
<1>2. \/ PullBackSticky(c, r) = [r EXCEPT !.endless = TRUE]
      \/ n \in Nat /\ PullBackSticky(c, r) =
           [r EXCEPT !.ringEnd = End(n), !.ringTime = At(n),
                     !.prevRingTime = @ - n * r.ringInterval]
  BY <1>1 DEF PullBackSticky
<1>3. \A x, y, z \in Int : /\ Pulled(x, y, z) \in AlarmState
                           /\ Pulled(x, y, z).ringing = r.ringing
                           /\ Pulled(x, y, z).enabled = r.enabled
  <2> SUFFICES ASSUME NEW x \in Int, NEW y \in Int, NEW z \in Int
               PROVE  /\ Pulled(x, y, z) \in AlarmState
                      /\ Pulled(x, y, z).ringing = r.ringing
                      /\ Pulled(x, y, z).enabled = r.enabled
    OBVIOUS
  <2>1. Pulled(x, y, z) \in AlarmState
    BY Field, Zenon
  <2> QED
    BY <2>1 DEF AlarmState
<1>4. CASE PullBackSticky(c, r) = [r EXCEPT !.endless = TRUE]
  BY <1>4 DEF AlarmState
<1>5. ASSUME NEW k \in Nat,
             PullBackSticky(c, r) = [r EXCEPT !.ringEnd = End(k), !.ringTime = At(k),
                                              !.prevRingTime = @ - k * r.ringInterval]
      PROVE  \E x, y, z \in Int : PullBackSticky(c, r) = Pulled(x, y, z)
  <2>1. k * r.ringInterval \in Int /\ (k-1) * r.ringInterval \in Int
    BY ProductType, FieldType
  <2>2. End(k) \in Int /\ At(k) \in Int /\ r.prevRingTime - k * r.ringInterval \in Int
    BY <2>1, FieldType
  <2>3. PullBackSticky(c, r) = Pulled(End(k), At(k), r.prevRingTime - k * r.ringInterval)
    BY <1>5 DEF AlarmState
  <2> QED
    BY <2>2, <2>3
<1> HIDE DEF Pulled, n, End, At
<1>6. \/ PullBackSticky(c, r) = [r EXCEPT !.endless = TRUE]
      \/ \E x, y, z \in Int : PullBackSticky(c, r) = Pulled(x, y, z)
  BY <1>2, <1>5, Zenon
<1> QED
  BY <1>3, <1>4, <1>6

LEMMA PullBackType == ASSUME NEW c \in ClockState, NEW r \in AlarmState, c.timeStep # 0
                      PROVE  /\ PullBack(c, r) \in AlarmState
                             /\ PullBack(c, r).ringing = r.ringing
                             /\ PullBack(c, r).enabled = r.enabled
BY StepBackType, ResetType DEF PullBack

LEMMA TurnBackOnType == ASSUME NEW c \in ClockState, NEW r \in AlarmState, NEW end, c.timeStep # 0
                        PROVE  /\ TurnBackOn(c, r, end) \in AlarmState
                               /\ TurnBackOn(c, r, end).enabled = r.enabled
<1> DEFINE Turned(on, k) == [r EXCEPT !.ringing = on, !.onCurrStep = on, !.ringingCount = k]
<1>1. \A on \in BOOLEAN, k \in Int : /\ Turned(on, k) \in AlarmState
                                     /\ Turned(on, k).enabled = r.enabled
  <2> SUFFICES ASSUME NEW on \in BOOLEAN, NEW k \in Int
               PROVE  /\ Turned(on, k) \in AlarmState
                      /\ Turned(on, k).enabled = r.enabled
    OBVIOUS
  <2>1. Turned(on, k) \in AlarmState
    BY Field, Zenon
  <2> QED
    BY <2>1 DEF AlarmState
<1>2. \E on \in BOOLEAN, k \in Int : TurnBackOn(c, r, end) = Turned(on, k)
  <2> DEFINE on == IF r.sticky THEN c.currTime = end
                   ELSE /\ ~Reached(c, c.currTime, end)
                        /\ Reached(c, c.currTime + c.timeStep, end)
             q  == Quotient(Minus(c.currTime, r.ringBegin), c.timeStep)
             k  == IF on THEN q + 1 ELSE r.ringingCount
  <2>1. q \in Int
    BY QuotientType, MinusType, FieldType DEF ClockState
  <2>2. on \in BOOLEAN
    BY DEF Reached
  <2>3. k \in Int
    BY <2>1, FieldType
  <2>4. TurnBackOn(c, r, end) = Turned(on, k)
    BY DEF TurnBackOn, AlarmState
  <2> HIDE DEF on, k
  <2> QED
    BY <2>2, <2>3, <2>4
<1> QED
  BY <1>1, <1>2

LEMMA TurnBackOffType == ASSUME NEW c \in ClockState, NEW r \in AlarmState, c.timeStep # 0,
                                r.ringing => r.enabled
                         PROVE  /\ TurnBackOff(c, r) \in AlarmState
                                /\ TurnBackOff(c, r).ringing => TurnBackOff(c, r).enabled
<1> DEFINE off == Silenced(r)
           first == [off EXCEPT !.prevRingTime = off.ringTime]
           fewer == [r EXCEPT !.ringingCount = @ - 1]
<1>1. off \in AlarmState /\ ~off.ringing
  BY SilencedType
<1> HIDE DEF off
<1>2. first \in AlarmState /\ ~first.ringing
  BY <1>1 DEF AlarmState
<1>3. fewer \in AlarmState /\ fewer.ringing = r.ringing /\ fewer.enabled = r.enabled
  BY DEF AlarmState
<1>4. StepBack(off) \in AlarmState /\ ~StepBack(off).ringing
  BY <1>1, StepBackType
<1>5. TurnBackOff(c, r) \in {fewer, ResetRingBegin(c, StepBack(off)), ResetRingBegin(c, first)}
  BY DEF TurnBackOff, off
<1> HIDE DEF first, fewer
<1> QED
  BY <1>2, <1>3, <1>4, <1>5, ResetType

LEMMA ReverseType == ASSUME NEW c \in ClockState, NEW r \in AlarmState, c.timeStep # 0,
                            r.ringing => r.enabled
                     PROVE  /\ CheckReverse(c, r) \in AlarmState
                            /\ CheckReverse(c, r).ringing => CheckReverse(c, r).enabled
<1> DEFINE back == IF r.sticky THEN PullBackSticky(c, r) ELSE PullBack(c, r)
           end  == IF back.sticky THEN back.ringEnd ELSE RingEndFrom(c, back, back.ringBegin)
           rung == CASE back.enabled /\ ~back.ringing -> TurnBackOn(c, back, end)
                     [] back.enabled /\ back.ringing /\ ~back.sticky -> TurnBackOff(c, back)
                     [] OTHER -> back
<1>1. back \in AlarmState /\ (back.ringing => back.enabled)
  BY PullStickyType, PullBackType
<1>2. rung \in AlarmState /\ (rung.ringing => rung.enabled)
  <2> HIDE DEF back, end
  <2>1. \/ rung = back
        \/ rung = TurnBackOff(c, back)
        \/ back.enabled /\ rung = TurnBackOn(c, back, end)
    OBVIOUS
  <2> HIDE DEF rung
  <2> QED
    BY <1>1, <2>1, TurnBackOnType, TurnBackOffType
<1>3. \/ CheckReverse(c, r) \in {r, back, rung}
      \/ \E on \in BOOLEAN : CheckReverse(c, r) = [rung EXCEPT !.onPrevStep = on]
  <2> DEFINE next == /\ back.ringing /\ ~back.sticky /\ back.ringingCount <= 1
                     /\ back.ringTime # back.firstRingTime
             last == IF next THEN RingEndFrom(c, rung, rung.ringTime) ELSE end
             on   == Reached(c, c.prevTime, rung.ringTime) /\ ~Reached(c, c.prevTime, last)
  <2>1. CheckReverse(c, r) \in {r, back, rung, [rung EXCEPT !.onPrevStep = on]}
    BY DEF CheckReverse
  <2>2. on \in BOOLEAN
    BY DEF Reached
  <2> HIDE DEF back, end, rung, next, last, on
  <2> QED
    BY <2>1, <2>2
<1> HIDE DEF back, rung
<1>4. \A on \in BOOLEAN : /\ [rung EXCEPT !.onPrevStep = on] \in AlarmState
                          /\ [rung EXCEPT !.onPrevStep = on].ringing = rung.ringing
                          /\ [rung EXCEPT !.onPrevStep = on].enabled = rung.enabled
  BY <1>2 DEF AlarmState
<1> QED
  BY <1>1, <1>2, <1>3, <1>4

LEMMA CheckType == ASSUME NEW c \in ClockState, NEW r \in AlarmState, c.timeStep # 0,
                          r.ringing => r.enabled
                   PROVE  /\ CheckRingTime(c, r) \in AlarmState
                          /\ CheckRingTime(c, r).ringing => CheckRingTime(c, r).enabled
BY ForwardType, ReverseType DEF CheckRingTime

-----------------------------------------------------------------------------
(* Types of the clock and of its alarms                                     *)

LEMMA InitClock == Init => ClockInv /\ OneSign(clock)
<1> SUFFICES ASSUME Init PROVE ClockInv /\ OneSign(clock)
  OBVIOUS
<1>1. PICK s \in TimeStep, t \in StopTime : clock = NewClock(s, t)
  BY DEF Init
<1>2. s \in Int \ {0} /\ t \in Int /\ StartTime \in Int
  BY ClockAssumption
<1>3. clock \in ClockState /\ OneSign(clock)
  BY <1>1, <1>2 DEF NewClock, ClockState, OneSign, Forward
<1>4. alarm \in [Alarm -> AlarmState \cup {NoAlarm}] /\ \A a \in Alarm : ~Exists(a)
  BY DEF Init, Exists
<1> QED
  BY <1>3, <1>4 DEF ClockInv, TypeOK, OneSign

\* A clock with one of its fields changed is a clock.
LEMMA ClockField ==
  \A c \in ClockState :
    /\ \A x \in Int : /\ [c EXCEPT !.currTime = x] \in ClockState
                      /\ [c EXCEPT !.prevTime = x] \in ClockState
                      /\ [c EXCEPT !.currStep = x] \in ClockState
                      /\ [c EXCEPT !.prevStep = x] \in ClockState
                      /\ [c EXCEPT !.advanceCount = x] \in ClockState
    /\ \A d \in {Forward, Reverse} : [c EXCEPT !.direction = d] \in ClockState
    /\ \A x \in BOOLEAN : [c EXCEPT !.userDirection = x] \in ClockState
BY DEF ClockState

\* The clock after a step.
LEMMA SteppedType == ASSUME NEW c \in ClockState, NEW s \in Int
                     PROVE  /\ Stepped(c, s) \in ClockState
                            /\ Stepped(c, s).timeStep = c.timeStep
<1> DEFINE On(t, u, v, w, n) == [c EXCEPT !.prevTime = t, !.prevStep = u, !.currStep = v,
                                          !.currTime = w, !.advanceCount = n]
           Back(t, u, n) == [c EXCEPT !.currTime = t, !.prevTime = u, !.advanceCount = n]
<1>a. /\ c.currTime \in Int /\ c.prevTime \in Int /\ c.timeStep \in Int
      /\ c.currStep \in Int /\ c.advanceCount \in Int /\ s \in Int
  BY DEF ClockState
<1>1. Stepped(c, s) \in ClockState
  <2>1. /\ c.currTime + s \in Int /\ c.advanceCount + 1 \in Int
        /\ c.currTime - s \in Int /\ c.prevTime - c.timeStep \in Int /\ c.advanceCount - 1 \in Int
    BY <1>a
  <2>2. On(c.currTime, c.currStep, s, c.currTime + s, c.advanceCount + 1) \in ClockState
    BY <1>a, <2>1, ClockField, Zenon
  <2>3. Back(c.currTime - s, c.prevTime - c.timeStep, c.advanceCount - 1) \in ClockState
    BY <1>a, <2>1, ClockField, Zenon
  <2>4. \/ Stepped(c, s) = On(c.currTime, c.currStep, s, c.currTime + s, c.advanceCount + 1)
        \/ Stepped(c, s) = Back(c.currTime - s, c.prevTime - c.timeStep, c.advanceCount - 1)
    BY DEF Stepped, ClockState
  <2> QED
    BY <2>2, <2>3, <2>4, Zenon
<1> QED
  BY <1>1 DEF Stepped, ClockState

\* A step of the sign of the clock's own leaves the clock with steps of that sign.
LEMMA SteppedSign == ASSUME NEW c \in ClockState, OneSign(c), NEW s \in Int \ {0},
                            s * c.timeStep >= 0
                     PROVE  OneSign(Stepped(c, s))
<1>1. (c.timeStep > 0 => s > 0) /\ (c.timeStep < 0 => s < 0)
  BY ProductSign DEF ClockState, OneSign
<1> QED
  BY <1>1 DEF Stepped, ClockState, OneSign, Forward, Reverse

\* The clock steps by something.
LEMMA StepSizes == ASSUME ClockInv, NEW s \in AdvanceStep \cup {clock.timeStep}
                   PROVE  s \in Int \ {0}
BY ClockAssumption DEF ClockInv, TypeOK, ClockState

LEMMA NewAlarmType == ASSUME NEW c \in ClockState, NEW q \in Request
                      PROVE  NewAlarm(c, q) \in AlarmState /\ ~NewAlarm(c, q).ringing
<1>1. q \in [ringTime : Int, ringInterval : Int, ringDuration : Int, ringStepCount : Nat,
             sticky : BOOLEAN, stopTime : Int, enabled : BOOLEAN]
  BY ClockAssumption
<1>2. c.currTime \in Int /\ Origin \in Int
  BY ClockAssumption DEF ClockState
<1> QED
  BY <1>1, <1>2 DEF NewAlarm, AlarmState

LEMMA RungOffType == ASSUME NEW c \in ClockState, NEW r \in AlarmState
                     PROVE  RungOff(c, r) \in AlarmState /\ ~RungOff(c, r).ringing
<1> DEFINE off  == [r EXCEPT !.ringing = FALSE, !.ringingCount = 0]
           back == [off EXCEPT !.ringTime = @ - r.ringInterval, !.prevRingTime = @ - r.ringInterval]
<1>1. off \in AlarmState /\ ~off.ringing
  <2>1. off \in AlarmState
    <3>1. 0 \in Int
      OBVIOUS
    <3> QED
      BY <3>1, Field, Zenon
  <2> QED
    BY <2>1 DEF AlarmState
<1> HIDE DEF off
<1>2. back \in AlarmState /\ ~back.ringing
  <2>1. off.ringTime - r.ringInterval \in Int /\ off.prevRingTime - r.ringInterval \in Int
    BY <1>1, FieldType
  <2>2. back = [off EXCEPT !.ringTime = off.ringTime - r.ringInterval,
                           !.prevRingTime = off.prevRingTime - r.ringInterval]
    BY <1>1 DEF AlarmState
  <2>3. \A x, y \in Int : [off EXCEPT !.ringTime = x, !.prevRingTime = y] \in AlarmState
    BY <1>1, Field, Zenon
  <2>4. back \in AlarmState
    BY <2>1, <2>2, <2>3
  <2> QED
    BY <1>1, <2>2, <2>4 DEF AlarmState
<1> HIDE DEF back
<1>3. \A q \in AlarmState, x \in Int : /\ [q EXCEPT !.ringEnd = x] \in AlarmState
                                       /\ [q EXCEPT !.ringEnd = x].ringing = q.ringing
  BY DEF AlarmState
<1>4. c.currTime \in Int /\ Plus(back.ringEnd, -r.ringInterval) \in Int
  <2>1. back.ringEnd \in Int /\ -r.ringInterval \in Int
    BY <1>2, FieldType
  <2> QED
    BY <2>1, PlusType DEF ClockState
<1>5. \/ RungOff(c, r) \in {off, back}
      \/ RungOff(c, r) = [off EXCEPT !.ringEnd = c.currTime]
      \/ RungOff(c, r) = [back EXCEPT !.ringEnd = Plus(back.ringEnd, -r.ringInterval)]
  <2>1. [back EXCEPT !.ringEnd = Plus(@, -r.ringInterval)]
          = [back EXCEPT !.ringEnd = Plus(back.ringEnd, -r.ringInterval)]
    BY <1>2 DEF AlarmState
  <2> QED
    BY <2>1 DEF RungOff, off, back
<1> QED
  BY <1>1, <1>2, <1>3, <1>4, <1>5

\* An alarm that rings is enabled.
Alive(r) == r \in AlarmState /\ (r.ringing => r.enabled)

\* What a user's call makes of an alarm is an alarm, and its clock stays as it was.
LEMMA UserCallType == ASSUME ClockInv, NEW a \in Alarm, UserCall(a)
                      PROVE  /\ Exists(a) /\ Running
                             /\ UNCHANGED clock
                             /\ \E r \in AlarmState \cup {NoAlarm} :
                                  /\ alarm' = [alarm EXCEPT ![a] = r]
                                  /\ r # NoAlarm => Alive(r)
<1> DEFINE r == alarm[a]
<1>1. Exists(a) => Alive(r)
  BY DEF ClockInv, TypeOK, Exists, Alive
<1>2. clock \in ClockState
  BY DEF ClockInv, TypeOK
<1>4. CASE DestroyAlarm(a)
  BY <1>4 DEF DestroyAlarm
<1>5. ASSUME RingerOff(a) PROVE \E q : Alive(q) /\ Call(a, q)
  <2>1. Alive(RungOff(clock, r)) /\ Call(a, RungOff(clock, r))
    BY <1>1, <1>2, <1>5, RungOffType DEF RingerOff, Alive
  <2> QED
    BY <2>1
<1>6. ASSUME RingerOn(a) PROVE \E q : Alive(q) /\ Call(a, q)
  <2>1. /\ Alive([r EXCEPT !.ringing = TRUE])
        /\ Call(a, [r EXCEPT !.ringing = TRUE])
    BY <1>1, <1>6 DEF RingerOn, Alive, AlarmState
  <2> QED
    BY <2>1
<1>7. ASSUME Enable(a) PROVE \E q : Alive(q) /\ Call(a, q)
  <2>1. /\ Alive([r EXCEPT !.enabled = TRUE])
        /\ Call(a, [r EXCEPT !.enabled = TRUE])
    BY <1>1, <1>7 DEF Enable, Alive, AlarmState
  <2> QED
    BY <2>1
<1>8. ASSUME Disable(a) PROVE \E q : Alive(q) /\ Call(a, q)
  <2> DEFINE q == [r EXCEPT !.enabled = FALSE, !.ringing = FALSE]
  <2>1. Alive(r) /\ Call(a, q)
    BY <1>1, <1>8 DEF Disable
  <2>2. q \in AlarmState
    BY <2>1, Field, Zenon DEF Alive
  <2>3. Alive(q)
    BY <2>1, <2>2 DEF Alive, AlarmState
  <2> QED
    BY <2>1, <2>3
<1>9. ASSUME SetToSticky(a) PROVE \E q : Alive(q) /\ Call(a, q)
  <2>1. /\ Alive([r EXCEPT !.sticky = TRUE])
        /\ Call(a, [r EXCEPT !.sticky = TRUE])
    BY <1>1, <1>9 DEF SetToSticky, Alive, AlarmState
  <2> QED
    BY <2>1
<1>10. ASSUME NotSticky(a) PROVE \E q : Alive(q) /\ Call(a, q)
  <2>1. /\ Alive([r EXCEPT !.sticky = FALSE])
        /\ Call(a, [r EXCEPT !.sticky = FALSE])
    BY <1>1, <1>10 DEF NotSticky, Alive, AlarmState
  <2> QED
    BY <2>1
<1>11. ASSUME NEW t \in SetTime, SetRingTime(a, t)
       PROVE  \E q : Alive(q) /\ Call(a, q)
  <2> DEFINE q == [r EXCEPT !.ringTime = t, !.prevRingTime = t, !.userRingTime = TRUE]
  <2>1. Alive(r) /\ Call(a, q) /\ t \in Int
    BY <1>1, <1>11, ClockAssumption DEF SetRingTime
  <2>2. q \in AlarmState
    BY <2>1, Field, Zenon DEF Alive
  <2>3. Alive(q)
    BY <2>1, <2>2 DEF Alive, AlarmState
  <2> QED
    BY <2>1, <2>3
<1>12. ASSUME NEW i \in SetInterval, SetRingInterval(a, i)
       PROVE  \E q : Alive(q) /\ Call(a, q)
  <2> DEFINE q == [r EXCEPT !.ringInterval = i, !.userInterval = TRUE]
  <2>1. Alive(r) /\ Call(a, q) /\ i \in Int
    BY <1>1, <1>12, ClockAssumption DEF SetRingInterval
  <2>2. q \in AlarmState
    BY <2>1, Field, Zenon DEF Alive
  <2>3. Alive(q)
    BY <2>1, <2>2 DEF Alive, AlarmState
  <2> QED
    BY <2>1, <2>3
<1>13. DestroyAlarm(a) \/ \E q : Alive(q) /\ Call(a, q)
  <2> HIDE DEF r
  <2> QED
    BY <1>4, <1>5, <1>6, <1>7, <1>8, <1>9, <1>10, <1>11, <1>12 DEF UserCall
<1>14. CASE \E q : Alive(q) /\ Call(a, q)
  <2>1. PICK q : Alive(q) /\ Call(a, q)
    BY <1>14
  <2> QED
    BY <2>1, NoAlarmAssumption DEF Call, Alive
<1> QED
  BY <1>4, <1>13, <1>14

\* A step of the clock or a call on it checks alarms, or leaves them alone.
LEMMA AdvanceType == ASSUME ClockInv, NEW s \in Int \ {0}, Advance(s)
                     PROVE  ClockInv'
<1> DEFINE c == Stepped(clock, s)
<1>1. c \in ClockState /\ c.timeStep # 0
  BY SteppedType DEF ClockInv, TypeOK
<1>2. clock' = [c EXCEPT !.userDirection = FALSE]
  BY DEF Advance
<1>3. alarm' = [a \in Alarm |-> IF Exists(a) THEN CheckRingTime(c, alarm[a]) ELSE NoAlarm]
  BY DEF Advance
<1> HIDE DEF c
<1>4. clock' \in ClockState /\ clock'.timeStep # 0
  BY <1>1, <1>2 DEF ClockState
<1>5. \A a \in Alarm : Exists(a) => Alive(CheckRingTime(c, alarm[a]))
  BY <1>1, CheckType DEF ClockInv, TypeOK, Exists, Alive
<1>6. alarm' \in [Alarm -> AlarmState \cup {NoAlarm}]
  BY <1>3, <1>5 DEF Alive
<1>7. \A a \in Alarm : Exists(a)' /\ alarm'[a].ringing => alarm'[a].enabled
  BY <1>3, <1>5 DEF Alive, Exists
<1> QED
  BY <1>4, <1>6, <1>7 DEF ClockInv, TypeOK

\* Replacing one alarm keeps the types.
LEMMA OneAlarmType == ASSUME ClockInv, NEW a \in Alarm, NEW r \in AlarmState \cup {NoAlarm},
                             r # NoAlarm => Alive(r), alarm' = [alarm EXCEPT ![a] = r],
                             clock' \in ClockState, clock'.timeStep # 0
                      PROVE  ClockInv'
<1>1. alarm' \in [Alarm -> AlarmState \cup {NoAlarm}]
  BY DEF ClockInv, TypeOK
<1>2. \A b \in Alarm : Exists(b)' /\ alarm'[b].ringing => alarm'[b].enabled
  BY DEF ClockInv, TypeOK, Exists, Alive
<1> QED
  BY <1>1, <1>2 DEF ClockInv, TypeOK

LEMMA CreateType == ASSUME ClockInv, NEW a \in Alarm, NEW q \in Request, CreateAlarm(a, q)
                    PROVE  ClockInv'
<1> DEFINE r == CheckRingTime(clock, NewAlarm(clock, q))
<1>1. clock \in ClockState /\ clock.timeStep # 0
  BY DEF ClockInv, TypeOK
<1>2. Alive(r)
  BY <1>1, NewAlarmType, CheckType DEF Alive
<1>3. clock' \in ClockState /\ clock'.timeStep # 0
  BY <1>1 DEF CreateAlarm, ClockState
<1>4. alarm' = [alarm EXCEPT ![a] = r]
  BY DEF CreateAlarm
<1> HIDE DEF r
<1> QED
  BY <1>2, <1>3, <1>4, OneAlarmType DEF Alive

LEMMA DirectionType == ASSUME ClockInv, NEW d \in {Forward, Reverse}, SetDirection(d)
                       PROVE  ClockInv'
<1>1. clock' \in ClockState /\ clock'.timeStep # 0
  <2>1. clock' = [clock EXCEPT !.direction = d, !.userDirection = TRUE]
    BY DEF SetDirection
  <2>2. clock' \in ClockState
    BY <2>1, ClockField, Zenon DEF ClockInv, TypeOK
  <2> QED
    BY <2>1, <2>2 DEF ClockInv, TypeOK, ClockState
<1> QED
  BY <1>1 DEF ClockInv, TypeOK, Exists, SetDirection

LEMMA StepClock == ClockInv /\ [Next]_vars => ClockInv'
<1> SUFFICES ASSUME ClockInv, [Next]_vars PROVE ClockInv'
  OBVIOUS
<1>1. ASSUME NEW s \in AdvanceStep \cup {clock.timeStep}, Advance(s) PROVE ClockInv'
  BY <1>1, StepSizes, AdvanceType
<1>2. ASSUME NEW d \in {Forward, Reverse}, SetDirection(d) PROVE ClockInv'
  BY <1>2, DirectionType
<1>3. ASSUME NEW a \in Alarm, NEW q \in Request, CreateAlarm(a, q) PROVE ClockInv'
  BY <1>3, CreateType
<1>4. ASSUME NEW a \in Alarm, UserCall(a) PROVE ClockInv'
  <2>1. PICK r \in AlarmState \cup {NoAlarm} : /\ alarm' = [alarm EXCEPT ![a] = r]
                                               /\ r # NoAlarm => Alive(r)
    BY <1>4, UserCallType
  <2>2. clock' \in ClockState /\ clock'.timeStep # 0
    BY <1>4, UserCallType DEF ClockInv, TypeOK
  <2> QED
    BY <2>1, <2>2, OneAlarmType
<1>5. CASE UNCHANGED vars
  BY <1>5 DEF vars, ClockInv, TypeOK, Exists
<1> QED
  BY <1>1, <1>2, <1>3, <1>4, <1>5 DEF Next

\* The fields of clocks and alarms have their types, the clock's own step is not zero, and an
\* alarm that rings is enabled, whatever its users and the clock do.
THEOREM ClockInvariant == Spec => []ClockInv
<1>1. Init => ClockInv
  BY InitClock
<1> QED
  BY <1>1, StepClock, PTL DEF Spec

THEOREM AlarmType == Spec => []TypeOK
<1>1. ClockInv => TypeOK
  BY DEF ClockInv
<1> QED
  BY <1>1, ClockInvariant, PTL

-----------------------------------------------------------------------------
(* Ring times of a clock that steps forward                                 *)

\* What the checks leave of an alarm: all that its ring times depend on but the ring time.
Same(p, r) == /\ p.ringInterval = r.ringInterval
              /\ p.stopTime = r.stopTime
              /\ p.sticky = r.sticky
              /\ p.enabled = r.enabled
              /\ p.userRingTime = r.userRingTime
              /\ p.userInterval = r.userInterval

\* All of a clock's comparisons of times go by the sign of its own step.
LEMMA Direction == ASSUME NEW c \in ClockState, OneSign(c), NEW t \in Int, NEW u \in Int
                   PROVE  /\ Reached(c, t, u) <=> IF c.timeStep > 0 THEN t >= u ELSE t <= u
                          /\ Beyond(c, t, u) <=> IF c.timeStep > 0 THEN t > u ELSE t < u
BY DEF Reached, Beyond, Positive, OneSign, ClockState

\* A loop whose condition does not hold is not entered.
LEMMA PushNone == ASSUME NEW c, NEW r \in AlarmState, NEW t \in Int, ~Reached(c, t, r.ringTime)
                  PROVE  PushRingTime(c, r, t) = r
<1>1. RingAt(r, 0) = r.ringTime
  BY FieldType, ProductSign DEF RingAt
<1>2. Stops(c, r, t, 0)
  BY <1>1 DEF Stops
<1>3. 0 \in 0..(Abs(t - r.ringTime) + 1)
  BY AbsType, FieldType
<1> QED
  BY <1>2, <1>3, PushIs

LEMMA PushSame == ASSUME NEW c, NEW r \in AlarmState, NEW t \in Int
                  PROVE  Same(PushRingTime(c, r, t), r)
<1>1. CASE PushRingTime(c, r, t) = [r EXCEPT !.endless = TRUE]
  BY <1>1 DEF AlarmState, Same
<1>2. CASE PushRingTime(c, r, t) = r
  BY <1>2 DEF Same
<1>3. CASE \E n \in Nat \ {0} : PushRingTime(c, r, t) = Moved(r, n)
  BY <1>3 DEF AlarmState, Same, Moved
<1> QED
  BY <1>1, <1>2, <1>3, PushIs

\* Without a stop time, the loop ends n intervals later at the first ring time t has not reached.
LEMMA PushAhead == ASSUME NEW c, NEW r \in AlarmState, NEW t \in Int,
                          r.stopTime = Origin, ~PushRingTime(c, r, t).endless
                   PROVE  \E n \in Nat :
                            LET p == PushRingTime(c, r, t) IN
                            /\ p.ringTime = r.ringTime + n * r.ringInterval
                            /\ ~Reached(c, t, p.ringTime)
                            /\ n # 0 => Reached(c, t, p.ringTime - r.ringInterval)
<1>1. \A n : Stops(c, r, t, n) <=> ~Reached(c, t, RingAt(r, n))
  BY DEF Stops, AtLimit
<1>2. PushRingTime(c, r, t) # [r EXCEPT !.endless = TRUE]
  BY DEF AlarmState
<1>3. CASE PushRingTime(c, r, t) = r /\ Stops(c, r, t, 0)
  <2>1. RingAt(r, 0) = r.ringTime /\ r.ringTime = r.ringTime + 0 * r.ringInterval
    BY FieldType, ProductSign DEF RingAt
  <2> QED
    BY <1>1, <1>3, <2>1
<1>4. ASSUME NEW n \in Nat \ {0}, PushRingTime(c, r, t) = Moved(r, n),
             Stops(c, r, t, n), ~Stops(c, r, t, n-1)
      PROVE  LET p == PushRingTime(c, r, t) IN
             /\ p.ringTime = r.ringTime + n * r.ringInterval
             /\ ~Reached(c, t, p.ringTime)
             /\ Reached(c, t, p.ringTime - r.ringInterval)
  <2>1. Moved(r, n).ringTime = RingAt(r, n)
    BY DEF Moved, AlarmState
  <2>2. RingAt(r, n-1) = RingAt(r, n) - r.ringInterval
    <3>1. \A i \in Int : (n-1) * i = n * i - i /\ n * i \in Int
      OBVIOUS
    <3> QED
      BY <3>1, FieldType DEF RingAt
  <2> QED
    BY <1>1, <1>4, <2>1, <2>2 DEF RingAt
<1> QED
  BY <1>2, <1>3, <1>4, PushIs

\* The check that follows a change of direction: no change of sign has occurred, and the ring
\* time is pulled up to the clock's last time only if the direction was changed.
LEMMA PreCheckIs == ASSUME NEW c \in ClockState, OneSign(c), NEW r \in AlarmState,
                           ~r.userRingTime, ~r.userInterval
                    PROVE  LET q == IF c.userDirection THEN PushRingTime(c, r, c.prevTime) ELSE r
                           IN  /\ PreCheck(c, r) \in AlarmState
                               /\ PreCheck(c, r).ringTime = q.ringTime
                               /\ PreCheck(c, r).ringing = q.ringing
                               /\ PreCheck(c, r).endless = q.endless
                               /\ Same(PreCheck(c, r), r)
<1> DEFINE q == IF c.userDirection THEN PushRingTime(c, r, c.prevTime) ELSE r
           Seen(p) == [p EXCEPT !.userRingTime = FALSE, !.userInterval = FALSE]
<1>1. ~(c.currStep * c.prevStep < 0)
  BY ProductSign DEF OneSign, ClockState
<1>2. PreCheck(c, r) = Seen(q)
  BY <1>1 DEF PreCheck
<1>3. q \in AlarmState /\ Same(q, r)
  BY PushType, PushSame, ClockTimes DEF Same
<1> HIDE DEF q
<1>4. Seen(q) \in AlarmState
  BY <1>3, Field, Zenon
<1>5. /\ Seen(q).ringTime = q.ringTime
      /\ Seen(q).endless = q.endless
      /\ Seen(q).ringing = q.ringing
      /\ Same(Seen(q), r)
  BY <1>3, <1>4 DEF AlarmState, Same
<1> QED
  BY <1>2, <1>4, <1>5 DEF q

LEMMA TurnOnIs == ASSUME NEW c \in ClockState, NEW r \in AlarmState, r.stopTime = Origin
                  PROVE  LET p == CheckTurnOn(c, r)
                         IN  /\ Same(p, r)
                             /\ p.endless = r.endless
                             /\ Crossed(c, r) => p.ringing /\ p.ringTime = r.ringTime + r.ringInterval
                             /\ ~Crossed(c, r) => p.ringing = r.ringing /\ p.ringTime = r.ringTime
<1> DEFINE on == [r EXCEPT !.ringing = TRUE, !.onCurrStep = TRUE, !.ringBegin = c.currTime]
           moved == [on EXCEPT !.prevRingTime = r.ringTime, !.ringTime = @ + r.ringInterval]
           quiet == [r EXCEPT !.onCurrStep = FALSE]
<1>1. CheckTurnOn(c, r) = IF Crossed(c, r) THEN moved ELSE quiet
  BY DEF CheckTurnOn, AtLimit
<1>2. /\ Same(quiet, r) /\ quiet.endless = r.endless
      /\ quiet.ringing = r.ringing /\ quiet.ringTime = r.ringTime
  BY DEF Same, AlarmState
<1>3. /\ Same(on, r) /\ on.endless = r.endless /\ on.ringing /\ on.ringTime = r.ringTime
      /\ on \in AlarmState
  <2>1. on \in AlarmState
    <3>1. c.currTime \in Int
      BY DEF ClockState
    <3> QED
      BY <3>1, Field, Zenon
  <2> QED
    BY <2>1 DEF Same, AlarmState
<1> HIDE DEF on
<1>4. /\ Same(moved, r) /\ moved.endless = r.endless /\ moved.ringing
      /\ moved.ringTime = r.ringTime + r.ringInterval
  BY <1>3 DEF Same, AlarmState
<1> QED
  BY <1>1, <1>2, <1>4

\* q is alarm r after the check for a change of direction: its ring time is pushed beyond the
\* clock's previous time, if the direction was changed.
Checked(c, r, q) ==
  /\ Same(q, r) /\ q.ringing = r.ringing
  /\ \/ q.ringTime = r.ringTime /\ q.endless = r.endless
     \/ /\ c.userDirection /\ r.enabled
        /\ Reached(c, c.prevTime, r.ringTime)
        /\ \/ q.endless
           \/ \E n \in Nat \ {0} : /\ q.ringTime = r.ringTime + n * r.ringInterval
                                   /\ ~Reached(c, c.prevTime, q.ringTime)
                                   /\ Reached(c, c.prevTime, q.ringTime - r.ringInterval)

\* p is alarm q turned on or off.  Unless it is disabled, or sticky and ringing, a ring time reached
\* is left behind; a silent alarm begins to ring exactly if the step reached its ring time.
Turned(c, q, p) ==
  /\ Same(p, q) /\ p.endless = q.endless
  /\ \/ p.ringTime = q.ringTime
     \/ Crossed(c, q) /\ p.ringTime = q.ringTime + q.ringInterval
  /\ q.enabled /\ (~q.sticky \/ ~q.ringing) /\ Crossed(c, q) =>
       p.ringTime = q.ringTime + q.ringInterval
  /\ ~q.ringing => (p.ringing <=> q.enabled /\ Crossed(c, q))

\* f is alarm p when the check is over: a sticky alarm is pushed beyond the clock's time.
PushesSticky(c, p) == p.sticky /\ p.ringInterval # 0 /\ c.advanceCount # 0
Settled(c, p, f) ==
  /\ Same(f, p) /\ f.ringing = p.ringing
  /\ ~PushesSticky(c, p) \/ ~Reached(c, c.currTime, p.ringTime)
       => f.ringTime = p.ringTime /\ f.endless = p.endless
  /\ PushesSticky(c, p) /\ ~f.endless =>
       \E n \in Nat : /\ f.ringTime = p.ringTime + n * p.ringInterval
                      /\ ~Reached(c, c.currTime, f.ringTime)
                      /\ n # 0 => Reached(c, c.currTime, f.ringTime - p.ringInterval)

LEMMA TurnOnOrOffIs == ASSUME NEW c \in ClockState, NEW r \in AlarmState, r.stopTime = Origin,
                              r.ringing => r.enabled
                       PROVE  Turned(c, r, TurnOnOrOff(c, r))
<1>1. CASE r.enabled /\ ~r.ringing
  <2>1. TurnOnOrOff(c, r) = CheckTurnOn(c, r)
    BY <1>1 DEF TurnOnOrOff
  <2> QED
    BY <1>1, <2>1, TurnOnIs DEF Turned
<1>2. CASE r.enabled /\ r.ringing /\ ~r.sticky /\ ~(~Crossed(c, r) /\ RungOut(c, r))
  <2>1. TurnOnOrOff(c, r) = CheckTurnOn(c, r)
    BY <1>2 DEF TurnOnOrOff
  <2> QED
    BY <1>2, <2>1, TurnOnIs DEF Turned
<1>3. CASE r.enabled /\ r.ringing /\ ~r.sticky /\ ~Crossed(c, r) /\ RungOut(c, r)
  <2>1. TurnOnOrOff(c, r) = Silenced(r)
    BY <1>3 DEF TurnOnOrOff
  <2>2. /\ Same(Silenced(r), r)
        /\ Silenced(r).endless = r.endless
        /\ Silenced(r).ringTime = r.ringTime
    BY DEF Silenced, Same, AlarmState
  <2> QED
    BY <1>3, <2>1, <2>2 DEF Turned
<1>4. CASE (~r.enabled /\ ~r.ringing) \/ (r.enabled /\ r.ringing /\ r.sticky)
  <2>1. TurnOnOrOff(c, r) = r
    BY <1>4 DEF TurnOnOrOff
  <2> QED
    BY <1>4, <2>1 DEF Turned, Same
<1> QED
  BY <1>1, <1>2, <1>3, <1>4, Zenon

LEMMA CheckedIs == ASSUME NEW c \in ClockState, OneSign(c), NEW r \in AlarmState,
                          r.stopTime = Origin, ~r.userRingTime, ~r.userInterval
                   PROVE  LET q == IF r.enabled THEN PreCheck(c, r) ELSE r
                          IN  q \in AlarmState /\ Checked(c, r, q)
<1> DEFINE g == PushRingTime(c, r, c.prevTime)
           q == PreCheck(c, r)
<1>1. CASE ~r.enabled
  BY <1>1 DEF Checked, Same
<1>2. CASE ~c.userDirection
  BY <1>2, PreCheckIs DEF Checked, Same
<1>3. CASE r.enabled /\ c.userDirection
  <2>1. /\ q \in AlarmState /\ Same(q, r) /\ q.ringing = r.ringing
        /\ q.ringTime = g.ringTime /\ q.endless = g.endless
    BY <1>3, PreCheckIs, PushType, ClockTimes
  <2>2. CASE ~Reached(c, c.prevTime, r.ringTime)
    <3>1. g = r
      BY <2>2, PushNone, ClockTimes
    <3> HIDE DEF q, g
    <3> QED
      BY <1>3, <2>1, <3>1 DEF Checked, q
  <2>3. CASE Reached(c, c.prevTime, r.ringTime) /\ g.endless
    <3> HIDE DEF q, g
    <3> QED
      BY <1>3, <2>1, <2>3 DEF Checked, q
  <2>4. CASE Reached(c, c.prevTime, r.ringTime) /\ ~g.endless
    <3>1. PICK n \in Nat : /\ g.ringTime = r.ringTime + n * r.ringInterval
                           /\ ~Reached(c, c.prevTime, g.ringTime)
                           /\ n # 0 => Reached(c, c.prevTime, g.ringTime - r.ringInterval)
      BY <2>4, PushAhead, ClockTimes
    <3>2. n # 0
      <4>1. n = 0 => g.ringTime = r.ringTime
        BY <3>1, FieldType, ProductSign
      <4> QED
        BY <2>4, <3>1, <4>1
    <3> HIDE DEF q, g
    <3>3. Checked(c, r, q)
      BY <1>3, <2>1, <2>4, <3>1, <3>2 DEF Checked
    <3> QED
      BY <1>3, <2>1, <3>3 DEF q
  <2> QED
    BY <2>2, <2>3, <2>4
<1> QED
  BY <1>1, <1>2, <1>3

LEMMA SettledIs == ASSUME NEW c \in ClockState, NEW p \in AlarmState, p.stopTime = Origin
                   PROVE  LET k == IF p.ringing THEN [p EXCEPT !.ringingCount = @ + 1] ELSE p
                          IN  Settled(c, p, IF PushesSticky(c, k)
                                            THEN PushRingTime(c, k, c.currTime) ELSE k)
<1> DEFINE k == IF p.ringing THEN [p EXCEPT !.ringingCount = @ + 1] ELSE p
           f == PushRingTime(c, k, c.currTime)
<1>1. /\ k \in AlarmState /\ Same(k, p)
      /\ k.ringTime = p.ringTime /\ k.endless = p.endless /\ k.ringing = p.ringing
  BY DEF AlarmState, Same
<1> HIDE DEF k
<1>2. PushesSticky(c, k) <=> PushesSticky(c, p)
  BY <1>1 DEF PushesSticky, Same
<1>3. CASE ~PushesSticky(c, k)
  <2>1. Settled(c, p, k)
    BY <1>1, <1>2, <1>3 DEF Settled
  <2> QED
    BY <1>3, <2>1 DEF k
<1>4. CASE PushesSticky(c, k)
  <2>1. Same(f, k) /\ f.ringing = k.ringing
    BY <1>1, PushSame, PushType, ClockTimes
  <2>2. ~Reached(c, c.currTime, k.ringTime) => f = k
    BY <1>1, PushNone, ClockTimes
  <2>3. ~f.endless => \E n \in Nat : /\ f.ringTime = k.ringTime + n * k.ringInterval
                                     /\ ~Reached(c, c.currTime, f.ringTime)
                                     /\ n # 0 => Reached(c, c.currTime, f.ringTime - k.ringInterval)
    BY <1>1, PushAhead, ClockTimes DEF Same
  <2> HIDE DEF f
  <2>4. k.ringInterval = p.ringInterval
    BY <1>1 DEF Same
  <2>5. Same(f, p)
    BY <1>1, <2>1 DEF Same
  <2>6. Settled(c, p, f)
    BY <1>1, <1>2, <1>4, <2>1, <2>2, <2>3, <2>4, <2>5 DEF Settled
  <2>7. Settled(c, p, PushRingTime(c, k, c.currTime))
    BY <2>6 DEF f
  <2> QED
    BY <1>4, <2>7 DEF k
<1> QED
  BY <1>3, <1>4 DEF k

\* What a check forward does to an alarm its user has not changed.
LEMMA ForwardIs == ASSUME NEW c \in ClockState, OneSign(c), NEW r \in AlarmState,
                          r.stopTime = Origin, ~r.userRingTime, ~r.userInterval,
                          r.ringing => r.enabled
                   PROVE  \E q, p \in AlarmState :
                            /\ Checked(c, r, q) /\ Turned(c, q, p)
                            /\ Same(CheckForward(c, r), r)
                            /\ IF q.endless THEN CheckForward(c, r).endless
                               ELSE Settled(c, p, CheckForward(c, r))
<1> DEFINE first == [r EXCEPT !.onPrevStep = r.onCurrStep]
           q     == IF first.enabled THEN PreCheck(c, first) ELSE first
           p     == TurnOnOrOff(c, q)
           k     == IF p.ringing THEN [p EXCEPT !.ringingCount = @ + 1] ELSE p
           f     == CheckForward(c, r)
<1>1. /\ first \in AlarmState /\ Same(first, r)
      /\ first.ringTime = r.ringTime /\ first.endless = r.endless /\ first.ringing = r.ringing
  BY DEF AlarmState, Same
<1> HIDE DEF first
<1>2. ~(first.enabled /\ Rejected(c, first))
  BY <1>1 DEF Rejected, Same
<1>3. q \in AlarmState /\ Checked(c, first, q)
  BY <1>1, CheckedIs DEF Same
<1>4. Checked(c, r, q)
  <2> HIDE DEF q
  <2> QED
    BY <1>1, <1>3 DEF Checked, Same
<1>5. f = IF q.endless THEN q
          ELSE IF PushesSticky(c, k) THEN PushRingTime(c, k, c.currTime) ELSE k
  BY <1>2 DEF CheckForward, PushesSticky, first
<1> HIDE DEF q
<1>6. q.stopTime = Origin /\ (q.ringing => q.enabled)
  BY <1>4 DEF Checked, Same
<1>7. Turned(c, q, p) /\ p \in AlarmState
  <2>1. Turned(c, q, TurnOnOrOff(c, q))
    BY <1>3, <1>6, TurnOnOrOffIs
  <2>2. TurnOnOrOff(c, q) \in AlarmState
    BY <1>3, <1>6, TurnOnOrOffType
  <2> QED
    BY <2>1, <2>2
<1> HIDE DEF p
<1>8. p.stopTime = Origin
  BY <1>6, <1>7 DEF Turned, Same
<1>9. ~q.endless => Settled(c, p, f)
  BY <1>5, <1>7, <1>8, SettledIs
<1> HIDE DEF f, k
<1>10. q.endless => f = q
  BY <1>5
<1>11. Same(f, r)
  <2>1. CASE q.endless
    BY <1>4, <1>10, <2>1 DEF Checked
  <2>2. CASE ~q.endless
    BY <1>4, <1>7, <1>9, <2>2 DEF Checked, Turned, Settled, Same
  <2> QED
    BY <2>1, <2>2
<1>12. \/ q.endless /\ f.endless
       \/ ~q.endless /\ Settled(c, p, f)
  BY <1>9, <1>10
<1> QED
  BY <1>3, <1>4, <1>7, <1>11, <1>12 DEF f

-----------------------------------------------------------------------------
(* The next ring time                                                       *)

LEMMA OnAgain == ASSUME NEW t \in Int, NEW b \in Int, NEW i \in Int, OnInstant(t, b, i)
                 PROVE  OnInstant(t + i, b, i)
<1>1. 1 \in Nat /\ t + 1 * i = t + i
  OBVIOUS
<1> QED
  BY <1>1, InstantsOn

\* A time step reaches the ring time or does not; either way, the ring time afterwards is the
\* first instant beyond the step, provided the step is no longer than the interval or the ring
\* time is pushed.
LEMMA StepForward ==
  ASSUME NEW c \in ClockState, OneSign(c), c.currTime = c.prevTime + c.currStep, c.advanceCount >= 1,
         NEW r \in AlarmState, r.stopTime = Origin, ~r.userRingTime, ~r.userInterval, ~r.endless,
         r.ringing => r.enabled, Along(c, r.ringInterval), r.ringInterval # 0,
         r.sticky \/ (r.enabled /\ Abs(c.currStep) <= Abs(r.ringInterval)),
         NEW b \in Int, IsNextRing(c, r.ringTime, b, r.ringInterval, c.prevTime),
         ~CheckForward(c, r).endless
  PROVE  IsNextRing(c, CheckForward(c, r).ringTime, b, r.ringInterval, c.currTime)
<1> DEFINE f == CheckForward(c, r)
           t == r.ringTime
           i == r.ringInterval
           now == c.currTime
<1>1. PICK q, p \in AlarmState : /\ Checked(c, r, q) /\ Turned(c, q, p)
                                 /\ Same(f, r)
                                 /\ IF q.endless THEN f.endless ELSE Settled(c, p, f)
  BY ForwardIs
<1> HIDE DEF f
<1>2. t \in Int /\ i \in Int /\ now \in Int /\ c.prevTime \in Int /\ c.currStep \in Int
  BY DEF ClockState, AlarmState
<1>3. ~Reached(c, c.prevTime, t)
  BY <1>2, Direction DEF IsNextRing
<1>4. q.ringTime = t /\ ~q.endless
  BY <1>1, <1>3 DEF Checked
<1>5. Crossed(c, q) <=> Reached(c, now, t)
  BY <1>3, <1>4 DEF Crossed, ClockState
<1>6. /\ q.ringInterval = i /\ p.ringInterval = i
      /\ q.sticky = r.sticky /\ p.sticky = r.sticky
      /\ q.enabled = r.enabled
  BY <1>1 DEF Checked, Turned, Same
<1>7. Settled(c, p, f)
  BY <1>1, <1>4
\* The ring time after the alarm was turned on, if it was.
<1>8. /\ p.ringTime \in Int
      /\ OnInstant(p.ringTime, b, i)
      /\ p.ringTime # b => ~Beyond(c, p.ringTime - i, now)
  <2>1. CASE p.ringTime = t
    <3>1. t # b => ~Beyond(c, t - i, c.prevTime)
      BY DEF IsNextRing
    <3>2. t # b => ~Beyond(c, t - i, now)
      <4>1. t - i \in Int
        BY <1>2
      <4>2. /\ c.timeStep > 0 => now > c.prevTime
            /\ ~(c.timeStep > 0) => now < c.prevTime
        BY <1>2 DEF OneSign, ClockState
      <4> QED
        BY <1>2, <3>1, <4>1, <4>2, Direction
    <3> QED
      BY <1>2, <2>1, <3>2 DEF IsNextRing
  <2>2. CASE Reached(c, now, t) /\ p.ringTime = t + i
    <3>1. ~Beyond(c, t, now)
      BY <1>2, <2>2, Direction
    <3>2. (t + i) - i = t /\ t + i \in Int
      BY <1>2
    <3> QED
      BY <1>2, <2>2, <3>1, <3>2, OnAgain DEF IsNextRing
  <2> QED
    BY <1>1, <1>4, <1>5, <1>6, <2>1, <2>2 DEF Turned
<1>9. CASE r.sticky
  <2>1. PushesSticky(c, p)
    BY <1>6, <1>9 DEF PushesSticky, ClockState
  <2>2. PICK n \in Nat : /\ f.ringTime = p.ringTime + n * i
                         /\ ~Reached(c, now, f.ringTime)
                         /\ n # 0 => Reached(c, now, f.ringTime - i)
    BY <1>6, <1>7, <2>1 DEF Settled, f
  <2>3. f.ringTime \in Int /\ OnInstant(f.ringTime, b, i)
    <3>1. n * i \in Int
      BY <1>2, ProductType
    <3> QED
      BY <1>2, <1>8, <2>2, <3>1, InstantsOn
  <2>4. Beyond(c, f.ringTime, now)
    BY <1>2, <2>2, <2>3, Direction
  <2>5. f.ringTime # b => ~Beyond(c, f.ringTime - i, now)
    <3>1. CASE n = 0
      <4>1. f.ringTime = p.ringTime
        BY <1>2, <1>8, <2>2, <3>1, ProductSign
      <4> QED
        BY <1>8, <4>1
    <3>2. CASE n # 0
      BY <1>2, <2>2, <2>3, <3>2, Direction
    <3> QED
      BY <3>1, <3>2
  <2> QED
    BY <2>3, <2>4, <2>5 DEF IsNextRing, f
<1>10. CASE ~r.sticky
  <2>1. f.ringTime = p.ringTime
    BY <1>6, <1>7, <1>10 DEF Settled, PushesSticky
  <2>2. Beyond(c, p.ringTime, now)
    <3>1. CASE Reached(c, now, t)
      <4>1. p.ringTime = t + i
        BY <1>1, <1>4, <1>5, <1>6, <1>10, <3>1 DEF Turned
      <4>2. Beyond(c, t, c.prevTime)
        BY DEF IsNextRing
      <4>3. c.timeStep > 0 => t > c.prevTime /\ i > 0 /\ c.currStep > 0 /\ c.currStep <= i
        BY <1>2, <1>10, <4>2, Direction DEF Along, OneSign, Abs
      <4>4. ~(c.timeStep > 0) => t < c.prevTime /\ i < 0 /\ c.currStep < 0 /\ i <= c.currStep
        BY <1>2, <1>10, <4>2, Direction DEF Along, OneSign, Abs, ClockState
      <4>5. t + i \in Int
        BY <1>2
      <4> QED
        BY <1>2, <4>1, <4>3, <4>4, <4>5, Direction
    <3>2. CASE ~Reached(c, now, t)
      <4>1. p.ringTime = t
        BY <1>1, <1>4, <1>5, <3>2 DEF Turned
      <4> QED
        BY <1>2, <3>2, <4>1, Direction
    <3> QED
      BY <3>1, <3>2
  <2> QED
    BY <1>8, <2>1, <2>2 DEF IsNextRing, f
<1> QED
  BY <1>9, <1>10

\* A new alarm whose ring time has not passed, on a clock that has only gone forward: its next
\* ring time is its first, or the one after if it rings at once.
LEMMA CreatedForward ==
  ASSUME NEW c \in ClockState, OneSign(c),
         Reached(c, c.currTime, c.prevTime), c.prevTime = c.currTime => c.advanceCount = 0,
         NEW r \in AlarmState, r.stopTime = Origin, ~r.userRingTime, ~r.userInterval, ~r.endless,
         ~r.ringing, r.enabled, Along(c, r.ringInterval), r.ringInterval # 0,
         Reached(c, r.ringTime, c.currTime),
         ~CheckForward(c, r).endless
  PROVE  IsNextRing(c, CheckForward(c, r).ringTime, r.ringTime, r.ringInterval, c.currTime)
<1> DEFINE f == CheckForward(c, r)
           b == r.ringTime
           i == r.ringInterval
           now == c.currTime
           Next1(u) == /\ u \in Int
                       /\ OnInstant(u, b, i)
                       /\ Beyond(c, u, now)
                       /\ u # b => ~Beyond(c, u - i, now)
<1>1. PICK q, p \in AlarmState : /\ Checked(c, r, q) /\ Turned(c, q, p)
                                 /\ Same(f, r)
                                 /\ IF q.endless THEN f.endless ELSE Settled(c, p, f)
  BY ForwardIs
<1> HIDE DEF f
<1>2. b \in Int /\ i \in Int /\ now \in Int /\ c.prevTime \in Int
  BY DEF ClockState, AlarmState
<1>3. /\ q.ringInterval = i /\ p.ringInterval = i
      /\ q.sticky = r.sticky /\ p.sticky = r.sticky
      /\ q.enabled /\ ~q.endless /\ ~q.ringing
  BY <1>1 DEF Checked, Turned, Same, f
<1>4. Settled(c, p, f)
  BY <1>1, <1>3
<1>5. q.ringTime \in Int
  BY FieldType
\* The alarm when it has been turned on: its ring time lies ahead.
<1>6. Next1(p.ringTime)
  <2>1. CASE q.ringTime = b /\ Reached(c, now, b)
    <3>1. b = now
      BY <1>2, <2>1, Direction
    <3>2. Crossed(c, q)
      BY <1>2, <2>1, <3>1, Direction DEF Crossed
    <3>3. p.ringTime = b + i
      BY <1>1, <1>3, <2>1, <3>2 DEF Turned
    <3>4. b + i \in Int /\ (b + i) - i = b
      BY <1>2
    <3>5. OnInstant(b + i, b, i)
      BY <1>2, Instants0, OnAgain
    <3>6. Beyond(c, b + i, now)
      BY <1>2, <3>1, <3>4, Direction DEF Along, OneSign, ClockState
    <3>7. ~Beyond(c, b, now)
      BY <1>2, <3>1, Direction
    <3> QED
      BY <3>3, <3>4, <3>5, <3>6, <3>7
  <2>2. CASE q.ringTime = b /\ ~Reached(c, now, b)
    <3>1. p.ringTime = b
      BY <1>1, <2>2 DEF Turned, Crossed
    <3> QED
      BY <1>2, <2>2, <3>1, Instants0, Direction
  <2>3. CASE \E n \in Nat \ {0} : /\ Reached(c, c.prevTime, b)
                                  /\ q.ringTime = b + n * i
                                  /\ ~Reached(c, c.prevTime, q.ringTime)
                                  /\ Reached(c, c.prevTime, q.ringTime - i)
    <3>1. PICK n \in Nat \ {0} : /\ q.ringTime = b + n * i
                                 /\ ~Reached(c, c.prevTime, q.ringTime)
                                 /\ Reached(c, c.prevTime, q.ringTime - i)
      BY <2>3
    <3>2. c.prevTime = now
      BY <1>2, <2>3, Direction
    <3>3. p.ringTime = q.ringTime
      BY <1>1, <3>1, <3>2 DEF Turned, Crossed
    <3>4. OnInstant(q.ringTime, b, i)
      BY <1>2, <3>1, Instants0, InstantsOn
    <3>5. q.ringTime - i \in Int
      BY <1>2, <1>5
    <3>6. Beyond(c, q.ringTime, now) /\ ~Beyond(c, q.ringTime - i, now)
      BY <1>2, <1>5, <3>1, <3>2, <3>5, Direction
    <3> QED
      BY <1>5, <3>3, <3>4, <3>6
  <2> QED
    BY <1>1, <1>3, <2>1, <2>2, <2>3 DEF Checked
<1>7. f.ringTime = p.ringTime
  <2>1. ~Reached(c, now, p.ringTime)
    BY <1>2, <1>6, Direction
  <2> QED
    BY <1>4, <2>1 DEF Settled
<1> QED
  BY <1>6, <1>7 DEF IsNextRing, f

-----------------------------------------------------------------------------
(* The steps of the contract                                                *)

\* The history only records: every step of the contract is a step of the clock and its alarms.
LEMMA StepSpec == [NextH]_allVars => [Next]_vars
BY DEF NextH, Next, AdvanceH, SetDirectionH, CreateAlarmH, UserCallH, allVars, vars

LEMMA ContractSpec == SpecH => Spec
<1>1. InitH => Init
  BY DEF InitH
<1> QED
  BY <1>1, StepSpec, PTL DEF SpecH, Spec

\* The signs of the steps, action by action.
LEMMA InitSign == InitH => SignInv
BY InitClock DEF InitH, SignInv

LEMMA AdvanceSign == ASSUME SignInv, NEW s \in Int \ {0}, AdvanceH(s)
                     PROVE  SignInv'
<1> DEFINE c == Stepped(clock, s)
<1>1. ClockInv' /\ oneSign' \in BOOLEAN
  BY AdvanceType DEF SignInv, AdvanceH
<1>2. clock \in ClockState /\ clock' = [c EXCEPT !.userDirection = FALSE]
  BY DEF SignInv, ClockInv, TypeOK, AdvanceH, Advance
<1>3. ASSUME oneSign' PROVE OneSign(c) /\ c \in ClockState
  BY <1>2, <1>3, SteppedType, SteppedSign DEF SignInv, SameSign, AdvanceH
<1> HIDE DEF c
<1>4. oneSign' => OneSign(clock')
  BY <1>2, <1>3 DEF OneSign, ClockState
<1> QED
  BY <1>1, <1>4 DEF SignInv

\* A call leaves the steps of the clock as they were.
LEMMA CallSign == ASSUME SignInv, ClockInv', UNCHANGED oneSign,
                         clock'.timeStep = clock.timeStep, clock'.currStep = clock.currStep,
                         clock'.prevStep = clock.prevStep
                  PROVE  SignInv'
BY DEF SignInv, OneSign

LEMMA CreateSign == ASSUME SignInv, NEW a \in Alarm, NEW q \in Request, CreateAlarmH(a, q)
                    PROVE  SignInv'
<1>1. ClockInv'
  BY CreateType DEF SignInv, CreateAlarmH
<1>2. /\ UNCHANGED oneSign
      /\ clock \in ClockState /\ clock' = [clock EXCEPT !.userDirection = FALSE]
  BY DEF SignInv, ClockInv, TypeOK, CreateAlarmH, CreateAlarm
<1>3. /\ clock'.timeStep = clock.timeStep /\ clock'.currStep = clock.currStep
      /\ clock'.prevStep = clock.prevStep
  BY <1>2 DEF ClockState
<1> QED
  BY <1>1, <1>2, <1>3, CallSign

LEMMA DirectionSign == ASSUME SignInv, NEW d \in {Forward, Reverse}, SetDirectionH(d)
                       PROVE  SignInv'
<1>1. ClockInv'
  BY DirectionType DEF SignInv, SetDirectionH
<1>2. /\ UNCHANGED oneSign /\ clock \in ClockState
      /\ clock' = [clock EXCEPT !.direction = d, !.userDirection = TRUE]
  BY DEF SignInv, ClockInv, TypeOK, SetDirectionH, SetDirection
<1>3. /\ clock'.timeStep = clock.timeStep /\ clock'.currStep = clock.currStep
      /\ clock'.prevStep = clock.prevStep
  BY <1>2 DEF ClockState
<1> QED
  BY <1>1, <1>2, <1>3, CallSign

LEMMA UserCallSign == ASSUME SignInv, NEW a \in Alarm, UserCallH(a)
                      PROVE  SignInv'
<1>1. UserCall(a) /\ ClockInv /\ UNCHANGED oneSign
  BY DEF SignInv, UserCallH
<1>2. PICK r \in AlarmState \cup {NoAlarm} : /\ alarm' = [alarm EXCEPT ![a] = r]
                                             /\ r # NoAlarm => Alive(r)
  BY <1>1, UserCallType
<1>3. UNCHANGED clock
  BY <1>1, UserCallType
<1>4. ClockInv'
  BY <1>1, <1>2, <1>3, OneAlarmType DEF ClockInv, TypeOK
<1> QED
  BY <1>1, <1>3, <1>4, CallSign

LEMMA SameSigns == SignInv /\ UNCHANGED allVars => SignInv'
BY DEF SignInv, ClockInv, TypeOK, Exists, OneSign, allVars, vars, historyVars

\* An interval of the sign of the clock's own step is along its steps.
LEMMA AlongSame == ASSUME NEW c \in ClockState, OneSign(c), NEW i \in Int, i * c.timeStep >= 0
                   PROVE  Along(c, i)
BY ProductSign DEF Along, OneSign, ClockState

LEMMA InitContract == InitH => AlarmInv
<1> SUFFICES ASSUME InitH PROVE AlarmInv
  OBVIOUS
<1>1. SignInv
  BY InitSign
<1>2. HistoryType
  BY ClockAssumption DEF InitH, HistoryType
<1>3. \A a \in Alarm : ~kept[a]
  BY DEF InitH
<1> QED
  BY <1>1, <1>2, <1>3 DEF AlarmInv

\* An alarm keeps its promise when the clock changes its direction only.
LEMMA PromisedSame == ASSUME NEW c \in ClockState, NEW d \in ClockState, NEW r, NEW b,
                             d.timeStep = c.timeStep, d.currStep = c.currStep,
                             d.currTime = c.currTime, d.advanceCount = c.advanceCount,
                             Promised(c, r, b)
                      PROVE  Promised(d, r, b)
BY DEF Promised, Along, IsNextRing, Beyond, Reached, Positive

LEMMA AdvanceContract == ASSUME AlarmInv, NEW s \in Int \ {0}, AdvanceH(s)
                         PROVE  AlarmInv'
<1> DEFINE c == Stepped(clock, s)
<1>1. SignInv'
  BY AdvanceSign DEF AlarmInv
<1>2. HistoryType'
  BY DEF AlarmInv, HistoryType, AdvanceH
<1>3. ASSUME NEW a \in Alarm, kept'[a]
      PROVE  oneSign' /\ Exists(a)' /\ Promised(clock', alarm'[a], base'[a])
  <2> DEFINE r == alarm[a]
             b == base[a]
             f == CheckForward(c, r)
  <2>1. /\ kept[a] /\ Exists(a) /\ clock.direction = Forward /\ SameSign(s)
        /\ r.sticky \/ (r.enabled /\ Abs(s) <= Abs(r.ringInterval))
    BY <1>3 DEF AdvanceH
  <2>2. Promised(clock, r, b) /\ b \in Int /\ base'[a] = b
    BY <2>1 DEF AlarmInv, HistoryType, AdvanceH
  <2>3. r \in AlarmState /\ (r.ringing => r.enabled) /\ ~r.endless
    BY <2>1 DEF AlarmInv, SignInv, ClockInv, TypeOK, Exists, AdvanceH, Advance, Running
  <2>4. clock \in ClockState /\ OneSign(clock) /\ oneSign'
    BY <2>1 DEF AlarmInv, SignInv, ClockInv, TypeOK, AdvanceH
  <2>5. /\ c \in ClockState /\ OneSign(c) /\ c.timeStep = clock.timeStep
        /\ c.direction = Forward
        /\ c.currTime = c.prevTime + c.currStep
        /\ c.prevTime = clock.currTime /\ c.currStep = s
        /\ c.advanceCount = clock.advanceCount + 1
    <3>1. c \in ClockState /\ OneSign(c) /\ c.timeStep = clock.timeStep
      BY <2>1, <2>4, SteppedType, SteppedSign DEF SameSign
    <3> QED
      BY <2>1, <2>4, <3>1 DEF Stepped, ClockState
  <2>6. clock' = [c EXCEPT !.userDirection = FALSE] /\ alarm'[a] = f
    BY <2>1, <2>5 DEF AdvanceH, Advance, CheckRingTime
  <2> HIDE DEF c, r, b
  <2>7. c.advanceCount >= 1 /\ Along(c, r.ringInterval)
    BY <2>2, <2>4, <2>5 DEF Promised, Along, ClockState
  <2>8. Same(f, r) /\ f \in AlarmState
    BY <2>2, <2>3, <2>5, ForwardIs, ForwardType DEF Promised
  <2>9. ~f.endless /\ r.ringInterval # 0 => IsNextRing(c, f.ringTime, b, r.ringInterval, c.currTime)
    <3>1. SUFFICES ASSUME ~f.endless, r.ringInterval # 0
                   PROVE  IsNextRing(c, f.ringTime, b, r.ringInterval, c.currTime)
      OBVIOUS
    <3>2. IsNextRing(clock, r.ringTime, b, r.ringInterval, clock.currTime)
      BY <2>2, <2>3, <3>1 DEF Promised
    <3>3. IsNextRing(c, r.ringTime, b, r.ringInterval, c.prevTime)
      <4>1. Positive(c) <=> Positive(clock)
        BY <2>4, <2>5 DEF Positive, OneSign, ClockState
      <4> QED
        BY <2>5, <3>2, <4>1 DEF IsNextRing, Beyond, Reached
    <3>4. r.sticky \/ (r.enabled /\ Abs(c.currStep) <= Abs(r.ringInterval))
      BY <2>1, <2>5 DEF r
    <3> QED
      BY <2>2, <2>3, <2>5, <2>7, <3>1, <3>3, <3>4, StepForward DEF Promised
  <2> HIDE DEF f
  <2>10. Promised(c, f, b)
    <3>1. f.ringInterval = r.ringInterval
      BY <2>8 DEF Same
    <3>2. f.stopTime = Origin /\ ~f.userRingTime /\ ~f.userInterval
      BY <2>2, <2>8 DEF Promised, Same
    <3>3. c.advanceCount >= 0
      BY <2>5, <2>7 DEF ClockState
    <3> QED
      BY <2>7, <2>9, <3>1, <3>2, <3>3 DEF Promised
  <2>11. Promised(clock', f, b)
    <3>1. /\ clock' \in ClockState
          /\ clock'.timeStep = c.timeStep /\ clock'.currStep = c.currStep
          /\ clock'.currTime = c.currTime /\ clock'.advanceCount = c.advanceCount
      BY <2>5, <2>6 DEF ClockState
    <3> QED
      BY <2>5, <2>10, <3>1, PromisedSame
  <2>12. Exists(a)'
    BY <2>6, <2>8, NoAlarmAssumption DEF Exists
  <2> QED
    BY <2>2, <2>4, <2>6, <2>11, <2>12
<1> QED
  BY <1>1, <1>2, <1>3 DEF AlarmInv

LEMMA CreateContract == ASSUME AlarmInv, NEW a \in Alarm, NEW q \in Request, CreateAlarmH(a, q)
                        PROVE  AlarmInv'
<1> DEFINE n == NewAlarm(clock, q)
           f == CheckRingTime(clock, n)
<1>1. SignInv'
  BY CreateSign DEF AlarmInv
<1>2. clock \in ClockState /\ (oneSign => OneSign(clock)) /\ UNCHANGED oneSign
  BY DEF AlarmInv, SignInv, ClockInv, TypeOK, CreateAlarmH
<1>3. n \in AlarmState /\ ~n.ringing
  BY <1>2, NewAlarmType
<1>4. HistoryType'
  BY <1>3, FieldType DEF AlarmInv, HistoryType, CreateAlarmH
<1>5. /\ clock' \in ClockState
      /\ clock'.timeStep = clock.timeStep /\ clock'.currStep = clock.currStep
      /\ clock'.currTime = clock.currTime /\ clock'.advanceCount = clock.advanceCount
  BY <1>2 DEF CreateAlarmH, CreateAlarm, ClockState
<1>6. alarm' = [alarm EXCEPT ![a] = f]
  BY DEF CreateAlarmH, CreateAlarm
<1>7. a \in DOMAIN alarm /\ a \in DOMAIN base /\ a \in DOMAIN kept
  BY DEF AlarmInv, SignInv, ClockInv, TypeOK, HistoryType
<1>8. ASSUME kept'[a] PROVE oneSign' /\ Exists(a)' /\ Promised(clock', alarm'[a], base'[a])
  <2>1. /\ clock.direction = Forward /\ clock.advanceCount >= 0
        /\ Reached(clock, clock.currTime, clock.prevTime)
        /\ clock.prevTime = clock.currTime => clock.advanceCount = 0
        /\ Reached(clock, n.ringTime, clock.currTime)
        /\ n.enabled /\ n.stopTime = Origin
        /\ oneSign /\ OneSign(clock) /\ SameSign(n.ringInterval)
    BY <1>2, <1>7, <1>8 DEF CreateAlarmH
  <2>2. f = CheckForward(clock, n)
    BY <2>1 DEF CheckRingTime
  <2>3. ~n.userRingTime /\ ~n.userInterval /\ ~n.endless
    BY DEF NewAlarm
  <2>4. Along(clock, n.ringInterval)
    <3>1. n.ringInterval * clock.timeStep >= 0 /\ n.ringInterval \in Int
      BY <1>3, <2>1, FieldType DEF SameSign
    <3> QED
      BY <1>2, <2>1, <3>1, AlongSame
  <2> HIDE DEF n, f
  <2>5. Same(f, n) /\ f \in AlarmState
    BY <1>2, <1>3, <2>1, <2>2, <2>3, ForwardIs, ForwardType
  <2>6. ~f.endless /\ n.ringInterval # 0 =>
          IsNextRing(clock, f.ringTime, n.ringTime, n.ringInterval, clock.currTime)
    BY <1>2, <1>3, <2>1, <2>2, <2>3, <2>4, CreatedForward
  <2>7. Promised(clock, f, n.ringTime)
    BY <2>1, <2>3, <2>4, <2>5, <2>6 DEF Promised, Same
  <2>8. base'[a] = n.ringTime /\ alarm'[a] = f
    BY <1>6, <1>7 DEF CreateAlarmH, n
  <2>9. Promised(clock', f, n.ringTime)
    BY <1>2, <1>5, <2>7, PromisedSame
  <2>10. Exists(a)'
    BY <2>5, <2>8, NoAlarmAssumption DEF Exists
  <2> QED
    BY <1>2, <2>1, <2>8, <2>9, <2>10
<1>9. ASSUME NEW d \in Alarm, d # a, kept'[d]
      PROVE  oneSign' /\ Exists(d)' /\ Promised(clock', alarm'[d], base'[d])
  <2>1. base'[d] = base[d] /\ alarm'[d] = alarm[d]
    BY <1>6, <1>7, <1>9 DEF CreateAlarmH
  <2>2. kept'[d] = (kept[d] /\ ~clock.userDirection)
    BY <1>9 DEF CreateAlarmH
  <2>3. kept[d]
    BY <1>9, <2>2
  <2>4. oneSign /\ Exists(d) /\ Promised(clock, alarm[d], base[d])
    BY <2>3 DEF AlarmInv
  <2>5. Promised(clock', alarm[d], base[d])
    BY <1>2, <1>5, <2>4, PromisedSame
  <2> QED
    BY <1>2, <2>1, <2>4, <2>5 DEF Exists
<1> QED
  BY <1>1, <1>4, <1>8, <1>9 DEF AlarmInv

LEMMA DirectionContract == ASSUME AlarmInv, NEW d \in {Forward, Reverse}, SetDirectionH(d)
                           PROVE  AlarmInv'
<1>1. SignInv'
  BY DirectionSign DEF AlarmInv
<1>2. clock \in ClockState /\ clock' \in ClockState
  BY <1>1 DEF AlarmInv, SignInv, ClockInv, TypeOK
<1>3. /\ clock'.timeStep = clock.timeStep /\ clock'.currStep = clock.currStep
      /\ clock'.currTime = clock.currTime /\ clock'.advanceCount = clock.advanceCount
  BY <1>2 DEF SetDirectionH, SetDirection, ClockState
<1>4. UNCHANGED <<alarm, base, kept, oneSign>>
  BY DEF SetDirectionH, SetDirection
<1>5. HistoryType'
  BY <1>4 DEF AlarmInv, HistoryType
<1>6. ASSUME NEW a \in Alarm, kept'[a]
      PROVE  oneSign' /\ Exists(a)' /\ Promised(clock', alarm'[a], base'[a])
  BY <1>2, <1>3, <1>4, <1>6, PromisedSame DEF AlarmInv, Exists
<1> QED
  BY <1>1, <1>5, <1>6 DEF AlarmInv

\* A call after which an alarm exists with the ring time and ring interval it had has neither
\* set them nor given the alarm a stop time.
LEMMA CallKeeps == ASSUME ClockInv, NEW a \in Alarm, UserCall(a), Exists(a)',
                          alarm'[a].ringTime = alarm[a].ringTime,
                          alarm'[a].ringInterval = alarm[a].ringInterval
                   PROVE  /\ alarm'[a].stopTime = alarm[a].stopTime
                          /\ alarm'[a].userRingTime = alarm[a].userRingTime
                          /\ alarm'[a].userInterval = alarm[a].userInterval
                          /\ alarm'[a].endless = alarm[a].endless
<1> DEFINE r == alarm[a]
           Kept(p) == /\ p.stopTime = r.stopTime
                      /\ p.userRingTime = r.userRingTime
                      /\ p.userInterval = r.userInterval
                      /\ p.endless = r.endless
<1>1. a \in DOMAIN alarm /\ (Exists(a) => r \in AlarmState)
  BY DEF ClockInv, TypeOK, Exists
<1>2. \A p : Call(a, p) => alarm'[a] = p /\ Exists(a)
  BY <1>1 DEF Call
<1>3. ~DestroyAlarm(a)
  BY <1>1 DEF DestroyAlarm, Exists
<1>4. ASSUME RingerOff(a) PROVE Kept(alarm'[a])
  <2>1. alarm'[a] = RungOff(clock, r) /\ r \in AlarmState
    BY <1>1, <1>2, <1>4 DEF RingerOff
  <2> HIDE DEF r
  <2>2. Kept(RungOff(clock, r))
    BY <2>1 DEF RungOff, AlarmState
  <2> QED
    BY <2>1, <2>2
<1>5. ASSUME RingerOn(a) \/ Enable(a) \/ Disable(a) \/ SetToSticky(a) \/ NotSticky(a)
      PROVE  Kept(alarm'[a])
  <2>1. r \in AlarmState
    BY <1>1, <1>5 DEF RingerOn, Enable, Disable, SetToSticky, NotSticky
  <2>2. \/ alarm'[a] = [r EXCEPT !.ringing = TRUE]
        \/ alarm'[a] = [r EXCEPT !.enabled = TRUE]
        \/ alarm'[a] = [r EXCEPT !.enabled = FALSE, !.ringing = FALSE]
        \/ alarm'[a] = [r EXCEPT !.sticky = TRUE]
        \/ alarm'[a] = [r EXCEPT !.sticky = FALSE]
    BY <1>2, <1>5 DEF RingerOn, Enable, Disable, SetToSticky, NotSticky
  <2> HIDE DEF r
  <2> QED
    BY <2>1, <2>2 DEF AlarmState
<1>6. ASSUME NEW t \in SetTime, SetRingTime(a, t) PROVE FALSE
  <2>1. /\ alarm'[a] = [r EXCEPT !.ringTime = t, !.prevRingTime = t, !.userRingTime = TRUE]
        /\ r \in AlarmState /\ r.ringTime # t
    BY <1>1, <1>2, <1>6 DEF SetRingTime
  <2> QED
    BY <2>1 DEF AlarmState
<1>7. ASSUME NEW i \in SetInterval, SetRingInterval(a, i) PROVE FALSE
  <2>1. /\ alarm'[a] = [r EXCEPT !.ringInterval = i, !.userInterval = TRUE]
        /\ r \in AlarmState /\ r.ringInterval # i
    BY <1>1, <1>2, <1>7 DEF SetRingInterval
  <2> QED
    BY <2>1 DEF AlarmState
<1> QED
  BY <1>3, <1>4, <1>5, <1>6, <1>7 DEF UserCall

LEMMA UserCallContract == ASSUME AlarmInv, NEW a \in Alarm, UserCallH(a)
                          PROVE  AlarmInv'
<1>1. UserCall(a) /\ ClockInv
  BY DEF AlarmInv, SignInv, UserCallH
<1>2. /\ UNCHANGED <<clock, oneSign>>
      /\ \E r \in AlarmState \cup {NoAlarm} : /\ alarm' = [alarm EXCEPT ![a] = r]
                                              /\ r # NoAlarm => Alive(r)
  BY <1>1, UserCallType DEF UserCallH
<1>3. SignInv'
  BY UserCallSign DEF AlarmInv
<1>4. HistoryType'
  BY DEF AlarmInv, HistoryType, UserCallH
<1>5. ASSUME kept'[a] PROVE oneSign' /\ Exists(a)' /\ Promised(clock', alarm'[a], base'[a])
  <2>1. /\ kept[a] /\ Exists(a)'
        /\ alarm'[a].ringTime = alarm[a].ringTime
        /\ alarm'[a].ringInterval = alarm[a].ringInterval
    BY <1>5 DEF AlarmInv, HistoryType, UserCallH
  <2>2. oneSign /\ Promised(clock, alarm[a], base[a]) /\ base'[a] = base[a]
    BY <2>1 DEF AlarmInv, UserCallH
  <2>3. /\ alarm'[a].stopTime = alarm[a].stopTime
        /\ alarm'[a].userRingTime = alarm[a].userRingTime
        /\ alarm'[a].userInterval = alarm[a].userInterval
        /\ alarm'[a].endless = alarm[a].endless
    BY <1>1, <2>1, CallKeeps
  <2> DEFINE r == alarm[a]
             p == alarm'[a]
  <2> HIDE DEF r, p
  <2>4. /\ p.ringTime = r.ringTime /\ p.ringInterval = r.ringInterval
        /\ p.stopTime = r.stopTime /\ p.userRingTime = r.userRingTime
        /\ p.userInterval = r.userInterval /\ p.endless = r.endless
    BY <2>1, <2>3 DEF r, p
  <2>5. Promised(clock, r, base[a])
    BY <2>2 DEF r
  <2>6. Promised(clock, p, base[a])
    BY <2>4, <2>5 DEF Promised
  <2> QED
    BY <1>2, <2>1, <2>2, <2>6 DEF p
<1>6. ASSUME NEW d \in Alarm, d # a, kept'[d]
      PROVE  oneSign' /\ Exists(d)' /\ Promised(clock', alarm'[d], base'[d])
  <2>1. kept[d] /\ base'[d] = base[d] /\ alarm'[d] = alarm[d]
    BY <1>2, <1>6 DEF AlarmInv, HistoryType, UserCallH
  <2> QED
    BY <1>2, <2>1 DEF AlarmInv, Exists
<1> QED
  BY <1>3, <1>4, <1>5, <1>6 DEF AlarmInv

LEMMA StepContract == AlarmInv /\ [NextH]_allVars => AlarmInv'
<1> SUFFICES ASSUME AlarmInv, [NextH]_allVars PROVE AlarmInv'
  OBVIOUS
<1>1. ASSUME NEW s \in AdvanceStep \cup {clock.timeStep}, AdvanceH(s) PROVE AlarmInv'
  <2>1. ClockInv
    BY DEF AlarmInv, SignInv
  <2> QED
    BY <1>1, <2>1, StepSizes, AdvanceContract
<1>2. ASSUME NEW d \in {Forward, Reverse}, SetDirectionH(d) PROVE AlarmInv'
  BY <1>2, DirectionContract
<1>3. ASSUME NEW a \in Alarm, NEW q \in Request, CreateAlarmH(a, q) PROVE AlarmInv'
  BY <1>3, CreateContract
<1>4. ASSUME NEW a \in Alarm, UserCallH(a) PROVE AlarmInv'
  BY <1>4, UserCallContract
<1>5. CASE UNCHANGED allVars
  <2>1. UNCHANGED <<clock, alarm, base, kept, oneSign>>
    BY <1>5 DEF allVars, vars, historyVars
  <2>2. SignInv'
    BY <1>5, SameSigns DEF AlarmInv
  <2>3. HistoryType'
    BY <2>1 DEF AlarmInv, HistoryType
  <2>4. \A a \in Alarm : kept'[a] => oneSign' /\ Exists(a)' /\ Promised(clock', alarm'[a], base'[a])
    BY <2>1 DEF AlarmInv, Exists
  <2> QED
    BY <2>2, <2>3, <2>4 DEF AlarmInv
<1> QED
  BY <1>1, <1>2, <1>3, <1>4, <1>5 DEF NextH

-----------------------------------------------------------------------------
(* What a call that does not return has met                                 *)

\* n steps of at least one lead at least n away.
LEMMA Far == \A n \in Nat, i \in Int : (i > 0 => n * i >= n) /\ (i < 0 => n * i <= -n)
<1> SUFFICES ASSUME NEW n \in Nat, NEW i \in Int
             PROVE  (i > 0 => n * i >= n) /\ (i < 0 => n * i <= -n)
  OBVIOUS
<1>1. ASSUME i > 0 PROVE n * i >= n
  <2>1. n * (i - 1) >= 0 /\ n * i = n + n * (i - 1)
    BY <1>1
  <2> QED
    BY <2>1, ProductType
<1>2. ASSUME i < 0 PROVE n * i <= -n
  <2>1. n * (-i - 1) >= 0 /\ n * i = -n - n * (-i - 1)
    BY <1>2
  <2> QED
    BY <2>1, ProductType
<1> QED
  BY <1>1, <1>2

\* The interval i of an alarm leads its ring time the way of the clock's last step, or not.
Ahead(c, i) == IF Positive(c) THEN i > 0 ELSE i < 0

LEMMA AheadIs == ASSUME NEW c \in ClockState, NEW i \in Int, i * c.currStep > 0
                 PROVE  Ahead(c, i)
BY ProductSign DEF Ahead, Positive, ClockState

\* A loop over alarm p of clock c that compares its ring time with t and does not end.
Loops(c, p, t) == /\ p.ringInterval * c.currStep <= 0
                  /\ Reached(c, t, p.ringTime)

\* Moving a ring time ahead loops for ever only against the interval, from where t is.
LEMMA PushEnds == ASSUME NEW c \in ClockState, NEW r \in AlarmState, ~r.endless, NEW t \in Int
                  PROVE  LET p == PushRingTime(c, r, t) IN
                         /\ p.ringInterval = r.ringInterval
                         /\ p.endless => Loops(c, p, t)
<1> DEFINE n == Abs(t - r.ringTime) + 1
           i == r.ringInterval
           p == PushRingTime(c, r, t)
<1>1. r.ringTime \in Int /\ i \in Int /\ c.currStep \in Int
  BY FieldType DEF ClockState
<1>2. n \in Nat /\ n > t - r.ringTime /\ -n < t - r.ringTime
  BY <1>1 DEF Abs
<1>3. RingAt(r, n) \in Int /\ RingAt(r, n) = r.ringTime + n * i /\ n * i \in Int
  BY <1>1, <1>2, ProductType DEF RingAt
<1>4. n \in 0..(Abs(t - r.ringTime) + 1) /\ 0 \in 0..(Abs(t - r.ringTime) + 1)
  BY <1>2
<1> HIDE DEF n
<1>5. i * c.currStep > 0 => Stops(c, r, t, n)
  <2>1. (i > 0 => n * i >= n) /\ (i < 0 => n * i <= -n)
    BY <1>1, <1>2, Far
  <2>2. i > 0 => t < RingAt(r, n)
    BY <1>1, <1>2, <1>3, <2>1
  <2>3. i < 0 => RingAt(r, n) < t
    BY <1>1, <1>2, <1>3, <2>1
  <2>4. Ahead(c, i) => ~Reached(c, t, RingAt(r, n))
    BY <1>3, <2>2, <2>3 DEF Ahead, Reached
  <2>5. i * c.currStep > 0 => Ahead(c, i)
    BY <1>1, AheadIs
  <2> QED
    BY <2>4, <2>5 DEF Stops
<1>6. p.ringInterval = i
  BY PushSame DEF Same
<1>7. CASE /\ p = [r EXCEPT !.endless = TRUE]
           /\ \A m \in 0..(Abs(t - r.ringTime) + 1) : ~Stops(c, r, t, m)
  <2>1. p.ringTime = r.ringTime
    BY <1>7 DEF AlarmState
  <2>2. ~Stops(c, r, t, n) /\ ~Stops(c, r, t, 0)
    BY <1>4, <1>7
  <2>3. i * c.currStep \in Int /\ ~(i * c.currStep > 0)
    BY <1>1, <1>5, <2>2, ProductType
  <2>4. RingAt(r, 0) = r.ringTime
    BY <1>1, ProductSign DEF RingAt
  <2>5. Reached(c, t, r.ringTime)
    BY <2>2, <2>4 DEF Stops
  <2> HIDE DEF p
  <2>6. Loops(c, p, t)
    BY <1>6, <2>1, <2>3, <2>5 DEF Loops
  <2> QED
    BY <1>6, <2>6 DEF p
<1>8. CASE p = r
  BY <1>6, <1>8
<1>9. CASE \E m \in Nat \ {0} : p = Moved(r, m)
  <2>1. \A m : Moved(r, m).endless = r.endless
    BY DEF Moved, AlarmState
  <2> QED
    BY <1>6, <1>9, <2>1
<1> QED
  BY <1>7, <1>8, <1>9, PushIs

\* The same for the loop in reverse, which follows the end of a ring.
LEMMA PullStickyEnds == ASSUME NEW c \in ClockState, NEW r \in AlarmState, ~r.endless
                        PROVE  LET p == PullBackSticky(c, r) IN
                               p.endless => p.ringInterval * c.currStep <= 0
<1> DEFINE End(n) == r.ringEnd - n * r.ringInterval
           At(n)  == IF n = 0 THEN r.ringTime ELSE r.prevRingTime - (n-1) * r.ringInterval
           most   == Abs(r.ringEnd - c.currTime) + Abs(r.prevRingTime - r.firstRingTime) + 1
           S      == {m \in 0..most : \/ ~Beyond(c, End(m), c.currTime)
                                      \/ At(m) = r.firstRingTime}
           n      == Iterations(S)
           d      == Abs(r.ringEnd - c.currTime)
           i      == r.ringInterval
<1>1. /\ r.ringEnd \in Int /\ r.prevRingTime \in Int /\ r.firstRingTime \in Int /\ i \in Int
      /\ c.currTime \in Int /\ c.currStep \in Int
  BY FieldType, ClockTimes DEF ClockState
<1>2. d \in Nat /\ Abs(r.prevRingTime - r.firstRingTime) \in Nat
  BY <1>1, AbsType
<1>3. d \in 0..most /\ d >= r.ringEnd - c.currTime /\ -d <= r.ringEnd - c.currTime
  BY <1>1, <1>2 DEF Abs
<1> HIDE DEF d
<1>4. i * c.currStep > 0 => ~Beyond(c, End(d), c.currTime)
  <2>1. (i > 0 => d * i >= d) /\ (i < 0 => d * i <= -d) /\ d * i \in Int
    BY <1>1, <1>2, Far, ProductType
  <2>2. i > 0 => End(d) <= c.currTime
    BY <1>1, <1>2, <1>3, <2>1
  <2>3. i < 0 => End(d) >= c.currTime
    BY <1>1, <1>2, <1>3, <2>1
  <2>4. End(d) \in Int
    BY <1>1, <2>1
  <2>5. i * c.currStep > 0 => Ahead(c, i)
    BY <1>1, AheadIs
  <2> HIDE DEF End, i
  <2>6. Ahead(c, i) => ~Beyond(c, End(d), c.currTime)
    BY <1>1, <2>2, <2>3, <2>4 DEF Ahead, Beyond, Reached
  <2> QED
    BY <2>5, <2>6
<1>5. i * c.currStep > 0 => n # Endless
  <2>1. S \in SUBSET Nat
    OBVIOUS
  <2>2. i * c.currStep > 0 => S # {}
    BY <1>3, <1>4
  <2> QED
    BY <2>1, <2>2, IterationsNone
<1>6. PullBackSticky(c, r) = IF n = Endless THEN [r EXCEPT !.endless = TRUE]
                             ELSE [r EXCEPT !.ringEnd = End(n), !.ringTime = At(n),
                                            !.prevRingTime = @ - n * r.ringInterval]
  BY DEF PullBackSticky
<1> HIDE DEF n, End, At
<1>7. CASE n = Endless
  <2>1. PullBackSticky(c, r).ringInterval = i
    BY <1>6, <1>7 DEF AlarmState
  <2>2. i * c.currStep \in Int /\ ~(i * c.currStep > 0)
    BY <1>1, <1>5, <1>7, ProductType
  <2> QED
    BY <2>1, <2>2
<1>8. CASE n # Endless
  BY <1>6, <1>8 DEF AlarmState
<1> QED
  BY <1>7, <1>8

\* Turning an alarm on or off has no loop.
LEMMA TurnOnEnds == ASSUME NEW c \in ClockState, NEW r \in AlarmState
                    PROVE  TurnOnOrOff(c, r).endless = r.endless
<1> DEFINE on == [r EXCEPT !.ringing = TRUE, !.onCurrStep = TRUE, !.ringBegin = c.currTime]
           moved == [on EXCEPT !.prevRingTime = r.ringTime, !.ringTime = @ + r.ringInterval]
           quiet == [r EXCEPT !.onCurrStep = FALSE]
<1>1. on \in AlarmState /\ on.endless = r.endless
  <2>1. on \in AlarmState
    BY ClockTimes, Field, Zenon
  <2> QED
    BY <2>1 DEF AlarmState
<1> HIDE DEF on
<1>2. moved.endless = r.endless
  BY <1>1 DEF AlarmState
<1>3. quiet.endless = r.endless
  BY DEF AlarmState
<1>4. Silenced(r).endless = r.endless
  BY DEF Silenced, AlarmState
<1>5. CheckTurnOn(c, r) \in {quiet, moved, on}
  BY DEF CheckTurnOn, on
<1>6. CheckTurnOn(c, r).endless = r.endless
  <2> HIDE DEF moved, quiet
  <2> QED
    BY <1>1, <1>2, <1>3, <1>5
<1>7. TurnOnOrOff(c, r) \in {r, Silenced(r), CheckTurnOn(c, r)}
  BY DEF TurnOnOrOff
<1> QED
  BY <1>4, <1>6, <1>7

\* The loop that follows a turn is entered only after one, or after a step of another sign.
LEMMA PreCheckEnds == ASSUME NEW c \in ClockState, NEW r \in AlarmState, ~r.endless
                      PROVE  LET p == PreCheck(c, r) IN
                             p.endless => /\ Loops(c, p, c.prevTime)
                                          /\ c.currStep * c.prevStep < 0 \/ c.userDirection
<1> DEFINE signed == [r EXCEPT !.ringInterval = -@, !.ringDuration = -@]
           Seen(p) == [p EXCEPT !.userRingTime = FALSE, !.userInterval = FALSE]
           turned == c.currStep * c.prevStep < 0 \/ c.userDirection
<1>1. signed \in AlarmState /\ ~signed.endless
  <2>1. -r.ringInterval \in Int /\ -r.ringDuration \in Int
    BY FieldType
  <2>2. signed = [r EXCEPT !.ringInterval = -r.ringInterval, !.ringDuration = -r.ringDuration]
    BY DEF AlarmState
  <2>3. signed \in AlarmState
    BY <2>1, <2>2, Field, Zenon
  <2> QED
    BY <2>3 DEF AlarmState
<1> HIDE DEF signed
<1>2. PICK q \in {r, signed} : \/ PreCheck(c, r) = Seen(q)
                               \/ turned /\ PreCheck(c, r) = Seen(PushRingTime(c, q, c.prevTime))
  BY DEF PreCheck, signed
<1>3. q \in AlarmState /\ ~q.endless
  BY <1>1
<1> DEFINE g == PushRingTime(c, q, c.prevTime)
<1>4. g \in AlarmState /\ (g.endless => Loops(c, g, c.prevTime))
  BY <1>3, PushType, PushEnds, ClockTimes
<1> HIDE DEF g, turned
<1>5. \A p \in AlarmState : /\ Seen(p).ringInterval = p.ringInterval
                            /\ Seen(p).ringTime = p.ringTime
                            /\ Seen(p).endless = p.endless
  BY DEF AlarmState
<1> HIDE DEF Seen
<1>6. CASE PreCheck(c, r) = Seen(q)
  BY <1>3, <1>5, <1>6
<1>7. CASE turned /\ PreCheck(c, r) = Seen(g)
  BY <1>4, <1>5, <1>7 DEF Loops, turned
<1> QED
  BY <1>2, <1>6, <1>7 DEF g

\* What is true of alarm p of clock c if the loop of a check has been found endless.
Stuck(c, p) == /\ p.ringInterval * c.currStep <= 0
               /\ p.ringInterval = 0 => \/ c.currStep * c.prevStep < 0
                                        \/ c.userDirection
                                        \/ c.direction = Reverse
               /\ c.direction = Forward => \/ Reached(c, c.currTime, p.ringTime)
                                           \/ Reached(c, c.prevTime, p.ringTime)

LEMMA ForwardEnds == ASSUME NEW c \in ClockState, NEW r \in AlarmState, ~r.endless,
                            r.ringing => r.enabled
                     PROVE  CheckForward(c, r).endless => Stuck(c, CheckForward(c, r))
<1> DEFINE first == [r EXCEPT !.onPrevStep = r.onCurrStep]
           q     == IF first.enabled THEN PreCheck(c, first) ELSE first
           p     == TurnOnOrOff(c, q)
           k     == IF p.ringing THEN [p EXCEPT !.ringingCount = @ + 1] ELSE p
           g     == PushRingTime(c, k, c.currTime)
<1>1. first \in AlarmState /\ (first.ringing => first.enabled) /\ ~first.endless
  BY DEF AlarmState
<1> HIDE DEF first
<1>2. /\ q \in AlarmState /\ (q.ringing => q.enabled)
      /\ q.endless => Stuck(c, q)
  <2>1. /\ PreCheck(c, first) \in AlarmState
        /\ PreCheck(c, first).ringing => PreCheck(c, first).enabled
    BY <1>1, PreCheckType
  <2>2. PreCheck(c, first).endless => Stuck(c, PreCheck(c, first))
    BY <1>1, PreCheckEnds DEF Stuck, Loops
  <2> QED
    BY <1>1, <2>1, <2>2
<1> HIDE DEF q
<1>3. p \in AlarmState /\ p.endless = q.endless
  BY <1>2, TurnOnOrOffType, TurnOnEnds
<1> HIDE DEF p
<1>4. k \in AlarmState /\ k.endless = q.endless
  <2>1. [p EXCEPT !.ringingCount = @ + 1].endless = p.endless
    BY <1>3 DEF AlarmState
  <2>2. [p EXCEPT !.ringingCount = @ + 1] \in AlarmState
    BY <1>3 DEF AlarmState
  <2> QED
    BY <1>3, <2>1, <2>2
<1>5. \/ CheckForward(c, r) = first
      \/ CheckForward(c, r) = q
      \/ ~q.endless /\ CheckForward(c, r) = k
      \/ ~q.endless /\ k.ringInterval # 0 /\ CheckForward(c, r) = g
  BY DEF CheckForward, first, q, p
<1> HIDE DEF k
<1>6. ~q.endless /\ k.ringInterval # 0 /\ g.endless => Stuck(c, g)
  <2> SUFFICES ASSUME ~q.endless, k.ringInterval # 0, g.endless PROVE Stuck(c, g)
    OBVIOUS
  <2>1. g.ringInterval = k.ringInterval /\ Loops(c, g, c.currTime)
    BY <1>4, PushEnds, ClockTimes
  <2> HIDE DEF g
  <2> QED
    BY <2>1 DEF Loops, Stuck
<1> HIDE DEF g
<1> QED
  BY <1>1, <1>2, <1>4, <1>5, <1>6

LEMMA ReverseEnds == ASSUME NEW c \in ClockState, NEW r \in AlarmState, c.timeStep # 0, ~r.endless,
                            r.ringing => r.enabled
                     PROVE  CheckReverse(c, r).endless =>
                              CheckReverse(c, r).ringInterval * c.currStep <= 0
<1> DEFINE back == IF r.sticky THEN PullBackSticky(c, r) ELSE PullBack(c, r)
           end  == IF back.sticky THEN back.ringEnd ELSE RingEndFrom(c, back, back.ringBegin)
           rung == CASE back.enabled /\ ~back.ringing -> TurnBackOn(c, back, end)
                     [] back.enabled /\ back.ringing /\ ~back.sticky -> TurnBackOff(c, back)
                     [] OTHER -> back
\* What a step back, and a new begin of the ring, change.
<1>1. \A q \in AlarmState : /\ StepBack(q).endless = q.endless
                            /\ ResetRingBegin(c, q).endless = q.endless
  BY DEF StepBack, ResetRingBegin, AlarmState
<1>2. /\ back \in AlarmState /\ (back.ringing => back.enabled)
      /\ back.endless => back.ringInterval * c.currStep <= 0
  <2>1. CASE r.sticky
    BY <2>1, PullStickyType, PullStickyEnds
  <2>2. CASE ~r.sticky
    <3>1. /\ PullBack(c, r) \in AlarmState
          /\ PullBack(c, r).ringing = r.ringing /\ PullBack(c, r).enabled = r.enabled
      BY PullBackType
    <3>2. ~PullBack(c, r).endless
      BY <1>1, StepBackType DEF PullBack
    <3> QED
      BY <2>2, <3>1, <3>2
  <2> QED
    BY <2>1, <2>2
<1> HIDE DEF back
<1>3. TurnBackOn(c, back, end).endless = back.endless
  BY <1>2 DEF TurnBackOn, AlarmState
<1>4. TurnBackOff(c, back).endless = back.endless
  <2> DEFINE off   == Silenced(back)
             first == [off EXCEPT !.prevRingTime = off.ringTime]
             fewer == [back EXCEPT !.ringingCount = @ - 1]
  <2>1. off \in AlarmState /\ off.endless = back.endless
    <3>1. off \in AlarmState
      BY <1>2, SilencedType
    <3> QED
      BY <1>2, <3>1 DEF Silenced, AlarmState
  <2>2. fewer.endless = back.endless
    BY <1>2 DEF AlarmState
  <2>3. TurnBackOff(c, back) \in {fewer, ResetRingBegin(c, StepBack(off)), ResetRingBegin(c, first)}
    BY DEF TurnBackOff
  <2> HIDE DEF off, fewer
  <2>4. first \in AlarmState /\ first.endless = back.endless
    BY <2>1 DEF AlarmState
  <2> HIDE DEF first
  <2>5. StepBack(off) \in AlarmState
    BY <2>1, StepBackType
  <2> QED
    BY <1>1, <2>1, <2>2, <2>3, <2>4, <2>5
<1>5. rung \in AlarmState /\ rung.endless = back.endless
  <2>1. \/ rung = back
        \/ rung = TurnBackOff(c, back)
        \/ back.enabled /\ rung = TurnBackOn(c, back, end)
    OBVIOUS
  <2> HIDE DEF rung, end
  <2> QED
    BY <1>2, <1>3, <1>4, <2>1, TurnBackOnType, TurnBackOffType
<1>6. \/ CheckReverse(c, r) \in {r, back}
      \/ ~back.endless /\ CheckReverse(c, r) = rung
      \/ ~back.endless /\ \E on : CheckReverse(c, r) = [rung EXCEPT !.onPrevStep = on]
  BY DEF CheckReverse, back
<1> HIDE DEF rung
<1>7. \A on : [rung EXCEPT !.onPrevStep = on].endless = rung.endless
  BY <1>5 DEF AlarmState
<1> QED
  BY <1>2, <1>5, <1>6, <1>7

LEMMA CheckEnds == ASSUME NEW c \in ClockState, NEW r \in AlarmState, c.timeStep # 0, ~r.endless,
                          r.ringing => r.enabled
                   PROVE  CheckRingTime(c, r).endless => Stuck(c, CheckRingTime(c, r))
<1>1. CASE c.direction = Forward
  BY <1>1, ForwardEnds DEF CheckRingTime
<1>2. CASE c.direction = Reverse
  BY <1>2, ReverseEnds DEF CheckRingTime, Stuck, Forward, Reverse
<1> QED
  BY <1>1, <1>2 DEF ClockState

\* If alarm a, stuck on clock c, is on the clock after a step, which shows the last step and
\* the times of c, it is as described.
LEMMA StuckIs == ASSUME SignInv', turns' \in Nat, NEW c \in ClockState,
                        turns' = 0 => c.direction = Forward /\ ~c.userDirection,
                        NEW a \in Alarm, Stuck(c, alarm'[a]),
                        clock'.direction = c.direction, clock'.currTime = c.currTime,
                        clock'.prevTime = c.prevTime, clock'.currStep = c.currStep,
                        clock'.prevStep = c.prevStep
                 PROVE  LET r == alarm'[a] IN
                        /\ r.ringInterval * clock'.currStep <= 0
                        /\ r.ringInterval = 0 => turns' > 0 \/ ~oneSign'
                        /\ clock'.direction = Forward =>
                             \/ Reached(clock', clock'.currTime, r.ringTime)
                             \/ Reached(clock', clock'.prevTime, r.ringTime)
<1> DEFINE r == alarm'[a]
<1>1. oneSign' => ~(c.currStep * c.prevStep < 0)
  <2>1. clock' \in ClockState /\ (oneSign' => OneSign(clock'))
    BY DEF SignInv, ClockInv, TypeOK
  <2>2. c.currStep \in Int /\ c.prevStep \in Int
    BY DEF ClockState
  <2>3. oneSign' => \/ c.currStep > 0 /\ c.prevStep > 0
                    \/ c.currStep < 0 /\ c.prevStep < 0
    BY <2>1 DEF OneSign, ClockState
  <2> QED
    BY <2>2, <2>3, ProductSign
<1>2. r.ringInterval = 0 => turns' > 0 \/ ~oneSign'
  <2>1. Forward # Reverse
    BY DEF Forward, Reverse
  <2> QED
    BY <1>1, <2>1 DEF Stuck
<1>3. \A t, u : Reached(clock', t, u) <=> Reached(c, t, u)
  BY DEF Reached, Positive
<1> QED
  BY <1>2, <1>3 DEF Stuck

LEMMA AdvanceEnds == ASSUME LoopInv, NEW s \in Int \ {0}, AdvanceH(s)
                     PROVE  LoopInv'
<1> DEFINE c == Stepped(clock, s)
<1>1. /\ SignInv' /\ clock \in ClockState /\ clock.timeStep # 0
      /\ turns' = turns /\ turns \in Nat
  BY AdvanceSign DEF LoopInv, SignInv, ClockInv, TypeOK, AdvanceH
<1>2. c \in ClockState /\ c.timeStep # 0
  BY <1>1, SteppedType
<1>3. c.direction = clock.direction /\ c.userDirection = clock.userDirection
  BY <1>1 DEF Stepped, ClockState
<1>4. /\ clock' = [c EXCEPT !.userDirection = FALSE] /\ Running
      /\ \A a \in Alarm : alarm'[a] = IF Exists(a) THEN CheckRingTime(c, alarm[a]) ELSE NoAlarm
  BY DEF AdvanceH, Advance
<1> HIDE DEF c
<1>5. /\ clock'.direction = c.direction /\ clock'.currTime = c.currTime
      /\ clock'.prevTime = c.prevTime /\ clock'.currStep = c.currStep
      /\ clock'.prevStep = c.prevStep /\ ~clock'.userDirection
  BY <1>2, <1>4 DEF ClockState
<1>6. turns = 0 => c.direction = Forward /\ ~c.userDirection
  BY <1>3 DEF LoopInv
<1>7. ASSUME NEW a \in Alarm, Exists(a)', alarm'[a].endless PROVE Stuck(c, alarm'[a])
  <2>1. Exists(a)
    BY <1>4, <1>7 DEF Exists
  <2>2. alarm[a] \in AlarmState /\ (alarm[a].ringing => alarm[a].enabled) /\ ~alarm[a].endless
    BY <1>4, <2>1 DEF LoopInv, SignInv, ClockInv, TypeOK, Exists, Running
  <2> QED
    BY <1>2, <1>4, <1>7, <2>1, <2>2, CheckEnds
<1>8. EndlessOnlyIf'
  BY <1>1, <1>2, <1>5, <1>6, <1>7, StuckIs DEF EndlessOnlyIf
<1> QED
  BY <1>1, <1>5, <1>6, <1>8 DEF LoopInv

LEMMA CreateEnds == ASSUME LoopInv, NEW a \in Alarm, NEW q \in Request, CreateAlarmH(a, q)
                    PROVE  LoopInv'
<1> DEFINE r == NewAlarm(clock, q)
<1>1. /\ SignInv' /\ clock \in ClockState /\ clock.timeStep # 0
      /\ turns' = turns /\ turns \in Nat
  BY CreateSign DEF LoopInv, SignInv, ClockInv, TypeOK, CreateAlarmH
<1>2. r \in AlarmState /\ ~r.ringing /\ ~r.endless
  BY <1>1, NewAlarmType DEF NewAlarm
<1> HIDE DEF r
<1>3. /\ clock' = [clock EXCEPT !.userDirection = FALSE] /\ Running
      /\ alarm' = [alarm EXCEPT ![a] = CheckRingTime(clock, r)]
  BY DEF CreateAlarmH, CreateAlarm, r
<1>4. /\ clock'.direction = clock.direction /\ clock'.currTime = clock.currTime
      /\ clock'.prevTime = clock.prevTime /\ clock'.currStep = clock.currStep
      /\ clock'.prevStep = clock.prevStep /\ ~clock'.userDirection
  BY <1>1, <1>3 DEF ClockState
<1>5. turns = 0 => clock.direction = Forward /\ ~clock.userDirection
  BY DEF LoopInv
<1>6. ASSUME NEW b \in Alarm, Exists(b)', alarm'[b].endless PROVE Stuck(clock, alarm'[b])
  <2>1. alarm'[b] = IF b = a THEN CheckRingTime(clock, r) ELSE alarm[b]
    BY <1>3 DEF LoopInv, SignInv, ClockInv, TypeOK
  <2>2. b = a
    BY <1>3, <1>6, <2>1 DEF Running, Exists
  <2> QED
    BY <1>1, <1>2, <1>6, <2>1, <2>2, CheckEnds
<1>7. EndlessOnlyIf'
  BY <1>1, <1>4, <1>5, <1>6, StuckIs DEF EndlessOnlyIf
<1> QED
  BY <1>1, <1>4, <1>5, <1>7 DEF LoopInv

\* A call on an alarm has no loop.
LEMMA UserCallEnds == ASSUME LoopInv, NEW a \in Alarm, UserCallH(a)
                      PROVE  LoopInv'
<1> DEFINE r == alarm[a]
           Ends(p) == p # NoAlarm => ~p.endless
<1>1. UserCall(a) /\ ClockInv /\ SignInv' /\ UNCHANGED turns
  BY UserCallSign DEF LoopInv, SignInv, UserCallH
<1>2. UNCHANGED clock /\ Running
  BY <1>1, UserCallType
<1>3. r \in AlarmState /\ ~r.endless
  BY <1>1, <1>2, UserCallType DEF ClockInv, TypeOK, Exists, Running
<1>4. ASSUME NEW p, Call(a, p), Ends(p) PROVE EndlessOnlyIf'
  <2>1. \A b \in Alarm : alarm'[b] = IF b = a THEN p ELSE alarm[b]
    BY <1>1, <1>4 DEF Call, ClockInv, TypeOK
  <2> QED
    BY <1>2, <1>4, <2>1 DEF EndlessOnlyIf, Running, Exists
<1>5. ASSUME DestroyAlarm(a) PROVE EndlessOnlyIf'
  <2>1. \A b \in Alarm : alarm'[b] = IF b = a THEN NoAlarm ELSE alarm[b]
    BY <1>1, <1>5 DEF DestroyAlarm, ClockInv, TypeOK
  <2> QED
    BY <1>1, <1>2, <2>1 DEF LoopInv, EndlessOnlyIf, Running, Exists
<1> HIDE DEF r
<1>6. ASSUME RingerOff(a) PROVE EndlessOnlyIf'
  <2>1. Call(a, RungOff(clock, r))
    BY <1>6 DEF RingerOff, r
  <2>2. Ends(RungOff(clock, r))
    BY <1>3 DEF RungOff, AlarmState
  <2> QED
    BY <1>4, <2>1, <2>2
<1>7. ASSUME \/ RingerOn(a) \/ Enable(a) \/ Disable(a) \/ SetToSticky(a) \/ NotSticky(a)
             \/ \E t \in SetTime : SetRingTime(a, t)
             \/ \E i \in SetInterval : SetRingInterval(a, i)
      PROVE  EndlessOnlyIf'
  <2>1. \/ \E p \in {[r EXCEPT !.ringing = TRUE], [r EXCEPT !.enabled = TRUE],
                     [r EXCEPT !.enabled = FALSE, !.ringing = FALSE],
                     [r EXCEPT !.sticky = TRUE], [r EXCEPT !.sticky = FALSE]} : Call(a, p)
        \/ \E t : Call(a, [r EXCEPT !.ringTime = t, !.prevRingTime = t, !.userRingTime = TRUE])
        \/ \E i : Call(a, [r EXCEPT !.ringInterval = i, !.userInterval = TRUE])
    BY <1>7 DEF RingerOn, Enable, Disable, SetToSticky, NotSticky, SetRingTime, SetRingInterval, r
  <2>2. \A p \in {[r EXCEPT !.ringing = TRUE], [r EXCEPT !.enabled = TRUE],
                  [r EXCEPT !.enabled = FALSE, !.ringing = FALSE],
                  [r EXCEPT !.sticky = TRUE], [r EXCEPT !.sticky = FALSE]} : Ends(p)
    BY <1>3 DEF AlarmState
  <2>3. \A t : Ends([r EXCEPT !.ringTime = t, !.prevRingTime = t, !.userRingTime = TRUE])
    BY <1>3 DEF AlarmState
  <2>4. \A i : Ends([r EXCEPT !.ringInterval = i, !.userInterval = TRUE])
    BY <1>3 DEF AlarmState
  <2> HIDE DEF Ends
  <2> QED
    BY <1>4, <2>1, <2>2, <2>3, <2>4
<1>8. EndlessOnlyIf'
  BY <1>1, <1>5, <1>6, <1>7 DEF UserCall
<1> QED
  BY <1>1, <1>2, <1>8 DEF LoopInv

LEMMA StepEnds == LoopInv /\ [NextH]_allVars => LoopInv'
<1> SUFFICES ASSUME LoopInv, [NextH]_allVars PROVE LoopInv'
  OBVIOUS
<1>1. ASSUME NEW s \in AdvanceStep \cup {clock.timeStep}, AdvanceH(s) PROVE LoopInv'
  <2>1. ClockInv
    BY DEF LoopInv, SignInv
  <2> QED
    BY <1>1, <2>1, StepSizes, AdvanceEnds
<1>2. ASSUME NEW d \in {Forward, Reverse}, SetDirectionH(d) PROVE LoopInv'
  <2>1. SignInv' /\ turns' = turns + 1 /\ UNCHANGED alarm /\ Running
    BY <1>2, DirectionSign DEF LoopInv, SetDirectionH, SetDirection
  <2> QED
    BY <2>1 DEF LoopInv, EndlessOnlyIf, Exists, Running
<1>3. ASSUME NEW a \in Alarm, NEW q \in Request, CreateAlarmH(a, q) PROVE LoopInv'
  BY <1>3, CreateEnds
<1>4. ASSUME NEW a \in Alarm, UserCallH(a) PROVE LoopInv'
  BY <1>4, UserCallEnds
<1>5. CASE UNCHANGED allVars
  <2>1. SignInv' /\ UNCHANGED <<clock, alarm, turns, oneSign>>
    BY <1>5, SameSigns DEF LoopInv, allVars, vars, historyVars
  <2> QED
    BY <2>1 DEF LoopInv, EndlessOnlyIf, Exists, Reached, Positive
<1> QED
  BY <1>1, <1>2, <1>3, <1>4, <1>5 DEF NextH

-----------------------------------------------------------------------------
(* Results                                                                  *)

\* An alarm whose next ring time is promised has no stop time and has not been set by its user,
\* the clock has not gone back since it was created, and its ring time is the first of its
\* instants ahead.
THEOREM AlarmInvariant == SpecH => []AlarmInv
BY InitContract, StepContract, PTL DEF SpecH

\* The types hold whatever is recorded of the users' calls.
THEOREM AlarmTypeH == SpecH => []TypeOK
BY ContractSpec, AlarmType, PTL

LEMMA IsNextIs == ASSUME NEW c \in ClockState, OneSign(c), NEW t \in Int, NEW b \in Int,
                         NEW i \in Int \ {0}, Along(c, i), NEW now, IsNextRing(c, t, b, i, now)
                  PROVE  (t - b) % Abs(i) = 0 /\ Reached(c, t, b)
<1>1. PICK k \in Nat : t = b + k * i
  BY DEF IsNextRing, OnInstant
<1>2. k * i \in Int /\ t - b = k * i
  BY <1>1, ProductType
<1>3. (c.timeStep > 0 => k * i >= 0) /\ (~(c.timeStep > 0) => k * i <= 0)
  BY ProductSign DEF Along, OneSign, ClockState
<1>4. Reached(c, t, b)
  BY <1>2, <1>3, Direction
<1> QED
  BY <1>2, <1>4, NoRemainder

LEMMA NextIsRing == AlarmInv => RingTimeIsNext
<1> SUFFICES ASSUME AlarmInv, NEW a \in Alarm, kept[a], Sound(a), alarm[a].ringInterval # 0
             PROVE  LET r == alarm[a] IN
                    /\ (r.ringTime - base[a]) % Abs(r.ringInterval) = 0
                    /\ Reached(clock, r.ringTime, base[a])
                    /\ Beyond(clock, r.ringTime, clock.currTime)
                    /\ r.ringTime # base[a] =>
                         ~Beyond(clock, r.ringTime - r.ringInterval, clock.currTime)
  BY DEF RingTimeIsNext
<1> DEFINE r == alarm[a]
<1>1. /\ clock \in ClockState /\ OneSign(clock)
      /\ r \in AlarmState /\ base[a] \in Int
  BY DEF AlarmInv, SignInv, ClockInv, TypeOK, HistoryType, Sound, Exists
<1>2. /\ IsNextRing(clock, r.ringTime, base[a], r.ringInterval, clock.currTime)
      /\ Along(clock, r.ringInterval)
  BY DEF AlarmInv, Promised, Sound
<1>3. r.ringTime \in Int /\ r.ringInterval \in Int \ {0}
  BY <1>1, FieldType
<1> HIDE DEF r
<1>4. (r.ringTime - base[a]) % Abs(r.ringInterval) = 0 /\ Reached(clock, r.ringTime, base[a])
  BY <1>1, <1>2, <1>3, IsNextIs
<1> QED
  BY <1>2, <1>4 DEF IsNextRing, r

\* Stepping forward, the ring time of a repeating alarm is the first of its instants ahead: none
\* is skipped and none is passed without a ring, for steps of any size.
THEOREM NextRing == SpecH => []RingTimeIsNext
BY AlarmInvariant, NextIsRing, PTL

LEMMA ForetoldStep ==
  ASSUME AlarmInv, NEW a \in Alarm, kept[a], Sound(a), ~alarm[a].ringing,
         clock.direction = Forward, ~clock.userDirection, Advance(clock.timeStep)
  PROVE  alarm'[a].ringing <=> WillRingNext(clock, alarm[a])
<1> DEFINE r == alarm[a]
           c == Stepped(clock, clock.timeStep)
           f == CheckForward(c, r)
<1>1. clock \in ClockState /\ OneSign(clock) /\ clock.timeStep \in Int \ {0}
  BY DEF AlarmInv, SignInv, ClockInv, TypeOK, ClockState
<1>2. /\ c \in ClockState /\ OneSign(c) /\ c.timeStep = clock.timeStep
      /\ c.direction = Forward /\ ~c.userDirection
      /\ c.currTime = clock.currTime + clock.timeStep
      /\ c.prevTime = clock.currTime
      /\ c.advanceCount = clock.advanceCount + 1
  <2>1. clock.timeStep * clock.timeStep >= 0
    BY <1>1, ProductSign
  <2>2. c \in ClockState /\ OneSign(c) /\ c.timeStep = clock.timeStep
    BY <1>1, <2>1, SteppedType, SteppedSign
  <2> QED
    BY <1>1, <2>2 DEF Stepped, ClockState
<1>3. alarm'[a] = f
  BY <1>2 DEF Advance, CheckRingTime, Sound
<1>4. /\ r.stopTime = Origin /\ ~r.userRingTime /\ ~r.userInterval
      /\ clock.advanceCount >= 0
      /\ r \in AlarmState /\ ~r.ringing /\ ~r.endless
  BY DEF AlarmInv, SignInv, Promised, ClockInv, TypeOK, Sound, Exists
<1>5. WillRingNext(clock, r) <=> /\ r.enabled
                                 /\ IF c.timeStep > 0
                                    THEN c.currTime >= r.ringTime /\ c.prevTime < r.ringTime
                                    ELSE c.currTime <= r.ringTime /\ c.prevTime > r.ringTime
  BY <1>2 DEF WillRingNext
<1> HIDE DEF r, c
<1>6. PICK q, p \in AlarmState : /\ Checked(c, r, q) /\ Turned(c, q, p)
                                 /\ IF q.endless THEN f.endless ELSE Settled(c, p, f)
  BY <1>2, <1>4, ForwardIs
<1>7. q.ringTime = r.ringTime /\ ~q.endless /\ ~q.ringing /\ q.enabled = r.enabled
  BY <1>2, <1>4, <1>6 DEF Checked, Same
<1>8. f.ringing <=> r.enabled /\ Crossed(c, q)
  BY <1>6, <1>7 DEF Turned, Settled
<1>9. Crossed(c, q) <=> Reached(c, c.currTime, r.ringTime) /\ ~Reached(c, c.prevTime, r.ringTime)
  BY <1>1, <1>2, <1>4, <1>7 DEF Crossed, ClockState
<1>10. c.currTime \in Int /\ c.prevTime \in Int /\ r.ringTime \in Int
  BY <1>2, <1>4, FieldType DEF ClockState
<1>11. /\ Reached(c, c.currTime, r.ringTime) <=>
            IF c.timeStep > 0 THEN c.currTime >= r.ringTime ELSE c.currTime <= r.ringTime
       /\ Reached(c, c.prevTime, r.ringTime) <=>
            IF c.timeStep > 0 THEN c.prevTime >= r.ringTime ELSE c.prevTime <= r.ringTime
  BY <1>2, <1>10, Direction
<1> QED
  BY <1>3, <1>5, <1>8, <1>9, <1>10, <1>11 DEF r

\* What willRingNext answers for a silent alarm is what the clock's next step forward does.
THEOREM Foretold == SpecH => RingsAsForetold
<1>1. AlarmInv =>
        [\A a \in Alarm :
           /\ kept[a] /\ Sound(a) /\ ~alarm[a].ringing
           /\ clock.direction = Forward /\ ~clock.userDirection
           /\ Advance(clock.timeStep)
           => (alarm'[a].ringing <=> WillRingNext(clock, alarm[a]))]_allVars
  BY ForetoldStep
<1> QED
  BY <1>1, AlarmInvariant, PTL DEF RingsAsForetold

\* Whatever the signs of steps and intervals, and whatever the users do, a call that does not
\* return has met an alarm whose interval, if any, points against the clock's last step; one
\* without an interval only if the clock was turned or changed the sign of its steps; and, going
\* forward, one that has come due.
THEOREM EndlessWhen == SpecH => []EndlessOnlyIf
<1>1. InitH => LoopInv
  BY InitSign DEF InitH, Init, NewClock, LoopInv, EndlessOnlyIf, Exists
<1>2. LoopInv => EndlessOnlyIf
  BY DEF LoopInv
<1> QED
  BY <1>1, <1>2, StepEnds, PTL DEF SpecH

-----------------------------------------------------------------------------
(* Time steps                                                               *)

\* The clock time from the clock's start to t, counted along its steps, which measure Size.
Since(c, t) == IF c.timeStep > 0 THEN t - StartTime ELSE StartTime - t
Size(c)     == Abs(c.timeStep)

\* t is a whole number of steps away from the clock's start.
Grid(c, t) == \E m \in Int : t = StartTime + m * c.timeStep

\* Multiples of a size are ordered as their factors.
LEMMA Scaled == \A m, n \in Int, s \in Nat \ {0} :
                  /\ m * s \in Int /\ n * s \in Int
                  /\ m <= n <=> m * s <= n * s
                  /\ m < n <=> m * s + s <= n * s
<1> SUFFICES ASSUME NEW m \in Int, NEW n \in Int, NEW s \in Nat \ {0}
             PROVE  /\ m * s \in Int /\ n * s \in Int
                    /\ m <= n <=> m * s <= n * s
                    /\ m < n <=> m * s + s <= n * s
  OBVIOUS
<1>1. m * s \in Int /\ n * s \in Int /\ (n - m) * s = n * s - m * s
  OBVIOUS
<1>2. CASE m < n
  <2>1. (n - m - 1) * s >= 0
    BY <1>2
  <2>2. (n - m - 1) * s = n * s - m * s - s
    OBVIOUS
  <2> QED
    BY <1>1, <1>2, <2>1, <2>2
<1>3. CASE m = n
  BY <1>1, <1>3
<1>4. CASE m > n
  <2>1. (m - n - 1) * s >= 0
    BY <1>4
  <2>2. (m - n - 1) * s = m * s - n * s - s
    OBVIOUS
  <2> QED
    BY <1>1, <1>4, <2>1, <2>2
<1> QED
  BY <1>2, <1>3, <1>4

LEMMA SinceType == ASSUME NEW c \in ClockState, c.timeStep # 0
                   PROVE  /\ Size(c) \in Nat \ {0}
                          /\ \A t \in Int : Since(c, t) \in Int
                          /\ \A t, u \in Int : Since(c, t) = Since(c, u) => t = u
BY ClockAssumption DEF Size, Abs, Since, ClockState

LEMMA SinceReached == ASSUME NEW c \in ClockState, OneSign(c), NEW t \in Int, NEW u \in Int
                      PROVE  /\ Reached(c, t, u) <=> Since(c, t) >= Since(c, u)
                             /\ Beyond(c, t, u) <=> Since(c, t) > Since(c, u)
<1>1. c.timeStep \in Int /\ StartTime \in Int
  BY ClockAssumption DEF ClockState
<1> QED
  BY <1>1, Direction DEF Since

\* A step of the clock, and an interval along its steps.
LEMMA SinceStep == ASSUME NEW c \in ClockState, c.timeStep # 0, NEW t \in Int
                   PROVE  /\ Since(c, t + c.timeStep) = Since(c, t) + Size(c)
                          /\ Since(c, t - c.timeStep) = Since(c, t) - Size(c)
BY ClockAssumption DEF Size, Abs, Since, ClockState

LEMMA SinceAlong == ASSUME NEW c \in ClockState, c.timeStep # 0, NEW t \in Int, NEW i \in Int,
                           Along(c, i)
                    PROVE  /\ Since(c, t + i) = Since(c, t) + Abs(i)
                           /\ Since(c, t - i) = Since(c, t) - Abs(i)
BY ClockAssumption DEF Along, Abs, Since, ClockState

\* A whole number of steps.
LEMMA SinceSteps == ASSUME NEW c \in ClockState, c.timeStep # 0, NEW t \in Int, NEW m \in Int
                    PROVE  /\ m * c.timeStep \in Int
                           /\ Since(c, t + m * c.timeStep) = Since(c, t) + m * Size(c)
<1>1. c.timeStep \in Int /\ StartTime \in Int /\ m * c.timeStep \in Int /\ m * (-c.timeStep) = -(m * c.timeStep)
  BY ClockAssumption DEF ClockState
<1> QED
  BY <1>1 DEF Since, Size, Abs

LEMMA GridStart == ASSUME NEW c \in ClockState PROVE Grid(c, StartTime)
<1>1. 0 \in Int /\ StartTime = StartTime + 0 * c.timeStep
  BY ClockAssumption DEF ClockState
<1> QED
  BY <1>1 DEF Grid

LEMMA GridSteps == ASSUME NEW c \in ClockState, NEW t, Grid(c, t), NEW n \in Int
                   PROVE  t \in Int /\ Grid(c, t + n * c.timeStep)
<1>1. PICK m \in Int : t = StartTime + m * c.timeStep
  BY DEF Grid
<1>2. t \in Int /\ t + n * c.timeStep = StartTime + (m + n) * c.timeStep /\ m + n \in Int
  BY <1>1, ClockAssumption DEF ClockState
<1> QED
  BY <1>2 DEF Grid

LEMMA GridNext == ASSUME NEW c \in ClockState, NEW t, Grid(c, t)
                  PROVE  t \in Int /\ Grid(c, t + c.timeStep) /\ Grid(c, t - c.timeStep)
<1>1. 1 \in Int /\ -1 \in Int /\ c.timeStep \in Int
  BY DEF ClockState
<1>2. t \in Int /\ Grid(c, t + 1 * c.timeStep) /\ Grid(c, t + (-1) * c.timeStep)
  BY <1>1, GridSteps
<1>3. t + 1 * c.timeStep = t + c.timeStep /\ t + (-1) * c.timeStep = t - c.timeStep
  BY <1>1, <1>2
<1> QED
  BY <1>2, <1>3

\* The times of two steps are equal or a step apart.
LEMMA GridApart == ASSUME NEW c \in ClockState, c.timeStep # 0, NEW t, NEW u, Grid(c, t), Grid(c, u),
                          Since(c, t) < Since(c, u)
                   PROVE  Since(c, t) + Size(c) <= Since(c, u)
<1>1. PICK m \in Int : t = StartTime + m * c.timeStep
  BY DEF Grid
<1>2. PICK n \in Int : u = StartTime + n * c.timeStep
  BY DEF Grid
<1>3. Since(c, StartTime) = 0 /\ StartTime \in Int
  BY ClockAssumption DEF Since
<1>4. Since(c, t) = m * Size(c) /\ Since(c, u) = n * Size(c)
  <2>1. /\ Since(c, t) = Since(c, StartTime) + m * Size(c)
        /\ Since(c, u) = Since(c, StartTime) + n * Size(c)
    BY <1>1, <1>2, <1>3, SinceSteps
  <2>2. m * Size(c) \in Int /\ n * Size(c) \in Int
    BY SinceType, ProductType
  <2> QED
    BY <1>3, <2>1, <2>2
<1>5. Size(c) \in Nat \ {0}
  BY SinceType
<1>6. m < n
  BY <1>4, <1>5, Scaled
<1> QED
  BY <1>4, <1>5, <1>6, Scaled

\* The clock time since its start at the step an alarm due at e begins to ring, and from that
\* step to the one at which it falls silent.
Begins(c, e) == Since(c, OnStep(c, e))
Span(c, r)   == Abs(RingSpan(c, r))

\* Division with remainder.
LEMMA Division == \A i \in Int, s \in Nat \ {0} :
                    /\ i \div s \in Int /\ i % s \in 0..(s-1)
                    /\ i = s * (i \div s) + (i % s)
<1> SUFFICES ASSUME NEW i \in Int, NEW s \in Int, s > 0
             PROVE  /\ i \div s \in Int /\ i % s \in 0..(s-1)
                    /\ i = s * (i \div s) + (i % s)
  OBVIOUS
<1>1. i \div s \in Int /\ i % s \in 0..(s-1)
  OBVIOUS
<1>2. i = s * (i \div s) + (i % s)
  BY Z3
<1> QED
  BY <1>1, <1>2

LEMMA OnStepIs == ASSUME NEW c \in ClockState, c.timeStep # 0, NEW t \in Int
                  PROVE  /\ OnStep(c, t) \in Int
                         /\ Grid(c, OnStep(c, t))
                         /\ Begins(c, t) \in Int
                         /\ Since(c, t) <= Begins(c, t)
                         /\ Begins(c, t) < Since(c, t) + Size(c)
<1> DEFINE s   == Size(c)
           x   == t - StartTime
           k   == x \div s
           rem == x % s
<1>1. s \in Nat \ {0} /\ c.timeStep \in Int /\ StartTime \in Int
  BY SinceType, ClockAssumption DEF ClockState
<1>2. k \in Int /\ rem \in 0..(s-1) /\ t - StartTime = s * k + rem
  <2>1. x \in Int
    BY <1>1
  <2>2. x = t - StartTime
    OBVIOUS
  <2> HIDE DEF s, x
  <2>3. x \div s \in Int /\ x % s \in 0..(s-1) /\ x = s * (x \div s) + (x % s)
    BY <1>1, <2>1, Division
  <2> QED
    BY <2>2, <2>3
<1>3. OnStep(c, t) = IF c.timeStep < 0 \/ rem = 0 THEN t - rem ELSE t - rem + c.timeStep
  BY DEF OnStep, Size
<1>4. c.timeStep = s \/ (c.timeStep < 0 /\ c.timeStep = -s)
  BY <1>1 DEF Size, Abs
<1> HIDE DEF s, k, rem
<1>5. s * k \in Int /\ t - rem = StartTime + s * k /\ rem \in Int
  BY <1>1, <1>2
<1>6. Grid(c, t - rem)
  <2>1. CASE c.timeStep = s
    <3>1. t - rem = StartTime + k * c.timeStep
      BY <1>1, <1>2, <1>5, <2>1
    <3> QED
      BY <1>2, <3>1 DEF Grid
  <2>2. CASE c.timeStep = -s
    <3>1. t - rem = StartTime + (-k) * c.timeStep /\ -k \in Int
      BY <1>1, <1>2, <1>5, <2>2
    <3> QED
      BY <3>1 DEF Grid
  <2> QED
    BY <1>4, <2>1, <2>2
<1>7. Grid(c, t - rem + c.timeStep)
  <2>1. Grid(c, t - rem + 1 * c.timeStep)
    BY <1>6, GridSteps
  <2>2. 1 * c.timeStep = c.timeStep
    BY <1>1
  <2> QED
    BY <2>1, <2>2
<1>8. /\ OnStep(c, t) \in Int
      /\ Since(c, t) <= Since(c, OnStep(c, t))
      /\ Since(c, OnStep(c, t)) < Since(c, t) + s
  BY <1>1, <1>2, <1>3, <1>4, <1>5 DEF Since
<1>9. Since(c, OnStep(c, t)) \in Int
  BY <1>8, SinceType
<1> QED
  BY <1>3, <1>6, <1>7, <1>8, <1>9 DEF Begins, s

\* A time on a step is that step.
LEMMA OnStepSame == ASSUME NEW c \in ClockState, c.timeStep # 0, NEW t, Grid(c, t)
                    PROVE  t \in Int /\ OnStep(c, t) = t
<1>1. PICK m \in Int : t = StartTime + m * c.timeStep
  BY DEF Grid
<1>2. t \in Int /\ t - StartTime = m * c.timeStep /\ c.timeStep \in Int \ {0}
  BY <1>1, ClockAssumption DEF ClockState
<1>3. (t - StartTime) % Abs(c.timeStep) = 0
  BY <1>2, NoRemainder
<1> QED
  BY <1>2, <1>3 DEF OnStep

\* An alarm rings for one step at least; one that rings for a duration, until the first step the
\* duration after the one it began at.
LEMMA SpanIs == ASSUME NEW c \in ClockState, c.timeStep # 0, NEW r \in AlarmState, r.ringStepCount > 0
                PROVE  /\ \E n \in Nat \ {0} : /\ RingSpan(c, r) = n * c.timeStep
                                               /\ Span(c, r) = n * Size(c)
                                               /\ ~ByDuration(r) => n = r.ringStepCount
                       /\ Span(c, r) \in Int /\ Span(c, r) >= Size(c)
                       /\ RingSpan(c, r) \in Int
                       /\ ByDuration(r) => /\ Span(c, r) - Size(c) < Abs(r.ringDuration)
                                           /\ Abs(r.ringDuration) <= Span(c, r)
<1> DEFINE s == Size(c)
           d == Abs(r.ringDuration)
           x == d + s - 1
           n == IF ByDuration(r) THEN x \div s ELSE r.ringStepCount
<1>1. s \in Nat \ {0} /\ c.timeStep \in Int
  BY SinceType DEF ClockState
<1>2. d \in Nat /\ (ByDuration(r) => d # 0)
  BY FieldType, AbsType DEF ByDuration
<1>3. RingSpan(c, r) = n * c.timeStep
  BY DEF RingSpan, Size
<1> HIDE DEF d
<1>4. /\ x \div s \in Int /\ x = s * (x \div s) + (x % s)
      /\ x % s \in 0..(s-1) /\ s * (x \div s) = (x \div s) * s /\ (x \div s) * s \in Int
  <2>1. x \in Int
    BY <1>1, <1>2
  <2> HIDE DEF s, x
  <2>2. x \div s \in Int /\ x % s \in 0..(s-1) /\ x = s * (x \div s) + (x % s)
    BY <1>1, <2>1, Division
  <2> QED
    BY <1>1, <2>2
<1> DEFINE y == x \div s
           z == x % s
<1>5. ByDuration(r) => n \in Nat \ {0} /\ n * s - s < d /\ d <= n * s
  <2> SUFFICES ASSUME ByDuration(r) PROVE y \in Nat \ {0} /\ y * s - s < d /\ d <= y * s
    OBVIOUS
  <2> HIDE DEF y, z, s
  <2>1. y \in Int /\ z \in 0..(s-1) /\ y * s \in Int /\ d + s - 1 = y * s + z
    BY <1>4 DEF y, z
  <2>2. y * s - s < d /\ d <= y * s
    BY <1>1, <1>2, <2>1
  <2>3. y > 0
    <3>1. 0 * s = 0 /\ 0 \in Int
      BY <1>1
    <3>2. y <= 0 => y * s <= 0 * s
      BY <1>1, <2>1, <3>1, Scaled
    <3> QED
      BY <1>2, <2>1, <2>2, <3>1, <3>2
  <2> QED
    BY <2>1, <2>2, <2>3
<1>6. n \in Nat \ {0}
  BY <1>5, FieldType
<1> HIDE DEF n
<1>7. n * s \in Int /\ n * s >= s
  <2>1. 1 * s <= n * s /\ n * s \in Int /\ 1 * s = s
    BY <1>1, <1>6, Scaled
  <2> QED
    BY <2>1
<1>8. Span(c, r) = n * s /\ RingSpan(c, r) \in Int
  <2>1. c.timeStep = s \/ (c.timeStep < 0 /\ c.timeStep = -s)
    BY <1>1 DEF Size, Abs
  <2>2. n * (-s) = -(n * s) /\ n * c.timeStep \in Int
    BY <1>1, <1>6
  <2> HIDE DEF s
  <2>3. n * c.timeStep = n * s \/ n * c.timeStep = -(n * s)
    BY <2>1, <2>2
  <2>4. n * s >= 0
    BY <1>1, <1>7
  <2> QED
    BY <1>3, <1>7, <2>2, <2>3, <2>4 DEF Span, Abs
<1>9. ~ByDuration(r) => n = r.ringStepCount
  BY DEF n
<1> QED
  BY <1>3, <1>5, <1>6, <1>7, <1>8, <1>9 DEF d

\* A step is before the one an alarm begins to ring at, or the one it falls silent at, by a whole
\* step at least.
LEMMA BeginsIs ==
  ASSUME NEW c \in ClockState, c.timeStep # 0, NEW r \in AlarmState, r.ringStepCount > 0,
         NEW e \in Int, NEW t, Grid(c, t)
  PROVE  /\ t \in Int /\ Since(c, t) \in Int /\ Since(c, e) \in Int /\ Begins(c, e) \in Int
         /\ Size(c) \in Nat \ {0} /\ Span(c, r) \in Int /\ Span(c, r) >= Size(c)
         /\ Since(c, e) <= Begins(c, e) /\ Begins(c, e) < Since(c, e) + Size(c)
         /\ Since(c, t) < Begins(c, e) => Since(c, t) + Size(c) <= Begins(c, e)
         /\ Since(c, t) < Begins(c, e) + Span(c, r) =>
              Since(c, t) + Size(c) <= Begins(c, e) + Span(c, r)
<1>1. /\ OnStep(c, e) \in Int /\ Grid(c, OnStep(c, e)) /\ Begins(c, e) \in Int
      /\ Since(c, e) <= Begins(c, e) /\ Begins(c, e) < Since(c, e) + Size(c)
  BY OnStepIs
<1>2. PICK n \in Nat \ {0} : RingSpan(c, r) = n * c.timeStep /\ Span(c, r) = n * Size(c)
  BY SpanIs
<1>3. Span(c, r) \in Int /\ Span(c, r) >= Size(c)
  BY SpanIs
<1>4. Grid(c, OnStep(c, e) + n * c.timeStep)
  <2>1. n \in Int
    OBVIOUS
  <2> QED
    BY <1>1, <2>1, GridSteps
<1>5. Since(c, OnStep(c, e) + n * c.timeStep) = Begins(c, e) + Span(c, r)
  BY <1>1, <1>2, SinceSteps DEF Begins
<1>6. t \in Int
  BY GridSteps
<1>7. Since(c, t) < Begins(c, e) => Since(c, t) + Size(c) <= Begins(c, e)
  BY <1>1, GridApart DEF Begins
<1>8. Since(c, t) < Begins(c, e) + Span(c, r) => Since(c, t) + Size(c) <= Begins(c, e) + Span(c, r)
  BY <1>4, <1>5, GridApart
<1> QED
  BY <1>1, <1>3, <1>6, <1>7, <1>8, SinceType

\* An alarm that began to ring at a step has reached the end of its ringing at a step exactly if
\* its ring span has passed.
LEMMA EndBegun ==
  ASSUME NEW c \in ClockState, OneSign(c), NEW r \in AlarmState, r.ringStepCount > 0,
         Along(c, r.ringDuration), NEW e \in Int, OnStep(c, e) # Origin, NEW t, Grid(c, t)
  PROVE  Reached(c, t, RingEndFrom(c, r, OnStep(c, e))) <=> Since(c, t) >= Begins(c, e) + Span(c, r)
<1> DEFINE end == RingEndFrom(c, r, OnStep(c, e))
<1>1. c.timeStep # 0 /\ OnStep(c, e) \in Int
  BY OnStepIs DEF OneSign
<1>2. end \in Int /\ t \in Int
  BY <1>1, RingEndType, GridSteps
<1>3. /\ Since(c, t) \in Int /\ Begins(c, e) \in Int /\ Size(c) \in Nat \ {0} /\ Span(c, r) \in Int
      /\ Since(c, t) < Begins(c, e) + Span(c, r) => Since(c, t) + Size(c) <= Begins(c, e) + Span(c, r)
  BY <1>1, BeginsIs
<1>4. Reached(c, t, end) <=> Since(c, t) >= Since(c, end)
  BY <1>2, SinceReached
<1>5. CASE ByDuration(r)
  <2>1. end = OnStep(c, e) + r.ringDuration /\ r.ringDuration \in Int
    BY <1>5, FieldType DEF RingEndFrom, Plus
  <2> HIDE DEF end
  <2>2. Since(c, end) = Begins(c, e) + Abs(r.ringDuration)
    BY <1>1, <2>1, SinceAlong DEF Begins
  <2>3. /\ Span(c, r) - Size(c) < Abs(r.ringDuration) /\ Abs(r.ringDuration) <= Span(c, r)
        /\ Abs(r.ringDuration) \in Int
    BY <1>1, <1>5, <2>1, SpanIs, AbsType
  <2>4. Since(c, t) >= Since(c, end) <=> Since(c, t) >= Begins(c, e) + Span(c, r)
    BY <1>3, <2>2, <2>3
  <2> QED
    BY <1>4, <2>4 DEF end
<1>6. CASE ~ByDuration(r)
  <2>1. end = OnStep(c, e) + r.ringStepCount * c.timeStep /\ r.ringStepCount \in Int
    BY <1>6, FieldType DEF RingEndFrom, Plus
  <2>2. Span(c, r) = r.ringStepCount * Size(c)
    BY <1>1, <1>6, SpanIs
  <2> HIDE DEF end
  <2>3. Since(c, end) = Begins(c, e) + Span(c, r)
    <3>1. Since(c, OnStep(c, e) + r.ringStepCount * c.timeStep)
            = Since(c, OnStep(c, e)) + r.ringStepCount * Size(c)
      BY <1>1, <2>1, SinceSteps
    <3> QED
      BY <2>1, <2>2, <3>1 DEF Begins
  <2> QED
    BY <1>4, <2>3 DEF end
<1> QED
  BY <1>5, <1>6

\* The same of an end that is counted from the ring time, if a duration is a multiple of the step.
LEMMA EndDue ==
  ASSUME NEW c \in ClockState, OneSign(c), NEW r \in AlarmState, r.ringStepCount > 0,
         Along(c, r.ringDuration), ByDuration(r) => r.ringDuration % Size(c) = 0,
         NEW e \in Int, e # Origin, NEW t, Grid(c, t)
  PROVE  Reached(c, t, RingEndFrom(c, r, e)) <=> Since(c, t) >= Begins(c, e) + Span(c, r)
<1> DEFINE end == RingEndFrom(c, r, e)
<1>1. c.timeStep # 0
  BY DEF OneSign
<1>2. end \in Int /\ t \in Int
  BY <1>1, RingEndType, GridSteps
<1>3. /\ Since(c, t) \in Int /\ Since(c, e) \in Int /\ Begins(c, e) \in Int
      /\ Size(c) \in Nat \ {0} /\ Span(c, r) \in Int
      /\ Since(c, e) <= Begins(c, e) /\ Begins(c, e) < Since(c, e) + Size(c)
      /\ Since(c, t) < Begins(c, e) + Span(c, r) => Since(c, t) + Size(c) <= Begins(c, e) + Span(c, r)
  BY <1>1, BeginsIs
<1>4. Reached(c, t, end) <=> Since(c, t) >= Since(c, end)
  BY <1>2, SinceReached
<1>5. Since(c, end) = Since(c, e) + Span(c, r)
  <2>1. CASE ByDuration(r)
    <3> DEFINE d == r.ringDuration
               s == Size(c)
    <3>1. end = e + d /\ d \in Int /\ d % s = 0 /\ s \in Nat \ {0}
      BY <1>3, <2>1, FieldType DEF RingEndFrom, Plus
    <3>2. Since(c, e + d) = Since(c, e) + Abs(d)
      BY <1>1, <3>1, SinceAlong
    <3>3. PICK n \in Nat \ {0} : Span(c, r) = n * s
      BY <1>1, SpanIs
    <3>4. Span(c, r) - s < Abs(d) /\ Abs(d) <= Span(c, r)
      BY <1>1, <2>1, SpanIs
    <3> HIDE DEF d, s
    <3> DEFINE k == d \div s
    <3>5. k \in Int /\ d = s * k
      BY <3>1, Division
    <3> HIDE DEF k
    <3>6. \E j \in Int : Abs(d) = j * s
      <4>1. CASE d >= 0
        <5>1. Abs(d) = k * s
          BY <3>1, <3>5, <4>1 DEF Abs
        <5> QED
          BY <3>5, <5>1
      <4>2. CASE d < 0
        <5>1. Abs(d) = (-k) * s /\ -k \in Int
          BY <3>1, <3>5, <4>2 DEF Abs
        <5> QED
          BY <5>1
      <4> QED
        BY <3>1, <4>1, <4>2
    <3>7. PICK j \in Int : Abs(d) = j * s
      BY <3>6
    <3>8. j * s \in Int /\ n * s \in Int /\ (j < n => j * s + s <= n * s) /\ (n < j => n * s + s <= j * s)
      BY <3>1, Scaled
    <3>9. j = n
      BY <3>1, <3>3, <3>4, <3>7, <3>8
    <3> QED
      BY <3>1, <3>2, <3>3, <3>7, <3>9
  <2>2. CASE ~ByDuration(r)
    <3>1. end = e + r.ringStepCount * c.timeStep /\ r.ringStepCount \in Int
      BY <2>2, FieldType DEF RingEndFrom, Plus
    <3>2. Span(c, r) = r.ringStepCount * Size(c)
      BY <1>1, <2>2, SpanIs
    <3> QED
      BY <1>1, <3>1, <3>2, SinceSteps
  <2> QED
    BY <2>1, <2>2
<1> HIDE DEF end
<1>6. Since(c, t) >= Since(c, end) <=> Since(c, t) >= Begins(c, e) + Span(c, r)
  BY <1>3, <1>5
<1> QED
  BY <1>4, <1>6 DEF end

\* A ringing alarm that began at a step has rung out exactly if its ring span has passed: at
\* the step that follows the one at which it was counted last.
LEMMA RungOutIs ==
  ASSUME NEW c \in ClockState, c.timeStep # 0, NEW r \in AlarmState, r.ringStepCount > 0,
         NEW e \in Int, r.ringBegin = OnStep(c, e), OnStep(c, e) # Origin,
         c.currTime = r.ringBegin + r.ringingCount * c.timeStep, Since(c, c.currTime) >= Begins(c, e)
  PROVE  RungOut(c, r) <=> Since(c, c.currTime) >= Begins(c, e) + Span(c, r)
<1> DEFINE t == c.currTime
           s == Size(c)
<1>1. /\ r.ringingCount \in Int /\ r.ringStepCount \in Nat /\ s \in Nat \ {0} /\ t \in Int
      /\ OnStep(c, e) \in Int /\ Grid(c, OnStep(c, e)) /\ StartTime \in Int
  BY SinceType, OnStepIs, ClockAssumption DEF AlarmState, ClockState
<1>2. Grid(c, t)
  BY <1>1, GridSteps
<1>3. /\ Since(c, t) \in Int /\ Begins(c, e) \in Int /\ Span(c, r) \in Int
      /\ Since(c, t) < Begins(c, e) + Span(c, r) => Since(c, t) + s <= Begins(c, e) + Span(c, r)
  BY <1>2, BeginsIs
<1>4. Since(c, t) = Begins(c, e) + r.ringingCount * s
  <2>1. Since(c, OnStep(c, e) + r.ringingCount * c.timeStep)
          = Since(c, OnStep(c, e)) + r.ringingCount * Size(c)
    BY <1>1, SinceSteps
  <2> QED
    BY <2>1 DEF Begins
<1>5. CASE ByDuration(r)
  <2>1. Minus(t, r.ringBegin) = t - OnStep(c, e)
    BY DEF Minus
  <2>2. Abs(t - OnStep(c, e)) = Since(c, t) - Begins(c, e)
    <3>1. Since(c, t) >= Since(c, OnStep(c, e))
      BY DEF Begins
    <3> QED
      BY <1>1, <3>1 DEF Abs, Since, Begins
  <2>3. /\ Span(c, r) - s < Abs(r.ringDuration) /\ Abs(r.ringDuration) <= Span(c, r)
        /\ Abs(r.ringDuration) \in Int
    BY <1>5, SpanIs, AbsType, FieldType
  <2>4. RungOut(c, r) <=> Since(c, t) - Begins(c, e) >= Abs(r.ringDuration)
    BY <1>5, <2>1, <2>2 DEF RungOut
  <2> QED
    BY <1>1, <1>3, <2>3, <2>4
<1>6. CASE ~ByDuration(r)
  <2>1. RungOut(c, r) <=> r.ringStepCount <= r.ringingCount
    BY <1>1, <1>6 DEF RungOut
  <2>2. Span(c, r) = r.ringStepCount * s
    BY <1>6, SpanIs
  <2> HIDE DEF t, s
  <2>3. /\ r.ringStepCount <= r.ringingCount <=> r.ringStepCount * s <= r.ringingCount * s
        /\ r.ringStepCount * s \in Int /\ r.ringingCount * s \in Int
    BY <1>1, Scaled
  <2>4. RungOut(c, r) <=> Since(c, t) >= Begins(c, e) + Span(c, r)
    BY <1>3, <1>4, <2>1, <2>2, <2>3
  <2> QED
    BY <2>4 DEF t
<1> QED
  BY <1>5, <1>6

-----------------------------------------------------------------------------
(* The inductive invariant of ringing at time steps                         *)

\* Alarm r rings at step t for its instant e.
InRing(c, r, e, t) == /\ Begins(c, e) <= Since(c, t)
                      /\ Since(c, t) < Begins(c, e) + Span(c, r)

\* What is assumed of an alarm that rings as promised: all that no check changes.
Plain(c, r, b) ==
  /\ r.enabled /\ ~r.sticky /\ r.stopTime = Origin
  /\ ~r.userRingTime /\ ~r.userInterval
  /\ r.firstRingTime = b /\ r.ringStepCount > 0
  /\ Along(c, r.ringInterval) /\ Along(c, r.ringDuration)
  /\ Separated(c, r)
  /\ Since(c, b) >= 0
  /\ c.timeStep < 0 => \A t \in {b, b + r.ringInterval} : OnStep(c, t) = t

\* e is the last instant of r that step t has reached, or the first of all, and r rings and counts
\* the steps it rings as it should for e.
AtEvent(c, r, b, e, t) ==
  /\ OnInstant(e, b, r.ringInterval)
  /\ e # b => Since(c, e) <= Since(c, t)
  /\ r.ringInterval # 0 => Since(c, t) < Since(c, e + r.ringInterval)
  /\ r.ringing <=> InRing(c, r, e, t)
  /\ r.ringing => /\ r.ringBegin = OnStep(c, e)
                  /\ t = r.ringBegin + (r.ringingCount - 1) * c.timeStep
  /\ ~r.ringing => r.ringingCount = 0
  /\ RingSpan(c, r) = c.timeStep => (r.onCurrStep <=> r.ringing)

\* ringBegin is the step the alarm begins to ring at; unless it has never rung.
Begun(c, r, b, t) ==
  \/ r.ringBegin = OnStep(c, r.ringTime)
  \/ r.ringTime = b /\ r.ringBegin = Origin /\ Since(c, t) < Since(c, b)

\* The state of r after a step forward to t: the ring time is the instant to come.  (Before it has
\* rung, and without an interval, it is the first of all.)
ByNext(c, r, b, t) ==
  /\ AtEvent(c, r, b, IF r.ringTime = b THEN b ELSE r.ringTime - r.ringInterval, t)
  /\ IF r.ringInterval = 0 THEN r.ringTime = b ELSE Since(c, t) < Since(c, r.ringTime)
  /\ r.ringTime # b => /\ r.prevRingTime = r.ringTime - r.ringInterval
                       /\ Since(c, r.prevRingTime) <= Since(c, t)
  /\ r.ringTime = b => Begun(c, r, b, t)

\* The state of r after a step in reverse to t: the ring time is the instant e itself.
ByLast(c, r, b, t) ==
  /\ AtEvent(c, r, b, r.ringTime, t)
  /\ r.ringTime # b => r.prevRingTime = r.ringTime - r.ringInterval
  /\ Begun(c, r, b, t)

-----------------------------------------------------------------------------
(* Instants and their steps                                                 *)

LEMMA SinceInstant == ASSUME NEW c \in ClockState, c.timeStep # 0, NEW b \in Int, NEW i \in Int,
                             Along(c, i), NEW k \in Nat
                      PROVE  /\ k * i \in Int /\ k * Abs(i) \in Nat
                             /\ Since(c, b + k * i) = Since(c, b) + k * Abs(i)
<1>1. k * i \in Int /\ k * (-i) = -(k * i) /\ k * Abs(i) \in Nat
  BY AbsType
<1> QED
  BY <1>1, ClockAssumption DEF Abs, Since, ClockState, Along

LEMMA InstantIs == ASSUME NEW c \in ClockState, c.timeStep # 0, NEW b \in Int, NEW i \in Int,
                          Along(c, i), NEW e, OnInstant(e, b, i)
                   PROVE  /\ e \in Int /\ Since(c, e) >= Since(c, b)
                          /\ e # b => i # 0 /\ OnInstant(e - i, b, i)
<1>1. PICK k \in Nat : e = b + k * i
  BY DEF OnInstant
<1>2. /\ k * i \in Int /\ k * Abs(i) \in Nat
      /\ Since(c, e) = Since(c, b) + k * Abs(i)
  BY <1>1, SinceInstant
<1>3. e \in Int /\ Since(c, e) >= Since(c, b)
  BY <1>1, <1>2, SinceType
<1>4. ASSUME e # b PROVE i # 0 /\ OnInstant(e - i, b, i)
  <2>1. i # 0 /\ k # 0
    BY <1>1, <1>4
  <2>2. k - 1 \in Nat /\ e - i = b + (k - 1) * i
    BY <1>1, <2>1
  <2> QED
    BY <2>1, <2>2 DEF OnInstant
<1> QED
  BY <1>3, <1>4

\* Of two instants, the later is an interval later at least.
LEMMA InstantsApart == ASSUME NEW c \in ClockState, c.timeStep # 0, NEW b \in Int, NEW i \in Int,
                              Along(c, i), NEW e, OnInstant(e, b, i), NEW x, OnInstant(x, b, i),
                              Since(c, x) < Since(c, e)
                       PROVE  i # 0 /\ Since(c, x) + Abs(i) <= Since(c, e)
<1>1. PICK k \in Nat : x = b + k * i
  BY DEF OnInstant
<1>2. PICK m \in Nat : e = b + m * i
  BY DEF OnInstant
<1>3. Since(c, x) = Since(c, b) + k * Abs(i) /\ Since(c, e) = Since(c, b) + m * Abs(i)
  BY <1>1, <1>2, SinceInstant
<1>4. Since(c, b) \in Int /\ k * Abs(i) \in Nat /\ m * Abs(i) \in Nat
  BY SinceType, SinceInstant
<1>5. i # 0
  <2>1. i = 0 => k * i = 0 /\ m * i = 0
    OBVIOUS
  <2> QED
    BY <1>1, <1>2, <1>3, <1>4, <2>1
<1>6. Abs(i) \in Nat \ {0}
  BY <1>5, AbsType
<1>7. k < m
  BY <1>3, <1>4, <1>6, Scaled
<1>8. k * Abs(i) + Abs(i) <= m * Abs(i)
  BY <1>6, <1>7, Scaled
<1> QED
  BY <1>3, <1>4, <1>5, <1>6, <1>8

\* With negative time steps the instants of an alarm that rings as promised fall on steps.
LEMMA InstantOnStep == ASSUME NEW c \in ClockState, c.timeStep < 0, NEW r \in AlarmState, NEW b \in Int,
                              Plain(c, r, b), NEW e, OnInstant(e, b, r.ringInterval)
                       PROVE  OnStep(c, e) = e
<1> DEFINE i == r.ringInterval
<1>1. i \in Int /\ c.timeStep \in Int \ {0} /\ b + i \in Int /\ StartTime \in Int
  BY FieldType, ClockAssumption DEF ClockState
<1>2. OnStep(c, b) = b /\ OnStep(c, b + i) = b + i
  BY DEF Plain
<1>3. Grid(c, b) /\ Grid(c, b + i)
  BY <1>1, <1>2, OnStepIs
<1>4. PICK m \in Int : b = StartTime + m * c.timeStep
  BY <1>3 DEF Grid
<1>5. PICK n \in Int : b + i = StartTime + n * c.timeStep
  BY <1>3 DEF Grid
<1>6. PICK k \in Nat : e = b + k * i
  BY DEF OnInstant
<1> HIDE DEF i
<1>7. i = (n - m) * c.timeStep
  BY <1>1, <1>4, <1>5
<1>8. k * i = (k * (n - m)) * c.timeStep /\ k * (n - m) \in Int
  BY <1>1, <1>7
<1>9. Grid(c, e)
  BY <1>1, <1>3, <1>6, <1>8, GridSteps
<1> QED
  BY <1>1, <1>9, OnStepSame

\* ResetRingBegin computes the step an alarm begins to ring at.
LEMMA ResetIs == ASSUME NEW c \in ClockState, OneSign(c), NEW r \in AlarmState,
                        Since(c, r.ringTime) >= 0, c.timeStep < 0 => OnStep(c, r.ringTime) = r.ringTime
                 PROVE  ResetRingBegin(c, r) = [r EXCEPT !.ringBegin = OnStep(c, r.ringTime)]
<1> DEFINE x == r.ringTime - StartTime
           s == c.timeStep
           q == x \div s
<1>1. x \in Int /\ s \in Int \ {0} /\ r.ringTime \in Int /\ StartTime \in Int /\ Positive(c) = (s > 0)
  BY FieldType, ClockAssumption DEF ClockState, OneSign, Positive
<1>2. CASE s > 0
  <2>1. x >= 0
    BY <1>1, <1>2 DEF Since
  <2>2. s * (x \div s) \in Int /\ x % s \in Int /\ x = s * (x \div s) + (x % s) /\ x \div s \in Int
    <3> HIDE DEF x, s
    <3>1. x \div s \in Int /\ x % s \in 0..(s-1) /\ x = s * (x \div s) + (x % s)
      BY <1>1, <1>2, Division
    <3> QED
      BY <1>1, <3>1
  <2>3. x * s >= 0
    BY <1>1, <1>2, <2>1
  <2>4. Abs(x) = x /\ Abs(s) = s
    BY <1>1, <1>2, <2>1 DEF Abs
  <2>5. Quotient(x, s) = x \div s
    BY <2>3, <2>4 DEF Quotient
  <2>6. Remainder(x, s) = x - s * (x \div s)
    BY <2>5 DEF Remainder
  <2>7. Remainder(x, s) = x % s
    <3> HIDE DEF x, s
    <3> QED
      BY <1>1, <2>2, <2>6
  <2>8. OnStep(c, r.ringTime) = IF x % s = 0 THEN r.ringTime ELSE r.ringTime - (x % s) + s
    <3>1. x % s = 0 => r.ringTime - (x % s) = r.ringTime
      BY <1>1
    <3> QED
      BY <1>1, <1>2, <2>4, <3>1 DEF OnStep
  <2> QED
    BY <1>1, <1>2, <2>7, <2>8 DEF ResetRingBegin
<1>3. CASE s < 0
  <2>1. OnStep(c, r.ringTime) = r.ringTime
    BY <1>3
  <2>2. Grid(c, r.ringTime)
    BY <1>1, <2>1, OnStepIs
  <2>3. PICK m \in Int : r.ringTime = StartTime + m * c.timeStep
    BY <2>2 DEF Grid
  <2>4. x = m * s /\ x <= 0
    BY <1>1, <1>3, <2>3 DEF Since
  <2>5. x * s >= 0 /\ Abs(x) = m * (-s) /\ Abs(s) = -s /\ -s \in Nat \ {0}
    BY <1>1, <1>3, <2>4 DEF Abs
  <2> HIDE DEF x, s
  <2>6. (m * (-s)) \div (-s) = m
    <3> DEFINE u == -s
               y == m * u
    <3>1. u \in Nat \ {0} /\ y \in Int
      BY <2>5
    <3> HIDE DEF u
    <3>2. y = m * u
      OBVIOUS
    <3> HIDE DEF y
    <3> DEFINE d == y \div u
    <3>3. d \in Int /\ y = u * d + (y % u) /\ y % u \in 0..(u-1)
      BY <3>1, Division
    <3> DEFINE z == y % u
    <3>4. d \in Int /\ y = d * u + z /\ z \in 0..(u-1) /\ d * u \in Int
      BY <3>1, <3>3
    <3> HIDE DEF d, z
    <3>5. /\ d < m => d * u + u <= m * u
          /\ m < d => m * u + u <= d * u
      BY <3>1, <3>4, Scaled
    <3>6. d = m
      BY <3>1, <3>2, <3>4, <3>5
    <3> QED
      BY <3>6 DEF d, y, u
  <2>7. Quotient(x, s) = m
    BY <2>5, <2>6 DEF Quotient
  <2>8. Remainder(x, s) = 0
    BY <1>1, <2>4, <2>7 DEF Remainder
  <2> QED
    BY <2>1, <2>8 DEF ResetRingBegin, x, s
<1> QED
  BY <1>1, <1>2, <1>3

\* The steps since an alarm began to ring are counted by division.
LEMMA QuotientIs == ASSUME NEW m \in Nat, NEW s \in Int \ {0}
                    PROVE  Quotient(m * s, s) = m
<1> DEFINE u == Abs(s)
           y == m * u
<1>1. u \in Nat \ {0} /\ y \in Nat /\ m * s \in Int /\ (m * s) * s >= 0 /\ Abs(m * s) = y
  <2>1. m * s = y \/ m * s = -y
    BY DEF Abs
  <2>2. u \in Nat \ {0} /\ y \in Nat /\ m * s \in Int
    BY AbsType
  <2>3. (m * s) * s = m * (s * s) /\ s * s > 0
    OBVIOUS
  <2>4. (m * s) * s >= 0
    BY <2>3
  <2> QED
    BY <2>1, <2>2, <2>4 DEF Abs
<1>2. Quotient(m * s, s) = y \div u
  BY <1>1 DEF Quotient
<1> HIDE DEF u
<1>3. y = m * u
  OBVIOUS
<1> HIDE DEF y
<1> DEFINE d == y \div u
           z == y % u
<1>4. d \in Int /\ y = u * d + z /\ z \in 0..(u-1)
  BY <1>1, Division
<1> HIDE DEF d, z
<1>5. y = d * u + z /\ d * u \in Int /\ m * u \in Int
  BY <1>1, <1>4
<1>6. /\ d < m => d * u + u <= m * u
      /\ m < d => m * u + u <= d * u
  BY <1>1, <1>4, Scaled
<1>7. d = m
  BY <1>1, <1>3, <1>4, <1>5, <1>6
<1> QED
  BY <1>2, <1>7 DEF d

\* The end of a ring span.
LEMMA SinceSpan == ASSUME NEW c \in ClockState, c.timeStep # 0, NEW r \in AlarmState, r.ringStepCount > 0,
                          NEW e \in Int
                   PROVE  /\ OnStep(c, e) + RingSpan(c, r) \in Int
                          /\ Since(c, OnStep(c, e) + RingSpan(c, r)) = Begins(c, e) + Span(c, r)
<1>1. OnStep(c, e) \in Int
  BY OnStepIs
<1>2. PICK n \in Nat \ {0} : RingSpan(c, r) = n * c.timeStep /\ Span(c, r) = n * Size(c)
  BY SpanIs
<1>3. RingSpan(c, r) \in Int
  BY SpanIs
<1>4. Since(c, OnStep(c, e) + n * c.timeStep) = Since(c, OnStep(c, e)) + n * Size(c)
  <2>1. n \in Int
    OBVIOUS
  <2> QED
    BY <1>1, <2>1, SinceSteps
<1> QED
  BY <1>1, <1>2, <1>3, <1>4 DEF Begins

\* An alarm has fallen silent a step before its next instant begins.
LEMMA RingsApart == ASSUME NEW c \in ClockState, c.timeStep # 0, NEW r \in AlarmState, NEW b \in Int,
                           Plain(c, r, b), NEW x, OnInstant(x, b, r.ringInterval),
                           NEW e, OnInstant(e, b, r.ringInterval), Since(c, x) < Since(c, e)
                    PROVE  /\ r.ringInterval # 0
                           /\ Since(c, x) + Abs(r.ringInterval) <= Since(c, e)
                           /\ Begins(c, x) + Span(c, r) + Size(c) <= Begins(c, e)
<1>1. r.ringInterval \in Int /\ Along(c, r.ringInterval) /\ r.ringStepCount > 0
  BY FieldType DEF Plain
<1>2. x \in Int /\ e \in Int
  BY <1>1, InstantIs
<1>3. r.ringInterval # 0 /\ Since(c, x) + Abs(r.ringInterval) <= Since(c, e)
  BY <1>1, InstantsApart
<1>4. Span(c, r) + Size(c) <= Abs(r.ringInterval) /\ Abs(r.ringInterval) \in Int
  BY <1>1, <1>3, AbsType DEF Plain, Separated, Span, Size
<1>5. /\ OnStep(c, e) \in Int /\ Grid(c, OnStep(c, e)) /\ Begins(c, e) \in Int /\ Since(c, e) <= Begins(c, e)
      /\ OnStep(c, x) \in Int /\ Grid(c, OnStep(c, x)) /\ Begins(c, x) \in Int
      /\ Begins(c, x) < Since(c, x) + Size(c)
      /\ Since(c, x) \in Int /\ Since(c, e) \in Int /\ Size(c) \in Nat \ {0} /\ Span(c, r) \in Int
  BY <1>1, <1>2, OnStepIs, SinceType, SpanIs
<1>6. Begins(c, x) + Span(c, r) < Begins(c, e)
  BY <1>3, <1>4, <1>5
<1>7. Grid(c, OnStep(c, x) + RingSpan(c, r))
  <2>1. PICK n \in Nat \ {0} : RingSpan(c, r) = n * c.timeStep
    BY <1>1, SpanIs
  <2>2. n \in Int
    OBVIOUS
  <2> QED
    BY <1>5, <2>1, <2>2, GridSteps
<1>8. Since(c, OnStep(c, x) + RingSpan(c, r)) = Begins(c, x) + Span(c, r)
  BY <1>1, <1>2, SinceSpan
<1>9. Since(c, OnStep(c, x) + RingSpan(c, r)) + Size(c) <= Since(c, OnStep(c, e))
  BY <1>5, <1>6, <1>7, <1>8, GridApart DEF Begins
<1> QED
  BY <1>3, <1>8, <1>9 DEF Begins

\* The reference definition looks at every instant; only the last one that a step has reached, or
\* is about to, or the first of all, matters.
LEMMA ShouldRingIs ==
  ASSUME NEW a \in Alarm, clock \in ClockState, OneSign(clock), alarm[a] \in AlarmState,
         base[a] \in Int, Plain(clock, alarm[a], base[a]),
         NEW e, OnInstant(e, base[a], alarm[a].ringInterval), NEW t, Grid(clock, t),
         e # base[a] => Begins(clock, e) - Size(clock) <= Since(clock, t),
         alarm[a].ringInterval # 0 => Since(clock, t) < Since(clock, e + alarm[a].ringInterval)
  PROVE  ShouldRing(a, t) <=> InRing(clock, alarm[a], e, t)
<1> DEFINE c == clock
           r == alarm[a]
           b == base[a]
           i == r.ringInterval
<1>1. /\ i \in Int /\ Along(c, i) /\ r.ringStepCount > 0 /\ c.timeStep # 0
      /\ Abs(i) \in Nat /\ (i # 0 => Abs(i) > 0)
  BY FieldType, AbsType DEF Plain, OneSign
<1>2. t \in Int /\ e \in Int /\ b \in Int /\ Since(c, t) \in Int
  BY <1>1, GridSteps, InstantIs, SinceType
<1>3. \A x \in Int : InRing(c, r, x, t) <=>
        /\ Reached(c, t, OnStep(c, x))
        /\ ~Reached(c, t, OnStep(c, x) + RingSpan(c, r))
  <2> TAKE x \in Int
  <2>1. /\ OnStep(c, x) \in Int /\ OnStep(c, x) + RingSpan(c, r) \in Int
        /\ Since(c, OnStep(c, x) + RingSpan(c, r)) = Begins(c, x) + Span(c, r)
        /\ Begins(c, x) \in Int /\ Span(c, r) \in Int
    BY <1>1, OnStepIs, SinceSpan, SpanIs
  <2>2. Reached(c, t, OnStep(c, x)) <=> Since(c, t) >= Begins(c, x)
    BY <1>2, <2>1, SinceReached DEF Begins
  <2>3. Reached(c, t, OnStep(c, x) + RingSpan(c, r)) <=> Since(c, t) >= Begins(c, x) + Span(c, r)
    BY <1>2, <2>1, SinceReached
  <2> QED
    BY <1>2, <2>1, <2>2, <2>3 DEF InRing
<1>4. ShouldRing(a, t) <=> \E k \in 0..Abs(t - b) : InRing(c, r, b + k * i, t)
  <2>1. \A k \in 0..Abs(t - b) : b + k * i \in Int
    BY <1>1, <1>2, SinceInstant
  <2>2. ShouldRing(a, t) <=> \E k \in 0..Abs(t - b) :
            /\ Reached(c, t, OnStep(c, b + k * i))
            /\ ~Reached(c, t, OnStep(c, b + k * i) + RingSpan(c, r))
    BY DEF ShouldRing, Instants
  <2> QED
    BY <1>3, <2>1, <2>2
<1>5. \A k \in Nat : k * Abs(i) \in Nat /\ Since(c, b + k * i) = Since(c, b) + k * Abs(i)
  <2> HIDE DEF i, b
  <2> SUFFICES ASSUME NEW k \in Nat
               PROVE  k * Abs(i) \in Nat /\ Since(c, b + k * i) = Since(c, b) + k * Abs(i)
    OBVIOUS
  <2> QED
    <3>1. c \in ClockState /\ c.timeStep # 0 /\ b \in Int /\ i \in Int /\ Along(c, i)
      BY <1>1, <1>2
    <3> HIDE DEF c
    <3>2. Since(c, b + k * i) = Since(c, b) + k * Abs(i)
      BY <3>1, SinceInstant
    <3>3. k * Abs(i) \in Nat
      BY <3>1, SinceInstant
    <3> QED
      BY <3>2, <3>3
<1> HIDE DEF c, r, b, i
<1>6. ASSUME NEW k \in 0..Abs(t - b), InRing(c, r, b + k * i, t) PROVE InRing(c, r, e, t)
  <2> DEFINE x == b + k * i
  <2>1. k \in Nat /\ x \in Int /\ OnInstant(x, b, i)
    <3>1. k \in Nat
      BY <1>2, AbsType
    <3>2. k * i \in Int
      BY <1>1, <3>1, ProductType
    <3>3. x \in Int
      BY <1>2, <3>2
    <3> QED
      BY <3>1, <3>3 DEF OnInstant
  <2>2. /\ Since(c, x) \in Int /\ Since(c, e) \in Int /\ Begins(c, x) \in Int /\ Begins(c, e) \in Int
        /\ Since(c, x) <= Begins(c, x)
        /\ Size(c) \in Nat \ {0} /\ Span(c, r) \in Int
        /\ Since(c, t) < Begins(c, x) + Span(c, r) => Since(c, t) + Size(c) <= Begins(c, x) + Span(c, r)
    BY <1>1, <1>2, <2>1, BeginsIs, OnStepIs, SinceType DEF c, r
  <2> HIDE DEF x
  <2>3. Begins(c, x) <= Since(c, t) /\ Since(c, t) < Begins(c, x) + Span(c, r)
    BY <1>6 DEF InRing, x
  <2>4. CASE Since(c, x) < Since(c, e)
    <3>1. Begins(c, x) + Span(c, r) + Size(c) <= Begins(c, e)
      BY <1>1, <2>1, <2>4, RingsApart DEF c, r, b, i
    <3>2. e # b
      <4>1. Since(c, x) >= Since(c, b)
        BY <1>1, <1>2, <2>1, InstantIs DEF c
      <4> QED
        BY <1>2, <2>2, <2>4, <4>1
    <3>3. Begins(c, e) - Size(c) <= Since(c, t)
      BY <3>2 DEF c, b
    <3> QED
      BY <1>2, <2>2, <2>3, <3>1, <3>3
  <2>5. CASE Since(c, x) > Since(c, e)
    <3>1. i # 0 /\ Since(c, e) + Abs(i) <= Since(c, x)
      BY <1>1, <1>2, <2>1, <2>2, <2>5, InstantsApart DEF c, b, i, r
    <3>2. Since(c, t) < Since(c, e + i)
      BY <3>1 DEF c, i, r
    <3>3. Since(c, e + i) = Since(c, e) + Abs(i)
      BY <1>1, <1>2, SinceAlong DEF c
    <3> QED
      BY <1>1, <1>2, <2>2, <2>3, <3>1, <3>2, <3>3
  <2>6. CASE Since(c, x) = Since(c, e)
    <3>1. x = e
      BY <1>1, <1>2, <2>1, <2>6, SinceType DEF c
    <3> QED
      BY <1>6, <3>1 DEF x
  <2> QED
    BY <2>2, <2>4, <2>5, <2>6
<1>7. ASSUME InRing(c, r, e, t) PROVE \E k \in 0..Abs(t - b) : InRing(c, r, b + k * i, t)
  <2>1. PICK k \in Nat : e = b + k * i
    BY DEF OnInstant, b, i, r
  <2>2. CASE i = 0
    <3>1. 0 \in 0..Abs(t - b) /\ e = b + 0 * i
      BY <1>2, <2>1, <2>2, AbsType
    <3> QED
      BY <1>7, <3>1
  <2>3. CASE i # 0
    <3>1. Since(c, e) = Since(c, b) + k * Abs(i) /\ k * Abs(i) \in Nat /\ Since(c, b) \in Int
      <4>1. /\ k * Abs(i) \in Nat
            /\ Since(c, b + k * i) = Since(c, b) + k * Abs(i)
        BY <1>5
      <4>2. Since(c, b) \in Int
        BY <1>1, <1>2, SinceType DEF c
      <4> QED
        BY <2>1, <4>1, <4>2
    <3>2. k * Abs(i) >= k
      BY <1>1, <2>3, Far
    <3>3. Since(c, e) <= Since(c, t)
      BY <1>1, <1>2, <1>7, OnStepIs, SinceType DEF InRing, c
    <3>4. k <= Since(c, t) - Since(c, b)
      BY <1>2, <3>1, <3>2, <3>3
    <3>5. Abs(t - b) = Since(c, t) - Since(c, b) \/ Abs(t - b) = -(Since(c, t) - Since(c, b))
      BY <1>2, ClockAssumption DEF Abs, Since
    <3>6. Abs(t - b) \in Nat
      BY <1>2, AbsType
    <3>7. k \in 0..Abs(t - b)
      BY <1>2, <3>1, <3>4, <3>5, <3>6
    <3> QED
      BY <1>7, <2>1, <3>7
  <2> QED
    BY <2>2, <2>3
<1>8. ShouldRing(a, t) <=> InRing(c, r, e, t)
  BY <1>4, <1>6, <1>7
<1> QED
  BY <1>8 DEF c, r

\* The predicates depend on the clock by its own step only, and on what the checks leave of an
\* alarm.
Alike(p, r) == /\ Same(p, r)
               /\ p.firstRingTime = r.firstRingTime
               /\ p.ringDuration = r.ringDuration
               /\ p.ringStepCount = r.ringStepCount

LEMMA AlikeIs == ASSUME NEW c, NEW d, d.timeStep = c.timeStep, NEW p, NEW r, Alike(p, r)
                 PROVE  /\ RingSpan(d, p) = RingSpan(c, r)
                        /\ Span(d, p) = Span(c, r)
                        /\ \A e : OnStep(d, e) = OnStep(c, e) /\ Begins(d, e) = Begins(c, e)
                        /\ \A t : Since(d, t) = Since(c, t)
                        /\ \A t : Grid(d, t) <=> Grid(c, t)
                        /\ Size(d) = Size(c)
                        /\ \A e, t : InRing(d, p, e, t) <=> InRing(c, r, e, t)
<1>1. ByDuration(p) <=> ByDuration(r)
  BY DEF Alike, ByDuration
<1>2. RingSpan(d, p) = RingSpan(c, r)
  BY <1>1 DEF Alike, RingSpan
<1>3. /\ \A e : OnStep(d, e) = OnStep(c, e)
      /\ \A t : Since(d, t) = Since(c, t)
      /\ \A t : Grid(d, t) <=> Grid(c, t)
      /\ Size(d) = Size(c)
  BY DEF OnStep, Since, Grid, Size
<1> QED
  BY <1>2, <1>3 DEF Span, Begins, InRing

LEMMA PlainAlike == ASSUME NEW c, NEW d, d.timeStep = c.timeStep, NEW p, NEW r, Alike(p, r), NEW b,
                           Plain(c, r, b)
                    PROVE  Plain(d, p, b)
<1>1. RingSpan(d, p) = RingSpan(c, r) /\ Since(d, b) = Since(c, b) /\ \A e : OnStep(d, e) = OnStep(c, e)
  BY AlikeIs
<1>2. Along(d, p.ringInterval) /\ Along(d, p.ringDuration)
  BY DEF Plain, Along, Alike, Same
<1>3. Separated(d, p)
  BY <1>1 DEF Plain, Separated, Alike, Same
<1> QED
  BY <1>1, <1>2, <1>3 DEF Plain, Alike, Same

\* The alarms of two states that are in the same place of their rings.
Placed(p, r) == /\ p.ringTime = r.ringTime /\ p.prevRingTime = r.prevRingTime
                /\ p.ringing = r.ringing /\ p.ringingCount = r.ringingCount
                /\ p.ringBegin = r.ringBegin /\ p.onCurrStep = r.onCurrStep

LEMMA PlacedIs == ASSUME NEW c, NEW d, d.timeStep = c.timeStep, NEW p, NEW r, Alike(p, r), Placed(p, r),
                         NEW b, NEW t
                  PROVE  /\ \A e : AtEvent(d, p, b, e, t) <=> AtEvent(c, r, b, e, t)
                         /\ Begun(d, p, b, t) <=> Begun(c, r, b, t)
                         /\ ByNext(d, p, b, t) <=> ByNext(c, r, b, t)
                         /\ ByLast(d, p, b, t) <=> ByLast(c, r, b, t)
<1>1. /\ RingSpan(d, p) = RingSpan(c, r)
      /\ \A e : OnStep(d, e) = OnStep(c, e)
      /\ \A u : Since(d, u) = Since(c, u)
      /\ \A e : InRing(d, p, e, t) <=> InRing(c, r, e, t)
  BY AlikeIs
<1>2. p.ringInterval = r.ringInterval
  BY DEF Alike, Same
<1>3. \A e : AtEvent(d, p, b, e, t) <=> AtEvent(c, r, b, e, t)
  BY <1>1, <1>2 DEF AtEvent, Placed
<1>4. Begun(d, p, b, t) <=> Begun(c, r, b, t)
  BY <1>1 DEF Begun, Placed
<1> QED
  BY <1>1, <1>2, <1>3, <1>4 DEF ByNext, ByLast, Placed

-----------------------------------------------------------------------------
(* A step forward                                                           *)

\* What an alarm q that rings as promised, and that the check of a step forward has brought up to
\* the clock's previous time, becomes in that check: k.
Stands(q, k) == /\ k.ringTime = q.ringTime /\ k.prevRingTime = q.prevRingTime
                /\ k.ringBegin = q.ringBegin
                /\ ~k.onCurrStep

TurnsOn(c, q, k) == /\ Crossed(c, q)
                    /\ k.ringing /\ k.onCurrStep
                    /\ k.ringBegin = c.currTime
                    /\ k.prevRingTime = q.ringTime
                    /\ k.ringTime = q.ringTime + q.ringInterval
                    /\ k.ringingCount = q.ringingCount + 1

TurnsOff(c, q, k) == /\ ~Crossed(c, q) /\ q.ringing /\ RungOut(c, q)
                     /\ ~k.ringing /\ k.ringingCount = 0
                     /\ Stands(q, k)

RingsOn(c, q, k) == /\ ~Crossed(c, q) /\ q.ringing /\ ~RungOut(c, q)
                    /\ k.ringing /\ k.ringingCount = q.ringingCount + 1
                    /\ Stands(q, k)

StaysOff(c, q, k) == /\ ~Crossed(c, q) /\ ~q.ringing
                     /\ ~k.ringing /\ k.ringingCount = q.ringingCount
                     /\ Stands(q, k)

\* What it keeps.
Leaves(k, q) == k \in AlarmState /\ Alike(k, q) /\ k.endless = q.endless /\ k.onPrevStep = q.onPrevStep

LEMMA CheckOnPlain == ASSUME NEW c \in ClockState, NEW q \in AlarmState, q.stopTime = Origin
                      PROVE  LET p == CheckTurnOn(c, q) IN
                             /\ Leaves(p, q)
                             /\ Crossed(c, q) =>
                                  /\ p.ringing /\ p.onCurrStep /\ p.ringBegin = c.currTime
                                  /\ p.prevRingTime = q.ringTime
                                  /\ p.ringTime = q.ringTime + q.ringInterval
                                  /\ p.ringingCount = q.ringingCount
                             /\ ~Crossed(c, q) =>
                                  /\ Stands(q, p)
                                  /\ p.ringing = q.ringing /\ p.ringingCount = q.ringingCount
<1> DEFINE on    == [q EXCEPT !.ringing = TRUE, !.onCurrStep = TRUE, !.ringBegin = c.currTime]
           moved == [on EXCEPT !.prevRingTime = q.ringTime, !.ringTime = q.ringTime + q.ringInterval]
           quiet == [q EXCEPT !.onCurrStep = FALSE]
<1>1. on \in AlarmState
  <2>1. c.currTime \in Int
    BY DEF ClockState
  <2> QED
    BY <2>1, Field, Zenon
<1>2. /\ Leaves(on, q) /\ on.ringing /\ on.onCurrStep /\ on.ringBegin = c.currTime
      /\ on.ringTime = q.ringTime /\ on.ringInterval = q.ringInterval
      /\ on.ringingCount = q.ringingCount
  BY <1>1 DEF Leaves, Alike, Same, AlarmState
<1>3. CheckTurnOn(c, q) = IF Crossed(c, q) THEN moved ELSE quiet
  <2>1. [on EXCEPT !.prevRingTime = q.ringTime, !.ringTime = @ + q.ringInterval] = moved
    BY <1>2, <1>1 DEF AlarmState
  <2> QED
    BY <2>1 DEF CheckTurnOn, AtLimit
<1> HIDE DEF on
<1>4. moved \in AlarmState
  <2>1. q.ringTime \in Int /\ q.ringTime + q.ringInterval \in Int
    BY FieldType
  <2> QED
    BY <1>1, <2>1, Field, Zenon
<1>5. /\ Leaves(moved, on) /\ moved.ringing = on.ringing /\ moved.onCurrStep = on.onCurrStep
      /\ moved.ringBegin = on.ringBegin
      /\ moved.prevRingTime = q.ringTime
      /\ moved.ringTime = q.ringTime + q.ringInterval
      /\ moved.ringingCount = on.ringingCount
  BY <1>1, <1>4 DEF Leaves, Alike, Same, AlarmState
<1> HIDE DEF moved
<1>6. Leaves(moved, q)
  BY <1>2, <1>5 DEF Leaves, Alike, Same
<1>7. /\ Leaves(quiet, q) /\ Stands(q, quiet)
      /\ quiet.ringing = q.ringing /\ quiet.ringingCount = q.ringingCount
  BY DEF Leaves, Stands, Alike, Same, AlarmState
<1> HIDE DEF quiet
<1> QED
  BY <1>2, <1>3, <1>5, <1>6, <1>7

LEMMA TurnedPlain ==
  ASSUME NEW c \in ClockState, NEW q \in AlarmState, q.enabled, ~q.sticky, q.stopTime = Origin
  PROVE  LET p == TurnOnOrOff(c, q)
             k == IF p.ringing THEN [p EXCEPT !.ringingCount = @ + 1] ELSE p
         IN  /\ Leaves(k, q)
             /\ TurnsOn(c, q, k) \/ TurnsOff(c, q, k) \/ RingsOn(c, q, k) \/ StaysOff(c, q, k)
<1> DEFINE p == TurnOnOrOff(c, q)
           k == IF p.ringing THEN [p EXCEPT !.ringingCount = @ + 1] ELSE p
           o == CheckTurnOn(c, q)
           off == Silenced(q)
<1>1. p = IF q.ringing /\ ~Crossed(c, q) /\ RungOut(c, q) THEN off ELSE o
  BY DEF TurnOnOrOff
<1>2. off \in AlarmState
  BY SilencedType
<1>3. /\ Leaves(off, q) /\ Stands(q, off)
      /\ ~off.ringing /\ off.ringingCount = 0
  BY <1>2 DEF Silenced, Leaves, Stands, Alike, Same, AlarmState
<1>4. /\ Leaves(o, q)
      /\ Crossed(c, q) =>
           /\ o.ringing /\ o.onCurrStep /\ o.ringBegin = c.currTime
           /\ o.prevRingTime = q.ringTime
           /\ o.ringTime = q.ringTime + q.ringInterval
           /\ o.ringingCount = q.ringingCount
      /\ ~Crossed(c, q) =>
           /\ Stands(q, o)
           /\ o.ringing = q.ringing /\ o.ringingCount = q.ringingCount
  BY CheckOnPlain
<1>5. p \in AlarmState
  BY <1>1, <1>2, <1>4 DEF Leaves
<1> HIDE DEF p, o, off
<1>6. /\ Leaves(k, p) /\ k.ringing = p.ringing /\ k.onCurrStep = p.onCurrStep
      /\ k.ringBegin = p.ringBegin /\ k.ringTime = p.ringTime /\ k.prevRingTime = p.prevRingTime
      /\ k.ringingCount = IF p.ringing THEN p.ringingCount + 1 ELSE p.ringingCount
  BY <1>5 DEF Leaves, Alike, Same, AlarmState
<1> HIDE DEF k
<1>7. q.ringing \in BOOLEAN
  BY FieldType
<1>8. CASE Crossed(c, q)
  <2>1. Leaves(k, q)
    BY <1>1, <1>4, <1>6, <1>8 DEF Leaves, Alike, Same
  <2>2. TurnsOn(c, q, k)
    BY <1>1, <1>4, <1>6, <1>8 DEF TurnsOn
  <2> QED
    BY <2>1, <2>2 DEF k, p
<1>9. CASE ~Crossed(c, q) /\ q.ringing /\ RungOut(c, q)
  <2>1. Leaves(k, q)
    BY <1>1, <1>3, <1>6, <1>9 DEF Leaves, Alike, Same
  <2>2. TurnsOff(c, q, k)
    BY <1>1, <1>3, <1>6, <1>9 DEF TurnsOff, Stands
  <2> QED
    BY <2>1, <2>2 DEF k, p
<1>10. CASE ~Crossed(c, q) /\ ~(q.ringing /\ RungOut(c, q))
  <2>1. Leaves(k, q)
    BY <1>1, <1>4, <1>6, <1>10 DEF Leaves, Alike, Same
  <2>2. RingsOn(c, q, k) \/ StaysOff(c, q, k)
    BY <1>1, <1>4, <1>6, <1>7, <1>10 DEF RingsOn, StaysOff, Stands
  <2> QED
    BY <2>1, <2>2 DEF k, p
<1> QED
  BY <1>8, <1>9, <1>10

LEMMA OriginFirst == StartTime \in Int /\ Origin \in Int /\ StartTime > Origin
<1>1. 0 \in (MinElapsed..MaxElapsed) \cup {0} /\ StartTime \in Int /\ Origin \in Int
  BY ClockAssumption
<1>2. StartTime + 0 > Origin
  BY <1>1, OriginAssumption
<1> QED
  BY <1>1, <1>2

\* The step an alarm begins to ring at is not taken for a Time never set, if a clock that steps
\* down has reached it.
LEMMA BeginsSet == ASSUME NEW c \in ClockState, c.timeStep # 0, NEW e \in Int, Since(c, e) >= 0,
                          NEW t \in Int, t > Origin, Begins(c, e) <= Since(c, t) \/ c.timeStep > 0
                   PROVE  OnStep(c, e) \in Int /\ OnStep(c, e) # Origin
<1>1. /\ OnStep(c, e) \in Int /\ Begins(c, e) \in Int /\ Since(c, e) <= Begins(c, e)
      /\ Since(c, e) \in Int
  BY OnStepIs, SinceType
<1>2. StartTime \in Int /\ Origin \in Int /\ StartTime > Origin /\ c.timeStep \in Int
  BY OriginFirst DEF ClockState
<1> QED
  BY <1>1, <1>2 DEF Begins, Since

\* After a step forward from t an alarm's state is by its next instant again.
LEMMA NextToNext ==
  ASSUME NEW c \in ClockState, OneSign(c), c.currTime > Origin,
         NEW q \in AlarmState, NEW b \in Int, Plain(c, q, b),
         NEW t, Grid(c, t), c.currTime = t + c.timeStep, ByNext(c, q, b, t),
         Crossed(c, q) <=> /\ Since(c, q.ringTime) <= Since(c, c.currTime)
                           /\ Since(c, t) < Since(c, q.ringTime),
         NEW k, Leaves(k, q),
         TurnsOn(c, q, k) \/ TurnsOff(c, q, k) \/ RingsOn(c, q, k) \/ StaysOff(c, q, k)
  PROVE  ByNext(c, k, b, c.currTime)
<1> DEFINE u  == c.currTime
           rt == q.ringTime
           i  == q.ringInterval
           e  == IF rt = b THEN b ELSE rt - i
           S  == Size(c)
           D  == Span(c, q)
<1>1. /\ c.timeStep \in Int /\ c.timeStep # 0 /\ q.ringStepCount > 0 /\ Along(c, i)
      /\ rt \in Int /\ i \in Int /\ Abs(i) \in Nat /\ (i # 0 => Abs(i) > 0)
      /\ q.ringingCount \in Int /\ q.ringing \in BOOLEAN
  BY FieldType, AbsType DEF ClockState, OneSign, Plain
<1>2. AtEvent(c, q, b, e, t) /\ OnInstant(e, b, i)
  BY DEF ByNext, AtEvent
<1>3. e \in Int /\ Since(c, e) >= Since(c, b) /\ Since(c, b) >= 0 /\ Since(c, b) \in Int
  BY <1>1, <1>2, InstantIs, SinceType DEF Plain
<1>4. OnInstant(rt, b, i) /\ Since(c, rt) >= Since(c, b) /\ (rt # b => i # 0)
  <2>1. OnInstant(rt, b, i)
    <3>1. CASE rt = b
      BY <1>1, <3>1, Instants0
    <3>2. CASE rt # b
      <4>1. e + i = rt
        BY <1>1, <3>2
      <4> HIDE DEF e, rt, i
      <4> QED
        BY <1>1, <1>2, <1>3, <4>1, OnAgain
    <3> QED
      BY <3>1, <3>2
  <2> QED
    BY <1>1, <2>1, InstantIs
<1>5. Grid(c, u)
  BY GridNext
<1>6. /\ t \in Int /\ u \in Int /\ Since(c, t) \in Int /\ Since(c, u) = Since(c, t) + S
      /\ S \in Nat \ {0}
  BY <1>1, <1>5, GridNext, SinceStep, SinceType
<1>7. \A x \in {e, rt} :
        /\ Since(c, x) \in Int /\ Begins(c, x) \in Int
        /\ Since(c, x) <= Begins(c, x) /\ Begins(c, x) < Since(c, x) + S
        /\ \A y \in {t, u} :
             /\ Since(c, y) < Begins(c, x) => Since(c, y) + S <= Begins(c, x)
             /\ Since(c, y) < Begins(c, x) + D => Since(c, y) + S <= Begins(c, x) + D
  BY <1>1, <1>3, <1>5, BeginsIs
<1>8. D \in Int /\ D >= S
  BY <1>1, SpanIs
<1>9. i # 0 => D + S <= Abs(i)
  BY DEF Plain, Separated, Span, Size
<1>10. Since(c, rt + i) = Since(c, rt) + Abs(i) /\ Since(c, e + i) = Since(c, e) + Abs(i)
  BY <1>1, <1>3, SinceAlong
<1>11. rt # b => Since(c, rt) = Since(c, e) + Abs(i) /\ Begins(c, e) + D + S <= Begins(c, rt)
  <2>1. rt # b => e + i = rt
    BY <1>1
  <2>2. rt # b => Since(c, e) < Since(c, rt)
    BY <1>1, <1>4, <1>7, <1>10, <2>1
  <2> QED
    BY <1>1, <1>2, <1>4, <1>10, <2>1, <2>2, RingsApart
<1>12. /\ k.ringInterval = i /\ RingSpan(c, k) = RingSpan(c, q)
       /\ \A x, y : InRing(c, k, x, y) <=> InRing(c, q, x, y)
  BY AlikeIs DEF Leaves, Alike, Same
<1>13. IF i = 0 THEN rt = b ELSE Since(c, t) < Since(c, rt)
  BY DEF ByNext
<1>14. /\ e # b => Since(c, e) <= Since(c, t)
       /\ rt # b => Since(c, e) <= Since(c, t)
       /\ q.ringing <=> InRing(c, q, e, t)
       /\ q.ringing => /\ q.ringBegin = OnStep(c, e)
                       /\ t = q.ringBegin + (q.ringingCount - 1) * c.timeStep
       /\ ~q.ringing => q.ringingCount = 0
  BY <1>2 DEF AtEvent, ByNext
<1>15. \A x, y : InRing(c, q, x, y) <=> Begins(c, x) <= Since(c, y) /\ Since(c, y) < Begins(c, x) + D
  BY DEF InRing
<1>16. Crossed(c, q) <=> Since(c, rt) <= Since(c, u) /\ Since(c, t) < Since(c, rt)
  OBVIOUS
<1> HIDE DEF u, rt, i, S, D
<1>17. rt = b => e = b
  OBVIOUS
<1> HIDE DEF e
\* An alarm that rings is not due before it falls silent.
<1>18. q.ringing => ~Crossed(c, q)
  <2>1. CASE rt = b
    BY <1>6, <1>7, <1>14, <1>15, <1>16, <1>17, <2>1
  <2>2. CASE rt # b
    BY <1>6, <1>7, <1>8, <1>11, <1>14, <1>15, <1>16, <2>2
  <2> QED
    BY <2>1, <2>2
<1>19. q.ringing => /\ u = q.ringBegin + q.ringingCount * c.timeStep
                    /\ (RungOut(c, q) <=> Since(c, u) >= Begins(c, e) + D)
  <2> SUFFICES ASSUME q.ringing
               PROVE  /\ u = q.ringBegin + q.ringingCount * c.timeStep
                      /\ (RungOut(c, q) <=> Since(c, u) >= Begins(c, e) + D)
    OBVIOUS
  <2>1. OnStep(c, e) \in Int
    BY <1>1, <1>3, OnStepIs
  <2>2. (q.ringingCount - 1) * c.timeStep = q.ringingCount * c.timeStep - c.timeStep
        /\ q.ringingCount * c.timeStep \in Int
    BY <1>1
  <2>3. u = q.ringBegin + q.ringingCount * c.timeStep
    BY <1>1, <1>6, <1>14, <2>1, <2>2 DEF u
  <2>4. Since(c, u) >= Begins(c, e)
    BY <1>6, <1>7, <1>14, <1>15
  <2>5. OnStep(c, e) # Origin
    <3>1. Since(c, e) >= 0
      BY <1>3, <1>7
    <3> QED
      BY <1>1, <1>3, <1>6, <1>7, <2>4, <3>1, BeginsSet DEF u
  <2> QED
    BY <1>1, <1>3, <1>14, <2>3, <2>4, <2>5, RungOutIs DEF u, D
<1>20. CASE TurnsOn(c, q, k)
  <2>1. /\ k.ringing /\ k.onCurrStep /\ k.ringBegin = u /\ k.prevRingTime = rt
        /\ k.ringTime = rt + i /\ k.ringingCount = q.ringingCount + 1 /\ Crossed(c, q)
    BY <1>20 DEF TurnsOn, u, rt, i
  <2>2. q.ringingCount = 0
    BY <1>14, <1>18, <2>1
  <2>3. Since(c, rt) <= Since(c, u) /\ Since(c, t) < Since(c, rt)
    BY <1>16, <2>1
  <2>4. Begins(c, rt) = Since(c, u)
    BY <1>6, <1>7, <2>3
  <2>5. u = OnStep(c, rt)
    BY <1>1, <1>6, <2>4, OnStepIs, SinceType DEF Begins, rt
  <2>6. InRing(c, q, rt, u)
    BY <1>6, <1>8, <1>15, <2>4
  <2>7. i # 0 => Since(c, u) < Since(c, rt + i)
    BY <1>1, <1>6, <1>7, <1>8, <1>9, <1>10, <2>3
  <2>8. u = u + ((q.ringingCount + 1) - 1) * c.timeStep
    BY <1>1, <1>6, <2>2
  <2>9. AtEvent(c, k, b, rt, u)
    <3>1. RingSpan(c, k) = c.timeStep => (k.onCurrStep <=> k.ringing)
      BY <2>1
    <3>2. k.ringing => k.ringBegin = OnStep(c, rt) /\ u = k.ringBegin + (k.ringingCount - 1) * c.timeStep
      BY <2>1, <2>5, <2>8
    <3> QED
      BY <1>4, <1>12, <2>1, <2>3, <2>6, <2>7, <3>1, <3>2 DEF AtEvent
  <2>10. rt + i = b => rt = b /\ i = 0
    BY <1>1, <1>3, <1>4, <1>7, <1>10, <1>13
  <2>11. rt = IF k.ringTime = b THEN b ELSE k.ringTime - k.ringInterval
    BY <1>1, <1>12, <2>1, <2>10
  <2>12. IF k.ringInterval = 0 THEN k.ringTime = b ELSE Since(c, u) < Since(c, k.ringTime)
    BY <1>1, <1>12, <1>13, <2>1, <2>7
  <2>13. k.ringTime = b => Begun(c, k, b, u)
    BY <2>1, <2>5, <2>10 DEF Begun
  <2>14. k.ringTime # b => /\ k.prevRingTime = k.ringTime - k.ringInterval
                           /\ Since(c, k.prevRingTime) <= Since(c, u)
    BY <1>12, <2>1, <2>3, <2>11
  <2>15. ByNext(c, k, b, u)
    BY <2>9, <2>11, <2>12, <2>13, <2>14 DEF ByNext
  <2> QED
    BY <2>15 DEF u
\* In all other cases the ring time stays.
<1>21. ASSUME ~Crossed(c, q), Stands(q, k), k.ringing <=> InRing(c, k, e, u),
              ~k.ringing => k.ringingCount = 0,
              k.ringing => q.ringing /\ k.ringingCount = q.ringingCount + 1,
              RingSpan(c, k) = c.timeStep => ~k.ringing
       PROVE  ByNext(c, k, b, u)
  <2>1. /\ k.ringTime = rt /\ k.prevRingTime = q.prevRingTime /\ k.ringBegin = q.ringBegin
        /\ ~k.onCurrStep
    BY <1>21 DEF Stands, rt
  <2>2. i # 0 => Since(c, u) < Since(c, rt)
    BY <1>6, <1>7, <1>13, <1>16, <1>21
  <2>3. i # 0 => Since(c, u) < Since(c, e + i)
    <3>1. CASE rt = b
      BY <1>1, <1>6, <1>7, <1>10, <1>17, <2>2, <3>1
    <3>2. CASE rt # b
      BY <1>10, <1>11, <2>2, <3>2
    <3> QED
      BY <3>1, <3>2
  <2>4. e # b => Since(c, e) <= Since(c, u)
    BY <1>6, <1>7, <1>14
  <2>5. k.ringing => /\ k.ringBegin = OnStep(c, e)
                     /\ u = k.ringBegin + (k.ringingCount - 1) * c.timeStep
    <3> SUFFICES ASSUME k.ringing
                 PROVE  /\ k.ringBegin = OnStep(c, e)
                        /\ u = k.ringBegin + (k.ringingCount - 1) * c.timeStep
      OBVIOUS
    <3>1. k.ringingCount - 1 = q.ringingCount
      BY <1>1, <1>21
    <3> QED
      BY <1>14, <1>19, <1>21, <2>1, <3>1
  <2>6. RingSpan(c, k) = c.timeStep => (k.onCurrStep <=> k.ringing)
    BY <1>21, <2>1
  <2>7. AtEvent(c, k, b, e, u)
    BY <1>2, <1>12, <1>21, <2>3, <2>4, <2>5, <2>6 DEF AtEvent
  <2>8. e = IF k.ringTime = b THEN b ELSE k.ringTime - k.ringInterval
    BY <1>12, <2>1 DEF e
  <2>9. k.ringTime # b => /\ k.prevRingTime = k.ringTime - k.ringInterval
                          /\ Since(c, k.prevRingTime) <= Since(c, u)
    <3>1. rt # b => q.prevRingTime = rt - i
      BY DEF ByNext, rt, i
    <3>2. rt # b => rt - i = e
      BY DEF e
    <3> QED
      BY <1>6, <1>7, <1>12, <1>14, <2>1, <3>1, <3>2
  <2>10. k.ringTime = b => Begun(c, k, b, u)
    <3> SUFFICES ASSUME k.ringTime = b PROVE Begun(c, k, b, u)
      OBVIOUS
    <3>1. Begun(c, q, b, t)
      BY <2>1 DEF ByNext, rt
    <3>2. CASE q.ringBegin = OnStep(c, rt)
      BY <2>1, <3>2 DEF Begun
    <3>3. CASE q.ringBegin = Origin /\ Since(c, t) < Since(c, b)
      <4>1. Since(c, u) < Since(c, b)
        BY <1>3, <1>6, <1>16, <1>21, <2>1, <3>3
      <4> QED
        BY <2>1, <3>3, <4>1 DEF Begun
    <3> QED
      BY <3>1, <3>2, <3>3 DEF Begun, rt
  <2>11. IF k.ringInterval = 0 THEN k.ringTime = b ELSE Since(c, u) < Since(c, k.ringTime)
    BY <1>12, <1>13, <2>1, <2>2
  <2> QED
    BY <2>7, <2>8, <2>9, <2>10, <2>11 DEF ByNext
\* An alarm that rings for one step does not ring at two steps in a row.
<1>22. RingSpan(c, q) = c.timeStep => D = S
  BY DEF D, S, Span, Size
<1>23. CASE TurnsOff(c, q, k)
  <2>1. ~InRing(c, q, e, u)
    BY <1>6, <1>7, <1>8, <1>15, <1>19, <1>23 DEF TurnsOff
  <2>2. ByNext(c, k, b, u)
    BY <1>12, <1>21, <1>23, <2>1 DEF TurnsOff
  <2> QED
    BY <2>2 DEF u
<1>24. CASE RingsOn(c, q, k)
  <2>1. q.ringing /\ ~RungOut(c, q) /\ k.ringing /\ k.ringingCount = q.ringingCount + 1
    BY <1>24 DEF RingsOn
  <2>2. InRing(c, q, e, u)
    BY <1>6, <1>7, <1>8, <1>14, <1>15, <1>19, <2>1
  <2>3. RingSpan(c, q) # c.timeStep
    BY <1>6, <1>7, <1>8, <1>14, <1>15, <1>22, <2>1, <2>2
  <2>4. ByNext(c, k, b, u)
    BY <1>12, <1>21, <1>24, <2>1, <2>2, <2>3 DEF RingsOn
  <2> QED
    BY <2>4 DEF u
<1>25. CASE StaysOff(c, q, k)
  <2>1. ~q.ringing /\ ~Crossed(c, q) /\ ~k.ringing /\ k.ringingCount = 0
    BY <1>14, <1>25 DEF StaysOff
  <2>2. ~InRing(c, q, e, u)
    <3>1. CASE rt = b
      BY <1>6, <1>7, <1>8, <1>14, <1>15, <1>16, <1>17, <2>1, <3>1
    <3>2. CASE rt # b
      BY <1>6, <1>7, <1>8, <1>14, <1>15, <2>1, <3>2
    <3> QED
      BY <3>1, <3>2
  <2>3. ByNext(c, k, b, u)
    BY <1>12, <1>21, <1>25, <2>1, <2>2 DEF StaysOff
  <2> QED
    BY <2>3 DEF u
<1> QED
  BY <1>20, <1>23, <1>24, <1>25

-----------------------------------------------------------------------------
(* A step in reverse                                                        *)

LEMMA StepBackIs == ASSUME NEW r \in AlarmState
                    PROVE  LET k == StepBack(r) IN
                           /\ Leaves(k, r)
                           /\ k.ringTime = r.prevRingTime
                           /\ k.prevRingTime = r.prevRingTime - r.ringInterval
                           /\ k.ringing = r.ringing /\ k.ringingCount = r.ringingCount
                           /\ k.ringBegin = r.ringBegin /\ k.onCurrStep = r.onCurrStep
<1> DEFINE k == StepBack(r)
<1>1. k \in AlarmState
  BY StepBackType
<1>2. k = [r EXCEPT !.ringTime = r.prevRingTime, !.prevRingTime = r.prevRingTime - r.ringInterval]
  BY DEF StepBack, AlarmState
<1> QED
  BY <1>1, <1>2 DEF Leaves, Alike, Same, AlarmState

\* The instant before that of an alarm that is placed by its next one or by its last one.
LEMMA ResetLeaves == ASSUME NEW c \in ClockState, OneSign(c), NEW r \in AlarmState,
                            Since(c, r.ringTime) >= 0, c.timeStep < 0 => OnStep(c, r.ringTime) = r.ringTime
                     PROVE  LET k == ResetRingBegin(c, r) IN
                            /\ Leaves(k, r)
                            /\ k.ringBegin = OnStep(c, r.ringTime)
                            /\ k.ringTime = r.ringTime /\ k.prevRingTime = r.prevRingTime
                            /\ k.ringing = r.ringing /\ k.ringingCount = r.ringingCount
                            /\ k.onCurrStep = r.onCurrStep
<1> DEFINE k == ResetRingBegin(c, r)
           x == OnStep(c, r.ringTime)
<1>1. k = [r EXCEPT !.ringBegin = x]
  BY ResetIs
<1>2. k \in AlarmState
  BY ResetType DEF OneSign
<1> HIDE DEF k, x
<1>3. /\ Leaves(k, r) /\ k.ringBegin = x
      /\ k.ringTime = r.ringTime /\ k.prevRingTime = r.prevRingTime
      /\ k.ringing = r.ringing /\ k.ringingCount = r.ringingCount
      /\ k.onCurrStep = r.onCurrStep
  BY <1>1, <1>2 DEF Leaves, Alike, Same, AlarmState
<1> QED
  BY <1>3 DEF k, x

\* An instant of a plain alarm, as ringBegin is computed from it.
LEMMA InstantResets == ASSUME NEW c \in ClockState, OneSign(c), NEW r \in AlarmState, NEW b \in Int,
                              Plain(c, r, b), NEW e, OnInstant(e, b, r.ringInterval)
                       PROVE  /\ e \in Int /\ Since(c, e) \in Int /\ Since(c, e) >= 0
                              /\ c.timeStep < 0 => OnStep(c, e) = e
<1>1. r.ringInterval \in Int /\ Along(c, r.ringInterval) /\ c.timeStep # 0
  BY FieldType DEF Plain, OneSign
<1>2. e \in Int /\ Since(c, e) >= Since(c, b)
  BY <1>1, InstantIs
<1>3. Since(c, e) \in Int /\ Since(c, b) \in Int /\ Since(c, b) >= 0
  BY <1>1, <1>2, SinceType DEF Plain
<1> QED
  BY <1>2, <1>3, InstantOnStep

\* When the clock has been turned, an alarm whose ring time is the instant to come steps back.
LEMMA PullBackIs ==
  ASSUME NEW c \in ClockState, OneSign(c), NEW r \in AlarmState, NEW b \in Int, Plain(c, r, b),
         NEW t \in Int, t = c.currTime + c.timeStep,
         ByLast(c, r, b, t) \/ (c.userDirection /\ ByNext(c, r, b, t))
  PROVE  Leaves(PullBack(c, r), r) /\ ByLast(c, PullBack(c, r), b, t)
<1> DEFINE pulls == /\ c.userDirection
                    /\ Beyond(c, r.ringTime, t)
                    /\ r.ringTime # b
           s == StepBack(r)
           k == ResetRingBegin(c, s)
<1>1. PullBack(c, r) = IF pulls THEN k ELSE r
  BY DEF PullBack, Plain
<1>2. Leaves(r, r)
  BY DEF Leaves, Alike, Same
<1>3. /\ r.ringTime \in Int /\ c.timeStep # 0 /\ r.ringInterval \in Int
      /\ Since(c, t) \in Int /\ Since(c, r.ringTime) \in Int
      /\ Beyond(c, r.ringTime, t) <=> Since(c, r.ringTime) > Since(c, t)
  BY FieldType, SinceType, SinceReached DEF OneSign
<1>4. CASE ~pulls
  <2>1. ASSUME c.userDirection, ByNext(c, r, b, t) PROVE ByLast(c, r, b, t)
    <3>1. r.ringTime = b
      <4>1. r.ringInterval # 0 => Beyond(c, r.ringTime, t)
        BY <1>3, <2>1 DEF ByNext
      <4>2. r.ringInterval = 0 => r.ringTime = b
        BY <2>1 DEF ByNext
      <4> QED
        BY <1>4, <2>1, <4>1, <4>2
    <3> QED
      BY <2>1, <3>1 DEF ByNext, ByLast
  <2> QED
    BY <1>1, <1>2, <1>4, <2>1
<1>5. CASE pulls
  <2>1. ByNext(c, r, b, t)
    BY <1>3, <1>5 DEF ByLast, AtEvent
  <2> DEFINE e == r.ringTime - r.ringInterval
  <2>2. r.ringTime # b
    BY <1>5
  <2>3. AtEvent(c, r, b, e, t) /\ r.prevRingTime = e
    BY <2>1, <2>2 DEF ByNext
  <2>4. OnInstant(e, b, r.ringInterval)
    BY <2>3 DEF AtEvent
  <2>5. /\ e \in Int /\ Since(c, e) >= 0
        /\ c.timeStep < 0 => OnStep(c, e) = e
    BY <2>4, InstantResets
  <2> HIDE DEF e
  <2>6. /\ Leaves(s, r) /\ s.ringTime = e /\ s.prevRingTime = e - r.ringInterval
        /\ s.ringing = r.ringing /\ s.ringingCount = r.ringingCount
        /\ s.ringBegin = r.ringBegin /\ s.onCurrStep = r.onCurrStep
    BY <2>3, StepBackIs
  <2>7. s \in AlarmState
    BY <2>6 DEF Leaves
  <2> HIDE DEF s
  <2>8. /\ Leaves(k, s) /\ k.ringBegin = OnStep(c, e)
        /\ k.ringTime = e /\ k.prevRingTime = e - r.ringInterval
        /\ k.ringing = r.ringing /\ k.ringingCount = r.ringingCount /\ k.onCurrStep = r.onCurrStep
    BY <2>5, <2>6, <2>7, ResetLeaves
  <2> HIDE DEF k
  <2>9. Leaves(k, r)
    BY <2>6, <2>8 DEF Leaves, Alike, Same
  <2>10. /\ k.ringInterval = r.ringInterval /\ RingSpan(c, k) = RingSpan(c, r)
         /\ \A x, y : InRing(c, k, x, y) <=> InRing(c, r, x, y)
    BY <2>9, AlikeIs DEF Leaves, Alike, Same
  <2>11. AtEvent(c, k, b, e, t)
    BY <2>3, <2>8, <2>10 DEF AtEvent
  <2>12. ByLast(c, k, b, t)
    BY <2>8, <2>10, <2>11 DEF ByLast, Begun
  <2> QED
    BY <1>1, <1>5, <2>9, <2>12
<1> QED
  BY <1>4, <1>5

\* When the ringing of an alarm that is placed by its last instant ends: at the end of its ring
\* span; or never, if that instant is to come and it has not rung.
LEMMA EndIs ==
  ASSUME NEW c \in ClockState, OneSign(c), NEW r \in AlarmState, NEW b \in Int, Plain(c, r, b),
         NEW t, Grid(c, t), t > Origin, ByLast(c, r, b, t)
  PROVE  LET end == RingEndFrom(c, r, r.ringBegin) IN
         \/ /\ r.ringBegin = OnStep(c, r.ringTime)
            /\ \A u : Grid(c, u) => (Reached(c, u, end) <=>
                                       Since(c, u) >= Begins(c, r.ringTime) + Span(c, r))
         \/ end = Origin /\ Since(c, t) < Since(c, r.ringTime)
<1> DEFINE end == RingEndFrom(c, r, r.ringBegin)
           e   == r.ringTime
<1>1. /\ c.timeStep # 0 /\ r.ringStepCount > 0 /\ Along(c, r.ringDuration) /\ e \in Int
      /\ t \in Int /\ c.timeStep \in Int
  BY FieldType, GridNext DEF OneSign, Plain, ClockState
<1>2. r.ringBegin = Origin => end = Origin
  BY DEF RingEndFrom, Plus
<1>3. CASE r.ringBegin = OnStep(c, e) /\ OnStep(c, e) # Origin
  BY <1>1, <1>3, EndBegun
<1>4. CASE r.ringBegin = OnStep(c, e) /\ OnStep(c, e) = Origin
  <2>1. OnInstant(e, b, r.ringInterval)
    BY DEF ByLast, AtEvent
  <2>2. Since(c, e) \in Int /\ Since(c, e) >= 0 /\ (c.timeStep < 0 => OnStep(c, e) = e)
    BY <2>1, InstantResets
  <2>3. /\ OnStep(c, e) \in Int /\ Since(c, e) <= Since(c, OnStep(c, e))
        /\ StartTime \in Int /\ Origin \in Int /\ StartTime > Origin
    BY <1>1, OnStepIs, OriginFirst DEF Begins
  <2>4. c.timeStep < 0
    BY <1>1, <1>4, <2>2, <2>3 DEF Since
  <2>5. Since(c, t) < Since(c, e)
    BY <1>1, <1>4, <2>2, <2>3, <2>4 DEF Since
  <2> QED
    BY <1>2, <1>4, <2>5
<1>5. CASE r.ringTime = b /\ r.ringBegin = Origin /\ Since(c, t) < Since(c, b)
  BY <1>2, <1>5
<1>6. Begun(c, r, b, t)
  BY DEF ByLast
<1> QED
  BY <1>3, <1>4, <1>5, <1>6 DEF Begun

\* The number of steps from one step to another.
LEMMA StepsBetween == ASSUME NEW c \in ClockState, c.timeStep # 0, NEW t, NEW u, Grid(c, t), Grid(c, u),
                             Since(c, u) <= Since(c, t)
                      PROVE  \E m \in Nat : t - u = m * c.timeStep
<1>1. PICK m \in Int : t = StartTime + m * c.timeStep
  BY DEF Grid
<1>2. PICK n \in Int : u = StartTime + n * c.timeStep
  BY DEF Grid
<1>3. StartTime \in Int /\ c.timeStep \in Int /\ Since(c, StartTime) = 0 /\ Size(c) \in Nat \ {0}
  BY SinceType, ClockAssumption DEF Since, ClockState
<1>4. Since(c, t) = Since(c, StartTime) + m * Size(c) /\ Since(c, u) = Since(c, StartTime) + n * Size(c)
  BY <1>1, <1>2, <1>3, SinceSteps
<1>5. m * Size(c) \in Int /\ n * Size(c) \in Int
  BY <1>3
<1>6. n <= m
  BY <1>3, <1>4, <1>5, Scaled
<1>7. m - n \in Nat /\ t - u = (m - n) * c.timeStep
  BY <1>1, <1>2, <1>3, <1>6
<1> QED
  BY <1>7

LEMMA BackOnIs == ASSUME NEW c \in ClockState, c.timeStep # 0, NEW r \in AlarmState, ~r.sticky, NEW end
                  PROVE  LET on == /\ ~Reached(c, c.currTime, end)
                                   /\ Reached(c, c.currTime + c.timeStep, end)
                             k  == TurnBackOn(c, r, end)
                         IN  /\ Leaves(k, r)
                             /\ k.ringing = on /\ k.onCurrStep = on
                             /\ k.ringingCount = IF on
                                  THEN Quotient(Minus(c.currTime, r.ringBegin), c.timeStep) + 1
                                  ELSE r.ringingCount
                             /\ k.ringTime = r.ringTime /\ k.prevRingTime = r.prevRingTime
                             /\ k.ringBegin = r.ringBegin
<1> DEFINE on == /\ ~Reached(c, c.currTime, end)
                 /\ Reached(c, c.currTime + c.timeStep, end)
           x  == IF on THEN Quotient(Minus(c.currTime, r.ringBegin), c.timeStep) + 1
                 ELSE r.ringingCount
           k  == TurnBackOn(c, r, end)
<1>1. x \in Int
  <2>1. c.currTime \in Int /\ r.ringBegin \in Int /\ r.ringingCount \in Int /\ c.timeStep \in Int \ {0}
    BY FieldType DEF ClockState
  <2>2. Minus(c.currTime, r.ringBegin) \in Int
    BY <2>1, MinusType
  <2>3. Quotient(Minus(c.currTime, r.ringBegin), c.timeStep) \in Int
    BY <2>1, <2>2, QuotientType
  <2> QED
    BY <2>1, <2>3
<1>2. on \in BOOLEAN
  OBVIOUS
<1>3. k = [r EXCEPT !.ringing = on, !.onCurrStep = on, !.ringingCount = x]
  BY DEF TurnBackOn, AlarmState
<1>4. k \in AlarmState
  BY TurnBackOnType
<1> HIDE DEF on, x, k
<1>5. /\ Leaves(k, r)
      /\ k.ringing = on /\ k.onCurrStep = on /\ k.ringingCount = x
      /\ k.ringTime = r.ringTime /\ k.prevRingTime = r.prevRingTime
      /\ k.ringBegin = r.ringBegin
  BY <1>2, <1>3, <1>4 DEF Leaves, Alike, Same, AlarmState
<1> QED
  BY <1>5 DEF on, x, k

\* A silent alarm comes back on at the step it fell silent after.
LEMMA LastSilent ==
  ASSUME NEW c \in ClockState, OneSign(c), NEW r \in AlarmState, NEW b \in Int, Plain(c, r, b),
         NEW t, Grid(c, t), t > Origin, c.currTime = t - c.timeStep, c.currTime > Origin,
         ByLast(c, r, b, t), ~r.ringing
  PROVE  LET k == TurnBackOn(c, r, RingEndFrom(c, r, r.ringBegin)) IN
         /\ Leaves(k, r)
         /\ ByLast(c, k, b, c.currTime)
         /\ k.ringTime = r.ringTime
<1> DEFINE u   == c.currTime
           e   == r.ringTime
           end == RingEndFrom(c, r, r.ringBegin)
           S   == Size(c)
           D   == Span(c, r)
           k   == TurnBackOn(c, r, end)
           on  == ~Reached(c, u, end) /\ Reached(c, t, end)
<1>1. /\ c.timeStep \in Int /\ c.timeStep # 0 /\ r.ringStepCount > 0 /\ ~r.sticky /\ e \in Int
      /\ r.ringInterval \in Int
  BY FieldType DEF ClockState, OneSign, Plain
<1>2. t \in Int /\ u \in Int /\ Grid(c, u)
  BY GridNext
<1>3. /\ Since(c, t) \in Int /\ Since(c, u) = Since(c, t) - S /\ S \in Nat \ {0}
      /\ Since(c, e) \in Int /\ Begins(c, e) \in Int /\ Since(c, e) <= Begins(c, e)
      /\ Begins(c, e) < Since(c, e) + S
      /\ D \in Int /\ D >= S
      /\ \A y \in {t, u} :
           /\ Since(c, y) < Begins(c, e) => Since(c, y) + S <= Begins(c, e)
           /\ Since(c, y) < Begins(c, e) + D => Since(c, y) + S <= Begins(c, e) + D
  BY <1>1, <1>2, BeginsIs, SinceStep
<1>4. AtEvent(c, r, b, e, t) /\ ~InRing(c, r, e, t)
  BY DEF ByLast, AtEvent
<1>5. Since(c, t) < Begins(c, e) \/ Since(c, t) >= Begins(c, e) + D
  BY <1>3, <1>4 DEF InRing
<1>6. on <=> InRing(c, r, e, u)
  <2>1. CASE /\ r.ringBegin = OnStep(c, e)
             /\ \A y : Grid(c, y) => (Reached(c, y, end) <=> Since(c, y) >= Begins(c, e) + D)
    <3>1. on <=> Since(c, u) < Begins(c, e) + D /\ Since(c, t) >= Begins(c, e) + D
      <4>1. /\ Reached(c, t, end) <=> Since(c, t) >= Begins(c, e) + D
            /\ Reached(c, u, end) <=> Since(c, u) >= Begins(c, e) + D
        BY <1>2, <2>1
      <4> HIDE DEF end
      <4> QED
        BY <1>3, <4>1
    <3> HIDE DEF on, D, e, u, S
    <3> QED
      BY <1>3, <1>5, <3>1 DEF InRing, D
  <2>2. CASE end = Origin /\ Since(c, t) < Since(c, e)
    <3>1. ~on
      <4>1. Reached(c, t, Origin) <=> IF c.timeStep > 0 THEN t >= Origin ELSE t <= Origin
        BY <1>2, OriginFirst, Direction
      <4>2. Reached(c, u, Origin) <=> IF c.timeStep > 0 THEN u >= Origin ELSE u <= Origin
        BY <1>2, OriginFirst, Direction
      <4>3. t > Origin /\ u > Origin /\ Origin \in Int
        BY OriginFirst
      <4> HIDE DEF u, end
      <4> QED
        BY <1>1, <1>2, <2>2, <4>1, <4>2, <4>3
    <3>2. ~InRing(c, r, e, u)
      BY <1>3, <2>2 DEF InRing
    <3> QED
      BY <3>1, <3>2
  <2> QED
    BY <2>1, <2>2, EndIs
<1>7. u + c.timeStep = t
  BY <1>1, <1>2
<1>8. /\ Leaves(k, r)
      /\ k.ringing = on /\ k.onCurrStep = on
      /\ k.ringingCount = IF on THEN Quotient(Minus(u, r.ringBegin), c.timeStep) + 1
                          ELSE r.ringingCount
      /\ k.ringTime = e /\ k.prevRingTime = r.prevRingTime
      /\ k.ringBegin = r.ringBegin
  <2> HIDE DEF end, e
  <2> DEFINE on0 == ~Reached(c, c.currTime, end) /\ Reached(c, c.currTime + c.timeStep, end)
             x0  == IF on0 THEN Quotient(Minus(c.currTime, r.ringBegin), c.timeStep) + 1
                    ELSE r.ringingCount
  <2>1. on0 = on
    BY <1>7
  <2>2. /\ Leaves(k, r)
        /\ k.ringing = on0 /\ k.onCurrStep = on0
        /\ k.ringingCount = x0
        /\ k.ringTime = r.ringTime /\ k.prevRingTime = r.prevRingTime
        /\ k.ringBegin = r.ringBegin
    BY <1>1, BackOnIs
  <2> HIDE DEF on0, on, k
  <2> QED
    BY <2>1, <2>2 DEF e
<1> HIDE DEF k, on
<1>9. on => /\ r.ringBegin = OnStep(c, e)
            /\ u = k.ringBegin + (k.ringingCount - 1) * c.timeStep
  <2> SUFFICES ASSUME on
               PROVE  /\ r.ringBegin = OnStep(c, e)
                      /\ u = k.ringBegin + (k.ringingCount - 1) * c.timeStep
    OBVIOUS
  <2>1. Begins(c, e) <= Since(c, u)
    BY <1>6 DEF InRing
  <2>2. r.ringBegin = OnStep(c, e)
    <3>1. ~(Since(c, t) < Since(c, e))
      BY <1>3, <2>1
    <3> QED
      BY <3>1, EndIs
  <2>3. /\ OnStep(c, e) \in Int /\ OnStep(c, e) # Origin /\ Grid(c, OnStep(c, e))
    <3>1. OnInstant(e, b, r.ringInterval)
      BY <1>4 DEF AtEvent
    <3>2. Since(c, e) >= 0
      BY <3>1, InstantResets
    <3> QED
      BY <1>1, <1>2, <2>1, <3>2, BeginsSet, OnStepIs
  <2>4. PICK m \in Nat : u - OnStep(c, e) = m * c.timeStep
    BY <1>1, <1>2, <2>1, <2>3, StepsBetween DEF Begins
  <2>5. Minus(u, r.ringBegin) = m * c.timeStep
    BY <2>2, <2>3, <2>4 DEF Minus
  <2>6. Quotient(m * c.timeStep, c.timeStep) = m
    BY <1>1, QuotientIs
  <2>7. k.ringingCount - 1 = m
    BY <1>8, <2>5, <2>6
  <2>8. m * c.timeStep \in Int
    BY <1>1
  <2> HIDE DEF u, e
  <2> QED
    BY <1>2, <1>8, <2>2, <2>3, <2>4, <2>7, <2>8 DEF u
<1>10. /\ k.ringInterval = r.ringInterval /\ RingSpan(c, k) = RingSpan(c, r)
       /\ \A x, y : InRing(c, k, x, y) <=> InRing(c, r, x, y)
  BY <1>8, AlikeIs DEF Leaves, Alike, Same
<1>11. AtEvent(c, k, b, e, u)
  <2>1. OnInstant(e, b, k.ringInterval)
    BY <1>4, <1>10 DEF AtEvent
  <2>2. e # b => Since(c, e) <= Since(c, u)
    <3> SUFFICES ASSUME e # b PROVE Since(c, e) <= Since(c, u)
      OBVIOUS
    <3>1. Since(c, e) <= Since(c, t)
      BY <1>4 DEF AtEvent
    <3> HIDE DEF e, u, S, D
    <3> QED
      BY <1>2, <1>3, <1>5, <3>1
  <2>3. k.ringInterval # 0 => Since(c, u) < Since(c, e + k.ringInterval)
    <3> SUFFICES ASSUME k.ringInterval # 0 PROVE Since(c, u) < Since(c, e + k.ringInterval)
      OBVIOUS
    <3>1. Since(c, t) < Since(c, e + k.ringInterval)
      BY <1>4, <1>10 DEF AtEvent
    <3>2. Since(c, e + k.ringInterval) \in Int
      <4>1. e + k.ringInterval \in Int
        BY <1>1, <1>10
      <4> QED
        BY <1>1, <4>1, SinceType
    <3> QED
      BY <1>3, <3>1, <3>2
  <2>4. ~k.ringing => k.ringingCount = 0
    BY <1>4, <1>8 DEF AtEvent
  <2>5. k.ringing <=> InRing(c, k, e, u)
    BY <1>6, <1>8, <1>10
  <2>6. k.ringing => /\ k.ringBegin = OnStep(c, e)
                     /\ u = k.ringBegin + (k.ringingCount - 1) * c.timeStep
    BY <1>8, <1>9
  <2>7. k.onCurrStep <=> k.ringing
    BY <1>8
  <2> QED
    BY <2>1, <2>2, <2>3, <2>4, <2>5, <2>6, <2>7 DEF AtEvent
<1>12. Begun(c, k, b, u)
  <2>1. Begun(c, r, b, t)
    BY DEF ByLast
  <2>2. CASE r.ringBegin = OnStep(c, e)
    BY <1>8, <2>2 DEF Begun
  <2>3. CASE r.ringTime = b /\ r.ringBegin = Origin /\ Since(c, t) < Since(c, b)
    <3>1. Since(c, u) < Since(c, b)
      BY <1>3, <2>3
    <3> QED
      BY <1>8, <2>3, <3>1 DEF Begun
  <2> QED
    BY <2>1, <2>2, <2>3 DEF Begun
<1>13. k.ringTime # b => k.prevRingTime = k.ringTime - k.ringInterval
  BY <1>8, <1>10 DEF ByLast
<1>14. ByLast(c, k, b, u)
  <2> HIDE DEF e
  <2> QED
    BY <1>8, <1>11, <1>12, <1>13 DEF ByLast
<1> QED
  BY <1>8, <1>14 DEF k

\* The alarm turned off, at the instant before its own, or still at its first.
LEMMA BackOffIs ==
  ASSUME NEW c \in ClockState, OneSign(c), NEW r \in AlarmState, NEW b \in Int, Plain(c, r, b),
         r.ringingCount <= 1, OnInstant(r.ringTime, b, r.ringInterval),
         r.ringTime # b => r.prevRingTime = r.ringTime - r.ringInterval
  PROVE  LET k == TurnBackOff(c, r)
             x == IF r.ringTime = b THEN b ELSE r.ringTime - r.ringInterval
         IN  /\ Leaves(k, r)
             /\ ~k.ringing /\ ~k.onCurrStep /\ k.ringingCount = 0
             /\ k.ringTime = x /\ OnInstant(x, b, r.ringInterval)
             /\ k.ringTime # b => k.prevRingTime = x - r.ringInterval
             /\ k.ringBegin = OnStep(c, x)
<1> DEFINE off  == Silenced(r)
           back == StepBack(off)
           stay == [off EXCEPT !.prevRingTime = off.ringTime]
           s    == IF r.ringTime # b THEN back ELSE stay
           k    == TurnBackOff(c, r)
           x    == IF r.ringTime = b THEN b ELSE r.ringTime - r.ringInterval
<1>1. c.timeStep # 0 /\ r.ringInterval \in Int /\ Along(c, r.ringInterval)
  BY FieldType DEF OneSign, Plain
<1>2. off \in AlarmState
  BY SilencedType
<1>3. /\ Leaves(off, r) /\ ~off.ringing /\ ~off.onCurrStep /\ off.ringingCount = 0
      /\ off.ringTime = r.ringTime /\ off.prevRingTime = r.prevRingTime
  BY <1>2 DEF Silenced, Leaves, Alike, Same, AlarmState
<1>4. k = ResetRingBegin(c, s)
  BY <1>3 DEF TurnBackOff, Plain, AlarmState
<1> HIDE DEF off
<1>5. /\ Leaves(back, off) /\ ~back.ringing /\ ~back.onCurrStep /\ back.ringingCount = 0
      /\ back.ringTime = off.prevRingTime /\ back.prevRingTime = off.prevRingTime - off.ringInterval
  BY <1>2, <1>3, StepBackIs
<1>6. /\ Leaves(stay, off) /\ ~stay.ringing /\ ~stay.onCurrStep /\ stay.ringingCount = 0
      /\ stay.ringTime = off.ringTime
  BY <1>2, <1>3 DEF Leaves, Alike, Same, AlarmState
<1> HIDE DEF back, stay
<1>7. /\ Leaves(s, off) /\ ~s.ringing /\ ~s.onCurrStep /\ s.ringingCount = 0
      /\ s.ringTime = IF r.ringTime = b THEN r.ringTime ELSE r.prevRingTime
      /\ r.ringTime # b => s.prevRingTime = r.prevRingTime - off.ringInterval
  BY <1>3, <1>5, <1>6
<1> HIDE DEF s
<1>8. off.ringInterval = r.ringInterval
  BY <1>3 DEF Leaves, Alike, Same
<1>9. s.ringTime = x /\ (r.ringTime # b => s.prevRingTime = x - r.ringInterval)
  BY <1>7, <1>8
<1>10. OnInstant(x, b, r.ringInterval)
  <2>1. CASE r.ringTime = b
    BY <2>1
  <2>2. CASE r.ringTime # b
    BY <1>1, <2>2, InstantIs
  <2> QED
    BY <2>1, <2>2
<1>11. x \in Int /\ Since(c, x) >= 0 /\ (c.timeStep < 0 => OnStep(c, x) = x)
  <2> HIDE DEF x
  <2> QED
    BY <1>10, InstantResets
<1> HIDE DEF x
<1>12. s \in AlarmState
  BY <1>7 DEF Leaves
<1>13. /\ Leaves(k, s) /\ k.ringBegin = OnStep(c, x)
       /\ k.ringTime = x /\ k.prevRingTime = s.prevRingTime
       /\ ~k.ringing /\ k.ringingCount = 0 /\ ~k.onCurrStep
  BY <1>4, <1>7, <1>9, <1>11, <1>12, ResetLeaves
<1> HIDE DEF k
<1>14. Leaves(k, r)
  BY <1>3, <1>7, <1>13 DEF Leaves, Alike, Same
<1>15. k.ringTime # b => k.prevRingTime = x - r.ringInterval
  BY <1>9, <1>13 DEF x
<1> QED
  BY <1>10, <1>13, <1>14, <1>15 DEF k, x

\* A ringing alarm counts down, and goes off at the step before the one it began to ring at.
LEMMA LastRinging ==
  ASSUME NEW c \in ClockState, OneSign(c), NEW r \in AlarmState, NEW b \in Int, Plain(c, r, b),
         NEW t, Grid(c, t), c.currTime = t - c.timeStep, ByLast(c, r, b, t), r.ringing
  PROVE  LET k == TurnBackOff(c, r) IN
         /\ Leaves(k, r)
         /\ ByLast(c, k, b, c.currTime)
         /\ IF r.ringingCount <= 1 /\ r.ringTime # b
            THEN Begins(c, k.ringTime) + Span(c, r) <= Since(c, c.currTime)
            ELSE k.ringTime = r.ringTime
<1> DEFINE u == c.currTime
           e == r.ringTime
           i == r.ringInterval
           S == Size(c)
           D == Span(c, r)
           k == TurnBackOff(c, r)
           n == r.ringingCount
<1>1. /\ c.timeStep \in Int /\ c.timeStep # 0 /\ r.ringStepCount > 0 /\ Along(c, i)
      /\ e \in Int /\ i \in Int /\ n \in Int
  BY FieldType DEF ClockState, OneSign, Plain
<1>2. t \in Int /\ u \in Int /\ Grid(c, u)
  BY GridNext
<1>3. /\ Since(c, t) \in Int /\ Since(c, u) = Since(c, t) - S /\ S \in Nat \ {0}
      /\ Since(c, e) \in Int /\ Begins(c, e) \in Int /\ Since(c, e) <= Begins(c, e)
      /\ Begins(c, e) < Since(c, e) + S /\ D \in Int /\ D >= S
  BY <1>1, <1>2, BeginsIs, SinceStep
<1>4. /\ AtEvent(c, r, b, e, t) /\ OnInstant(e, b, i)
      /\ r.ringTime # b => r.prevRingTime = r.ringTime - r.ringInterval
  BY DEF ByLast, AtEvent
<1>5. /\ Begins(c, e) <= Since(c, t) /\ Since(c, t) < Begins(c, e) + D
      /\ r.ringBegin = OnStep(c, e)
      /\ t = r.ringBegin + (n - 1) * c.timeStep
  BY <1>4 DEF AtEvent, InRing
<1>6. Since(c, t) = Begins(c, e) + (n - 1) * S /\ (n - 1) * S \in Int /\ OnStep(c, e) \in Int
  <2>1. OnStep(c, e) \in Int /\ n - 1 \in Int
    BY <1>1, OnStepIs
  <2>2. Since(c, OnStep(c, e) + (n - 1) * c.timeStep) = Since(c, OnStep(c, e)) + (n - 1) * Size(c)
    BY <1>1, <2>1, SinceSteps
  <2>3. (n - 1) * S \in Int
    BY <1>3, <2>1
  <2> QED
    BY <1>5, <2>1, <2>2, <2>3 DEF Begins
\* The steps it has rung are counted from one.
<1>7. n >= 1
  <2>1. 0 * S <= (n - 1) * S
    BY <1>3, <1>5, <1>6
  <2>2. n - 1 \in Int /\ 0 \in Int
    BY <1>1
  <2> HIDE DEF n, S
  <2>3. 0 <= n - 1
    BY <1>3, <2>1, <2>2, Scaled
  <2> QED
    BY <1>1, <2>3
<1> HIDE DEF u, e, i, S, D
<1>8. CASE n > 1
  <2>1. k = [r EXCEPT !.ringingCount = n - 1]
    BY <1>8 DEF TurnBackOff, AlarmState
  <2>2. n - 1 \in Int
    BY <1>1
  <2>3. k \in AlarmState
    BY <2>1, <2>2, Field, Zenon
  <2> HIDE DEF n, k
  <2>4. /\ Leaves(k, r) /\ k.ringing /\ k.ringingCount = n - 1
        /\ k.ringTime = e /\ k.prevRingTime = r.prevRingTime
        /\ k.ringBegin = r.ringBegin /\ k.onCurrStep = r.onCurrStep
    BY <2>1, <2>3 DEF Leaves, Alike, Same, AlarmState, e
  <2>5. /\ k.ringInterval = i /\ RingSpan(c, k) = RingSpan(c, r)
        /\ \A x, y : InRing(c, k, x, y) <=> InRing(c, r, x, y)
    BY <2>4, AlikeIs DEF Leaves, Alike, Same, i
  <2>6. Since(c, t) >= Begins(c, e) + S
    <3>1. 1 <= n - 1
      BY <1>1, <1>8
    <3>2. 1 * S <= (n - 1) * S /\ 1 * S = S
      BY <1>3, <2>2, <3>1, Scaled
    <3> QED
      BY <1>3, <1>6, <3>2
  <2>7. InRing(c, r, e, u)
    BY <1>3, <1>5, <2>6 DEF InRing, D
  <2>8. u = k.ringBegin + (k.ringingCount - 1) * c.timeStep
    <3>1. (n - 1 - 1) * c.timeStep = (n - 1) * c.timeStep - c.timeStep
      BY <1>1
    <3>2. (n - 1) * c.timeStep \in Int
      BY <1>1
    <3> QED
      BY <1>1, <1>2, <1>5, <1>6, <2>4, <3>1, <3>2 DEF u
  <2>9. RingSpan(c, k) # c.timeStep
    <3>1. RingSpan(c, r) = c.timeStep => D = S
      BY DEF D, S, Span, Size
    <3> QED
      BY <1>3, <1>5, <2>5, <2>6, <3>1
  <2>10. /\ e # b => Since(c, e) <= Since(c, u)
         /\ i # 0 => Since(c, u) < Since(c, e + i)
    <3>1. e + i \in Int
      BY <1>1
    <3>2. Since(c, e + i) \in Int /\ (i # 0 => Since(c, t) < Since(c, e + i))
      BY <1>1, <1>4, <3>1, SinceType DEF AtEvent, i
    <3> QED
      BY <1>3, <2>6, <3>2
  <2>11. AtEvent(c, k, b, e, u)
    BY <1>4, <1>5, <2>4, <2>5, <2>7, <2>8, <2>9, <2>10 DEF AtEvent
  <2>12. ByLast(c, k, b, u)
    BY <1>4, <1>5, <2>4, <2>5, <2>11 DEF ByLast, Begun, e, i
  <2>13. Leaves(k, r) /\ ByLast(c, k, b, c.currTime) /\ k.ringTime = r.ringTime
    BY <2>4, <2>12 DEF u, e
  <2>14. ~(r.ringingCount <= 1)
    BY <1>1, <1>8 DEF n
  <2> QED
    BY <2>13, <2>14 DEF k
<1>9. CASE n = 1
  <2> DEFINE x == IF e = b THEN b ELSE e - i
  <2>1. Since(c, t) = Begins(c, e)
    <3>1. (n - 1) * S = 0
      BY <1>3, <1>9
    <3> QED
      BY <1>3, <1>6, <3>1
  <2>2. /\ Leaves(k, r)
        /\ ~k.ringing /\ ~k.onCurrStep /\ k.ringingCount = 0
        /\ k.ringTime = x /\ OnInstant(x, b, i)
        /\ k.ringTime # b => k.prevRingTime = x - i
        /\ k.ringBegin = OnStep(c, x)
    BY <1>4, <1>9, BackOffIs DEF e, i
  <2> HIDE DEF k
  <2>3. /\ k.ringInterval = i /\ RingSpan(c, k) = RingSpan(c, r)
        /\ \A y, z : InRing(c, k, y, z) <=> InRing(c, r, y, z)
    BY <2>2, AlikeIs DEF Leaves, Alike, Same, i
  <2>4. CASE e = b
    <3>1. ~InRing(c, r, x, u)
      BY <1>3, <2>1, <2>4 DEF InRing
    <3>2. i # 0 => Since(c, u) < Since(c, x + i)
      <4>1. Since(c, e + i) = Since(c, e) + Abs(i) /\ Abs(i) \in Nat /\ (i # 0 => Abs(i) > 0)
        BY <1>1, SinceAlong, AbsType
      <4> QED
        BY <1>3, <2>1, <2>4, <4>1
    <3>3. AtEvent(c, k, b, x, u)
      BY <2>2, <2>3, <2>4, <3>1, <3>2 DEF AtEvent
    <3>4. ByLast(c, k, b, u)
      BY <2>2, <2>3, <3>3 DEF ByLast, Begun
    <3> QED
      BY <1>9, <2>2, <2>4, <3>4 DEF k, n, u, e
  <2>5. CASE e # b
    <3>1. x \in Int /\ x + i = e /\ Since(c, x) < Since(c, e)
      <4>1. i # 0
        BY <1>1, <1>4, <2>5, InstantIs
      <4>2. e - i \in Int /\ Since(c, e - i) = Since(c, e) - Abs(i)
        BY <1>1, SinceAlong
      <4>3. Abs(i) \in Nat /\ Abs(i) > 0
        BY <1>1, <4>1, AbsType
      <4> QED
        BY <1>1, <1>3, <2>5, <4>2, <4>3
    <3> HIDE DEF x
    <3>2. Begins(c, x) + D + S <= Begins(c, e)
      BY <1>1, <1>4, <2>2, <3>1, RingsApart DEF D, S, i
    <3>3. Begins(c, x) \in Int /\ Since(c, x) \in Int /\ Since(c, x) <= Begins(c, x)
      BY <1>1, <3>1, OnStepIs, SinceType
    <3>4. Begins(c, x) + D <= Since(c, u) /\ Since(c, x) <= Since(c, u) /\ ~InRing(c, r, x, u)
      BY <1>3, <2>1, <3>2, <3>3 DEF InRing, D
    <3>5. Since(c, u) < Since(c, x + i)
      BY <1>3, <2>1, <3>1
    <3>6. AtEvent(c, k, b, x, u)
      BY <2>2, <2>3, <3>4, <3>5 DEF AtEvent
    <3>7. ByLast(c, k, b, u)
      BY <2>2, <2>3, <3>6 DEF ByLast, Begun
    <3> QED
      BY <1>9, <2>2, <2>5, <3>4, <3>7 DEF k, n, u, e, D
  <2> QED
    BY <2>4, <2>5
<1> QED
  BY <1>1, <1>7, <1>8, <1>9

LEMMA ReverseRing ==
  ASSUME NEW c \in ClockState, OneSign(c), NEW r \in AlarmState, NEW b \in Int, Plain(c, r, b), ~r.endless,
         NEW t, Grid(c, t), t > Origin, c.currTime = t - c.timeStep, c.currTime > Origin,
         ByLast(c, r, b, t) \/ (c.userDirection /\ ByNext(c, r, b, t))
  PROVE  LET f == CheckReverse(c, r) IN
         /\ f \in AlarmState /\ Alike(f, r) /\ ~f.endless
         /\ ByLast(c, f, b, c.currTime)
         /\ /\ c.prevTime = c.currTime - c.timeStep
            /\ ByDuration(r) => r.ringDuration % Size(c) = 0
            => (f.onPrevStep <=> InRing(c, f, f.ringTime, c.prevTime))
<1> DEFINE u    == c.currTime
           w    == c.prevTime
           back == PullBack(c, r)
           end  == RingEndFrom(c, back, back.ringBegin)
           rung == IF back.ringing THEN TurnBackOff(c, back) ELSE TurnBackOn(c, back, end)
           next == back.ringing /\ back.ringingCount <= 1 /\ back.ringTime # b
           last == IF next THEN RingEndFrom(c, rung, rung.ringTime) ELSE end
           prev == Reached(c, w, rung.ringTime) /\ ~Reached(c, w, last)
           f    == CheckReverse(c, r)
<1>1. /\ c.timeStep \in Int /\ c.timeStep # 0 /\ t \in Int /\ u \in Int /\ w \in Int /\ Grid(c, u)
      /\ u + c.timeStep = t
  BY GridNext DEF OneSign, ClockState
<1>2. Leaves(back, r) /\ ByLast(c, back, b, t)
  BY <1>1, PullBackIs
<1>3. back \in AlarmState /\ Plain(c, back, b) /\ ~back.endless
  BY <1>2, PlainAlike DEF Leaves
<1>4. f = [rung EXCEPT !.onPrevStep = prev]
  <2>1. back.enabled /\ ~back.sticky /\ back.firstRingTime = b /\ ~r.sticky
    BY <1>3 DEF Plain
  <2>2. rung.enabled
    <3>1. back.ringing => TurnBackOff(c, back).enabled = back.enabled
      <4>1. back.ringing => Leaves(TurnBackOff(c, back), back)
        BY <1>1, <1>2, <1>3, LastRinging
      <4> QED
        BY <4>1 DEF Leaves, Alike, Same
    <3>2. TurnBackOn(c, back, end).enabled = back.enabled
      BY <1>1, <1>3, TurnBackOnType
    <3> QED
      BY <2>1, <3>1, <3>2
  <2> HIDE DEF back
  <2> QED
    BY <1>3, <2>1, <2>2 DEF CheckReverse, back
<1>5. /\ Leaves(rung, back) /\ ByLast(c, rung, b, u)
      /\ IF next THEN Begins(c, rung.ringTime) + Span(c, back) <= Since(c, u)
         ELSE rung.ringTime = back.ringTime
  <2> HIDE DEF back
  <2>1. CASE back.ringing
    BY <1>2, <1>3, <2>1, LastRinging
  <2>2. CASE ~back.ringing
    BY <1>1, <1>2, <1>3, <2>2, LastSilent
  <2> QED
    BY <2>1, <2>2
<1> HIDE DEF back
<1>6. prev \in BOOLEAN
  OBVIOUS
<1> HIDE DEF end, rung, last, next
<1>7. rung \in AlarmState /\ prev \in BOOLEAN
  BY <1>5, <1>6 DEF Leaves
<1>8. /\ f \in AlarmState /\ Alike(f, rung) /\ Placed(f, rung) /\ f.endless = rung.endless
      /\ f.onPrevStep = prev
  <2> HIDE DEF prev, f
  <2> QED
    BY <1>4, <1>7 DEF Alike, Same, Placed, AlarmState
<1> HIDE DEF f
<1>9. Alike(f, r) /\ Alike(rung, r) /\ ~f.endless
  BY <1>2, <1>3, <1>5, <1>8 DEF Leaves, Alike, Same
<1>10. ByLast(c, f, b, u)
  BY <1>5, <1>8, PlacedIs
<1>11. ASSUME w = u - c.timeStep, ByDuration(r) => r.ringDuration % Size(c) = 0
       PROVE  prev <=> InRing(c, rung, rung.ringTime, w)
  <2> DEFINE x == rung.ringTime
             D == Span(c, rung)
  <2>1. /\ Plain(c, rung, b) /\ rung.ringStepCount > 0 /\ Along(c, rung.ringDuration) /\ x \in Int
        /\ D = Span(c, back)
    <3>1. Plain(c, rung, b)
      BY <1>9, PlainAlike
    <3>2. Span(c, rung) = Span(c, back)
      BY <1>5, AlikeIs DEF Leaves
    <3> QED
      BY <1>7, <3>1, <3>2, FieldType DEF Plain
  <2>2. Grid(c, w)
    BY <1>1, <1>11, GridNext
  <2>3. /\ Since(c, w) \in Int /\ Since(c, x) \in Int /\ Begins(c, x) \in Int /\ Size(c) \in Nat \ {0}
        /\ Since(c, x) <= Begins(c, x) /\ Begins(c, x) < Since(c, x) + Size(c)
        /\ Since(c, w) < Begins(c, x) => Since(c, w) + Size(c) <= Begins(c, x)
        /\ D \in Int /\ D >= Size(c)
    BY <1>1, <1>7, <2>1, <2>2, BeginsIs
  <2>4. Since(c, u) \in Int /\ Since(c, w) = Since(c, u) - Size(c) /\ Since(c, t) = Since(c, u) + Size(c)
    BY <1>1, <1>11, SinceStep, SinceType
  <2>5. Reached(c, w, x) <=> Since(c, w) >= Begins(c, x)
    <3>1. Reached(c, w, x) <=> Since(c, w) >= Since(c, x)
      BY <1>1, <2>1, SinceReached
    <3> QED
      BY <2>3, <3>1
  <2> HIDE DEF x, D, w, u
  <2>6. ASSUME Reached(c, w, last) <=> Since(c, w) >= Begins(c, x) + D
        PROVE  prev <=> InRing(c, rung, rung.ringTime, w)
    <3>1. InRing(c, rung, x, w) <=> Begins(c, x) <= Since(c, w) /\ Since(c, w) < Begins(c, x) + D
      BY DEF InRing, D
    <3>2. prev <=> Reached(c, w, x) /\ ~Reached(c, w, last)
      BY DEF prev, x
    <3>3. prev <=> InRing(c, rung, x, w)
      BY <2>3, <2>5, <2>6, <3>1, <3>2
    <3> QED
      BY <3>3 DEF x
  <2>7. CASE next
    <3>1. Begins(c, x) + D <= Since(c, u)
      BY <1>5, <2>1, <2>7 DEF x, u
    <3>2. OnInstant(x, b, rung.ringInterval)
      BY <1>5 DEF ByLast, AtEvent, x
    <3>3. Since(c, x) >= 0
      BY <1>7, <2>1, <3>2, InstantResets
    <3>4. x # Origin
      <4>1. StartTime \in Int /\ Origin \in Int /\ StartTime > Origin /\ u > Origin
        BY OriginFirst DEF u
      <4>2. Since(c, x) <= Since(c, u)
        BY <2>3, <2>4, <3>1
      <4> QED
        BY <1>1, <2>1, <3>3, <4>1, <4>2 DEF Since
    <3>5. last = RingEndFrom(c, rung, x)
      BY <2>7 DEF last, x
    <3>6. ByDuration(rung) => rung.ringDuration % Size(c) = 0
      BY <1>9, <1>11 DEF ByDuration, Alike
    <3>7. Reached(c, w, last) <=> Since(c, w) >= Begins(c, x) + D
      BY <1>7, <2>1, <2>2, <3>4, <3>5, <3>6, EndDue DEF D
    <3> QED
      BY <2>6, <3>7
  <2>8. CASE ~next
    <3>1. last = end /\ x = back.ringTime
      BY <1>5, <2>8 DEF last, x
    <3>2. \/ /\ back.ringBegin = OnStep(c, x)
             /\ \A y : Grid(c, y) => (Reached(c, y, end) <=> Since(c, y) >= Begins(c, x) + D)
          \/ end = Origin /\ Since(c, t) < Since(c, x)
      BY <1>2, <1>3, <2>1, <3>1, EndIs DEF end
    <3>3. CASE Reached(c, w, end) <=> Since(c, w) >= Begins(c, x) + D
      BY <2>6, <3>1, <3>3
    <3>4. CASE Since(c, t) < Since(c, x)
      <4>1. Since(c, w) < Begins(c, x)
        BY <2>3, <2>4, <3>4
      <4>2. ~InRing(c, rung, x, w)
        BY <2>3, <4>1 DEF InRing
      <4>3. ~Reached(c, w, x)
        BY <2>3, <2>5, <4>1
      <4> QED
        BY <4>2, <4>3 DEF prev, x
    <3> QED
      BY <2>2, <3>2, <3>3, <3>4
  <2> QED
    BY <2>7, <2>8
<1>12. \A y : InRing(c, f, y, w) <=> InRing(c, rung, y, w)
  BY <1>8, AlikeIs
<1>13. f.ringTime = rung.ringTime
  BY <1>8 DEF Placed
<1>14. /\ w = u - c.timeStep
       /\ ByDuration(r) => r.ringDuration % Size(c) = 0
       => (f.onPrevStep <=> InRing(c, f, f.ringTime, w))
  <2> HIDE DEF prev, u, w
  <2> QED
    BY <1>8, <1>11, <1>12, <1>13
<1> QED
  BY <1>8, <1>9, <1>10, <1>14 DEF f

-----------------------------------------------------------------------------
(* The check of a step forward, after a turn                                *)

\* A ring time reached is moved by one interval if that one has not been reached.
LEMMA PushOnce ==
  ASSUME NEW c \in ClockState, OneSign(c), NEW r \in AlarmState, r.stopTime = Origin, ~r.endless,
         Along(c, r.ringInterval), NEW t \in Int, Reached(c, t, r.ringTime),
         r.ringInterval # 0 => Since(c, t) < Since(c, r.ringTime + r.ringInterval)
  PROVE  LET p == PushRingTime(c, r, t) IN
         /\ Leaves(p, r) \/ p.endless
         /\ p \in AlarmState /\ Alike(p, r) /\ p.onPrevStep = r.onPrevStep
         /\ ~p.endless => /\ r.ringInterval # 0
                          /\ p.ringTime = r.ringTime + r.ringInterval
                          /\ p.prevRingTime = r.ringTime
                          /\ p.ringing = r.ringing /\ p.ringingCount = r.ringingCount
                          /\ p.ringBegin = r.ringBegin /\ p.onCurrStep = r.onCurrStep
<1> DEFINE p  == PushRingTime(c, r, t)
           rt == r.ringTime
           i  == r.ringInterval
<1>1. /\ rt \in Int /\ i \in Int /\ rt + i \in Int /\ c.timeStep # 0 /\ Abs(i) \in Nat
      /\ Since(c, t) \in Int /\ Since(c, rt) \in Int
      /\ (i # 0 => Abs(i) > 0) /\ Along(c, i)
  BY FieldType, AbsType, SinceType DEF OneSign
<1>2. \A n : Stops(c, r, t, n) <=> ~Reached(c, t, RingAt(r, n))
  BY DEF Stops, AtLimit
<1>3. RingAt(r, 0) = rt /\ RingAt(r, 1) = rt + i
  BY <1>1 DEF RingAt
<1>4. i # 0 => ~Reached(c, t, rt + i)
  <2>1. Reached(c, t, rt + i) <=> Since(c, t) >= Since(c, rt + i)
    BY <1>1, SinceReached
  <2>2. Since(c, rt + i) \in Int
    BY <1>1, SinceType
  <2> QED
    BY <1>1, <2>1, <2>2
<1>5. CASE p = [r EXCEPT !.endless = TRUE]
  <2>1. p \in AlarmState /\ p.endless /\ Alike(p, r) /\ p.onPrevStep = r.onPrevStep
    BY <1>5 DEF AlarmState, Alike, Same
  <2> QED
    BY <2>1
<1>6. CASE p = r /\ Stops(c, r, t, 0)
  BY <1>2, <1>3, <1>6
<1>7. ASSUME NEW n \in Nat \ {0}, p = Moved(r, n), Stops(c, r, t, n), ~Stops(c, r, t, n-1)
      PROVE  n = 1 /\ i # 0
  <2>1. Since(c, rt + n * i) = Since(c, rt) + n * Abs(i)
        /\ Since(c, rt + (n-1) * i) = Since(c, rt) + (n-1) * Abs(i)
    <3>1. n \in Nat /\ n-1 \in Nat
      OBVIOUS
    <3> HIDE DEF rt, i
    <3>2. ASSUME NEW k \in Nat PROVE Since(c, rt + k * i) = Since(c, rt) + k * Abs(i)
      <4>1. rt \in Int /\ i \in Int /\ Along(c, i) /\ c.timeStep # 0
        BY <1>1
      <4> QED
        BY <4>1, SinceInstant
    <3> QED
      BY <3>1, <3>2
  <2>2. n * i \in Int /\ (n-1) * i \in Int /\ n * Abs(i) \in Int /\ (n-1) * Abs(i) \in Int
    BY <1>1
  <2>3. /\ Reached(c, t, rt + n * i) <=> Since(c, t) >= Since(c, rt + n * i)
        /\ Reached(c, t, rt + (n-1) * i) <=> Since(c, t) >= Since(c, rt + (n-1) * i)
    <3>1. rt + n * i \in Int /\ rt + (n-1) * i \in Int
      BY <1>1, <2>2
    <3> QED
      BY <3>1, SinceReached
  <2>4. Since(c, t) < Since(c, rt) + n * Abs(i) /\ Since(c, t) >= Since(c, rt) + (n-1) * Abs(i)
    BY <1>1, <1>2, <1>7, <2>1, <2>2, <2>3 DEF RingAt
  <2>5. i # 0
    <3>1. i = 0 => n * Abs(i) = 0 /\ (n-1) * Abs(i) = 0
      BY DEF Abs
    <3> QED
      BY <1>1, <2>4, <3>1
  <2>6. Since(c, t) < Since(c, rt) + Abs(i)
    BY <1>1, <2>5, SinceAlong
  <2>7. n - 1 > 0 => Abs(i) <= (n-1) * Abs(i)
    BY <1>1, Far
  <2> QED
    BY <1>1, <2>2, <2>4, <2>5, <2>6, <2>7
<1>8. CASE p = Moved(r, 1) /\ i # 0
  <2>1. p \in AlarmState
    BY <1>8, MovedType
  <2>2. p = [r EXCEPT !.ringTime = rt + i, !.prevRingTime = rt]
    <3>1. 1 - 1 = 0
      OBVIOUS
    <3> QED
      BY <1>3, <1>8, <3>1 DEF Moved
  <2>3. /\ Leaves(p, r) /\ ~p.endless
        /\ p.ringTime = rt + i /\ p.prevRingTime = rt
        /\ p.ringing = r.ringing /\ p.ringingCount = r.ringingCount
        /\ p.ringBegin = r.ringBegin /\ p.onCurrStep = r.onCurrStep
    BY <2>1, <2>2 DEF AlarmState, Leaves, Alike, Same
  <2> QED
    BY <1>8, <2>3 DEF Leaves
<1> QED
  BY <1>5, <1>6, <1>7, <1>8, PushIs

\* When the clock was turned forward, the ring time becomes the instant to come again.
LEMMA PushedNext ==
  ASSUME NEW c \in ClockState, OneSign(c), NEW r \in AlarmState, NEW b \in Int, Plain(c, r, b),
         ~r.endless, NEW t \in Int, ByNext(c, r, b, t) \/ ByLast(c, r, b, t)
  PROVE  LET p == PushRingTime(c, r, t) IN
         /\ p \in AlarmState /\ Alike(p, r) /\ p.onPrevStep = r.onPrevStep
         /\ ~p.endless => ByNext(c, p, b, t)
<1> DEFINE p  == PushRingTime(c, r, t)
           rt == r.ringTime
           i  == r.ringInterval
<1>1. /\ rt \in Int /\ i \in Int /\ rt + i \in Int /\ c.timeStep # 0 /\ Abs(i) \in Nat
      /\ Since(c, t) \in Int /\ Since(c, rt) \in Int /\ Since(c, b) \in Int
      /\ (i # 0 => Abs(i) > 0) /\ Along(c, i) /\ r.stopTime = Origin
  BY FieldType, AbsType, SinceType DEF OneSign, Plain
<1>2. Reached(c, t, rt) <=> Since(c, t) >= Since(c, rt)
  BY <1>1, SinceReached
<1>3. CASE ~Reached(c, t, rt)
  <2>1. p = r
    BY <1>3, PushNone
  <2>2. ASSUME ByLast(c, r, b, t) PROVE ByNext(c, r, b, t)
    <3>1. AtEvent(c, r, b, rt, t) /\ Begun(c, r, b, t)
      BY <2>2 DEF ByLast
    <3>2. rt = b
      BY <1>1, <1>2, <1>3, <3>1 DEF AtEvent
    <3> QED
      BY <1>1, <1>2, <1>3, <3>1, <3>2 DEF ByNext
  <2> QED
    BY <2>1, <2>2 DEF Alike, Same
<1>4. CASE Reached(c, t, rt)
  <2>1. i # 0 => Since(c, t) < Since(c, rt + i)
    <3>1. ByNext(c, r, b, t) /\ i # 0 => Since(c, t) < Since(c, rt)
      BY DEF ByNext
    <3>2. ByLast(c, r, b, t) /\ i # 0 => Since(c, t) < Since(c, rt + i)
      BY DEF ByLast, AtEvent
    <3> QED
      BY <1>1, <1>2, <1>4, <3>1, <3>2
  <2>2. /\ p \in AlarmState /\ Alike(p, r) /\ p.onPrevStep = r.onPrevStep
        /\ ~p.endless => /\ i # 0 /\ p.ringTime = rt + i /\ p.prevRingTime = rt
                         /\ p.ringing = r.ringing /\ p.ringingCount = r.ringingCount
                         /\ p.ringBegin = r.ringBegin /\ p.onCurrStep = r.onCurrStep
    BY <1>1, <1>4, <2>1, PushOnce
  <2> HIDE DEF p
  <2>3. ASSUME ~p.endless PROVE ByNext(c, p, b, t)
    <3>1. AtEvent(c, r, b, rt, t)
      <4>1. ByNext(c, r, b, t) => Since(c, t) < Since(c, rt)
        BY <2>2, <2>3 DEF ByNext
      <4> QED
        BY <1>1, <1>2, <1>4, <4>1 DEF ByLast
    <3>2. Since(c, rt) >= Since(c, b)
      BY <1>1, <3>1, InstantIs DEF AtEvent
    <3>3. Since(c, rt + i) = Since(c, rt) + Abs(i)
      BY <1>1, SinceAlong
    <3>4. rt + i # b
      BY <1>1, <2>2, <2>3, <3>2, <3>3
    <3>5. p.ringInterval = i /\ RingSpan(c, p) = RingSpan(c, r)
          /\ \A x, y : InRing(c, p, x, y) <=> InRing(c, r, x, y)
      BY <2>2, AlikeIs DEF Alike, Same
    <3>6. AtEvent(c, p, b, rt, t)
      BY <2>2, <2>3, <3>1, <3>5 DEF AtEvent
    <3>7. rt = IF p.ringTime = b THEN b ELSE p.ringTime - p.ringInterval
      BY <1>1, <2>2, <2>3, <3>4, <3>5
    <3>8. Since(c, rt) <= Since(c, t) /\ Since(c, t) < Since(c, p.ringTime)
      BY <1>1, <1>2, <1>4, <2>1, <2>2, <2>3
    <3> QED
      BY <2>2, <2>3, <3>4, <3>5, <3>6, <3>7, <3>8 DEF ByNext
  <2> QED
    BY <2>2, <2>3 DEF p
<1> QED
  BY <1>3, <1>4

\* t is the step before; for a new alarm, the step that would have come before its creation.
LEMMA PreCheckPlain ==
  ASSUME NEW c \in ClockState, OneSign(c), NEW r \in AlarmState, NEW b \in Int, Plain(c, r, b),
         ~r.endless, NEW t \in Int,
         ByNext(c, r, b, t) \/ (c.userDirection /\ c.prevTime = t /\ ByLast(c, r, b, t)),
         c.userDirection => c.prevTime = t \/ ~Reached(c, c.prevTime, r.ringTime)
  PROVE  LET q == PreCheck(c, r) IN
         /\ q \in AlarmState /\ Alike(q, r) /\ q.onPrevStep = r.onPrevStep
         /\ ~q.endless => ByNext(c, q, b, t)
<1> DEFINE p == IF c.userDirection THEN PushRingTime(c, r, c.prevTime) ELSE r
           q == [p EXCEPT !.userRingTime = FALSE, !.userInterval = FALSE]
<1>1. PreCheck(c, r) = q
  <2>1. ~(c.currStep * c.prevStep < 0)
    BY ProductSign DEF OneSign, ClockState
  <2> QED
    BY <2>1 DEF PreCheck, Plain
<1>2. /\ p \in AlarmState /\ Alike(p, r) /\ p.onPrevStep = r.onPrevStep
      /\ ~p.endless => ByNext(c, p, b, t)
  <2>1. CASE c.userDirection /\ c.prevTime = t
    BY <2>1, PushedNext
  <2>2. CASE c.userDirection /\ c.prevTime # t
    <3>1. c.prevTime \in Int
      BY ClockTimes
    <3>2. p = r
      BY <2>2, <3>1, PushNone
    <3> QED
      BY <2>2, <3>2 DEF Alike, Same
  <2>3. CASE ~c.userDirection
    BY <2>3 DEF Alike, Same
  <2> QED
    BY <2>1, <2>2, <2>3
<1> HIDE DEF p
<1>3. q \in AlarmState
  BY <1>2, Field, Zenon
<1>4. ~p.userRingTime /\ ~p.userInterval
  BY <1>2 DEF Alike, Same, Plain
<1>5. Alike(q, p) /\ Placed(q, p) /\ q.onPrevStep = p.onPrevStep /\ q.endless = p.endless
  BY <1>2, <1>3, <1>4, FieldType DEF AlarmState, Alike, Same, Placed
<1> HIDE DEF q
<1>6. Alike(q, r)
  BY <1>2, <1>5 DEF Alike, Same
<1>7. ~q.endless => ByNext(c, q, b, t)
  BY <1>2, <1>5, PlacedIs
<1> QED
  BY <1>1, <1>2, <1>3, <1>5, <1>6, <1>7
\* What the check of a step forward from t does to an alarm that rings as promised.  For a new alarm
\* t is the step before the clock's time, whether the clock was there or not.
LEMMA ForwardRing ==
  ASSUME NEW c \in ClockState, OneSign(c), c.currTime > Origin,
         NEW r \in AlarmState, NEW b \in Int, Plain(c, r, b), ~r.endless,
         NEW t, Grid(c, t), c.currTime = t + c.timeStep,
         ByNext(c, r, b, t) \/ (c.userDirection /\ c.prevTime = t /\ ByLast(c, r, b, t)),
         c.userDirection => c.prevTime = t \/ ~Reached(c, c.prevTime, r.ringTime),
         IF c.advanceCount = 0 THEN Since(c, t) < Since(c, b) ELSE c.prevTime = t
  PROVE  LET f == CheckForward(c, r) IN
         /\ f \in AlarmState /\ Alike(f, r)
         /\ ~f.endless => ByNext(c, f, b, c.currTime) /\ f.onPrevStep = r.onCurrStep
<1> DEFINE first == [r EXCEPT !.onPrevStep = r.onCurrStep]
           q     == PreCheck(c, first)
           p     == TurnOnOrOff(c, q)
           k     == IF p.ringing THEN [p EXCEPT !.ringingCount = @ + 1] ELSE p
           f     == CheckForward(c, r)
<1>1. t \in Int /\ c.currTime \in Int /\ c.prevTime \in Int /\ c.timeStep # 0
  BY GridNext, ClockTimes DEF OneSign
<1>2. /\ first \in AlarmState /\ Alike(first, r) /\ Placed(first, r)
      /\ ~first.endless /\ first.onPrevStep = r.onCurrStep
  BY DEF AlarmState, Alike, Same, Placed
<1> HIDE DEF first
<1>3. Plain(c, first, b)
  BY <1>2, PlainAlike
<1>4. first.enabled /\ ~Rejected(c, first)
  BY <1>3 DEF Plain, Rejected
<1>5. /\ q \in AlarmState /\ Alike(q, first) /\ q.onPrevStep = first.onPrevStep
      /\ ~q.endless => ByNext(c, q, b, t)
  <2>1. ByNext(c, first, b, t) \/ (c.userDirection /\ c.prevTime = t /\ ByLast(c, first, b, t))
    BY <1>2, PlacedIs
  <2>2. c.userDirection => c.prevTime = t \/ ~Reached(c, c.prevTime, first.ringTime)
    BY <1>2 DEF Placed
  <2> QED
    BY <1>1, <1>2, <1>3, <2>1, <2>2, PreCheckPlain
<1>6. Plain(c, q, b)
  BY <1>3, <1>5, PlainAlike
<1>7. q.enabled /\ ~q.sticky /\ q.stopTime = Origin
  BY <1>6 DEF Plain
<1>8. f = IF q.endless THEN q
          ELSE IF k.sticky /\ k.ringInterval # 0 /\ c.advanceCount # 0
               THEN PushRingTime(c, k, c.currTime) ELSE k
  BY <1>4 DEF CheckForward, first
<1> HIDE DEF q
<1>9. /\ Leaves(k, q)
      /\ TurnsOn(c, q, k) \/ TurnsOff(c, q, k) \/ RingsOn(c, q, k) \/ StaysOff(c, q, k)
  BY <1>5, <1>7, TurnedPlain
<1> HIDE DEF k
<1>10. ~k.sticky
  BY <1>7, <1>9 DEF Leaves, Alike, Same
<1> HIDE DEF f
<1>11. CASE q.endless
  <2>1. f = q
    BY <1>8, <1>11
  <2>2. Alike(f, r)
    BY <1>2, <1>5, <2>1 DEF Alike, Same
  <2> QED
    BY <1>5, <1>11, <2>1, <2>2 DEF f
<1>12. CASE ~q.endless
  <2>1. f = k
    BY <1>8, <1>10, <1>12
  <2>2. Alike(f, r) /\ f \in AlarmState /\ f.onPrevStep = r.onCurrStep
    BY <1>2, <1>5, <1>9, <2>1 DEF Leaves, Alike, Same
  <2>3. ByNext(c, q, b, t)
    BY <1>5, <1>12
  <2>4. Crossed(c, q) <=> /\ Since(c, q.ringTime) <= Since(c, c.currTime)
                          /\ Since(c, t) < Since(c, q.ringTime)
    <3>1. q.ringTime \in Int
      BY <1>5, FieldType
    <3>2. /\ Reached(c, c.currTime, q.ringTime) <=> Since(c, c.currTime) >= Since(c, q.ringTime)
          /\ Reached(c, t, q.ringTime) <=> Since(c, t) >= Since(c, q.ringTime)
      BY <1>1, <3>1, SinceReached
    <3>3. /\ Since(c, c.currTime) \in Int /\ Since(c, t) \in Int /\ Since(c, q.ringTime) \in Int
          /\ Since(c, b) \in Int
      BY <1>1, <3>1, SinceType
    <3>4. Since(c, q.ringTime) >= Since(c, b)
      <4>1. q.ringInterval \in Int /\ Along(c, q.ringInterval)
        BY <1>5, <1>6, FieldType DEF Plain
      <4>2. CASE q.ringTime = b
        BY <3>3, <4>2
      <4>3. CASE q.ringTime # b
        <5>1. AtEvent(c, q, b, q.ringTime - q.ringInterval, t) /\ q.ringInterval # 0
          BY <2>3, <4>3 DEF ByNext
        <5>2. Since(c, q.ringTime - q.ringInterval) >= Since(c, b)
          BY <1>1, <4>1, <5>1, InstantIs DEF AtEvent
        <5>3. Since(c, q.ringTime - q.ringInterval) = Since(c, q.ringTime) - Abs(q.ringInterval)
          BY <1>1, <3>1, <4>1, SinceAlong
        <5>4. Abs(q.ringInterval) \in Nat
          BY <4>1, AbsType
        <5> QED
          BY <3>3, <5>2, <5>3, <5>4
      <4> QED
        BY <4>2, <4>3
    <3> QED
      BY <3>2, <3>3, <3>4 DEF Crossed
  <2>5. ByNext(c, k, b, c.currTime)
    BY <1>5, <1>6, <1>9, <2>3, <2>4, NextToNext
  <2> QED
    BY <1>12, <2>1, <2>2, <2>5 DEF f
<1> QED
  BY <1>11, <1>12
-----------------------------------------------------------------------------
(* The inductive invariant of ringing at time steps                         *)

\* With no step of another size than its own, the clock is a whole number of steps from its start.
Even(c) == /\ c.currTime = StartTime + c.advanceCount * c.timeStep
           /\ c.advanceCount > 0 => c.prevTime = c.currTime - c.timeStep

\* The alarm's ring time is the next instant or the last, by the way of the step last taken; when
\* the clock has been turned since, it may be either.
InPlace(c, r, b) ==
  /\ ByNext(c, r, b, c.currTime) \/ ByLast(c, r, b, c.currTime)
  /\ ~c.userDirection => IF c.direction = Forward THEN ByNext(c, r, b, c.currTime)
                                                  ELSE ByLast(c, r, b, c.currTime)

\* e is the last instant to have begun at step t or to begin at the one after.
LastBefore(c, r, b, e, t) ==
  /\ OnInstant(e, b, r.ringInterval)
  /\ e # b => Begins(c, e) - Size(c) <= Since(c, t)
  /\ r.ringInterval # 0 => Since(c, t) < Since(c, e + r.ringInterval)

\* The flag of the previous step tells whether the alarm rang at the step before in time.
PrevSeen(c, r, b) ==
  /\ c.advanceCount > 0 /\ ~c.userDirection
  /\ IF c.direction = Forward THEN RingSpan(c, r) = c.timeStep
                              ELSE ByDuration(r) => r.ringDuration % Abs(c.timeStep) = 0
  => \E e : /\ LastBefore(c, r, b, e, c.prevTime)
            /\ r.onPrevStep <=> InRing(c, r, e, c.prevTime)

RingState(c, r, b) == /\ Plain(c, r, b)
                      /\ ~r.endless => InPlace(c, r, b) /\ PrevSeen(c, r, b)

RingInv ==
  /\ SignInv
  /\ base \in [Alarm -> Int] /\ clean \in [Alarm -> BOOLEAN] /\ odd \in Nat
  /\ clock.currTime > Origin
  /\ odd = 0 => Even(clock) /\ oneSign
  /\ \A a \in Alarm : clean[a] => /\ odd = 0 /\ Exists(a)
                                  /\ RingState(clock, alarm[a], base[a])

-----------------------------------------------------------------------------
(* One step of the clock, one alarm                                         *)

LEMMA EvenIs == ASSUME NEW c \in ClockState, OneSign(c), Even(c)
                PROVE  /\ Grid(c, c.currTime) /\ c.currTime \in Int
                       /\ Since(c, c.currTime) = c.advanceCount * Size(c)
                       /\ c.advanceCount >= 0 => Since(c, c.currTime) >= 0
                       /\ c.advanceCount > 0 => Grid(c, c.prevTime)
<1>1. /\ c.advanceCount \in Int /\ c.timeStep # 0 /\ StartTime \in Int /\ c.currTime \in Int
      /\ Size(c) \in Nat \ {0} /\ Since(c, StartTime) = 0
  BY SinceType, ClockAssumption DEF ClockState, OneSign, Since
<1>2. Grid(c, c.currTime)
  BY <1>1 DEF Even, Grid
<1>3. Since(c, c.currTime) = Since(c, StartTime) + c.advanceCount * Size(c)
  <2>1. Since(c, StartTime + c.advanceCount * c.timeStep)
          = Since(c, StartTime) + c.advanceCount * Size(c)
    BY <1>1, SinceSteps
  <2> QED
    BY <2>1 DEF Even
<1>4. c.advanceCount >= 0 => c.advanceCount * Size(c) >= 0
  BY <1>1, ProductSign
<1>5. c.advanceCount > 0 => Grid(c, c.prevTime)
  BY <1>2, GridNext DEF Even
<1>6. c.advanceCount * Size(c) \in Int
  BY <1>1, ProductType
<1> QED
  BY <1>1, <1>2, <1>3, <1>4, <1>5, <1>6

LEMMA AtEventBefore == ASSUME NEW c \in ClockState, OneSign(c), NEW r \in AlarmState, NEW b \in Int,
                              Plain(c, r, b), NEW e, NEW t, Grid(c, t), AtEvent(c, r, b, e, t)
                       PROVE  LastBefore(c, r, b, e, t)
<1>1. c.timeStep # 0 /\ r.ringStepCount > 0 /\ r.ringInterval \in Int /\ Along(c, r.ringInterval)
  BY FieldType DEF OneSign, Plain
<1>2. OnInstant(e, b, r.ringInterval) /\ e \in Int
  BY <1>1, InstantIs DEF AtEvent
<1>3. /\ Since(c, t) \in Int /\ Since(c, e) \in Int /\ Begins(c, e) \in Int
      /\ Size(c) \in Nat \ {0} /\ Begins(c, e) < Since(c, e) + Size(c)
  BY <1>1, <1>2, BeginsIs
<1> QED
  BY <1>2, <1>3 DEF AtEvent, LastBefore

\* What the invariant says of an alarm depends on what stays when only the clock's memory of a turn
\* is changed.
LEMMA RingStateSame == ASSUME NEW c, NEW d, d.timeStep = c.timeStep, d.currTime = c.currTime,
                              d.prevTime = c.prevTime, d.advanceCount = c.advanceCount,
                              NEW r, NEW b, RingState(c, r, b),
                              d.userDirection \/ (~c.userDirection /\ d.direction = c.direction)
                       PROVE  RingState(d, r, b)
<1>1. Alike(r, r) /\ Placed(r, r)
  BY DEF Alike, Same, Placed
<1>2. Plain(d, r, b)
  BY <1>1, PlainAlike DEF RingState
<1>3. /\ ByNext(d, r, b, d.currTime) <=> ByNext(c, r, b, c.currTime)
      /\ ByLast(d, r, b, d.currTime) <=> ByLast(c, r, b, c.currTime)
  BY <1>1, PlacedIs
<1>4. InPlace(c, r, b) => InPlace(d, r, b)
  BY <1>3 DEF InPlace
<1>5. /\ RingSpan(d, r) = RingSpan(c, r) /\ Size(d) = Size(c)
      /\ \A e : Begins(d, e) = Begins(c, e)
      /\ \A t : Since(d, t) = Since(c, t)
      /\ \A e, t : InRing(d, r, e, t) <=> InRing(c, r, e, t)
  BY <1>1, AlikeIs
<1>6. \A e, t : LastBefore(d, r, b, e, t) <=> LastBefore(c, r, b, e, t)
  BY <1>5 DEF LastBefore
<1>7. PrevSeen(c, r, b) => PrevSeen(d, r, b)
  BY <1>5, <1>6 DEF PrevSeen
<1> QED
  BY <1>2, <1>4, <1>7 DEF RingState

LEMMA AheadRing ==
  ASSUME NEW c \in ClockState, OneSign(c), Even(c), c.direction = Forward, c.currTime > Origin,
         NEW r \in AlarmState, NEW b \in Int, RingState(c, r, b), ~r.endless,
         NEW d \in ClockState, OneSign(d), d.timeStep = c.timeStep, d.direction = Forward,
         d.prevTime = c.currTime, d.currTime = c.currTime + c.timeStep, d.currTime > Origin,
         d.advanceCount = c.advanceCount + 1, d.userDirection = c.userDirection
  PROVE  LET f == CheckForward(d, r) IN
         /\ f \in AlarmState /\ Plain(d, f, b)
         /\ ~f.endless => /\ ByNext(d, f, b, d.currTime)
                          /\ RingSpan(d, f) = d.timeStep =>
                               \E e : /\ LastBefore(d, f, b, e, d.prevTime)
                                      /\ f.onPrevStep <=> InRing(d, f, e, d.prevTime)
<1> DEFINE t == c.currTime
           f == CheckForward(d, r)
<1>1. /\ Grid(c, t) /\ t \in Int /\ Since(c, t) = c.advanceCount * Size(c) /\ c.advanceCount \in Int
      /\ Size(c) \in Nat \ {0} /\ d.timeStep # 0
  BY EvenIs, SinceType DEF ClockState, OneSign
<1>2. Alike(r, r) /\ Placed(r, r)
  BY DEF Alike, Same, Placed
<1>3. Plain(c, r, b) /\ InPlace(c, r, b)
  BY DEF RingState
<1>4. Plain(d, r, b)
  BY <1>2, <1>3, PlainAlike
<1>5. Grid(d, t) /\ Since(d, t) = Since(c, t)
  BY <1>1, <1>2, AlikeIs
<1>6. ByNext(d, r, b, t) \/ (d.userDirection /\ d.prevTime = t /\ ByLast(d, r, b, t))
  <2>1. ByNext(c, r, b, t) \/ (c.userDirection /\ ByLast(c, r, b, t))
    BY <1>3 DEF InPlace
  <2>2. /\ ByNext(d, r, b, t) <=> ByNext(c, r, b, t)
        /\ ByLast(d, r, b, t) <=> ByLast(c, r, b, t)
    BY <1>2, PlacedIs
  <2> QED
    BY <2>1, <2>2
<1>7. IF d.advanceCount = 0 THEN Since(d, t) < Since(d, b) ELSE d.prevTime = t
  <2>1. d.advanceCount = 0 => Since(c, t) = -Size(c)
    <3>1. d.advanceCount = 0 => c.advanceCount = -1
      BY <1>1
    <3>2. (-1) * Size(c) = -Size(c)
      BY <1>1
    <3> QED
      BY <1>1, <3>1, <3>2
  <2>2. Since(d, b) >= 0 /\ Since(d, b) \in Int
    BY <1>1, <1>4, SinceType DEF Plain
  <2> QED
    BY <1>1, <1>5, <2>1, <2>2
<1>8. /\ f \in AlarmState /\ Alike(f, r)
      /\ ~f.endless => ByNext(d, f, b, d.currTime) /\ f.onPrevStep = r.onCurrStep
  BY <1>4, <1>5, <1>6, <1>7, ForwardRing
<1> HIDE DEF f
<1>9. Plain(d, f, b)
  BY <1>4, <1>8, PlainAlike
<1>10. ASSUME ~f.endless, RingSpan(d, f) = d.timeStep
       PROVE  \E e : /\ LastBefore(d, f, b, e, d.prevTime)
                     /\ f.onPrevStep <=> InRing(d, f, e, d.prevTime)
  <2>1. PICK e : AtEvent(d, r, b, e, t)
    BY <1>6 DEF ByNext, ByLast
  <2>2. LastBefore(d, r, b, e, t)
    BY <1>4, <1>5, <2>1, AtEventBefore
  <2>3. /\ RingSpan(d, f) = RingSpan(d, r) /\ f.ringInterval = r.ringInterval
        /\ InRing(d, f, e, t) <=> InRing(d, r, e, t)
    BY <1>8, AlikeIs DEF Alike, Same
  <2>4. f.onPrevStep <=> InRing(d, r, e, t)
    BY <1>8, <1>10, <2>1, <2>3 DEF AtEvent
  <2>5. LastBefore(d, f, b, e, t)
    BY <2>2, <2>3 DEF LastBefore
  <2> QED
    BY <2>3, <2>4, <2>5
<1> QED
  BY <1>8, <1>9, <1>10 DEF f

LEMMA BackRing ==
  ASSUME NEW c \in ClockState, OneSign(c), Even(c), c.direction = Reverse, c.currTime > Origin,
         NEW r \in AlarmState, NEW b \in Int, RingState(c, r, b), ~r.endless,
         NEW d \in ClockState, OneSign(d), d.timeStep = c.timeStep, d.direction = Reverse,
         d.prevTime = c.prevTime - c.timeStep, d.currTime = c.currTime - c.timeStep,
         d.currTime > Origin, d.advanceCount = c.advanceCount - 1,
         d.userDirection = c.userDirection
  PROVE  LET f == CheckReverse(d, r) IN
         /\ f \in AlarmState /\ Plain(d, f, b)
         /\ ByLast(d, f, b, d.currTime)
         /\ /\ d.advanceCount > 0
            /\ ByDuration(f) => f.ringDuration % Abs(d.timeStep) = 0
            => /\ LastBefore(d, f, b, f.ringTime, d.prevTime)
               /\ f.onPrevStep <=> InRing(d, f, f.ringTime, d.prevTime)
<1> DEFINE t == c.currTime
           u == d.currTime
           w == d.prevTime
           f == CheckReverse(d, r)
<1>1. /\ Grid(c, t) /\ t \in Int /\ c.advanceCount \in Int /\ d.timeStep # 0 /\ d.timeStep \in Int
  BY EvenIs DEF ClockState, OneSign
<1>2. Alike(r, r) /\ Placed(r, r)
  BY DEF Alike, Same, Placed
<1>3. Plain(c, r, b) /\ InPlace(c, r, b)
  BY DEF RingState
<1>4. Plain(d, r, b)
  BY <1>2, <1>3, PlainAlike
<1>5. Grid(d, t)
  BY <1>1, <1>2, AlikeIs
<1>6. ByLast(d, r, b, t) \/ (d.userDirection /\ ByNext(d, r, b, t))
  <2>1. ByLast(c, r, b, t) \/ (c.userDirection /\ ByNext(c, r, b, t))
    <3>1. Forward # Reverse
      BY DEF Forward, Reverse
    <3> QED
      BY <1>3, <3>1 DEF InPlace
  <2>2. /\ ByNext(d, r, b, t) <=> ByNext(c, r, b, t)
        /\ ByLast(d, r, b, t) <=> ByLast(c, r, b, t)
    BY <1>2, PlacedIs
  <2> QED
    BY <2>1, <2>2
<1>7. /\ f \in AlarmState /\ Alike(f, r) /\ ~f.endless
      /\ ByLast(d, f, b, u)
      /\ /\ w = u - d.timeStep
         /\ ByDuration(r) => r.ringDuration % Size(d) = 0
         => (f.onPrevStep <=> InRing(d, f, f.ringTime, w))
  BY <1>4, <1>5, <1>6, ReverseRing
<1> HIDE DEF f
<1>8. Plain(d, f, b)
  BY <1>4, <1>7, PlainAlike
<1>9. ASSUME d.advanceCount > 0, ByDuration(f) => f.ringDuration % Abs(d.timeStep) = 0
      PROVE  /\ LastBefore(d, f, b, f.ringTime, w)
             /\ f.onPrevStep <=> InRing(d, f, f.ringTime, w)
  <2>1. w = u - d.timeStep
    <3>1. c.advanceCount > 0
      BY <1>1, <1>9
    <3> QED
      BY <3>1 DEF Even
  <2>2. ByDuration(r) => r.ringDuration % Size(d) = 0
    BY <1>7, <1>9 DEF Alike, ByDuration, Size
  <2>3. Grid(d, u) /\ u \in Int /\ Since(d, w) = Since(d, u) - Size(d)
    <3>1. u = t - d.timeStep
      OBVIOUS
    <3>2. Grid(d, u)
      BY <1>5, <3>1, GridNext
    <3> QED
      BY <1>1, <2>1, <3>2, GridNext, SinceStep
  <2>4. AtEvent(d, f, b, f.ringTime, u)
    BY <1>7 DEF ByLast
  <2>5. f.ringStepCount > 0 /\ f.ringTime \in Int /\ f.ringInterval \in Int
    BY <1>7, <1>8, FieldType DEF Plain
  <2>6. /\ Since(d, u) \in Int /\ Since(d, f.ringTime) \in Int /\ Begins(d, f.ringTime) \in Int
        /\ Size(d) \in Nat \ {0}
        /\ Begins(d, f.ringTime) < Since(d, f.ringTime) + Size(d)
        /\ Since(d, u) < Begins(d, f.ringTime) => Since(d, u) + Size(d) <= Begins(d, f.ringTime)
    BY <1>1, <1>7, <2>3, <2>5, BeginsIs
  <2>7. f.ringTime + f.ringInterval \in Int
    BY <2>5
  <2>8. Since(d, f.ringTime + f.ringInterval) \in Int
    BY <1>1, <2>7, SinceType
  <2> HIDE DEF u, w
  <2>9. LastBefore(d, f, b, f.ringTime, w)
    <3>1. f.ringTime # b => Begins(d, f.ringTime) - Size(d) <= Since(d, w)
      BY <2>3, <2>4, <2>6 DEF AtEvent
    <3>2. f.ringInterval # 0 => Since(d, w) < Since(d, f.ringTime + f.ringInterval)
      BY <2>3, <2>4, <2>6, <2>8 DEF AtEvent
    <3> QED
      BY <2>4, <3>1, <3>2 DEF AtEvent, LastBefore
  <2> QED
    BY <1>7, <2>1, <2>2, <2>9
<1> QED
  BY <1>7, <1>8, <1>9 DEF f
\* When the check is over the clock forgets that it was turned.
LEMMA CheckedState ==
  ASSUME NEW d, NEW k, k.timeStep = d.timeStep, k.currTime = d.currTime, k.prevTime = d.prevTime,
         k.advanceCount = d.advanceCount, k.direction = d.direction, ~k.userDirection,
         NEW f, NEW b, Plain(d, f, b),
         ~f.endless => IF d.direction = Forward THEN ByNext(d, f, b, d.currTime)
                                                ELSE ByLast(d, f, b, d.currTime),
         /\ ~f.endless /\ d.advanceCount > 0
         /\ IF d.direction = Forward THEN RingSpan(d, f) = d.timeStep
                                     ELSE ByDuration(f) => f.ringDuration % Abs(d.timeStep) = 0
         => \E e : /\ LastBefore(d, f, b, e, d.prevTime)
                   /\ f.onPrevStep <=> InRing(d, f, e, d.prevTime)
  PROVE  RingState(k, f, b)
<1>1. Alike(f, f) /\ Placed(f, f)
  BY DEF Alike, Same, Placed
<1>2. Plain(k, f, b)
  BY <1>1, PlainAlike
<1>3. /\ ByNext(k, f, b, k.currTime) <=> ByNext(d, f, b, d.currTime)
      /\ ByLast(k, f, b, k.currTime) <=> ByLast(d, f, b, d.currTime)
  BY <1>1, PlacedIs
<1>4. ~f.endless => InPlace(k, f, b)
  BY <1>3 DEF InPlace
<1>5. /\ RingSpan(k, f) = RingSpan(d, f) /\ Size(k) = Size(d)
      /\ \A e : Begins(k, e) = Begins(d, e)
      /\ \A t : Since(k, t) = Since(d, t)
      /\ \A e, t : InRing(k, f, e, t) <=> InRing(d, f, e, t)
  BY <1>1, AlikeIs
<1>6. \A e, t : LastBefore(k, f, b, e, t) <=> LastBefore(d, f, b, e, t)
  BY <1>5 DEF LastBefore
<1>7. ~f.endless => PrevSeen(k, f, b)
  BY <1>5, <1>6 DEF PrevSeen
<1> QED
  BY <1>2, <1>4, <1>7 DEF RingState

\* A step of the clock's own size.
LEMMA StepRing ==
  ASSUME NEW c \in ClockState, OneSign(c), Even(c), c.currTime > Origin,
         NEW d, d = Stepped(c, c.timeStep), d.currTime > Origin,
         NEW r \in AlarmState, NEW b \in Int, RingState(c, r, b), ~r.endless
  PROVE  LET k == [d EXCEPT !.userDirection = FALSE]
             f == CheckRingTime(d, r)
         IN  f \in AlarmState /\ RingState(k, f, b)
<1> DEFINE k == [d EXCEPT !.userDirection = FALSE]
           f == CheckRingTime(d, r)
<1>1. d \in ClockState /\ OneSign(d) /\ d.timeStep = c.timeStep
  <2>1. c.timeStep \in Int \ {0} /\ c.timeStep * c.timeStep >= 0
    BY ProductSign DEF ClockState, OneSign
  <2> QED
    BY <2>1, SteppedType, SteppedSign
<1>2. /\ k.timeStep = d.timeStep /\ k.currTime = d.currTime /\ k.prevTime = d.prevTime
      /\ k.advanceCount = d.advanceCount /\ k.direction = d.direction /\ ~k.userDirection
  BY <1>1 DEF ClockState
<1> HIDE DEF k
<1>3. CASE c.direction = Forward
  <2>1. /\ d.direction = Forward /\ d.prevTime = c.currTime /\ d.currTime = c.currTime + c.timeStep
        /\ d.advanceCount = c.advanceCount + 1 /\ d.userDirection = c.userDirection
    BY <1>3 DEF Stepped, ClockState
  <2>2. f = CheckForward(d, r)
    BY <2>1 DEF CheckRingTime
  <2>3. /\ f \in AlarmState /\ Plain(d, f, b)
        /\ ~f.endless => /\ ByNext(d, f, b, d.currTime)
                         /\ RingSpan(d, f) = d.timeStep =>
                              \E e : /\ LastBefore(d, f, b, e, d.prevTime)
                                     /\ f.onPrevStep <=> InRing(d, f, e, d.prevTime)
    BY <1>1, <1>3, <2>1, <2>2, AheadRing
  <2> HIDE DEF f
  <2>4. RingState(k, f, b)
    BY <1>2, <2>1, <2>3, CheckedState
  <2> QED
    BY <2>3, <2>4 DEF f, k
<1>4. CASE c.direction = Reverse
  <2>1. /\ d.direction = Reverse /\ d.prevTime = c.prevTime - c.timeStep
        /\ d.currTime = c.currTime - c.timeStep
        /\ d.advanceCount = c.advanceCount - 1 /\ d.userDirection = c.userDirection
    BY <1>4 DEF Stepped, ClockState, Forward, Reverse
  <2>2. f = CheckReverse(d, r) /\ d.direction # Forward
    BY <2>1 DEF CheckRingTime, Forward, Reverse
  <2>3. /\ f \in AlarmState /\ Plain(d, f, b)
        /\ ByLast(d, f, b, d.currTime)
        /\ /\ d.advanceCount > 0
           /\ ByDuration(f) => f.ringDuration % Abs(d.timeStep) = 0
           => /\ LastBefore(d, f, b, f.ringTime, d.prevTime)
              /\ f.onPrevStep <=> InRing(d, f, f.ringTime, d.prevTime)
    BY <1>1, <1>4, <2>1, <2>2, BackRing
  <2> HIDE DEF f
  <2>4. RingState(k, f, b)
    BY <1>2, <2>2, <2>3, CheckedState
  <2> QED
    BY <2>3, <2>4 DEF f, k
<1> QED
  BY <1>3, <1>4 DEF ClockState

LEMMA NewAlarmIs ==
  ASSUME NEW c \in ClockState, NEW q \in Request
  PROVE  LET r == NewAlarm(c, q) IN
         /\ r.ringTime \in Int /\ r.prevRingTime = r.ringTime /\ r.firstRingTime = r.ringTime
         /\ r.ringInterval = q.ringInterval /\ r.ringBegin = Origin /\ r.ringingCount = 0
         /\ ~r.ringing /\ ~r.onCurrStep /\ ~r.onPrevStep
         /\ ~r.userRingTime /\ ~r.userInterval /\ ~r.endless
<1>1. NewAlarm(c, q).ringTime \in Int
  BY NewAlarmType, FieldType
<1> QED
  BY <1>1 DEF NewAlarm

\* An alarm created before its first ring time or at it.
LEMMA NewRing ==
  ASSUME NEW c \in ClockState, OneSign(c), Even(c), c.currTime > Origin, c.direction = Forward,
         c.advanceCount >= 0,
         NEW r \in AlarmState, r.prevRingTime = r.ringTime, r.firstRingTime = r.ringTime,
         r.ringBegin = Origin, r.ringingCount = 0, ~r.ringing, ~r.onCurrStep,
         ~r.userRingTime, ~r.userInterval, ~r.endless,
         r.enabled, ~r.sticky, r.stopTime = Origin, r.ringStepCount > 0,
         Along(c, r.ringInterval), Along(c, r.ringDuration), Separated(c, r), Aligned(c, r),
         Reached(c, r.ringTime, c.currTime),
         c.userDirection => Beyond(c, r.ringTime, c.prevTime),
         NEW k, k = [c EXCEPT !.userDirection = FALSE]
  PROVE  LET f == CheckRingTime(c, r) IN
         f \in AlarmState /\ RingState(k, f, r.ringTime)
<1> DEFINE u == c.currTime
           b == r.ringTime
           i == r.ringInterval
           t == u - c.timeStep
           f == CheckRingTime(c, r)
<1>1. /\ k.timeStep = c.timeStep /\ k.currTime = c.currTime /\ k.prevTime = c.prevTime
      /\ k.advanceCount = c.advanceCount /\ k.direction = c.direction /\ ~k.userDirection
  BY DEF ClockState
<1>2. /\ u \in Int /\ b \in Int /\ i \in Int /\ c.timeStep \in Int /\ c.timeStep # 0
      /\ c.prevTime \in Int /\ c.advanceCount \in Int /\ b + i \in Int
  BY FieldType DEF ClockState, OneSign
<1>3. /\ Grid(c, u) /\ Grid(c, t) /\ u = t + c.timeStep /\ t \in Int /\ Since(c, u) >= 0
      /\ c.advanceCount # 0 => c.prevTime = t
  BY <1>2, EvenIs, GridNext DEF Even
<1>4. /\ Since(c, u) \in Int /\ Since(c, b) \in Int /\ Size(c) \in Nat \ {0}
      /\ Since(c, t) = Since(c, u) - Size(c) /\ Since(c, b) >= Since(c, u)
      /\ Since(c, b + i) >= Since(c, b) /\ Since(c, b + i) \in Int
  <2>1. Since(c, t) = Since(c, u) - Size(c)
    BY <1>2, SinceStep
  <2>2. Since(c, b) >= Since(c, u)
    BY <1>2, SinceReached
  <2>3. Since(c, b + i) = Since(c, b) + Abs(i) /\ Abs(i) \in Nat
    BY <1>2, SinceAlong, AbsType
  <2>4. Since(c, u) \in Int /\ Since(c, b) \in Int /\ Size(c) \in Nat \ {0}
    BY <1>2, SinceType
  <2> QED
    BY <2>1, <2>2, <2>3, <2>4
<1>5. Plain(c, r, b)
  BY <1>3, <1>4 DEF Plain, Aligned
<1>6. Begins(c, b) \in Int /\ Since(c, b) <= Begins(c, b)
  BY <1>2, OnStepIs
<1>7. OnInstant(b, b, i)
  BY <1>2, Instants0
<1> HIDE DEF b, i, t, u
<1>8. ~InRing(c, r, b, t)
  BY <1>4, <1>6 DEF InRing
<1>9. ByNext(c, r, b, t)
  <2>1. AtEvent(c, r, b, b, t)
    BY <1>4, <1>7, <1>8 DEF AtEvent, i
  <2>2. Begun(c, r, b, t)
    BY <1>4 DEF Begun, b
  <2>3. r.ringTime = b /\ Since(c, t) < Since(c, b)
    BY <1>4 DEF b
  <2> QED
    BY <2>1, <2>2, <2>3 DEF ByNext
<1>10. c.userDirection => ~Reached(c, c.prevTime, r.ringTime)
  <2>1. /\ Beyond(c, b, c.prevTime) <=> Since(c, b) > Since(c, c.prevTime)
        /\ Reached(c, c.prevTime, b) <=> Since(c, c.prevTime) >= Since(c, b)
    BY <1>2, SinceReached
  <2>2. Since(c, c.prevTime) \in Int
    BY <1>2, SinceType
  <2> QED
    BY <1>4, <2>1, <2>2 DEF b
<1>11. f = CheckForward(c, r)
  BY DEF CheckRingTime
<1>12. /\ f \in AlarmState /\ Alike(f, r)
       /\ ~f.endless => ByNext(c, f, b, u) /\ f.onPrevStep = r.onCurrStep
  <2>1. IF c.advanceCount = 0 THEN Since(c, t) < Since(c, b) ELSE c.prevTime = t
    BY <1>3, <1>4
  <2> QED
    BY <1>2, <1>3, <1>5, <1>9, <1>10, <1>11, <2>1, ForwardRing DEF u
<1> HIDE DEF f
<1>13. Plain(c, f, b)
  BY <1>5, <1>12, PlainAlike
<1>14. ASSUME ~f.endless, c.advanceCount > 0
       PROVE  \E e : /\ LastBefore(c, f, b, e, c.prevTime)
                     /\ f.onPrevStep <=> InRing(c, f, e, c.prevTime)
  <2>1. c.prevTime = t
    BY <1>2, <1>3, <1>14
  <2>2. f.ringInterval = i /\ (InRing(c, f, b, t) <=> InRing(c, r, b, t))
    BY <1>12, AlikeIs DEF Alike, Same, i
  <2>3. LastBefore(c, f, b, b, t)
    BY <1>4, <1>7, <2>2 DEF LastBefore
  <2>4. ~f.onPrevStep
    BY <1>12, <1>14
  <2> QED
    BY <1>8, <2>1, <2>2, <2>3, <2>4
<1>15. RingState(k, f, b)
  BY <1>1, <1>12, <1>13, <1>14, CheckedState DEF u
<1> QED
  BY <1>12, <1>15 DEF f, b
-----------------------------------------------------------------------------
(* The steps of the contract keep the invariant of ringing                  *)

LEMMA InitRing == InitH => RingInv
<1> SUFFICES ASSUME InitH PROVE RingInv
  OBVIOUS
<1>1. SignInv
  BY InitSign
<1>2. base \in [Alarm -> Int] /\ clean \in [Alarm -> BOOLEAN] /\ odd = 0 /\ oneSign
  BY ClockAssumption DEF InitH
<1>3. \A a \in Alarm : ~clean[a]
  BY DEF InitH
<1>4. clock.currTime = StartTime /\ clock.advanceCount = 0 /\ clock.timeStep \in Int
  BY <1>1 DEF InitH, Init, NewClock, SignInv, ClockInv, TypeOK, ClockState
<1>5. clock.currTime > Origin /\ Even(clock)
  BY <1>4, OriginFirst DEF Even
<1> QED
  BY <1>1, <1>2, <1>3, <1>5 DEF RingInv

LEMMA SteppedEven == ASSUME NEW c \in ClockState, OneSign(c), Even(c),
                            NEW k, k = [Stepped(c, c.timeStep) EXCEPT !.userDirection = FALSE]
                     PROVE  Even(k)
<1>1. /\ c.currTime \in Int /\ c.prevTime \in Int /\ c.timeStep \in Int /\ c.advanceCount \in Int
      /\ StartTime \in Int
  BY ClockAssumption DEF ClockState
<1>2. /\ (c.advanceCount + 1) * c.timeStep = c.advanceCount * c.timeStep + c.timeStep
      /\ (c.advanceCount - 1) * c.timeStep = c.advanceCount * c.timeStep - c.timeStep
      /\ c.advanceCount * c.timeStep \in Int
  BY <1>1
<1>3. CASE c.direction = Forward
  <2>1. /\ k.prevTime = c.currTime /\ k.currTime = c.currTime + c.timeStep
        /\ k.advanceCount = c.advanceCount + 1 /\ k.timeStep = c.timeStep
    BY <1>3 DEF Stepped, ClockState
  <2> QED
    BY <1>1, <1>2, <2>1 DEF Even
<1>4. CASE c.direction # Forward
  <2>1. /\ k.prevTime = c.prevTime - c.timeStep /\ k.currTime = c.currTime - c.timeStep
        /\ k.advanceCount = c.advanceCount - 1 /\ k.timeStep = c.timeStep
    BY <1>4 DEF Stepped, ClockState
  <2>2. k.advanceCount > 0 => c.prevTime = c.currTime - c.timeStep
    BY <1>1, <2>1 DEF Even
  <2> QED
    BY <1>1, <1>2, <2>1, <2>2 DEF Even
<1> QED
  BY <1>3, <1>4

\* The clock never comes to the time of a Time never set.
LEMMA ElapsedOrigin == ASSUME NEW c \in ClockState, Elapsed(c) \in MinElapsed..MaxElapsed
                       PROVE  c.currTime > Origin
<1>1. StartTime + Elapsed(c) > Origin /\ StartTime - Elapsed(c) > Origin
  BY OriginAssumption
<1>2. c.currTime \in Int /\ StartTime \in Int
  BY ClockAssumption DEF ClockState
<1> QED
  BY <1>1, <1>2 DEF Elapsed

LEMMA AdvanceRing == ASSUME RingInv, NEW s \in Int \ {0}, AdvanceH(s)
                     PROVE  RingInv'
<1> DEFINE d == Stepped(clock, s)
           k == [d EXCEPT !.userDirection = FALSE]
<1>1. clock \in ClockState /\ ClockInv /\ (odd = 0 => OneSign(clock))
  BY DEF RingInv, SignInv, ClockInv, TypeOK
<1>2. SignInv'
  BY AdvanceSign DEF RingInv
<1>3. base' \in [Alarm -> Int] /\ clean' \in [Alarm -> BOOLEAN] /\ odd' \in Nat
  BY DEF RingInv, AdvanceH
<1>4. d \in ClockState
  BY <1>1, SteppedType
<1>5. clock' = k /\ Elapsed(d) \in MinElapsed..MaxElapsed /\ Running
  BY DEF AdvanceH, Advance
<1>6. d.currTime > Origin
  BY <1>4, <1>5, ElapsedOrigin
<1>7. clock'.currTime > Origin
  BY <1>4, <1>5, <1>6 DEF ClockState
<1>8. odd' = 0 => odd = 0 /\ s = clock.timeStep
  BY DEF RingInv, AdvanceH
<1>9. odd' = 0 => Even(clock') /\ oneSign'
  <2>1. s = clock.timeStep => SameSign(s)
    BY <1>1, ProductSign DEF SameSign, ClockState
  <2>2. odd' = 0 => oneSign'
    BY <1>8, <2>1 DEF RingInv, AdvanceH
  <2> QED
    BY <1>1, <1>5, <1>8, <2>2, SteppedEven DEF RingInv
<1> HIDE DEF k, d
<1>10. ASSUME NEW a \in Alarm, clean'[a]
       PROVE  odd' = 0 /\ Exists(a)' /\ RingState(clock', alarm'[a], base'[a])
  <2>1. clean[a] /\ s = clock.timeStep /\ base'[a] = base[a]
    BY <1>10 DEF AdvanceH
  <2>2. /\ odd = 0 /\ Exists(a) /\ RingState(clock, alarm[a], base[a]) /\ base[a] \in Int
        /\ Even(clock) /\ clock.currTime > Origin
    BY <2>1 DEF RingInv
  <2>3. odd' = 0
    BY <2>1, <2>2 DEF AdvanceH
  <2>4. alarm[a] \in AlarmState /\ ~alarm[a].endless
    BY <1>1, <1>5, <2>2 DEF ClockInv, TypeOK, Exists, Running
  <2>5. alarm'[a] = CheckRingTime(d, alarm[a])
    BY <2>2 DEF AdvanceH, Advance, d
  <2>6. CheckRingTime(d, alarm[a]) \in AlarmState
        /\ RingState(k, CheckRingTime(d, alarm[a]), base[a])
    BY <1>1, <1>6, <2>1, <2>2, <2>4, StepRing DEF d, k
  <2>7. Exists(a)'
    BY <2>5, <2>6, NoAlarmAssumption DEF Exists
  <2> QED
    BY <1>5, <2>1, <2>3, <2>5, <2>6, <2>7
<1> QED
  BY <1>2, <1>3, <1>7, <1>9, <1>10 DEF RingInv

LEMMA CreateRing == ASSUME RingInv, NEW a \in Alarm, NEW q \in Request, CreateAlarmH(a, q)
                    PROVE  RingInv'
<1> DEFINE n == NewAlarm(clock, q)
           k == [clock EXCEPT !.userDirection = FALSE]
<1>1. clock \in ClockState /\ (odd = 0 => OneSign(clock))
  BY DEF RingInv, SignInv, ClockInv, TypeOK
<1>2. SignInv'
  BY CreateSign DEF RingInv
<1>3. n \in AlarmState
  BY <1>1, NewAlarmType
<1>4. clock' = k /\ alarm' = [alarm EXCEPT ![a] = CheckRingTime(clock, n)]
      /\ UNCHANGED <<odd, oneSign>>
  BY DEF CreateAlarmH, CreateAlarm
<1>5. /\ k.timeStep = clock.timeStep /\ k.currTime = clock.currTime /\ k.prevTime = clock.prevTime
      /\ k.advanceCount = clock.advanceCount /\ k.direction = clock.direction /\ ~k.userDirection
  BY <1>1 DEF ClockState
<1>6. clock'.currTime > Origin /\ (odd' = 0 => Even(clock') /\ oneSign')
  BY <1>4, <1>5 DEF RingInv, Even
<1>7. /\ n.ringTime \in Int /\ n.prevRingTime = n.ringTime /\ n.firstRingTime = n.ringTime
      /\ n.ringBegin = Origin /\ n.ringingCount = 0
      /\ ~n.ringing /\ ~n.onCurrStep
      /\ ~n.userRingTime /\ ~n.userInterval /\ ~n.endless
  BY <1>1, NewAlarmIs
<1>8. a \in DOMAIN alarm /\ a \in DOMAIN base /\ a \in DOMAIN clean
  BY DEF RingInv, SignInv, ClockInv, TypeOK
<1>9. /\ base' = [base EXCEPT ![a] = n.ringTime]
      /\ clean' = [[b \in Alarm |-> clean[b] /\ ~clock.userDirection] EXCEPT ![a] =
            /\ /\ clock.direction = Forward /\ clock.advanceCount >= 0
               /\ Reached(clock, clock.currTime, clock.prevTime)
               /\ clock.prevTime = clock.currTime => clock.advanceCount = 0
               /\ Reached(clock, n.ringTime, clock.currTime)
               /\ n.enabled /\ n.stopTime = Origin
               /\ oneSign /\ SameSign(n.ringInterval)
            /\ /\ odd = 0 /\ ~n.sticky /\ n.ringStepCount > 0
               /\ n.ringDuration * clock.timeStep >= 0
               /\ Separated(clock, n) /\ Aligned(clock, n)
               /\ clock.userDirection => Beyond(clock, n.ringTime, clock.prevTime)]
  BY DEF CreateAlarmH
<1> HIDE DEF n, k
<1>10. base' \in [Alarm -> Int] /\ clean' \in [Alarm -> BOOLEAN] /\ odd' \in Nat
  <2>1. base' \in [Alarm -> Int]
    BY <1>7, <1>9 DEF RingInv
  <2>2. clean' \in [Alarm -> BOOLEAN]
    BY <1>9 DEF RingInv
  <2> QED
    BY <1>4, <2>1, <2>2 DEF RingInv
<1>11. ASSUME clean'[a] PROVE odd' = 0 /\ Exists(a)' /\ RingState(clock', alarm'[a], base'[a])
  <2>1. /\ clock.direction = Forward /\ clock.advanceCount >= 0
        /\ Reached(clock, n.ringTime, clock.currTime)
        /\ n.enabled /\ n.stopTime = Origin
        /\ OneSign(clock) /\ SameSign(n.ringInterval)
        /\ odd = 0 /\ ~n.sticky /\ n.ringStepCount > 0
        /\ n.ringDuration * clock.timeStep >= 0
        /\ Separated(clock, n) /\ Aligned(clock, n)
        /\ clock.userDirection => Beyond(clock, n.ringTime, clock.prevTime)
    BY <1>1, <1>9, <1>11
  <2>2. Along(clock, n.ringInterval) /\ Along(clock, n.ringDuration)
    <3>1. n.ringInterval * clock.timeStep >= 0
      BY <2>1 DEF SameSign
    <3>2. n.ringInterval \in Int /\ n.ringDuration \in Int
      BY <1>3, FieldType
    <3> QED
      BY <1>1, <2>1, <3>1, <3>2, AlongSame
  <2>3. Even(clock) /\ clock.currTime > Origin
    BY <2>1 DEF RingInv
  <2>4. CheckRingTime(clock, n) \in AlarmState
        /\ RingState(k, CheckRingTime(clock, n), n.ringTime)
    BY <1>1, <1>3, <1>7, <2>1, <2>2, <2>3, NewRing DEF k
  <2>5. alarm'[a] = CheckRingTime(clock, n) /\ base'[a] = n.ringTime
    BY <1>4, <1>8, <1>9
  <2>6. Exists(a)'
    BY <2>4, <2>5, NoAlarmAssumption DEF Exists
  <2> QED
    BY <1>4, <2>1, <2>4, <2>5, <2>6
<1>12. ASSUME NEW d \in Alarm, d # a, clean'[d]
       PROVE  odd' = 0 /\ Exists(d)' /\ RingState(clock', alarm'[d], base'[d])
  <2>1. base'[d] = base[d] /\ alarm'[d] = alarm[d]
    BY <1>4, <1>8, <1>9, <1>12
  <2>2. clean'[d] = (clean[d] /\ ~clock.userDirection)
    BY <1>9, <1>12
  <2>3. clean[d] /\ ~clock.userDirection
    BY <1>12, <2>2
  <2>4. odd = 0 /\ Exists(d) /\ RingState(clock, alarm[d], base[d])
    BY <2>3 DEF RingInv
  <2>5. RingState(k, alarm[d], base[d])
    BY <1>5, <2>3, <2>4, RingStateSame
  <2> QED
    BY <1>4, <2>1, <2>4, <2>5 DEF Exists
<1> QED
  BY <1>2, <1>6, <1>10, <1>11, <1>12 DEF RingInv

LEMMA DirectionRing == ASSUME RingInv, NEW d \in {Forward, Reverse}, SetDirectionH(d)
                       PROVE  RingInv'
<1>1. clock \in ClockState
  BY DEF RingInv, SignInv, ClockInv, TypeOK
<1>2. SignInv'
  BY DirectionSign DEF RingInv
<1>3. UNCHANGED <<alarm, base, clean, odd, oneSign>>
  BY DEF SetDirectionH, SetDirection
<1>4. /\ clock'.timeStep = clock.timeStep /\ clock'.currTime = clock.currTime
      /\ clock'.prevTime = clock.prevTime /\ clock'.advanceCount = clock.advanceCount
      /\ clock'.userDirection
  BY <1>1 DEF SetDirectionH, SetDirection, ClockState
<1>5. clock'.currTime > Origin /\ (odd' = 0 => Even(clock') /\ oneSign')
  BY <1>3, <1>4 DEF RingInv, Even
<1>6. ASSUME NEW a \in Alarm, clean'[a]
      PROVE  odd' = 0 /\ Exists(a)' /\ RingState(clock', alarm'[a], base'[a])
  <2>1. odd = 0 /\ Exists(a) /\ RingState(clock, alarm[a], base[a])
    BY <1>3, <1>6 DEF RingInv
  <2>2. RingState(clock', alarm[a], base[a])
    BY <1>4, <2>1, RingStateSame
  <2> QED
    BY <1>3, <2>1, <2>2 DEF Exists
<1> QED
  BY <1>2, <1>3, <1>5, <1>6 DEF RingInv

LEMMA UserCallRing == ASSUME RingInv, NEW a \in Alarm, UserCallH(a)
                      PROVE  RingInv'
<1>1. UserCall(a) /\ ClockInv
  BY DEF RingInv, SignInv, UserCallH
<1>2. PICK r \in AlarmState \cup {NoAlarm} : /\ alarm' = [alarm EXCEPT ![a] = r]
                                             /\ r # NoAlarm => Alive(r)
  BY <1>1, UserCallType
<1>3. UNCHANGED clock
  BY <1>1, UserCallType
<1>4. SignInv'
  BY UserCallSign DEF RingInv
<1>5. UNCHANGED <<base, odd, oneSign>> /\ clean' = [clean EXCEPT ![a] = FALSE]
  BY DEF UserCallH
<1>6. clock'.currTime > Origin /\ (odd' = 0 => Even(clock') /\ oneSign')
  BY <1>3, <1>5 DEF RingInv
<1>7. clean' \in [Alarm -> BOOLEAN] /\ ~clean'[a]
  BY <1>5 DEF RingInv
<1>8. ASSUME NEW d \in Alarm, clean'[d]
      PROVE  odd' = 0 /\ Exists(d)' /\ RingState(clock', alarm'[d], base'[d])
  <2>1. d # a
    BY <1>7, <1>8
  <2>2. clean[d] /\ alarm'[d] = alarm[d]
    BY <1>2, <1>5, <1>8, <2>1 DEF RingInv
  <2> QED
    BY <1>3, <1>5, <2>2 DEF RingInv, Exists
<1> QED
  BY <1>4, <1>5, <1>6, <1>7, <1>8 DEF RingInv

LEMMA StepRings == RingInv /\ [NextH]_allVars => RingInv'
<1> SUFFICES ASSUME RingInv, [NextH]_allVars PROVE RingInv'
  OBVIOUS
<1>1. ASSUME NEW s \in AdvanceStep \cup {clock.timeStep}, AdvanceH(s) PROVE RingInv'
  <2>1. ClockInv
    BY DEF RingInv, SignInv
  <2> QED
    BY <1>1, <2>1, StepSizes, AdvanceRing
<1>2. ASSUME NEW d \in {Forward, Reverse}, SetDirectionH(d) PROVE RingInv'
  BY <1>2, DirectionRing
<1>3. ASSUME NEW a \in Alarm, NEW q \in Request, CreateAlarmH(a, q) PROVE RingInv'
  BY <1>3, CreateRing
<1>4. ASSUME NEW a \in Alarm, UserCallH(a) PROVE RingInv'
  BY <1>4, UserCallRing
<1>5. CASE UNCHANGED allVars
  <2>1. UNCHANGED <<clock, alarm, base, clean, odd, oneSign>>
    BY <1>5 DEF allVars, vars, historyVars
  <2>2. SignInv'
    BY <1>5, SameSigns DEF RingInv
  <2>3. \A a \in Alarm : clean'[a] => odd' = 0 /\ Exists(a)' /\ RingState(clock', alarm'[a], base'[a])
    BY <2>1 DEF RingInv, Exists
  <2> QED
    BY <2>1, <2>2, <2>3 DEF RingInv
<1> QED
  BY <1>1, <1>2, <1>3, <1>4, <1>5 DEF NextH

-----------------------------------------------------------------------------
(* Alarms ring when they should                                             *)

LEMMA RingIs == ASSUME RingInv, NEW a \in Alarm, clean[a], NEW e, NEW t, Grid(clock, t),
                       LastBefore(clock, alarm[a], base[a], e, t)
                PROVE  ShouldRing(a, t) <=> InRing(clock, alarm[a], e, t)
<1>1. /\ clock \in ClockState /\ OneSign(clock) /\ base[a] \in Int
      /\ Exists(a) /\ RingState(clock, alarm[a], base[a])
  BY DEF RingInv, SignInv, ClockInv, TypeOK
<1>2. alarm[a] \in AlarmState /\ Plain(clock, alarm[a], base[a])
  BY <1>1 DEF RingInv, SignInv, ClockInv, TypeOK, Exists, RingState
<1> QED
  BY <1>1, <1>2, ShouldRingIs DEF LastBefore

LEMMA RingNow == RingInv => RingsOnTime
<1> SUFFICES ASSUME RingInv, NEW a \in Alarm, clean[a], Sound(a)
             PROVE  alarm[a].ringing <=> ShouldRing(a, clock.currTime)
  BY DEF RingsOnTime
<1> DEFINE c == clock
           r == alarm[a]
           b == base[a]
           t == c.currTime
<1>1. /\ c \in ClockState /\ OneSign(c) /\ b \in Int /\ odd = 0 /\ Even(c)
      /\ Exists(a) /\ ~r.endless /\ RingState(c, r, b)
  BY DEF RingInv, SignInv, ClockInv, TypeOK, Sound
<1>2. r \in AlarmState
  BY <1>1 DEF RingInv, SignInv, ClockInv, TypeOK, Exists
<1>3. PICK e : AtEvent(c, r, b, e, t)
  BY <1>1 DEF RingState, InPlace, ByNext, ByLast
<1>4. Grid(c, t)
  BY <1>1, EvenIs
<1>5. LastBefore(c, r, b, e, t)
  BY <1>1, <1>2, <1>3, <1>4, AtEventBefore DEF RingState
<1>6. ShouldRing(a, t) <=> InRing(c, r, e, t)
  BY <1>4, <1>5, RingIs
<1> QED
  BY <1>3, <1>6 DEF AtEvent

LEMMA RangBefore == RingInv => PrevRingsOnTime
<1> SUFFICES ASSUME RingInv, NEW a \in Alarm, clean[a], Sound(a),
                    clock.advanceCount > 0, ~clock.userDirection,
                    IF clock.direction = Forward THEN RingSpan(clock, alarm[a]) = clock.timeStep
                    ELSE ByDuration(alarm[a]) => alarm[a].ringDuration % Abs(clock.timeStep) = 0
             PROVE  alarm[a].onPrevStep <=> ShouldRing(a, clock.prevTime)
  BY DEF PrevRingsOnTime
<1>1. /\ clock \in ClockState /\ OneSign(clock) /\ Even(clock)
      /\ RingState(clock, alarm[a], base[a])
  BY DEF RingInv, SignInv, ClockInv, TypeOK
<1>2. PrevSeen(clock, alarm[a], base[a])
  BY <1>1 DEF RingState, Sound
<1>3. PICK e : /\ LastBefore(clock, alarm[a], base[a], e, clock.prevTime)
               /\ alarm[a].onPrevStep <=> InRing(clock, alarm[a], e, clock.prevTime)
  BY <1>2 DEF PrevSeen
<1>4. Grid(clock, clock.prevTime)
  BY <1>1, EvenIs
<1>5. ShouldRing(a, clock.prevTime) <=> InRing(clock, alarm[a], e, clock.prevTime)
  BY <1>3, <1>4, RingIs
<1> QED
  BY <1>3, <1>5

THEOREM RingInvariant == SpecH => []RingInv
BY InitRing, StepRings, PTL DEF SpecH

\* An alarm the user left alone rings exactly at the time steps the reference definition says,
\* whichever way the clock passes them.
THEOREM RingOnTime == SpecH => []RingsOnTime
BY RingInvariant, RingNow, PTL

\* wasPrevRinging reports whether the alarm rang at the step before in time, where it is promised.
THEOREM PrevRingOnTime == SpecH => []PrevRingsOnTime
BY RingInvariant, RangBefore, PTL
=============================================================================
