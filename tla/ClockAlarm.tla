----------------------------- MODULE ClockAlarm ------------------------------
(***************************************************************************)
(* The time manager's clock and its alarms (TimeMgr/src/ESMCI_Clock.C and  *)
(* ESMCI_Alarm.C).  A clock steps forward or in reverse; every step ends   *)
(* by letting each alarm of the clock's list decide, from the clock's      *)
(* current and previous time, whether it rings.  Users create, destroy,    *)
(* silence, enable and reset alarms and turn the clock between two steps.  *)
(*                                                                         *)
(* Times and intervals are integers (calendar arithmetic is not modelled); *)
(* there is one clock, so an alarm that exists is an alarm on its list.    *)
(***************************************************************************)
EXTENDS Integers, FiniteSetsExt

CONSTANTS
  Alarm,         \* the alarm objects that may be created
  StartTime,     \* the clock's start time
  StopTime,      \* the stop times a clock may be created with, Origin for none
  TimeStep,      \* the time steps a clock may be created with
  AdvanceStep,   \* the time steps that may be passed to advance()
  Request,       \* the arguments alarms are created with
  SetTime,       \* the times an alarm may be set to
  SetInterval,   \* the ring intervals an alarm may be set to
  Origin,        \* value of a Time never set: 0 seconds, before any other
  ErrorCode,     \* the interval an error code of the time manager stands for
  NoAlarm,       \* an alarm that does not exist
  MinElapsed, MaxElapsed,  \* bounds: how far the clock gets from its start
  CountBound               \* bound: advanceCount and ringingCount

VARIABLES
  clock,         \* the Clock object
  alarm          \* alarm[a]: the Alarm object, or NoAlarm

vars == <<clock, alarm>>

ASSUME ClockAssumption ==
  /\ StartTime \in Int
  /\ StopTime \subseteq Int
  /\ Origin \in Int
  /\ MinElapsed \in Int
  /\ MaxElapsed \in Int
  /\ CountBound \in Nat
  /\ TimeStep \subseteq Int \ {0}
  /\ AdvanceStep \subseteq Int \ {0}
  /\ SetTime \subseteq Int
  /\ SetInterval \subseteq Int
  /\ ErrorCode \in Int
  /\ Request \subseteq [ringTime : Int, ringInterval : Int, ringDuration : Int,
                       ringStepCount : Nat, sticky : BOOLEAN, stopTime : Int,
                       enabled : BOOLEAN]

\* No time the clock gets to is, or lies before, that of a Time never set.
ASSUME OriginAssumption ==
  \A e \in (MinElapsed..MaxElapsed) \cup {0} :
    StartTime + e > Origin /\ StartTime - e > Origin

Forward == "forward"
Reverse == "reverse"

-----------------------------------------------------------------------------
(* Time comparisons and arithmetic                                          *)

\* The sign of the step last taken decides which way times are compared.
Positive(c) == c.currStep >= 0

\* t has reached r, and t is beyond r, in the direction of the clock's step.
Reached(c, t, r) == IF Positive(c) THEN t >= r ELSE t <= r
Beyond(c, t, r)  == Reached(c, t, r) /\ t # r

\* A Time that was never set has no calendar and stays 0 when incremented.
Plus(t, i) == IF t = Origin THEN Origin ELSE t + i

\* Between a Time never set and another lies isSameCalendar's error code, read
\* as an interval.
Minus(t, u) == IF u = Origin THEN ErrorCode ELSE t - u

\* C++ integer division and remainder: towards zero.
Abs(i)         == IF i < 0 THEN -i ELSE i
Quotient(i, j) == IF i * j >= 0 THEN Abs(i) \div Abs(j)
                                ELSE -(Abs(i) \div Abs(j))
Remainder(i, j) == i - j * Quotient(i, j)

\* The number of times the body of a loop runs that may stop after any number
\* in stops.  A loop that moves a time in steps has passed another time after as
\* many iterations as there are seconds between them, or never will.
Endless == -1
Iterations(stops) == IF stops = {} THEN Endless ELSE Min(stops)

-----------------------------------------------------------------------------
(* Alarm::checkRingTime, clock stepping forward                             *)

\* The ring limit of an alarm that has a stop time.
AtLimit(c, r, t) == r.stopTime # Origin
                    /\ Reached(c, t, r.stopTime - r.ringInterval)

\* Mutant: the loop stops at the current time itself.
PushRingTimeTo(c, r, t) ==
  LET At(n)   == r.ringTime + n * r.ringInterval
      Exit(n) == ~Beyond(c, t, At(n)) \/ AtLimit(c, r, At(n))
      n       == Iterations({m \in 0..(Abs(t - r.ringTime) + 1) : Exit(m)})
  IN  CASE n = Endless -> [r EXCEPT !.endless = TRUE]
        [] n = 0       -> r
        [] OTHER       -> [r EXCEPT !.ringTime = At(n), !.prevRingTime = At(n-1)]

\* while (t has reached ringTime) move ringTime by one interval.
PushRingTime(c, r, t) ==
  LET At(n)   == r.ringTime + n * r.ringInterval
      Exit(n) == ~Reached(c, t, At(n)) \/ AtLimit(c, r, At(n))
      n       == Iterations({m \in 0..(Abs(t - r.ringTime) + 1) : Exit(m)})
  IN  CASE n = Endless -> [r EXCEPT !.endless = TRUE]
        [] n = 0       -> r
        [] OTHER       -> [r EXCEPT !.ringTime = At(n), !.prevRingTime = At(n-1)]

\* Mutant: an alarm due at the current time itself waits for the next step.
CrossedLate(c, r) == /\ Beyond(c, c.currTime, r.ringTime)
                     /\ c.advanceCount # 0 => ~Beyond(c, c.prevTime, r.ringTime)

\* The clock's last step reached or crossed the alarm's ring time.
Crossed(c, r) == /\ Reached(c, c.currTime, r.ringTime)
                 /\ c.advanceCount # 0 => ~Reached(c, c.prevTime, r.ringTime)

CheckTurnOn(c, r) ==
  LET more == ~AtLimit(c, r, c.currTime)
      on   == [r EXCEPT !.ringing = TRUE, !.onCurrStep = TRUE,
                        !.ringBegin = c.currTime]
  IN  IF ~Crossed(c, r) THEN [r EXCEPT !.onCurrStep = FALSE]
      ELSE IF more THEN [on EXCEPT !.prevRingTime = r.ringTime,
                                   !.ringTime = @ + r.ringInterval]
      ELSE on

\* Whether the alarm's ringing is measured by a duration or in time steps.
ByDuration(r) == r.ringStepCount = 1 /\ r.ringDuration # 0

\* Mutant: the comparisons are strict.
RungOutLate(c, r) ==
  IF ByDuration(r) THEN Abs(Minus(c.currTime, r.ringBegin)) > Abs(r.ringDuration)
                   ELSE r.ringStepCount >= 1 /\ r.ringingCount > r.ringStepCount

\* A ringing alarm that is not sticky has rung for long enough.
RungOut(c, r) ==
  IF ByDuration(r) THEN Abs(Minus(c.currTime, r.ringBegin)) >= Abs(r.ringDuration)
                   ELSE r.ringStepCount >= 1 /\ r.ringingCount >= r.ringStepCount

\* Mutant: the flag of the current step stays.
SilencedFlagOn(r) == [r EXCEPT !.ringing = FALSE, !.ringingCount = 0]

Silenced(r) == [r EXCEPT !.ringing = FALSE, !.onCurrStep = FALSE,
                         !.ringingCount = 0]

\* A change by the user that the clock's state does not admit.
Rejected(c, r) ==
  \/ r.userInterval /\ r.ringInterval * c.currStep < 0
  \/ r.userRingTime /\ Beyond(c, c.currTime, r.ringTime)

\* Mutant: ring times are pushed up to the clock's last time at every step.
PreCheckAlways(c, r) ==
  LET flipped == c.currStep * c.prevStep < 0
      signed  == IF flipped /\ ~r.userInterval
                 THEN [r EXCEPT !.ringInterval = -@, !.ringDuration = -@] ELSE r
      pulled  == IF ~r.userRingTime
                 THEN PushRingTime(c, signed, c.prevTime) ELSE signed
  IN  [pulled EXCEPT !.userRingTime = FALSE, !.userInterval = FALSE]

\* Follow a change of the step's sign or of the clock's direction.
PreCheck(c, r) ==
  LET flipped == c.currStep * c.prevStep < 0
      signed  == IF flipped /\ ~r.userInterval
                 THEN [r EXCEPT !.ringInterval = -@, !.ringDuration = -@] ELSE r
      pulled  == IF (flipped \/ c.userDirection) /\ ~r.userRingTime
                 THEN PushRingTime(c, signed, c.prevTime) ELSE signed
  IN  [pulled EXCEPT !.userRingTime = FALSE, !.userInterval = FALSE]

TurnOnOrOff(c, r) ==
  CASE r.enabled /\ ~r.ringing               -> CheckTurnOn(c, r)
    [] r.enabled /\ r.ringing /\ ~r.sticky   ->
         IF ~Crossed(c, r) /\ RungOut(c, r) THEN Silenced(r)
                                            ELSE CheckTurnOn(c, r)
    [] OTHER                                 -> r

CheckForward(c, before) ==
  LET r       == [before EXCEPT !.onPrevStep = before.onCurrStep]
      checked == IF r.enabled THEN PreCheck(c, r) ELSE r
      rung    == TurnOnOrOff(c, checked)
      counted == IF rung.ringing THEN [rung EXCEPT !.ringingCount = @ + 1]
                                 ELSE rung
  IN  IF r.enabled /\ Rejected(c, r) THEN r
      ELSE IF checked.endless THEN checked
      ELSE IF counted.sticky /\ counted.ringInterval # 0 /\ c.advanceCount # 0
           THEN PushRingTime(c, counted, c.currTime) ELSE counted

-----------------------------------------------------------------------------
(* Alarm::checkRingTime, clock stepping in reverse                          *)

\* ringBegin of the event at ringTime: the first step at or after it, with
\* steps counted from the clock's start time.
ResetRingBegin(c, r) ==
  LET rem == Remainder(r.ringTime - StartTime, c.timeStep)
  IN  [r EXCEPT !.ringBegin =
         IF rem = 0 THEN r.ringTime
         ELSE r.ringTime - (IF Positive(c) THEN rem ELSE -rem) + c.timeStep]

\* The time the alarm falls silent when it starts to ring at t: never set for an
\* alarm to ring for no steps.
RingEndFrom(c, r, t) ==
  IF ByDuration(r) THEN Plus(t, r.ringDuration)
  ELSE IF r.ringStepCount >= 1 THEN Plus(t, r.ringStepCount * c.timeStep)
  ELSE Origin

StepBack(r) == [r EXCEPT !.ringTime = r.prevRingTime,
                         !.prevRingTime = @ - r.ringInterval]

\* A sticky alarm: step back to the last event that ended by now.
PullBackSticky(c, r) ==
  LET RingEnd(n) == r.ringEnd - n * r.ringInterval
      At(n)      == IF n = 0 THEN r.ringTime
                    ELSE r.prevRingTime - (n-1) * r.ringInterval
      Exit(n)    == ~Beyond(c, RingEnd(n), c.currTime) \/ At(n) = r.firstRingTime
      most       == Abs(r.ringEnd - c.currTime)
                    + Abs(r.prevRingTime - r.firstRingTime) + 1
      n          == Iterations({m \in 0..most : Exit(m)})
  IN  IF n = Endless THEN [r EXCEPT !.endless = TRUE]
      ELSE [r EXCEPT !.ringEnd = RingEnd(n), !.ringTime = At(n),
                     !.prevRingTime = @ - n * r.ringInterval]

\* An alarm that is not sticky: step back once, when the clock was turned.
PullBack(c, r) ==
  IF /\ c.userDirection
     /\ Beyond(c, r.ringTime, c.currTime + c.timeStep)
     /\ r.ringTime # r.firstRingTime
  THEN ResetRingBegin(c, StepBack(r)) ELSE r

\* Back on at the last time step the alarm rang when stepping forward.
TurnBackOn(c, r, end) ==
  LET on == IF r.sticky THEN c.currTime = end
            ELSE /\ ~Reached(c, c.currTime, end)
                 /\ Reached(c, c.currTime + c.timeStep, end)
  IN  [r EXCEPT !.ringing = on, !.onCurrStep = on,
                !.ringingCount = IF on
                  THEN Quotient(Minus(c.currTime, r.ringBegin), c.timeStep) + 1
                  ELSE @]

\* Back off at the first time step it rang; then the event before that one.
TurnBackOff(c, r) ==
  LET off == Silenced(r)
  IN  IF r.ringingCount > 1 THEN [r EXCEPT !.ringingCount = @ - 1]
      ELSE ResetRingBegin(c, IF r.ringTime # r.firstRingTime THEN StepBack(off)
                             ELSE [off EXCEPT !.prevRingTime = off.ringTime])

CheckReverse(c, r) ==
  LET back == IF r.sticky THEN PullBackSticky(c, r) ELSE PullBack(c, r)
      end  == IF back.sticky THEN back.ringEnd
              ELSE RingEndFrom(c, back, back.ringBegin)
      rung == CASE back.enabled /\ ~back.ringing -> TurnBackOn(c, back, end)
                [] back.enabled /\ back.ringing /\ ~back.sticky
                                                -> TurnBackOff(c, back)
                [] OTHER                        -> back
      \* the end of the event just stepped back to, if there is one
      next == /\ back.ringing /\ ~back.sticky /\ back.ringingCount <= 1
              /\ back.ringTime # back.firstRingTime
      last == IF next THEN RingEndFrom(c, rung, rung.ringTime) ELSE end
  IN  IF r.sticky /\ r.ringEnd = Origin THEN r
      ELSE IF back.endless THEN back
      ELSE IF ~rung.enabled THEN rung
      ELSE [rung EXCEPT !.onPrevStep = /\ Reached(c, c.prevTime, rung.ringTime)
                                       /\ ~Reached(c, c.prevTime, last)]

CheckRingTime(c, r) ==
  IF c.direction = Forward THEN CheckForward(c, r) ELSE CheckReverse(c, r)

-----------------------------------------------------------------------------
(* Operations of the clock                                                  *)

Exists(a) == alarm[a] # NoAlarm

ClockState == [currTime : Int, prevTime : Int, stopTime : Int, timeStep : Int,
               currStep : Int, prevStep : Int, advanceCount : Int,
               direction : {Forward, Reverse}, userDirection : BOOLEAN]

AlarmState == [ringTime : Int, prevRingTime : Int, firstRingTime : Int,
               ringInterval : Int, stopTime : Int, ringDuration : Int,
               ringStepCount : Nat, ringBegin : Int, ringEnd : Int,
               ringingCount : Int, ringing : BOOLEAN, onCurrStep : BOOLEAN,
               onPrevStep : BOOLEAN, enabled : BOOLEAN, sticky : BOOLEAN,
               userRingTime : BOOLEAN, userInterval : BOOLEAN,
               endless : BOOLEAN]

\* The clock and its alarms are what their classes declare; an alarm that rings
\* is enabled, as Alarm::validate asks of every alarm.
TypeOK ==
  /\ clock \in ClockState
  /\ alarm \in [Alarm -> AlarmState \cup {NoAlarm}]
  /\ \A a \in Alarm : Exists(a) /\ alarm[a].ringing => alarm[a].enabled

ASSUME NoAlarmAssumption == NoAlarm \notin AlarmState

\* No call has entered a loop it does not leave.
Running == \A a \in Alarm : Exists(a) => ~alarm[a].endless

\* Clock::validate: what create and set refuse.
ValidClock(c) ==
  c.stopTime # Origin =>
    /\ c.stopTime # StartTime
    /\ StartTime < c.stopTime =>
         /\ c.currTime \in StartTime..c.stopTime
         /\ c.currTime = StartTime => c.timeStep > 0
    /\ c.stopTime < StartTime =>
         /\ c.currTime \in c.stopTime..StartTime
         /\ c.currTime = StartTime => c.timeStep < 0

NewClock(step, stop) ==
  [currTime |-> StartTime, prevTime |-> StartTime, stopTime |-> stop,
   timeStep |-> step, currStep |-> step, prevStep |-> step,
   advanceCount |-> 0, direction |-> Forward, userDirection |-> FALSE]

Init ==
  /\ clock \in {c \in {NewClock(s, t) : s \in TimeStep, t \in StopTime} :
                 ValidClock(c)}
  /\ alarm = [a \in Alarm |-> NoAlarm]

\* The clock after one step of size s, before its alarms are checked.
Stepped(c, s) ==
  IF c.direction = Forward
  THEN [c EXCEPT !.prevTime = c.currTime, !.prevStep = c.currStep,
                 !.currStep = s, !.currTime = @ + s, !.advanceCount = @ + 1]
  ELSE [c EXCEPT !.currTime = @ - s, !.prevTime = @ - c.timeStep,
                 !.advanceCount = @ - 1]

Elapsed(c) == IF c.timeStep > 0 THEN c.currTime - StartTime
                                ELSE StartTime - c.currTime

\* Clock::advance.  An endless loop over one alarm keeps those after it on the
\* list from being checked; no caller lives to see them.
Advance(s) ==
  LET c == Stepped(clock, s) IN
  /\ Running
  /\ Elapsed(c) \in MinElapsed..MaxElapsed
  /\ c.advanceCount \in -CountBound..CountBound
  /\ \A a \in Alarm : Exists(a) => alarm[a].ringingCount < CountBound
  /\ clock' = [c EXCEPT !.userDirection = FALSE]
  /\ alarm' = [a \in Alarm |-> IF Exists(a) THEN CheckRingTime(c, alarm[a])
                                            ELSE NoAlarm]

\* Clock::set with a direction; refused, it restores the clock.
SetDirection(d) ==
  LET c == [clock EXCEPT !.direction = d, !.userDirection = TRUE] IN
  /\ Running
  /\ ValidClock(c)
  /\ clock' = c
  /\ UNCHANGED alarm

\* Alarm::willRingNext: the answer for the clock's next step.
WillRingNext(c, r) ==
  LET next == c.currTime + c.timeStep
  IN  r.enabled /\ IF c.timeStep > 0
                   THEN next >= r.ringTime /\ c.currTime < r.ringTime
                   ELSE next <= r.ringTime /\ c.currTime > r.ringTime

-----------------------------------------------------------------------------
(* Operations of an alarm                                                   *)

\* The Alarm built from a request q on the clock c, before it is checked.
NewAlarm(c, q) ==
  LET t == IF q.ringTime # Origin THEN q.ringTime ELSE c.currTime + q.ringInterval
  IN  [ringTime |-> t, prevRingTime |-> t, firstRingTime |-> t,
       ringInterval |-> q.ringInterval, stopTime |-> q.stopTime,
       ringDuration |-> q.ringDuration, ringStepCount |-> q.ringStepCount,
       ringBegin |-> Origin, ringEnd |-> Origin, ringingCount |-> 0,
       ringing |-> FALSE, onCurrStep |-> FALSE, onPrevStep |-> FALSE,
       enabled |-> q.enabled, sticky |-> q.sticky,
       userRingTime |-> FALSE, userInterval |-> FALSE, endless |-> FALSE]

\* alarmCreate and Clock::addAlarm: the new alarm is checked at once, and the
\* clock forgets that its direction was changed.
CreateAlarm(a, q) ==
  /\ Running
  /\ ~Exists(a)
  /\ alarm' = [alarm EXCEPT ![a] = CheckRingTime(clock, NewAlarm(clock, q))]
  /\ clock' = [clock EXCEPT !.userDirection = FALSE]

\* alarmDestroy and Clock::removeAlarm
DestroyAlarm(a) ==
  /\ Running
  /\ Exists(a)
  /\ alarm' = [alarm EXCEPT ![a] = NoAlarm]
  /\ UNCHANGED clock

\* A method called on an existing alarm, which it turns into r.
Call(a, r) ==
  /\ Running
  /\ Exists(a)
  /\ alarm' = [alarm EXCEPT ![a] = r]
  /\ UNCHANGED clock

\* Alarm::ringerOff of alarm r on the clock c
RungOff(c, r) ==
  LET off  == [r EXCEPT !.ringing = FALSE, !.ringingCount = 0]
      back == [off EXCEPT !.ringTime = @ - r.ringInterval,
                          !.prevRingTime = @ - r.ringInterval]
  IN  CASE c.direction = Forward -> [off EXCEPT !.ringEnd = c.currTime]
        [] c.direction = Reverse /\ r.sticky /\ r.ringTime # r.firstRingTime ->
             IF Beyond(c, back.ringEnd, back.ringTime)
             THEN [back EXCEPT !.ringEnd = Plus(@, -r.ringInterval)] ELSE back
        [] OTHER -> off

RingerOff(a) == Exists(a) /\ Call(a, RungOff(clock, alarm[a]))

RingerOn(a) == Exists(a) /\ alarm[a].enabled
               /\ Call(a, [alarm[a] EXCEPT !.ringing = TRUE])

\* Mutant: a disabled alarm keeps ringing.
DisableRinging(a) == Exists(a) /\ Call(a, [alarm[a] EXCEPT !.enabled = FALSE])

Enable(a)  == Exists(a) /\ Call(a, [alarm[a] EXCEPT !.enabled = TRUE])
Disable(a) == Exists(a) /\ Call(a, [alarm[a] EXCEPT !.enabled = FALSE,
                                                    !.ringing = FALSE])

SetToSticky(a) == Exists(a) /\ Call(a, [alarm[a] EXCEPT !.sticky = TRUE])
NotSticky(a)   == Exists(a) /\ Call(a, [alarm[a] EXCEPT !.sticky = FALSE])

\* Alarm::set with a ring time
SetRingTime(a, t) ==
  /\ Exists(a)
  /\ alarm[a].ringTime # t
  /\ Call(a, [alarm[a] EXCEPT !.ringTime = t, !.prevRingTime = t,
                              !.userRingTime = TRUE])

\* Alarm::set with a ring interval
SetRingInterval(a, i) ==
  /\ Exists(a)
  /\ alarm[a].ringInterval # i
  /\ Call(a, [alarm[a] EXCEPT !.ringInterval = i, !.userInterval = TRUE])

\* What the user of an alarm may do to it between two steps of the clock.
UserCall(a) ==
  \/ DestroyAlarm(a)
  \/ RingerOff(a) \/ RingerOn(a)
  \/ Enable(a) \/ Disable(a)
  \/ SetToSticky(a) \/ NotSticky(a)
  \/ \E t \in SetTime : SetRingTime(a, t)
  \/ \E i \in SetInterval : SetRingInterval(a, i)

Next ==
  \/ \E s \in AdvanceStep \cup {clock.timeStep} : Advance(s)
  \/ \E d \in {Forward, Reverse} : SetDirection(d)
  \/ \E a \in Alarm, q \in Request : CreateAlarm(a, q)
  \/ \E a \in Alarm : UserCall(a)

Spec == Init /\ [][Next]_vars
=============================================================================
