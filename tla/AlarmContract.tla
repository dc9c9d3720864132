---------------------------- MODULE AlarmContract ----------------------------
(***************************************************************************)
(* What the time manager promises the users of alarms, stated over the     *)
(* clock and the alarms of ClockAlarm.  History variables record what the  *)
(* users asked for and whether they, and the clock, have kept to the       *)
(* assumptions each promise rests on.                                      *)
(***************************************************************************)
EXTENDS ClockAlarm

CONSTANTS
  MaxCalls,   \* bound: calls that create an alarm or are made on one
  MaxTurns,   \* bound: calls that set the clock's direction
  MaxOdd      \* bound: steps of another size than the clock's own

VARIABLES
  base,       \* base[a]: the first ring time the user gave
  kept,       \* kept[a]: the next ring time of a is promised
  clean,      \* clean[a]: whether a rings is promised at every time step
  oneSign,    \* no step of the clock had another sign than its own
  odd,        \* steps of the clock of another size than its own
  turns,      \* calls that set its direction
  calls       \* calls that created an alarm or were made on one

historyVars == <<base, kept, clean, oneSign, odd, turns, calls>>
allVars     == <<vars, historyVars>>

\* The first time of the clock's steps at or after t.
OnStep(c, t) ==
  LET rem == (t - StartTime) % Abs(c.timeStep)
  IN  IF c.timeStep < 0 \/ rem = 0 THEN t - rem ELSE t - rem + c.timeStep

\* The clock time from the step an alarm starts to ring to the step it stops.
RingSpan(c, r) ==
  LET s     == Abs(c.timeStep)
      steps == IF ByDuration(r) THEN (Abs(r.ringDuration) + s - 1) \div s
                                ELSE r.ringStepCount
  IN  steps * c.timeStep

\* A step or a ring interval that does not point against the clock's own steps.
SameSign(i) == i * clock.timeStep >= 0

\* The alarm falls silent for one step at least before it rings again.
Separated(c, r) ==
  r.ringInterval # 0 =>
    Abs(RingSpan(c, r)) + Abs(c.timeStep) <= Abs(r.ringInterval)

\* With negative time steps, ring times fall on time steps.
Aligned(c, r) == c.timeStep < 0 =>
  \A t \in {r.ringTime, r.ringTime + r.ringInterval} : OnStep(c, t) = t

-----------------------------------------------------------------------------
InitH ==
  /\ Init
  /\ base  = [a \in Alarm |-> Origin]
  /\ kept  = [a \in Alarm |-> FALSE]
  /\ clean = [a \in Alarm |-> FALSE]
  /\ oneSign = TRUE
  /\ odd = 0
  /\ turns = 0
  /\ calls = 0

\* The new alarm's ring time has not passed, its interval points along the clock's
\* steps, which have kept their sign, and the clock steps forward and has not been
\* turned back behind its start or by longer steps than its own.  Its
\* rings are promised at every step if it rings for some steps, or for a time along
\* the clock's steps, and the clock, if just turned, was not at the ring time a step
\* ago: the check of a turn passes over a ring time that is due already.  The other
\* alarms lose a change of direction they have not seen yet.
CreateAlarmH(a, q) ==
  LET r      == NewAlarm(clock, q)
      timely == /\ clock.direction = Forward /\ clock.advanceCount >= 0
                /\ Reached(clock, clock.currTime, clock.prevTime)
                /\ clock.prevTime = clock.currTime => clock.advanceCount = 0
                /\ Reached(clock, r.ringTime, clock.currTime)
                /\ r.enabled /\ r.stopTime = Origin
                /\ oneSign /\ SameSign(r.ringInterval)
      plain  == /\ odd = 0 /\ ~r.sticky /\ r.ringStepCount > 0
                /\ r.ringDuration * clock.timeStep >= 0
                /\ Separated(clock, r) /\ Aligned(clock, r)
                /\ clock.userDirection => Beyond(clock, r.ringTime, clock.prevTime)
      Seen(promise) == [b \in Alarm |-> promise[b] /\ ~clock.userDirection]
  IN  /\ calls < MaxCalls
      /\ CreateAlarm(a, q)
      /\ calls' = calls + 1
      /\ base'  = [base EXCEPT ![a] = r.ringTime]
      /\ kept'  = [Seen(kept) EXCEPT ![a] = timely]
      /\ clean' = [Seen(clean) EXCEPT ![a] = timely /\ plain]
      /\ UNCHANGED <<oneSign, odd, turns>>

\* A ring time is promised as long as the clock steps forward by steps of one sign;
\* that of an alarm that is not sticky if it is enabled and no step is longer than
\* its interval.
AdvanceH(s) ==
  LET Keeps(r) == /\ clock.direction = Forward /\ SameSign(s)
                  /\ r.sticky \/ (r.enabled /\ Abs(s) <= Abs(r.ringInterval))
  IN  /\ s = clock.timeStep \/ odd < MaxOdd
      /\ Advance(s)
      /\ kept'  = [a \in Alarm |-> kept[a] /\ Exists(a) /\ Keeps(alarm[a])]
      /\ clean' = [a \in Alarm |-> clean[a] /\ s = clock.timeStep]
      /\ oneSign' = (oneSign /\ SameSign(s))
      /\ odd' = IF s = clock.timeStep THEN odd ELSE odd + 1
      /\ UNCHANGED <<base, turns, calls>>

SetDirectionH(d) ==
  /\ turns < MaxTurns
  /\ SetDirection(d)
  /\ turns' = turns + 1
  /\ UNCHANGED <<base, kept, clean, oneSign, odd, calls>>

\* Calls that silence, sound, enable or disable an alarm leave its ring time.
UserCallH(a) ==
  /\ calls < MaxCalls
  /\ UserCall(a)
  /\ calls' = calls + 1
  /\ clean' = [clean EXCEPT ![a] = FALSE]
  /\ kept'  = [kept EXCEPT ![a] = /\ @
                                  /\ Exists(a)'
                                  /\ alarm'[a].ringTime = alarm[a].ringTime
                                  /\ alarm'[a].ringInterval = alarm[a].ringInterval
                                  /\ alarm'[a].sticky = alarm[a].sticky]
  /\ UNCHANGED <<base, oneSign, odd, turns>>

NextH ==
  \/ \E s \in AdvanceStep \cup {clock.timeStep} : AdvanceH(s)
  \/ \E d \in {Forward, Reverse} : SetDirectionH(d)
  \/ \E a \in Alarm, q \in Request : CreateAlarmH(a, q)
  \/ \E a \in Alarm : UserCallH(a)

SpecH == InitH /\ [][NextH]_allVars

-----------------------------------------------------------------------------
(* Promises                                                                 *)

\* The instants of a up to time t, and possibly some beyond.
Instants(a, t) ==
  {base[a] + k * alarm[a].ringInterval : k \in 0..Abs(t - base[a])}

\* Reference definition: a rings from the first time step at or after each of
\* its instants, for its ring span.
ShouldRing(a, t) ==
  \E i \in Instants(a, t) :
    LET begin == OnStep(clock, i)
    IN  /\ Reached(clock, t, begin)
        /\ ~Reached(clock, t, begin + RingSpan(clock, alarm[a]))

\* No loop over a is endless, and all that the checks need has been computed.
Sound(a) == Exists(a) /\ ~alarm[a].endless

\* With constant time steps, an alarm the user left alone rings at a time step
\* if and only if the reference definition says so, whichever way and however
\* often the clock passes it: in reverse it starts where it ended and ends where
\* it started.
RingsOnTime ==
  \A a \in Alarm : clean[a] /\ Sound(a) =>
    (alarm[a].ringing <=> ShouldRing(a, clock.currTime))

\* The flag wasPrevRinging reports tells whether the alarm rang at the step
\* before in time: in forward when the alarm rings for one step at a time, and in
\* reverse unless it rings for a duration that is no number of steps, which is
\* counted from the ring time instead of the step the alarm began to ring at.
PrevRingsOnTime ==
  \A a \in Alarm :
    /\ clean[a] /\ Sound(a)
    /\ clock.advanceCount > 0 /\ ~clock.userDirection
    /\ IF clock.direction = Forward THEN RingSpan(clock, alarm[a]) = clock.timeStep
       ELSE ByDuration(alarm[a]) => alarm[a].ringDuration % Abs(clock.timeStep) = 0
    => (alarm[a].onPrevStep <=> ShouldRing(a, clock.prevTime))

\* Stepping forward, the ring time of a repeating alarm is the first of its
\* instants that lies ahead: none is skipped and none is passed without a ring,
\* however long a sticky alarm was left ringing, silenced or disabled, and for
\* time steps of any size.
RingTimeIsNext ==
  \A a \in Alarm :
    kept[a] /\ Sound(a) /\ alarm[a].ringInterval # 0 /\ clock.direction = Forward
    => LET r == alarm[a] IN
       /\ (r.ringTime - base[a]) % Abs(r.ringInterval) = 0
       /\ Reached(clock, r.ringTime, base[a])
       /\ Beyond(clock, r.ringTime, clock.currTime)
       /\ r.ringTime # base[a] =>
            ~Beyond(clock, r.ringTime - r.ringInterval, clock.currTime)

\* What a call that checks alarms has met if it does not return, whatever signs the
\* steps and intervals had: an alarm whose interval, if it has one, points against
\* the last step; without an interval, one under which the clock has been turned or
\* has changed the sign of its steps; and, going forward, one that has come due.
EndlessOnlyIf ==
  \A a \in Alarm : Exists(a) /\ alarm[a].endless =>
    LET r == alarm[a] IN
    /\ r.ringInterval * clock.currStep <= 0
    /\ r.ringInterval = 0 => turns > 0 \/ ~oneSign
    /\ clock.direction = Forward => \/ Reached(clock, clock.currTime, r.ringTime)
                                    \/ Reached(clock, clock.prevTime, r.ringTime)

\* What willRingNext answers for a silent alarm is what the clock's next step
\* forward does.
RingsAsForetold ==
  [][\A a \in Alarm :
       /\ kept[a] /\ Sound(a) /\ ~alarm[a].ringing
       /\ clock.direction = Forward /\ ~clock.userDirection
       /\ Advance(clock.timeStep)
       => (alarm'[a].ringing <=> WillRingNext(clock, alarm[a]))]_allVars
=============================================================================
