\* Two alarms, three calls that create one or are made on one, four steps of the clock forward,
\* one of them, which may point the other way, of another size.
SPECIFICATION SpecH
CONSTANTS
  Alarm = {a1, a2}
  StartTime = 0
  StopTime <- MCStopTime
  TimeStep <- MCTimeStep
  AdvanceStep = {3}
  Request <- MCRequest
  SetTime = {5}
  SetInterval = {6}
  Origin <- MCOrigin
  ErrorCode = 1
  NoAlarm = NoAlarm
  MinElapsed <- MCMinElapsed
  MaxElapsed = 8
  CountBound = 4
  MaxCalls = 3
  MaxTurns = 2
  MaxOdd = 1
SYMMETRY Symmetry
CHECK_DEADLOCK FALSE
INVARIANTS
  TypeOK
  RingsOnTime
  PrevRingsOnTime
  RingTimeIsNext
  EndlessOnlyIf
PROPERTY
  RingsAsForetold
