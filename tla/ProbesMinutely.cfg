SPECIFICATION Spec
CONSTANTS
  p = p
  q = q
  f = f
  g = g
  t1 = t1
  t2 = t2
  t3 = t3
  NoFn = NoFn
  NoTimer = NoTimer
  NoName = NoName
  Names <- MCNames
  Fns <- MCFns
  TimerIds <- MCTimerIds
  Minute = 2
  MaxLate = 1
PROPERTIES CalledMinutely
