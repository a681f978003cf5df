SPECIFICATION LiveSpec
CONSTANTS
  Idle = Idle
  High = {a}
  Low = {b, c}
  Waiting = {a}
  Blocker = {a}
  Sleeper = {b}
  Periodic = {c}
  Waker = {b, c}
  Leaver = {b}
  Remote = {a}
  Period = 2
  Window = 2
  MaxCnt = 3
  MaxNow = 4
INVARIANT Bookkeeping
PROPERTIES Result JustBlock WakesUp
