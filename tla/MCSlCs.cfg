SPECIFICATION LiveSpec
CONSTANTS
  Worker = {a}
  Idle = Idle
  Sched = Sched
  None = None
  MaxEvent = 2
INVARIANT Exclusion
PROPERTIES SwitchTo EventsProcessed SchedEnters
