SPECIFICATION LimiterSpec
CONSTANTS
  Thread = {t1, t2, t3}
  NoThread = NoThread
  Interval = 3
  MaxGrants = 5
INVARIANT RateKept
PROPERTIES EveryWaitReturns ImplementsPacer
