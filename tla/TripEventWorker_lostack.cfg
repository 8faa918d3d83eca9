\* Two Workers, one of which starts while the other is working and later crashes.
SPECIFICATION Spec
CONSTANTS
  e1 = e1
  e2 = e2
  t1 = t1
  w1 = w1
  w2 = w2
  Workers = {w1, w2}
  Events = {e1}
  Trips = {t1}
  TripOf <- OneTrip
  NotifyEvents = {}
  AgentEvents = {e1}
  MaxFailures = 2
  MaxContention = 2
  RecoverLimit = 1
  MaxCrashes = 1
  MaxStalls = 1
  MaxRedisErrors = 0
INVARIANT NoEventLost
