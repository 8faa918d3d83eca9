\* Two events of one trip: fences are recorded per event, the lock is per trip.
SPECIFICATION Spec
CONSTANTS
  e1 = e1
  e2 = e2
  t1 = t1
  w1 = w1
  w2 = w2
  Workers = {w1, w2}
  Events = {e1, e2}
  Trips = {t1}
  TripOf <- OneTrip
  NotifyEvents = {}
  AgentEvents = {e1, e2}
  MaxFailures = 1
  MaxContention = 1
  RecoverLimit = 0
  MaxCrashes = 0
  MaxStalls = 1
  MaxRedisErrors = 0
PROPERTY TripCommitsInOrder
