\* One Worker process, as docker-compose.yml deploys it: crashes, restarts,
\* stale locks and failing runs must lose no event.
SPECIFICATION FairSpec
CONSTANTS
  e1 = e1
  e2 = e2
  t1 = t1
  Workers = {w1}
  Events = {e1, e2}
  Trips = {t1}
  TripOf <- OneTrip
  NotifyEvents = {e1}
  AgentEvents = {e1}
  MaxFailures = 2
  MaxContention = 2
  RecoverLimit = 3
  MaxCrashes = 1
  MaxStalls = 0
  MaxRedisErrors = 0
INVARIANTS TypeOK NoEventLost OneNoticePerEvent
PROPERTY EventuallySettled

