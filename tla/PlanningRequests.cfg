SPECIFICATION Spec
CONSTANTS
  s1 = s1  s2 = s2  k1 = k1
  said = said  remembered = remembered
  preference = preference  unset = unset
  NoKey = NoKey
  Slots = {s1, s2}
  Headers = {k1}
  Values = {said, remembered}
  MemoryValues = {remembered}
  Unset = unset
  Preference = preference
  Fields <- MCFields
  Bodies <- MCBodies
  Answers <- MCAnswers
  Outcomes = {"success", "need_clarification"}
  DailyLimit = 3
  TokenLimit = 2
  Usage = {1}
  EarlierPlans = {0, 1}
  MaxRequests = 3
  MaxFaults = 1
SYMMETRY Symmetry
INVARIANTS
  RepliesMatch
  OneExecutionPerKey
  RecordTellsOutcome
  AnswersKept
  QuotaHeld
CHECK_DEADLOCK FALSE
