SPECIFICATION FairSpec
CONSTANTS
  k1 = k1
  k2 = k2
  v1 = v1
  v2 = v2
  Torn = Torn
  Absent = Absent
  Keys <- TwoKeys
  Values <- TwoValues
  ClearKeys <- OneKey
  MAX_PUTS = 3
  MAX_FAILS = 1
PROPERTIES OperationsReturn QueueDrains

INVARIANTS TypeOK NeverTorn PromiseKept
