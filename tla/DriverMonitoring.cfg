SPECIFICATION FairSpec
CONSTANTS
  FULL = 4
  Step <- MCStep
  Threshold1 <- MCThreshold1
  Threshold2 <- MCThreshold2
  NO_RESPONSE_TIMEOUT = 1
  MAX_ALERT_3 = 2
  MAX_NO_RESPONSE = 1
  LOCKOUT_TIMES <- MCLockoutTimes
  HI_STD_FALLBACK_TIME = 1
INVARIANT TypeOK
PROPERTIES RedStays OrangeNotDodged LockoutHolds NoResponseDecelerates InattentionAlarms
