SPECIFICATION AccountsSpec
CONSTANTS
  Tabs = {t1, t2}
  MAX_FAILED_ATTEMPTS = 1
  MFA_MAX_ATTEMPTS = 2
  RecoveryCodes = {c1}
  MaxSecrets = 2
  MaxBatches = 1
INVARIANTS NeverLockedOut
CHECK_DEADLOCK FALSE
