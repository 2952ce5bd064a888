SPECIFICATION ProgressSpec
CONSTANTS
  None = None
  x0 = x0  x1 = x1
  Proposals = {p1}
  Users = {ann, bob}
  Reviewers = {ann}
  Releasers = {ann, bob}
  Payloads = {x0, x1}
  Drafted <- DraftedX1
  Threads = {t1}
  Workers = {w1, w2}
  Objects = {}
  TargetOf <- AllCreate
  Current <- CurrentX0
  Verdicts = {"approve"}
  LockTimeouts = FALSE
  Crashes = FALSE
  MaxVersion = 2
  MaxAttempts = 2
  HttpAttempts = 2
  MaxToken = 0
  Orders = {o1}
  Uploads = {s1, s2}
  Deliveries = {d1}
  DiskFaults = FALSE
  MaxTokens = 3
  Realms = {r1}
  Organizations = {a}
  Authorizations = {u1}
  Keepers = {k, v1}
  Keepalive = k
  NoGrant = NoGrant
  TOKEN_ATTEMPTS = 2
  MaxGrants = 3
  TokenFaults = FALSE
PROPERTIES KeepsThePromise ReleasesEnd StartedExecutionsSettle CapturedBecomesPaid DueIsPurged DeadGrantsSurface
CHECK_DEADLOCK FALSE
