SPECIFICATION Spec
CONSTANTS
  p1 = p1  p2 = p2  o1 = o1  ann = ann  bob = bob
  x0 = x0  x1 = x1  t1 = t1  t2 = t2  w1 = w1  w2 = w2
  None = None
  Proposals = {p1}
  Users = {ann, bob}
  Reviewers = {ann, bob}
  Releasers = {ann, bob}
  Payloads = {x0, x1}
  Drafted <- DraftedX1
  Threads = {t1, t2}
  Workers = {w1, w2}
  Objects = {}
  TargetOf <- AllCreate
  Current <- CurrentX0
  Verdicts = {"approve"}
  LockTimeouts = FALSE
  Crashes = TRUE
  MaxVersion = 2
  MaxAttempts = 2
  HttpAttempts = 1
  MaxToken = 0
SYMMETRY Interchangeable
INVARIANTS TypeOK EveryWriteApproved OneWritePerApproval VerifiedWasWritten
CHECK_DEADLOCK FALSE
