SPECIFICATION OfficeSpec
CONSTANTS
  n1 = n1  n2 = n2  n3 = n3  l1 = l1  l2 = l2  x1 = x1
  Nil = Nil
  Orders = {o1, o2}
  Uploads = {s1, s2}
  Deliveries = {d1}
  Crashes = TRUE
  LockFaults = TRUE
  DiskFaults = TRUE
  MaxTokens = 3
  Realms = {r1}
  Organizations = {a}
  Authorizations = {u1, u2}
  Workers = {k, w1}
  Keepalive = k
  NoGrant = NoGrant
  TOKEN_ATTEMPTS = 2
  MaxGrants = 3
  TokenFaults = TRUE
  Mails = {m1, m2}
  Browsers = {b1, b2}
  MAIL_RETRIES = 1
  MaxLinks = 3
  MailFaults = TRUE
  Tabs = {t1, t2}
  MAX_FAILED_ATTEMPTS = 1
  MFA_MAX_ATTEMPTS = 2
  RecoveryCodes = {c1}
  MaxSecrets = 2
  MaxBatches = 2
  Names = {n1, n2, n3}
  Alike <- AlikeNames
  Lists = {l1, l2}
  Rows <- LeadLists
  Importers = {i1}
  Stages = {"new", "won"}
  MaxCompanies = 2
  Engagements = {e1}
  Pulls = {p1, p2}
  Reports = {tb, pl}
  TrialBalance = tb
  CloseDays = 1
  UnclosedDays = 2
  MaxDay = 3
  None = None
  LockTimeouts = TRUE
  Proposals = {q1}
  Users = {ann, bob}
  Reviewers = {ann, bob}
  Payloads = {x1, x2}
  Drafted <- DraftedX1
  Threads = {h1, h2}
  Verdicts = {"approve", "escalate"}
  MaxVersion = 3
SYMMETRY Interchangeable
INVARIANTS OfficeTypeOK OneUploadPerPayment PurgedFilesAreGone ActiveMeansUsable MailedClientsCanEnter ActiveSecretIsHeld GoneWhenPromised OneDraftPerVersion EditorNeverApproves
PROPERTIES KnownNamesStayKnown OnlyTheOperatorLifts DraftsAreNeverRewritten
CHECK_DEADLOCK FALSE
