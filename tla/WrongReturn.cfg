SPECIFICATION BooksSpec
CONSTANTS
  Parts = {"returns"}
  Unnamed = Unnamed
  Unstated = Unstated
  None = None
  NotRecorded = NotRecorded
  Nothing = Nothing
  STALE_DAYS = 90
  PAYMENT_TERM_DAYS = 30
  PRICE_HISTORY_MINIMUM = 3
  PRICE_SPIKE_MULTIPLE = 2
  Documents <- Pool
  Chart <- SmallChart
  Customers = {}
  Jobs = {}
  Statements <- OneStatement
  Correction <- CorrectionOfPool
  TODAY = 100
  PAGE_SIZE = 1
  MaxRuns = 2
  MaxChanges = 3
  ReportFails = TRUE
  Lines = {l1}
  Entries = {1}
  Amounts = {10}
  Days = {1}
  Window = 1
  MaxWords = 1
  Ordinals = {0}
  FirstDay <- Winter
  LastDay <- NextSpring
  Arrangements <- UsualFilers
  Paperwork <- MorePapers
  AccountType <- AccountTypes
  Rates = {1, 2}
  Labels <- SomeLabels
  MaxScans = 2
PROPERTIES ReturnStatesRevenue
CHECK_DEADLOCK FALSE
