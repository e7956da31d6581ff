SPECIFICATION MCSpec
CONSTANTS
  p1 = p1  p2 = p2  p3 = p3
  brown1 = brown1  brown2 = brown2  rail = rail  power = power
  Players = {p1, p2, p3}
  Bank = Bank
  Board <- MCBoard
  Start <- NoBoard
  Opening = 1000
  PassGoReward = 200
  BankLoanMax = 600
  Names = {"villa"}
  ScanWindow = 3
  MaxLog = 6
  SeriesPoints = 3
  MaxRequests = 2
  MaxTime = 1
  TimeToLive = 1
  Amounts = {300, 600}
  Overrides = {}
  Levels = {0}
  Dice = {2}
  Cash = {0}
  Sides = {}
  Values = {300}
  Menus = {"cash", "requests", "loans", "bankloans"}
INVARIANTS
  BooksBalance
  StatisticsAddUp
  RequestsSettleOnce
  LoansMatchRepayments
PROPERTIES
  TurnsOnlyAdvance
  FormsShowTheTruth
SYMMETRY Symmetry
CHECK_DEADLOCK FALSE
