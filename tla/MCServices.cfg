SPECIFICATION Spec
CONSTANTS
  \* Two replicas on one partition: rebalances, crashes, shutdowns, lost answers.
  Member = {a, b}
  Order = {c, d}
  NoOne = NoOne
  Attempts = 2
  MaxLog = 2
  MaxFaults = 2
  \* Three brokers, settings that no topic could have or none, one failed call
  \* and one restart.
  Brokers = 3
  Replicas = {0}
  Minima = {0, 4}
  MaxOutages = 0
  TopicFaults = 1
  MaxRestarts = 1
  \* Two payments, and one caller that brings its trace along.
  Payment = {a, b}
  Clients = 1
  MaxRequests = 3
  MaxRecords = 3
  \* A drain from every state of each service, with closing steps that throw.
  MaxFlips = 2
  ClosingFaults = 1
  \* Three requests of four callers against a table of two label sets.
  HttpRequest = {r, s, t}
  Session <- MCSession
  AllowedUsers = {"alice"}
  Configured = TRUE
  MaxSeries = 2
  Failure = {409, 500}
  Nobody = "nobody"
  NoRole = "none"
  \* Three deployers with the files of two builds.
  Deployer = {r, s, t}
  File = {a, b}
  MigrationFaults = 3
  \* Three callers over three windows, of statements that wait two ticks.
  Caller = {r, s, t}
  Limit = 2
  Window = 3
  Day = 5
  Delay = 2
  MaxTime = 8
  MaxCount = 3
  \* Two calls of any two operations under two accounts, and one change.
  Calls = {1, 2}
  Accounts = {"ann", "bob"}
  NoAnswer = NoAnswer
  MaxChanges = 1
SYMMETRY Symmetry
INVARIANTS ServicesTypes MessagesSettle ProcessesEndClean
PROPERTIES CallersAreServedRight
CHECK_DEADLOCK FALSE
