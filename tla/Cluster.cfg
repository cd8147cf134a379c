SPECIFICATION Spec
CONSTANTS
  w1 = w1
  w2 = w2
  r1 = r1
  r2 = r2
  r3 = r3
  Workers = {w1, w2}
  ShardCount = 2
  TargetShards = 1
  NoWorker = NoWorker
  Requests = {r1, r2, r3}
  Accounts = {a1}
  WorkerOf <- MCWorkerOf
  MaxInflight = 1
  MaxLeaks = 1
  NoAccount = NoAccount
  Refreshers = {f1, f2}
  BatchSize = 1
  MaxTokens = 3
  NoRefresher = NoRefresher
  Puts = {p1}
  StartLimit = 2
  Limits = {0, 1, 2}
  Owners = {w1, stranger, Nobody}
  Nobody = Nobody
INVARIANTS CountSound TokenKept DueInOnePlace AdmissionExact
PROPERTY SplitHeals
