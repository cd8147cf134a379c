SPECIFICATION ConsoleSpec
CONSTANTS
  c1 = c1
  c2 = c2
  w1 = w1
  w2 = w2
  w3 = w3
  Urls = {1, 2}
  Accts = {1, 2}
  NoProxy = 0
  Binders = {b1}
  Editors = {e1}
  FirstCooldown = 1
  MaxDoublings = 1
  MaxReports = 2
  MaxFaults = 1
  MaxNow = 2
  Puts = {p1, p2}
  Boot = Boot
  Bodies <- MCBodies
  Yaml <- MCYaml
  MaxConc = 2
  NoFile = NoFile
  MaxRestarts = 2
  MaxErrors = 2
  Calls = {c1, c2}
  Flows = {w1, w2, w3}
  CallOf <- MCCallOf
  Values = 2
  MaxRetries = 2
  MaxPermits = 1
  MaxPolls = 1
  NoValue = NoValue
  Cookies = 3
  MaxBatch = 2
  Senders = {g1, g2}
  Outcomes = {"cred", "failed"}
  Unset = Unset
  Entries <- MCEntries
  MaxItems = 2
  MaxDepth = 2
  CookieTrees <- MCCookieTrees
  CredentialFiles <- MCCredentialFiles
  TextFiles <- MCTextFiles
  EntryLimit = 2
  MaxWarnings = 1
  NoDocument = NoDocument
INVARIANTS SettingsDurable ConvertSound EachItsOwn LimitsExact
PROPERTIES HealthKept ConvertEnds
CHECK_DEADLOCK FALSE
