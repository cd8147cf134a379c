SPECIFICATION RequestSpec
CONSTANTS
  p1 = p1
  p2 = p2
  NoAccount = NoAccount
  Posts = {p1, p2}
  Refreshing = {p1}
  Accounts = {a1, a2, a3}
  MaxAttempts <- MCMaxAttempts
  MaxItems = 3
INVARIANTS LedgerExact AnswersWell AnthropicFaithful ChatFaithful
PROPERTIES KeepsDiscipline RequestsEnd
CHECK_DEADLOCK FALSE
