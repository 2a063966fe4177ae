SPECIFICATION AuthSpec
CONSTANTS
  Clients = {a}
  Workers = {w1, w2}
  MaxAttempts = 2
  LockoutSecs = 2
  AttemptTtl = 4
  TokenTtl = 2
  MaxTokens = 2
  AuthBounds <- MCBounds
  None = None
INVARIANTS
  GuessesAreBounded
  SessionsAreExact
SYMMETRY WorkersAlike
CHECK_DEADLOCK FALSE
