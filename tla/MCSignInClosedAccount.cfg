SPECIFICATION SignInSpec
CONSTANTS
  number = number
  Phones = {number}
  Accounts = {a1}
  NoAccount = NoAccount
  NoPhone = NoPhone
  Codes = {c1}
  Verifiers = {v1}
  Refreshers = {r1}
  Enders = {e1, e2}
  Bookers = {}
  NoCode = NoCode
  NoToken = NoToken
  CodePhone <- MCCodePhone
  VerifierPhone <- MCVerifierPhone
  EnderKinds <- MCEnderKinds
  MaxAttempts = 2
  MaxPerWindow = 1
CHECK_DEADLOCK FALSE
PROPERTY OnlyActiveIsSuspended
