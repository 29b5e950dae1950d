SPECIFICATION Spec
CONSTANTS
  Wallets = {w1}
  w1 = w1
  NoWallet = NoWallet
  OtpAttempts = 2
INVARIANTS ConnectedHasSession
CHECK_DEADLOCK FALSE
