SPECIFICATION Spec
CONSTANTS
  Wallets = {w1}
  w1 = w1
  NoWallet = NoWallet
  OtpAttempts = 2
INVARIANTS AckIsHeard
CHECK_DEADLOCK FALSE
