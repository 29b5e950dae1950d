SPECIFICATION Spec
CONSTANTS
  Wallets = {w1, w2}
  w1 = w1
  w2 = w2
  NoWallet = NoWallet
  OtpAttempts = 2
SYMMETRY Symmetry
CONSTRAINT NoRequests
INVARIANTS PairingInv DisconnectForgets
PROPERTIES LimitHolds Pairs
CHECK_DEADLOCK FALSE
