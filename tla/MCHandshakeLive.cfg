SPECIFICATION FairSpec
CONSTANTS
  Wallets = {w1}
  w1 = w1
  NoWallet = NoWallet
  OtpAttempts = 2
PROPERTIES ConnectSettles PairingCompletes
CHECK_DEADLOCK FALSE
