\* Two wallets and a node over a group of order 5.
CONSTANTS
  Order = 5
  Throw = Throw
  Crash = Crash
  NoProof = NoProof
  Width = 3
  MaxProof = 13
  NoSums = NoSums
  None = None
  Reward = 3
  Amount = 1
  Fee = 1
  InputBlind = 2
  ChangeBlind = 1
  Blinds = {1, 2, 3, 4}
  Offsets = {0, 3}
  Nonces = {1, 2, 3, 4}
  MaxReceived = 2
SPECIFICATION Spec
CHECK_DEADLOCK FALSE
INVARIANTS
  TypeOK
  SharesVerify
  SignaturesVerify
  RoundTrip
  RefusesSafely
  AcceptedIsSound
  SumsBalance
