\* One maintainer with two terminals, and a call that fails or is given up.
SPECIFICATION FairSpec
CONSTANTS
  Sessions = {"s1", "s2"}
  Wallets = {"alice", "bob"}
  WalletOf <- MCSameWallet
  Versions = {"v1", "v2"}
  Size <- MCSizes
  Buffers = {"b1", "b2"}
  MaxCommands = 3
  MaxFaults = 1
CHECK_DEADLOCK FALSE
PROPERTIES
  OnceWholeStaysWhole
  CommandsEnd
