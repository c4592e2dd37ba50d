SPECIFICATION Spec
CONSTANTS
  WordBits = 2
  ByteBits = 1
  NumWords = 3
  p = 61
  b = 14
  n = 67
  num_n_bits = 7
  G <- MCG
  Ks <- MCKs
  Zs = {1, 2, 60}
  Replies <- MCReplies
  Peers <- MCPeers
INVARIANTS SecretsAgree OnlyPointsAccepted HonestPeerAccepted ContextReleased WordsComputeField
CHECK_DEADLOCK FALSE
