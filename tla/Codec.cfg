SPECIFICATION Spec
CONSTANTS
  Crc8 <- River2Crc8
  Crc16 <- River2Crc16
  CbcEncrypt <- ToyEncrypt
  CbcDecrypt <- ToyDecrypt
  Packets <- MCPackets
  Bytes <- MCBytes
  KeyTexts <- MCKeyTexts
  Digests <- MCDigests
INVARIANTS DamageRejected ChecksumsAreRemainders SealedRoundTrip LenientDecryption
  KeyMaterialFound HexPayloadIsDigest
CHECK_DEADLOCK FALSE
