SPECIFICATION TopSpec
CONSTANTS
  BUF_SIZE = 4
  Bytes <- MCBytes
INVARIANT TopTypeOK
PROPERTIES StoredIsSent RingIsFifo
