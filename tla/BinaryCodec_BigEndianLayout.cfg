CONSTANTS
  TopicStrings <- MCTopics
  Payloads <- MCPayloads
  U64s <- MCU64s
  BadQos = {2, 255}
  TopicLimit = 2
  PayloadLimit = 2
  Stamps = {5, 9}
  WireQos = {0, 1, 2, 257}
SPECIFICATION Spec
INVARIANT BigEndianLayout
