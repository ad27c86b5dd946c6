SPECIFICATION MirrorFairSpec
CONSTANTS
  Capacity = 2
  NoTab = NoTab
  Plain = plain
  Texts = {plain, long, huge}
  Titles = {plain}
  Oversized = {huge}
  Bytes <- TextBytes
  MaxTabs = 3
  MaxBytes = 3
  MaxId = 3
  MaxSequence = 4
  MaxLater = 2
  MaxEpoch = 2
INVARIANTS BootstrapServes MirrorExact
PROPERTIES InStepAgain
