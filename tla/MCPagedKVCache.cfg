SPECIFICATION Spec
CONSTANTS
  SeqIds = {0, 1, 2}
  num_total_pages_ = 3
  page_size_ = 3
  support_sliding_window_ = TRUE
  support_layer_sliding_window_ = FALSE
  AppendLengths = {4}
  Windows <- SmallWindows
  MaxBatch = 2
  MaxTokens = 20
  Cautious = TRUE
VIEW View
INVARIANTS
  TypeOK
  PagesOwnedOnce
  RefCounts
  BlockShape
  StartPositions
  InternalChecksHold
PROPERTY ImplementsSequences
