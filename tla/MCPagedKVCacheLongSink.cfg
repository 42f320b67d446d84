SPECIFICATION Spec
CONSTANTS
  SeqIds = {0, 1}
  num_total_pages_ = 5
  page_size_ = 2
  support_sliding_window_ = TRUE
  support_layer_sliding_window_ = FALSE
  AppendLengths = {1, 3}
  Windows <- LongSink
  MaxBatch = 2
  MaxTokens = 20
  Cautious = TRUE
VIEW View
INVARIANTS
  InternalChecksHold
  EnoughPagesNeverFull
  WindowNeverStarves
PROPERTY ImplementsSequences
