SPECIFICATION Spec
CONSTANTS
  SeqIds = {0, 1}
  num_total_pages_ = 2
  page_size_ = 2
  support_sliding_window_ = TRUE
  support_layer_sliding_window_ = FALSE
  AppendLengths = {2, 3}
  Windows <- SmallWindows
  MaxBatch = 1
  MaxTokens = 16
  Cautious = TRUE
VIEW View
INVARIANT SeqLengthIsSum
