SPECIFICATION Spec
CONSTANTS
  SeqIds = {0}
  num_total_pages_ = 4
  page_size_ = 2
  support_sliding_window_ = TRUE
  support_layer_sliding_window_ = FALSE
  AppendLengths = {1, 3}
  Windows <- SmallWindows
  MaxBatch = 1
  MaxTokens = 16
  Cautious = FALSE
VIEW View
PROPERTY PopsTrailingTokens
