CONSTANTS
  Message = {t1, f1}
  Text = {t1}
  MaxRedo = 1
  MaxCrash = 1
SPECIFICATION PipelineSpec
INVARIANT LossExplained RowHasFile RetryStormBounded
PROPERTY IndexedBeforeForgotten QueuesDrain ImplementsStore
CHECK_DEADLOCK FALSE
