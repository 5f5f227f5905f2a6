SPECIFICATION WebhookSpec
CONSTANTS
  ValidateTimeout = 1
  AnalyzeTimeout = 0
  TranscodeTimeout = 1
  ThumbnailsTimeout = 1
  AudioTimeout = 0
  PreviewTimeout = 1
  StreamingTimeout = 1
  TransferSlack = 1
  Scales = {0}
  JobTimeouts = {0, 3}
  MaxParallels = {0, 2}
  MaxTransfer = 2
INVARIANTS
  TypeOK
  BudgetSuffices
  ResultFinal
  CallbackTruthful
  CallbackBounded
PROPERTIES
  TranscodedIsUploaded
  AttemptEnds
  CallbackEnds
CHECK_DEADLOCK FALSE
