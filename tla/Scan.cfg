SPECIFICATION ScanSpec
CONSTANTS
  Half = 5
  FirstPause = 2
  MaxRetries = 2
  MaxDelay = 12
  MaxInterval = 8
  Params <- MCParams
  Payloads <- MCPayloads
  Timed <- MCTimed
  Settings <- MCSettings
  Tokens <- MCTokens
  Files <- MCFiles
  Builtin <- MCBuiltin
INVARIANTS PayloadWasSlower ErrorNeverConfirms FirstHitReported EveryPayloadTried SecretReported
CHECK_DEADLOCK FALSE
