SPECIFICATION Spec
CONSTANTS
  Platforms = {"ZSIM", "VM"}
  Buf = 64
  BufSize = 32
  Types = {1, 200}
  Ids <- MCIds
  Payloads <- MCPayloads
INVARIANT RoundTrip
PROPERTY PackWithinRpcLen
