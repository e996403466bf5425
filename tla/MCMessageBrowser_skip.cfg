SPECIFICATION Spec
CONSTANTS
  None = None Latest = Latest
  Limit = 1 MinWindow = 2
  Topics = {"b"}
  Parts <- MCParts
  Filters <- NoFilters
  StartLog <- Idle0
  MaxOffset = 4 MaxChanges = 0
  Stamps = {} MaxErrors = 0 MaxUnread = 0
  LiveBatch = 1 LiveMax = 1
  User = {"refresh"}
  Broker = {}
  NoOverlap = TRUE
INVARIANTS NothingSkipped
