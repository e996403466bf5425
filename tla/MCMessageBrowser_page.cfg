SPECIFICATION Spec
CONSTANTS
  None = None Latest = Latest
  Limit = 1 MinWindow = 2
  Topics <- MCTopics
  Parts <- MCParts
  Filters <- OneFilter
  StartLog <- Mixed
  MaxOffset = 3 MaxChanges = 1
  Stamps = {0, 2} MaxErrors = 1 MaxUnread = 1
  LiveBatch = 1 LiveMax = 1
  User = {"refresh", "refetch", "live"}
  Broker = {"produce", "retain", "compact", "fail", "cut", "offsets"}
  NoOverlap = TRUE
INVARIANTS TypeOK ShowsSelected OnePartitionNothingSkipped NewestFirst
PROPERTIES OlderPagesNew
