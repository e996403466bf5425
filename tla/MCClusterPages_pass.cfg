SPECIFICATION Spec
CONSTANTS
  Clusters = {1, 2}
  None = None
  Asked = Asked
  KnownAtStart = {2}
  Me <- MCMe
  MAX_POINTS = 3
  WINDOW = 3
  MIN_INTERVAL = 1
  MaxIdle = 2
  MaxPending = 1
INVARIANTS TypeOK HistoryOfSelected
PROPERTIES SelectionKept
