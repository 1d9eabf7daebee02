SPECIFICATION Spec
CONSTANTS
  SharedCv = TRUE
  Counts = {0, 1, 2}
  Keepalive = 5
  Debounce = 2
  JoinMax = 4
  MaxUpdates = 3
  MaxFail = 0
PROPERTY PostsSpaced
