SPECIFICATION FairSpec
CONSTANTS
  SharedCv = FALSE
  Counts = {0, 1, 2}
  Keepalive = 5
  Debounce = 2
  JoinMax = 4
  MaxUpdates = 3
  MaxFail = 3
INVARIANTS TypeOK UpdatePrompt OverlapsLate OfflineKept
PROPERTIES PostsSpaced EntryConverges
