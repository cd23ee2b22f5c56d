SPECIFICATION FairSpec
CONSTANTS
  Absent = Absent
  Events = {quick, slow}
  Prompt = {quick}
  BaseDelay = 3
  MaxDelay = 7
  MaxRetries = 4
  Width = 5
  MaxWork = 7
PROPERTIES
  NoHotLoop
  BackoffIsKept
  Settles
