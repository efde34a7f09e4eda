CONSTANTS
  fast = fast
  slow = slow
  Pages = {fast, slow}
  Prompt = {fast}
  Names <- MCNames
  SessionTime = 5
  PollTime = 3
  Latency = 1
SPECIFICATION LiveSpec
INVARIANTS DeskInv OneProgram AttendedStays
PROPERTIES UnattendedEnds Answered
