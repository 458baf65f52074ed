SPECIFICATION Spec
CONSTANTS
  None = None
  Unnamed = {3}
  ToolQueueSize = 1
  MaxResponses = 3
  MaxCalls = 2
  MaxAudio = 1
  MaxSpeech = 3
  MaxAnnouncements = 1
  MaxLost = 1
  MaxInbox = 2
INVARIANTS
  TurnSafe

PROPERTIES
  AnnouncementsWait

CHECK_DEADLOCK FALSE
