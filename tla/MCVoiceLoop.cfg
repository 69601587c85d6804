SPECIFICATION FairSpec
CONSTANTS
  Lengths <- MCLengths
  PcmDurations <- MCPcm
  FrameDuration = 3
  Transcribers = {"early", "plain", "none"}
  MinSpeech = 3
  EndSilence = 3
  MaxUtterance = 9
  BargeInSpeech = 4
  AgentFloor = 8
  MaxBytes = 7
  EarlyBytes = 3
  MicFrame = 1
  MaxQueuedFrames = 2
  MaxFillers = 2
INVARIANTS AudioIsUtterance SentWhole HalfDuplex
PROPERTIES FloorsEnd
