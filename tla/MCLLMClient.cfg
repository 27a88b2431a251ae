SPECIFICATION FairSpec
CONSTANTS
  Calls <- MCCalls
  Configured = 0
  Default = 1024
  Cap = 4096
  Floor = 512
  JsonFloor = 1536
  MaxAttempts = 3
INVARIANTS TypeOK OneVoice RequestsAreSound
PROPERTIES RoomToAnswer EveryCallEnds
