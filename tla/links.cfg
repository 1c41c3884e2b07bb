SPECIFICATION LinksSpec
CONSTANTS
  Parts = {"direct", "sync", "behind", "topic", "stream", "run", "agent"}
  Participants = {"a", "b"}
  Payloads = {x, y}
  None = None
  MaxDirectQueue = 2
  MaxSent <- ThreeAndNone
  MaxSteps <- NoneAndOne
  MaxCrashes = 1
  MaxTimeouts = 1
  ChangeRing = 2
  FrameBuffer = 1
  MaxCommits = 3
  MaxFacts = 2
  MaxEvents = 3
  Endpoints = {"e1", "e2", "e3"}
  Streams = {"s1"}
  Packets = {k1}
  Rejections = {"Conflict"}
  Driver <- AgentAndBrowser
  Strangers = TRUE
  MaxCallouts = 2
  MaxAttempts = 1
  MaxAsked = 3
  MaxLines = 4
INVARIANTS
  LaneIsGapless
  TransportTellsTheTruth
  RunsReportWhatHappened
PROPERTIES
  ImplementsChannel
  ClientIsCurrent
CHECK_DEADLOCK FALSE
