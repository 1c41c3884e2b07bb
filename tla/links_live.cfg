SPECIFICATION FairLinksSpec
CONSTANTS
  Parts = {"direct", "sync", "topic", "stream", "opens", "agent", "run"}
  Participants = {"a", "b"}
  Payloads = {x}
  None = None
  MaxDirectQueue = 2
  MaxSent <- ThreeAndNone
  MaxSteps <- NoneAndOne
  MaxCrashes = 1
  MaxTimeouts = 1
  ChangeRing = 1
  FrameBuffer = 1
  MaxCommits = 2
  MaxFacts = 1
  MaxEvents = 2
  Endpoints = {"e1", "e2"}
  Streams = {"s1", "s2"}
  Packets = {k1}
  Rejections = {"Conflict"}
  Driver <- AgentAndBrowser
  Strangers = FALSE
  MaxCallouts = 1
  MaxAttempts = 1
  MaxAsked = 2
  MaxLines = 3
PROPERTIES
  LinksComeToAnEnd
CHECK_DEADLOCK FALSE
