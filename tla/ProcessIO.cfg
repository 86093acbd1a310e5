SPECIFICATION Spec
CONSTANTS
  Attachments <- SomeAttachments
  Output <- SomeOutput
  PipeSize = 1
  MaxSignals = 2
  Faults = {"hcs", "child", "sink"}
INVARIANTS
  OutputIsComplete
PROPERTIES
  ReturnsAfterExit
  ProgramIsServed
  InterruptEndsCall
  AttachIsOneStep
CHECK_DEADLOCK FALSE
