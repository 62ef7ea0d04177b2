SPECIFICATION Spec
CONSTANTS
  AP = {a1, a2}
  NoAP = NoAP
  DcaEnabled = {a1, a2}
  ConfigModes = {"force", "time"}
  AcpPipeMax = 3
  CalcPipeMax = 16
  MaxChecks = 2
  SsppRounds = 1
  MaxEvents = 1
PROPERTY AnswerIsOwn
