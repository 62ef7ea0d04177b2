SPECIFICATION Spec
CONSTANTS
  Scans <- MCScans
  Assigned <- MCAssigned
  Configured = {0, 6}
INVARIANTS ScoresFollowChannels  
