SPECIFICATION PhySpec
CONSTANTS
  Period = 10240
  Sib1NumSf = 128
  Sib2Period = 512
  Sib2Window = 16
  WaitTime = 30
  AllocGap = 25
  Rnti = {1}
  Connected = {}
  FirstTtis = {0}
  DlData = {}
  UlUsers = {}
  MaxPdus = 1
  MaxGrants = 1
INVARIANT QueuedIsSent
