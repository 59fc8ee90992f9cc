SPECIFICATION PhySpec
CONSTANTS
  Period = 80
  Sib1NumSf = 4
  Sib2Period = 8
  Sib2Window = 4
  WaitTime = 2
  AllocGap = 25
  Rnti <- MCRnti
  Connected <- MCConnected
  FirstTtis = {0, 30}
  DlData <- MCDlData
  UlUsers <- MCUlUsers
  MaxPdus = 1
  MaxGrants = 1
INVARIANTS PhyTypeOK DciAlone DataAlone Sib1InStep RarInTime
