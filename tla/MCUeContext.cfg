SPECIFICATION Spec
CONSTANTS
  Rnti <- MCRnti
  FirstRnti = 1
  NextRnti <- MCNextRnti
  InUseAgain = FALSE
  MaxTasks = 2
  MaxPdus = 1
INVARIANTS TypeOK GeneratesForKnownUser LayersAgree QueuedHasUser PendingIsScheduled
PROPERTY ReleaseCompletes
