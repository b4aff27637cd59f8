CONSTANTS
  Order <- MCOrder
  MayFile <- MCFiles
  MayDir <- MCDirs
  Ignored <- MCIgnored
  Refused <- MCRefused
  Disk0 <- MCDisk0
  Tampers <- MCTampers
  Subscribed = TRUE
  NoTree = NoTree
  MaxEdits = 2
  MaxFaults = 1
  MaxEvents = 2
SPECIFICATION FairSpec
INVARIANT NothingMissed
PROPERTY FilesHeal
