CONSTANTS
  Imports = {"i1", "i2", "i3"}
  Exports = {"e1", "e2"}
  Scenes <- MCScenes
  Archives <- MCArchives
  ArchivesOf <- MCArchivesOf
  Contents <- MCContents
  MaxMembers = 7
  MaxPacked = 2
  MaxMember = 2
  MaxExpanded = 6
  MaxRatio = 1
  MaxManifest = 1
  MaxEdges = 3
  MaxNodes = 3
  MaxSnapshot = 6
  NoParent = "no parent"
  MaxArchive = 2
  ImportSlots = 1
  SnapshotSlots = 1
  Capacity = 4
  MaxGenerations = 3
  MaxFaults = 2
SPECIFICATION FairSpec
INVARIANTS
  AcceptsTheWellFormed
  NothingIsLeft
  ExportIsOneGeneration
PROPERTIES
  EveryRequestEnds
CHECK_DEADLOCK FALSE
