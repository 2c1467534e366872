SPECIFICATION ProgramSpec
CONSTANTS
  Commands <- ProgramCommands
  Sweeps <- AllSweeps
  Addresses <- TheAddresses
  Hashed <- TheHashed
  Files <- TheFiles
  Certs <- TheCerts
  Subjects <- TheSubjects
  InDate <- TheInDate
  KeyUsage <- TheKeyUsage
  Broken = "Broken"
  ProbeAbove = 4
  Overhead = 2
INVARIANTS
  CodeTells
  GivenIsHeard
  CodeOfRun
  EveryoneNamed
  SealedForAll
  ChannelAsAsked
  SizeRefusalTrue
  PassedMeansReachable
PROPERTY RunEnds
CHECK_DEADLOCK FALSE
