\* One process, from its configuration to its exit status.
SPECIFICATION FairSpec
CONSTANTS
  reader = reader
  merger = merger
  firehose = firehose
  Apps <- AllApps
  Reader = reader
  Merger = merger
  ConfigFiles <- Files
  CommandLines <- Arguments
  Builtin <- Defaults
  GlobalName <- GlobalNames
  DottedNames = {"one.blocks"}
  WorkDir <- Cwd
  WordSize = 256
INVARIANTS
  TypeOK
  ExitTellsCause
  NothingOutlivesStart
  Prepared
PROPERTIES
  StopEndsProcess
\* the process ends
CHECK_DEADLOCK FALSE
