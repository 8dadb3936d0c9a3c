\* Two starts of the process, failing and stopping at any point.
SPECIFICATION ProcessSpec
CONSTANTS
  g1 = g1
  g2 = g2
  w1 = w1
  y1 = y1
  genesis = genesis
  waypoint = waypoint
  NodeYaml = NodeYaml
  DataDir = DataDir
  NoFile = NoFile
  Unresolved = Unresolved
  Absent = Absent
  Cut = Cut
  Outside <- Paths
  Inside <- Names
  Base <- BaseName
  FlagSets <- Flags
  DirFlags <- Dirs
  ArgumentFlags <- Arguments
  SfDataDir <- Root
  WorkDir <- Cwd
  Output <- Lines
  Opening = {"[api]"}
  Closing = {"[api]", "x]"}
  MaxStarts = 2
INVARIANTS
  TypeOK
  NamesConfiguredFiles
  NeverHalfResolved
  SelfCopyEmpties
  NodeReadsResolvedConfig
  LogsOwnLevel
PROPERTIES
  ResolvedOnlyAtTheEnd
\* the process is started a bounded number of times
CHECK_DEADLOCK FALSE
