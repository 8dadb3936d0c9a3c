-------------------------- MODULE NodeProcessProofs ---------------------------
(*****************************************************************************)
(* The whole process bootstraps as Bootstrapper.tla says, so that what is    *)
(* proved of the bootstrap holds of it, aptos-node only ever runs on the     *)
(* configuration of a bootstrap that succeeded, its arguments name that      *)
(* configuration, and its output is logged at its own level.                 *)
(*****************************************************************************)
EXTENDS NodeProcess, BootstrapperProofs, DataLemmas

\* Every step of the process is one of the bootstrap, or leaves it alone.
THEOREM ProcessBootstraps == ProcessSpec => Spec
<1>1. ProcessInit => Init
  BY DEF ProcessInit
<1>2. [ProcessNext]_processVars => [Next]_vars
  BY DEF ProcessNext, StartNode, LogLine, StopProcess, Next, processVars
<1> QED
  BY <1>1, <1>2, PTL DEF ProcessSpec, Spec

\* While aptos-node runs, node.yaml is the whole result of this process's bootstrap
\* (node-bootstraper.go 58-60, with node.go 104 and 117).
NodeRunsOnResolved ==
  command # NotRunning => stage = "done" /\ (Separate(flags) => disk[NodeYaml] = Resolved(flags))

\* aptos-node runs on the whole node.yaml of its own process's bootstrap, however many
\* bootstraps came before and wherever they stopped (node-bootstraper.go 58-60).
THEOREM NodeConfigResolved == ProcessSpec => []NodeRunsOnResolved
<1> DEFINE Started == command # NotRunning => stage = "done"
<1>1. ProcessInit => Started
  BY DEF ProcessInit
<1>2. Started /\ [ProcessNext]_processVars => Started'
  <2> SUFFICES ASSUME Started, [ProcessNext]_processVars
               PROVE  Started'
    OBVIOUS
  <2>1. CASE (Begin \/ Bootstrap) /\ UNCHANGED <<command, written, logged>>
    <3>1. ASSUME stage = "done"
          PROVE  FALSE
      BY <2>1, <3>1 DEF Begin, Bootstrap, Place, SkipDirective, CreateFile, CopyFile, Ranges,
         TruncateResolved, WriteResolved, Fail
    <3> QED
      BY <2>1, <3>1
  <2>2. CASE StartNode \/ LogLine \/ UNCHANGED processVars
    BY <2>2 DEF StartNode, LogLine, vars, processVars
  <2>3. CASE StopProcess
    BY <2>3 DEF StopProcess
  <2> QED
    BY <2>1, <2>2, <2>3 DEF ProcessNext
<1>3. Started /\ NamesConfiguredFiles => NodeRunsOnResolved
  BY DEF NodeRunsOnResolved, NamesConfiguredFiles
<1> QED
  BY <1>1, <1>2, <1>3, ProcessBootstraps, FilesNamed, PTL DEF ProcessSpec

\* So do the promises of the bootstrap hold of the process.
THEOREM ProcessNamesFiles == ProcessSpec => []NamesConfiguredFiles
BY ProcessBootstraps, FilesNamed, PTL

-------------------------------------------------------------------------------
(* What the process keeps                                                    *)

\* aptos-node runs with the arguments made for some flags, and its last line is
\* logged as the log plugin logs it.
ProcessInv ==
  /\ \/ command = NotRunning
     \/ \E dirFlag \in DirFlags, argumentFlag \in ArgumentFlags :
          command = CommandOf(dirFlag, argumentFlag)
  /\ written \in Output \cup {Nothing}
  /\ logged = Logged(written)

\* So it is in every state: aptos-node is started and logged in one step each
\* (node.go 147-158 and 247-276, logging.go 15-58).
LEMMA ProcessInvariant == ProcessSpec => []ProcessInv
<1>1. ProcessInit => ProcessInv
  BY DEF ProcessInit, ProcessInv
<1>2. ProcessInv /\ [ProcessNext]_processVars => ProcessInv'
  <2> SUFFICES ASSUME ProcessInv, [ProcessNext]_processVars
               PROVE  ProcessInv'
    OBVIOUS
  <2>1. CASE UNCHANGED <<command, written, logged>>
    BY <2>1 DEF ProcessInv
  <2>2. CASE StartNode
    BY <2>2 DEF StartNode, ProcessInv
  <2>3. CASE LogLine
    BY <2>3 DEF LogLine, ProcessInv
  <2>4. CASE StopProcess
    BY <2>4 DEF StopProcess, ProcessInv
  <2> QED
    BY <2>1, <2>2, <2>3, <2>4 DEF ProcessNext, processVars
<1> QED
  BY <1>1, <1>2, PTL DEF ProcessSpec

-------------------------------------------------------------------------------
(* The level of a line                                                       *)

\* The level of an entry without a component can only match at its own place.
LEMMA LevelAlone ==
  ASSUME NEW line \in Seq(STRING), Len(line) >= 1, line[1] \in Level
  PROVE  LevelPositions(line) = {1}
<1>1. \A q \in Level : q \notin Opening
  BY NodeLogAssumption
<1>2. 1 \in LevelPositions(line)
  BY DEF LevelPositions
<1>3. ASSUME NEW i \in LevelPositions(line)
      PROVE  i = 1
  <2>1. i \in 1 .. Len(line) /\ (i > 1 => line[1] \in Opening)
    BY DEF LevelPositions
  <2> QED
    BY <1>1, <2>1
<1> QED
  BY <1>2, <1>3

\* That of an entry with one can match later in a message that usurps it, too.
LEMMA LevelAfter ==
  ASSUME NEW line \in Seq(STRING), Len(line) >= 2, line[1] \in Opening \cap Closing, line[2] \in Level
  PROVE  LET message == SubSeq(line, 3, Len(line))
         IN  /\ 2 \in LevelPositions(line)
             /\ \A i \in LevelPositions(line) : i >= 2
             /\ Usurps(<<line[1]>>, message) <=> \E i \in LevelPositions(line) : i > 2
<1> DEFINE size == Len(line)
           message == SubSeq(line, 3, size)
           rest == Len(message)
<1>1. size \in Nat /\ size >= 2 /\ LevelPositions(line) \subseteq 1 .. size
  BY DEF LevelPositions
<1>2. /\ rest \in Nat /\ size = 2 + rest /\ DOMAIN message = 1 .. rest
      /\ \A i \in 1 .. rest : message[i] = line[i + 2]
  <2>1. message = [i \in 1 .. size - 2 |-> line[i + 2]]
    BY RestOfText
  <2> HIDE DEF message, size
  <2> QED
    BY <1>1, <2>1
<1>3. \A q \in Level : q \notin Opening /\ q \notin Closing
  BY NodeLogAssumption
<1>4. 2 \in LevelPositions(line) /\ 1 \notin LevelPositions(line)
  BY <1>3 DEF LevelPositions
<1>5. Usurps(<<line[1]>>, message)
        <=> \E k \in 1 .. rest : k > 1 /\ message[k] \in Level /\ message[k - 1] \in Closing
  BY <1>2 DEF Usurps
<1> HIDE DEF size, message, rest
<1>6. \A i \in LevelPositions(line) : i >= 2
  BY <1>1, <1>4
<1>7. ASSUME NEW i \in LevelPositions(line), i > 2
      PROVE  Usurps(<<line[1]>>, message)
  <2>1. i \in 1 .. size /\ line[i] \in Level /\ line[i - 1] \in Closing
    BY <1>1, <1>7 DEF LevelPositions
  <2>2. i # 3
    <3>1. ASSUME i = 3
          PROVE  FALSE
      <4>1. i - 1 = 2
        BY <3>1
      <4> QED
        BY <1>3, <2>1, <4>1
    <3> QED
      BY <3>1
  <2>3. i - 2 \in 1 .. rest /\ i - 2 > 1 /\ (i - 2) - 1 \in 1 .. rest
    BY <1>1, <1>2, <1>7, <2>1, <2>2
  <2>4. message[i - 2] = line[(i - 2) + 2] /\ message[(i - 2) - 1] = line[((i - 2) - 1) + 2]
    BY <1>2, <2>3
  <2>5. (i - 2) + 2 = i /\ ((i - 2) - 1) + 2 = i - 1
    BY <2>1
  <2>6. message[i - 2] \in Level /\ message[(i - 2) - 1] \in Closing
    BY <2>1, <2>4, <2>5
  <2> QED
    BY <1>5, <2>3, <2>6
<1>8. ASSUME Usurps(<<line[1]>>, message)
      PROVE  \E i \in LevelPositions(line) : i > 2
  <2>1. PICK k \in 1 .. rest : k > 1 /\ message[k] \in Level /\ message[k - 1] \in Closing
    BY <1>5, <1>8
  <2>2. k - 1 \in 1 .. rest
    BY <1>2, <2>1
  <2>3. message[k] = line[k + 2] /\ message[k - 1] = line[(k - 1) + 2]
    BY <1>2, <2>1, <2>2
  <2>4. (k - 1) + 2 = (k + 2) - 1 /\ k + 2 > 2 /\ k + 2 \in 1 .. size
    BY <1>1, <1>2
  <2>5. line[k + 2] \in Level /\ line[(k + 2) - 1] \in Closing
    BY <2>1, <2>3, <2>4
  <2>6. k + 2 \in LevelPositions(line)
    BY <2>4, <2>5 DEF LevelPositions, size
  <2> QED
    BY <2>4, <2>6
<1> QED
  BY <1>4, <1>6, <1>7, <1>8 DEF message, size

\* A level that can match somewhere is matched at the last of these places.
LEMMA LastPosition ==
  ASSUME NEW line \in Seq(STRING), LevelPositions(line) # {}
  PROVE  /\ LevelPosition(line) \in LevelPositions(line)
         /\ \A i \in LevelPositions(line) : i <= LevelPosition(line)
<1> DEFINE size == Len(line)
           places == LevelPositions(line)
           after == {size - i : i \in places}
<1>1. size \in Nat /\ places \in SUBSET (1 .. size)
  BY DEF LevelPositions
<1>2. LevelPosition(line) = CHOOSE i \in places : \A j \in places : j <= i
  BY DEF LevelPosition
<1> HIDE DEF size, places
<1>3. after \in SUBSET Nat /\ after # {}
  BY <1>1 DEF places
<1>4. PICK least \in after : \A k \in after : least <= k
  <2> HIDE DEF after
  <2> QED
    BY <1>3, LeastElement
<1>5. PICK i \in places : least = size - i
  BY <1>4
<1>6. \A j \in places : size - j \in after
  OBVIOUS
<1>7. \A j \in places : j <= i
  <2> HIDE DEF after
  <2>1. ASSUME NEW j \in places
        PROVE  j <= i
    <3>1. size - i <= size - j
      BY <1>4, <1>5, <1>6
    <3> QED
      BY <1>1, <3>1
  <2> QED
    BY <2>1
<1>8. /\ LevelPosition(line) \in places
      /\ \A j \in places : j <= LevelPosition(line)
  BY <1>2, <1>7
<1> QED
  BY <1>8 DEF places

\* Logging an entry takes the piece at its level's position out.
LEMMA EntryLogged ==
  ASSUME NEW line, line.kind = "entry", line.pieces \in Seq(STRING), LevelPositions(line.pieces) # {}
  PROVE  Logged(line) = [level |-> line.pieces[LevelPosition(line.pieces)],
                         text  |-> SubSeq(line.pieces, 1, LevelPosition(line.pieces) - 1)
                                     \o SubSeq(line.pieces, LevelPosition(line.pieces) + 1, Len(line.pieces))]
BY DEF Logged, logLevelReader, stripPrefix, Matches, RemoveAt

\* One or two pieces at the start of a text are all of it up to there.
LEMMA Starts ==
  ASSUME NEW text \in Seq(STRING), Len(text) >= 1
  PROVE  SubSeq(text, 1, 0) = <<>> /\ SubSeq(text, 1, 1) = <<text[1]>>
<1>1. SubSeq(text, 1, 0) = <<>>
  OBVIOUS
<1> DEFINE one == SubSeq(text, 1, 1)
<1>2. one \in Seq(STRING) /\ Len(one) = 1 /\ one[1] = text[1]
  OBVIOUS
<1> HIDE DEF one
<1>3. one = <<one[1]>>
  BY <1>2
<1> QED
  BY <1>1, <1>2, <1>3 DEF one

\* Whatever lines aptos-node writes, a panic is logged as an error, an entry at its own
\* level and with all of its text but that; in a message that usurps the level, the
\* level stays in the text (logging.go 15-58).
THEOREM LogsOwnLevelHolds == ProcessSpec => []LogsOwnLevel
<1>1. ASSUME ProcessInv
      PROVE  LogsOwnLevel
  <2> DEFINE line == written.pieces
  <2>1. line \in Seq(STRING) /\ logged = Logged(written)
    <3>1. CASE written = Nothing
      <4>1. line = <<>>
        BY <3>1 DEF Nothing, PlainLine
      <4> QED
        BY <1>1, <4>1 DEF ProcessInv
    <3>2. CASE written \in Output
      BY <1>1, <3>2, NodeProcessAssumption DEF ProcessInv
    <3> QED
      BY <1>1, <3>1, <3>2 DEF ProcessInv
  <2>2. ASSUME written.kind = "panic"
        PROVE  logged.level = "ERROR" /\ logged.text = line
    BY <2>1, <2>2 DEF Logged, logLevelReader, stripPrefix, Matches
  <2>3. ASSUME NEW component \in {<<>>} \cup {<<p>> : p \in Opening \cap Closing}, NEW level \in Level,
               written = EntryLine(component, level, SubSeq(line, Len(component) + 2, Len(line)))
        PROVE  LET message == SubSeq(line, Len(component) + 2, Len(line))
               IN  /\ ~Usurps(component, message) =>
                        logged = [level |-> level, text |-> component \o message]
                   /\ Usurps(component, message) => level \in ToSet(logged.text)
    <3>1. written.kind = "entry"
      BY <2>3 DEF EntryLine
    <3> DEFINE at == LevelPosition(line)
    <3>2. LevelPositions(line) # {} =>
            logged = [level |-> line[at], text |-> SubSeq(line, 1, at - 1) \o SubSeq(line, at + 1, Len(line))]
      BY <2>1, <3>1, EntryLogged
    <3>3. CASE component = <<>>
      <4>1. Len(component) + 2 = 2
        BY <3>3
      <4> DEFINE message == SubSeq(line, 2, Len(line))
      <4>2. line = <<>> \o <<level>> \o message
        BY <2>3, <3>3, <4>1 DEF EntryLine
      <4>3. message \in Seq(STRING)
        BY <2>1
      <4>4. line[1] = level /\ Len(line) >= 1
        <5> HIDE DEF line, message
        <5> QED
          BY <4>2, <4>3, Headed
      <4>5. LevelPositions(line) = {1}
        BY <2>1, <4>4, LevelAlone
      <4>6. at = 1
        BY <2>1, <4>5, LastPosition
      <4>7. logged = [level |-> level, text |-> <<>> \o message]
        BY <2>1, <3>2, <4>4, <4>5, <4>6, Starts
      <4>8. ~Usurps(component, message)
        BY <3>3 DEF Usurps
      <4> QED
        BY <3>3, <4>1, <4>7, <4>8
    <3>4. CASE component # <<>>
      <4>1. PICK p \in Opening \cap Closing : component = <<p>>
        BY <3>4
      <4>2. Len(component) + 2 = 3
        BY <4>1
      <4> DEFINE message == SubSeq(line, 3, Len(line))
      <4>3. line = <<p>> \o <<level>> \o message
        BY <2>3, <4>1, <4>2 DEF EntryLine
      <4>4. message \in Seq(STRING)
        BY <2>1
      <4>5. line[1] = p /\ line[2] = level /\ Len(line) >= 2
        <5> HIDE DEF line, message
        <5> QED
          BY <4>3, <4>4, Headed
      <4>6. /\ 2 \in LevelPositions(line)
            /\ \A i \in LevelPositions(line) : i >= 2
            /\ Usurps(component, message) <=> \E i \in LevelPositions(line) : i > 2
        BY <2>1, <4>1, <4>5, LevelAfter
      <4>7. /\ at \in LevelPositions(line) /\ at \in 1 .. Len(line) /\ at >= 2
            /\ \A i \in LevelPositions(line) : i <= at
        <5>1. at \in LevelPositions(line) /\ \A i \in LevelPositions(line) : i <= at
          BY <2>1, <4>6, LastPosition
        <5>2. at \in DOMAIN line
          BY <5>1 DEF LevelPositions
        <5> QED
          BY <2>1, <4>6, <5>1, <5>2
      <4> HIDE DEF at
      <4>8. ASSUME ~Usurps(component, message)
            PROVE  logged = [level |-> level, text |-> component \o message]
        <5>1. at = 2
          BY <4>6, <4>7, <4>8
        <5> QED
          BY <2>1, <3>2, <4>1, <4>5, <4>6, <5>1, Starts
      <4>9. ASSUME Usurps(component, message)
            PROVE  level \in ToSet(logged.text)
        <5>1. at > 2
          BY <4>6, <4>7, <4>9
        <5> DEFINE before == SubSeq(line, 1, at - 1)
                   behind == SubSeq(line, at + 1, Len(line))
        <5>2. /\ before \in Seq(STRING) /\ Len(before) = at - 1 /\ before[2] = level
              /\ behind \in Seq(STRING)
          BY <2>1, <4>5, <4>7, <5>1
        <5>3. logged = [level |-> line[at], text |-> before \o behind]
          BY <3>2, <4>6
        <5> HIDE DEF before, behind
        <5>4. (before \o behind)[2] = level /\ 2 \in DOMAIN (before \o behind)
          BY <4>7, <5>1, <5>2
        <5>5. logged.text = before \o behind
          BY <5>3
        <5> QED
          BY <5>4, <5>5 DEF ToSet
      <4> QED
        BY <4>2, <4>8, <4>9
    <3> QED
      BY <3>3, <3>4
  <2> QED
    BY <2>2, <2>3 DEF LogsOwnLevel
<1> QED
  BY <1>1, ProcessInvariant, PTL

-------------------------------------------------------------------------------
(* The arguments aptos-node runs with                                        *)

\* What the command line is made of, said piece by piece, as the provers do not know
\* that a string constant is in STRING.
Piece == STRING \cup {"--config", "/", "node.yaml", "reader", Blank} \cup Placeholder

\* The texts of the flags are made of such pieces.
LEMMA StringsArePieces ==
  ASSUME NEW text \in Seq(STRING)
  PROVE  text \in Seq(Piece)
<1>1. STRING \subseteq Piece
  BY DEF Piece
<1> QED
  BY <1>1, TextOver

\* The other pieces of the command line are neither blanks nor directives.
LEMMA OtherPieces ==
  /\ \A p \in {"--config", "/", "node.yaml", "reader"} : p \notin Placeholder /\ p # Blank
  /\ Blank \notin Placeholder
<1>1. /\ DataDirDirective # "--config" /\ DataDirDirective # "/" /\ DataDirDirective # "node.yaml"
      /\ DataDirDirective # "reader" /\ DataDirDirective # Blank
  BY Zenon DEF DataDirDirective, Blank
<1>2. /\ NodeRoleDirective # "--config" /\ NodeRoleDirective # "/" /\ NodeRoleDirective # "node.yaml"
      /\ NodeRoleDirective # "reader" /\ NodeRoleDirective # Blank
  BY Zenon DEF NodeRoleDirective, Blank
<1>3. /\ NodeDataDirDirective # "--config" /\ NodeDataDirDirective # "/"
      /\ NodeDataDirDirective # "node.yaml"
      /\ NodeDataDirDirective # "reader" /\ NodeDataDirDirective # Blank
  BY Zenon DEF NodeDataDirDirective, Blank
<1>4. /\ ExtraArgDirective # "--config" /\ ExtraArgDirective # "/" /\ ExtraArgDirective # "node.yaml"
      /\ ExtraArgDirective # "reader" /\ ExtraArgDirective # Blank
  BY Zenon DEF ExtraArgDirective, Blank
<1>5. Blank # "--config" /\ Blank # "/" /\ Blank # "node.yaml" /\ Blank # "reader"
  BY Zenon DEF Blank
<1> QED
  BY <1>1, <1>2, <1>3, <1>4, <1>5 DEF Placeholder, DirPlaceholder, ArgumentPlaceholder

\* The node's data directory has no directive but those its flag does not know.
LEMMA NodeDataDirPieces ==
  ASSUME NEW d \in DirFlags
  PROVE  /\ NodeDataDir(d) \in Seq(Piece) /\ NodeDataDir(d) # <<>>
         /\ \A k \in 1 .. Len(NodeDataDir(d)) :
              NodeDataDir(d)[k] \in Placeholder => NodeDataDir(d)[k] \in Misplaced(d, <<>>)
<1> DEFINE half == Replace(d, DataDirDirective, SfDataDir)
           whole == Replace(half, NodeRoleDirective, <<"reader">>)
<1>1. d \in Seq(Piece) /\ d # <<>> /\ SfDataDir \in Seq(Piece) /\ SfDataDir # <<>>
  BY NodeProcessAssumption, StringsArePieces
<1>2. \A k \in 1 .. Len(SfDataDir) : SfDataDir[k] \notin Placeholder
  <2>1. ToSet(SfDataDir) \cap Placeholder = {}
    BY NodeProcessAssumption
  <2> QED
    BY <1>1, <2>1 DEF ToSet
<1>3. /\ half \in Seq(Piece) /\ half # <<>>
      /\ \A i \in 1 .. Len(half) :
           \/ \E k \in 1 .. Len(SfDataDir) : half[i] = SfDataDir[k]
           \/ \E k \in 1 .. Len(d) : half[i] = d[k] /\ d[k] # DataDirDirective
  <2> HIDE DEF half
  <2> QED
    BY <1>1, Replaced DEF half
<1> DEFINE role == <<"reader">>
<1>4. role \in Seq(Piece) /\ Len(role) = 1 /\ role[1] = "reader" /\ role # <<>>
  <2>1. "reader" \in Piece
    BY DEF Piece
  <2> QED
    BY <2>1, Pieces
<1> HIDE DEF half
<1>5. /\ whole \in Seq(Piece) /\ whole # <<>>
      /\ \A i \in 1 .. Len(whole) :
           \/ \E k \in 1 .. Len(role) : whole[i] = role[k]
           \/ \E k \in 1 .. Len(half) : whole[i] = half[k] /\ half[k] # NodeRoleDirective
  <2> HIDE DEF role
  <2>1. whole = Replace(half, NodeRoleDirective, role)
    BY DEF role
  <2> HIDE DEF whole
  <2> QED
    BY <1>3, <1>4, <2>1, Replaced
<1>6. NodeDataDir(d) = whole
  BY DEF NodeDataDir, replaceNodeRole, mustReplaceDataDir, half
<1> HIDE DEF whole
<1>7. ASSUME NEW i \in 1 .. Len(whole), whole[i] \in Placeholder
      PROVE  whole[i] \in Misplaced(d, <<>>)
  <2>1. "reader" \notin Placeholder
    BY OtherPieces
  <2>2. PICK k \in 1 .. Len(half) : whole[i] = half[k] /\ half[k] # NodeRoleDirective
    BY <1>4, <1>5, <1>7, <2>1
  <2>3. PICK m \in 1 .. Len(d) : half[k] = d[m] /\ d[m] # DataDirDirective
    BY <1>2, <1>3, <1>7, <2>2
  <2>4. whole[i] \in ToSet(d)
    BY <1>1, <2>2, <2>3 DEF ToSet
  <2> QED
    BY <1>7, <2>2, <2>3, <2>4 DEF Misplaced, DirPlaceholder
<1> QED
  BY <1>5, <1>6, <1>7

\* Nor has its absolute path, in which the configuration file is.
LEMMA AbsoluteConfigFile ==
  ASSUME NEW d \in DirFlags, NEW dir, dir = Abs(WorkDir, NodeDataDir(d))
  PROVE  /\ dir \in Seq(Piece) /\ Len(dir) >= 1 /\ dir[1] = "/"
         /\ Abs(WorkDir, ResolvedNodeConfigFile(d)) = dir \o <<"/", "node.yaml">>
         /\ \A k \in 1 .. Len(dir) : dir[k] \in Placeholder => dir[k] \in Misplaced(d, <<>>)
<1> DEFINE nd == NodeDataDir(d)
<1>1. /\ nd \in Seq(Piece) /\ nd # <<>>
      /\ \A k \in 1 .. Len(nd) : nd[k] \in Placeholder => nd[k] \in Misplaced(d, <<>>)
  BY NodeDataDirPieces
<1>2. ResolvedNodeConfigFile(d) = nd \o <<"/", "node.yaml">>
  BY DEF ResolvedNodeConfigFile
<1>3. dir = Abs(WorkDir, nd)
  OBVIOUS
<1> HIDE DEF nd
<1>4. nd \o <<"/", "node.yaml">> # <<>> /\ Head(nd \o <<"/", "node.yaml">>) = Head(nd)
  BY <1>1
<1>5. CASE Head(nd) = "/"
  <2>1. dir = nd /\ nd[1] = "/" /\ Len(nd) >= 1
    BY <1>1, <1>3, <1>5 DEF Abs
  <2> QED
    BY <1>1, <1>2, <1>4, <1>5, <2>1 DEF Abs
<1>6. CASE Head(nd) # "/"
  <2>1. WorkDir \in Seq(Piece) /\ WorkDir # <<>> /\ Head(WorkDir) = "/"
    BY NodeProcessAssumption, StringsArePieces
  <2>2. \A k \in 1 .. Len(WorkDir) : WorkDir[k] \notin Placeholder
    <3>1. ToSet(WorkDir) \cap Placeholder = {}
      BY NodeProcessAssumption
    <3> QED
      BY <2>1, <3>1 DEF ToSet
  <2>3. dir = WorkDir \o nd
    BY <1>3, <1>6 DEF Abs
  <2>4. /\ dir \in Seq(Piece) /\ Len(dir) = Len(WorkDir) + Len(nd) /\ Len(nd) \in Nat
        /\ Len(WorkDir) \in Nat \ {0} /\ WorkDir[1] = "/"
        /\ \A k \in 1 .. Len(WorkDir) : dir[k] = WorkDir[k]
        /\ \A k \in 1 .. Len(nd) : dir[Len(WorkDir) + k] = nd[k]
    BY <1>1, <2>1, <2>3
  <2>5. Abs(WorkDir, ResolvedNodeConfigFile(d)) = WorkDir \o (nd \o <<"/", "node.yaml">>)
    BY <1>2, <1>4, <1>6 DEF Abs
  <2>6. <<"/", "node.yaml">> \in Seq(Piece)
    <3>1. "/" \in Piece /\ "node.yaml" \in Piece
      BY DEF Piece
    <3> QED
      BY <3>1, Pieces
  <2>7. Abs(WorkDir, ResolvedNodeConfigFile(d)) = dir \o <<"/", "node.yaml">>
    <3>1. \A x, y, z \in Seq(Piece) : x \o (y \o z) = (x \o y) \o z
      OBVIOUS
    <3> QED
      BY <1>1, <2>1, <2>3, <2>5, <2>6, <3>1
  <2>8. ASSUME NEW k \in 1 .. Len(dir), dir[k] \in Placeholder
        PROVE  dir[k] \in Misplaced(d, <<>>)
    <3>1. k \notin 1 .. Len(WorkDir)
      BY <2>2, <2>4, <2>8
    <3>2. k - Len(WorkDir) \in 1 .. Len(nd) /\ Len(WorkDir) + (k - Len(WorkDir)) = k
      BY <2>4, <3>1
    <3> QED
      BY <1>1, <2>4, <2>8, <3>2
  <2>9. Len(dir) >= 1 /\ dir[1] = "/"
    BY <2>4
  <2> QED
    BY <2>4, <2>7, <2>8, <2>9
<1> QED
  BY <1>5, <1>6

\* The default arguments, piece by piece.
LEMMA DefaultPieces ==
  ASSUME NEW file \in Seq(Piece)
  PROVE  /\ DefaultArguments(file) \in Seq(Piece)
         /\ Len(file) \in Nat /\ Len(DefaultArguments(file)) = Len(file) + 4
         /\ DefaultArguments(file)[1] = "--config" /\ DefaultArguments(file)[2] = Blank
         /\ \A k \in 1 .. Len(file) : DefaultArguments(file)[k + 2] = file[k]
         /\ DefaultArguments(file)[Len(file) + 3] = Blank
         /\ DefaultArguments(file)[Len(file) + 4] = ExtraArgDirective
<1> DEFINE front == <<"--config", Blank>>
           back == <<Blank, ExtraArgDirective>>
           half == front \o file
           n == Len(file)
<1>1. "--config" \in Piece /\ Blank \in Piece /\ ExtraArgDirective \in Piece
  BY DEF Piece, Placeholder
<1>2. /\ front \in Seq(Piece) /\ Len(front) = 2 /\ front[1] = "--config" /\ front[2] = Blank
      /\ back \in Seq(Piece) /\ Len(back) = 2 /\ back[1] = Blank /\ back[2] = ExtraArgDirective
  BY <1>1, Pieces
<1>3. DefaultArguments(file) = half \o back
  BY DEF DefaultArguments
<1> HIDE DEF front, back
<1>4. /\ half \in Seq(Piece) /\ n \in Nat /\ Len(half) = 2 + n
      /\ \A k \in 1 .. 2 : half[k] = front[k]
      /\ \A k \in 1 .. n : half[2 + k] = file[k]
  BY <1>2, Joined
<1> HIDE DEF half, n
<1>5. /\ half \o back \in Seq(Piece) /\ Len(half \o back) = (2 + n) + 2
      /\ \A k \in 1 .. 2 + n : (half \o back)[k] = half[k]
      /\ \A k \in 1 .. 2 : (half \o back)[(2 + n) + k] = back[k]
  <2>1. /\ half \o back \in Seq(Piece) /\ Len(half \o back) = Len(half) + Len(back)
        /\ \A k \in 1 .. Len(half) : (half \o back)[k] = half[k]
        /\ \A k \in 1 .. Len(back) : (half \o back)[Len(half) + k] = back[k]
    <3>1. half \in Seq(Piece) /\ back \in Seq(Piece)
      BY <1>2, <1>4
    <3> QED
      BY ONLY <3>1, Joined
  <2> QED
    BY <1>2, <1>4, <2>1
<1>6. 1 \in 1 .. 2 /\ 2 \in 1 .. 2 /\ 1 \in 1 .. 2 + n /\ 2 \in 1 .. 2 + n
  BY <1>4
<1>7. (half \o back)[1] = "--config" /\ (half \o back)[2] = Blank
  BY <1>2, <1>4, <1>5, <1>6
<1>8. (half \o back)[n + 3] = Blank /\ (half \o back)[n + 4] = ExtraArgDirective
  <2>1. n + 3 = (2 + n) + 1 /\ n + 4 = (2 + n) + 2
    BY <1>4
  <2> QED
    BY <1>2, <1>5, <1>6, <2>1
<1>9. ASSUME NEW k \in 1 .. n
      PROVE  (half \o back)[k + 2] = file[k]
  <2>1. k + 2 = 2 + k /\ k + 2 \in 1 .. 2 + n
    BY <1>4
  <2> QED
    BY <1>4, <1>5, <2>1
<1>10. (2 + n) + 2 = n + 4
  BY <1>4
<1> QED
  BY <1>3, <1>4, <1>5, <1>7, <1>8, <1>9, <1>10 DEF n

\* The text that is cut into arguments: of which pieces it is, and how it begins when
\* the flag adds to the default arguments.
LEMMA ArgumentPieces ==
  ASSUME NEW d \in DirFlags, NEW a \in ArgumentFlags, NEW file \in Seq(Piece), NEW text,
         \A k \in 1 .. Len(file) : file[k] \in Placeholder => file[k] \in Misplaced(d, <<>>),
         text = Replace(ArgumentText(file, a), NodeDataDirDirective, NodeDataDir(d))
  PROVE  /\ text \in Seq(Piece)
         /\ \A k \in 1 .. Len(text) : text[k] \in Placeholder => text[k] \in Misplaced(d, a)
         /\ (a = <<>> \/ Head(a) = "+") /\ Misplaced(d, <<>>) = {} =>
              /\ Len(text) >= Len(file) + 3
              /\ \A k \in 1 .. Len(file) + 3 : text[k] = DefaultArguments(file)[k]
<1> DEFINE default == DefaultArguments(file)
           adds == a = <<>> \/ Head(a) = "+"
           by == IF a = <<>> THEN <<>> ELSE Tail(a)
           half == ArgumentText(file, a)
           n == Len(file)
<1>1. /\ default \in Seq(Piece) /\ default # <<>> /\ n \in Nat /\ Len(default) = n + 4
      /\ default[1] = "--config" /\ default[2] = Blank /\ default[n + 3] = Blank
      /\ \A k \in 1 .. n : default[k + 2] = file[k]
      /\ default[n + 4] = ExtraArgDirective
  <2>1. /\ default \in Seq(Piece) /\ n \in Nat /\ Len(default) = n + 4
        /\ default[1] = "--config" /\ default[2] = Blank /\ default[n + 3] = Blank
        /\ \A k \in 1 .. n : default[k + 2] = file[k]
        /\ default[n + 4] = ExtraArgDirective
    BY DefaultPieces
  <2> HIDE DEF default, n
  <2>2. default # <<>>
    BY <2>1
  <2> QED
    BY <2>1, <2>2
<1>2. a \in Seq(Piece)
  BY NodeProcessAssumption, StringsArePieces
<1>3. by \in Seq(Piece) /\ \A k \in 1 .. Len(by) : by[k] \in ToSet(a)
  <2>1. CASE a = <<>>
    BY <2>1
  <2>2. CASE a # <<>>
    <3>1. by \in Seq(Piece) /\ Len(by) = Len(a) - 1 /\ \A k \in 1 .. Len(by) : by[k] = a[k + 1]
      BY <1>2, <2>2
    <3>2. \A k \in 1 .. Len(by) : k + 1 \in DOMAIN a
      BY <1>2, <3>1
    <3> QED
      BY <3>1, <3>2 DEF ToSet
  <2> QED
    BY <2>1, <2>2
<1> DEFINE filled == Replace(default, ExtraArgDirective, by)
<1>4. adds => half = filled
  BY DEF ArgumentText
<1>5. ~adds => half = a
  BY DEF ArgumentText
<1> HIDE DEF default, half, by, n
<1>6. /\ filled \in Seq(Piece)
      /\ \A i \in 1 .. Len(filled) :
           \/ \E k \in 1 .. Len(by) : filled[i] = by[k]
           \/ \E k \in 1 .. Len(default) : filled[i] = default[k] /\ default[k] # ExtraArgDirective
      /\ \A m \in 1 .. Len(default) :
           (\A k \in 1 .. m : default[k] # ExtraArgDirective) =>
             Len(filled) >= m /\ \A k \in 1 .. m : filled[k] = default[k]
  <2>1. default \in Seq(Piece) /\ default # <<>> /\ by \in Seq(Piece)
    BY <1>1, <1>3
  <2>2. /\ filled \in Seq(Piece)
        /\ \A i \in 1 .. Len(filled) :
             \/ \E k \in 1 .. Len(by) : filled[i] = by[k]
             \/ \E k \in 1 .. Len(default) : filled[i] = default[k] /\ default[k] # ExtraArgDirective
    BY ONLY <2>1, Replaced
  <2>3. ASSUME NEW m \in 1 .. Len(default), \A k \in 1 .. m : default[k] # ExtraArgDirective
        PROVE  Len(filled) >= m /\ \A k \in 1 .. m : filled[k] = default[k]
    BY ONLY <2>1, <2>3, Replaced
  <2> QED
    BY <2>2, <2>3
<1> HIDE DEF filled
<1>7. ASSUME NEW k \in 1 .. Len(default), default[k] \in Placeholder
      PROVE  default[k] = ExtraArgDirective \/ default[k] \in Misplaced(d, <<>>)
  <2>1. "--config" \notin Placeholder /\ Blank \notin Placeholder
    BY OtherPieces
  <2>2. k \in 1 .. n + 4 /\ k # 1 /\ k # 2 /\ k # n + 3
    BY <1>1, <1>7, <2>1
  <2>3. CASE k = n + 4
    BY <1>1, <2>3
  <2>4. CASE k # n + 4
    <3>1. k - 2 \in 1 .. n /\ (k - 2) + 2 = k
      BY <1>1, <2>2, <2>4
    <3>2. default[k] = file[k - 2]
      BY <1>1, <3>1
    <3> QED
      BY <1>7, <3>1, <3>2 DEF n
  <2> QED
    BY <2>3, <2>4
<1>8. ToSet(<<>>) = {}
  BY DEF ToSet
<1>9. Misplaced(d, <<>>) \subseteq Misplaced(d, a)
  BY <1>8 DEF Misplaced
<1>10. half \in Seq(Piece) /\ half # <<>>
  <2>1. CASE adds
    <3>1. ExtraArgDirective # "--config" /\ ExtraArgDirective # Blank
      <4>1. ExtraArgDirective \in Placeholder
        BY DEF Placeholder
      <4> QED
        BY <4>1, OtherPieces
    <3>2. \A k \in 1 .. 2 : k = 1 \/ k = 2
      OBVIOUS
    <3>3. \A k \in 1 .. 2 : default[k] # ExtraArgDirective
      BY <1>1, <3>1, <3>2
    <3>4. 2 \in 1 .. Len(default)
      BY <1>1
    <3>5. half \in Seq(Piece) /\ Len(half) >= 2
      BY <1>4, <1>6, <2>1, <3>3, <3>4
    <3> QED
      BY <3>5
  <2>2. CASE ~adds
    BY <1>2, <1>5, <2>2
  <2> QED
    BY <2>1, <2>2
<1>11. ASSUME NEW k \in 1 .. Len(half), half[k] \in Placeholder, half[k] # NodeDataDirDirective
       PROVE  half[k] \in Misplaced(d, a)
  <2>1. half[k] \in ToSet(a) => half[k] \in Misplaced(d, a)
    BY <1>11 DEF Misplaced, ArgumentPlaceholder
  <2>2. CASE adds
    <3>1. CASE \E m \in 1 .. Len(by) : half[k] = by[m]
      BY <1>3, <2>1, <3>1
    <3>2. CASE \E m \in 1 .. Len(default) : half[k] = default[m] /\ default[m] # ExtraArgDirective
      BY <1>7, <1>9, <1>11, <3>2
    <3> QED
      BY <1>4, <1>6, <2>2, <3>1, <3>2
  <2>3. CASE ~adds
    <3>1. half[k] \in ToSet(a)
      BY <1>2, <1>5, <2>3 DEF ToSet
    <3> QED
      BY <2>1, <3>1
  <2> QED
    BY <2>2, <2>3
<1> DEFINE nd == NodeDataDir(d)
<1>12. nd \in Seq(Piece) /\ \A k \in 1 .. Len(nd) : nd[k] \in Placeholder => nd[k] \in Misplaced(d, <<>>)
  BY NodeDataDirPieces
<1>13. text = Replace(half, NodeDataDirDirective, nd)
  BY DEF half
<1> HIDE DEF nd, adds
<1>14. /\ text \in Seq(Piece)
       /\ \A i \in 1 .. Len(text) :
            \/ \E k \in 1 .. Len(nd) : text[i] = nd[k]
            \/ \E k \in 1 .. Len(half) : text[i] = half[k] /\ half[k] # NodeDataDirDirective
       /\ \A m \in 1 .. Len(half) :
            (\A k \in 1 .. m : half[k] # NodeDataDirDirective) =>
              Len(text) >= m /\ \A k \in 1 .. m : text[k] = half[k]
  <2>1. half \in Seq(Piece) /\ half # <<>> /\ nd \in Seq(Piece)
    BY <1>10, <1>12
  <2>2. /\ text \in Seq(Piece)
        /\ \A i \in 1 .. Len(text) :
             \/ \E k \in 1 .. Len(nd) : text[i] = nd[k]
             \/ \E k \in 1 .. Len(half) : text[i] = half[k] /\ half[k] # NodeDataDirDirective
    BY ONLY <1>13, <2>1, Replaced
  <2>3. ASSUME NEW m \in 1 .. Len(half), \A k \in 1 .. m : half[k] # NodeDataDirDirective
        PROVE  Len(text) >= m /\ \A k \in 1 .. m : text[k] = half[k]
    BY ONLY <1>13, <2>1, <2>3, Replaced
  <2> QED
    BY <2>2, <2>3
<1>15. ASSUME NEW i \in 1 .. Len(text), text[i] \in Placeholder
       PROVE  text[i] \in Misplaced(d, a)
  BY <1>9, <1>11, <1>12, <1>14, <1>15
<1>16. ASSUME adds, Misplaced(d, <<>>) = {}
       PROVE  Len(text) >= n + 3 /\ \A k \in 1 .. n + 3 : text[k] = default[k]
  <2>1. ExtraArgDirective \in Placeholder /\ NodeDataDirDirective \in Placeholder
    BY DEF Placeholder, ArgumentPlaceholder
  <2>2. ASSUME NEW k \in 1 .. n + 3
        PROVE  default[k] \notin Placeholder
    <3>1. k \in 1 .. n + 4
      BY <1>1
    <3>2. "--config" \notin Placeholder /\ Blank \notin Placeholder
      BY OtherPieces
    <3>3. CASE k = 1 \/ k = 2 \/ k = n + 3
      BY <1>1, <3>2, <3>3
    <3>4. CASE ~(k = 1 \/ k = 2 \/ k = n + 3)
      <4>1. k - 2 \in 1 .. n /\ (k - 2) + 2 = k
        BY <1>1, <3>4
      <4>2. default[k] = file[k - 2]
        BY <1>1, <4>1
      <4> QED
        BY <1>16, <4>1, <4>2 DEF n
    <3> QED
      BY <3>3, <3>4
  <2>3. n + 3 \in 1 .. Len(default)
    BY <1>1
  <2>4. Len(half) >= n + 3 /\ \A k \in 1 .. n + 3 : half[k] = default[k]
    BY <1>4, <1>6, <1>16, <2>1, <2>2, <2>3
  <2>5. n + 3 \in 1 .. Len(half)
    BY <1>1, <1>10, <2>4
  <2>6. \A k \in 1 .. n + 3 : half[k] # NodeDataDirDirective
    BY <2>1, <2>2, <2>4
  <2> QED
    BY <1>14, <2>4, <2>5, <2>6
<1> QED
  BY <1>14, <1>15, <1>16 DEF adds, n, default

\* The first two arguments of a text that begins as the default arguments do: the
\* second one is the configuration file, unless a blank cuts it.
LEMMA FirstArguments ==
  ASSUME NEW text \in Seq(Piece), NEW file \in Seq(Piece), Len(file) >= 1, file[1] = "/",
         Len(text) >= Len(file) + 3,
         \A k \in 1 .. Len(file) + 3 : text[k] = DefaultArguments(file)[k]
  PROVE  /\ Fields(text)[1] = <<"--config">>
         /\ Fields(text)[2] = file <=> Blank \notin ToSet(file)
<1> DEFINE n == Len(file)
<1>1. n \in Nat /\ n >= 1 /\ Len(text) \in Nat /\ Len(text) >= n + 3
  OBVIOUS
<1>2. /\ text[1] = "--config" /\ text[2] = Blank /\ text[n + 3] = Blank
      /\ \A k \in 1 .. n : text[k + 2] = file[k]
  <2>1. 1 \in 1 .. n + 3 /\ 2 \in 1 .. n + 3 /\ n + 3 \in 1 .. n + 3 /\ \A k \in 1 .. n : k + 2 \in 1 .. n + 3
    BY <1>1
  <2> QED
    BY <2>1, DefaultPieces
<1> HIDE DEF n
<1>3. text[1] # Blank /\ text[3] # Blank
  <2>1. text[1 + 2] = file[1] /\ 1 + 2 = 3
    BY <1>1, <1>2
  <2> QED
    BY <1>2, <2>1, OtherPieces
<1>4. Len(text) >= 3
  BY <1>1
<1>5. /\ 3 \in WordStarts(text)
      /\ Fields(text)[1] = <<text[1]>>
      /\ Fields(text)[2] = SubSeq(text, 3, WordEnd(text, 3))
  BY <1>2, <1>3, <1>4, FirstWords
<1> DEFINE e == WordEnd(text, 3)
<1>6. /\ e \in 3 .. Len(text) /\ \A k \in 3 .. e : text[k] # Blank
      /\ e = Len(text) \/ text[e + 1] = Blank
  BY <1>5, WordEnds
<1> HIDE DEF e
<1>7. e < n + 3
  BY <1>1, <1>2, <1>6
<1> DEFINE word == SubSeq(text, 3, e)
<1>8. word = [k \in 1 .. e - 2 |-> text[k + 2]]
  <2>1. (1 + e) - 3 = e - 2 /\ e >= 3 /\ e \in Nat
    BY <1>6
  <2>2. \A k \in 1 .. e - 2 : (3 + k) - 1 = k + 2
    OBVIOUS
  <2> QED
    BY <1>1, <1>6, <2>1, <2>2
<1>9. file = [k \in 1 .. n |-> file[k]]
  BY DEF n
<1> HIDE DEF word
<1>10. ASSUME word = file
       PROVE  Blank \notin ToSet(file)
  <2>1. Len(word) = e - 2
    BY <1>6, <1>8
  <2>2. e - 2 = n
    BY <1>10, <2>1 DEF n
  <2>3. ASSUME NEW k \in 1 .. n
        PROVE  file[k] # Blank
    <3>1. k + 2 \in 3 .. e
      BY <1>1, <1>6, <2>2
    <3> QED
      BY <1>2, <1>6, <3>1
  <2> QED
    BY <2>3 DEF ToSet, n
<1>11. ASSUME Blank \notin ToSet(file)
       PROVE  word = file
  <2>1. \A k \in 1 .. n : file[k] # Blank
    BY <1>11 DEF ToSet, n
  <2>2. e = n + 2
    <3>1. ASSUME e < n + 2
          PROVE  FALSE
      <4>1. text[e + 1] = Blank
        BY <1>1, <1>6, <3>1
      <4>2. e - 1 \in 1 .. n /\ (e - 1) + 2 = e + 1
        BY <1>1, <1>6, <3>1
      <4> QED
        BY <1>2, <2>1, <4>1, <4>2
    <3> QED
      BY <1>1, <1>6, <1>7, <3>1
  <2>3. e - 2 = n
    BY <1>1, <2>2
  <2>4. word = [k \in 1 .. n |-> text[k + 2]]
    BY <1>8, <2>3
  <2>5. word = [k \in 1 .. n |-> file[k]]
    BY <1>2, <2>4
  <2> QED
    BY <1>9, <2>5
<1>12. Fields(text)[2] = word
  BY <1>5 DEF word, e
<1> QED
  BY <1>2, <1>5, <1>10, <1>11, <1>12

\* aptos-node only ever runs on the node.yaml this process resolved, named by its
\* first two arguments unless the flag replaces them or the path holds a blank, and no
\* directive reaches it but those the flags do not know: for all flags, directories
\* and files (node.go 104, 117, 247-276, with node-bootstraper.go 58-60).
THEOREM NodeReadsResolvedConfigHolds == ProcessSpec => []NodeReadsResolvedConfig
<1>1. ASSUME NEW d \in DirFlags, NEW a \in ArgumentFlags, command = CommandOf(d, a), NodeRunsOnResolved,
             command # NotRunning
      PROVE  NodeReadsResolvedConfig
  <2> DEFINE dir == Abs(WorkDir, NodeDataDir(d))
             file == Abs(WorkDir, ResolvedNodeConfigFile(d))
             text == Replace(ArgumentText(file, a), NodeDataDirDirective, NodeDataDir(d))
  <2>1. command.dirFlag = d /\ command.argumentFlag = a /\ command.arguments = Fields(text)
    BY <1>1 DEF CommandOf, buildNodeArguments
  <2>2. Separate(flags) => disk[NodeYaml] = Resolved(flags)
    BY <1>1 DEF NodeRunsOnResolved
  <2>3. /\ dir \in Seq(Piece) /\ Len(dir) >= 1 /\ dir[1] = "/" /\ file = dir \o <<"/", "node.yaml">>
        /\ \A k \in 1 .. Len(dir) : dir[k] \in Placeholder => dir[k] \in Misplaced(d, <<>>)
    <3> HIDE DEF file
    <3> QED
      BY AbsoluteConfigFile DEF file
  <2> DEFINE tail == <<"/", "node.yaml">>
  <2>4. tail \in Seq(Piece) /\ Len(tail) = 2 /\ tail[1] = "/" /\ tail[2] = "node.yaml"
    <3>1. "/" \in Piece /\ "node.yaml" \in Piece
      BY DEF Piece
    <3> QED
      BY <3>1, Pieces
  <2>5. file = dir \o tail
    BY <2>3
  <2> HIDE DEF dir, file, tail
  <2>6. /\ file \in Seq(Piece) /\ Len(file) = Len(dir) + 2 /\ Len(dir) \in Nat
        /\ \A k \in 1 .. Len(dir) : file[k] = dir[k]
        /\ \A k \in 1 .. 2 : file[Len(dir) + k] = tail[k]
    BY <2>3, <2>4, <2>5, Joined
  <2>7. \A k \in 1 .. Len(file) :
          k \in 1 .. Len(dir) \/ k = Len(dir) + 1 \/ k = Len(dir) + 2
    BY <2>6
  <2>8. /\ \A k \in 1 .. Len(file) : k \in 1 .. Len(dir) \/ file[k] = "/" \/ file[k] = "node.yaml"
        /\ "/" \notin Placeholder /\ "node.yaml" \notin Placeholder /\ "/" # Blank /\ "node.yaml" # Blank
    <3>1. 1 \in 1 .. 2 /\ 2 \in 1 .. 2
      OBVIOUS
    <3> QED
      BY <2>4, <2>6, <2>7, <3>1, OtherPieces
  <2>9. \A k \in 1 .. Len(file) : file[k] \in Placeholder => file[k] \in Misplaced(d, <<>>)
    BY <2>3, <2>6, <2>8
  <2>10. Blank \in ToSet(file) <=> Blank \in ToSet(dir)
    <3>1. ASSUME NEW k \in 1 .. Len(file), file[k] = Blank
          PROVE  \E m \in 1 .. Len(dir) : dir[m] = Blank
      BY <2>6, <2>8, <3>1
    <3>2. ASSUME NEW m \in 1 .. Len(dir), dir[m] = Blank
          PROVE  \E k \in 1 .. Len(file) : file[k] = Blank
      BY <2>6, <3>2
    <3>3. Blank \in ToSet(file) <=> \E k \in 1 .. Len(file) : file[k] = Blank
      BY <2>6 DEF ToSet
    <3>4. Blank \in ToSet(dir) <=> \E k \in 1 .. Len(dir) : dir[k] = Blank
      BY <2>3 DEF ToSet
    <3> QED
      BY <3>1, <3>2, <3>3, <3>4
  <2>11. /\ text \in Seq(Piece)
         /\ \A k \in 1 .. Len(text) : text[k] \in Placeholder => text[k] \in Misplaced(d, a)
         /\ (a = <<>> \/ Head(a) = "+") /\ Misplaced(d, <<>>) = {} =>
              /\ Len(text) >= Len(file) + 3
              /\ \A k \in 1 .. Len(file) + 3 : text[k] = DefaultArguments(file)[k]
    BY <2>6, <2>9, ArgumentPieces
  <2> HIDE DEF text
  <2>12. ASSUME Misplaced(d, <<>>) = {}, a = <<>> \/ Head(a) = "+"
         PROVE  /\ Fields(text)[1] = <<"--config">>
                /\ Fields(text)[2] = file <=> Blank \notin ToSet(dir)
    <3>1. file[1] = "/" /\ Len(file) >= 1
      BY <2>3, <2>6
    <3> QED
      BY <2>6, <2>10, <2>11, <2>12, <3>1, FirstArguments
  <2>13. ASSUME NEW i \in DOMAIN Fields(text), NEW piece \in Placeholder \cap ToSet(Fields(text)[i])
         PROVE  piece \in Misplaced(d, a)
    <3>1. PICK k \in 1 .. Len(text) : text[k] = piece
      BY <2>11, WordsAreOfText
    <3> QED
      BY <2>11, <3>1
  <2> QED
    BY <2>1, <2>2, <2>5, <2>12, <2>13 DEF NodeReadsResolvedConfig, dir, tail
<1>2. ASSUME ProcessInv, NodeRunsOnResolved
      PROVE  NodeReadsResolvedConfig
  <2>1. CASE command = NotRunning
    BY <2>1 DEF NodeReadsResolvedConfig
  <2>2. CASE command # NotRunning
    BY <1>1, <1>2, <2>2 DEF ProcessInv
  <2> QED
    BY <2>1, <2>2
<1> QED
  BY <1>2, ProcessInvariant, NodeConfigResolved, PTL
===============================================================================
