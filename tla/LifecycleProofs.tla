--------------------------- MODULE LifecycleProofs ----------------------------
(*****************************************************************************)
(* The start command, for any applications, configuration files and flags:   *)
(* type correctness, what the exit status tells, that nothing outlives the   *)
(* command, and that what the applications need is there when they run.      *)
(*****************************************************************************)
EXTENDS Lifecycle, DataLemmas

\* The height is an integer until it is converted.
HeightIsInt ==
  /\ conf \in ConfigFiles /\ cli \in CommandLines
  /\ settings.first \in Int

Before == stage \in {"setup", "starting", "launching"}

AllAre(states) == \A a \in Apps : app[a] \in states

\* What an error, or none, says of the applications.
Told ==
  /\ err => firstDown = "failed"
  /\ ~err => signal \/ firstDown \in {"clean", "plugin"}

\* What each stage says of the applications and of what ended them.
Staged ==
  /\ Before => /\ AllAre({"absent"}) /\ firstDown = "none"
               /\ ~signal /\ ~closed /\ ~err
  /\ stage = "launched" => AllAre({"running", "down"}) /\ ~signal /\ ~closed /\ ~err
  /\ stage = "waiting" => AllAre({"running", "down"}) /\ ~closed /\ ~err
  /\ stage = "quitting" => AllAre({"running", "down"}) /\ Told
  /\ stage = "exited" => AllAre({"absent"}) \/ (AllAre({"down"}) /\ Told)
  /\ stage = "killed" => AllAre({"absent", "down", "cut"}) /\ ~signal

LifecycleInv == TypeOK /\ HeightIsInt /\ Staged

-------------------------------------------------------------------------------

\* The values among which setup chooses are some a flag can be set to.
LEMMA ValuesGiven ==
  ASSUME HeightIsInt, NEW flag, NEW v \in Values(flag)
  PROVE  v \in Given(flag)
<1>1. conf \in ConfigFiles /\ cli \in CommandLines
  BY DEF HeightIsInt
<1>2. CASE flag \in DOMAIN cli
  BY <1>1, <1>2 DEF Values, Given
<1>3. CASE flag \notin DOMAIN cli /\ v \in {conf.flags[key] : key \in {k \in DOMAIN conf.flags : flag \in Names(k)}}
  BY <1>1, <1>3 DEF Given
<1>4. CASE v = Builtin[flag]
  BY <1>4 DEF Given
<1> QED
  BY <1>2, <1>3, <1>4 DEF Values

\* The height the flags name is an integer.
LEMMA HeightType ==
  ASSUME HeightIsInt, NEW n \in Values("common-first-streamable-block")
  PROVE  n \in Int
BY ValuesGiven, FlagAssumption, LifecycleAssumption

\* A height of any sign is converted to one of WordSize.
LEMMA FirstBlockType ==
  ASSUME NEW n \in Int
  PROVE  FirstBlock(n) \in 0 .. WordSize - 1
BY LifecycleAssumption DEF FirstBlock

LEMMA InitInv == Init => LifecycleInv
<1> SUFFICES ASSUME Init
             PROVE  LifecycleInv
  OBVIOUS
<1>1. 0 \in 0 .. WordSize - 1
  BY LifecycleAssumption
<1>2. TypeOK
  BY <1>1 DEF Init, TypeOK
<1>3. HeightIsInt
  BY FlagAssumption, LifecycleAssumption DEF Init, HeightIsInt, Given
<1>4. Staged
  BY DEF Init, Staged, Before, AllAre
<1> QED
  BY <1>2, <1>3, <1>4 DEF LifecycleInv

\* setup and the way to the launch: nothing runs before Launch.
LEMMA SetupStep ==
  ASSUME LifecycleInv, Setup \/ Prepare \/ Launch \/ FailStart
  PROVE  LifecycleInv'
<1> USE DEF LifecycleInv
<1>1. Before
  BY DEF Before, Setup, Prepare, Launch, FailStart
<1>2. CASE Setup
  <2>1. settings'.first \in Int
    BY <1>2, HeightType DEF Setup, HeightIsInt
  <2>2. TypeOK' /\ HeightIsInt'
    BY <1>2, <2>1 DEF Setup, TypeOK, HeightIsInt, found
  <2>3. Staged'
    BY <1>1, <1>2 DEF Setup, Staged, Before, AllAre
  <2> QED
    BY <2>2, <2>3
<1>3. CASE Prepare
  <2>1. firstStreamable' \in 0 .. WordSize - 1
    BY <1>3, FirstBlockType DEF Prepare, HeightIsInt
  <2>2. TypeOK' /\ HeightIsInt'
    BY <1>3, <2>1 DEF Prepare, TypeOK, HeightIsInt, found
  <2>3. Staged'
    BY <1>1, <1>3 DEF Prepare, Staged, Before, AllAre
  <2> QED
    BY <2>2, <2>3
<1>4. CASE Launch
  <2>1. TypeOK' /\ HeightIsInt'
    BY <1>4 DEF Launch, TypeOK, HeightIsInt, found
  <2>2. Staged'
    BY <1>1, <1>4 DEF Launch, Staged, Before, AllAre
  <2> QED
    BY <2>1, <2>2
<1>5. CASE FailStart
  <2>1. TypeOK' /\ HeightIsInt'
    BY <1>5 DEF FailStart, TypeOK, HeightIsInt, found, prepared
  <2>2. Staged'
    BY <1>1, <1>5 DEF FailStart, Staged, Before, AllAre
  <2> QED
    BY <2>1, <2>2
<1> QED
  BY <1>2, <1>3, <1>4, <1>5

\* Applications that stop, by themselves or because the launcher ends them.
LEMMA StopStep ==
  ASSUME LifecycleInv, NEW a \in Apps,
         ShutDown(a) \/ \E how \in {"clean", "failed", "plugin"} : Stops(a, how)
  PROVE  LifecycleInv'
<1> USE DEF LifecycleInv
<1>1. /\ stage \in {"launched", "waiting", "quitting"} /\ stage' = stage
      /\ app[a] = "running" /\ app' = [app EXCEPT ![a] = "down"]
      /\ UNCHANGED <<found, prepared, closed, signal, err>>
  BY DEF ShutDown, Stops
<1>2. firstDown' \in {"none", "clean", "failed", "plugin"}
  BY DEF ShutDown, Stops, TypeOK
<1>3. TypeOK' /\ HeightIsInt'
  BY <1>1, <1>2 DEF TypeOK, HeightIsInt, found, prepared
<1>4. AllAre({"running", "down"})'
  BY <1>1 DEF Staged, AllAre, TypeOK
<1>5. stage = "quitting" => Told'
  <2>1. firstDown # "none" => firstDown' = firstDown
    BY DEF ShutDown, Stops
  <2> QED
    BY <1>1, <2>1 DEF Staged, Told
<1>6. Staged'
  BY <1>1, <1>4, <1>5 DEF Staged, Before
<1> QED
  BY <1>3, <1>6

\* The signal, with and without a handler.
LEMMA SignalStep ==
  ASSUME LifecycleInv, Signal
  PROVE  LifecycleInv'
<1> USE DEF LifecycleInv
<1>1. UNCHANGED <<found, prepared, firstDown, closed, err>> /\ ~signal
  BY DEF Signal
<1>2. CASE stage' = "killed" /\ ~(stage \in {"waiting", "quitting"})
  <2>1. /\ app' = [a \in Apps |-> IF app[a] = "running" THEN "cut" ELSE app[a]]
        /\ signal' = signal /\ stage \in {"setup", "starting", "launching", "launched"}
    BY <1>2 DEF Signal
  <2>2. TypeOK' /\ HeightIsInt'
    BY <1>1, <1>2, <2>1 DEF TypeOK, HeightIsInt, found, prepared
  <2>3. AllAre({"absent", "down", "cut"})'
    BY <2>1 DEF Staged, Before, AllAre
  <2> QED
    BY <1>1, <1>2, <2>1, <2>2, <2>3 DEF Staged, Before
<1>3. CASE stage \in {"waiting", "quitting"} /\ UNCHANGED <<app, stage>> /\ signal'
  <2>1. TypeOK' /\ HeightIsInt'
    BY <1>1, <1>3 DEF Signal, TypeOK, HeightIsInt, found, prepared
  <2> QED
    BY <1>1, <1>3, <2>1 DEF Staged, Before, AllAre, Told
<1> QED
  BY <1>2, <1>3 DEF Signal

\* The select, the close of the launcher and the end of the command.
LEMMA SelectStep ==
  ASSUME LifecycleInv,
         InstallHandler \/ TakeSignal \/ TakeTerminating \/ Close \/ WaitForTermination
  PROVE  LifecycleInv'
<1> USE DEF LifecycleInv
<1>1. HeightIsInt'
  BY DEF InstallHandler, TakeSignal, TakeTerminating, Close, WaitForTermination,
     HeightIsInt, found, prepared
<1>2. CASE InstallHandler
  BY <1>1, <1>2 DEF InstallHandler, TypeOK, prepared, Staged, Before, AllAre
<1>3. CASE TakeSignal
  BY <1>1, <1>3 DEF TakeSignal, TypeOK, prepared, Staged, Before, AllAre, Told
<1>4. CASE TakeTerminating
  <2>1. TypeOK'
    BY <1>4 DEF TakeTerminating, TypeOK, prepared, LauncherErr
  <2>2. firstDown # "none"
    BY <1>4 DEF TakeTerminating, Terminating, Staged
  <2>3. Told'
    BY <1>4, <2>2 DEF TakeTerminating, Told, LauncherErr, TypeOK
  <2> QED
    BY <1>1, <1>4, <2>1, <2>3 DEF TakeTerminating, Staged, Before, AllAre
<1>5. CASE Close
  BY <1>1, <1>5 DEF Close, TypeOK, prepared, Staged, Before, AllAre, Told
<1>6. CASE WaitForTermination
  BY <1>1, <1>6 DEF WaitForTermination, TypeOK, prepared, Staged, Before, AllAre, Told
<1> QED
  BY <1>2, <1>3, <1>4, <1>5, <1>6

\* The stage of the command and the state of the applications always agree.
THEOREM LifecycleInvariant == Spec => []LifecycleInv
<1>1. LifecycleInv /\ [Next]_vars => LifecycleInv'
  <2>1. ASSUME LifecycleInv, UNCHANGED vars
        PROVE  LifecycleInv'
    BY <2>1 DEF vars, found, prepared, LifecycleInv, TypeOK, HeightIsInt, Staged, Before,
       AllAre, Told
  <2> QED
    BY <2>1, SetupStep, StopStep, SignalStep, SelectStep DEF Next, Main
<1> QED
  BY InitInv, <1>1, PTL DEF Spec

-------------------------------------------------------------------------------

\* The state of the command always has its types; the first streamable block is a
\* height whatever its flag says.
THEOREM TypeInvariant == Spec => []TypeOK
BY LifecycleInvariant, PTL DEF LifecycleInv

\* An exit with an error is that of the first application to fail, and one without
\* it hides a failure only behind a signal.
THEOREM ExitTells == Spec => []ExitTellsCause
<1>1. LifecycleInv => ExitTellsCause
  BY DEF LifecycleInv, Staged, AllAre, Told, ExitTellsCause
<1> QED
  BY <1>1, LifecycleInvariant, PTL

\* No application runs when the command has returned.
THEOREM NothingOutlives == Spec => []NothingOutlivesStart
<1>1. LifecycleInv => NothingOutlivesStart
  BY DEF LifecycleInv, Staged, Before, AllAre, NothingOutlivesStart, TypeOK
<1> QED
  BY <1>1, LifecycleInvariant, PTL

-------------------------------------------------------------------------------
(* What is prepared for the applications                                     *)

\* The data directory and its parents.
DataDirs == {SubSeq(AbsDataDir, 1, n) : n \in 1 .. Len(AbsDataDir)}

\* What each stage has prepared: the values of the flags, then the data directory and
\* the first streamable block, then the directories of the stores.
PreparedInv ==
  /\ stage \in {"starting", "launching", "launched", "waiting", "quitting"} =>
       /\ settings.dataDir \in Values("global-data-dir")
       /\ settings.first \in Values("common-first-streamable-block")
       /\ settings.store \in Values("common-one-block-store-url")
  /\ stage \in {"setup", "starting"} => dirs = {}
  /\ stage \in {"launching", "launched", "waiting", "quitting"} =>
       firstStreamable = FirstBlock(settings.first)
  /\ stage = "launching" => dirs = DataDirs
  /\ stage \in {"launched", "waiting", "quitting"} =>
       /\ dirs = DataDirs \cup (IF Merger \in Apps THEN MadeDirs(StoreURL, DottedNames) ELSE {})
       /\ Reader \in Apps => syncState # "corrupt"

\* What is prepared stays so as long as the process runs: for any flags, store and
\* data directory (setup.go 41-52, start.go 57-102, merger.go 27-39).
THEOREM PreparedInvariant == Spec => []PreparedInv
<1>1. Init => PreparedInv
  BY DEF Init, PreparedInv
<1>2. ASSUME PreparedInv, [Next]_vars
      PROVE  PreparedInv'
  <2>1. CASE Setup
    <3>1. UNCHANGED <<conf, cli, syncState, firstStreamable, dirs>>
      BY <2>1 DEF Setup, found
    <3>2. CASE stage' = "exited"
      BY <3>2 DEF PreparedInv
    <3>3. CASE stage' # "exited"
      <4>1. /\ settings' \in [dataDir : Values("global-data-dir"),
                              first   : Values("common-first-streamable-block"),
                              store   : Values("common-one-block-store-url")]
            /\ stage = "setup" /\ stage' = "starting"
        BY <2>1, <3>3 DEF Setup
      <4>2. \A flag : Values(flag)' = Values(flag)
        BY <3>1 DEF Values, Names
      <4> QED
        BY <1>2, <3>1, <4>1, <4>2 DEF PreparedInv
    <3> QED
      BY <3>2, <3>3
  <2>2. CASE Prepare
    <3>1. UNCHANGED <<conf, cli, syncState, settings>> /\ stage = "starting" /\ stage' = "launching"
      BY <2>2 DEF Prepare, found
    <3>2. dirs' = DataDirs /\ DataDirs' = DataDirs
      BY <1>2, <2>2, <3>1 DEF Prepare, PreparedInv, DataDirs, AbsDataDir
    <3>3. \A flag : Values(flag)' = Values(flag)
      BY <3>1 DEF Values, Names
    <3>4. firstStreamable' = FirstBlock(settings'.first)
      BY <2>2, <3>1 DEF Prepare
    <3> QED
      BY <1>2, <3>1, <3>2, <3>3, <3>4 DEF PreparedInv
  <2>3. CASE Launch
    <3>1. /\ UNCHANGED <<conf, cli, syncState, settings, firstStreamable>>
          /\ stage = "launching" /\ stage' = "launched" /\ (Reader \in Apps => syncState # "corrupt")
      BY <2>3 DEF Launch, found
    <3>2. dirs' = DataDirs \cup (IF Merger \in Apps THEN MadeDirs(StoreURL, DottedNames) ELSE {})
      BY <1>2, <2>3, <3>1 DEF Launch, PreparedInv
    <3>3. DataDirs' = DataDirs /\ StoreURL' = StoreURL
      BY <3>1 DEF DataDirs, AbsDataDir, StoreURL
    <3>4. \A flag : Values(flag)' = Values(flag)
      BY <3>1 DEF Values, Names
    <3> QED
      BY <1>2, <3>1, <3>2, <3>3, <3>4 DEF PreparedInv
  <2>4. CASE /\ UNCHANGED <<found, prepared>>
             /\ stage' \in {"exited", "killed"}
                  \/ {stage, stage'} \subseteq {"launched", "waiting", "quitting"}
                  \/ stage' = stage
    <3>1. UNCHANGED <<conf, cli, syncState, settings, firstStreamable, dirs>>
      BY <2>4 DEF found, prepared
    <3>2. \A flag : Values(flag)' = Values(flag)
      BY <3>1 DEF Values, Names
    <3>3. DataDirs' = DataDirs /\ StoreURL' = StoreURL
      BY <3>1 DEF DataDirs, AbsDataDir, StoreURL
    <3>4. CASE stage' = stage
      BY <1>2, <3>1, <3>2, <3>3, <3>4 DEF PreparedInv
    <3>5. CASE stage' \in {"exited", "killed"}
      BY <3>5 DEF PreparedInv
    <3>6. CASE {stage, stage'} \subseteq {"launched", "waiting", "quitting"}
      BY <1>2, <3>1, <3>2, <3>3, <3>6 DEF PreparedInv
    <3> QED
      BY <2>4, <3>4, <3>5, <3>6
  <2>5. CASE FailStart \/ InstallHandler \/ TakeSignal \/ TakeTerminating \/ WaitForTermination
    BY <2>4, <2>5 DEF FailStart, InstallHandler, TakeSignal, TakeTerminating, WaitForTermination
  <2>6. CASE Close \/ Signal
    BY <2>4, <2>6 DEF Close, Signal
  <2>7. CASE \E a \in Apps : ShutDown(a) \/ \E how \in {"clean", "failed", "plugin"} : Stops(a, how)
    BY <2>4, <2>7 DEF ShutDown, Stops
  <2>8. CASE UNCHANGED vars
    BY <2>4, <2>8 DEF vars
  <2> QED
    BY <1>2, <2>1, <2>2, <2>3, <2>5, <2>6, <2>7, <2>8 DEF Next, Main
<1> QED
  BY <1>1, <1>2, PTL DEF Spec

\* A text up to one of its pieces.
LEMMA UpToPiece ==
  ASSUME NEW text \in Seq(STRING), NEW n \in 1 .. Len(text)
  PROVE  /\ SubSeq(text, 1, n) \in Seq(STRING) /\ Len(SubSeq(text, 1, n)) = n
         /\ SubSeq(text, 1, Len(text)) = text
         /\ \A k \in 1 .. n : SubSeq(SubSeq(text, 1, n), 1, k) = SubSeq(text, 1, k)
<1> DEFINE first == SubSeq(text, 1, n)
<1>1. first \in Seq(STRING) /\ Len(first) = n /\ \A i \in 1 .. n : first[i] = text[i]
  OBVIOUS
<1>2. SubSeq(text, 1, Len(text)) = text
  OBVIOUS
<1> HIDE DEF first
<1>3. ASSUME NEW k \in 1 .. n
      PROVE  SubSeq(first, 1, k) = SubSeq(text, 1, k)
  <2>1. SubSeq(first, 1, k) = [i \in 1 .. k |-> first[i]]
    BY <1>1
  <2>2. SubSeq(text, 1, k) = [i \in 1 .. k |-> text[i]]
    OBVIOUS
  <2>3. \A i \in 1 .. k : i \in 1 .. n
    OBVIOUS
  <2> QED
    BY <1>1, <2>1, <2>2, <2>3
<1> QED
  BY <1>1, <1>2, <1>3 DEF first

\* The directories of a local store: the path's and its parents, or only these.
LEMMA LocalStore ==
  ASSUME NEW url, NEW path \in Seq(STRING), path # <<>>,
         url = <<path>> \/ url = <<"file", path>>
  PROVE  LET dir == IF Last(path) \in DottedNames THEN SubSeq(path, 1, Len(path) - 1) ELSE path
         IN  MadeDirs(url, DottedNames) = {SubSeq(dir, 1, n) : n \in 1 .. Len(dir)}
<1> DEFINE dir == IF Last(path) \in DottedNames THEN SubSeq(path, 1, Len(path) - 1) ELSE path
           local == IF Len(url) > 1 THEN url[2] ELSE url[1]
<1>1. local = path /\ ~(Len(url) > 1 /\ url[1] # "file")
  <2>1. CASE url = <<path>>
    <3>1. Len(url) = 1 /\ url[1] = path
      BY <2>1
    <3> QED
      BY <3>1
  <2>2. CASE url = <<"file", path>>
    <3>1. Len(url) = 2 /\ url[1] = "file" /\ url[2] = path
      BY <2>2
    <3> QED
      BY <3>1
  <2> QED
    BY <2>1, <2>2
<1>2. getDirsToMake(url, DottedNames) = {dir}
  BY <1>1 DEF getDirsToMake, Front
<1> HIDE DEF dir
<1>3. MadeDirs(url, DottedNames) = {SubSeq(dir, 1, n) : n \in 1 .. Len(dir)}
  BY <1>2 DEF MadeDirs
<1> QED
  BY <1>3 DEF dir

\* A store's URL with another path.
LEMMA OtherPath ==
  ASSUME NEW scheme, NEW raw, NEW path
  PROVE  /\ [<<raw>> EXCEPT ![Len(<<raw>>)] = path] = <<path>>
         /\ [<<scheme, raw>> EXCEPT ![Len(<<scheme, raw>>)] = path] = <<scheme, path>>
OBVIOUS

\* Whatever runs finds the directories it needs, among them a local store's unless its
\* name has a dot, the first streamable block configured or one no chain reaches, and a
\* sync_state.json that can be read: for all flags and files (start.go 57-102, utils.go
\* 47-76, merger.go 27-39, node.go 138-144).
THEOREM PreparedHolds == Spec => []Prepared
<1>1. ASSUME LifecycleInv, PreparedInv, Running
      PROVE  Prepared
  <2> DEFINE A == AbsDataDir
             url == settings.store
             raw == url[Len(url)]
             path == Replace(raw, DataDirDirective, A)
             n == settings.first
  <2>1. stage \in {"launched", "waiting", "quitting"}
    BY <1>1 DEF LifecycleInv, Staged, Before, AllAre, Running, TypeOK
  <2>2. /\ settings.dataDir \in Given("global-data-dir")
        /\ n \in Given("common-first-streamable-block")
        /\ url \in Given("common-one-block-store-url")
        /\ n \in Values("common-first-streamable-block")
    BY <1>1, <2>1, ValuesGiven DEF PreparedInv, LifecycleInv
  <2>3. A \in Seq(STRING) /\ A # <<>>
    <3>1. settings.dataDir \in Seq(STRING) /\ WorkDir \in Seq(STRING) /\ WorkDir # <<>>
      BY <2>2, FlagAssumption
    <3>2. CASE settings.dataDir # <<>> /\ Head(settings.dataDir) = "/"
      BY <3>1, <3>2 DEF AbsDataDir, Abs
    <3>3. CASE ~(settings.dataDir # <<>> /\ Head(settings.dataDir) = "/")
      <4>1. A = WorkDir \o settings.dataDir
        BY <3>3 DEF AbsDataDir, Abs
      <4> QED
        BY <3>1, <4>1
    <3> QED
      BY <3>2, <3>3
  <2>4. DataDirs = {SubSeq(A, 1, k) : k \in 1 .. Len(A)}
    BY DEF DataDirs
  <2>5. DataDirs \subseteq dirs /\ (Reader \in Apps => syncState # "corrupt")
    BY <1>1, <2>1 DEF PreparedInv
  <2> HIDE DEF A
  <2>6. A \in DataDirs
    <3>1. Len(A) \in 1 .. Len(A) /\ SubSeq(A, 1, Len(A)) = A
      BY <2>3
    <3> QED
      BY <2>4, <3>1
  <2>7. IF n >= 0 THEN firstStreamable = n ELSE firstStreamable >= WordSize \div 2
    <3>1. n \in -(WordSize \div 2) .. WordSize \div 2 - 1
      BY <2>2, FlagAssumption
    <3>2. firstStreamable = n % WordSize
      BY <1>1, <2>1 DEF PreparedInv, FirstBlock
    <3> HIDE DEF n
    <3>3. WordSize \in Nat \ {0} /\ WordSize = 2 * (WordSize \div 2) /\ WordSize \div 2 \in Nat
      BY LifecycleAssumption
    <3>4. CASE n >= 0
      <4>1. n \in 0 .. WordSize - 1
        BY <3>1, <3>3, <3>4
      <4>2. n % WordSize = n
        BY <3>3, <4>1
      <4> QED
        BY <3>2, <3>4, <4>2
    <3>5. CASE ~(n >= 0)
      <4>1. n + WordSize \in 0 .. WordSize - 1 /\ n + WordSize >= WordSize \div 2
        BY <3>1, <3>3, <3>5
      <4>2. n % WordSize = n + WordSize
        BY <3>1, <3>3, <4>1
      <4> QED
        BY <3>2, <3>5, <4>1, <4>2
    <3> QED
      BY <3>4, <3>5
  <2>8. ASSUME Merger \in Apps, Len(url) = 1 \/ url[1] = "file"
        PROVE  /\ path \in dirs <=> Last(path) \notin DottedNames \/ IsPrefix(path, A)
               /\ \A k \in 1 .. Len(path) - 1 : SubSeq(path, 1, k) \in dirs
    <3>1. /\ raw \in Seq(STRING) \ {<<>>}
          /\ StoreURL = <<path>> \/ StoreURL = <<"file", path>>
      <4>1. StoreURL = [url EXCEPT ![Len(url)] = path]
        BY DEF StoreURL, mustReplaceDataDir, A
      <4> HIDE DEF url, path
      <4>2. CASE url = <<url[1]>> /\ url[1] \in Seq(STRING) \ {<<>>}
        <5>1. Len(url) = 1
          BY <4>2
        <5>2. StoreURL = <<path>>
          BY <4>1, <4>2, OtherPath
        <5> QED
          BY <4>2, <5>1, <5>2
      <4>3. CASE url = <<url[1], url[2]>> /\ url[2] \in Seq(STRING) \ {<<>>}
        <5>1. Len(url) = 2
          BY <4>3
        <5>2. StoreURL = <<url[1], path>>
          BY <4>1, <4>3, OtherPath
        <5> QED
          BY <2>8, <4>3, <5>1, <5>2
      <4> QED
        BY <2>2, <4>2, <4>3, FlagAssumption DEF url
    <3> HIDE DEF url, raw
    <3>2. path \in Seq(STRING) /\ path # <<>>
      BY <2>3, <3>1, Replaced
    <3> HIDE DEF path
    <3> DEFINE dir == IF Last(path) \in DottedNames THEN SubSeq(path, 1, Len(path) - 1) ELSE path
    <3>3. MadeDirs(StoreURL, DottedNames) = {SubSeq(dir, 1, k) : k \in 1 .. Len(dir)}
      BY <3>1, <3>2, LocalStore
    <3>4. dirs = DataDirs \cup {SubSeq(dir, 1, k) : k \in 1 .. Len(dir)}
      BY <1>1, <2>1, <2>8, <3>3 DEF PreparedInv
    <3> DEFINE l == Len(path)
    <3>5. l \in Nat \ {0} /\ l \in 1 .. l /\ SubSeq(path, 1, l) = path
      BY <3>2
    <3>6. path \in DataDirs <=> IsPrefix(path, A)
      <4>1. ASSUME path \in DataDirs
            PROVE  IsPrefix(path, A)
        <5>1. PICK k \in 1 .. Len(A) : path = SubSeq(A, 1, k)
          BY <2>4, <4>1
        <5>2. Len(path) = k
          BY <2>3, <5>1, UpToPiece
        <5> QED
          BY <2>3, <3>5, <5>1, <5>2 DEF IsPrefix
      <4>2. ASSUME IsPrefix(path, A)
            PROVE  path \in DataDirs
        <5>1. l <= Len(A) /\ SubSeq(path, 1, l) = SubSeq(A, 1, l)
          BY <4>2 DEF IsPrefix
        <5>2. l \in 1 .. Len(A) /\ path = SubSeq(A, 1, l)
          BY <2>3, <3>5, <5>1
        <5> QED
          BY <2>4, <5>2
      <4> QED
        BY <4>1, <4>2
    <3>7. CASE Last(path) \notin DottedNames
      <4>1. dir = path
        BY <3>7
      <4> HIDE DEF dir
      <4>2. \A k \in 1 .. l : SubSeq(path, 1, k) \in dirs
        BY <3>4, <4>1
      <4>3. path \in dirs
        BY <3>5, <4>2
      <4>4. \A k \in 1 .. l - 1 : k \in 1 .. l
        BY <3>5
      <4> QED
        BY <3>7, <4>2, <4>3, <4>4
    <3>8. CASE Last(path) \in DottedNames
      <4>1. dir = SubSeq(path, 1, l - 1)
        BY <3>8
      <4> HIDE DEF dir
      <4>2. CASE l = 1
        <5>1. dir = <<>>
          BY <3>2, <4>1, <4>2
        <5>2. Len(dir) = 0
          BY <5>1
        <5>3. dirs = DataDirs
          BY <3>4, <5>2
        <5>4. 1 .. l - 1 = {}
          BY <4>2
        <5> QED
          BY <3>6, <3>8, <5>3, <5>4
      <4>3. CASE l # 1
        <5>1. l - 1 \in 1 .. l
          BY <3>5, <4>3
        <5>2. /\ Len(dir) = l - 1
              /\ \A k \in 1 .. l - 1 : SubSeq(dir, 1, k) = SubSeq(path, 1, k)
          BY <3>2, <4>1, <5>1, UpToPiece
        <5>3. \A k \in 1 .. l - 1 : SubSeq(path, 1, k) \in dirs
          BY <3>4, <5>2
        <5>4. ASSUME NEW k \in 1 .. Len(dir)
              PROVE  path # SubSeq(dir, 1, k)
          <6>1. k \in 1 .. l - 1 /\ SubSeq(dir, 1, k) = SubSeq(path, 1, k)
            BY <5>2
          <6> HIDE DEF l
          <6>2. k \in 1 .. l /\ k # l
            BY <3>5, <6>1
          <6>3. Len(SubSeq(path, 1, k)) = k
            BY <3>2, <6>2, UpToPiece DEF l
          <6> QED
            BY <6>1, <6>2, <6>3 DEF l
        <5> QED
          BY <3>4, <3>6, <3>8, <5>3, <5>4
      <4> QED
        BY <4>2, <4>3
    <3> QED
      BY <3>7, <3>8
  <2> QED
    BY <2>2, <2>5, <2>6, <2>7, <2>8 DEF Prepared, A
<1>2. LifecycleInv /\ PreparedInv => Prepared
  BY <1>1 DEF Prepared
<1> QED
  BY <1>2, LifecycleInvariant, PreparedInvariant, PTL
===============================================================================
