----------------------------- MODULE NodeProcess -----------------------------
(*****************************************************************************)
(* The bootstrap, the start of aptos-node after it and its output:           *)
(* nodeFactoryFunc of cmd/fireaptos/cli/node.go hands one data directory to  *)
(* the bootstrapper, which puts node.yaml there, and to buildNodeArguments,  *)
(* which names it on the command line; NewSuperviser logs what aptos-node    *)
(* then writes. External, modelled from how node.go uses it: the operator,   *)
(* which bootstraps first and starts aptos-node if that succeeds.            *)
(*****************************************************************************)
EXTENDS Bootstrapper, CommandLine, NodeLog

CONSTANTS DirFlags,       \* the values of the flag reader-node-data-dir
          ArgumentFlags,  \* and of reader-node-arguments, read at the start only
          SfDataDir,      \* runtime.AbsDataDir
          WorkDir,        \* where the process runs
          Output          \* the lines aptos-node may write

\* The directives that the flag of the data directory knows, those that the flag of
\* the arguments knows, and all that there are.
DirPlaceholder == {DataDirDirective, NodeRoleDirective}
ArgumentPlaceholder == {NodeDataDirDirective}
Placeholder == DirPlaceholder \cup ArgumentPlaceholder \cup {ExtraArgDirective}

\* The data directory's flag is not empty, as its default is not; where the process
\* runs and its data are absolute paths, without directives.
ASSUME NodeProcessAssumption ==
  /\ DirFlags \subseteq Seq(STRING) \ {<<>>}
  /\ ArgumentFlags \subseteq Seq(STRING)
  /\ \A path \in {SfDataDir, WorkDir} :
       /\ path \in Seq(STRING) \ {<<>>}
       /\ Head(path) = "/"
       /\ ToSet(path) \cap Placeholder = {}
  /\ \A line \in Output :
       /\ line = [kind |-> line.kind, pieces |-> line.pieces]
       /\ line.kind \in {"entry", "panic", "plain"} /\ line.pieces \in Seq(STRING)

VARIABLES
  command, \* the arguments aptos-node runs with, and the flags they come from
  written, \* its last line
  logged   \* and how the log plugin logs it

processVars == <<vars, command, written, logged>>

NotRunning == [dirFlag |-> <<>>, argumentFlag |-> <<>>, arguments |-> <<>>]

Nothing == PlainLine(<<>>)

NodeDataDir(dirFlag) == replaceNodeRole("reader", mustReplaceDataDir(SfDataDir, dirFlag))

ResolvedNodeConfigFile(dirFlag) == NodeDataDir(dirFlag) \o <<"/", "node.yaml">>

CommandOf(dirFlag, argumentFlag) ==
  [dirFlag      |-> dirFlag,
   argumentFlag |-> argumentFlag,
   arguments    |-> buildNodeArguments(NodeDataDir(dirFlag),
                                       Abs(WorkDir, ResolvedNodeConfigFile(dirFlag)), argumentFlag)]

Logged(line) == [level |-> logLevelReader(line), text |-> stripPrefix(line)]

ProcessInit == Init /\ command = NotRunning /\ written = Nothing /\ logged = Logged(Nothing)

StartNode_EvenIfFailed ==
  /\ stage \in {"done", "failed"} /\ command = NotRunning
  /\ \E dirFlag \in DirFlags, argumentFlag \in ArgumentFlags :
       command' = CommandOf(dirFlag, argumentFlag)
  /\ UNCHANGED <<vars, written, logged>>

StartNode ==
  /\ stage = "done" /\ command = NotRunning
  /\ \E dirFlag \in DirFlags, argumentFlag \in ArgumentFlags :
       command' = CommandOf(dirFlag, argumentFlag)
  /\ UNCHANGED <<vars, written, logged>>

LogLine ==
  /\ command # NotRunning
  /\ written' \in Output
  /\ logged' = Logged(written')
  /\ UNCHANGED <<vars, command>>

StopProcess ==
  /\ Stop
  /\ command' = NotRunning /\ written' = Nothing /\ logged' = Logged(Nothing)

ProcessNext ==
  \/ (Begin \/ Bootstrap) /\ UNCHANGED <<command, written, logged>>
  \/ StartNode \/ LogLine \/ StopProcess

ProcessSpec == ProcessInit /\ [][ProcessNext]_processVars

-------------------------------------------------------------------------------

\* A directive in a flag that does not know it.
Misplaced(dirFlag, argumentFlag) ==
  (ToSet(dirFlag) \cap (Placeholder \ DirPlaceholder))
    \cup (ToSet(argumentFlag) \cap (Placeholder \ ArgumentPlaceholder))

\* aptos-node is only ever started on the node.yaml that this process resolved, and
\* its first two arguments name that file, unless the flag replaces all arguments
\* or the path holds a blank, at which strings.Fields cuts it in two; no directive
\* of a flag reaches the command line but those the flag does not know (node.go 104,
\* 117, 247-276, with node-bootstraper.go 58-60).
NodeReadsResolvedConfig ==
  command # NotRunning =>
    LET dir == Abs(WorkDir, NodeDataDir(command.dirFlag))
    IN  /\ Separate(flags) => disk[NodeYaml] = Resolved(flags)
        /\ Misplaced(command.dirFlag, <<>>) = {}
             /\ (command.argumentFlag = <<>> \/ Head(command.argumentFlag) = "+") =>
               /\ command.arguments[1] = <<"--config">>
               /\ command.arguments[2] = dir \o <<"/", "node.yaml">> <=> Blank \notin ToSet(dir)
        /\ \A i \in DOMAIN command.arguments :
             Placeholder \cap ToSet(command.arguments[i])
               \subseteq Misplaced(command.dirFlag, command.argumentFlag)

\* An entry is logged at its own level and with all of its text but the level,
\* whatever levels its message speaks of, unless the message closes a bracket just
\* before a level and the entry starts with one: then the greedy match takes the
\* last such level for the entry's own. A panic is always an error (logging.go
\* 15-58).
Usurps(component, message) ==
  component # <<>> /\ \E i \in DOMAIN message :
    i > 1 /\ message[i] \in Level /\ message[i - 1] \in Closing

LogsOwnLevel ==
  /\ written.kind = "panic" => logged.level = "ERROR" /\ logged.text = written.pieces
  /\ \A component \in {<<>>} \cup {<<p>> : p \in Opening \cap Closing}, level \in Level :
       LET line    == written.pieces
           message == SubSeq(line, Len(component) + 2, Len(line))
       IN  written = EntryLine(component, level, message) =>
             /\ ~Usurps(component, message) =>
                  logged = [level |-> level, text |-> component \o message]
             /\ Usurps(component, message) => level \in ToSet(logged.text)
===============================================================================
