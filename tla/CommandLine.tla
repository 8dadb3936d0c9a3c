----------------------------- MODULE CommandLine -----------------------------
(*****************************************************************************)
(* What the command line's texts are turned into (cmd/fireaptos/cli/utils.go *)
(* and the arguments of aptos-node in node.go). A text is a sequence of      *)
(* pieces: words, the blank " ", and the directives that are replaced in it. *)
(* A path is the text of its segments, the first of them "/" if absolute.    *)
(*****************************************************************************)
EXTENDS SequencesExt, Naturals

Blank == " "

\* The directives that the flags' texts may hold.
DataDirDirective == "{data-dir}"

NodeRoleDirective == "{node-role}"

NodeDataDirDirective == "{node-data-dir}"

ExtraArgDirective == "{extra-arg}"

\* strings.Replace(text, piece, by, -1)
Replace(text, piece, by) ==
  FlattenSeq([i \in DOMAIN text |-> IF text[i] = piece THEN by ELSE <<text[i]>>])

\* strings.Fields: the runs of pieces between blanks, in order.
WordStarts(text) ==
  {i \in DOMAIN text : text[i] # Blank /\ (i = 1 \/ text[i - 1] = Blank)}

WordEnd(text, i) ==
  CHOOSE e \in i .. Len(text) :
    /\ \A k \in i .. e : text[k] # Blank
    /\ e = Len(text) \/ text[e + 1] = Blank

Fields(text) ==
  LET starts == WordStarts(text)
      Start(j) == CHOOSE i \in starts : Cardinality({s \in starts : s <= i}) = j
  IN  [j \in 1 .. Cardinality(starts) |-> SubSeq(text, Start(j), WordEnd(text, Start(j)))]

\* filepath.Abs
Abs(workDir, path) == IF path # <<>> /\ Head(path) = "/" THEN path ELSE workDir \o path

mustReplaceDataDir(dataDir, in) == Replace(in, DataDirDirective, dataDir)

replaceNodeRole(nodeRole, in) == Replace(in, NodeRoleDirective, <<nodeRole>>)

-------------------------------------------------------------------------------
(* The arguments aptos-node is run with.                                     *)

\* The only role buildNodeArguments has arguments for.
DefaultArguments(configFile) ==
  <<"--config", Blank>> \o configFile \o <<Blank, ExtraArgDirective>>

\* The flag replaces the default arguments, adds to them after a plus, or is empty.
ArgumentText(configFile, args) ==
  IF args = <<>> THEN Replace(DefaultArguments(configFile), ExtraArgDirective, <<>>)
  ELSE IF Head(args) = "+" THEN Replace(DefaultArguments(configFile), ExtraArgDirective, Tail(args))
  ELSE args

\* A faulty variant, which a run must tell from the definition it is named after
\* (as every definition named after another one and a mistake).
buildNodeArguments_RawDirectives(nodeDataDir, configFile, args) ==
  Fields(ArgumentText(configFile, args))

buildNodeArguments(nodeDataDir, configFile, args) ==
  Fields(Replace(ArgumentText(configFile, args), NodeDataDirDirective, nodeDataDir))

-------------------------------------------------------------------------------
(* Directories of local stores. A URL is what strings.Split makes of it at   *)
(* "://": one path, or a scheme and what follows. The dotted segments are    *)
(* those with a dot in their name.                                           *)

\* A last segment with a dot is taken for a file, and its directory is made.
getDirsToMake(url, dotted) ==
  LET path == IF Len(url) > 1 THEN url[2] ELSE url[1]
  IN  IF Len(url) > 1 /\ url[1] # "file" THEN {}
      ELSE IF Last(path) \in dotted THEN {Front(path)} ELSE {path}

\* mkdirStorePathIfLocal and makeDirs: each directory with its parents.
MadeDirs(url, dotted) ==
  UNION {{SubSeq(dir, 1, n) : n \in 1 .. Len(dir)} : dir \in getDirsToMake(url, dotted)}
===============================================================================
