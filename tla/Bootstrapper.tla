---------------------------- MODULE Bootstrapper -----------------------------
(*****************************************************************************)
(* cmd/fireaptos/cli/node-bootstraper.go: before aptos-node is started, its  *)
(* configuration file is read, each configured file is copied or downloaded  *)
(* into the node's data directory under its base name, the directives of the *)
(* configuration are replaced by where the files are, and the result is      *)
(* written to node.yaml. Every start of the process does it again, possibly  *)
(* with other flags, over what the previous bootstraps left.                 *)
(*                                                                           *)
(* Abstracted: paths and contents. A file holds Absent when there is none,   *)
(* Cut when it was created or truncated and not wholly written; a content is *)
(* otherwise the source it came from, or a configuration: what each          *)
(* directive was replaced by. A URL is a path outside the data directory.    *)
(*****************************************************************************)
EXTENDS Naturals

CONSTANTS Outside,      \* files and URLs outside the node's data directory
          Inside,       \* names in the node's data directory
          Base,         \* the name in the data directory of each path
          NodeYaml,     \* nodeDataDir/node.yaml, where the result goes
          DataDir,      \* nodeDataDir itself
          FlagSets,     \* the values the four file flags may have
          NoFile,       \* a flag that is not set
          Unresolved,   \* a directive still in the text
          Absent, Cut,  \* no file; a file not wholly written
          MaxStarts     \* bound on the starts of the process (model checking)

\* The keys of templatingDirectives.
Directive == {"{genesis-file}", "{waypoint-file}", "{validator-identity-file}", "{vfn-identity-file}"}

Source == Outside \cup Inside

\* What a configuration text says: the data directory, and each directive's file.
Config == [dataDir : {Unresolved, DataDir}, file : [Directive -> Inside \cup {Unresolved}]]

Content == Outside \cup {Absent, Cut} \cup Config

ASSUME BootstrapperAssumption ==
  /\ Outside \cap Inside = {}
  /\ NodeYaml \in Inside
  /\ Base \in [Source -> Inside]
  /\ \A name \in Inside : Base[name] = name
  /\ FlagSets \subseteq [Directive -> Source \cup {NoFile}]
  /\ NoFile \notin Source
  /\ Unresolved \notin Inside /\ Unresolved # DataDir
  /\ {Absent, Cut} \cap (Outside \cup Config) = {}
  /\ Outside \cap Config = {}
  /\ Absent # Cut
  /\ MaxStarts \in Nat

VARIABLES
  flags,    \* the files configured for this process
  disk,     \* the data directory
  config,   \* configContent
  todo,     \* the directives the loop has not ranged over yet
  copying,  \* the directive whose file is created and not yet copied, if any
  stage,    \* "stopped", "placing", "writing", "done", "failed"
  starts    \* starts of the process so far

memory == <<config, todo, copying>>
vars   == <<flags, disk, memory, stage, starts>>

\* The configuration file's text before any replacement.
Template == [dataDir |-> Unresolved, file |-> [d \in Directive |-> Unresolved]]

NoDirective == "none"

\* What reading a configured file gives: a file outside holds itself.
Read(path) == IF path \in Outside THEN path ELSE disk[path]

-------------------------------------------------------------------------------

Init ==
  /\ flags \in FlagSets
  /\ disk = [name \in Inside |-> Absent]
  /\ config = Template /\ todo = {} /\ copying = NoDirective
  /\ stage = "stopped" /\ starts = 0

\* makeDirs, the read of the configuration file and the data directory's directive.
Begin ==
  /\ stage = "stopped"
  /\ starts < MaxStarts
  /\ starts' = starts + 1
  /\ stage' = "placing"
  /\ config' = [Template EXCEPT !.dataDir = DataDir]
  /\ todo' = Directive
  /\ UNCHANGED <<flags, disk, copying>>

\* `range templatingDirectives': any directive may come next.
Ranges(d) == stage = "placing" /\ copying = NoDirective /\ d \in todo

SkipDirective(d) ==
  /\ Ranges(d)
  /\ flags[d] = NoFile
  /\ todo' = todo \ {d}
  /\ UNCHANGED <<flags, disk, config, copying, stage, starts>>

\* Faulty variants, which a run must tell from what they are named after (as every
\* definition named after another one and a mistake).
Destination_FullPath(path) == path

Destination(path) == Base[path]

CreateFile_NoTruncate(d) ==
  /\ Ranges(d)
  /\ flags[d] # NoFile
  /\ Read(flags[d]) # Absent
  /\ copying' = d
  /\ UNCHANGED <<flags, disk, config, todo, stage, starts>>

\* The file is opened, or the server answers 200, before os.Create empties the
\* destination, which is the file itself if it is in the data directory already.
CreateFile(d) ==
  /\ Ranges(d)
  /\ flags[d] # NoFile
  /\ Read(flags[d]) # Absent
  /\ disk' = [disk EXCEPT ![Destination(flags[d])] = Cut]
  /\ copying' = d
  /\ UNCHANGED <<flags, config, todo, stage, starts>>

\* io.Copy to the end, then the directive's replacement in the text.
CopyFile_NotReplaced(d) ==
  /\ stage = "placing" /\ copying = d
  /\ disk' = [disk EXCEPT ![Destination(flags[d])] = Read(flags[d])]
  /\ todo' = todo \ {d}
  /\ copying' = NoDirective
  /\ UNCHANGED <<flags, config, stage, starts>>

CopyFile(d) ==
  /\ stage = "placing" /\ copying = d
  /\ disk' = [disk EXCEPT ![Destination(flags[d])] = Read(flags[d])]
  /\ config' = [config EXCEPT !.file[d] = Destination(flags[d])]
  /\ todo' = todo \ {d}
  /\ copying' = NoDirective
  /\ UNCHANGED <<flags, stage, starts>>

\* os.WriteFile empties node.yaml, then writes it.
TruncateResolved_TooEarly ==
  /\ stage = "placing" /\ copying = NoDirective
  /\ disk' = [disk EXCEPT ![NodeYaml] = Cut]
  /\ stage' = "writing"
  /\ UNCHANGED <<flags, memory, starts>>

TruncateResolved ==
  /\ stage = "placing" /\ copying = NoDirective
  /\ todo = {}
  /\ disk' = [disk EXCEPT ![NodeYaml] = Cut]
  /\ stage' = "writing"
  /\ UNCHANGED <<flags, memory, starts>>

WriteResolved ==
  /\ stage = "writing"
  /\ disk' = [disk EXCEPT ![NodeYaml] = config]
  /\ stage' = "done"
  /\ UNCHANGED <<flags, memory, starts>>

\* Any step may fail: the directory or the configuration cannot be had, a file is
\* missing, a server answers anything but 200, a copy or a write breaks off or times
\* out. Nothing done so far is undone.
Fail ==
  /\ \/ stage = "stopped" /\ starts < MaxStarts /\ starts' = starts + 1
     \/ stage \in {"placing", "writing"} /\ UNCHANGED starts
  /\ stage' = "failed"
  /\ UNCHANGED <<flags, disk, memory>>

\* The process stops, after the bootstrap or in the middle of it, and may be given
\* other flags before it is started again.
Stop ==
  /\ stage # "stopped"
  /\ stage' = "stopped"
  /\ flags' \in FlagSets
  /\ config' = Template /\ todo' = {} /\ copying' = NoDirective
  /\ UNCHANGED <<disk, starts>>

Place(d) == SkipDirective(d) \/ CreateFile(d) \/ CopyFile(d)

Bootstrap == (\E d \in Directive : Place(d)) \/ TruncateResolved \/ WriteResolved \/ Fail

Next == Begin \/ Bootstrap \/ Stop

Spec == Init /\ [][Next]_vars

-------------------------------------------------------------------------------
(* Properties                                                                *)

TypeOK ==
  /\ flags \in FlagSets
  /\ disk \in [Inside -> Content]
  /\ config \in Config
  /\ todo \subseteq Directive
  /\ copying \in Directive \cup {NoDirective}
  /\ stage \in {"stopped", "placing", "writing", "done", "failed"}
  /\ starts \in 0 .. MaxStarts

\* No configured file lies in the data directory, where it would be copied onto
\* itself, and none is called node.yaml.
Separate(f) ==
  \A d \in Directive : f[d] # NoFile => f[d] \in Outside /\ Base[f[d]] # NodeYaml

\* The files that end up under the name that directive d's file has.
SameName(f, d) == {f[e] : e \in {e \in Directive : f[e] # NoFile /\ Base[f[e]] = Base[f[d]]}}

\* The text all replacements make of the template, whatever their order.
Resolved(f) ==
  [dataDir |-> DataDir,
   file |-> [d \in Directive |-> IF f[d] = NoFile THEN Unresolved ELSE Base[f[d]]]]

\* A finished bootstrap leaves a node.yaml whose every directive names a file that
\* was wholly copied for it, whatever earlier bootstraps left behind. Only if two
\* configured files have one base name may it be the other one's, depending on the
\* map's order (node-bootstraper.go 52-60, 103-130).
NamesConfiguredFiles ==
  stage = "done" /\ Separate(flags) =>
    /\ disk[NodeYaml] = Resolved(flags)
    /\ \A d \in Directive :
         flags[d] # NoFile => disk[disk[NodeYaml].file[d]] \in SameName(flags, d)

\* Whenever and however often a bootstrap fails or is cut, node.yaml is missing, cut
\* or the whole result of one bootstrap: never a text with a directive that should
\* have been replaced. Only a configured file of that very name may take its place
\* (node-bootstraper.go 52-60).
NeverHalfResolved ==
  disk[NodeYaml] \in {Absent, Cut} \cup {Resolved(f) : f \in FlagSets}
                       \cup {path \in Outside : Base[path] = NodeYaml}

\* A bootstrap that fails before it rewrites node.yaml leaves the one of the last
\* successful bootstrap as it was, though the files it names may be gone
\* (node-bootstraper.go 53-60).
ResolvedOnlyAtTheEnd ==
  [][Separate(flags) /\ disk'[NodeYaml] # disk[NodeYaml] => todo = {} /\ stage # "stopped"]_vars

\* A file configured from within the data directory under its own name is emptied by
\* its copy, and stays so: aptos-node is never given its content (utils.go 78-97).
SelfCopyEmpties ==
  stage = "done" =>
    \A d \in Directive :
      flags[d] \in Inside /\ flags[d] # NodeYaml
        /\ SameName(flags, d) = {flags[d]}
        => disk[flags[d]] = Cut
===============================================================================
