------------------------------ MODULE Lifecycle ------------------------------
(*****************************************************************************)
(* The life of the `start' command (cmd/fireaptos/cli/setup.go, start.go):   *)
(* the configuration file, the directories, the launch of the applications,  *)
(* and the select that ends them all at a signal or when one of them stops.  *)
(*                                                                           *)
(* External, modelled from how start.go and reader-node.go use them: the     *)
(* launcher, which shuts every application down once one is down, and keeps  *)
(* the error of the first; the applications; the signal handler, before      *)
(* which a signal kills the process. Abstracted: one signal, the wording of  *)
(* errors, the loggers and the metrics server that setup starts.             *)
(*****************************************************************************)
EXTENDS CommandLine, Integers

CONSTANTS Apps,        \* the applications named on the command line
          Reader,      \* reader-node, if it is one of them
          Merger,      \* merger, likewise: it makes the directories of the stores
          ConfigFiles, \* the configuration files there may be
          CommandLines,\* and the flags of the command line
          Builtin,     \* the flags' values when neither names them
          GlobalName,  \* "global-" before a key of the configuration file
          DottedNames, \* names with a dot in them
          WorkDir,     \* where the process runs
          WordSize     \* 2^64 in the code

\* The flags that matter here; AutoBind knows them under these names.
Flag == {"global-data-dir", "common-first-streamable-block", "common-one-block-store-url"}

ASSUME LifecycleAssumption ==
  /\ DOMAIN Builtin = Flag
  /\ WordSize \in Nat \ {0} /\ WordSize % 2 = 0
  /\ \A c \in ConfigFiles :
       /\ c.stat \in {"unset", "missing", "directory", "file"}
       /\ c.stat # "file" => DOMAIN c.flags = {}

VARIABLES
  conf, cli, syncState, \* what the process finds: its configuration file and flags,
                        \* and whether sync_state.json is there and can be read
  settings,             \* the values of the flags
  firstStreamable,      \* bstream.GetProtocolFirstStreamableBlock
  dirs,                 \* the directories made
  app,                  \* "absent", "running", "down", or "cut" by a kill
  firstDown,            \* how the first application to stop by itself did, or "none"
  closed,               \* the launcher was closed
  signal,               \* the signal came and a handler was there
  err,                  \* Start's error
  stage                 \* how far the process is; once "exited", result is set

found == <<conf, cli, syncState>>
prepared == <<settings, firstStreamable, dirs>>
vars == <<found, prepared, app, firstDown, closed, signal, err, stage>>

-------------------------------------------------------------------------------
(* setupCmd.                                                                 *)

\* A key of the file names a flag by itself or without its "global-".
Names(key) == {key, GlobalName[key]} \cap Flag

\* What a flag can be set to: by default, on the command line, in a file.
Given(flag) ==
  {Builtin[flag]}
    \cup {c[flag] : c \in {c \in CommandLines : flag \in DOMAIN c}}
    \cup UNION {{c.flags[key] : key \in {k \in DOMAIN c.flags : flag \in Names(k)}} : c \in ConfigFiles}

\* viper makes an int of any height and a string of the others; a store has a path,
\* which may come after a scheme.
ASSUME FlagAssumption ==
  /\ Given("common-first-streamable-block") \subseteq -(WordSize \div 2) .. WordSize \div 2 - 1
  /\ Given("global-data-dir") \subseteq Seq(STRING)
  /\ \A url \in Given("common-one-block-store-url") :
       \/ url = <<url[1]>> /\ url[1] \in Seq(STRING) \ {<<>>}
       \/ url = <<url[1], url[2]>> /\ url[2] \in Seq(STRING) \ {<<>>}
  /\ WorkDir \in Seq(STRING) \ {<<>>}

\* A directory of the configuration file's name does not count as a file.
fileExists(stat) == stat = "file"

\* `start' needs its configuration file, unless the flag that names it is empty.
SetupFails ==
  /\ conf.stat # "unset"
  /\ \/ ~fileExists(conf.stat)
     \/ ~conf.loads
     \/ \E key \in DOMAIN conf.flags : Names(key) = {}

\* Which of two keys that name one flag decides is up to the map's order.
Values(flag) ==
  LET named == {conf.flags[key] : key \in {k \in DOMAIN conf.flags : flag \in Names(k)}}
  IN  IF flag \in DOMAIN cli THEN {cli[flag]}
      ELSE IF named # {} THEN named
      ELSE {Builtin[flag]}

Setup ==
  /\ stage = "setup"
  /\ \/ /\ ~SetupFails
        /\ settings' \in [dataDir : Values("global-data-dir"),
                          first   : Values("common-first-streamable-block"),
                          store   : Values("common-one-block-store-url")]
        /\ stage' = "starting" /\ UNCHANGED err
     \/ /\ SetupFails
        /\ stage' = "exited" /\ err' = TRUE /\ UNCHANGED settings
  /\ UNCHANGED <<found, firstStreamable, dirs, app, firstDown, closed, signal>>

-------------------------------------------------------------------------------
(* Start, up to the launch.                                                  *)

AbsDataDir == Abs(WorkDir, settings.dataDir)

\* The store's URL, its path being the last part of it.
StoreURL ==
  [settings.store EXCEPT ![Len(settings.store)] = mustReplaceDataDir(AbsDataDir, @)]

\* Faulty variants, which a run must tell from FirstBlock (as every definition named
\* after another one and a mistake).
FirstBlock_Unset(n) == Builtin["common-first-streamable-block"]
FirstBlock_Signed(n) == n

\* uint64(viper.GetInt(...))
FirstBlock(n) == n % WordSize

Prepare ==
  /\ stage = "starting"
  /\ dirs' = dirs \cup {SubSeq(AbsDataDir, 1, n) : n \in 1 .. Len(AbsDataDir)}
  /\ firstStreamable' = FirstBlock(settings.first)
  /\ stage' = "launching"
  /\ UNCHANGED <<found, settings, app, firstDown, closed, signal, err>>

\* The factory of the reader reads sync_state.json before anything runs.
Launch ==
  /\ stage = "launching"
  /\ Reader \in Apps => syncState # "corrupt"
  /\ dirs' = IF Merger \in Apps THEN dirs \cup MadeDirs(StoreURL, DottedNames) ELSE dirs
  /\ app' = [a \in Apps |-> "running"]
  /\ stage' = "launched"
  /\ UNCHANGED <<found, settings, firstStreamable, firstDown, closed, signal, err>>

\* A directory cannot be made, or the launch fails: nothing runs yet.
FailStart ==
  /\ stage \in {"starting", "launching"}
  /\ stage' = "exited" /\ err' = TRUE
  /\ UNCHANGED <<found, prepared, app, firstDown, closed, signal>>

-------------------------------------------------------------------------------
(* The select, the signal and the applications.                              *)

InstallHandler ==
  /\ stage = "launched"
  /\ stage' = "waiting"
  /\ UNCHANGED <<found, prepared, app, firstDown, closed, signal, err>>

\* Without a handler, the default action of a signal ends the process at once.
Signal ==
  /\ ~signal
  /\ \/ /\ stage \in {"setup", "starting", "launching", "launched"}
        /\ stage' = "killed"
        /\ app' = [a \in Apps |-> IF app[a] = "running" THEN "cut" ELSE app[a]]
        /\ UNCHANGED signal
     \/ /\ stage \in {"waiting", "quitting"}
        /\ signal' = TRUE
        /\ UNCHANGED <<app, stage>>
  /\ UNCHANGED <<found, prepared, firstDown, closed, err>>

\* An application stops by itself: "clean", "failed", or because of the error of the
\* reader's plugin.
Stops(a, how) ==
  /\ stage \in {"launched", "waiting", "quitting"}
  /\ app[a] = "running"
  /\ how = "plugin" => a = Reader
  /\ app' = [app EXCEPT ![a] = "down"]
  /\ firstDown' = IF firstDown = "none" /\ ~closed THEN how ELSE firstDown
  /\ UNCHANGED <<found, prepared, closed, signal, err, stage>>

Terminating == firstDown # "none" \/ closed

\* The launcher shuts down what still runs.
ShutDown(a) ==
  /\ stage \in {"launched", "waiting", "quitting"}
  /\ Terminating
  /\ app[a] = "running"
  /\ app' = [app EXCEPT ![a] = "down"]
  /\ UNCHANGED <<found, prepared, firstDown, closed, signal, err, stage>>

LauncherErr_Dropped == FALSE

\* The callback shuts the operator down with nil in place of the plugin's error.
LauncherErr == firstDown = "failed"

\* `go launch.Close()': it may run at any later time.
TakeSignal ==
  /\ stage = "waiting" /\ signal
  /\ stage' = "quitting"
  /\ UNCHANGED <<found, prepared, app, firstDown, closed, signal, err>>

Close_Never == FALSE /\ UNCHANGED vars

Close ==
  /\ stage = "quitting" /\ signal /\ ~closed /\ firstDown = "none"
  /\ closed' = TRUE
  /\ UNCHANGED <<found, prepared, app, firstDown, signal, err, stage>>

TakeTerminating ==
  /\ stage = "waiting" /\ Terminating
  /\ err' = LauncherErr
  /\ stage' = "quitting"
  /\ UNCHANGED <<found, prepared, app, firstDown, closed, signal>>

WaitForTermination_Any ==
  /\ stage = "quitting"
  /\ \E a \in Apps : app[a] = "down"
  /\ stage' = "exited"
  /\ UNCHANGED <<found, prepared, app, firstDown, closed, signal, err>>

WaitForTermination ==
  /\ stage = "quitting"
  /\ \A a \in Apps : app[a] = "down"
  /\ stage' = "exited"
  /\ UNCHANGED <<found, prepared, app, firstDown, closed, signal, err>>

Init ==
  /\ conf \in ConfigFiles /\ cli \in CommandLines
  /\ syncState \in {"absent", "readable", "corrupt"}
  /\ settings = [dataDir |-> Builtin["global-data-dir"],
                 first   |-> Builtin["common-first-streamable-block"],
                 store   |-> Builtin["common-one-block-store-url"]]
  /\ firstStreamable = 0 /\ dirs = {}
  /\ app = [a \in Apps |-> "absent"]
  /\ firstDown = "none" /\ closed = FALSE /\ signal = FALSE
  /\ err = FALSE /\ stage = "setup"

Main ==
  \/ Setup \/ Prepare \/ Launch \/ FailStart \/ InstallHandler
  \/ TakeSignal \/ TakeTerminating \/ WaitForTermination

Next ==
  \/ Main \/ Close \/ Signal
  \/ \E a \in Apps : ShutDown(a) \/ \E how \in {"clean", "failed", "plugin"} : Stops(a, how)

Spec == Init /\ [][Next]_vars

\* The command's goroutine and that of Close run, and applications that are shut
\* down stop. Nothing is assumed of signals, nor that an application ever stops.
FairSpec ==
  /\ Spec
  /\ WF_vars(Main) /\ WF_vars(Close)
  /\ \A a \in Apps : WF_vars(ShutDown(a))

-------------------------------------------------------------------------------
(* Properties                                                                *)

TypeOK ==
  /\ firstStreamable \in 0 .. WordSize - 1
  /\ app \in [Apps -> {"absent", "running", "down", "cut"}]
  /\ firstDown \in {"none", "clean", "failed", "plugin"}
  /\ closed \in BOOLEAN /\ signal \in BOOLEAN /\ err \in BOOLEAN
  /\ stage \in {"setup", "starting", "launching", "launched", "waiting", "quitting",
                "exited", "killed"}

\* What the exit status tells of an end after the launch: an error is always that of
\* the first application to fail by itself, never one of those shut down after it;
\* but success may hide a failure, if a signal came too and the select saw it first,
\* and always hides the failure of the reader's plugin (start.go 104-121, with
\* reader-node.go 83-85).
ExitTellsCause ==
  stage = "exited" /\ (\E a \in Apps : app[a] = "down") =>
    /\ err => firstDown = "failed"
    /\ ~err => signal \/ firstDown \in {"clean", "plugin"}

\* The command never returns while an application runs; only a kill before the
\* signal handler is there cuts applications off, and they do run by then (start.go
\* 98-121).
NothingOutlivesStart ==
  /\ stage \in {"exited", "killed"} => \A a \in Apps : app[a] # "running"
  /\ \A a \in Apps : app[a] = "cut" => stage = "killed" /\ ~signal

\* Applications run in a process whose data directory is there, and if one of them
\* is the merger, the local store's directory too, though only its parent if its name
\* has a dot and the data are not in it; on the first streamable block configured, or
\* one that no chain reaches if it is negative; and the reader never runs on a
\* sync_state.json it cannot read (start.go 57-102, utils.go 47-76, merger.go 27-39, node.go 138-144).
Running == \E a \in Apps : app[a] = "running"

Prepared ==
  Running =>
    LET url  == settings.store
        path == Replace(url[Len(url)], DataDirDirective, AbsDataDir)
    IN  /\ AbsDataDir \in dirs
        /\ Merger \in Apps /\ (Len(url) = 1 \/ url[1] = "file") =>
             /\ path \in dirs <=> Last(path) \notin DottedNames \/ IsPrefix(path, AbsDataDir)
             /\ \A n \in 1 .. Len(path) - 1 : SubSeq(path, 1, n) \in dirs
        /\ settings.first \in Values("common-first-streamable-block")
        /\ IF settings.first >= 0 THEN firstStreamable = settings.first
           ELSE firstStreamable >= WordSize \div 2
        /\ Reader \in Apps => syncState # "corrupt"

\* A signal that is handled, or an application that stops, ends the process.
StopEndsProcess == signal \/ firstDown # "none" ~> stage \in {"exited", "killed"}
===============================================================================
