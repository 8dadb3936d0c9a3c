----------------------------- MODULE MCLifecycle -----------------------------
(*****************************************************************************)
(* Three applications; a flag comes from the command line, the configuration *)
(* file (under either of its names) or the default.                          *)
(*****************************************************************************)
EXTENDS Lifecycle, TLC

CONSTANTS reader, merger, firehose

AllApps == {reader, merger, firehose}

First == "common-first-streamable-block"
Store == "common-one-block-store-url"

GlobalNames ==
  [key \in {First, Store, "data-dir", "global-data-dir", "typo"} |->
     IF key = "data-dir" THEN "global-data-dir" ELSE "global-x"]

File(flags) == [stat |-> "file", loads |-> TRUE, flags |-> flags]

Files ==
  {[stat |-> stat, loads |-> TRUE, flags |-> <<>>] : stat \in {"unset", "missing", "directory"}}
  \cup {[File(<<>>) EXCEPT !.loads = FALSE],
        File(<<>>),
        File("typo" :> 1),
        File(First :> -3),
        File(First :> 5 @@ Store :> <<"file", <<"{data-dir}", "one">>>>),
        File("data-dir" :> <<"/", "a">> @@ "global-data-dir" :> <<"/", "one.blocks", "b">>)}

Arguments ==
  {<<>>,
   First :> 7,
   First :> -1,
   Store :> <<<<"/", "one.blocks">>>>,
   Store :> <<"s3", <<"bucket", "one">>>>}

Defaults ==
  "global-data-dir" :> <<"firehose-data">>
    @@ First :> 0
    @@ Store :> <<"file", <<"{data-dir}", "storage", "one-blocks">>>>

Cwd == <<"/", "home">>
===============================================================================
