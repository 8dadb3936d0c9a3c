---------------------------- MODULE MCNodeProcess ----------------------------
(*****************************************************************************)
(* Three files outside the data directory, two of one base name, and one     *)
(* that is called node.yaml; a flag may also point into the data directory.  *)
(*****************************************************************************)
EXTENDS NodeProcess

CONSTANTS g1, g2, w1, y1, genesis, waypoint

Paths == {g1, g2, w1, y1}

Names == {genesis, waypoint, NodeYaml}

BaseName ==
  [p \in Paths \cup Names |->
     CASE p \in {g1, g2} -> genesis
       [] p = w1 -> waypoint
       [] p = y1 -> NodeYaml
       [] p \in Names -> p]

\* Up to three files: of different names, of one name, from within the data
\* directory, called node.yaml.
Flags ==
  {[d \in Directive |->
      CASE d = "{genesis-file}"            -> f[1]
        [] d = "{waypoint-file}"           -> f[2]
        [] d = "{validator-identity-file}" -> f[3]
        [] d = "{vfn-identity-file}"       -> NoFile] :
    f \in {<<g1, w1, NoFile>>, <<g1, g2, w1>>, <<genesis, w1, NoFile>>, <<g1, y1, g1>>,
           <<NoFile, NoFile, NoFile>>}}

Dirs ==
  {<<"{data-dir}", "/", "{node-role}", "/", "data">>, <<"my", " ", "data">>,
   <<"/", "{extra-arg}">>}

Arguments ==
  {<<>>, <<"+", "--home", " ", "{node-data-dir}">>, <<"--home", " ", "{node-data-dir}">>,
   <<"+", "--home", " ", "{data-dir}">>}

Root == <<"/", "sf">>

Cwd == <<"/", "cwd", "/">>

\* Messages that speak of a level, close a bracket, or do the one after the other.
Lines ==
  {EntryLine(component, level, message) :
     component \in {<<>>, <<"[api]">>}, level \in {"ERROR", "INFO"},
     message \in {<<"msg">>, <<"got", "WARN">>, <<"[api]", "msg">>,
                  <<"[api]", "DEBUG", "x]", "WARN", "msg">>}}
  \cup {PanicLine(<<"panicked">>), PanicLine(<<"[api]", "INFO">>), PlainLine(<<"INFO">>)}
===============================================================================
