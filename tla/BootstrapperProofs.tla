-------------------------- MODULE BootstrapperProofs --------------------------
(*****************************************************************************)
(* The bootstrap, for every data directory, every choice of files and every  *)
(* number of starts that fail or stop at any point.                          *)
(*****************************************************************************)
EXTENDS Bootstrapper, TLAPS

Busy == {"placing", "writing", "done"}

\* The file that is being copied was emptied, and its directive is still to do.
CopyOpen ==
  copying # NoDirective =>
    /\ copying \in todo
    /\ flags[copying] # NoFile
    /\ stage \in {"placing", "failed"}
    /\ stage = "placing" => disk[Destination(flags[copying])] = Cut

\* The text in memory names the files whose directives the loop went through.
ConfigFollows ==
  stage \in Busy =>
    /\ config.dataDir = DataDir
    /\ \A d \in Directive :
         config.file[d] = IF d \in todo \/ flags[d] = NoFile THEN Unresolved ELSE Base[flags[d]]

Ended == stage \in {"writing", "done"} => todo = {} /\ copying = NoDirective

\* A file that was copied is still there, or was replaced, or is about to be, by
\* another file of its name.
CopiesKept ==
  stage \in Busy /\ Separate(flags) =>
    \A d \in Directive \ todo :
      flags[d] # NoFile =>
        \/ disk[Base[flags[d]]] \in SameName(flags, d)
        \/ copying # NoDirective /\ Base[flags[copying]] = Base[flags[d]]

DoneResolved == stage = "done" => disk[NodeYaml] = config

\* A file of the data directory that nothing else replaces is empty from the moment
\* its copy starts.
SelfEmptied ==
  stage \in Busy =>
    \A d \in Directive :
      /\ flags[d] \in Inside /\ flags[d] # NodeYaml
      /\ SameName(flags, d) = {flags[d]}
      /\ d \notin todo \/ copying = d
      => disk[flags[d]] = Cut

BootstrapInv ==
  /\ TypeOK /\ CopyOpen /\ ConfigFollows /\ Ended
  /\ CopiesKept /\ NeverHalfResolved /\ DoneResolved /\ SelfEmptied

-------------------------------------------------------------------------------

\* A configured file lands under a name of the data directory, which it keeps if it
\* was there.
LEMMA DestinationType ==
  ASSUME NEW path \in Source
  PROVE  /\ Destination(path) = Base[path] /\ Base[path] \in Inside
         /\ path \in Inside => Base[path] = path
         /\ path \in Outside \/ path \in Inside
BY BootstrapperAssumption DEF Destination, Source

\* A flag that is set names a file.
LEMMA FlagType ==
  ASSUME NEW f \in FlagSets, NEW d \in Directive, f[d] # NoFile
  PROVE  f[d] \in Source
BY BootstrapperAssumption

\* What is read of a file is a content of the data directory.
LEMMA ReadType ==
  ASSUME TypeOK, NEW path \in Source
  PROVE  Read(path) \in Content
BY BootstrapperAssumption DEF TypeOK, Read, Source, Content

\* A text is known by its data directory and by what its directives are replaced by.
LEMMA ConfigEqual ==
  ASSUME NEW c \in Config, NEW f, c.dataDir = DataDir,
         \A d \in Directive : c.file[d] = IF f[d] = NoFile THEN Unresolved ELSE Base[f[d]]
  PROVE  c = Resolved(f)
<1>1. c = [dataDir |-> c.dataDir, file |-> c.file] /\ c.file = [d \in Directive |-> c.file[d]]
  BY DEF Config
<1> QED
  BY <1>1 DEF Resolved

\* node.yaml is in the data directory, and no directive is the absent one.
LEMMA NamesInside == NodeYaml \in Inside /\ NoDirective \notin Directive
BY BootstrapperAssumption DEF NoDirective, Directive

-------------------------------------------------------------------------------
(* The invariant                                                             *)

LEMMA InitInv == Init => BootstrapInv
<1> SUFFICES ASSUME Init
             PROVE  BootstrapInv
  OBVIOUS
<1>1. Template \in Config
  BY DEF Template, Config
<1>2. TypeOK
  BY <1>1, BootstrapperAssumption DEF Init, TypeOK, Content
<1>3. NeverHalfResolved
  BY BootstrapperAssumption DEF Init, NeverHalfResolved
<1> QED
  BY <1>2, <1>3 DEF Init, BootstrapInv, CopyOpen, ConfigFollows, Ended, CopiesKept,
     DoneResolved, SelfEmptied, Busy

\* Each step keeps the types.
LEMMA TypeStep == BootstrapInv /\ [Next]_vars => TypeOK'
<1> SUFFICES ASSUME BootstrapInv, [Next]_vars
             PROVE  TypeOK'
  OBVIOUS
<1> USE DEF BootstrapInv, TypeOK, memory
<1>1. CASE Begin
  <2>1. config' \in Config
    BY <1>1 DEF Begin, Template, Config
  <2>2. starts' \in 0 .. MaxStarts
    BY <1>1, BootstrapperAssumption DEF Begin
  <2> QED
    BY <1>1, <2>1, <2>2 DEF Begin
<1>2. ASSUME NEW d \in Directive, SkipDirective(d)
      PROVE  TypeOK'
  BY <1>2 DEF SkipDirective, Ranges
<1>3. ASSUME NEW d \in Directive, CreateFile(d)
      PROVE  TypeOK'
  <2>1. flags[d] \in Source /\ Destination(flags[d]) \in Inside
    BY <1>3, FlagType, DestinationType DEF CreateFile
  <2> QED
    BY <1>3, <2>1 DEF CreateFile, Ranges, Content
<1>4. ASSUME NEW d \in Directive, CopyFile(d)
      PROVE  TypeOK'
  <2>1. flags[d] \in Source
    BY <1>4, FlagType, NamesInside DEF CopyFile, CopyOpen
  <2>2. Destination(flags[d]) \in Inside /\ Read(flags[d]) \in Content
    BY <2>1, DestinationType, ReadType
  <2>3. config' \in Config
    BY <1>4, <2>2 DEF CopyFile, Config
  <2> QED
    BY <1>4, <2>2, <2>3 DEF CopyFile
<1>5. CASE TruncateResolved
  BY <1>5, NamesInside DEF TruncateResolved, Content
<1>6. CASE WriteResolved
  BY <1>6, NamesInside DEF WriteResolved, Content
<1>7. CASE Fail
  BY <1>7, BootstrapperAssumption DEF Fail
<1>8. CASE Stop
  BY <1>8 DEF Stop, Template, Config
<1>9. CASE UNCHANGED vars
  BY <1>9 DEF vars
<1> QED
  BY <1>1, <1>2, <1>3, <1>4, <1>5, <1>6, <1>7, <1>8, <1>9 DEF Next, Bootstrap, Place

\* The conjuncts that relate the disk, the flags and the text, of one state.
LEMMA BeginStep == BootstrapInv /\ Begin => BootstrapInv'
<1> SUFFICES ASSUME BootstrapInv, Begin
             PROVE  BootstrapInv'
  OBVIOUS
<1>1. TypeOK'
  BY TypeStep DEF Next
<1>2. /\ todo' = Directive /\ copying' = copying /\ disk' = disk /\ flags' = flags
      /\ stage = "stopped" /\ stage' = "placing"
  BY DEF Begin
<1>3. copying = NoDirective
  BY <1>2 DEF BootstrapInv, CopyOpen
<1>4. ConfigFollows'
  <2>1. config'.dataDir = DataDir /\ \A d \in Directive : config'.file[d] = Unresolved
    BY DEF Begin, Template
  <2> QED
    BY <1>2, <2>1 DEF ConfigFollows
<1>5. CopyOpen' /\ Ended' /\ CopiesKept' /\ DoneResolved'
  BY <1>2, <1>3 DEF CopyOpen, Ended, CopiesKept, DoneResolved
<1>6. SelfEmptied'
  BY <1>2, <1>3, NamesInside DEF SelfEmptied
<1>7. NeverHalfResolved'
  BY <1>2 DEF BootstrapInv, NeverHalfResolved
<1> QED
  BY <1>1, <1>4, <1>5, <1>6, <1>7 DEF BootstrapInv

\* A directive without a file adds nothing to the text but that it is done.
LEMMA SkipStep ==
  ASSUME BootstrapInv, NEW d \in Directive, SkipDirective(d)
  PROVE  BootstrapInv'
<1>1. TypeOK'
  BY TypeStep DEF Next, Bootstrap, Place
<1>2. /\ todo' = todo \ {d} /\ copying' = copying /\ disk' = disk /\ flags' = flags
      /\ config' = config /\ stage = "placing" /\ stage' = stage
      /\ copying = NoDirective /\ flags[d] = NoFile
  BY DEF SkipDirective, Ranges
<1>3. ConfigFollows'
  BY <1>2 DEF BootstrapInv, ConfigFollows, Busy
<1>4. CopyOpen' /\ Ended' /\ DoneResolved'
  BY <1>2 DEF CopyOpen, Ended, DoneResolved
<1>5. CopiesKept'
  BY <1>2 DEF BootstrapInv, CopiesKept, Busy, Separate, SameName
<1>6. SelfEmptied'
  <2>1. flags[d] \notin Inside
    BY <1>2, BootstrapperAssumption DEF Source
  <2> QED
    BY <1>2, <2>1 DEF BootstrapInv, SelfEmptied, Busy, SameName
<1>7. NeverHalfResolved'
  BY <1>2 DEF BootstrapInv, NeverHalfResolved
<1> QED
  BY <1>1, <1>3, <1>4, <1>5, <1>6, <1>7 DEF BootstrapInv

\* The file is emptied under its name.
LEMMA CreateStep ==
  ASSUME BootstrapInv, NEW d \in Directive, CreateFile(d)
  PROVE  BootstrapInv'
<1>1. TypeOK /\ TypeOK'
  BY TypeStep DEF Next, Bootstrap, Place, BootstrapInv
<1>2. /\ todo' = todo /\ copying = NoDirective /\ copying' = d /\ d \in todo
      /\ disk' = [disk EXCEPT ![Destination(flags[d])] = Cut] /\ flags' = flags
      /\ config' = config /\ stage = "placing" /\ stage' = stage /\ flags[d] # NoFile
  BY DEF CreateFile, Ranges
<1>3. flags[d] \in Source
  BY <1>1, <1>2, FlagType DEF TypeOK
<1>4. Destination(flags[d]) = Base[flags[d]] /\ Base[flags[d]] \in Inside
  BY <1>3, DestinationType
<1>5. disk'[Base[flags[d]]] = Cut /\ \A name \in Inside : disk'[name] \in {disk[name], Cut}
  BY <1>1, <1>2, <1>4 DEF TypeOK
<1>6. \A name \in Inside : name # Base[flags[d]] => disk'[name] = disk[name]
  BY <1>1, <1>2, <1>4 DEF TypeOK
<1>7. CopyOpen'
  BY <1>2, <1>4, <1>5 DEF CopyOpen, Destination
<1>8. ConfigFollows' /\ Ended' /\ DoneResolved'
  BY <1>2 DEF BootstrapInv, ConfigFollows, Ended, DoneResolved
<1>9. CopiesKept'
  <2> SUFFICES ASSUME Separate(flags), NEW e \in Directive \ todo, flags[e] # NoFile,
                      Base[flags[d]] # Base[flags[e]]
               PROVE  disk'[Base[flags[e]]] \in SameName(flags, e)
    BY <1>2, NamesInside DEF CopiesKept, SameName, Separate
  <2>1. Base[flags[e]] \in Inside
    BY <1>1, FlagType, DestinationType DEF TypeOK
  <2>2. disk[Base[flags[e]]] \in SameName(flags, e)
    BY <1>2 DEF BootstrapInv, CopiesKept, Busy
  <2> QED
    BY <1>6, <2>1, <2>2
<1>10. SelfEmptied'
  <2> SUFFICES ASSUME NEW e \in Directive, flags[e] \in Inside, flags[e] # NodeYaml,
                      SameName(flags, e) = {flags[e]}, e \notin todo \/ d = e
               PROVE  disk'[flags[e]] = Cut
    BY <1>2 DEF SelfEmptied, SameName
  <2>1. CASE d = e
    BY <1>3, <1>5, <2>1, DestinationType
  <2>2. CASE e \notin todo
    <3>1. disk[flags[e]] = Cut
      BY <1>2, <2>2 DEF BootstrapInv, SelfEmptied, Busy
    <3> QED
      BY <1>5, <3>1
  <2> QED
    BY <2>1, <2>2
<1>11. NeverHalfResolved'
  BY <1>2, <1>5, NamesInside DEF BootstrapInv, NeverHalfResolved
<1> QED
  BY <1>1, <1>7, <1>8, <1>9, <1>10, <1>11 DEF BootstrapInv

\* The file has its source's content, and the text its name.
LEMMA CopyStep ==
  ASSUME BootstrapInv, NEW d \in Directive, CopyFile(d)
  PROVE  BootstrapInv'
<1>1. TypeOK /\ TypeOK'
  BY TypeStep DEF Next, Bootstrap, Place, BootstrapInv
<1>2. /\ todo' = todo \ {d} /\ copying = d /\ copying' = NoDirective /\ d \in todo
      /\ disk' = [disk EXCEPT ![Destination(flags[d])] = Read(flags[d])] /\ flags' = flags
      /\ stage = "placing" /\ stage' = stage /\ flags[d] # NoFile
      /\ disk[Destination(flags[d])] = Cut
  BY NamesInside DEF CopyFile, BootstrapInv, CopyOpen
<1>3. flags[d] \in Source
  BY <1>1, <1>2, FlagType DEF TypeOK
<1>4. Destination(flags[d]) = Base[flags[d]] /\ Base[flags[d]] \in Inside
  BY <1>3, DestinationType
<1>5. /\ disk'[Base[flags[d]]] = Read(flags[d])
      /\ \A name \in Inside : name # Base[flags[d]] => disk'[name] = disk[name]
  BY <1>1, <1>2, <1>4 DEF TypeOK
<1>6. ConfigFollows'
  <2>1. /\ config'.dataDir = config.dataDir
        /\ \A e \in Directive :
             config'.file[e] = IF e = d THEN Base[flags[d]] ELSE config.file[e]
    BY <1>1, <1>4 DEF CopyFile, TypeOK, Config
  <2> QED
    BY <1>2, <2>1 DEF BootstrapInv, ConfigFollows, Busy
<1>7. CopyOpen' /\ Ended' /\ DoneResolved'
  BY <1>2 DEF CopyOpen, Ended, DoneResolved
<1>8. CopiesKept'
  <2> SUFFICES ASSUME Separate(flags), NEW e \in (Directive \ todo) \cup {d}, flags[e] # NoFile
               PROVE  disk'[Base[flags[e]]] \in SameName(flags, e)
    BY <1>2 DEF CopiesKept, SameName, Separate
  <2>1. CASE Base[flags[e]] = Base[flags[d]]
    <3>1. Read(flags[d]) = flags[d]
      BY <1>2 DEF Separate, Read
    <3> QED
      BY <1>2, <1>5, <2>1, <3>1 DEF SameName
  <2>2. CASE Base[flags[e]] # Base[flags[d]]
    <3>1. Base[flags[e]] \in Inside
      BY <1>1, FlagType, DestinationType DEF TypeOK
    <3>2. disk[Base[flags[e]]] \in SameName(flags, e)
      BY <1>2, <2>2 DEF BootstrapInv, CopiesKept, Busy
    <3> QED
      BY <1>5, <2>2, <3>1, <3>2
  <2> QED
    BY <2>1, <2>2
<1>9. SelfEmptied'
  <2> SUFFICES ASSUME NEW e \in Directive, flags[e] \in Inside, flags[e] # NodeYaml,
                      SameName(flags, e) = {flags[e]}, e \notin todo \/ e = d
               PROVE  disk'[flags[e]] = Cut
    BY <1>2, NamesInside DEF SelfEmptied, SameName
  <2>1. Base[flags[e]] = flags[e]
    BY BootstrapperAssumption
  <2>2. disk[flags[e]] = Cut
    BY <1>2 DEF BootstrapInv, SelfEmptied, Busy
  <2>3. CASE Base[flags[d]] = flags[e]
    <3>1. flags[d] = flags[e]
      BY <1>2, <2>1, <2>3 DEF SameName
    <3> QED
      BY <1>5, <2>2, <2>3, <3>1, BootstrapperAssumption DEF Read
  <2>4. CASE Base[flags[d]] # flags[e]
    BY <1>5, <2>2, <2>4
  <2> QED
    BY <2>3, <2>4
<1>10. NeverHalfResolved'
  <2>1. CASE Base[flags[d]] # NodeYaml
    BY <1>2, <1>5, <2>1, NamesInside DEF BootstrapInv, NeverHalfResolved
  <2>2. CASE Base[flags[d]] = NodeYaml /\ flags[d] \in Outside
    BY <1>2, <1>5, <2>2 DEF NeverHalfResolved, Read
  <2>3. CASE Base[flags[d]] = NodeYaml /\ flags[d] \notin Outside
    <3>1. flags[d] = NodeYaml
      BY <1>3, <2>3, DestinationType
    <3> QED
      BY <1>2, <1>5, <2>3, <3>1 DEF BootstrapInv, NeverHalfResolved, Read
  <2> QED
    BY <2>1, <2>2, <2>3
<1> QED
  BY <1>1, <1>6, <1>7, <1>8, <1>9, <1>10 DEF BootstrapInv

\* node.yaml is rewritten when every file is in its place, from the whole text.
LEMMA ResolveStep == BootstrapInv /\ (TruncateResolved \/ WriteResolved) => BootstrapInv'
<1> SUFFICES ASSUME BootstrapInv, TruncateResolved \/ WriteResolved
             PROVE  BootstrapInv'
  OBVIOUS
<1>1. TypeOK /\ TypeOK'
  BY TypeStep DEF Next, Bootstrap, BootstrapInv
<1>2. /\ todo' = todo /\ copying' = copying /\ flags' = flags /\ config' = config
      /\ todo = {} /\ copying = NoDirective
      /\ stage \in {"placing", "writing"} /\ stage' \in {"writing", "done"}
      /\ disk' = [disk EXCEPT ![NodeYaml] = IF stage' = "done" THEN config ELSE Cut]
  BY DEF BootstrapInv, Ended, TruncateResolved, WriteResolved, memory
<1>3. /\ disk'[NodeYaml] = IF stage' = "done" THEN config ELSE Cut
      /\ \A name \in Inside : name # NodeYaml => disk'[name] = disk[name]
  BY <1>1, <1>2, NamesInside DEF TypeOK
<1>4. ConfigFollows' /\ CopyOpen' /\ Ended' /\ DoneResolved'
  BY <1>2, <1>3 DEF BootstrapInv, ConfigFollows, CopyOpen, Ended, DoneResolved, Busy
<1>5. config = Resolved(flags)
  BY <1>1, <1>2, ConfigEqual DEF BootstrapInv, ConfigFollows, Busy, TypeOK
<1>6. NeverHalfResolved'
  BY <1>1, <1>2, <1>3, <1>5 DEF NeverHalfResolved, TypeOK
<1>7. CopiesKept'
  <2> SUFFICES ASSUME Separate(flags), NEW e \in Directive, flags[e] # NoFile
               PROVE  disk'[Base[flags[e]]] \in SameName(flags, e)
    BY <1>2 DEF CopiesKept, SameName, Separate
  <2>1. Base[flags[e]] \in Inside /\ Base[flags[e]] # NodeYaml
    BY <1>1, FlagType, DestinationType DEF TypeOK, Separate
  <2>2. disk[Base[flags[e]]] \in SameName(flags, e)
    BY <1>2 DEF BootstrapInv, CopiesKept, Busy
  <2> QED
    BY <1>3, <2>1, <2>2
<1>8. SelfEmptied'
  BY <1>2, <1>3 DEF BootstrapInv, SelfEmptied, Busy, SameName
<1> QED
  BY <1>1, <1>4, <1>6, <1>7, <1>8 DEF BootstrapInv

\* A bootstrap that fails, and a process that stops, leave the disk as it is.
LEMMA EndStep == BootstrapInv /\ (Fail \/ Stop \/ UNCHANGED vars) => BootstrapInv'
<1> SUFFICES ASSUME BootstrapInv, Fail \/ Stop \/ UNCHANGED vars
             PROVE  BootstrapInv'
  OBVIOUS
<1>1. TypeOK'
  BY TypeStep DEF Next, Bootstrap
<1>2. CASE Fail
  BY <1>1, <1>2 DEF Fail, memory, BootstrapInv, CopyOpen, ConfigFollows, Ended, CopiesKept,
     NeverHalfResolved, DoneResolved, SelfEmptied, Busy
<1>3. CASE Stop
  BY <1>1, <1>3 DEF Stop, BootstrapInv, CopyOpen, ConfigFollows, Ended, CopiesKept,
     NeverHalfResolved, DoneResolved, SelfEmptied, Busy
<1>4. CASE UNCHANGED vars
  BY <1>1, <1>4 DEF vars, memory, BootstrapInv, CopyOpen, ConfigFollows, Ended, CopiesKept,
     NeverHalfResolved, DoneResolved, SelfEmptied, Destination, SameName, Separate
<1> QED
  BY <1>2, <1>3, <1>4

\* The files, the text and node.yaml agree in every reachable state.
THEOREM BootstrapInvariant == Spec => []BootstrapInv
<1>1. BootstrapInv /\ [Next]_vars => BootstrapInv'
  BY BeginStep, SkipStep, CreateStep, CopyStep, ResolveStep, EndStep
     DEF Next, Bootstrap, Place
<1> QED
  BY InitInv, <1>1, PTL DEF Spec

-------------------------------------------------------------------------------
(* The properties                                                            *)

\* The state of the bootstrap always has its types.
THEOREM TypeInvariant == Spec => []TypeOK
BY BootstrapInvariant, PTL DEF BootstrapInv

\* A finished bootstrap leaves a node.yaml whose directives name files that were
\* wholly copied for it.
THEOREM FilesNamed == Spec => []NamesConfiguredFiles
<1>1. BootstrapInv => NamesConfiguredFiles
  <2> SUFFICES ASSUME BootstrapInv, stage = "done", Separate(flags)
               PROVE  /\ disk[NodeYaml] = Resolved(flags)
                      /\ \A d \in Directive : flags[d] # NoFile =>
                           disk[disk[NodeYaml].file[d]] \in SameName(flags, d)
    BY DEF NamesConfiguredFiles
  <2>1. /\ disk[NodeYaml] = config /\ config \in Config
        /\ todo = {} /\ copying = NoDirective
    BY DEF BootstrapInv, DoneResolved, Ended, TypeOK
  <2>2. disk[NodeYaml] = Resolved(flags)
    BY <2>1, ConfigEqual DEF BootstrapInv, ConfigFollows, Busy
  <2>3. ASSUME NEW d \in Directive, flags[d] # NoFile
        PROVE  disk[Base[flags[d]]] \in SameName(flags, d)
    BY <2>1, <2>3 DEF BootstrapInv, CopiesKept, Busy
  <2> QED
    BY <2>2, <2>3 DEF Resolved
<1> QED
  BY <1>1, BootstrapInvariant, PTL

\* node.yaml is never a text with a directive that should have been replaced.
THEOREM NodeYamlWhole == Spec => []NeverHalfResolved
BY BootstrapInvariant, PTL DEF BootstrapInv

\* A file of the data directory configured under its own name ends up empty.
THEOREM SelfCopyLosesFile == Spec => []SelfCopyEmpties
<1>1. BootstrapInv => SelfCopyEmpties
  BY DEF BootstrapInv, SelfCopyEmpties, SelfEmptied, Ended, Busy
<1> QED
  BY <1>1, BootstrapInvariant, PTL

\* node.yaml changes at the end of a bootstrap only.
THEOREM OldConfigKept == Spec => ResolvedOnlyAtTheEnd
<1>1. BootstrapInv /\ [Next]_vars =>
        [Separate(flags) /\ disk'[NodeYaml] # disk[NodeYaml]
           => todo = {} /\ stage # "stopped"]_vars
  <2> SUFFICES ASSUME BootstrapInv, Next, Separate(flags), disk'[NodeYaml] # disk[NodeYaml]
               PROVE  todo = {} /\ stage # "stopped"
    BY DEF vars
  <2>1. ASSUME NEW d \in Directive, CreateFile(d) \/ CopyFile(d)
        PROVE  FALSE
    <3>1. flags[d] # NoFile /\ d \in Directive
      BY <2>1, NamesInside DEF CreateFile, CopyFile, BootstrapInv, CopyOpen
    <3>2. Destination(flags[d]) # NodeYaml
      BY <3>1 DEF Separate, Destination
    <3> QED
      BY <2>1, <3>2, NamesInside DEF CreateFile, CopyFile, BootstrapInv, TypeOK
  <2>2. ASSUME NEW d \in Directive, SkipDirective(d)
        PROVE  FALSE
    BY <2>2 DEF SkipDirective
  <2>3. CASE Begin \/ Fail \/ Stop
    BY <2>3 DEF Begin, Fail, Stop
  <2>4. CASE TruncateResolved
    BY <2>4 DEF TruncateResolved
  <2>5. CASE WriteResolved
    BY <2>5 DEF WriteResolved, BootstrapInv, Ended
  <2> QED
    BY <2>1, <2>2, <2>3, <2>4, <2>5 DEF Next, Bootstrap, Place
<1> QED
  BY <1>1, BootstrapInvariant, PTL DEF Spec, ResolvedOnlyAtTheEnd
===============================================================================
