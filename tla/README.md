# firehose-aptos: specifications and proofs

TLA+ modules for the logic of firehose-aptos that is its own: reading an
instrumented `aptos-node`, turning what it prints into blocks, resuming it after it,
or the process around it, stopped, preparing and starting it, ending it, and finding
its blocks again in the archives. TLC checks them on small instances (`tlc -config
X.cfg M`), TLAPS proves their invariants for every value of the constants (`tlapm
M.tla`). `PROJECT.json` lists the runs, the properties, the
faulty variants each property is tried on, and the lines every definition models.

Paths below are relative to `src/`.

## The system and its parts

```
aptos-node --stdout--> superviser --lines--> console reader --blocks--> mindreader plugin
    ^                                                                    | store, callback
    +---- STARTING_BLOCK <---- lastBlockSeen <---- sync_state.json <-----+
```

| Component | State | Operations | Hard behaviour | What makes it correct |
|---|---|---|---|---|
| console reader, `codec/console_reader.go` | `initRead`, `chainID`, `activeBlock`, the channel `lines` | `ProcessData`, `ReadBlock` and its four handlers | two goroutines around a bounded channel; any order of lines; end of output against buffered lines; a conversion that fails after the reset | blocks are exactly what BLOCK_START and BLOCK_END enclose; the first illegal line is refused, no legal one is; end of file only after everything was read |
| block types, `types/` | none | ids, parents, irreversible block, header, decoder | byte carries, the first streamable block, height 0 | parents link by id; ids sort as heights; irreversibility advances within the chain |
| sync state and superviser, `cmd/fireaptos/cli/node.go`, `reader-node.go`, `nodemanager/superviser.go` | `sync_state.json`, `lastBlockSeen` | read, write, convert the old field, start of the node, callback | crashes between store, truncate, write and assignment; restart of the node with blocks of the old one still in the channel | no hole in the store; the file never ahead of the store; both kinds of restart agree |
| statistics, `codec/console_stats.go` | `lastBlock`, rates | update, periodic log | read by a ticker without a lock | the block reported is the last delivered, or the one a failed conversion lost |
| bootstrapper, `cmd/fireaptos/cli/node-bootstraper.go` | the node's data directory, `node.yaml` | copy or download four files, template `node.yaml`; again at every start | failure or kill between two files, or within one; equal base names in a map's order; a file copied onto itself | a finished bootstrap's `node.yaml` names files that hold what was configured; an unfinished one never leaves half a text |
| node factory, `cmd/fireaptos/cli/node.go` | none of its own | data directory, arguments, wiring of the others | a text cut at blanks | aptos-node runs on the `node.yaml` just resolved |
| log plugin, `nodemanager/logging.go` | none | level and text of a line of aptos-node | a greedy match | an entry keeps its own level and its text |
| start and lifecycle, `cmd/fireaptos/cli/start.go`, `setup.go` | configuration, first streamable block, launcher | flags, directories, launch, signal or termination | signal and termination at once; a signal before its handler; an error dropped by `getReaderLogPlugin`; a map's order among keys | what the exit says is true of what ended it; nothing outlives it; it ends |
| archives and tools, `tools/`, `types/init.go` | the stores of one-block and merged files | print a block, a bundle, a one-block file; check | bundle boundaries, padded names, slices of ids, block zero | the block asked for is the block printed |
| extractor messages, `types/pb/` | none | read and written by the protobuf runtime | a field sent twice, missing, of the wrong type or a newer schema; oneofs | a trimmed transaction is the whole one; a boundary is one because its type says so, and another message's payload never passes for a user's |

Interaction: the reader hands blocks to the external mindreader plugin by return
value; the plugin calls back `OnBlockWritten`, which writes the file and calls the
superviser; the superviser hands its position to `aptos-node` through the
environment. The operator, external too, runs the bootstrapper before it starts
`aptos-node`, and the launcher runs the applications and shuts all down when one
stops. `firehose`, `merger`, `relayer` are configurations of external apps
that see blocks only as headers; `reader-node-stdin` feeds the same reader from
standard input. The hazards of each part are in `PROJECT.json`, with their lines.

## The modules

| Module | Models | Role |
|---|---|---|
| `AptosBlock` | `types/block.go`, `types/decoder.go`, `types/pb/aptos/extractor/v1/extractor.go` | operators: ids, parents, irreversible block, header |
| `BlockSource` | what a caller of `ReadBlock` relies on | abstract specification |
| `ConsoleReader` | `codec/console_reader.go`, `lastBlock` of `console_stats.go` | `ProcessData` and `ReadBlock` |
| `MCConsoleReader` | | alphabets of lines, and what the documents claim |
| `ConsoleReaderProofs` | | theorems, refinement of `BlockSource` |
| `ReaderNode` | `reader-node.go`, `node.go`, `superviser.go` | sync state, stops, crashes |
| `ReaderNodeProofs` | | theorems |
| `HeaderChain`, `MCHeaderChain` | headers of consecutive blocks | what the rest of Firehose sees |
| `Archive`, `MCArchive` | `tools/blocks.go`, `tools/check.go`, `types/init.go` | extends `HeaderChain` with the stores and the tools over them |
| `ArchiveProofs` | | theorems on both, refinement of `HeaderChain` |
| `Bootstrapper` | `node-bootstraper.go`, `copyFile` of `utils.go` | the data directory over several starts |
| `BootstrapperProofs` | | theorems |
| `CommandLine` | `utils.go`, `buildNodeArguments` of `node.go` | operators on texts and paths |
| `NodeLog` | `nodemanager/logging.go` | operators on lines of the log |
| `NodeProcess`, `MCNodeProcess` | `node.go`, `NewSuperviser` | composes the three before: bootstrap, start, log |
| `NodeProcessProofs` | | refinement of `Bootstrapper`, theorems |
| `Lifecycle`, `MCLifecycle` | `setup.go`, `start.go`, `InitFunc` of `merger.go` | the start command |
| `LifecycleProofs` | | theorems |
| `DataLemmas` | | lemmas on numbers, finite sets and texts, for the proofs of several components |
| `ExtractorTypes` | `types/pb/aptos/extractor/v1/extractor.pb.go`, `timestamp.pb.go` | the schema, one definition per Go type |
| `Wire`, `MCWire` | what the generated code and the reader do with it | payloads read, rewritten as the trimmed type, and looked at by the reader |
| `WireProofs` | | theorems |

An operator named after another with a suffix (`LIBNum_Strict`,
`ClosesLines_Always`, ...) is a faulty variant of it; no specification uses it.
Each property of a passing run is known to fail when one of them takes the
place of its original.

### ConsoleReader

State: the channel's buffer (`lines`, `closed`), how the producer stands
(`producer`), the reader's fields under their own names, how the caller stands
(`caller`), and two histories, `consumed` and `delivered`, that the properties
speak of. A line is a tag (its first token, or `NOT_FIRE` and `BARE` for a line
without the prefix and one that is only the prefix) and a sequence of parameters;
a parameter is the integer it parses to, a payload that decodes to a transaction,
or `Word`. The goroutines share only the channel, so receiving and handling a
line is one step. There is one action per handler and outcome: `ReadInit`,
`ReadBlockStart`, `ReadTransaction`, `ReadBlockEnd`, `FailConversion`, the three
skips, `RejectLine` for everything an error is returned for, `PanicOnBarePrefix`,
`ReadEOF`. The caller stops at its first error, as the callers in this
repository do (`codec/bench/main.go`, the tests).

The reference for what the reader must do is `Legal` and the operators under it:
the message format stated over the lines received only, with no reader state.
`Legal` follows the handlers and tests where the format document differs (see
Divergences). `DeliveredMatchesLines` and `ErrorIffIllegal` compare what the reader
did with it; `RemembersLines` says what its state has to do with the lines until then.

`DeliversBlockSource` is the refinement: `delivered` is the abstract output, and
the abstract source has ended when `caller` no longer reads. A received line that
ends no block maps to a stutter.

### ReaderNode

State: the two things on disk (`file`, `store`), and what the process holds: the
superviser's `lastBlockSeen`, where the supervised node prints next, the plugin's
channel, and how far the plugin is with a block (`stage`). `os.WriteFile` is two
steps, since it truncates first. `StopNode` leaves the channel alone: the plugin
works on while the node is down, so a new node may repeat blocks that are still
in the channel. `Crash` loses all but the disk at any point; `FailWrite` is the
callback's error, after which the plugin shuts the operator down.

External and modelled from use: `aptos-node` prints consecutive blocks from
`STARTING_BLOCK` on; the plugin stores a block and then calls back, one block at
a time; a block store write is atomic; the operator may stop and start the node
at any time. `Init` includes an upgraded installation that has only the
deprecated `last_seen_version`.

### HeaderChain

The headers of consecutive heights, from any height the network streams; the
node is the one of `ReaderNode`. Properties use the fields a merger or relayer
links blocks by.

### Archive

`HeaderChain`'s chain, each block stored in a file of its own, and the external
merger, which bundles files once the chain has left a bundle, in any order. The
tools are operators over the stores: what they print or how they end, for each
number one may ask for. A name is its digits, so padding and prefixes are those of
the code; `MostDigits` bounds the digits of a number, 20 for 64 bits.
`printOneBlockE` always ends in a panic when it finds a file: `printBlock` (243)
asserts that a block's payload is a `*pbaptos.Transaction`, whereas the decoder
gives a `*pbaptos.Block`.

### Bootstrapper, NodeProcess

State of `Bootstrapper`: the data directory (`disk`: what each name in it holds),
the flags of this start, and `Bootstrap`'s locals (`config`, `todo`, the file being
copied). Creating a file and copying into it are two steps, and so are truncating
and writing `node.yaml`; `Fail` and `Stop` may come before any of them. A text is
what its directives were replaced by. A file outside the data directory is never
changed; one inside may be configured too, and is then copied onto itself.

`NodeProcess` adds the start of aptos-node and its log. `StartNode` is
`nodeFactoryFunc`'s wiring with the operator's order, bootstrap first. Both take the
data directory, so `NodeReadsResolvedConfig` relates the arguments, made before the
bootstrap runs, to the file it leaves, and says where the two may part: at a blank, or
at a directive in a flag that does not know it (`Misplaced`). Texts are sequences of
pieces; `Fields` cuts one at its blanks as `strings.Fields` does.

### Lifecycle

From `setupCmd` to the end of `firehoseCmdStartE`. Flags come from the command line,
the configuration file or the default; two keys of the file that name one flag are
ranged over in any order. A store's last segment with a dot is taken for a file, so its
directory is not made, unless the data directory lies in it: `Prepared` says both.
`Launch` includes what may fail in the factories
(`readNodeSyncState`) and the merger's `InitFunc`; its other store, and the reader's
working directory, are made in the same way and left out. The launcher is modelled
from its use: `Terminating` once an application stopped or `Close` was called, `Err`
the error of the first, and the others shut down. Before the handler is installed a
signal kills the process.

### ExtractorTypes, Wire

Each Go type is one definition: a field is its number, its sort, whether it repeats
and its oneof, which is what the struct's tags say, for a oneof those of its members.
`map` gives a definition those lines: the fields and their tags; of a type with a
oneof the getters and the members, with the place of the other tags; of an enumeration
its constants and names. `New`, `Zero` and `Get` are every type's `Reset` and getters,
and `Schema` the table of which message a field holds. `String`, `ProtoReflect`,
`Descriptor` and the rest of the generated code are not translated.

`Wire` gives them their meaning by protobuf's rules, which are external: a
payload is a sequence of records, read one after the other into a message. A
message is the values each field holds; unknown records are kept. `TransactionRead`
is what `readTransaction` looks at, in the terms of `AptosBlock`. Bytes are abstracted
to records, so a text always parses as a message and any bytes are a text, where the
runtime may refuse either, in which case nothing is read; and numbers stay below 2^31,
which every field keeps as they are.

The transaction and the types it is made of are what the reader looks at. The other
messages of the schema matter for what happens when one is on a TRX line:
`readTransaction` has no way to tell, and takes any bytes that parse.
`ForeignPayloadOpensBlock` says that none of them, as written by this schema, passes
for a state checkpoint or a user's transaction, so within a block it is refused. It
holds because no other message has a single number in field 6, where a transaction has its
type, but a truth (`TransactionInfo.success`), which can only be one of the two
boundaries' types; a schema that put a counter or an enumeration there would break it.

A message may hold messages, MoveType even others of its own type, so reading and
writing recurse. `Wire` takes what becomes of the message within as two constants,
`UnmarshalNested` and `MarshalNested`, and `Wire.cfg` gives them `Unmarshal` and
`Marshal` (as `MCWire!MarshalWithin`), which closes the recursion without a RECURSIVE
operator. The records there are (`Record`), how deep each nests (`Depth`) and which a
payload may hold (`Sent`) are constants too, enumerated from the schema in `MCWire`.

### Composition

`ReaderNode` stands for the console reader by what `BlockSource` promises, whole
blocks in order: a new reader is made with each start of aptos-node by the external
mindreader plugin, so a stop loses exactly the block in progress, which
`DeliveredMatchesLines` shows for an output cut anywhere. A module of both at the
level of lines would have the same states with more steps between them.

## Runs

| Run | Bounds | Shows |
|---|---|---|
| `console_reader_order` | 8 lines of 7 kinds, INIT among the first three, channel of 1 | every order of well formed lines (`ErrorIffIllegal` as a part of `ReaderInv`); two full blocks, restarted blocks, lines around INIT; links; refinement |
| `console_reader_format` | 4 lines of 23 kinds, INIT among the first two, channel of 2, fairness | every check of every handler, in each state that a line of the other kinds can put the reader in; nothing sent stays unread, the end is reported |
| `reader_node` | 6 blocks, channel of 3, 4 stops or crashes, fairness | no hole, file and memory in step; only a cut file resets to block 0; what is in the channel is stored and seen |
| `header_chain` | all heights of 2 bytes, first streamable 3 | links, order, irreversibility |
| `archive` | numbers to 105 from 0, 30 or 75, bundles of 25, names of 2 digits | each block is found by its number, and its parent by the number `check` prints; where the tools fail |
| `node_process` | 5 sets of flags, 4 files, 2 starts, 3 directories, 4 arguments, lines of up to 7 pieces | `node.yaml` is never half resolved, though it may be cut; it names what was configured and is what aptos-node runs on; levels of the log |
| `lifecycle` | 3 applications, 9 configuration files, 5 command lines, one signal, fairness | what the exit says, what runs and on what, that the process ends |
| `wire` | 2 records, all types, a record holding one at most, numbers to 2 | the trimmed type keeps the whole transaction; which payloads open a block, those of the other messages included |

Why the bounds are enough. INIT takes one line and a block three, so eight lines
hold two whole blocks, one of them of two transactions, or several restarts on
the way to one; what precedes INIT changes nothing, so `InitWithin` bounds it to two
lines there and to one among the many formats. A
channel of one already separates the goroutines, and one of two lets lines lie in
it when it is closed. In `ReaderNode` three blocks in the channel
allow one being written, one buffered and one repeated, and four stops allow a
crash during the recovery from a crash after a node restart. Two byte heights
have every carry that eight byte ones have: within a byte, between bytes. Heights
of one byte and chain ids of half a byte keep the code's ratio of 64 to 32 bits:
the alphabet has a chain id (16) that fits a height and not a chain id.

The archive's numbers pass from two digits, which names are padded to, to three, as
the code's would from ten to eleven, and its chains begin on a bundle's first
number, within a bundle and at zero. In `node_process` two starts with any two sets
of flags suffice for what one bootstrap can leave to the next; the sets have files
of different names, of one name, from within the data directory, and one called
`node.yaml`, and the texts hold blanks, directives their flag knows and others.
`lifecycle` has a reader, a merger and one more application, so the first to stop,
the last and one in between may each be the reader. Two records are what it takes
for a field to come twice, for two members of a oneof, or for a record not
understood before or after another: what a record does depends on its own field and
oneof alone. Of an enumeration all values are sent and one it does not name; of other
numbers 0, 1 and 2, since the type of a transaction is a boundary's for the first two.

Deadlock is not checked: lines, blocks, starts and payloads are bounded, the caller
stops at its first error, a process ends, and one with a corrupt file cannot be
started by design.

Fairness. `ConsoleReader!FairSpec` is weak fairness of the caller, who loops on
`ReadBlock`; of the node's output nothing is assumed. `ReaderNode!FairSpec` is
weak fairness of the plugin's goroutine; neither the node nor whoever starts the
process is assumed to act, so no property promises that the chain advances.
`Lifecycle!FairSpec` is weak fairness of the command's goroutine (the select and the
wait take what is ready), of the one that `go launch.Close()` starts, and of each
application once it is told to shut down; no signal is assumed, nor that an
application stops by itself.

### Divergences

Four runs each refute a statement of the repository about the program:

- `console_reader_docinit`: the exchange format gives INIT five parameters, the
  reader wants six or seven.
- `console_reader_bare`: the format has every line without `FIRE ` ignored; a
  line that is just `FIRE` is sliced out of range.
- `console_reader_minor`: the minor version is parsed from the major version's
  parameter.
- `console_reader_network`: the flag `common-chain-id` is said to ensure that the
  data is of the right network; nothing compares it to INIT's chain id.

Noted, and not runs: a line of one token before INIT is an error although lines
before INIT are otherwise skipped; a stream cut within a block ends in a plain
`io.EOF`; an empty `sync_state.json` resets to block 0 even when the first
streamable block is above it, a missing one does not (`reader-node.go` 125-128,
`node.go` 146); the printing tool slices seven characters of a previous id that
is empty for block 0 (`tools/blocks.go` 113), and `check` numbers that block's parent
2^64-1 (`tools/check.go` 81); `print one-block` panics on any block (`blocks.go` 243);
`reader-node.go` 83-85 shuts down with nil whatever the error, so a reader that failed
ends the command as a success; a file configured by its path in the data directory is
emptied (`utils.go` 85); a data directory with a blank in its path cuts aptos-node's
`--config` in two (`node.go` 274); a TRX payload without a type is taken for the
genesis, whose type is zero (`extractor.pb.go` 155), and passes as a block's boundary;
`TransactionPayload.Type` has three values where its oneof has four members
(`extractor.pb.go` 310-314, 2272-2277); a benchmark's reader registers
`OnTerminating` in a goroutine that may come after the shutdown
(`codec/bench/main.go` 87).

## Proofs

Assumed: the named assumptions of the modules' constants, which TLC evaluates in the
runs. Most bound or type a constant. `WeightAssumption` and `DecimalAssumption` say
what the powers of 16, 256 and 10 are up to the largest the code needs, each the base
times the one before, which is their definition: the provers know none.
`FlagAssumption` says that a flag has values of its type wherever it is set: a height
any `int`, a store some path. `NodeProcessAssumption` says that the flag of the data
directory is not empty, that where the process runs and its data are absolute paths
without a directive in their names, and that a line of aptos-node is a text.

Induction. The library's theorems on it take an operator as a parameter, which the
provers cannot instantiate. `LeastElement` and `UpTo` in `DataLemmas` say the same of a
set: one that holds 1, and with each number the next, holds all. That is enough for a
property of the positions of a text, of the digits of a number or of the elements of a
finite set, once the set of those that have it is named. From them follow there what
`FlattenSeq` does in `Replace` (`FlattenSteps`, `Replaced`), what the words of a text
are (`WordEnds`, `WordOf`, `FirstWords`), what counting the elements below one gives
(`RankOfNewest`, `RanksGrow`, `RanksCover`), and division by powers (`DivOfDiv`).

`ConsoleReaderProofs`. `TypeInvariant` is inductive with the lemmas on ids, headers and
`AddTransaction`. `ReaderInv` is the inductive invariant behind the rest, in two
halves.

- `BlocksInv`: the active block is of INIT's chain and, once it has a transaction, well
  formed; every delivered header is the conversion of such a block; the statistics
  follow. It is needed because the refinement has to know of the block at BLOCK_END
  what only the lines before established: `AddTransactionWellFormed` carries
  well-formedness from TRX to TRX, `HeaderWellFormed` from the block to its header.
  From it follow `EofOnlyAfterCleanEndHolds`, `StatsFollowDeliveryHolds`, and
  `ConsoleReaderImplementsBlockSource`, where every action is `Deliver`, `End` or a
  stutter. `DeliveredBlocksLink` follows too: any two
  delivered blocks are parent and child by their ids exactly when their heights are
  consecutive, since no two heights share an id (`IdsDiffer`, for any width of a
  height) and no height has the empty one.
- `LinesInv`: `ErrorIffIllegal` and `DeliveredMatchesLines`, with `RemembersLines`,
  without which neither is inductive. Both speak of the lines alone, and the reader
  forgets them: so the invariant says that, while the caller reads, `initRead` and
  `chainID` are what an INIT said and the active block is the one the open BLOCK_START
  began, with each TRX line since at its place. `NextLine` says how a line changes what
  is open, `FormatDecided` that the handlers refuse exactly the lines the format
  forbids, and one lemma per kind of line (`SkipRemembers`, `InitRemembers`, ...,
  `EndRemembers`) that the reader goes on remembering. The transactions of a block and
  the blocks delivered are numbered by counting lines (`Cardinality`), so a new line
  must count one more and no earlier line otherwise: `RankOfNewest`, `RanksGrow`,
  `DeliveryGrows`.

`ReaderNodeProofs`. `NoHole` alone is not inductive: a block on its way to the
store could follow nothing. `ResumeInv` adds that every position one resumes
from (file, superviser) is stored or not past the first streamable block, and
that each block in the channel, and the next one the node prints, follows a block
stored or ahead of it. `StageInv`, stated with the proofs, relates file and memory
stage by stage, from which `SyncStateIsStored` and `RestartsAgree` follow.
`ResetsOnlyWhenCutHolds` keeps every position at or past the first streamable block
(`FloorInv`) while no start finds the file cut; since that condition is about the
whole behaviour, the property is `[]` of one implying `[]` of the other, and the step
that starts the process uses the first. `SeenInOrderHolds` is the part of
`ProducedIsSeen` that needs no fairness, and says in which order besides: while the
process runs, the blocks not yet seen (`Pending`) are shown to the superviser one by
one as printed, four steps of the plugin each, and no other step disturbs them. It is
a theorem alone, of no run.

`BootstrapperProofs`. `NamesConfiguredFiles` speaks of the end of a bootstrap, and
holds because of what its loop keeps: `BootstrapInv` says that the text follows the
directives that are done (`ConfigFollows`), that a copied file stays as it was or
belongs to another directive of its name, unless such a copy is open (`CopiesKept`,
`CopyOpen`), that the loop is over once `node.yaml` is written (`Ended`,
`DoneResolved`), and what becomes of a file copied onto itself (`SelfEmptied`). Failures
and starts with other flags preserve it because each conjunct but `NeverHalfResolved`
is about a bootstrap under way. `NamesConfiguredFiles`, `NeverHalfResolved`,
`SelfCopyEmpties` and `ResolvedOnlyAtTheEnd` follow.

`NodeProcessProofs`. The composition implements `Bootstrapper` (`ProcessBootstraps`),
its own steps being stutters, so what is proved there holds of it; with it,
aptos-node runs only on a resolved `node.yaml` (`NodeConfigResolved`). The lemma
`ProcessInvariant` only says where the command and the log entry come from, for the
theorems on texts, which are the rest. `NodeReadsResolvedConfigHolds` follows a text through
`Replace` and `Fields`: which pieces it may have after each replacement
(`NodeDataDirPieces`, `DefaultPieces`, `ArgumentPieces`), so that no directive is left
but a misplaced one, and what its first two words are (`FirstArguments`), so that the
second is the file's whole path if and only if that has no blank.
`LogsOwnLevelHolds` finds the greedy match of an entry: the level it starts with is one
(`EntryLogged`), and the last one unless its message usurps it (`LastPosition`).

`LifecycleProofs`. `Staged` says for each stage what the applications may be and what
`err` may mean; it is inductive with the types, for which the flags have to stay
integers (`HeightIsInt`). `ExitTellsCause` and `NothingOutlivesStart` follow for any
set of applications, any configuration files and flags. `PreparedInv` says for each
stage what is made by then, which `Prepared`, about the applications, needs from the
stages before them. The rest is about paths: of a local store's, whatever the data
directory puts in it, either all beginnings are made or all but itself (`LocalStore`),
and the one left out is made all the same if the data directory lies in it.

`ArchiveProofs`. Of `HeaderChain`, both headers are those of their heights
(`ChainInvariant`);
links and bounds of the irreversible block follow for any width and any first
streamable block. `IdsSortAsHeights` rests on `IdsSort`: in the highest byte where two
heights differ, which exists by `LeastElement`, the lower height has the lower byte
(`DivMonotonic`, `DigitGrows`), and the first of its two digits that differs is lower.

The chain under the archives is `HeaderChain`'s
(`ArchiveFollowsChain`), so `ChainInvariant` holds of it.
`StoresInv` is inductive: what is merged is behind the chain, so its bundle gets no
more one-block files and is never merged again, and a file is the only one of its name.
With it, `FindsArchivedBlocks` needs that two numbers of a file's name are equal if the
names are (`NamesDiffer`), for any size of bundles; `WalksItsOwnFile` that a number
whose name another's begins with is its quotient by a power of ten
(`PrefixIsQuotient`), and that a name with a leading zero is as long as any padded one. `LeadsToParentHolds`
combines the stores with the chain: a parent held by any file, the one before included,
is what `print block` shows for the number printed, and its id is the one printed.

`WireProofs`. Two things are needed: what a payload means when it is cut anywhere, and
what a message that was read looks like.

- `Unmarshal` goes through one message per record (`ReadSteps`), in one way
  (`ReadAlong`), so a payload and another after it are read one after the other
  (`ReadJoined`). `SchemaProper` goes through the 47 messages of the schema: within
  each no number is used twice, none is as high as a newer field's, and no list is in
  a oneof. So a record is one field's at most (`KnownRecord`) or is kept
  (`UnknownRecord`).
- A message is `Whole` if each field holds what its kind may (`Held`), at most one
  member of a oneof holds anything, and no field accepts a record that was kept. What is
  written of such a message reads back as the message (`WholeSurvives`): value by value
  (`ValueBack`, `PackedBack`), field by field over the list that `Marshal` writes by
  number (`FieldBack`, `NumberBack`, `KnownBack`), then the records kept (`UnknownBack`).
- `Whole` asks of the messages it holds that they survive, so it is not inductive: a
  record merges into a message already there, which must be whole itself, and so on
  down. `Sound` says whole to any depth, as membership in a family of sets of whole
  messages that hold but one another. Every record keeps a message sound
  (`RecordsSound`): a least deep one that did not would hold only records that do
  (`RecordSound`, `LeastElement`). `MessageInv` is `Sound` of the message read, from
  which `ForeignPayloadOpens` starts.
- `ForeignPayloadOpens`: in field 6 no message but the transaction has anything but a
  list, a truth or a message (`SixthFields`, which goes through the schema), so of what
  is written of a whole message no record gives a transaction a type but 0 or 1
  (`NumberOpens`, `KnownOpens`), and a payload of such records none either (`OpenRead`).
- `TypeInv`: the type held is that of the last record that gives one, since the type is
  a number in no oneof that no other record touches (`TypeOfRecord`). With what
  `IsBlockStartBoundaryType` makes of it, `MissingTypeOpens` follows.
- `TrimmedAgrees` alone is not inductive: that the trimmed transaction written back is
  the whole one does not say what one more record makes of both. `TrimmedInv` says that
  the records it kept make all of the transaction but its time and version, whatever
  the time and version they are read over (`Agrees`); a record of either changes nothing
  else (`StampRead`), any other commutes with setting them (`StampAside`).

`TrimmedTransactionAgrees` and `ForeignPayloadOpens` have the
hypothesis `NestedAsDefined`: that the two constant operators are the ones the module
defines. It is the equation of a recursive definition and what `Wire.cfg` makes of them;
operators that satisfy it exist, because each is used at the next level only at what a
message or a record holds. `WireAssumption` says that every record is of one of the two
wire types, with natural numbers of at most 2^31-1, and that what it holds nests less
deep. The other two theorems about `Wire` need neither a nested message nor the hypothesis.

The proof found the model ambiguous at one place: for a packed list two arms of the CASE
in `ValuesRead` were true at once. TLC takes the first, the right one; in TLA+ either may
be chosen. The arms now exclude each other.

Only model-checked: the four liveness properties (`EveryLineRead`,
`StreamEndReported`, `ProducedIsSeen`, `StopEndsProcess`), since the prover handles
neither fairness nor ENABLED. Every other property of a passing run is stated by a
theorem.

## Not modelled

- The rates and the ticker of the statistics: the wording of a log line. The ticker
  reads the counters without a lock; only the values written are modelled.
- The external libraries: launcher, operator, mindreader plugin, merger, protobuf,
  `dstore`. They appear by how this code uses them, marked external in the map.
- `firehose.go`, `relayer.go`, the rest of `merger.go` and `reader-node-stdin.go`:
  tables of flags handed to external applications. `common-flag.go` likewise.
- The blocks cache, the readiness manager, the loggers and the metrics server: they are
  switched on from flags and never read back.
- `tools check` beyond what it prints of a block (the checks are in `sf-tools`),
  `tools decode` and the firehose client, which print what they are given.
- The descriptor's bytes, reflection and text formats of the generated code, and the
  vendored conversions of Timestamp and Duration that nothing here calls.
- The codec benchmark and the deployment examples, which are not part of the program.

Further work: the benchmark's reader and its registration after a shutdown; the checks
of `sf-tools` over the stores of `Archive`; and, as `SeenInOrderHolds` for
`ProducedIsSeen`, what each fair step changes in front of the other liveness properties,
which needs no temporal reasoning.
