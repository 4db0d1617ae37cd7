# fatou: a verification development

Fatou is a formatter, linter and language server for Julia. This directory holds
TLA+ models of its language server and its formatter, the TLC runs that check them on small
instances, and theorems about them with proofs checked by TLAPS. Paths below are
relative to the repository (`src/lsp/...` is the crate's own `src` directory).

The language server is where fatou is concurrent: a main loop that must stay
responsive, one analysis thread that owns a salsa database, a pool of workers that
read snapshots of it, and a harvester that indexes packages. They share nothing
but FIFO channels and salsa's cancellation flag. What the user sees, whether the
squiggles belong to the text on the screen, depends on how those pieces
interleave, and that is what a unit test can hardly reach.

## Inventory

| Component | State it keeps | Operations | Talks to |
|---|---|---|---|
| Main loop and documents (`lsp/server.rs`, `lsp/state.rs`) | `documents` (version, text), `parse_diags`, `buffer_diags`, `graph_diags`, `config`, responder and read bookkeeping | LSP notifications and requests, `on_outbound`, `on_read_reply`, `publish_merged` | sends to the analysis thread, receives from it and from the harvester |
| Analysis thread (`lsp/analysis_thread.rs`) | `pending`, `inflight`, `active`, `import_projections`, the database, queued reads and renames, a parked script install | the `select!` arms: analysis, read, sync, library, project text, script loads, done; `try_dispatch`, `start` | receives from every thread; spawns jobs on the pool |
| Read pool (`lsp/task_pool.rs`) | a job channel | run a job, catch its panic | jobs report to the main loop and signal `done` to the analysis thread |
| Lint on a snapshot (`lsp/lint.rs`, `lsp/graph_diagnostics.rs`) | none | warm lint, cold fallback of a cancelled one | reads the database |
| Incremental database (`incremental.rs`) | salsa inputs (tracked texts, library, workspace), `ReparseCache` | `upsert_file`, `revert_file_to_disk`, `set_library`, snapshots, tracked queries | every write cancels every snapshot |
| Read requests (`lsp/read_jobs.rs`, `pull_diagnostics.rs`, `result_id.rs`) | outstanding request ids with the version they read | dispatch, reply, cancel, retry | main loop, analysis thread, pool |
| Script projects (`lsp/script_projects.rs`, `project/scripts.rs`) | `generation`, `loading`, `pending` roots, a deferred install | request a load, receive its result, install it | pool, analysis thread |
| Workspace harvester (`lsp/server.rs`, `index/*`) | last index sent per package, disk cache | environment and source signals, re-harvest | main loop signals it; it writes to the library channel |
| Diagnostics merge (`state.rs`, `environment_diagnostics.rs`) | three diagnostic sets per document | clear or set one producer, publish the merge | client |
| Text buffers (`text/*`) | a buffer and its line index | apply content changes, positions to bytes | main loop, database |
| Incremental reparse (`fatou-parser` `parser/reparse.rs`) | none | splice a token or a block, or give up | `ReparseCache` |
| Include graph (`project.rs`, `incremental.rs`) | the walked graph | walk, classify include problems | lint, graph diagnostics |
| Server configuration (`lsp/config.rs`, `config.rs`) | settings, a cache per directory, watched files | discover, load, layer, invalidate, register watchers | client, main loop |
| Linter (`linter/*`) | none | run rules, suppress, apply fixes | command line, lint on a snapshot |
| Semantic model (`semantic/*`) | none | scopes, control flow | linter, language features |
| Parser (`fatou-parser`) | none | tokens to a lossless tree | everything |
| Formatter (`fatou-formatter`) | none | a tree to a layout document, printed at a width; verify the result | command line, format requests |
| Rename of files, language features, environment files, command line | see `PROJECT.json` | | |

Hard behaviours and the properties that make each component correct:

- *Analysis thread.* Requests are queued while the one in-flight slot is busy; a
  newer edit of the same document takes the slot over by cancelling; a late
  `done` of the superseded job must not free it again; every arm must dispatch
  what it queued or unblocked. Correct means: one analysis at a time, no request
  left behind, the slot always freed.
- *Main loop.* Results arrive late. Correct means: what is shown is about the
  buffer that is open now; a request is answered exactly once.
- *Database.* Any write cancels any reader. Correct means: a cancelled analysis is
  either superseded or done again; a discarded buffer does not survive a close; a
  reparse drains exactly the edits it applied.
- *Script projects and harvester.* Results carry a generation; a stale one is
  discarded and a newer one is on its way; nothing is left pending for ever.
- *Include graph, text edits.* Pure: equal to a reference definition.
- *Formatter.* A layout must read back as the same program, and no pass may depend on
  the line breaks an earlier one, or the user, left.

`PROJECT.json` lists the hazards line by line with the properties that cover them.

## Modules

| Module | Models |
|---|---|
| `AnalysisPipeline` | main loop, analysis thread, read-pool jobs and the database inputs an analysis reads |
| `DiagnosticsService` | the abstract promise to the client: buffers are opened, edited and closed; the findings shown are of the open buffer |
| `ReparseCache` | the incremental-reparse cache beside salsa: staged edit chains, bases, eviction, and the parse that uses them on a snapshot |
| `ReadRequests` | the life of a request: the client's channel, both gates, the read channel, the pool, a write that cancels |
| `RequestService` | the abstract promise to a request: answered at most once, and about the buffer that is open then |
| `ScriptProjects` | script programs: registration, background loads, the parked install, graph findings and their merge |
| `WorkspaceHarvester` | the harvester thread, its signals, environment findings, the library and project text they install |
| `TextEdits` | a document's text on both sides: positions, changes, the patched line table, format edits |
| `LintFixes` | findings, suppressions and fixes of one file, applied in passes |
| `ControlFlow` | the control-flow graph of a region, beside an execution of its statements |
| `IncludeGraph` | the three walks over a package's includes |
| `ServerConfig` | discovery, extension, caching and watching of `fatou.toml` |
| `IndexCache` | the on-disk cache of harvested packages, shared by processes |
| `ExprParser` | the parser: tokens to a tree, expressions by precedence climbing, block forms by descent |
| `FormatRules` | the formatting rules: a tree to a layout document |
| `Layout` | the printer: a layout document to tokens, at a line width |
| `Formatter` | a document spread over lines and formatted, again and again |
| `MC...` modules and their `.cfg` files | instances for TLC; `MCAnalysisPipelineSafety`, `MCReparseCacheSafety` and `MCComponents` run several side by side |
| `FoldInduction` | what folding a sequence computes, by induction on its length; instantiated with an operator by the modules below |
| `AnalysisPipelineProofs` | types, batches, no lost wake-up, the refinement and single flight of the pipeline; the slot is always freed, closed files are reverted, findings are fresh at rest, proved |
| `ReadRequestsProofs` | one carrier per read, a cancel that wins, the refinement of `RequestService`, proved |
| `ScriptProjectsProofs` | the last load asked for arrives, script findings fit the text they are shown beside, proved |
| `ScriptProjectsFreshness` | at rest the installed programs are those of the buffers and the disk, nothing shown was linted while programs were pending, and the include findings shown are those of the current texts, proved |
| `ReparseCacheProofs` | the cache is transparent and bounded, evicts fairly and keeps chains that lead to the text, proved |
| `WorkspaceHarvesterProofs` | lints rest on what the database holds, the remembered index is the one it will hold, project text follows, the library and the findings shown are current at rest, proved |
| `ComponentsProofs` | a cached index is for the right content, the configuration in use is the current one, and fixing a file is safe, proved |

### `AnalysisPipeline`

A keystroke travels client, main loop, `analysis_rx`, `pending`, `inflight`, a pool
job, `out_rx`, main loop, client. Each channel is a sequence; each thread's step is
an action:

| Action | Code |
|---|---|
| `DidOpen`, `DidChange`, `DidClose`, `DidChangeWatchedFiles`, `DidChangeConfiguration` | the arms of `GlobalState::on_notification` |
| `OnDiagnostics`, `OnDiagnosticsRefresh` | the arms of `GlobalState::on_outbound` |
| `AnalysisArm`, `SyncArm`, `LibraryArm`, `DoneArm` | the arms of `AnalysisWorker::run`, each ending in `try_dispatch` where the code's does |
| `JobFinish`, `JobPanic` | the read phase that `start` spawns, and the pool's `catch_unwind` |
| `Rewrite` | another program writes a file (external) |

An arm is a chain of helpers over a record of the worker's state (`Worker`,
`Commit`), so that `enqueue`, `decide`, `start`, `on_sync` and `on_done` keep the
names and the order they have in the code. `decide` and the choice of the next
document iterate hash maps: the model takes any order.

A salsa write sets the cancellation flag and waits until every snapshot is
dropped. It is one step here, for three reasons: the writer does nothing else
meanwhile; a job that completes while the writer waits could have completed just
before; a job that unwinds does nothing another thread sees before its report or
its `done`. Where the job is when the write catches it (`CaughtIn`: before its
projection, while parsing, while linting) decides what it leaves behind, and is a
nondeterministic choice. In the last stage `lint_findings_via_db` answers the
cancellation with a cold lint, and the job publishes that.

Abstractions: a text is a model value and every text parses cleanly; lint rules and
library index are generation numbers; what a lint reads of the other files of its
package is their projections (`ProjectionOf`), as `workspace_import_programs` does;
findings are the record of everything they were computed from (`Diags`), so that
stale findings can be told from fresh ones.

### `ReparseCache`

A parse may splice the edits since the last parse into the last tree instead of
starting over. What it needs for that (`ReparseCache` in `incremental.rs`: per file a
base text and tree, the chain of edits staged since, a stamp and a hot bit) lives
outside salsa, is shared by every snapshot, and is not protected by the write that
waits for snapshots. Edits reach it through the buffer, the request, and `enqueue`'s
coalescing.

| Action | Code |
|---|---|
| `DidOpen`, `DidChange`, `DidReplace`, `Reanalyze`, `DidClose` | the notification's text and edits, up to `AnalysisWorker::enqueue` |
| `Start` | the write phase of `start`: `upsert_file`, then `reparse_stage_edits` |
| `OnSync`, then `RevertToDisk` or `Unreadable` | `on_sync` with `revert_file_to_disk`, which evicts before it reads the disk |
| `Peek`, `ReadBase`, `ReparseStore` | the three accesses of `parsed_document`, each under the lock, other threads in between |
| `Unwind` | a cancellation or a panic before the store |

A tree is told apart by the text it is the tree of; an edit is a partial map between
texts (`Apply`). Which splices a reparse tier accepts depends on the whole grammar, so
`Parses` may always decline. The request channel and the queue are one (`queued`): a
request delayed in the channel behaves like a `didChange` that comes later. A salsa
write is one step that ends every read. `evict_over_budget` compares with the nth
stamp of a sorted slice; stamps are unique, so this is restated as "at least n are
older" (`Above`). Entries touched by an unknown transform hold no base and stay outside
the budget, as in the code; `BasesBounded` therefore counts bases. `chain` and `intact`
are history variables, read by properties only: they say whether the staged chain is
known to describe the way from the base to the tracked text.

### `ReadRequests`

| Action | Code |
|---|---|
| `HandleClient` (`OnDocument`, `OnRequest`, `OnCancel`) | the client's messages in `main_loop` |
| `Poll` | `try_recv` finds the channel empty: only then does `select!` look at the replies |
| `HandleOutbound` | `on_read_reply` and its version gate |
| `ReadArm`, `Upsert`, `OnSync`, `Harvest` | the arms of the analysis thread that start reads or write |
| `Commit` | the write, once the last snapshot is dropped |
| `Finish`, `Panic`, `Unwind` | `run_read` and the handlers behind it |

A job carries the buffer's text of when it was dispatched; its snapshot is the
database of when the read arm took it. Here a write is two steps, raising the flag
and writing, because what a cancelled job does next is the point: it may have its
answer already (`Warm`), or it falls back to parsing the text it carries (`Cold`), and
`compute_definition`'s fallback asks the cancelled snapshot again (`Unwind`). A result
is the text it was computed at, for each document it speaks of (`sites`), so that a
stale result is one whose `sites` differ from a buffer. `doomed` and `lost` are
history. The analysis thread's scheduling is `AnalysisPipeline`'s: here a queued text
is written at any time, with or without superseding.

The kinds stand for groups of handlers: `rename` in a package for those that gather
sites across files, `rename` outside one for the handlers of a single document,
`definition` for the one whose fallback reads the snapshot's queries, `workspace` for
requests without a document, which no gate refuses.

### `ScriptProjects`

| Action | Code |
|---|---|
| `SetDocument`, `DidClose`, `DidChangeWatchedFiles`, `DidChangeConfiguration` | the main loop's handlers, up to the channels |
| `OnDiagnostics`, `OnProjectDiagnostics`, `OnDiagnosticsRefresh` | `on_outbound` with `publish_merged` and its version gates |
| `LoaderTakesNewest`, `LoaderReads`, `LoaderPanics` | the loader thread, file by file, from buffers or disk |
| `AnalysisArm`, `SyncArm`, `Receive`, `ReadyArm`, `LibraryArm`, `DoneArm` | the arms of the analysis thread: registration, `on_scripts_loaded`, the parked install, graph publishing |
| `JobFinish`, `JobPanic` | analysis jobs, which carry the world they were dispatched in |

A text is what it includes and what it defines (`IncludesOf`, `DefinesOf`). Arms that
take several messages (`analysis_rx` drained after one, `sync_rx` likewise) are a first
step and further ones (`arm`), so that the loader may act in between. Findings carry the
text their span indexes, so a stale span can be told. A watched file that was created or
deleted drops the configuration cache as well, and the main loop sends the open buffers
again before the sync (`reshapes`); a file that another one replaced is reported so, too,
which is why the event's type is free. Four histories say what the code
gives up on, and `...WhenQuiet` leaves exactly that out: an analysis cancelled and not
queued again (`orphaned`), a close crossed by a reopening (`crossed`), a change of a file
nobody had registered yet (`missed`), a panic (`panicked`).

### `WorkspaceHarvester`

| Action | Code |
|---|---|
| `DidOpen`, `DidChange`, `DidClose`, `DidSave`, `DidSaveSource`, `RenameEntry`, `DidChangeWatchedFiles` | the main loop's handlers of environment and source files, up to the signals |
| `TakeFindings`, `Relint` | `Outbound::EnvironmentDiagnostics` and the refresh |
| `OnSyncMessage`, `OnLibraryMessage` | the arms of the analysis thread: project text, renames, a library or a package |
| `Locate` ... `SendLibrary` | one resolve, folder by folder and package by package, the disk changing in between |
| `Resolve`, `TakeSource`, `Reharvest` | the signals, an environment one draining the rest |

A package is a directory with a project file, a manifest and sources; registered
packages and Julia's own come from `IndexCache`'s side and are left out, as are progress
reports. One package's files are read in one step: a file that changes meanwhile is
signalled. The harvester's findings are the sets of codes it publishes per file.

### Pure components

`TextEdits`, `LintFixes`, `ControlFlow` and `IncludeGraph` are algorithms: the first
state chooses an input, the steps run the code, and the properties compare with a
definition that does not follow it (an execution of the statements; the client's own
reading of its buffer; applying all fixes at once; another of the three walks).
`ServerConfig` and `IndexCache` are small protocols: a client and a server with a channel
each way; processes that read, write and rename entries and may be killed in between.

### `ExprParser`, `FormatRules`, `Layout`, `Formatter`

`FormatNode` is the whole path of `format_node`: `Program` parses a sequence of tokens
into a lossless tree (`parse_expr_in` and what it calls, one rule of `Parse` for each
function that loops or recurses), `Lower` turns the tree into a document of groups,
indents and breaks (`rules.rs`, one operator for each rule), and `PrintFrom` prints it
(`print_at` with `fits_stack`). The state machine around it has two steps: someone breaks
a document inside every bracket, after every comma and around every block (`SpreadOut`),
and the document is formatted at one of the widths (`FormatDocument`).

A token is one of a few names, a number and the operators that stand for their class: one
for each binding power and each treatment by a rule. White space is one token per run,
`ws` or `nl`, since no rule counts it. What a layout may change is erased by `Shape`, as
`verify.rs` erases it. A parse that records a diagnostic is `Invalid`: the formatter
refuses such input. `module_should_indent` looks at a module's parents; a tree of the
model has none, so `Flushed` marks the modules it would keep flush before they are
lowered.

## Runs

| Run | Instance | Shows |
|---|---|---|
| `pipeline` | two loose documents, three edits, one configuration change, one closable document; beside it two files of one package, a close, a rewrite on disk, a panic | type correctness, `SingleFlight`, `NoLostWakeup`, `FreshWhenQuiet`, `DrainEnqueuesInOrder`, `SlotNeverLeaks`, `ClosedTracksDisk`, and that every step is one of the abstract service |
| `liveness` | two files of one package, an index update, no close, no panic (`OpenNext`, the steps that are left) | every buffer left alone gets its diagnostics (`ImplementsFairService`), and all settle on the current world (`EventuallyFresh`) |
| `reparse` | one member file with edits that fit, do not fit and exceed the budget, and a close; beside it two files and a budget of one base | type and chain budget (`TypeOK`), `ParsesAreExact`, `ChainReachesText`, `BasesBounded`, `EvictsColdThenOldest` |
| `reads` | one member file with two versions and a close, a definition the client may cancel, a workspace request whose job may panic, one harvest | `TypeOK`, `CancelBeatsReply`, `ReadsAreCarried`, the abstract service, and `EventuallyAnswered` |
| `scripts` | a main file that may include a part, with budgets of edits, closes, configuration changes, rewrites, harvests and panics | `LoadIsOnItsWay`, `SpansFitBuffer`, `ProgramsCurrentWhenQuiet`, `FindingsCurrentWhenQuiet`, `NothingLintedWhilePending`, `EventuallyInstalled` |
| `harvester` | two workspace folders, one inside the other's sources, a package in each, with budgets of edits, saves, writes and renames | `LibraryCurrentWhenQuiet`, `LastIsWhatTheDatabaseWillHold`, `FindingsCurrentWhenQuiet`, `ProjectTextTracked`, `LintedWithCurrentPremises`, `EventuallyServed` |
| `components` | each component that shares no state with the others, alone | `TextsAgree`, `FixesAreSafe`, `UnreachableIsDead`, `WalksAreConsistent`, `ConfigCurrentWhenQuiet`, `HitsAreForTheRightContent` |
| `format` | 3276 programs: every construct and block form in every context, at a width that breaks nearly everything and one that fits the smaller constructs | `SameProgram`, `WidthAloneDecides` |
| `definition`, `reopen`, `patch`, `includes` | see below | one statement of the repository each, refuted |

Bounds. Two documents are what supersession across documents needs: one in the
slot, one waiting. Three edits give the shortest history in which a superseded
analysis has a successor whose own `done` races the late one, and a second
document waits. Job ids bound the analyses whose `done` is not yet read: three are two
superseded ones and one running. One configuration change and one index update are
enough for a re-analysis at an unchanged version. The runs of the threads use no
symmetry: the closable and rewritable documents differ from the others.

In `reparse`, eight accesses to the cache (`MaxClock`) are two full parses with a
cancelled one between them and every staging they need; a chain of two edits is the
shortest that can be drained in part. A budget of one base with two files is the
smallest that must choose, between hot and cold and between old and new. In `reads`
two versions are what the gate tells apart, a close and a reopening included; one
definition and one workspace request are a gated read and an ungated one, in flight
together, and a write that waits for both.

In `scripts` and `harvester` a first state picks a budget (`Budgets`): how many events of
each kind come from outside. The sets hold every pair of kinds that act on the same
state; two edits with a close, or an edit with two configuration changes, are what it
takes for a load to be superseded, parked and superseded again. Two folders where one's
`src` contains the other make a source file belong to one package, to the other, or to
none, as project files come and go.

In `components`: two changes of up to three places in texts of up to six characters, which
hold one-, two- and four-byte characters and both line ends; files of three statement
lines or an `if` with an `else`, and every triple of overlapping fixes; regions of one
compound statement with every head and tail of jumps and labels around it; packages of
three files with up to two includes each; two nested directories and one extended file
with two edits and a push; two processes, two builds and two harvests. The components
share no state: `MCComponents` chooses one in its first state only to run them together,
and `MCFirstStart` names the first process and build by hand, which is the symmetry they
have.

In `format` the reachable documents are finite without a bound: the run follows every
order of spreading and formatting at both widths to its end. Two widths are what a
dependence on an earlier pass needs. Ninety-odd constructs and block forms in thirty-six
contexts hold each rule below, above and beside each other one; the long name makes a construct break
where the context alone would fit. `MCSources` leaves out the programs the next section
names (`KnownMisread`), and the second property those with a number negated from a
distance (`Negated`).

Deadlock is not checked: the client may stop, and the bounds stop it.

Fairness. `select!` picks at random among the ready channels, so an arm that stays
ready is taken (`WF` of each arm); the main loop drains its results; the pool runs
the jobs it is given. Nothing is assumed of the client, of other programs, of the
harvester or of panics. Weak fairness is enough in `AnalysisPipeline`: no arm is disabled
by another thread's step once its channel is not empty, except by the bound on job ids.
In `ReadRequests` the main loop serves the client before the replies, so a client that
never paused would keep every reply waiting: `EventuallyAnswered` relies on the client
pausing, which its bounded messages make it do. In `ScriptProjects` one arm is taken in
several steps, and the others are disabled between them: what `select!` gives is strong
fairness of each arm, written out with its guard (`SelectsFairly`). In
`WorkspaceHarvester` the client that watches files reports each change some day, which
is what registering the watcher asks of it.

### Where the code and its documentation part

Four runs refute one statement each:

- `definition`: the pool's comment says that `Cancelled` never reaches it. The fallback
  of a cancelled go to definition asks the same snapshot for the file's package, a
  query, outside the catch: it unwinds again, past the reply. The request is never
  answered. The other fallbacks that are given a snapshot read inputs only, which
  do not unwind.
- `reopen`: a close's sync and the reopened buffer's request use different
  channels. If the sync is taken last it drops the new request and reverts the open
  buffer.
- `patch`: a system package's cache key is said to change with every Julia upgrade. It
  is the `X.Y` of the stdlib directory, so an upgrade of the patch number hits the old
  entries.
- `includes`: the server is said to derive the command line's include problems. The
  harvester follows no include inside an `if`, a `begin` or a function, its file is not
  seeded, and the server reports it as missing.

The models state more that the code does not keep. Each is a definition beside the
properties it belongs to; naming it in the `.cfg` of its module's run shows the
counterexample:

- `AnalysisPipeline!BystandersStayFresh`: the module's doc says an analysis is cancelled
  only for a newer edit of the same document. Reverting a closed file is a salsa write and
  cancels any analysis, and nothing queues the victim again. `FreshWhenQuiet` says exactly
  how much is lost: only documents in `orphaned`.
- `AnalysisPipeline!ImplementsService` with `VersionsRestart = TRUE`: the version gate
  cannot tell two buffers of one document apart when the client starts numbering again
  at 1.
- `ReadRequests!RenamesCoverMembers`: a workspace symbol is said to be renamed across
  every member file. When the database lags the buffer, or a write cancels the job, the
  fallback renames in the requesting file alone, and the client gets that as the whole
  answer.
- `ReadRequests!ResultsFitEveryBuffer`: the gate is said to keep stale results from being
  applied. It compares the version of the requesting document only, while a cross-file
  rename carries positions of every member's tracked text.
- `ScriptProjects!DependentsRefreshed`: `update` says that edits which keep global
  definitions and reads equal need not refresh other documents; a script load that changes
  the program (`script_projects.rs:233`) refreshes only when the entries' own programs
  differ, and a document may keep findings linted against the former program.
- `ScriptProjects!CyclesStayShown`: a package's include cycle vanishes from a file that
  also belongs to a script program, since the merge keeps only the script's set there.
- `WorkspaceHarvester!EntryRenamesResolve`: `on_did_rename_files` promises a full resolve
  after an entry file is renamed; it comes only with the watcher's help.
- `LintFixes!HidesOnlyWhatFollows`: a directive is documented to attach to the next
  sibling; as the last comment of an `else`, `elseif`, `catch` or `finally` block it hides
  findings of the block it ends. `OutdatedMeansIdle` fails where a directive hides findings
  of the meta rules only, which a test pins.
- `ControlFlow!OpaqueIsConservative`, `TryElseIsConservative`, `LabelsAreEntryPoints`: a
  jump inside an operand, inside the `else` of a `try`, or a label inside dead code that
  something jumps to makes live code look unreachable. `UnreachableIsDead` excludes
  exactly these.
- `ServerConfig!FallbackEndsWithTheFix`: a configuration that extends a file which is
  missing or broken at the first load falls back to the client's settings, and the
  extended file is never watched: fixing it changes nothing.

- `Formatter!SameProgram` with `Sources <- MCMisread`: `lower_unary` says that a number
  after a sign is parenthesized, because next to the sign it would be read as a signed
  literal. The code looks at an operand that is a literal only, so `- 1::T` becomes
  `-1::T` and `- 1(a)` becomes `-(1)(a)`, where the sign has come to apply to less than
  it did; `a : ::b` becomes `a:::b`, which does not parse; and a `where {}` fails the
  rule's `expect`. Only safe formatting, which calls `verify`, notices the first three.
- `Formatter!WidthAloneDecides` without `Negated`: formatting is said to be idempotent
  (`core.rs`, the guide's comparison page). `- 1` becomes `-(1)`, fixed text in the first
  pass and parentheses that may break in the second.

One more divergence needs no model: the comment in `start` says a cancelled analysis
publishes nothing, but the lint step catches the cancellation first and the job
publishes its cold findings (`CaughtIn` models it).

## Proofs

All theorems hold for every value of the constants (documents, files, texts, edits,
package, bounds): their assumptions are the `ASSUME`s of the module they are about.

Of `AnalysisPipeline`:

- `TypeCorrect`: `Spec => []TypeOK`, by the inductive `TypeInv`. It adds to
  `TypeOK` what bounds the versions: a document's version is at most its
  `lastVersion`, which is at most `edits`; without it `documents[d].version + 1`
  could leave the type. Each helper of the arms has a lemma that it preserves the
  type of the worker record.
- `BatchesKeepTheOrder`: `Spec => []DrainEnqueuesInOrder`. `DrainIsFold` proves it of any
  well-typed worker and any batch. Its step is `CoalesceOne`: one more request at the
  end of a batch changes what `Coalesce` gives as `enqueue` would, whether it is newer
  than, as new as or older than the newest before it and the one already pending.
- `NoWakeupIsLost`: `Spec => []NoLostWakeup`. Inductive by itself over `TypeInv`:
  the lemma on `TryDispatch` says it establishes the property from any record, and
  every arm that queues or frees ends there.
- `ShowsCurrentText`: `~VersionsRestart => (Spec => ImplementsService)`. The
  inductive `AgreeInv` says that whatever carries a version (a queued request, a
  pending one, a job, a report) carries no version above its document's
  `lastVersion`, and the text of the open buffer when the versions are equal.
  Without the second half the gate would accept a report of another text; the
  first is what makes a fresh version fresh. Without the hypothesis the theorem is
  false, as the previous section says.
- `OneAnalysisAtATime`: `~VersionsRestart => (Spec => []SingleFlight)`. The
  inductive `FlightInv` adds to `SingleFlight` that no analysis whose `done` is
  still on its way has the in-flight version of its document unless it is the one
  in the slot, and that nothing queued is older than what runs. That is why the
  comparison of `on_done` is enough to refuse a late `done`. It rests on
  `NoLostWakeup` and `AgreeInv`.

- `SlotIsAlwaysFreed`: `Spec => []SlotNeverLeaks`. Inductive by itself: a superseded
  analysis loses the slot only to a start that fills it with a job of its own, and a
  cancellation turns a running job into a `done`, never into nothing.
- `ClosedFileIsReverted`: `Spec => []ClosedTracksDisk`. `ClosedInv` extends it to the
  states that are not at rest: when no sync of a closed document is on its way, no
  request for it is in `analysis_rx`, none is pending, and the database holds its disk
  text (unless the file has changed since). The first two parts are needed because an
  analysis queued before the close would write the discarded buffer back.
- `FindingsAreFresh`: `~VersionsRestart => (Spec => []FreshWhenQuiet)`. `FreshInv` says,
  for each open document, that good findings are on their way (`Covered`): the document is
  asked for in `analysis_rx`, pending, or analysed under its buffer and rules, or a
  refresh is in `out_rx`, or the last report the version gate will accept is good, or
  none is left and what is shown is good. Three more parts make that inductive: the
  last request on its way for a document is about its buffer and its rules
  (`LastWins`), since `enqueue` keeps the rules of the last; what is pending or running
  at the buffer's version has the current rules unless a later request is on its way
  (`QueueWanted`, `JobsWanted`), since the report of a job that did not would be
  accepted; and every running job reads the current library (`LibraryRead`), since a
  library message cancels them all. It rests on `FlightInv` (a superseding write can
  only cancel the analysis of the document it restarts), on `AgreeInv` (a report at the
  buffer's version has its text) and, at rest, on `NoLostWakeup` and `SlotNeverLeaks`.
  What the write of another file's revert cancels is orphaned, and excluded.

TLC confirmed `ClosedInv` and `FreshInv` on the instance of `MCAnalysisPipelineSafety`
before they were proved.

Of `ReadRequests`:

- `ReadRequestsProofs!TypeCorrect` and `ReadsCarried`: `Spec => []TypeOK` and
  `Spec => []ReadsAreCarried`, by one invariant, `LifeInv`. An id is unread in the inbox
  or has been dispatched, never both (`AskedOnce`, `FreshInv`), has at most one carrier
  among the read channel, the pool and `out_rx` (`OneCarrier`), and while its entry is in
  `inflight_reads` it has no response and a carrier, unless its job unwound (`OpenInv`).
  That a response sequence never has two elements, a part of `TypeOK`, needs all of it.
- `CancelWins`: `Spec => []CancelBeatsReply`. `DoomedInv` adds that while a doomed
  request is in flight its cancel is still in the inbox and the main loop is not in
  `select!`, so no reply is looked at before it.
- `AnswersFit`: `Spec => ImplementsService`. `SnapshotInv` says that a version names one
  text (`VersionsInv`: the edits of a document in the inbox have increasing versions, all
  above the open buffer's and none above the client's), that an entry remembers the
  document it was asked about and a version no later edit repeats (`AboutAsked`), and
  that a job or a reply whose entry has the open buffer's version carries its text
  (`TextInv`), whatever the database has moved to meanwhile.

Of `ScriptProjects`, by one inductive invariant, `IndInv`, whose parts `Good`,
`LoaderInv` and `TextsInv` lean on each other. The analysis thread's helpers work on a
record, so each has a lemma that it keeps a record `Good`, and an arm is the
composition of its helpers' lemmas:

- `ScriptProjectsProofs!TypeCorrect`: `Spec => []TypeOK`.
- `LoadsArrive`: `Spec => []LoadIsOnItsWay`. The four places of the property are kept as
  they are, over the record and the results still in `ready` (`OnItsWay`); a reload
  always establishes the first. What makes it inductive is `LoadsOK`: no job in transit
  has a generation above the last one asked for, and one of that generation has its
  entry points, so an installation of the current generation leaves no sources only if
  there are no entry points, and a registration that finds neither may skip the reload.
  For that a finished load must have read its own entry points (`ReadsEntries`), which
  is what `LoaderInv` says of one still being read. The second half of the property,
  that the database says "pending" only while a load is awaited, rests on the same
  facts: every path that sets it goes on to reload.
- `SpansFit`: `Spec => []SpansFitBuffer`. `Agrees(f, v, t)` says that version v of f is
  not newer than the client's last and, if it is the open buffer's, that the buffer's
  text is t; once true it stays true, since a version names one text. Queued requests,
  registered buffers, the buffers of loads in transit, installed findings, findings in
  `out_rx` and accepted ones all agree with the version they carry, and a finding of
  the package, which carries none, has no span in a buffer. A result passes from one
  carrier to the next with its version, so each step has only to hand the fact on.

The invariant excludes nothing: panics, late syncs that unregister an open file
(`crossed`) and changes that no reload follows (`missed`) are among its behaviours; a
panic only frees `LoadIsOnItsWay` of its promise. TLC confirmed the invariant on the
instance of `MCScriptProjects` before it was proved.

On top of it, in `ScriptProjectsFreshness`:

- `ProgramsCurrent`: `Spec => []ProgramsCurrentWhenQuiet`. `CurrentInv` says of every
  state who has yet to hear of what is not current. *Registrations* (`Registers`): an open
  buffer is registered once its last request is received, and that request carries its
  version, text and entry points, unless a late sync unregisters it (`crossed`); a closed
  file is not, once its sync is handled; requests of a file arrive in the order of their
  versions (`InOrder`), or an older buffer could replace a newer one. *Loads*
  (`NewestOnce`): of all the loads queued, being read, ready or parked at most one is of
  the newest generation, none after it is installed, and it was asked for what is
  registered now: so an installation of that generation installs what is current and no
  second one follows. *Contents* (`LoadsFresh`, `InstallsFresh`): what that load has read
  of a file, and what is installed while no load is awaited, is the buffer's text or what
  the disk holds, unless the change is unreported (`changedOnDisk`), a sync for the file
  is on its way (the argument `syncs`: queued or being handled by the arm) or the change
  was `missed`. *Closure* (`LoadsRead`): a load reads the includes of what it read, so what
  is installed contains the entry points and is closed under includes; hence no file of the
  closure is left out, which is all the proof needs of `Closure`. *Slot* (`Held`, `Parks`): only an
  occupied slot parks a load and only a job in the pool or a panic occupies the slot, so
  at rest nothing is parked.

`Tracks` is the part of that invariant about the worker's record; it takes the results
still to be read, the requests and the syncs as arguments, so that an arm, which takes
one of them first, is again a composition of its helpers' lemmas.

- `NothingPending`: `Spec => []NothingLintedWhilePending`. The property speaks of the last
  report a document received, so `ToldInv` says of every state where its next report will
  come from. *Slot* (`Slots`): the in-flight slot is of one job; every other job in the
  pool is over, and its version is behind (`Behind`) the file's last version, its queued
  analysis and its requests. Without that a superseded analysis could still report.
  *Documents* (`Latest`): an open document whose newest analysis was not thrown away
  (`orphaned`) is requested or queued (`AnalyzedSoon`), or the running job is of its version
  and informed, or no job of it runs and its last report, in `out_rx` or displayed, is
  informed (`Told`). *Informed* means: linted against installed programs, or
  while they were pending and either a refresh is sent or the database still holds the
  "pending" that the installation will refresh (`Announces`). An installation thus passes
  the duty from the database to the refresh, and the refresh passes it to the requests of
  the open documents. *Queue* (`Busy`): between arms, a queued analysis waits for an
  occupied slot; so at rest, where `AtRest` shows the slot free, nothing is queued.
- `ScriptFindingsCurrent`: `Spec => []FindingsCurrentWhenQuiet`, from `ReportInv`, which
  follows the findings of a load to the screen. *Loads* (`LoadsReach`, `ParkedReaches`): a
  load reads nothing but what its entry points reach through the texts it read, so that
  with the closure of `CurrentInv` what it read is exactly `Closure`, and no file that
  was left behind keeps a finding. *Installation* (`Found`): while no load is awaited, the
  findings are the failed includes of the installed files, with the versions of the
  buffers registered; a registration or a sync that changes either asks for a load.
  *Display* (`Shows`): the last message in `out_rx` about a file tells its installed
  findings and their version; if none is on its way they are displayed, unless they are
  of another version than the open buffer, or a sync of the file or a reload is still to
  come (`Outdated`), in which case a later installation publishes them again. What has
  none is told so once, in a message of the package that no gate refuses, or shows none
  already (`ShowsNothing`). A file of an include cycle is the exception: the
  message that clears its script findings carries the cycle too, and with it a buffer's
  version. A client that has typed on since refuses it, and a load that finds nothing new
  sends it no second time. The attempt to prove the property without the exception
  (`Cyclic`) is what found this. At rest nothing is `Outdated`, by `AtRest`.

Of `ReparseCache`:

- `ReparseCacheProofs!TypeCorrect` and `CacheIsTransparent`: `Spec => []TypeOK` and
  `Spec => []ParsesAreExact`. The inductive `ExactInv` is the type invariant together
  with two facts that only hold jointly: the tree of every cached base, and of every
  base a read has already fetched, is the tree of that base's own text. A parse may
  replay a chain only if it leads from the base's text to the tracked text, so what it
  replays on the base's tree leads to the tracked text's tree. No induction over the
  chain is needed: the comparison is with the composed text.
- `EvictionIsFair`: `Spec => EvictsColdThenOldest`, for any budget. The invariant
  `Stamped` says that no stamp is ahead of the clock, so the entry just touched is the
  newest; an entry dropped for having fewer than n older ones is older than one kept.
  `CacheStep` lists what a step may do to the cache, so that only the steps that may
  evict are looked at.
- `BasesStayBounded`: `Spec => []BasesBounded`. Besides `Stamped` it needs that no two
  entries were used at the same time (`DistinctStamps`): then the number of older entries
  tells an entry from the rest, and an eviction that drops the oldest drops exactly as
  many as it has to.
- `ChainsReach`: `Spec => []ChainReachesText`. `ReachInv` has three parts. `QueueReaches`:
  the edits of a queued transform lead from the tracked text to the queued one, unless
  buffer and queue are known to have parted. `ReadReaches`: what was staged since a read
  peeked at the chain leads from the tracked text back to it, or something doubtful was
  staged and the chain is not exact. `BaseReaches` is the property. Coalescing two
  transforms and draining a prefix are facts about folds: applying a chain is applying
  its parts in turn (`ApplyBoth`).

Of `WorkspaceHarvester`, all four over `Types`, which says besides the types that a
registered project file is tracked, that the harvester has a folder left where it reads
one, and that it reharvests only a package it listed:

- `LintsAreCurrent`: `Spec => []LintedWithCurrentPremises`. A project file whose
  declared dependencies a message changes is one that some name claims, so comparing the
  declared dependencies of every project file before and after misses none; a library
  message always refreshes.
- `LastIsHeld`: `Spec => []LastIsWhatTheDatabaseWillHold`. The property is inductive:
  installing the first message on its way does not change what is held once all are
  (`InstalledNext`, from `FoldBoth`), and an index is remembered in the step that sends
  it, or that finds it equal to the one remembered.
- `TrackedTextsFollow`: `ChangesAreReported => (Spec => []ProjectTextTracked)`.
  `TrackInv` says it of the states that are not at rest. For an open file the last
  message that can change the text sets the buffer's, and none undoes it, or the text is
  tracked already and no message touches it; for a closed one the change is yet to be
  reported, or a revert is the last word on it, or the text is the disk's. The messages
  about other files are the frame (`FollowsFrame`). The hypothesis is that nothing but
  the editor's own saves changes a project file unless the client watches files. It is
  needed: with a client that does not, an entry renamed and renamed back before the
  first rename is resolved leaves the database with the first rename's text of the
  project file, since only the files of packages whose registered name has its entry at
  the renamed path are read again. The run spends one rename at most.
- `LibraryIsCurrent`: `WritesAreReported /\ FilesUnderSrc => (Spec =>
  []LibraryCurrentWhenQuiet)`, from `LibraryInv`, which says at every place of the
  harvester's loop what its locals are worth. A pass that nothing disturbed
  (`Settled`: no environment signal on its way, no entry file come or gone since the
  last resolve) is at each folder where the walk that `FreshEnvs` makes at once would be
  (`WalksAt`, by induction over the folders), so it ends with the same environments and
  packages (`FreshPass`). Disturbed or not, an index harvested or held is that of the
  files as they are, or one of the package's files has a signal on its way or a change
  unreported (`Changing`), or the package is being harvested anew (`ServedBy`). `Hears`
  is what a step that changes files owes to the signals; `HarvestServes` is the step
  from the harvest to the library sent, `OwnsItsFiles` the one from a file's signal to
  its package. `WritesAreReported` is `ChangesAreReported` without the renames, which
  the editor signals itself. `FilesUnderSrc` says that every file of a package is in
  its project's `src` and in no nested project's: a signal is answered for the deepest
  project only, so an outer package that includes a nested one's file is not harvested
  again when that changes. TLC checks that the run's instance satisfies both. Writing the proof showed
  that the property, as it was first stated, fails when two folders hold a package of
  the same name: the harvester lists the packages it answers for, then the harvest asks
  once more, and an entry file that comes or goes between lets the other folder's
  package take the name. The library then has that one's, while signals are answered
  for the first until the next resolve. `NameTaken` leaves that case out of the part of
  the property that holds without a resolve.
- `FindingsAreCurrent`: `WritesAreReported => (Spec => []FindingsCurrentWhenQuiet)`, from
  `FindInv`, which follows a finding from the pass to the screen. Within a pass nothing
  disturbed, the findings gathered so far of each file are those the first folders give
  (`FindsAt`): the syntax finding of a file at fault, which no other kind joins
  (`FaultExcludes`), or the semantic ones of the environments read; after the last folder
  they are what a resolve finds (`FindingsPass`, on the walk of `LibraryInv`, `PassInv`).
  On the way, the messages about a file leave the main loop, one after the other, with a
  sequence of findings (`Hearing`): the last is empty exactly when the harvester counts
  the file as clean, is the fresh one if the pass that sent it is undisturbed, and no
  message clears what is clear already (`ToldInv`). On the screen a buffer that does not
  parse comes before the harvester's findings (`ShownInv`). No hypothesis on what a
  package includes is needed, since findings are read off the environment files and off
  which sources exist. That the constants tell an unparseable text, and no findings, from
  every other value is assumed of them (`ContentsAssumption`, `FilesAssumption`).

Of `IndexCache`:

- `ComponentsProofs!HitsAreExact`: `MinorTellsInstall => (CacheSpec =>
  []HitsAreForTheRightContent)`, and `HitsAreRight`, without the hypothesis, that an
  index is exact for registered and development packages and has the right minor
  version for Julia's own. `PathTellsContent` says of every entry that what it holds is
  what its path names: the tree for a registered package, only the minor version for a
  system package. `HarvestOK` says that a process at work on a package has an
  environment, stores what it harvested and ends with what it wanted. The hypothesis is
  needed: without it `patch` shows a process served another installation's index.

Of `ServerConfig`:

- `ComponentsProofs!ConfigIsCurrent`: `ConfigSpec => []ConfigCurrentWhenQuiet`, from
  `ConfigInv`, which extends the property to the states that are not at rest. A change
  the server has not been told of, on its way (`to_server`) or unreported, excuses a
  stale entry of the cache (`CacheIsCurrent`); a document that a client has to pull, or
  a refresh that will make it, excuses stale findings (`ShownIsCurrent`). `UntoldKeeps`
  covers the steps that make news, `ChangedEffect` the one that takes it: a cleared
  cache, every open document resolved again, a refresh sent. What a configuration
  resolves to plays no part, so the proof holds whatever files extend, and for chains
  that do not end as well. The one assumption is that there are finitely many files.

Of `LintFixes`:

- `ComponentsProofs!FixingIsSafe`: `LintSpec => []FixesAreSafe`, from `FixInv`. Three parts.
  *Applying*: a finite set in a strict order has ranks (`ListedInOrder`), so `SortedFixes`
  and `Applicable` are what they say; accepting is a fold whose result is disjoint, with
  every skipped fix overlapping an accepted one (`Accepted`); replacing from the right
  leaves what is to the left untouched, so it equals the concatenation of the gaps and
  the contents (`OneByOneIsAtOnce`). *Tree*: each fix of a run replaces a token by one of
  its kind or deletes a comment, with its line break only from a line of its own
  (`Harmless`); so the code stays on its lines, and the tokens after a pass come in order
  from those before, with at most trivia gone (`Tracks`, `PassKeeps`). Under such a map
  counts of brackets, the `end` of an `if`, the innermost block and the next sibling
  correspond (`CountTracks`, `CloserTracks`, `OpenerTracks`, `SiblingsTrack`), so a
  directive is for the same statements (`IsForTracks`). *Suppression*: neither a
  statement whose finding is suppressed nor a directive that suppresses it has a fix
  (`HushedIsLeft`): a misnamed directive and an outdated one match nothing that runs.
  `FileKept` collects these from the file on disk to the current text, and is inductive
  because such maps compose. Assumed of the constants are that the files parse
  (`FilesAssumption`: a file with parse errors is reported and no rule sees it,
  `check.rs`), that the fixes offered lie within their text (`FixesAssumption`) and that
  the rules about directives are not rules about code. The bound on passes plays no part.

Folds by induction. The library's induction theorems take an operator, which the
provers cannot instantiate; `FoldInduction` proves induction over the naturals stated of
a set (`NatInductionOnSets`) from the minimum of a well-founded set, and from it that
`FoldLeft` follows the values its prefixes give (`FoldFollows`), for an operator that is
the module's constant. A module instantiates it with its own.

Only model-checked:

- the property of `TextEdits`: not out of reach, it is not proved;
- the properties of `ControlFlow`, `IncludeGraph`, the parser and the formatter, which
  compare what recursive operators compute, and the provers cannot follow those;
- the liveness properties: fairness is outside the prover's reach.

## Not modelled

Within the modelled components:

- *Harvester*: registered packages and the depot, the default environment and
  `JULIA_PROJECT`, progress reports, a panic of the thread. An entry file that is created
  or deleted is signalled as a source only, so no resolve follows: `unresolved` excludes
  it. After a full harvest the first signal of a package sends its index again even if
  it is unchanged.
- *Watched files*: the open buffers that go out again for a file created or deleted are a
  part of the action in `ScriptProjects`. `AnalysisPipeline` has them as a
  `DidChangeConfiguration` that may come at any time. `WorkspaceHarvester` lints again only
  after a refresh, so its findings have one chance less to become current.
- *Text*: a lone carriage return ends a line for the client and not for the server; the
  history `lone` excludes it from `BuffersAgree`.
- *Include graph*: a second or nested `module` of the package's own name is excluded by
  `WellFormed`; the walks place its files differently.
- *Configuration*: entry-point globs, the environment variable and the user's global file,
  symbolic links, a repository created under an open document, `fatou.toml` outside the
  workspace.
- *Index cache*: a depot directory that is only partly unpacked when it is harvested is
  stored for good; the sources of a key are taken as whole here.
- *Pipeline and requests*: pull diagnostics, project-update jobs.
- *Parser and formatter*: strings, macro calls, quoted symbols, matrices, type declarations,
  imports and exports, struct fields that are `const` without a value, `begin` inside a
  square bracket, operators used as values, error recovery and
  the lexer; the layout of a bracket with a comment directly inside, of literals' digits,
  of trailing comments in columns, and range formatting. Lists of such shapes are kept
  verbatim in the model, and `SpreadOut` leaves them alone.

The lint rules' patterns, name resolution and the language features
are functions of a snapshot; their state is the database's. `PROJECT.json` gives each
component's status and reason.

## Plan

1. A proof for the texts of `TextEdits`.
2. Candidates: strings and macro calls in the parser and the formatter, the scopes of the semantic model, file renames, pull
   diagnostics.
