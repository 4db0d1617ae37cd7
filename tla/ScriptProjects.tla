---------------------------- MODULE ScriptProjects ----------------------------
(***************************************************************************)
(* Script programs: entry points the configuration names, each with the    *)
(* files it includes.  Four actors keep them current.  The main loop       *)
(* (lsp/state.rs) forwards buffers; the analysis thread registers them in  *)
(* ScriptProjects (lsp/script_projects.rs) and asks for a load; the loader *)
(* thread reads the include closure from buffers and disk; the analysis    *)
(* thread installs the result, unless a newer load was asked for, and only *)
(* while no analysis runs: a result that arrives sooner is parked.         *)
(*                                                                         *)
(* The include-graph findings of an installation travel back to the main   *)
(* loop, which shows them with the buffer version they were computed from. *)
(* Files are single-file URIs; a text is what it includes and what it      *)
(* defines.  The order in which a map is iterated is fixed: messages about *)
(* different files do not interact.                                        *)
(***************************************************************************)
EXTENDS Naturals, Sequences, FiniteSets, SequencesExt

CONSTANTS
    Files,           \* Julia files
    Texts,           \* contents of buffers and files
    Unreadable,      \* the content of a file that is missing or unreadable
    IncludesOf,      \* the files a text includes
    DefinesOf,       \* a text's globals: definitions, reads and includes
    InitialDisk,     \* what the files hold at start
    EntryPoints,     \* the entry points the configuration may name
    NoEntries,       \* the configuration at start
    Buffers,         \* what the client types into each file
    Rewritable,      \* files other programs write
    Written,         \* what they leave there
    Harvests,        \* findings a harvest may report for the package's files
    Budgets,         \* bound: how often what comes from outside may happen
    Package,         \* GraphSource::Package; a script's is a buffer version
    None

ASSUME FilesAssumption == IsFiniteSet(Files)
ASSUME TextsAssumption ==
    /\ Unreadable \notin Texts
    /\ IncludesOf \in [Texts -> SUBSET Files]
    /\ DOMAIN DefinesOf = Texts
    /\ InitialDisk \in [Files -> Texts \cup {Unreadable}]
    /\ Buffers \in [Files -> SUBSET Texts]
    /\ Written \subseteq Texts \cup {Unreadable}
ASSUME EntriesAssumption ==
    /\ EntryPoints \subseteq SUBSET Files
    /\ NoEntries \in EntryPoints

(* What a behaviour may spend: didOpen and didChange notifications (edits), *)
(* didClose ones, configuration changes, writes by other programs, harvests *)
(* and panics.                                                             *)
Budget == [edits : Nat, closes : Nat, configs : Nat, rewrites : Nat,
           harvests : Nat, panics : Nat]
ASSUME BudgetsAssumption == Budgets \subseteq Budget

VARIABLES
    \* the file system and the configuration
    disk, changedOnDisk, entry_points, budget,
    \* the main loop (GlobalState)
    documents,           \* the open buffers
    lastVersion,         \* the last version the client gave each document
    graph_diags,         \* include-graph findings held for each file
    graph_versions,      \* the buffer version they describe; Package: any
    shown,               \* what the client displays of them
    linted,              \* what the findings the client displays were linted with
    \* the channels
    analysis_rx, sync_rx, load_rx, ready, out_rx,
    \* the loader thread
    loader,
    \* the analysis thread
    arm,                 \* the select! arm that is draining analysis_rx
    pending, inflight,   \* queued analyses, and the running one
    scripts,             \* ScriptProjects
    pending_script_load, \* the parked load
    package_graph_diags, published_graph_files,
    tracked,             \* the text the database tracks for each file
    script_files,        \* the ScriptFiles input of the database
    \* the read pool
    jobs,
    \* history
    panicked,            \* a thread has panicked
    orphaned,            \* documents whose newest analysis was thrown away
    crossed,             \* documents a late sync unregistered while open
    missed               \* files whose change no reload followed

fileVars == <<disk, changedOnDisk, entry_points>>
graphVars == <<graph_diags, graph_versions, shown>>
mainVars == <<documents, lastVersion, graphVars, linted>>
workerVars == <<arm, pending, inflight, scripts, pending_script_load,
                package_graph_diags, published_graph_files, tracked,
                script_files>>
historyVars == <<panicked, orphaned, crossed, missed>>
vars == <<fileVars, mainVars, analysis_rx, sync_rx, load_rx, ready, out_rx,
          loader, workerVars, jobs, budget, historyVars>>

-----------------------------------------------------------------------------
(* Data. *)

(* A finding about a static include: from a script load, with the text its *)
(* span indexes, or from the harvested package, which read the disk.       *)
Missing(f, t) == [code |-> "missing", target |-> f, text |-> t]
PackageFinding == [code : {"missing", "cycle"}, target : Files,
                   text : {None}]

ASSUME HarvestsAssumption == Harvests \subseteq [Files -> SUBSET PackageFinding]

(* What the variables and channels hold.  A load job carries the buffers   *)
(* registered when it was asked for; its result, what the loader read.     *)
Finding == PackageFinding
             \cup [code : {"missing"}, target : Files, text : Texts]
Document == [version : Nat, text : Texts]
Request == [uri : Files, version : Nat, text : Texts, entries : SUBSET Files]
Flight == [uri : Files, version : Nat]
Registered == [version : Nat, text : Texts, entries : SUBSET Files]
Registrations == [Files -> Registered \cup {None}]
Sources == [Files -> Texts \cup {Unreadable, None}]
Programs ==
    [Files -> {DefinesOf[t] : t \in Texts} \cup {Unreadable, "pending", None}]
Load == [generation : Nat, entries : SUBSET Files, documents : Registrations]
Reading == [job : Load, sources : Sources, todo : SUBSET Files]
Loaded == [job : Load, sources : Sources]
Scripts ==
    [documents : Registrations, entries : SUBSET Files, generation : Nat,
     loading : BOOLEAN, sources : SUBSET Files, program : Programs,
     diagnostics : [Files -> SUBSET Finding],
     versions : [Files -> Nat \cup {None}]]
ScriptFiles == [readable : SUBSET Files, failed : SUBSET Files,
                entries : SUBSET Files, pending : BOOLEAN]
Worlds == [pending : BOOLEAN, program : Programs]
Job == [uri : Files, version : Nat, world : Worlds,
        phase : {"running", "done"}]
Outbound ==
    [kind : {"diagnostics"}, uri : Files, version : Nat,
     world : Worlds \cup {None}]
      \cup [kind : {"project"}, uri : Files, findings : SUBSET Finding,
            version : Nat \cup {None, Package}]
      \cup [kind : {"refresh"}]

ASSUME NoneAssumption ==
    /\ None \notin Nat \cup Texts \cup {Unreadable, Package}
    /\ Package \notin Nat
    /\ None \notin Document \cup Request \cup Flight \cup Registered
              \cup Reading \cup Loaded \cup ScriptFiles \cup Worlds

(* The files reachable from entries through the includes of read texts.    *)
Closure(entries, text) ==
    {f \in Files : \A S \in SUBSET Files :
        (/\ entries \subseteq S
         /\ \A g \in S : text[g] \in Texts => IncludesOf[text[g]] \subseteq S)
        => f \in S}

(* ScriptProgram: the globals of the files reached.  A file no load has    *)
(* attempted yet leaves the program incomplete.                            *)
Program(entries, text) ==
    [f \in Files |-> IF f \notin Closure(entries, text) THEN None
                     ELSE IF text[f] \in Texts THEN DefinesOf[text[f]]
                     ELSE IF text[f] = Unreadable THEN Unreadable
                     ELSE "pending"]

(* script_graph_diagnostics: the includes of a read file that cannot be    *)
(* read.                                                                   *)
FailedIncludes(sources) ==
    [f \in Files |->
        IF sources[f] \notin Texts THEN {}
        ELSE {Missing(g, sources[f]) :
                g \in {h \in IncludesOf[sources[f]] :
                        sources[h] = Unreadable}}]

NothingFound == [f \in Files |-> {}]
NoSources == [f \in Files |-> None]

Init ==
    /\ disk = InitialDisk
    /\ changedOnDisk = {}
    /\ budget \in Budgets
    /\ entry_points = NoEntries
    /\ documents = [f \in Files |-> None]
    /\ lastVersion = [f \in Files |-> 0]
    /\ graph_diags = NothingFound
    /\ graph_versions = [f \in Files |-> Package]
    /\ shown = [f \in Files |-> [text |-> None, findings |-> {}]]
    /\ linted = [f \in Files |-> None]
    /\ analysis_rx = <<>> /\ sync_rx = <<>>
    /\ load_rx = <<>> /\ ready = <<>> /\ out_rx = <<>>
    /\ loader = None
    /\ arm = <<>>
    /\ pending = [f \in Files |-> None]
    /\ inflight = None
    /\ scripts = [documents |-> [f \in Files |-> None], entries |-> {},
                  generation |-> 0, loading |-> FALSE, sources |-> {},
                  program |-> [f \in Files |-> None],
                  diagnostics |-> NothingFound,
                  versions |-> [f \in Files |-> None]]
    /\ pending_script_load = None
    /\ package_graph_diags = NothingFound
    /\ published_graph_files = {}
    /\ tracked = [f \in Files |-> None]
    /\ script_files = None
    /\ jobs = {}
    /\ panicked = FALSE
    /\ orphaned = {}
    /\ crossed = {}
    /\ missed = {}

-----------------------------------------------------------------------------
(* The main loop: the client, the file system and the configuration.       *)

Spend(what) ==
    /\ budget[what] > 0
    /\ budget' = [budget EXCEPT ![what] = @ - 1]

RequestFor(f, doc, entries) ==
    [uri |-> f, version |-> doc.version, text |-> doc.text,
     entries |-> entries]
OpenDocs == {f \in Files : documents[f] # None}
RefreshOpen(entries) ==
    LET order == SetToSeq(OpenDocs)
    IN [i \in DOMAIN order |->
            RequestFor(order[i], documents[order[i]], entries)]

(* publish_merged: include-graph findings of another version are left out. *)
ShowAnyVersion(f, doc, findings, version) ==                      \* a mutant
    [text |-> IF doc = None THEN None ELSE doc.text, findings |-> findings]
Merged(f, doc, findings, version) ==
    [text |-> IF doc = None THEN None ELSE doc.text,
     findings |-> IF version = Package THEN findings
                  ELSE IF version = (IF doc = None THEN None ELSE doc.version)
                  THEN findings ELSE {}]

(* textDocument/didOpen and didChange.                                     *)
SetDocument(f, t) ==
    /\ Spend("edits")
    /\ lastVersion' = [lastVersion EXCEPT ![f] = @ + 1]
    /\ LET doc == [version |-> lastVersion[f] + 1, text |-> t]
       IN /\ documents' = [documents EXCEPT ![f] = doc]
          /\ analysis_rx' = Append(analysis_rx,
                                   RequestFor(f, doc, entry_points))
    /\ UNCHANGED <<fileVars, graphVars, linted, sync_rx, load_rx, ready,
                   out_rx, loader, workerVars, jobs,
                   historyVars>>

(* textDocument/didClose.                                                  *)
DidClose(f) ==
    /\ documents[f] # None
    /\ Spend("closes")
    /\ documents' = [documents EXCEPT ![f] = None]
    /\ sync_rx' = Append(sync_rx, f)
    /\ linted' = [linted EXCEPT ![f] = None]
    /\ shown' = [shown EXCEPT ![f] =
                    Merged(f, None, graph_diags[f], graph_versions[f])]
    /\ UNCHANGED <<fileVars, lastVersion, graph_diags, graph_versions,
                   analysis_rx, load_rx, ready, out_rx, loader, workerVars,
                   jobs,
                   historyVars>>

(* Another program, or a save, writes or removes a file.                   *)
Rewrite(f, t) ==
    /\ f \in Rewritable
    /\ disk[f] # t
    /\ Spend("rewrites")
    /\ disk' = [disk EXCEPT ![f] = t]
    /\ changedOnDisk' = changedOnDisk \cup {f}
    /\ UNCHANGED <<entry_points, mainVars, analysis_rx, sync_rx,
                   load_rx, ready, out_rx, loader, workerVars, jobs,
                   historyVars>>

(* workspace/didChangeWatchedFiles for a file that changed.  A file that   *)
(* was created or deleted reshapes the configuration's discovery as well,  *)
(* and the open buffers are sent again; a watcher reports so also a file   *)
(* that another one replaced.                                              *)
DidChangeWatchedFiles(f, reshapes) ==
    /\ f \in changedOnDisk
    /\ changedOnDisk' = changedOnDisk \ {f}
    /\ analysis_rx' = IF reshapes THEN analysis_rx \o RefreshOpen(entry_points)
                                  ELSE analysis_rx
    /\ sync_rx' = IF documents[f] = None THEN Append(sync_rx, f) ELSE sync_rx
    /\ UNCHANGED <<disk, entry_points, mainVars, load_rx, ready, out_rx,
                   loader, workerVars, jobs, budget, historyVars>>

(* A configuration that names other entry points.                          *)
DidChangeConfiguration(entries) ==
    /\ entries # entry_points
    /\ Spend("configs")
    /\ entry_points' = entries
    /\ analysis_rx' = analysis_rx \o RefreshOpen(entries)
    /\ UNCHANGED <<disk, changedOnDisk, mainVars, sync_rx, load_rx,
                   ready, out_rx, loader, workerVars, jobs,
                   historyVars>>

(* The main loop: results.                                                 *)

OnDiagnostics ==
    /\ out_rx # <<>>
    /\ Head(out_rx).kind = "diagnostics"
    /\ out_rx' = Tail(out_rx)
    /\ LET f == Head(out_rx).uri
           current == /\ documents[f] # None
                      /\ documents[f].version = Head(out_rx).version
       IN IF current
          THEN /\ linted' = [linted EXCEPT ![f] = Head(out_rx).world]
               /\ shown' = [shown EXCEPT ![f] =
                    Merged(f, documents[f], graph_diags[f], graph_versions[f])]
          ELSE UNCHANGED <<linted, shown>>
    /\ UNCHANGED <<fileVars, documents, lastVersion, graph_diags,
                   graph_versions, analysis_rx, sync_rx, load_rx, ready,
                   loader, workerVars, jobs, budget,
                   historyVars>>

(* Findings of a load of other buffers than the open one are dropped.      *)
AcceptGraph(f, version) ==
    \/ version = Package
    \/ version = IF documents[f] = None THEN None ELSE documents[f].version
OnProjectDiagnostics ==
    /\ out_rx # <<>>
    /\ Head(out_rx).kind = "project"
    /\ out_rx' = Tail(out_rx)
    /\ LET m == Head(out_rx)
       IN IF AcceptGraph(m.uri, m.version)
          THEN /\ graph_diags' = [graph_diags EXCEPT ![m.uri] = m.findings]
               /\ graph_versions' = [graph_versions EXCEPT ![m.uri] = m.version]
               /\ shown' = [shown EXCEPT ![m.uri] =
                    Merged(m.uri, documents[m.uri], m.findings, m.version)]
          ELSE UNCHANGED graphVars
    /\ UNCHANGED <<fileVars, documents, lastVersion, linted, analysis_rx,
                   sync_rx, load_rx, ready, loader, workerVars, jobs,
                   budget, historyVars>>

OnDiagnosticsRefresh ==
    /\ out_rx # <<>>
    /\ Head(out_rx).kind = "refresh"
    /\ out_rx' = Tail(out_rx)
    /\ analysis_rx' = analysis_rx \o RefreshOpen(entry_points)
    /\ UNCHANGED <<fileVars, mainVars, sync_rx, load_rx, ready, loader,
                   workerVars, jobs, budget,
                   historyVars>>

-----------------------------------------------------------------------------
(* The loader thread.                                                      *)

(* The result is sent once the closure is read.                            *)
LoaderGoesOn(job, sources, todo) ==
    IF todo # {}
    THEN /\ loader' = [job |-> job, sources |-> sources, todo |-> todo]
         /\ UNCHANGED ready
    ELSE /\ loader' = None
         /\ ready' = Append(ready, [job |-> job, sources |-> sources])

(* Only the newest of the queued loads is performed.                       *)
LoaderTakesNewest ==
    /\ loader = None
    /\ load_rx # <<>>
    /\ load_rx' = <<>>
    /\ LET job == load_rx[Len(load_rx)]
       IN LoaderGoesOn(job, NoSources, job.entries)
    /\ UNCHANGED <<fileVars, mainVars, analysis_rx, sync_rx, out_rx,
                   workerVars, jobs, budget, historyVars>>

(* load_sources: one file of the closure is read; buffers override disk.   *)
Content(docs, f) == IF docs[f] # None THEN docs[f].text ELSE disk[f]
LoaderReads(f) ==
    /\ loader # None
    /\ f \in loader.todo
    /\ LET content == Content(loader.job.documents, f)
           found == IF content \in Texts THEN IncludesOf[content] ELSE {}
           sources == [loader.sources EXCEPT ![f] = content]
       IN LoaderGoesOn(loader.job, sources,
                       {g \in loader.todo \cup found : sources[g] = None})
    /\ UNCHANGED <<fileVars, mainVars, analysis_rx, sync_rx, load_rx, out_rx,
                   workerVars, jobs, budget, historyVars>>

(* The panic is caught and the thread goes on, but no result is sent.      *)
LoaderPanics ==
    /\ loader # None
    /\ Spend("panics")
    /\ panicked' = TRUE
    /\ loader' = None
    /\ UNCHANGED <<fileVars, mainVars, analysis_rx, sync_rx, load_rx, ready,
                   out_rx, workerVars, jobs, orphaned, crossed, missed>>

-----------------------------------------------------------------------------
(* The analysis thread.  An arm is a chain of helpers over a record of     *)
(* what it has changed so far; an arm that drains analysis_rx receives one *)
(* request per step, and acts when the channel is empty.                   *)

Worker(stage) ==
    [pending |-> pending, inflight |-> inflight, scripts |-> scripts,
     parked |-> pending_script_load, package |-> package_graph_diags,
     published |-> published_graph_files, tracked |-> tracked,
     files |-> script_files, jobs |-> jobs, load |-> load_rx,
     out |-> out_rx, orphaned |-> orphaned, crossed |-> crossed,
     missed |-> missed, stage |-> stage]

Commit(w) ==
    /\ pending' = w.pending
    /\ inflight' = w.inflight
    /\ scripts' = w.scripts
    /\ pending_script_load' = w.parked
    /\ package_graph_diags' = w.package
    /\ published_graph_files' = w.published
    /\ tracked' = w.tracked
    /\ script_files' = w.files
    /\ jobs' = w.jobs
    /\ load_rx' = w.load
    /\ out_rx' = w.out
    /\ orphaned' = w.orphaned
    /\ crossed' = w.crossed
    /\ missed' = w.missed

(* A salsa write cancels the running analysis and waits for it.  Caught    *)
(* while it lints, it falls back to a cold lint, which knows no program.   *)
Running(js) == {j \in js : j.phase = "running"}
CaughtIn == IF Running(jobs) = {} THEN {"linting"} ELSE {"parsing", "linting"}
ReportOf(job, world) ==
    [kind |-> "diagnostics", uri |-> job.uri, version |-> job.version,
     world |-> world]
Cancel(w) ==
    LET running == Running(w.jobs)
        reports == {ReportOf(j, None) : j \in running}
    IN [w EXCEPT
          !.jobs = (@ \ running) \cup
                        {[j EXCEPT !.phase = "done"] : j \in running},
          !.orphaned = @ \cup {j.uri : j \in running},
          !.out = IF w.stage = "linting" THEN @ \o SetToSeq(reports) ELSE @]

Upsert(w, f, t) ==
    LET written == IF w.tracked[f] \in {t, None} THEN w ELSE Cancel(w)
    IN [written EXCEPT !.tracked[f] = t]

(* set_scripts_pending and set_script_sources; creating the input is no    *)
(* write.                                                                  *)
SetScriptFiles(w, files) ==
    IF w.files \in {files, None} THEN [w EXCEPT !.files = files]
    ELSE [Cancel(w) EXCEPT !.files = files]
SetPending(w) ==
    SetScriptFiles(w, IF w.files = None
                      THEN [readable |-> {}, failed |-> {}, entries |-> {},
                            pending |-> TRUE]
                      ELSE [w.files EXCEPT !.pending = TRUE])

(* reload: a load of what is registered now supersedes every earlier one.  *)
AskLoad(w) ==
    [w EXCEPT
        !.scripts.generation = @ + 1,
        !.scripts.loading = TRUE,
        !.missed = {},
        !.load = Append(@, [generation |-> w.scripts.generation + 1,
                            entries |-> w.scripts.entries,
                            documents |-> w.scripts.documents])]
Reload(w) ==
    IF /\ w.scripts.entries = {}
       /\ w.scripts.sources = {}
       /\ ~w.scripts.loading
    THEN w ELSE AskLoad(w)

EntriesOf(docs) == UNION {docs[f].entries : f \in {g \in Files : docs[g] # None}}

(* update: an older or identical buffer is ignored.                        *)
IsKnown(old, req) ==
    /\ old # None
    /\ \/ old.version > req.version
       \/ old = [version |-> req.version, text |-> req.text,
                 entries |-> req.entries]
Update(w, req) ==
    LET docs == [w.scripts.documents EXCEPT ![req.uri] =
                    [version |-> req.version, text |-> req.text,
                     entries |-> req.entries]]
        entries == EntriesOf(docs)
        registered ==
            [w EXCEPT !.scripts = [@ EXCEPT !.documents = docs,
                                            !.entries = entries],
                      !.crossed = @ \ {req.uri}]
    IN IF IsKnown(w.scripts.documents[req.uri], req) THEN w
       ELSE IF entries = w.scripts.entries THEN Reload(registered)
       ELSE Reload(SetPending(registered))

(* closed_or_changed: a file that is neither a registered buffer nor a     *)
(* source of the installed load is nobody's business.                      *)
ClosedOrChanged(w, f) ==
    LET docs == [w.scripts.documents EXCEPT ![f] = None]
        closed == w.scripts.documents[f] # None
        unregistered ==
            [w EXCEPT !.scripts = [@ EXCEPT !.documents = docs,
                                            !.entries = EntriesOf(docs)],
                      !.crossed = IF closed /\ documents[f] # None
                                  THEN @ \cup {f} ELSE @]
    IN IF ~closed /\ f \notin w.scripts.sources
       THEN [w EXCEPT !.missed = IF w.scripts.loading THEN @ \cup {f} ELSE @]
       ELSE IF \/ w.scripts.loading
               \/ w.scripts.sources # {}
               \/ EntriesOf(docs) # {}
       THEN Reload(SetPending(unregistered))
       ELSE unregistered

(* graph_diagnostics: a script's own findings replace what the package's   *)
(* snapshot of the disk says is missing, not its cycles.                   *)
GraphDiagnostics(w) ==
    [f \in Files |->
        {p \in w.package[f] : f \in w.scripts.sources => p.code = "cycle"}
            \cup w.scripts.diagnostics[f]]
DiagnosticSource(w, f) ==
    IF f \in w.scripts.sources THEN w.scripts.versions[f] ELSE Package

(* publish_graph_diagnostics: each file with findings, then an empty       *)
(* publish for each that had some before.                                  *)
ProjectDiagnostics(f, findings, version) ==
    [kind |-> "project", uri |-> f, findings |-> findings, version |-> version]
PublishNew(w, now) ==
    LET found == GraphDiagnostics(w)
        files == SetToSeq(now)
    IN [i \in DOMAIN files |->
            ProjectDiagnostics(files[i], found[files[i]],
                               DiagnosticSource(w, files[i]))]
PublishAll(w, now) ==
    LET gone == SetToSeq(w.published \ now)
    IN PublishNew(w, now)
       \o [i \in DOMAIN gone |-> ProjectDiagnostics(gone[i], {}, Package)]
PublishGraphDiagnostics(w) ==
    LET now == {f \in Files : GraphDiagnostics(w)[f] # {}}
    IN [w EXCEPT !.published = now,
                 !.out = @ \o PublishAll(w, now) \o <<[kind |-> "refresh"]>>]

(* install: a load of an earlier generation is dropped; dependents are     *)
(* refreshed if anything they were told may differ.                        *)
SetScriptSources(w, loaded) ==
    LET sources == {f \in Files : loaded.sources[f] # None}
        text == [f \in Files |->
                    IF w.scripts.documents[f] # None
                    THEN w.scripts.documents[f].text ELSE loaded.sources[f]]
        readable == {f \in sources : text[f] \in Texts}
        written == [w EXCEPT !.tracked = [f \in Files |->
                        IF f \in readable THEN text[f] ELSE @[f]]]
        changes == \E f \in readable : w.tracked[f] \notin {text[f], None}
    IN SetScriptFiles(IF changes THEN Cancel(written) ELSE written,
                      [readable |-> readable, failed |-> sources \ readable,
                       entries |-> loaded.job.entries, pending |-> FALSE])

VersionsOf(docs) ==
    [f \in Files |-> IF docs[f] = None THEN None ELSE docs[f].version]
ChangedProgram(w, loaded) ==                                      \* a mutant
    \/ w.scripts.program # Program(loaded.job.entries, loaded.sources)
    \/ w.scripts.diagnostics # FailedIncludes(loaded.sources)
Changed(w, loaded) ==
    LET found == FailedIncludes(loaded.sources)
        versions == VersionsOf(loaded.job.documents)
    IN \/ w.files = None
       \/ w.files # None /\ w.files.pending
       \/ w.scripts.program # Program(loaded.job.entries, loaded.sources)
       \/ w.scripts.diagnostics # found
       \/ \E f \in Files : found[f] # {} /\ w.scripts.versions[f] # versions[f]

Installed(w, loaded) ==
    LET installed ==
            [SetScriptSources(w, loaded) EXCEPT !.scripts = [@ EXCEPT
                !.loading = FALSE,
                !.sources = {f \in Files : loaded.sources[f] # None},
                !.program = Program(loaded.job.entries, loaded.sources),
                !.diagnostics = FailedIncludes(loaded.sources),
                !.versions = VersionsOf(loaded.job.documents)]]
    IN IF Changed(w, loaded) THEN PublishGraphDiagnostics(installed)
       ELSE installed
Install(w, loaded) ==
    IF loaded.job.generation # w.scripts.generation THEN w
    ELSE Installed(w, loaded)

(* on_scripts_loaded: an installation waits for the analysis slot.         *)
ParkFirst(w, loaded) ==                                           \* a mutant
    IF w.inflight = None THEN Install(w, loaded)
    ELSE IF w.parked = None THEN [w EXCEPT !.parked = loaded]
    ELSE w
OnScriptsLoaded(w, loaded) ==
    IF w.inflight = None THEN Install(w, loaded)
    ELSE [w EXCEPT !.parked = loaded]

(* What a lint of f reads of the script programs, given its entries.       *)
World(w, entries) ==
    IF entries = {} \/ w.files = None
    THEN [pending |-> entries # {}, program |-> Program({}, NoSources)]
    ELSE [pending |-> w.files.pending \/ ~(entries \subseteq w.files.entries),
          program |-> Program(entries,
                        [f \in Files |->
                            IF f \in w.files.readable THEN w.tracked[f]
                            ELSE IF f \in w.files.failed THEN Unreadable
                            ELSE None])]

(* try_dispatch: the parked load, then the next analysis.                  *)
Decide(w) ==
    {f \in Files : /\ w.pending[f] # None
                   /\ w.inflight # None =>
                        /\ w.inflight.uri = f
                        /\ w.inflight.version < w.pending[f].version}
Start(w, f) ==
    LET req == w.pending[f]
        v == Upsert(w, f, req.text)
    IN [v EXCEPT
          !.pending[f] = None,
          !.inflight = [uri |-> f, version |-> req.version],
          !.orphaned = @ \ {f},
          !.jobs = @ \cup {[uri |-> f, version |-> req.version,
                            world |-> World(v, req.entries),
                            phase |-> "running"]}]
Unpark(w) ==
    IF w.inflight = None /\ w.parked # None
    THEN Install([w EXCEPT !.parked = None], w.parked) ELSE w
Dispatch(w) ==
    IF Decide(w) = {} THEN {w}
    ELSE {Start(IF w.inflight = None THEN w
                ELSE [Cancel(w) EXCEPT !.inflight = None], f) : f \in Decide(w)}
TryDispatch(w) == Dispatch(Unpark(w))

(* enqueue: registered whatever its version, queued if newest.             *)
Newest(old, req) ==
    IF old = None \/ old.version < req.version THEN req
    ELSE IF old.version = req.version THEN [old EXCEPT !.entries = req.entries]
    ELSE old
Enqueue(w, req) ==
    [Update(w, req) EXCEPT !.pending[req.uri] = Newest(@, req)]

(* on_sync, its channel drained: queued analyses go, the text reverts.     *)
DropQueued(w, f) ==
    [w EXCEPT !.pending[f] = None,
              !.orphaned = IF w.pending[f] # None THEN @ \cup {f} ELSE @]
Revert(w, f) ==
    IF w.tracked[f] = None \/ disk[f] = Unreadable THEN w
    ELSE Upsert(w, f, disk[f])
OnSync(w, f) == ClosedOrChanged(Revert(DropQueued(w, f), f), f)

(* An arm receives requests until the channel is empty, then dispatches.   *)
analysisThreadUnchanged == <<fileVars, mainVars, loader, panicked>>
Syncing(a) == Len(a) = 2
ArmGoesOn(a, w, rest) ==
    /\ analysis_rx' = rest
    /\ IF rest # <<>>
       THEN arm' = a /\ Commit(w)
       ELSE /\ arm' = <<>>
            /\ \E v \in TryDispatch(IF Syncing(a) THEN OnSync(w, a[2]) ELSE w) :
                 Commit(v)

AnalysisArm ==
    /\ arm = <<>>
    /\ analysis_rx # <<>>
    /\ \E stage \in CaughtIn :
         ArmGoesOn(<<"analyze">>, Enqueue(Worker(stage), Head(analysis_rx)),
                   Tail(analysis_rx))
    /\ UNCHANGED <<analysisThreadUnchanged, budget, ready, sync_rx>>

SyncArm ==
    /\ arm = <<>>
    /\ sync_rx # <<>>
    /\ sync_rx' = Tail(sync_rx)
    /\ \E stage \in CaughtIn :
         ArmGoesOn(<<"sync", Head(sync_rx)>>, Worker(stage), analysis_rx)
    /\ UNCHANGED <<analysisThreadUnchanged, budget, ready>>

Receive ==
    /\ arm # <<>>
    /\ \E stage \in CaughtIn :
         ArmGoesOn(arm, Enqueue(Worker(stage), Head(analysis_rx)),
                   Tail(analysis_rx))
    /\ UNCHANGED <<analysisThreadUnchanged, budget, ready, sync_rx>>

ReadyArm ==
    /\ arm = <<>>
    /\ ready # <<>>
    /\ ready' = Tail(ready)
    /\ \E stage \in CaughtIn :
         Commit(OnScriptsLoaded(Worker(stage), Head(ready)))
    /\ UNCHANGED <<analysisThreadUnchanged, budget, arm, analysis_rx, sync_rx>>

(* A library message: the package's include graph is read anew.            *)
LibraryArm(found) ==
    /\ arm = <<>>
    /\ Spend("harvests")
    /\ \E stage \in CaughtIn :
         Commit(PublishGraphDiagnostics(
                    [Cancel(Worker(stage)) EXCEPT !.package = found]))
    /\ UNCHANGED <<fileVars, mainVars, ready, loader, panicked, arm,
                   analysis_rx, sync_rx>>

DoneArm(job) ==
    /\ arm = <<>>
    /\ job \in jobs
    /\ job.phase = "done"
    /\ \E stage \in CaughtIn :
         LET w == [Worker(stage) EXCEPT !.jobs = @ \ {job}]
         IN \E v \in TryDispatch(
                IF w.inflight = [uri |-> job.uri, version |-> job.version]
                THEN [w EXCEPT !.inflight = None] ELSE w) : Commit(v)
    /\ UNCHANGED <<analysisThreadUnchanged, budget, ready, arm, analysis_rx, sync_rx>>

-----------------------------------------------------------------------------
(* The read pool.                                                          *)

JobFinish(job) ==
    /\ job \in Running(jobs)
    /\ jobs' = (jobs \ {job}) \cup {[job EXCEPT !.phase = "done"]}
    /\ out_rx' = Append(out_rx, ReportOf(job, job.world))
    /\ UNCHANGED <<fileVars, mainVars, analysis_rx, sync_rx, load_rx, ready,
                   loader, workerVars, budget, historyVars>>

(* Neither a report nor a `done` is sent: the slot stays taken.            *)
JobPanic(job) ==
    /\ job \in Running(jobs)
    /\ Spend("panics")
    /\ panicked' = TRUE
    /\ jobs' = jobs \ {job}
    /\ orphaned' = orphaned \cup {job.uri}
    /\ UNCHANGED <<fileVars, mainVars, analysis_rx, sync_rx, load_rx, ready,
                   out_rx, loader, workerVars, crossed, missed>>

-----------------------------------------------------------------------------

Client ==
    \/ \E f \in Files :
        \/ \E t \in Buffers[f] : SetDocument(f, t)
        \/ DidClose(f)
        \/ \E t \in Written : Rewrite(f, t)
        \/ \E reshapes \in BOOLEAN : DidChangeWatchedFiles(f, reshapes)
    \/ \E entries \in EntryPoints : DidChangeConfiguration(entries)

MainLoop == OnDiagnostics \/ OnProjectDiagnostics \/ OnDiagnosticsRefresh

Loader ==
    \/ LoaderTakesNewest
    \/ \E f \in Files : LoaderReads(f)

AnalysisThread ==
    \/ AnalysisArm \/ SyncArm \/ Receive \/ ReadyArm
    \/ \E job \in jobs : DoneArm(job)
    \/ \E found \in Harvests : LibraryArm(found)

Next ==
    \/ Client \/ MainLoop \/ Loader \/ AnalysisThread
    \/ \E job \in jobs : JobFinish(job) \/ JobPanic(job)
    \/ LoaderPanics

Spec == Init /\ [][Next]_vars

(* select! is random, so a channel that is ready again and again is        *)
(* received from: strong fairness of its arm, written out with the arm's   *)
(* guard for ENABLED.  The other threads run.  Nothing obliges the client, *)
(* a harvest or a panic.                                                   *)
SelectsFairly ==
    /\ \/ <>[]~(arm = <<>> /\ analysis_rx # <<>>)
       \/ []<><<AnalysisArm>>_vars
    /\ \/ <>[]~(arm = <<>> /\ sync_rx # <<>>)
       \/ []<><<SyncArm>>_vars
    /\ \/ <>[]~(arm = <<>> /\ ready # <<>>)
       \/ []<><<ReadyArm>>_vars
    /\ \/ <>[]~(arm = <<>> /\ \E job \in jobs : job.phase = "done")
       \/ []<><<\E job \in jobs : DoneArm(job)>>_vars
    /\ \/ []<>(arm = <<>>)
       \/ []<><<Receive>>_vars

Fairness ==
    /\ SelectsFairly
    /\ WF_vars(MainLoop)
    /\ WF_vars(Loader)
    /\ WF_vars(\E job \in jobs : JobFinish(job))

FairSpec == Spec /\ Fairness

-----------------------------------------------------------------------------
(* Properties.                                                             *)

(* While a load is awaited, and as long as nothing panicked, one of the    *)
(* current generation is queued, being read, ready or parked, and it asks  *)
(* for what is registered now: neither coalescing, parking, superseding    *)
(* nor an occupied analysis slot loses the last one asked for.  And the    *)
(* database says that programs are pending, which mutes the undefined-name *)
(* rule, only while such a load is awaited.                                *)
IsCurrent(job) ==
    /\ job.generation = scripts.generation
    /\ job.entries = scripts.entries
    /\ job.documents = scripts.documents
LoadIsOnItsWay ==
    /\ scripts.loading /\ ~panicked =>
        \/ load_rx # <<>> /\ IsCurrent(load_rx[Len(load_rx)])
        \/ load_rx = <<>> /\ loader # None /\ IsCurrent(loader.job)
        \/ /\ load_rx = <<>> /\ loader = None /\ ready # <<>>
           /\ IsCurrent(ready[Len(ready)].job)
        \/ /\ load_rx = <<>> /\ loader = None /\ ready = <<>>
           /\ pending_script_load # None
           /\ IsCurrent(pending_script_load.job)
    /\ script_files # None /\ script_files.pending => scripts.loading

(* A finding of a script load is displayed only beside the very text its   *)
(* span indexes, whatever edits, closes and loads crossed on the way: the  *)
(* version gates of on_outbound and publish_merged.                        *)
SpansFitBuffer ==
    \A f \in Files : \A p \in shown[f].findings :
        p.text # None /\ shown[f].text # None => p.text = shown[f].text

(* Nothing is left to do.                                                  *)
Quiet ==
    /\ arm = <<>> /\ loader = None /\ jobs = {} /\ changedOnDisk = {}
    /\ analysis_rx = <<>> /\ sync_rx = <<>> /\ load_rx = <<>>
    /\ ready = <<>> /\ out_rx = <<>>

(* The files as the server should see them, and the configured entries.    *)
CurrentText(f) == IF documents[f] # None THEN documents[f].text ELSE disk[f]
CurrentTexts == [f \in Files |-> CurrentText(f)]
CurrentEntries == IF OpenDocs = {} THEN {} ELSE entry_points
Undisturbed == Quiet /\ ~panicked /\ crossed = {} /\ missed = {}

(* At rest the database resolves the configured entry points against the   *)
(* open buffers and the disk, and nothing is pending: no load of an older  *)
(* generation, configuration or text is what was installed last.           *)
ProgramsCurrentWhenQuiet ==
    Undisturbed /\ script_files # None =>
        /\ ~script_files.pending
        /\ script_files.entries = CurrentEntries
        /\ \A f \in Closure(CurrentEntries, CurrentTexts) :
             /\ f \in script_files.readable => tracked[f] = CurrentTexts[f]
             /\ f \in script_files.readable <=> CurrentTexts[f] \in Texts

(* At rest each file shows the failed includes of its current text and no  *)
(* others: what was fixed is cleared, closed files included.  A file the   *)
(* harvest found in a cycle is left out once nothing fails in it: the      *)
(* message that clears its script findings still tells of the cycle, with  *)
(* a buffer version, and a client that has typed on drops it; nothing      *)
(* sends it again.                                                         *)
Cyclic == {f \in Files : \E p \in package_graph_diags[f] : p.code = "cycle"}
FindingsCurrentWhenQuiet ==
    Undisturbed =>
        LET reached == Closure(CurrentEntries, CurrentTexts)
            sources == [f \in Files |-> IF f \in reached THEN CurrentTexts[f] ELSE None]
            failed == FailedIncludes(sources)
        IN \A f \in Files : f \notin Cyclic \/ failed[f] # {} =>
            {p \in shown[f].findings : p.text # None} = failed[f]

(* At rest no document shows findings that were linted while its programs  *)
(* were pending, unless its last analysis was cancelled or dropped: the    *)
(* installation refreshes whatever was told "pending".                     *)
NothingLintedWhilePending ==
    Undisturbed =>
        \A f \in OpenDocs \ orphaned : linted[f] # None /\ ~linted[f].pending

(* At rest no document shows findings that were linted against another     *)
(* program than the installed one.                                         *)
DependentsRefreshed ==
    Undisturbed =>
        \A f \in OpenDocs \ orphaned :
            linted[f].program = Program(CurrentEntries, CurrentTexts)

(* At rest an include cycle the harvest found in a file is displayed, also *)
(* when the file belongs to a script program.                              *)
CyclesStayShown ==
    Undisturbed =>
        \A f \in Files : \A p \in package_graph_diags[f] :
            p.code = "cycle" => p \in shown[f].findings

(* Unless something panics every load ends installed: once the client lets *)
(* go no load stays parked, superseded or unread, and programs stop being  *)
(* pending.                                                                *)
EventuallyInstalled == []~panicked => <>[](~scripts.loading)
=============================================================================
