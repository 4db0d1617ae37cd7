-------------------------- MODULE WorkspaceHarvester --------------------------
(***************************************************************************)
(* The index of the packages under development, and the findings about the *)
(* environment files (Project.toml, Manifest.toml).  The harvester thread  *)
(* (lsp/server.rs) resolves one environment per workspace folder from      *)
(* disk, publishes what is wrong with it, harvests the packages and hands  *)
(* the library to the analysis thread; then it answers signals: an         *)
(* environment file changed, or a source file did.  The main loop          *)
(* (lsp/state.rs) sends the signals, keeps the open environment files and  *)
(* merges their own findings with the harvester's; the analysis thread     *)
(* tracks the text of project files, whose dependencies the linter reads.  *)
(*                                                                         *)
(* A project is a directory with a Project file, a Manifest and sources;   *)
(* registered packages (from the depot) are left out.  A package's files   *)
(* are harvested in one step: a file that changes meanwhile is signalled.  *)
(***************************************************************************)
EXTENDS Naturals, Sequences, FiniteSets, SequencesExt

CONSTANTS
    Projects,        \* project directories
    WalkUps,         \* for each workspace folder, the directories above it
    Names,           \* package names
    Depth,           \* how deep in the file system a project directory is
    Sources,         \* Julia files
    EntryOf,         \* src/<name>.jl of a project, for each name
    ReadBy,          \* the files every entry of a project includes
    UnderSrc,        \* the projects whose src/ directory holds a file
    Contents,        \* what a source file may hold
    ApiOf,           \* the public API of a content
    Broken, Absent,  \* unparseable TOML; no such file
    ProjectTexts,    \* parseable project files: a name and dependencies
    Manifests,       \* parseable manifests: the dependencies they pin
    InitialDisk,     \* what the files hold at start
    TypedIn,         \* what the client types into each environment file
    WrittenTo,       \* what other programs leave in each file
    Budgets,         \* bound: how often what comes from outside may happen
    None

ProjectOf(p) == <<p, "Project">>
ManifestOf(p) == <<p, "Manifest">>
EnvFiles == Projects \X {"Project", "Manifest"}
Environment == <<None, "Environment">>   \* the signal no file stands for
Texts == ProjectTexts \cup Manifests \cup {Broken}

(* What a behaviour may spend: didOpen, didChange, didClose and didSave of  *)
(* environment files, saved sources, writes by other programs, entry files *)
(* renamed in the editor; and whether the client watches files.            *)
Budget == [opens : Nat, edits : Nat, closes : Nat, saves : Nat, sources : Nat,
           writes : Nat, renames : Nat, watched : BOOLEAN]

ASSUME PlacesAssumption ==
    /\ WalkUps \in Seq(Seq(Projects)) /\ WalkUps # <<>>
    /\ Depth \in [Projects -> Nat]
    /\ EntryOf \in [Projects -> [Names -> Sources]]
    /\ ReadBy \in [Projects -> SUBSET Sources]
    /\ UnderSrc \in [Sources -> SUBSET Projects]
ASSUME ContentsAssumption ==
    /\ ProjectTexts \subseteq [name : Names \cup {None}, deps : SUBSET Names]
    /\ Manifests \subseteq [pins : SUBSET Names]
    /\ Absent \notin Texts \cup Contents /\ Broken \notin ProjectTexts \cup Manifests
    /\ DOMAIN ApiOf = Contents \cup {Absent}
    /\ DOMAIN InitialDisk = EnvFiles \cup Sources
ASSUME BudgetsAssumption == Budgets \subseteq Budget

(* What each file may hold, whoever writes it.                              *)
Holds(f) ==
    IF f \in Sources THEN Contents
    ELSE {Broken} \cup (IF f[2] = "Project" THEN ProjectTexts ELSE Manifests)

ASSUME FilesAssumption ==
    /\ IsFiniteSet(Projects)
    /\ EnvFiles \cap Sources = {}
    /\ None \notin Projects \cup Texts \cup EnvFiles
    /\ None \notin [project : Projects, name : Names]
    /\ \A codes \in SUBSET {"toml-syntax", "missing-entry-file", "stale-manifest"} : codes # None
    /\ \A text \in ProjectTexts, n \in Names : [text EXCEPT !.name = n] \in ProjectTexts
    /\ \A f \in EnvFiles : TypedIn[f] \subseteq Holds(f)
    /\ \A f \in EnvFiles \cup Sources :
         /\ InitialDisk[f] \in Holds(f) \cup {Absent}
         /\ WrittenTo[f] \subseteq Holds(f) \cup {Absent}

VARIABLES
    disk, budget,
    unreported,          \* files the client has yet to report as changed
    \* the main loop (GlobalState)
    documents,           \* the open environment files
    buffer_diags,        \* findings of their buffers; None: none kept
    env_diags,           \* the harvester's findings; None: none kept
    shown,               \* what the client displays for each file
    \* the channels
    harvest_rx, sync_rx, library_rx, out_rx,
    refresh,             \* a DiagnosticsRefresh is on its way (or several)
    \* the harvester thread
    harvester, published_env_files,
    \* the database, written by the analysis thread
    tracked,             \* the text it tracks of each project file, or None
    project_files,       \* the project file registered for each name
    packages,            \* the index held for each package under development
    workspaces,          \* their names
    linted,              \* what the last lint of the open documents rested on
    \* history
    unresolved           \* how entry files came or went since the last resolve

clientVars == <<disk, budget, unreported>>
mainVars == <<documents, buffer_diags, env_diags, shown>>
dbVars == <<tracked, project_files, packages, workspaces>>
vars == <<clientVars, mainVars, harvest_rx, sync_rx, library_rx, out_rx,
          refresh, harvester, published_env_files, dbVars, linted, unresolved>>

Empty == [n \in {} |-> None]
Put(f, x, y) == [z \in DOMAIN f \cup {x} |-> IF z = x THEN y ELSE f[z]]
-----------------------------------------------------------------------------
(* What the files say.                                                      *)

Parses(text) == text \notin {Broken, Absent}

(* project_files::syntax_findings: the findings of a buffer.                *)
SyntaxFindings(text) == IF Parses(text) THEN {} ELSE {"toml-syntax"}

(* project_files::semantic_findings: what a resolved environment says about *)
(* the text of its project file, read once more.                            *)
SemanticFindings(env, text) ==
    IF ~Parses(text)
    THEN {}
    ELSE {tag \in {"missing-entry-file", "stale-manifest"} :
            \/ /\ tag = "missing-entry-file"
               /\ text.name # None
               /\ env.name # None
               /\ disk[EntryOf[env.project][env.name]] = Absent
            \/ /\ tag = "stale-manifest"
               /\ env.pins # None
               /\ ~(text.deps \subseteq env.pins)}

(* Environment::dev_package: a package is a named project whose entry file  *)
(* exists.                                                                  *)
IsPackage(env) ==
    /\ env.name # None
    /\ disk[EntryOf[env.project][env.name]] # Absent

(* index::dev_packages: the first folder wins a name.                       *)
DevPackages(envs) ==
    LET Add(devs, env) ==
          IF IsPackage(env) /\ \A i \in DOMAIN devs : devs[i].name # env.name
          THEN Append(devs, [project |-> env.project, name |-> env.name])
          ELSE devs
    IN  FoldLeft(Add, <<>>, envs)

(* index::harvest_workspace: the API of the entry file and what it includes.*)
HarvestWorkspace(dev) ==
    LET entry == EntryOf[dev.project][dev.name]
    IN  IF disk[entry] = Absent
        THEN Empty
        ELSE [s \in {entry} \cup ReadBy[dev.project] |-> ApiOf[disk[s]]]

NamesOf(devs) == {devs[i].name : i \in DOMAIN devs}
DevNamed(devs, n) == CHOOSE dev \in ToSet(devs) : dev.name = n

(* environment::walk_up_for_project, from the nearest directory up.         *)
Located(dirs) ==
    LET found == {i \in DOMAIN dirs : disk[ProjectOf(dirs[i])] # Absent}
    IN  IF found = {} THEN None ELSE dirs[Min(found)]

(* environment::resolve, once the project is located: a file that cannot be *)
(* read or parsed fails the whole environment and is the one at fault.      *)
Resolved(p) ==
    LET text == disk[ProjectOf(p)]
        manifest == disk[ManifestOf(p)]
    IN  IF ~Parses(text)
        THEN [fault |-> ProjectOf(p)]
        ELSE IF manifest = Broken
        THEN [fault |-> ManifestOf(p)]
        ELSE [fault |-> None, project |-> p, name |-> text.name,
              pins |-> IF manifest = Absent THEN None ELSE manifest.pins]
-----------------------------------------------------------------------------
(* Init.                                                                    *)

(* The harvester's place in its loop, and the locals alive there.           *)
Start(last) ==
    [at |-> "locate", roots |-> WalkUps, located |-> None, env |-> None,
     envs |-> <<>>, findings |-> Empty, devs |-> <<>>, todo |-> <<>>,
     library |-> Empty, last |-> last, dev |-> None]

Init ==
    /\ disk = InitialDisk
    /\ budget \in Budgets
    /\ unreported = {}
    /\ documents = [f \in EnvFiles |-> None]
    /\ buffer_diags = [f \in EnvFiles |-> None]
    /\ env_diags = [f \in EnvFiles |-> None]
    /\ shown = [f \in EnvFiles |-> {}]
    /\ harvest_rx = <<>> /\ sync_rx = <<>> /\ library_rx = <<>> /\ out_rx = <<>>
    /\ refresh = FALSE
    /\ harvester = Start(Empty)
    /\ published_env_files = {}
    /\ tracked = [p \in Projects |-> None]
    /\ project_files = Empty
    /\ packages = Empty
    /\ workspaces = {}
    /\ linted = [deps |-> Empty, packages |-> Empty]
    /\ unresolved = {}
-----------------------------------------------------------------------------
(* The client and the main loop.  A notification is handled where it is     *)
(* sent, except the watched-file events: those follow the change on disk.   *)

Spend(what) ==
    /\ budget[what] > 0
    /\ budget' = [budget EXCEPT ![what] = @ - 1]

(* A change on disk, and the report of it a watching client owes.  It may   *)
(* turn a directory into a package, or the other way round.                 *)
OnDisk(change, reason) ==
    LET files == DOMAIN change
    IN  /\ disk' = [f \in DOMAIN disk |-> IF f \in files THEN change[f] ELSE disk[f]]
        /\ unreported' = IF budget.watched THEN unreported \cup files ELSE unreported
        /\ unresolved' = IF \E f \in files \cap Sources :
                               (disk[f] = Absent) # (change[f] = Absent)
                         THEN unresolved \cup {reason}
                         ELSE unresolved

(* As Merged, the harvester's findings first (a mutant).                    *)
MergedHarvesterFirst(buffers, envs, f) ==
    IF envs[f] # None THEN envs[f] ELSE IF buffers[f] # None THEN buffers[f] ELSE {}

(* publish_merged: the buffer's own findings stand in for the harvester's.  *)
Merged(buffers, envs, f) ==
    IF buffers[f] # None THEN buffers[f] ELSE IF envs[f] # None THEN envs[f] ELSE {}

Publish(buffers, envs, files) ==
    shown' = [f \in EnvFiles |->
                IF f \in files THEN Merged(buffers, envs, f) ELSE shown[f]]

IsProject(f) == f[2] = "Project"

(* A revert tells the database something only if it tracks the file: the    *)
(* sources' reverts are AnalysisPipeline's, a manifest is never tracked.    *)
Reverts(files) ==
    SetToSeq({[kind |-> "Revert", file |-> f, text |-> None] :
                f \in {g \in files \cap EnvFiles : IsProject(g)}})

(* harvest_signal.                                                          *)
SignalFor(f) == IF f \in EnvFiles THEN Environment ELSE f

(* route_document: a project file's text goes to the database, and the      *)
(* findings of the buffer are derived again, published if there is          *)
(* something to say or to take back.                                        *)
RouteDocument(f, text) ==
    LET diags == SyntaxFindings(text)
        kept == IF diags = {} THEN None ELSE diags
    IN  /\ documents' = [documents EXCEPT ![f] = text]
        /\ sync_rx' = IF IsProject(f)
                      THEN Append(sync_rx, [kind |-> "SetText", file |-> f, text |-> text])
                      ELSE sync_rx
        /\ buffer_diags' = [buffer_diags EXCEPT ![f] = kept]
        /\ IF diags = {} /\ buffer_diags[f] = None
           THEN UNCHANGED shown
           ELSE Publish(buffer_diags', env_diags, {f})

DidOpen(f) ==
    /\ Spend("opens")
    /\ documents[f] = None
    /\ disk[f] # Absent
    /\ RouteDocument(f, disk[f])
    /\ UNCHANGED <<disk, unreported, env_diags, harvest_rx, library_rx, out_rx, refresh,
                   harvester, published_env_files, dbVars, linted, unresolved>>

DidChange(f, text) ==
    /\ Spend("edits")
    /\ documents[f] \notin {None, text}
    /\ RouteDocument(f, text)
    /\ UNCHANGED <<disk, unreported, env_diags, harvest_rx, library_rx, out_rx, refresh,
                   harvester, published_env_files, dbVars, linted, unresolved>>

(* didClose: the tracked text is reverted and the harvester's findings are  *)
(* what remains.                                                            *)
DidClose(f) ==
    /\ Spend("closes")
    /\ documents[f] # None
    /\ documents' = [documents EXCEPT ![f] = None]
    /\ buffer_diags' = [buffer_diags EXCEPT ![f] = None]
    /\ sync_rx' = sync_rx \o Reverts({f})
    /\ Publish(buffer_diags', env_diags, {f})
    /\ UNCHANGED <<disk, unreported, env_diags, harvest_rx, library_rx, out_rx, refresh,
                   harvester, published_env_files, dbVars, linted, unresolved>>

(* didSave, after the client wrote the buffer.                              *)
DidSave(f) ==
    /\ Spend("saves")
    /\ documents[f] \notin {None, disk[f]}
    /\ OnDisk([g \in {f} |-> documents[f]], "written")
    /\ harvest_rx' = Append(harvest_rx, SignalFor(f))
    /\ UNCHANGED <<mainVars, sync_rx, library_rx, out_rx, refresh, harvester,
                   published_env_files, dbVars, linted>>

DidSaveSource(s, content) ==
    /\ Spend("sources")
    /\ disk[s] \notin {Absent, content}
    /\ OnDisk([g \in {s} |-> content], "written")
    /\ harvest_rx' = Append(harvest_rx, SignalFor(s))
    /\ UNCHANGED <<mainVars, sync_rx, library_rx, out_rx, refresh, harvester,
                   published_env_files, dbVars, linted>>

(* Another program writes, creates or deletes a file.                       *)
Rewrite(f, text) ==
    /\ Spend("writes")
    /\ disk[f] # text
    /\ OnDisk([g \in {f} |-> text], "written")
    /\ UNCHANGED <<mainVars, harvest_rx, sync_rx, library_rx, out_rx, refresh,
                   harvester, published_env_files, dbVars, linted>>

(* on_watched_files: every file without a buffer is synced to disk; one     *)
(* environment file makes the whole batch one re-resolve.                   *)
DidChangeWatchedFiles(batch) ==
    /\ batch # {}
    /\ unreported' = unreported \ batch
    /\ sync_rx' = sync_rx \o Reverts({f \in batch \cap EnvFiles : documents[f] = None})
    /\ harvest_rx' = IF batch \cap EnvFiles # {}
                     THEN Append(harvest_rx, Environment)
                     ELSE harvest_rx \o SetToSeq(batch)
    /\ UNCHANGED <<disk, budget, mainVars, library_rx, out_rx, refresh, harvester,
                   published_env_files, dbVars, linted, unresolved>>

(* rename_files::collect_package_edits: moving the entry of a registered    *)
(* package to another name edits the name in its project file, as the       *)
(* database tracks it.                                                      *)
NameFollows(p, n) ==
    /\ \E name \in DOMAIN project_files : project_files[name] = p
    /\ Parses(tracked[p])
    /\ tracked[p].name = n

(* workspace/willRenameFiles and didRenameFiles of an entry file.  The      *)
(* client applies the edit to the buffer, or to the file without one.       *)
RenameEntry(p, n, m) ==
    LET f == ProjectOf(p)
        old == EntryOf[p][n]
        new == EntryOf[p][m]
        current == IF documents[f] # None THEN documents[f] ELSE disk[f]
        edited == [tracked[p] EXCEPT !.name = m]
        moved == [s \in {old, new} |-> IF s = old THEN Absent ELSE disk[old]]
        renamed == [kind |-> "RenamedProjects", old |-> old,
                    open |-> {q \in Projects : documents[ProjectOf(q)] # None}]
        signals == <<SignalFor(old), SignalFor(new)>>
    IN  /\ Spend("renames")
        /\ disk[old] # Absent /\ disk[new] = Absent
        /\ NameFollows(p, n) => tracked[p] = current
        /\ IF NameFollows(p, n) /\ documents[f] # None
           THEN /\ documents' = [documents EXCEPT ![f] = edited]
                /\ OnDisk(moved, "renamed")
                /\ sync_rx' = sync_rx \o <<[kind |-> "SetText", file |-> f, text |-> edited],
                                           renamed>>
           ELSE /\ UNCHANGED documents
                /\ OnDisk(IF NameFollows(p, n) THEN Put(moved, f, edited) ELSE moved,
                          IF NameFollows(p, n) THEN "renamed" ELSE "moved")
                /\ sync_rx' = Append(sync_rx, renamed)
        /\ harvest_rx' = harvest_rx \o signals
        /\ UNCHANGED <<buffer_diags, env_diags, shown, library_rx, out_rx, refresh,
                       harvester, published_env_files, dbVars, linted>>

(* on_outbound, the EnvironmentDiagnostics arm.                             *)
TakeFindings ==
    LET msg == Head(out_rx)
    IN  /\ out_rx # <<>>
        /\ out_rx' = Tail(out_rx)
        /\ env_diags' = [env_diags EXCEPT ![msg.file] =
                            IF msg.diags = {} THEN None ELSE msg.diags]
        /\ Publish(buffer_diags, env_diags', {msg.file})
        /\ UNCHANGED <<clientVars, documents, buffer_diags, harvest_rx, sync_rx,
                       library_rx, refresh, harvester, published_env_files, dbVars,
                       linted, unresolved>>
-----------------------------------------------------------------------------
(* The analysis thread.                                                     *)

(* The dependencies a project file declares, as project_declared_deps reads *)
(* them off a tracked text; None for a file no package claims.              *)
DepsIn(text) == IF text # None /\ Parses(text) THEN text.deps ELSE None

DeclaredDepsOf(texts, p) ==
    IF \E name \in DOMAIN project_files : project_files[name] = p
    THEN DepsIn(texts[p])
    ELSE None

(* revert_file_to_disk: a file that is not tracked, or cannot be read, is   *)
(* left alone.                                                              *)
RevertedText(texts, p) ==
    IF texts[p] = None \/ disk[ProjectOf(p)] = Absent THEN texts[p] ELSE disk[ProjectOf(p)]

(* As RefreshIfDepsChanged, comparing what was declared before the write    *)
(* with itself (a mutant).                                                  *)
RefreshIfDepsDiffer ==
    refresh' = (refresh \/ \E p \in Projects :
                              DeclaredDepsOf(tracked, p) # DeclaredDepsOf(tracked, p))

(* refresh_if_declared_deps_changed.                                        *)
RefreshIfDepsChanged ==
    refresh' = (refresh \/ \E p \in Projects :
                              DeclaredDepsOf(tracked', p) # DeclaredDepsOf(tracked, p))

OnSyncMessage ==
    LET msg == Head(sync_rx)
    IN  /\ sync_rx # <<>>
        /\ sync_rx' = Tail(sync_rx)
        /\ CASE msg.kind = "SetText" ->
                 /\ tracked' = [tracked EXCEPT ![msg.file[1]] = msg.text]
                 /\ UNCHANGED harvest_rx
             [] msg.kind = "Revert" ->
                 /\ tracked' = [tracked EXCEPT ![msg.file[1]] =
                                  RevertedText(tracked, msg.file[1])]
                 /\ UNCHANGED harvest_rx
             [] OTHER ->
                 LET moved == {project_files[n] : n \in
                                 {n \in workspaces \cap DOMAIN project_files :
                                    EntryOf[project_files[n]][n] = msg.old}}
                 IN  /\ tracked' = [p \in Projects |->
                                      IF p \in moved \ msg.open
                                      THEN RevertedText(tracked, p)
                                      ELSE tracked[p]]
                     /\ harvest_rx' = IF moved = {} THEN harvest_rx
                                      ELSE Append(harvest_rx, Environment)
        /\ RefreshIfDepsChanged
        /\ UNCHANGED <<clientVars, mainVars, library_rx, out_rx, harvester,
                       published_env_files, project_files, packages, workspaces,
                       linted, unresolved>>

(* As Seeded, overwriting what is tracked (a mutant).                       *)
SeededFromDisk(p) ==
    IF disk[ProjectOf(p)] = Absent THEN tracked[p] ELSE disk[ProjectOf(p)]

(* seed_disk_file: create or return, an open buffer is never overwritten.   *)
Seeded(p) ==
    IF tracked[p] # None \/ disk[ProjectOf(p)] = Absent THEN tracked[p] ELSE disk[ProjectOf(p)]

(* set_project_files: a file that is neither tracked nor readable           *)
(* contributes no entry.                                                    *)
Claimed(files) == {n \in DOMAIN files : Seeded(files[n]) # None}

(* LibraryMessage::Full and ::Package.  Both refresh the open documents, as *)
(* part of the include-graph publish.                                       *)
OnFullLibrary(msg) ==
    LET files == msg.project_files
    IN  /\ tracked' = [p \in Projects |->
                         IF \E n \in DOMAIN files : files[n] = p THEN Seeded(p) ELSE tracked[p]]
        /\ project_files' = [n \in Claimed(files) |-> files[n]]
        /\ packages' = msg.packages
        /\ workspaces' = DOMAIN files

OnPackage(msg) ==
    /\ packages' = Put(packages, msg.name, msg.index)
    /\ UNCHANGED <<tracked, project_files, workspaces>>

OnLibraryMessage ==
    LET msg == Head(library_rx)
    IN  /\ library_rx # <<>>
        /\ library_rx' = Tail(library_rx)
        /\ IF msg.kind = "Full" THEN OnFullLibrary(msg) ELSE OnPackage(msg)
        /\ refresh' = TRUE
        /\ UNCHANGED <<clientVars, mainVars, harvest_rx, sync_rx, out_rx, harvester,
                       published_env_files, linted, unresolved>>

(* What a lint reads of the packages under development.                     *)
Premises == [deps |-> [n \in DOMAIN project_files |-> DepsIn(tracked[project_files[n]])],
             packages |-> packages]

(* The refresh reaches the main loop, which asks for every open document to *)
(* be analysed again, and the analyses read the database as it is then.     *)
Relint ==
    /\ refresh
    /\ refresh' = FALSE
    /\ linted' = Premises
    /\ UNCHANGED <<clientVars, mainVars, harvest_rx, sync_rx, library_rx, out_rx,
                   harvester, published_env_files, dbVars, unresolved>>
-----------------------------------------------------------------------------
(* The harvester.                                                           *)

At(place) == harvester.at = place

HarvesterOnly ==
    UNCHANGED <<clientVars, mainVars, harvest_rx, sync_rx, library_rx, out_rx, refresh,
                published_env_files, dbVars, linted, unresolved>>

NextRoot(h) ==
    [h EXCEPT !.at = IF Len(h.roots) > 1 THEN "locate" ELSE "publish",
              !.roots = Tail(h.roots)]

Locate ==
    LET p == Located(Head(harvester.roots))
    IN  /\ At("locate")
        /\ harvester' = IF p = None
                        THEN NextRoot(harvester)
                        ELSE [harvester EXCEPT !.at = "read", !.located = p]
        /\ HarvesterOnly

(* A folder whose environment does not resolve contributes a finding on the *)
(* file at fault, unless it has some already; a project two folders share   *)
(* is taken once.                                                           *)
ReadEnvironment ==
    LET env == Resolved(harvester.located)
        fault == env.fault
        seen == \E i \in DOMAIN harvester.envs : harvester.envs[i].project = harvester.located
    IN  /\ At("read")
        /\ harvester' =
             IF fault # None
             THEN NextRoot([harvester EXCEPT !.findings =
                             IF fault \in DOMAIN @ THEN @
                             ELSE Put(@, fault, SyntaxFindings(Broken))])
             ELSE IF seen
             THEN NextRoot(harvester)
             ELSE [harvester EXCEPT !.at = "check", !.env = env]
        /\ HarvesterOnly

CheckEnvironment ==
    LET env == harvester.env
        f == ProjectOf(env.project)
        diags == SemanticFindings(env, disk[f])
        found == IF diags = {}
                 THEN harvester.findings
                 ELSE Put(harvester.findings, f, diags)
    IN  /\ At("check")
        /\ harvester' = NextRoot([harvester EXCEPT !.findings = found,
                                                   !.envs = Append(@, env)])
        /\ HarvesterOnly

(* publish_environment_diagnostics: the files with findings, and an empty   *)
(* publish for those that had some on the previous pass.                    *)
PublishEnvironmentDiagnostics ==
    LET found == harvester.findings
        now == DOMAIN found
        cleared == published_env_files \ now
        Say(files, diags(_)) ==
          SetToSeq({[file |-> f, diags |-> diags(f)] : f \in files})
    IN  /\ At("publish")
        /\ out_rx' = out_rx \o Say(now, LAMBDA f : found[f]) \o Say(cleared, LAMBDA f : {})
        /\ published_env_files' = now
        /\ harvester' = [harvester EXCEPT !.at = "list"]
        /\ UNCHANGED <<clientVars, mainVars, harvest_rx, sync_rx, library_rx, refresh,
                       dbVars, linted, unresolved>>

(* The packages whose source signals will be answered; the harvest asks     *)
(* again which packages there are, after the system library.                *)
ListPackages ==
    /\ At("list")
    /\ harvester' = [harvester EXCEPT !.at = "claim", !.devs = DevPackages(harvester.envs)]
    /\ HarvesterOnly

ClaimPackages ==
    /\ At("claim")
    /\ harvester' = [harvester EXCEPT !.at = "harvest", !.todo = DevPackages(harvester.envs)]
    /\ HarvesterOnly

HarvestPackage ==
    LET dev == harvester.todo[Cardinality(DOMAIN harvester.library) + 1]
    IN  /\ At("harvest")
        /\ Cardinality(DOMAIN harvester.library) < Len(harvester.todo)
        /\ harvester' = [harvester EXCEPT !.library =
                           Put(@, dev.name, HarvestWorkspace(dev))]
        /\ HarvesterOnly

(* As SendLibrary, keeping what was sent before the pass (a mutant).        *)
SendLibraryKeepingLast ==
    LET todo == harvester.todo
    IN  /\ At("harvest")
        /\ DOMAIN harvester.library = NamesOf(todo)
        /\ library_rx' = Append(library_rx,
             [kind |-> "Full", packages |-> harvester.library,
              project_files |-> [n \in NamesOf(todo) |-> DevNamed(todo, n).project]])
        /\ harvester' = [Start(harvester.last) EXCEPT !.at = "wait", !.roots = <<>>,
                                             !.devs = harvester.devs]
        /\ UNCHANGED <<clientVars, mainVars, harvest_rx, sync_rx, out_rx, refresh,
                       published_env_files, dbVars, linted, unresolved>>

(* As SendLibrary, dropping the signals sent during the pass (a mutant).    *)
SendLibraryAndDrain ==
    LET todo == harvester.todo
    IN  /\ At("harvest")
        /\ DOMAIN harvester.library = NamesOf(todo)
        /\ library_rx' = Append(library_rx,
             [kind |-> "Full", packages |-> harvester.library,
              project_files |-> [n \in NamesOf(todo) |-> DevNamed(todo, n).project]])
        /\ harvester' = [Start(Empty) EXCEPT !.at = "wait", !.roots = <<>>,
                                             !.devs = harvester.devs]
        /\ harvest_rx' = <<>>
        /\ UNCHANGED <<clientVars, mainVars, sync_rx, out_rx, refresh,
                       published_env_files, dbVars, linted, unresolved>>

(* The pass is over: the library is sent and the signals are served,        *)
(* with nothing remembered of what was sent for one package before.         *)
SendLibrary ==
    LET todo == harvester.todo
    IN  /\ At("harvest")
        /\ DOMAIN harvester.library = NamesOf(todo)
        /\ library_rx' = Append(library_rx,
             [kind |-> "Full", packages |-> harvester.library,
              project_files |-> [n \in NamesOf(todo) |-> DevNamed(todo, n).project]])
        /\ harvester' = [Start(Empty) EXCEPT !.at = "wait", !.roots = <<>>,
                                             !.devs = harvester.devs]
        /\ UNCHANGED <<clientVars, mainVars, harvest_rx, sync_rx, out_rx, refresh,
                       published_env_files, dbVars, linted, unresolved>>

(* An environment signal swallows the queue: the pass it starts reads       *)
(* whatever the signals were about.                                         *)
Resolve ==
    /\ At("wait")
    /\ harvest_rx # <<>> /\ Head(harvest_rx) = Environment
    /\ harvest_rx' = <<>>
    /\ harvester' = Start(harvester.last)
    /\ unresolved' = {}
    /\ UNCHANGED <<clientVars, mainVars, sync_rx, library_rx, out_rx, refresh,
                   published_env_files, dbVars, linted>>

(* The package a changed source belongs to: the longest src/ prefix.        *)
OwnerOf(s) ==
    LET owners == {dev \in ToSet(harvester.devs) : dev.project \in UnderSrc[s]}
    IN  IF owners = {}
        THEN None
        ELSE CHOOSE dev \in owners : \A d \in owners : Depth[d.project] <= Depth[dev.project]

(* As TakeSource, leaving a signal no package owns in the queue (a mutant). *)
TakeOwnedSource ==
    /\ At("wait")
    /\ harvest_rx # <<>> /\ Head(harvest_rx) # Environment
    /\ harvest_rx' = IF OwnerOf(Head(harvest_rx)) = None THEN harvest_rx
                     ELSE Tail(harvest_rx)
    /\ LET dev == OwnerOf(Head(harvest_rx))
       IN  harvester' = IF dev = None
                        THEN harvester
                        ELSE [harvester EXCEPT !.at = "reharvest", !.dev = dev]
    /\ UNCHANGED <<clientVars, mainVars, sync_rx, library_rx, out_rx, refresh,
                   published_env_files, dbVars, linted, unresolved>>

TakeSource ==
    /\ At("wait")
    /\ harvest_rx # <<>> /\ Head(harvest_rx) # Environment
    /\ harvest_rx' = Tail(harvest_rx)
    /\ LET dev == OwnerOf(Head(harvest_rx))
       IN  harvester' = IF dev = None
                        THEN harvester
                        ELSE [harvester EXCEPT !.at = "reharvest", !.dev = dev]
    /\ UNCHANGED <<clientVars, mainVars, sync_rx, library_rx, out_rx, refresh,
                   published_env_files, dbVars, linted, unresolved>>

(* An index equal to the last one sent is not sent again.                   *)
Reharvest ==
    LET dev == harvester.dev
        index == HarvestWorkspace(dev)
        same == dev.name \in DOMAIN harvester.last /\ harvester.last[dev.name] = index
    IN  /\ At("reharvest")
        /\ harvester' = [harvester EXCEPT !.at = "wait", !.dev = None,
                                          !.last = Put(@, dev.name, index)]
        /\ library_rx' = IF same
                         THEN library_rx
                         ELSE Append(library_rx, [kind |-> "Package", name |-> dev.name,
                                                  index |-> index])
        /\ UNCHANGED <<clientVars, mainVars, harvest_rx, sync_rx, out_rx, refresh,
                       published_env_files, dbVars, linted, unresolved>>
-----------------------------------------------------------------------------
Client ==
    \/ \E f \in EnvFiles : DidOpen(f) \/ DidClose(f) \/ DidSave(f)
    \/ \E f \in EnvFiles : \E text \in TypedIn[f] : DidChange(f, text)
    \/ \E s \in Sources, content \in Contents : DidSaveSource(s, content)
    \/ \E f \in DOMAIN disk : \E text \in WrittenTo[f] : Rewrite(f, text)
    \/ \E p \in Projects, n, m \in Names : n # m /\ RenameEntry(p, n, m)

Watcher == \E batch \in SUBSET unreported : DidChangeWatchedFiles(batch)

AnalysisThread == OnSyncMessage \/ OnLibraryMessage

Harvester ==
    \/ Locate \/ ReadEnvironment \/ CheckEnvironment
    \/ PublishEnvironmentDiagnostics
    \/ ListPackages \/ ClaimPackages \/ HarvestPackage \/ SendLibrary
    \/ Resolve \/ TakeSource \/ Reharvest

Next ==
    \/ Client \/ Watcher \/ TakeFindings \/ Relint
    \/ AnalysisThread \/ Harvester

Spec == Init /\ [][Next]_vars

(* A watching client reports what changed; the three threads serve their    *)
(* channels; the client's own steps are free.                               *)
FairSpec ==
    /\ Spec
    /\ WF_vars(Watcher)
    /\ WF_vars(TakeFindings) /\ WF_vars(Relint)
    /\ WF_vars(OnSyncMessage) /\ WF_vars(OnLibraryMessage)
    /\ WF_vars(Harvester)
-----------------------------------------------------------------------------
(* Properties.                                                              *)

(* Nothing is on its way: every change is reported, every channel is empty  *)
(* and the harvester waits for a signal.                                    *)
Quiet ==
    /\ unreported = {}
    /\ harvest_rx = <<>> /\ sync_rx = <<>> /\ library_rx = <<>> /\ out_rx = <<>>
    /\ ~refresh
    /\ At("wait")

(* What a resolve of the files as they are would find.                      *)
FreshEnvs ==
    LET Add(envs, dirs) ==
          LET p == Located(dirs)
          IN  IF p = None \/ \E i \in DOMAIN envs : envs[i].project = p
              THEN envs
              ELSE IF Resolved(p).fault # None THEN envs ELSE Append(envs, Resolved(p))
    IN  FoldLeft(Add, <<>>, WalkUps)

FreshDevs == DevPackages(FreshEnvs)

FreshFindings(f) ==
    LET faulty == {i \in DOMAIN WalkUps : /\ Located(WalkUps[i]) # None
                                          /\ Resolved(Located(WalkUps[i])).fault = f}
        checked == {env \in ToSet(FreshEnvs) : ProjectOf(env.project) = f}
    IN  IF faulty # {}
        THEN SyntaxFindings(Broken)
        ELSE UNION {SemanticFindings(env, disk[f]) : env \in checked}

(* What the proofs of the library suppose: other programs write only where  *)
(* the client watches; every file of a package lies in its project's src    *)
(* directory, and in no other project's that is nested in there.            *)
WritesAreReported == \A b \in Budgets : b.watched \/ b.writes = 0
FilesUnderSrc ==
    \A p \in Projects : \A s \in ReadBy[p] \cup {EntryOf[p][n] : n \in Names} :
        p \in UnderSrc[s] /\ \A q \in UnderSrc[s] : q = p \/ Depth[q] < Depth[p]

(* The harvest found another folder's package under the name of one that    *)
(* was listed just before: an entry file came or went in between.           *)
NameTaken(dev) ==
    dev.name \in DOMAIN project_files /\ project_files[dev.name] # dev.project

(* Once every signal is served, the database holds the packages a resolve   *)
(* of the files on disk would find, each with the index a harvest would     *)
(* give now: no signal is lost, coalesced away or overtaken by an older     *)
(* harvest.  Left out: an entry file that came or went since the last       *)
(* resolve, for which the code signals a source, not an environment; even   *)
(* then a package the harvester serves has the index of its files as they   *)
(* are, if its name was not taken. *)
LibraryCurrentWhenQuiet ==
    Quiet =>
        /\ unresolved = {} =>
             /\ workspaces = NamesOf(FreshDevs)
             /\ DOMAIN packages = workspaces
             /\ \A i \in DOMAIN FreshDevs :
                  /\ packages[FreshDevs[i].name] = HarvestWorkspace(FreshDevs[i])
                  /\ project_files[FreshDevs[i].name] = FreshDevs[i].project
        /\ \A dev \in ToSet(harvester.devs) : ~NameTaken(dev) =>
             /\ dev.name \in DOMAIN packages
             /\ packages[dev.name] = HarvestWorkspace(dev)

(* What the harvester takes to be the last index of a package is the one    *)
(* the database holds once the messages on their way are installed: only    *)
(* then is leaving out an equal one right.                                  *)
LastIsWhatTheDatabaseWillHold ==
    LET Install(held, msg) ==
          IF msg.kind = "Full" THEN msg.packages ELSE Put(held, msg.name, msg.index)
        held == FoldLeft(Install, packages, library_rx)
        last == harvester.last
    IN  At("wait") \/ At("reharvest") =>
          \A n \in DOMAIN last : n \in DOMAIN held /\ last[n] = held[n]

(* An empty publish only ever takes back findings: the main loop holds some *)
(* for the file when the message arrives ("a fixed one can be cleared       *)
(* exactly once").                                                          *)
ClearsTakeBack ==
    \A i \in DOMAIN out_rx :
        LET before == {j \in 1 .. i - 1 : out_rx[j].file = out_rx[i].file}
            last == CHOOSE j \in before : \A k \in before : k <= j
        IN  out_rx[i].diags = {} =>
              IF before = {} THEN env_diags[out_rx[i].file] # None
              ELSE out_rx[last].diags # {}

(* Once everything is served, the client sees of each environment file the  *)
(* buffer's own findings while it does not parse, and otherwise what a      *)
(* resolve of the files on disk finds: no late result of the harvester      *)
(* hides or outlives either, and nothing is cleared twice.                  *)
FindingsCurrentWhenQuiet ==
    /\ Quiet /\ unresolved = {} =>
        \A f \in EnvFiles :
            shown[f] = IF documents[f] = Broken
                       THEN SyntaxFindings(documents[f])
                       ELSE FreshFindings(f)
    /\ ClearsTakeBack

(* A tracked project file holds its buffer while it is open and the file on *)
(* disk otherwise, whatever the order of the edits, the reverts, the seeds  *)
(* of a new library and the renames.                                        *)
ProjectTextTracked ==
    Quiet => \A p \in Projects :
        LET f == ProjectOf(p)
        IN  tracked[p] # None =>
              IF documents[f] # None THEN tracked[p] = documents[f]
              ELSE disk[f] # Absent => tracked[p] = disk[f]

(* The open documents were linted with the indexes and the declared         *)
(* dependencies the database holds: every change of either refreshes them.  *)
LintedWithCurrentPremises == ~refresh => linted = Premises

(* The files of a working set settle: from some point on every signal is    *)
(* served, so that all of the above holds of the files as they are.         *)
EventuallyServed == <>[]Quiet

(* "Refresh project files edited by an entry rename, then request a full    *)
(* resolve" (on_did_rename_files), without the help of a watcher.  This     *)
(* does not hold: see the README.                                           *)
EntryRenamesResolve == Quiet => "renamed" \notin unresolved
=============================================================================
