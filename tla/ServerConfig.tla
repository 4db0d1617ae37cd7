------------------------------ MODULE ServerConfig ------------------------------
(***************************************************************************)
(* The language server's configuration (lsp/config.rs over config.rs): the *)
(* fatou.toml found above a document, which may extend other files and     *)
(* shadows the client's settings; the cache of what was found per          *)
(* directory; the watchers the server asks for on the files a fatou.toml   *)
(* extends; and what a change of any of them makes the open documents      *)
(* show, for clients that pull diagnostics and clients that do not.        *)
(*                                                                         *)
(* The user edits files on disk; the client reports the changes of the     *)
(* files it watches.  Both directions between client and server are FIFO.  *)
(* A configuration is one value: `Unset` keys are inherited.               *)
(***************************************************************************)
EXTENDS Naturals, Sequences, FiniteSets, SequencesExt

CONSTANTS
    Dirs,               \* directories that hold documents and fatou.toml files
    Above,              \* Above[d]: d and its ancestors up to the repository's root
    Bases,              \* other files that a configuration may extend
    Defaults,           \* the built-in configuration
    Unset, NoFile,
    Contents,           \* contents a fatou.toml may be given
    BaseContents,       \* and a file it extends
    FirstDisks,         \* what is there at first
    Payloads,           \* settings the client pushes: values, Null, Unparsable
    Null, Unparsable,
    NotCached, Failed,
    MaxEdits, MaxPushes

ConfigFiles == Dirs \cup Bases       \* a directory stands for its fatou.toml

ASSUME ConfigFilesAssumption == IsFiniteSet(ConfigFiles)

Missing == [kind |-> "missing"]
Broken == [kind |-> "broken"]
Config(value, extend) == [kind |-> "config", value |-> value, extend |-> extend]

VARIABLES
    disk,               \* the files
    mode,               \* the client: "push", "pull", or "pullRefresh" (with the refresh capability)
    watching,           \* whether it can register watchers
    watched,            \* the extended files it watches so far
    to_server, to_client,
    open,               \* directories whose document is open
    shown,              \* the configuration the document's findings were computed under
    must_pull,          \* documents the client has to pull
    client_config,      \* ConfigStore: client_config, by_dir, inherited_files
    by_dir,
    inherited_files,
    edits, pushes,
    unreported,         \* files changed without a report since the cache was last cleared
    unregistered        \* those among them whose watcher was on its way

configVars == <<disk, mode, watching, watched, to_server, to_client, open, shown, must_pull,
                client_config, by_dir, inherited_files, edits, pushes, unreported, unregistered>>
-----------------------------------------------------------------------------
(* Loading.                                                                 *)

(* load_merged_table: the nearest value, and the files passed through. *)
LoadMerged(files, first) ==
    LET load[f \in ConfigFiles, stack \in SUBSET ConfigFiles] ==
            IF files[f].kind # "config" \/ f \in stack THEN Failed
            ELSE IF files[f].extend = NoFile THEN [value |-> files[f].value, visited |-> {f}]
            ELSE LET inherited == load[files[f].extend, stack \cup {f}]
                 IN  IF inherited = Failed THEN Failed
                     ELSE [value |-> IF files[f].value = Unset THEN inherited.value ELSE files[f].value,
                           visited |-> inherited.visited \cup {f}]
    IN  load[first, {}]

(* discover: the first fatou.toml going up. *)
Discover(files, d) ==
    LET found == SelectSeq(Above[d], LAMBDA dir : files[dir] # Missing)
    IN  IF found = <<>> THEN NoFile ELSE found[1]

(* Config::resolve with for_uri's fallback on the client's settings; the    *)
(* files to watch are extended_paths of what was loaded. *)
Resolved(files, d, client) ==
    LET file == Discover(files, d)
        loaded == LoadMerged(files, file)
    IN  IF file = NoFile \/ loaded = Failed THEN [value |-> client, extended |-> {}]
        ELSE [value |-> IF loaded.value = Unset THEN Defaults ELSE loaded.value,
              extended |-> loaded.visited \ {file}]
-----------------------------------------------------------------------------
(* The store, as a record that handlers pass on.                            *)

Store == [client |-> client_config, by_dir |-> by_dir, inherited |-> inherited_files, sent |-> <<>>]

(* config_for, of each of these documents: a hit in the cache, or a load    *)
(* that registers a watcher for every extended file met first. *)
ConfigForAll(store, docs) ==
    LET missed == {d \in docs : store.by_dir[d] = NotCached}
        found == [d \in missed |-> Resolved(disk, d, store.client)]
        extended == {f \in ConfigFiles : \E d \in missed : f \in found[d].extended}
        fresh == SetToSeq(extended \ store.inherited)
    IN  [store EXCEPT !.by_dir = [d \in Dirs |-> IF d \in missed THEN found[d].value ELSE @[d]],
                      !.inherited = @ \cup extended,
                      !.sent = @ \o [i \in DOMAIN fresh |-> [kind |-> "watch", file |-> fresh[i]]]]

ConfigFor(store, d) == ConfigForAll(store, {d})

InvalidateDiscovered(store) == [store EXCEPT !.by_dir = [d \in Dirs |-> NotCached]]

(* A plausible mistake: the directories without a fatou.toml hold the old   *)
(* settings. *)
SetClientSettingsOnly(store, payload) ==
    IF payload \in {Null, Unparsable} THEN InvalidateDiscovered(store) ELSE [store EXCEPT !.client = payload]

SetClientSettings(store, payload) ==
    LET cleared == InvalidateDiscovered(store)
    IN  IF payload \in {Null, Unparsable} THEN cleared ELSE [cleared EXCEPT !.client = payload]

Refresh == [kind |-> "refresh"]

(* on_config_changed: analyses carry the rules to the writer in any mode,   *)
(* and show them in push mode; a pull client is asked to pull again. *)
OnConfigChanged(store) ==
    LET sent == ConfigForAll(store, open)
    IN  IF mode = "pullRefresh" THEN [sent EXCEPT !.sent = Append(@, Refresh)] ELSE sent

Commit(store) ==
    /\ client_config' = store.client /\ by_dir' = store.by_dir
    /\ inherited_files' = store.inherited
    /\ to_client' = to_client \o store.sent

(* What a push client then shows: every document analysed again. *)
Reanalysed(store, docs) ==
    [d \in Dirs |-> IF mode = "push" /\ d \in docs THEN store.by_dir[d] ELSE shown[d]]
-----------------------------------------------------------------------------
ConfigInit ==
    /\ disk \in FirstDisks
    /\ mode \in {"push", "pull", "pullRefresh"}
    /\ watching \in BOOLEAN
    /\ watched = {} /\ to_server = <<>> /\ to_client = <<>>
    /\ open = {} /\ must_pull = {} /\ shown = [d \in Dirs |-> NotCached]
    /\ client_config = Defaults
    /\ by_dir = [d \in Dirs |-> NotCached] /\ inherited_files = {}
    /\ edits = 0 /\ pushes = 0 /\ unreported = {} /\ unregistered = {}

server == <<client_config, by_dir, inherited_files, to_client>>
history == <<edits, pushes, unreported, unregistered>>
Send(message) == to_server' = Append(to_server, message)

(* The user changes a file, in an editor or by renaming one over it, and    *)
(* the client reports it if it may. *)
ChangeFile(f, content, by_rename) ==
    /\ edits < MaxEdits /\ disk[f] # content
    /\ edits' = edits + 1
    /\ disk' = [disk EXCEPT ![f] = content]
    /\ IF by_rename \/ (watching /\ (f \in Dirs \/ f \in watched))
       THEN /\ Send([kind |-> IF by_rename THEN "renamed" ELSE "changed", file |-> f])
            /\ UNCHANGED <<unreported, unregistered>>
       ELSE /\ unreported' = unreported \cup {f}
            /\ unregistered' = unregistered \cup ({f} \cap inherited_files)
            /\ UNCHANGED to_server
    /\ UNCHANGED <<server, mode, watching, watched, open, shown, must_pull, pushes>>

PushSettings(payload) ==
    /\ pushes < MaxPushes /\ pushes' = pushes + 1
    /\ Send([kind |-> "settings", payload |-> payload])
    /\ UNCHANGED <<server, disk, mode, watching, watched, open, shown, must_pull,
                   edits, unreported, unregistered>>

(* didOpen or didChange: route_document analyses the document; a pull       *)
(* client pulls. *)
EditDocument(d) ==
    LET store == ConfigFor(Store, d)
    IN  /\ to_server = <<>>
        /\ Commit(store)
        /\ open' = open \cup {d}
        /\ shown' = Reanalysed(store, {d})
        /\ must_pull' = IF mode = "push" THEN {} ELSE must_pull \cup {d}
        /\ UNCHANGED <<disk, mode, watching, watched, to_server, history>>

CloseDocument(d) ==
    /\ d \in open /\ to_server = <<>>
    /\ open' = open \ {d} /\ must_pull' = must_pull \ {d}
    /\ shown' = [shown EXCEPT ![d] = NotCached]
    /\ UNCHANGED <<server, disk, mode, watching, watched, to_server, history>>

(* on_document_diagnostic. *)
PullDiagnostics(d) ==
    LET store == ConfigFor(Store, d)
    IN  /\ d \in must_pull /\ to_server = <<>>
        /\ Commit(store)
        /\ must_pull' = must_pull \ {d}
        /\ shown' = [shown EXCEPT ![d] = store.by_dir[d]]
        /\ UNCHANGED <<disk, mode, watching, watched, to_server, open, history>>

(* Whether on_watched_files or on_did_rename_files take the file for a      *)
(* configuration file. *)
IsConfigFile(f) == f \in Dirs \/ f \in inherited_files

(* The server takes the next notification. *)
Handle ==
    LET message == Head(to_server)
        store == IF message.kind = "settings" THEN SetClientSettings(Store, message.payload)
                 ELSE InvalidateDiscovered(Store)
    IN  /\ to_server # <<>>
        /\ to_server' = Tail(to_server)
        /\ IF message.kind = "settings" \/ IsConfigFile(message.file)
           THEN LET changed == OnConfigChanged(store)
                IN  /\ Commit(changed)
                    /\ shown' = Reanalysed(changed, open)
                    /\ unreported' = {} /\ unregistered' = {}
           ELSE /\ unreported' = unreported \cup {message.file}
                /\ UNCHANGED <<server, shown, unregistered>>
        /\ UNCHANGED <<disk, mode, watching, watched, open, must_pull, edits, pushes>>

(* The client takes the next request of the server. *)
ClientHandles ==
    LET request == Head(to_client)
    IN  /\ to_client # <<>>
        /\ to_client' = Tail(to_client)
        /\ IF request = Refresh
           THEN must_pull' = open /\ UNCHANGED watched
           ELSE /\ watched' = IF watching THEN watched \cup {request.file} ELSE watched
                /\ UNCHANGED must_pull
        /\ UNCHANGED <<disk, mode, watching, to_server, open, shown, client_config, by_dir,
                       inherited_files, history>>

ConfigNext ==
    \/ \E d \in Dirs, c \in {Missing} \cup Contents, by_rename \in BOOLEAN : ChangeFile(d, c, by_rename)
    \/ \E b \in Bases, c \in {Missing} \cup BaseContents, by_rename \in BOOLEAN : ChangeFile(b, c, by_rename)
    \/ \E payload \in Payloads : PushSettings(payload)
    \/ \E d \in Dirs : EditDocument(d) \/ CloseDocument(d) \/ PullDiagnostics(d)
    \/ Handle
    \/ ClientHandles

ConfigSpec == ConfigInit /\ [][ConfigNext]_configVars
-----------------------------------------------------------------------------
(* Properties.                                                              *)

Quiet == to_server = <<>> /\ to_client = <<>> /\ must_pull = {}
NowFor(d) == Resolved(disk, d, client_config).value

(* Whatever was edited, pushed, extended or renamed in between: when every  *)
(* message is handled, the cache holds what the disk and the client's       *)
(* settings say, and the findings of every open document were computed      *)
(* under it -- unless nobody told the server of a change, or the client     *)
(* pulls and cannot be asked to. *)
ConfigCurrentWhenQuiet ==
    Quiet /\ unreported = {} =>
        /\ \A d \in Dirs : by_dir[d] # NotCached => by_dir[d] = NowFor(d)
        /\ mode # "pull" => \A d \in open : shown[d] = NowFor(d)

(* "Unreadable or unparsable file: ... keep the server working on the       *)
(* client settings until the file is fixed (its change event drops this     *)
(* cached fallback)" (lsp/config.rs for_uri): with a client that can watch  *)
(* files, an open document does not keep the fallback once the              *)
(* configuration loads again. *)
FallbackEndsWithTheFix ==
    Quiet /\ watching /\ mode = "push" /\ unregistered = {} =>
        \A d \in open : LET file == Discover(disk, d)
                        IN  file # NoFile /\ LoadMerged(disk, file) # Failed =>
                                shown[d] = NowFor(d)
=============================================================================
