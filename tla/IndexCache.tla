------------------------------- MODULE IndexCache -------------------------------
(***************************************************************************)
(* The on-disk cache of harvested packages (index/cache.rs), as the        *)
(* language server and `fatou lint` use it: several processes, of several  *)
(* builds, harvest a library's packages side by side, each from the entry  *)
(* of the package's key or, without one, from its source, and then store   *)
(* what they harvested.  Any of them may be killed at any point, and Julia *)
(* and the packages are upgraded meanwhile.                                *)
(*                                                                         *)
(* An index is told apart by what was harvested and by which build.        *)
(***************************************************************************)
EXTENDS Naturals, FiniteSets

CONSTANTS
    Processes,
    Builds,             \* versions of fatou
    System, Registered, Dev,   \* the packages of each kind
    Installs,           \* Julia installations: [minor, patch]
    FirstInstall,
    NoKey, NoIndex, NoEnv,
    MaxTree,            \* bound: the pinned tree of a registered package
    MaxSaves,           \* bound: edits of dev packages
    MaxStarts           \* bound: harvests begun

Packages == System \cup Registered \cup Dev

ASSUME KindsAssumption ==
    /\ System \cap Registered = {}
    /\ Dev \cap (System \cup Registered) = {}
ASSUME InstallsAssumption == FirstInstall \in Installs

Index(content, build) == [content |-> content, build |-> build]

VARIABLES
    install, pinned, saves,     \* the world: Julia, the manifest, the dev packages
    entries,                    \* path -> the file there, NoIndex if none
    env,                        \* the environment each process resolved
    task,                       \* how far it is with each package
    index,                      \* what it has for the package
    wanted,                     \* history: what a live harvest would have given
    starts

world == <<install, pinned, saves>>
cacheVars == <<world, entries, env, task, index, wanted, starts>>
-----------------------------------------------------------------------------
(* A plausible mistake: a dev package pinned at a tree is keyed by it.      *)
KeyWhateverKind(e, pkg) == IF pkg \in System THEN e.install.minor ELSE e.tree

(* CacheKey::for_system and for_package.  The version of an installation is *)
(* that of its stdlib directory, `stdlib/v1.11`. *)
Key(e, pkg) ==
    CASE pkg \in System -> e.install.minor
      [] pkg \in Registered -> e.tree
      [] pkg \in Dev -> NoKey

(* entry_path, below the version_segment of the build. *)
EntryPath(p, pkg) == <<env[p].build, pkg, Key(env[p], pkg)>>

(* load: the header must be this build's.  A file is renamed to its path    *)
(* when it is whole. *)
Load(p, pkg) ==
    LET path == EntryPath(p, pkg)
        entry == IF path \in DOMAIN entries THEN entries[path] ELSE NoIndex
    IN  IF entry # NoIndex /\ entry.build = env[p].build THEN entry ELSE NoIndex

(* What a package's source holds: installations and trees have paths of     *)
(* their own, a dev package is where it is edited. *)
Source(e, pkg) ==
    CASE pkg \in System -> e.install
      [] pkg \in Registered -> e.tree
      [] pkg \in Dev -> saves
-----------------------------------------------------------------------------
CacheInit ==
    /\ install = FirstInstall /\ pinned = 0 /\ saves = 0
    /\ starts = 0
    /\ entries = [path \in {} |-> NoIndex]
    /\ env = [p \in Processes |-> NoEnv]
    /\ task = [p \in Processes |-> [pkg \in Packages |-> "idle"]]
    /\ index = [p \in Processes |-> [pkg \in Packages |-> NoIndex]]
    /\ wanted = [p \in Processes |-> [pkg \in Packages |-> NoIndex]]

processes == <<entries, env, task, index, wanted, starts>>

Upgrade(new) == new # install /\ install' = new /\ UNCHANGED <<pinned, saves, processes>>
PinTree == pinned < MaxTree /\ pinned' = pinned + 1 /\ UNCHANGED <<install, saves, processes>>
SaveDev == saves < MaxSaves /\ saves' = saves + 1 /\ UNCHANGED <<install, pinned, processes>>

(* harvest_libraries_parallel: the environment is resolved, then every      *)
(* package is a task of the pool. *)
StartHarvest(p, build) ==
    /\ env[p] = NoEnv /\ starts < MaxStarts
    /\ starts' = starts + 1
    /\ env' = [env EXCEPT ![p] = [build |-> build, install |-> install, tree |-> pinned]]
    /\ task' = [task EXCEPT ![p] = [pkg \in Packages |-> "todo"]]
    /\ index' = [index EXCEPT ![p] = [pkg \in Packages |-> NoIndex]]
    /\ wanted' = [wanted EXCEPT ![p] = [pkg \in Packages |-> NoIndex]]
    /\ UNCHANGED <<world, entries>>

Advance(p, pkg, phase) == task' = [task EXCEPT ![p][pkg] = phase]

(* harvest_package_cached, harvest_system_one: an entry of the key, or a    *)
(* live harvest that is stored when there is a key. *)
HarvestOne(p, pkg) ==
    LET keyed == Key(env[p], pkg) # NoKey
        found == IF keyed THEN Load(p, pkg) ELSE NoIndex
        live == Index(Source(env[p], pkg), env[p].build)
    IN  /\ task[p][pkg] = "todo"
        /\ Advance(p, pkg, IF keyed /\ found = NoIndex THEN "store" ELSE "done")
        /\ index' = [index EXCEPT ![p][pkg] = IF found = NoIndex THEN live ELSE found]
        /\ wanted' = [wanted EXCEPT ![p][pkg] = live]
        /\ UNCHANGED <<world, entries, env, starts>>

(* store: a file of the process's own is written and then renamed.  The     *)
(* write may fail, and nobody reads what a killed process leaves. *)
WriteTemp(p, pkg) ==
    /\ task[p][pkg] = "store"
    /\ Advance(p, pkg, "rename") \/ Advance(p, pkg, "done")
    /\ UNCHANGED <<world, entries, env, index, wanted, starts>>

RenameTemp(p, pkg) ==
    LET path == EntryPath(p, pkg)
    IN  /\ task[p][pkg] = "rename"
        /\ Advance(p, pkg, "done")
        /\ entries' = [q \in DOMAIN entries \cup {path} |->
                          IF q = path THEN index[p][pkg] ELSE entries[q]]
        /\ UNCHANGED <<world, env, index, wanted, starts>>

(* The process ends, or is killed. *)
ProcessExit(p) ==
    /\ env[p] # NoEnv
    /\ env' = [env EXCEPT ![p] = NoEnv]
    /\ task' = [task EXCEPT ![p] = [pkg \in Packages |-> "idle"]]
    /\ index' = [index EXCEPT ![p] = [pkg \in Packages |-> NoIndex]]
    /\ wanted' = [wanted EXCEPT ![p] = [pkg \in Packages |-> NoIndex]]
    /\ UNCHANGED <<world, entries, starts>>

CacheNext ==
    \/ \E new \in Installs : Upgrade(new)
    \/ PinTree \/ SaveDev
    \/ \E p \in Processes :
          \/ \E build \in Builds : StartHarvest(p, build)
          \/ ProcessExit(p)
          \/ \E pkg \in Packages :
                HarvestOne(p, pkg) \/ WriteTemp(p, pkg) \/ RenameTemp(p, pkg)

CacheSpec == CacheInit /\ [][CacheNext]_cacheVars
-----------------------------------------------------------------------------
(* Properties.                                                              *)

(* "a hit is always for the right content" (CacheKey): whichever process    *)
(* of whichever build stored the entry, and wherever one was killed, a      *)
(* process gets for each package what a harvest of the source it resolved   *)
(* would have given.  It holds while Julia is upgraded from one minor       *)
(* version to another, and not when only its patch changes. *)
HitsAreForTheRightContent ==
    \A p \in Processes, pkg \in Packages :
        task[p][pkg] = "done" => index[p][pkg] = wanted[p][pkg]
=============================================================================
