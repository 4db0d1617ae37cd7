---------------------------- MODULE ComponentsProofs ----------------------------
(***************************************************************************)
(* Three of the components that share no state with the others, proved.    *)
(*                                                                         *)
(* IndexCache: whatever the processes, builds and packages, and wherever a *)
(* process is killed, a cached index is the one a harvest would have       *)
(* given: always for a registered or a dev package, and for a package of   *)
(* Julia's own as long as no two installations share a minor version.  The *)
(* argument: an entry's path tells what is in it.  The path of a           *)
(* registered package names the tree it was harvested from, that of a      *)
(* system package only the minor version.                                  *)
(*                                                                         *)
(* ServerConfig: whatever the directories, contents and settings, and      *)
(* however many changes the client reports, the findings that are shown    *)
(* when nothing is on its way were computed under the configuration of     *)
(* that moment.  The argument: a report the server has not taken yet       *)
(* excuses a stale cache, a pull not made yet a stale document, and no     *)
(* step leaves either behind without one.                                  *)
(*                                                                         *)
(* LintFixes: whatever the files, the rules that have fixes and what they  *)
(* rewrite, the rules a run has enabled and the fixes it may use, fixing a *)
(* file shows no finding that was suppressed in a statement left as it     *)
(* was, moves no statement to another line, and gives what applying the    *)
(* accepted fixes at once would.  The argument: a fix replaces a token by  *)
(* one of its kind or drops a comment, so the tree stays and each          *)
(* directive is for the statements it was for; and neither a suppressed    *)
(* statement nor what suppresses it is ever fixed.                         *)
(***************************************************************************)
EXTENDS IndexCache, ServerConfig, LintFixes, FiniteSetTheorems, SequenceTheorems, TLAPS

Environments == [build : Builds, install : Installs, tree : Nat]
Indexes == [content : Installs \cup Nat, build : Builds]

(* No two installations of Julia differ in their patch alone.               *)
MinorTellsInstall == \A a, b \in Installs : a.minor = b.minor => a = b

(* Two indexes of a package differ at most by the patch of the Julia whose  *)
(* package it is. *)
SameUpToPatch(pkg, a, b) ==
    IF pkg \in System
    THEN /\ a.build = b.build
         /\ a.content \in Installs /\ b.content \in Installs
         /\ a.content.minor = b.content.minor
    ELSE a = b
-----------------------------------------------------------------------------
(* The inductive invariant.                                                 *)

Types ==
    /\ install \in Installs /\ pinned \in Nat /\ saves \in Nat
    /\ env \in [Processes -> Environments \cup {NoEnv}]
    /\ task \in [Processes -> [Packages -> {"idle", "todo", "store", "rename", "done"}]]
    /\ index \in [Processes -> [Packages -> Indexes \cup {NoIndex}]]
    /\ wanted \in [Processes -> [Packages -> Indexes \cup {NoIndex}]]

(* An entry is what its path says.                                          *)
PathTellsContent(path, entry) ==
    /\ entry \in Indexes
    /\ entry.build = path[1]
    /\ path[2] \in Registered => entry.content = path[3]
    /\ path[2] \in System => entry.content \in Installs /\ entry.content.minor = path[3]
EntriesOK == \A path \in DOMAIN entries : PathTellsContent(path, entries[path])

(* A process at work on a package has an environment; what it is about to   *)
(* store is what it harvested, and what it has is what it wanted.           *)
HarvestOK(p, pkg) ==
    /\ task[p][pkg] # "idle" => env[p] \in Environments
    /\ task[p][pkg] \in {"store", "rename"} =>
         /\ pkg \notin Dev
         /\ index[p][pkg] = Index(Source(env[p], pkg), env[p].build)
    /\ task[p][pkg] \in {"store", "rename", "done"} =>
         /\ index[p][pkg] \in Indexes /\ wanted[p][pkg] \in Indexes
         /\ SameUpToPatch(pkg, index[p][pkg], wanted[p][pkg])
HarvestsOK == \A p \in Processes, pkg \in Packages : HarvestOK(p, pkg)

IndInv == Types /\ EntriesOK /\ HarvestsOK
-----------------------------------------------------------------------------
(* What a package's source and key are, kind by kind.                       *)
LEMMA KindsOfPackages ==
    ASSUME NEW e \in Environments, NEW pkg \in Packages
    PROVE  /\ pkg \in System => Key(e, pkg) = e.install.minor /\ Source(e, pkg) = e.install
           /\ pkg \in Registered => Key(e, pkg) = e.tree /\ Source(e, pkg) = e.tree
           /\ pkg \in Dev => Key(e, pkg) = NoKey /\ Source(e, pkg) = saves
           /\ pkg \in System \/ pkg \in Registered \/ pkg \in Dev
           /\ pkg \in Dev => pkg \notin System /\ pkg \notin Registered
           /\ pkg \in System => pkg \notin Registered
BY KindsAssumption DEF Packages, Key, Source

(* A harvest of a source is an index of it.                                 *)
LEMMA LiveHarvest ==
    ASSUME NEW e \in Environments, NEW pkg \in Packages, saves \in Nat
    PROVE  /\ Index(Source(e, pkg), e.build) \in Indexes
           /\ Index(Source(e, pkg), e.build).content = Source(e, pkg)
           /\ Index(Source(e, pkg), e.build).build = e.build
           /\ SameUpToPatch(pkg, Index(Source(e, pkg), e.build), Index(Source(e, pkg), e.build))
<1>1. Source(e, pkg) \in Installs \cup Nat /\ (pkg \in System => Source(e, pkg) \in Installs)
    BY KindsOfPackages DEF Environments
<1>2. QED
    BY <1>1 DEF Index, Indexes, Environments, SameUpToPatch

(* An entry that is loaded is, up to the patch, what a harvest would give.  *)
LEMMA LoadedEntry ==
    ASSUME Types, EntriesOK, NEW p \in Processes, NEW pkg \in Packages,
           env[p] \in Environments, Key(env[p], pkg) # NoKey, Load(p, pkg) # NoIndex
    PROVE  /\ Load(p, pkg) \in Indexes
           /\ SameUpToPatch(pkg, Load(p, pkg), Index(Source(env[p], pkg), env[p].build))
<1> DEFINE e == env[p]
           path == <<e.build, pkg, Key(e, pkg)>>
           live == Index(Source(e, pkg), e.build)
<1>1. path \in DOMAIN entries /\ Load(p, pkg) = entries[path]
    BY DEF Load, EntryPath
<1>2. PathTellsContent(path, Load(p, pkg))
    BY <1>1 DEF EntriesOK
<1>3. path[1] = e.build /\ path[2] = pkg /\ path[3] = Key(e, pkg)
    OBVIOUS
<1>4. live.content = Source(e, pkg) /\ live.build = e.build /\ live \in Indexes
    BY LiveHarvest DEF Types
<1>5. CASE pkg \in System
    <2>1. e.install \in Installs
        BY DEF Environments
    <2>2. QED
        BY <1>2, <1>3, <1>4, <1>5, <2>1, KindsOfPackages DEF PathTellsContent, SameUpToPatch
<1>6. CASE pkg \in Registered
    <2>1. Load(p, pkg).content = live.content /\ Load(p, pkg).build = live.build
        BY <1>2, <1>3, <1>4, <1>6, KindsOfPackages DEF PathTellsContent
    <2>2. Load(p, pkg) \in Indexes
        BY <1>2 DEF PathTellsContent
    <2>3. Load(p, pkg) = live
        BY <2>1, <2>2, <1>4 DEF Indexes
    <2>4. QED
        BY <2>2, <2>3, <1>6, KindsOfPackages DEF SameUpToPatch
<1>7. QED
    BY <1>5, <1>6, KindsOfPackages
-----------------------------------------------------------------------------
LEMMA InitHolds == CacheInit => IndInv
<1> SUFFICES ASSUME CacheInit PROVE IndInv
    OBVIOUS
<1>1. Types
    BY InstallsAssumption DEF CacheInit, Types
<1>2. EntriesOK
    BY DEF CacheInit, EntriesOK
<1>3. HarvestsOK
    BY DEF CacheInit, HarvestsOK, HarvestOK
<1>4. QED
    BY <1>1, <1>2, <1>3 DEF IndInv

(* A step of the world leaves every process and entry as they are; only a   *)
(* dev package's source moves with it.                                      *)
LEMMA WorldStep ==
    ASSUME IndInv, UNCHANGED processes, Types'
    PROVE  IndInv'
<1> USE DEF processes, IndInv
<1>1. EntriesOK'
    BY DEF EntriesOK, PathTellsContent
<1>2. ASSUME NEW p \in Processes, NEW pkg \in Packages
      PROVE  HarvestOK(p, pkg)'
    <2>1. HarvestOK(p, pkg)
        BY DEF HarvestsOK
    <2>2. ASSUME pkg \notin Dev, env[p] \in Environments
          PROVE  Source(env[p], pkg)' = Source(env[p], pkg)
        BY <2>2, KindsOfPackages DEF Source, Packages
    <2>3. QED
        BY <2>1, <2>2 DEF HarvestOK, SameUpToPatch, Index
<1>3. HarvestsOK'
    BY <1>2 DEF HarvestsOK
<1>4. QED
    BY <1>1, <1>3

(* What another process or another package has is left as it was.           *)
LEMMA Undisturbed ==
    ASSUME NEW p \in Processes, NEW pkg \in Packages, HarvestOK(p, pkg),
           task'[p][pkg] = task[p][pkg], index'[p][pkg] = index[p][pkg],
           wanted'[p][pkg] = wanted[p][pkg], env'[p] = env[p], saves' = saves
    PROVE  HarvestOK(p, pkg)'
<1>1. Source(env[p], pkg)' = Source(env[p], pkg)
    BY DEF Source
<1>2. QED
    BY <1>1 DEF HarvestOK, SameUpToPatch, Index
-----------------------------------------------------------------------------
(* The steps of a process.                                                  *)

LEMMA StartStep ==
    ASSUME IndInv, NEW p \in Processes, NEW build \in Builds, StartHarvest(p, build)
    PROVE  IndInv'
<1> USE DEF IndInv
<1> DEFINE e == [build |-> build, install |-> install, tree |-> pinned]
<1>1. e \in Environments
    BY DEF Types, Environments
<1>2. Types'
    BY <1>1 DEF Types, StartHarvest, world
<1>3. EntriesOK'
    BY DEF EntriesOK, PathTellsContent, StartHarvest
<1>4. ASSUME NEW q \in Processes, NEW pkg \in Packages
      PROVE  HarvestOK(q, pkg)'
    <2>1. CASE q = p
        <3>1. task'[q][pkg] = "todo" /\ env'[q] = e
            BY <2>1 DEF StartHarvest, Types
        <3>2. QED
            BY <3>1, <1>1 DEF HarvestOK
    <2>2. CASE q # p
        BY <2>2, Undisturbed DEF StartHarvest, Types, HarvestsOK, world
    <2>3. QED
        BY <2>1, <2>2
<1>5. QED
    BY <1>2, <1>3, <1>4 DEF HarvestsOK

LEMMA ExitStep ==
    ASSUME IndInv, NEW p \in Processes, ProcessExit(p)
    PROVE  IndInv'
<1> USE DEF IndInv
<1>1. Types'
    BY DEF Types, ProcessExit, world
<1>2. EntriesOK'
    BY DEF EntriesOK, PathTellsContent, ProcessExit
<1>3. ASSUME NEW q \in Processes, NEW pkg \in Packages
      PROVE  HarvestOK(q, pkg)'
    <2>1. CASE q = p
        <3>1. task'[q][pkg] = "idle"
            BY <2>1 DEF ProcessExit, Types
        <3>2. QED
            BY <3>1 DEF HarvestOK
    <2>2. CASE q # p
        BY <2>2, Undisturbed DEF ProcessExit, Types, HarvestsOK, world
    <2>3. QED
        BY <2>1, <2>2
<1>4. QED
    BY <1>1, <1>2, <1>3 DEF HarvestsOK

LEMMA HarvestStep ==
    ASSUME IndInv, NEW p \in Processes, NEW pkg \in Packages, HarvestOne(p, pkg)
    PROVE  IndInv'
<1> USE DEF IndInv
<1> DEFINE e == env[p]
           keyed == Key(e, pkg) # NoKey
           found == IF keyed THEN Load(p, pkg) ELSE NoIndex
           live == Index(Source(e, pkg), e.build)
           got == IF found = NoIndex THEN live ELSE found
           phase == IF keyed /\ found = NoIndex THEN "store" ELSE "done"
<1>1. e \in Environments
    BY DEF HarvestOne, HarvestsOK, HarvestOK
<1>2. live \in Indexes /\ SameUpToPatch(pkg, live, live)
    BY <1>1, LiveHarvest DEF Types
<1>3. got \in Indexes /\ SameUpToPatch(pkg, got, live)
    BY <1>1, <1>2, LoadedEntry
<1>4. /\ task' = [task EXCEPT ![p][pkg] = phase]
      /\ index' = [index EXCEPT ![p][pkg] = got]
      /\ wanted' = [wanted EXCEPT ![p][pkg] = live]
      /\ UNCHANGED <<install, pinned, saves, entries, env, starts>>
    BY DEF HarvestOne, Advance, world
<1>5. phase = "store" => pkg \notin Dev /\ got = live
    BY <1>1, KindsOfPackages
<1>6. phase \in {"store", "done"}
    OBVIOUS
<1> HIDE DEF phase, got, live
<1>7. /\ task' \in [Processes -> [Packages -> {"idle", "todo", "store", "rename", "done"}]]
      /\ task'[p][pkg] = phase
      /\ \A q \in Processes, other \in Packages :
            q # p \/ other # pkg => task'[q][other] = task[q][other]
    BY <1>4, <1>6 DEF Types
<1>8. /\ index' \in [Processes -> [Packages -> Indexes \cup {NoIndex}]]
      /\ index'[p][pkg] = got
      /\ \A q \in Processes, other \in Packages :
            q # p \/ other # pkg => index'[q][other] = index[q][other]
    BY <1>4, <1>3 DEF Types
<1>9. /\ wanted' \in [Processes -> [Packages -> Indexes \cup {NoIndex}]]
      /\ wanted'[p][pkg] = live
      /\ \A q \in Processes, other \in Packages :
            q # p \/ other # pkg => wanted'[q][other] = wanted[q][other]
    BY <1>4, <1>2 DEF Types
<1>10. Types'
    BY <1>4, <1>7, <1>8, <1>9 DEF Types
<1>11. EntriesOK'
    BY <1>4 DEF EntriesOK, PathTellsContent
<1>12. ASSUME NEW q \in Processes, NEW other \in Packages
       PROVE  HarvestOK(q, other)'
    <2>1. CASE q = p /\ other = pkg
        <3>1. live' = live
            BY <1>4 DEF live, Index, Source
        <3>2. Index(Source(env[p], pkg), env[p].build)' = live
            BY <3>1 DEF live
        <3>3. SameUpToPatch(pkg, index'[p][pkg], wanted'[p][pkg])
            BY <1>3, <1>8, <1>9
        <3>4. QED
            BY <2>1, <3>2, <3>3, <1>1, <1>2, <1>3, <1>4, <1>5, <1>6, <1>7, <1>8, <1>9
               DEF HarvestOK, SameUpToPatch
    <2>2. CASE ~(q = p /\ other = pkg)
        BY <2>2, <1>4, <1>7, <1>8, <1>9, Undisturbed DEF HarvestsOK
    <2>3. QED
        BY <2>1, <2>2
<1>13. QED
    BY <1>10, <1>11, <1>12 DEF HarvestsOK

LEMMA WriteStep ==
    ASSUME IndInv, NEW p \in Processes, NEW pkg \in Packages, WriteTemp(p, pkg)
    PROVE  IndInv'
<1> USE DEF IndInv
<1>1. PICK phase \in {"rename", "done"} : task' = [task EXCEPT ![p][pkg] = phase]
    BY DEF WriteTemp, Advance
<1>2. UNCHANGED <<install, pinned, saves, entries, env, index, wanted, starts>>
    BY DEF WriteTemp, world
<1>3. /\ task' \in [Processes -> [Packages -> {"idle", "todo", "store", "rename", "done"}]]
      /\ task'[p][pkg] = phase
      /\ \A q \in Processes, other \in Packages :
            q # p \/ other # pkg => task'[q][other] = task[q][other]
    BY <1>1 DEF Types
<1>4. Types'
    BY <1>2, <1>3 DEF Types
<1>5. EntriesOK'
    BY <1>2 DEF EntriesOK, PathTellsContent
<1>6. ASSUME NEW q \in Processes, NEW other \in Packages
      PROVE  HarvestOK(q, other)'
    <2>1. CASE q = p /\ other = pkg
        <3>1. HarvestOK(p, pkg) /\ task[p][pkg] = "store"
            BY DEF HarvestsOK, WriteTemp
        <3>2. Index(Source(env[p], pkg), env[p].build)' = Index(Source(env[p], pkg), env[p].build)
            BY <1>2 DEF Index, Source
        <3>3. QED
            BY <2>1, <3>1, <3>2, <1>2, <1>3 DEF HarvestOK, SameUpToPatch
    <2>2. CASE ~(q = p /\ other = pkg)
        BY <2>2, <1>2, <1>3, Undisturbed DEF HarvestsOK
    <2>3. QED
        BY <2>1, <2>2
<1>7. QED
    BY <1>4, <1>5, <1>6 DEF HarvestsOK

(* The entry stored is the harvest of the source its path names.            *)
LEMMA RenameStep ==
    ASSUME IndInv, NEW p \in Processes, NEW pkg \in Packages, RenameTemp(p, pkg)
    PROVE  IndInv'
<1> USE DEF IndInv
<1> DEFINE path == EntryPath(p, pkg)
<1>1. /\ task' = [task EXCEPT ![p][pkg] = "done"]
      /\ UNCHANGED <<install, pinned, saves, env, index, wanted, starts>>
      /\ entries' = [q \in DOMAIN entries \cup {path} |->
                        IF q = path THEN index[p][pkg] ELSE entries[q]]
    BY DEF RenameTemp, Advance, world
<1>2. /\ task' \in [Processes -> [Packages -> {"idle", "todo", "store", "rename", "done"}]]
      /\ task'[p][pkg] = "done"
      /\ \A q \in Processes, other \in Packages :
            q # p \/ other # pkg => task'[q][other] = task[q][other]
    BY <1>1 DEF Types
<1>3. Types'
    BY <1>1, <1>2 DEF Types
<1>4. HarvestOK(p, pkg) /\ task[p][pkg] = "rename"
    BY DEF HarvestsOK, RenameTemp
<1>5. env[p] \in Environments /\ index[p][pkg] = Index(Source(env[p], pkg), env[p].build)
    BY <1>4 DEF HarvestOK
<1>6. PathTellsContent(path, index[p][pkg])
    <2>1. path[1] = env[p].build /\ path[2] = pkg /\ path[3] = Key(env[p], pkg)
        BY DEF EntryPath
    <2>2. env[p].install \in Installs
        BY <1>5 DEF Environments
    <2>3. /\ index[p][pkg] \in Indexes
          /\ index[p][pkg].content = Source(env[p], pkg)
          /\ index[p][pkg].build = env[p].build
        BY <1>5, LiveHarvest DEF Types
    <2>4. QED
        BY <1>5, <2>1, <2>2, <2>3, KindsOfPackages DEF PathTellsContent
<1>7. EntriesOK'
    <2>1. ASSUME NEW q \in DOMAIN entries'
          PROVE  PathTellsContent(q, entries'[q])
        BY <1>1, <1>6 DEF EntriesOK
    <2>2. QED
        BY <2>1 DEF EntriesOK, PathTellsContent
<1>8. ASSUME NEW q \in Processes, NEW other \in Packages
      PROVE  HarvestOK(q, other)'
    <2>1. CASE q = p /\ other = pkg
        BY <2>1, <1>1, <1>2, <1>4 DEF HarvestOK, SameUpToPatch
    <2>2. CASE ~(q = p /\ other = pkg)
        BY <2>2, <1>1, <1>2, Undisturbed DEF HarvestsOK
    <2>3. QED
        BY <2>1, <2>2
<1>9. QED
    BY <1>3, <1>7, <1>8 DEF HarvestsOK
-----------------------------------------------------------------------------
LEMMA StepHolds == IndInv /\ [CacheNext]_cacheVars => IndInv'
<1> SUFFICES ASSUME IndInv, [CacheNext]_cacheVars PROVE IndInv'
    OBVIOUS
<1>1. ASSUME NEW new \in Installs, Upgrade(new)
      PROVE  IndInv'
    <2>1. UNCHANGED processes /\ Types'
        BY <1>1 DEF Upgrade, processes, IndInv, Types
    <2>2. QED
        BY <2>1, WorldStep
<1>2. ASSUME PinTree PROVE IndInv'
    <2>1. UNCHANGED processes /\ Types'
        BY <1>2 DEF PinTree, processes, IndInv, Types
    <2>2. QED
        BY <2>1, WorldStep
<1>3. ASSUME SaveDev PROVE IndInv'
    <2>1. UNCHANGED processes /\ Types'
        BY <1>3 DEF SaveDev, processes, IndInv, Types
    <2>2. QED
        BY <2>1, WorldStep
<1>4. CASE UNCHANGED cacheVars
    <2>1. UNCHANGED processes /\ Types'
        BY <1>4 DEF cacheVars, world, processes, IndInv, Types
    <2>2. QED
        BY <2>1, WorldStep
<1>5. QED
    BY <1>1, <1>2, <1>3, <1>4, StartStep, ExitStep, HarvestStep, WriteStep, RenameStep
       DEF CacheNext

LEMMA Inductive == CacheSpec => []IndInv
<1>1. QED
    BY InitHolds, StepHolds, PTL DEF CacheSpec
-----------------------------------------------------------------------------
(* For every package the index a process works with is, but for the patch   *)
(* of the Julia it is part of, the one a harvest of the source it resolved  *)
(* would have given, whoever stored it (CacheKey, load and store).          *)
HitsAreRightUpToPatch ==
    \A p \in Processes, pkg \in Packages :
        task[p][pkg] = "done" => SameUpToPatch(pkg, index[p][pkg], wanted[p][pkg])

THEOREM HitsAreRight == CacheSpec => []HitsAreRightUpToPatch
<1>1. IndInv => HitsAreRightUpToPatch
    BY DEF IndInv, HarvestsOK, HarvestOK, HitsAreRightUpToPatch
<1>2. QED
    BY <1>1, Inductive, PTL

(* "a hit is always for the right content" (CacheKey), wherever two         *)
(* installations of Julia never differ in their patch alone; the key of a   *)
(* system package does not tell such installations apart. *)
THEOREM HitsAreExact ==
    ASSUME MinorTellsInstall
    PROVE  CacheSpec => []HitsAreForTheRightContent
<1>1. IndInv => HitsAreForTheRightContent
    <2> SUFFICES ASSUME IndInv, NEW p \in Processes, NEW pkg \in Packages,
                        task[p][pkg] = "done"
                 PROVE  index[p][pkg] = wanted[p][pkg]
        BY DEF HitsAreForTheRightContent
    <2>1. /\ index[p][pkg] \in Indexes /\ wanted[p][pkg] \in Indexes
          /\ SameUpToPatch(pkg, index[p][pkg], wanted[p][pkg])
        BY DEF IndInv, HarvestsOK, HarvestOK
    <2>2. index[p][pkg].content = wanted[p][pkg].content /\ index[p][pkg].build = wanted[p][pkg].build
        BY <2>1, MinorTellsInstall DEF SameUpToPatch, MinorTellsInstall
    <2>3. QED
        BY <2>1, <2>2 DEF Indexes
<1>2. QED
    BY <1>1, Inductive, PTL
-----------------------------------------------------------------------------
(* ServerConfig.                                                            *)

ServerRequests == {Refresh} \cup [kind : {"watch"}, file : ConfigFiles]

ConfigTypes ==
    /\ mode \in {"push", "pull", "pullRefresh"}
    /\ open \subseteq Dirs /\ must_pull \subseteq open
    /\ DOMAIN by_dir = Dirs /\ DOMAIN shown = Dirs
    /\ to_client \in Seq(ServerRequests)

(* The server has been told of every change there was.                      *)
Told == to_server = <<>> /\ unreported = {}

CacheIsCurrent == Told => \A d \in Dirs : by_dir[d] # NotCached => by_dir[d] = NowFor(d)

(* A document shows what the configuration says, or the client is about to  *)
(* pull it: it knows it has to, or the request to is on its way.            *)
Repulled(d) ==
    /\ mode = "pullRefresh"
    /\ d \in must_pull \/ \E i \in DOMAIN to_client : to_client[i] = Refresh

ShownIsCurrent == Told /\ mode # "pull" => \A d \in open : shown[d] = NowFor(d) \/ Repulled(d)

ConfigInv == ConfigTypes /\ CacheIsCurrent /\ ShownIsCurrent

LEMMA SetToSeqIsSeq ==
    ASSUME NEW S, IsFiniteSet(S)
    PROVE  SetToSeq(S) \in Seq(S)
<1> DEFINE n == Cardinality(S)
<1>1. n \in Nat /\ ExistsBijection(1..n, S)
    BY FS_CardinalityType
<1>2. \E f \in [1..n -> S] : IsInjective(f)
    BY <1>1 DEF ExistsBijection, Bijection, Injection, IsInjective
<1>3. SetToSeq(S) \in [1..n -> S]
    BY <1>2 DEF SetToSeq
<1> HIDE DEF n
<1>4. QED
    BY <1>1, <1>3

StoreOK(store) ==
    /\ store = [client |-> store.client, by_dir |-> store.by_dir,
                inherited |-> store.inherited, sent |-> store.sent]
    /\ DOMAIN store.by_dir = Dirs
    /\ store.sent \in Seq(ServerRequests)

(* What a look-up leaves: the documents' directories cached, and nothing    *)
(* that was cached before resolved anew. *)
LEMMA ForAllEffect ==
    ASSUME NEW store, StoreOK(store), NEW docs \in SUBSET Dirs
    PROVE  LET after == ConfigForAll(store, docs)
           IN  /\ StoreOK(after)
               /\ after.client = store.client
               /\ \A d \in Dirs :
                    after.by_dir[d] = IF d \in docs /\ store.by_dir[d] = NotCached
                                      THEN Resolved(disk, d, store.client).value ELSE store.by_dir[d]
<1> DEFINE missed == {d \in docs : store.by_dir[d] = NotCached}
           found == [d \in missed |-> Resolved(disk, d, store.client)]
           extended == {f \in ConfigFiles : \E d \in missed : f \in found[d].extended}
           fresh == SetToSeq(extended \ store.inherited)
           asked == [i \in DOMAIN fresh |-> [kind |-> "watch", file |-> fresh[i]]]
           resolved == [d \in Dirs |-> IF d \in missed THEN found[d].value ELSE store.by_dir[d]]
           after == ConfigForAll(store, docs)
<1>1. after = [store EXCEPT !.by_dir = resolved, !.inherited = @ \cup extended, !.sent = @ \o asked]
    BY DEF ConfigForAll
<1>2. fresh \in Seq(ConfigFiles)
    <2>1. extended \ store.inherited \subseteq ConfigFiles
        OBVIOUS
    <2> HIDE DEF extended
    <2>2. IsFiniteSet(extended \ store.inherited)
        BY <2>1, ConfigFilesAssumption, FS_Subset
    <2>3. fresh \in Seq(extended \ store.inherited)
        BY <2>2, SetToSeqIsSeq
    <2> HIDE DEF fresh
    <2>4. QED
        BY <2>1, <2>3
<1>3. asked \in Seq(ServerRequests)
    <2> HIDE DEF fresh
    <2>1. DOMAIN fresh = 1..Len(fresh) /\ Len(fresh) \in Nat
        BY <1>2
    <2>2. \A i \in DOMAIN fresh : asked[i] \in ServerRequests
        BY <1>2 DEF ServerRequests
    <2>3. asked \in [1..Len(fresh) -> ServerRequests]
        BY <2>1, <2>2
    <2> HIDE DEF asked
    <2>4. QED
        BY <2>1, <2>3
<1>4. \A d \in Dirs : resolved[d] = IF d \in docs /\ store.by_dir[d] = NotCached
                                    THEN Resolved(disk, d, store.client).value ELSE store.by_dir[d]
    OBVIOUS
<1>5. DOMAIN resolved = Dirs
    OBVIOUS
<1> HIDE DEF asked, resolved, extended, after
<1>6. store.sent \o asked \in Seq(ServerRequests)
    BY <1>3 DEF StoreOK
<1>7. after = [client |-> store.client, by_dir |-> resolved,
               inherited |-> store.inherited \cup extended, sent |-> store.sent \o asked]
    BY <1>1 DEF StoreOK
<1>8. StoreOK(after) /\ after.client = store.client /\ after.by_dir = resolved
    BY <1>5, <1>6, <1>7 DEF StoreOK
<1>9. QED
    BY <1>4, <1>8 DEF after

LEMMA ForOneEffect ==
    ASSUME ConfigTypes, CacheIsCurrent, NEW d \in Dirs
    PROVE  LET after == ConfigFor(Store, d)
           IN  /\ after.client = client_config
               /\ after.sent \in Seq(ServerRequests)
               /\ DOMAIN after.by_dir = Dirs
               /\ Told => /\ after.by_dir[d] = NowFor(d)
                          /\ \A e \in Dirs : after.by_dir[e] # NotCached => after.by_dir[e] = NowFor(e)
<1>1. StoreOK(Store) /\ Store.client = client_config /\ Store.by_dir = by_dir /\ {d} \in SUBSET Dirs
    BY DEF Store, StoreOK, ConfigTypes
<1> DEFINE after == ConfigFor(Store, d)
<1>2. /\ after.client = client_config
      /\ after.sent \in Seq(ServerRequests)
      /\ DOMAIN after.by_dir = Dirs
      /\ \A e \in Dirs : after.by_dir[e] = IF e \in {d} /\ by_dir[e] = NotCached
                                           THEN NowFor(e) ELSE by_dir[e]
    BY <1>1, ForAllEffect DEF ConfigFor, NowFor, StoreOK
<1> HIDE DEF after
<1>3. QED
    BY <1>2 DEF after, CacheIsCurrent

(* What the server does on news of the configuration: every open document's *)
(* directory is resolved, and a client that can be asked to pull is.        *)
LEMMA ChangedEffect ==
    ASSUME ConfigTypes, NEW client, NEW inherited
    PROVE  LET store == [client |-> client, by_dir |-> [d \in Dirs |-> NotCached],
                         inherited |-> inherited, sent |-> <<>>]
               after == OnConfigChanged(store)
           IN  /\ after.client = client
               /\ after.sent \in Seq(ServerRequests)
               /\ DOMAIN after.by_dir = Dirs
               /\ \A d \in open : after.by_dir[d] = Resolved(disk, d, client).value
               /\ \A d \in Dirs : after.by_dir[d] # NotCached =>
                                      after.by_dir[d] = Resolved(disk, d, client).value
               /\ mode = "pullRefresh" => \E i \in DOMAIN after.sent : after.sent[i] = Refresh
<1> DEFINE none == [d \in Dirs |-> NotCached]
           store == [client |-> client, by_dir |-> none, inherited |-> inherited, sent |-> <<>>]
           all == ConfigForAll(store, open)
           after == OnConfigChanged(store)
<1>1. /\ StoreOK(store) /\ store.client = client /\ store.by_dir = none
      /\ open \in SUBSET Dirs
      /\ \A d \in Dirs : none[d] = NotCached
    BY DEF ConfigTypes, StoreOK
<1>2. after = IF mode = "pullRefresh" THEN [all EXCEPT !.sent = Append(@, Refresh)] ELSE all
    BY DEF OnConfigChanged
<1> HIDE DEF none, store
<1>3. /\ StoreOK(all) /\ all.client = client
      /\ \A d \in Dirs : all.by_dir[d] = IF d \in open THEN Resolved(disk, d, client).value ELSE NotCached
    BY <1>1, ForAllEffect
<1> HIDE DEF all, after
<1>4. after.client = client /\ after.by_dir = all.by_dir
      /\ after.sent = IF mode = "pullRefresh" THEN Append(all.sent, Refresh) ELSE all.sent
    BY <1>2, <1>3 DEF StoreOK
<1>5. Refresh \in ServerRequests
    BY DEF ServerRequests
<1>6. /\ after.sent \in Seq(ServerRequests)
      /\ mode = "pullRefresh" => \E i \in DOMAIN after.sent : after.sent[i] = Refresh
    <2>1. CASE mode = "pullRefresh"
        <3>1. /\ Append(all.sent, Refresh) \in Seq(ServerRequests)
              /\ Len(all.sent) + 1 \in DOMAIN Append(all.sent, Refresh)
              /\ Append(all.sent, Refresh)[Len(all.sent) + 1] = Refresh
            BY <1>3, <1>5 DEF StoreOK
        <3>2. QED
            BY <1>4, <2>1, <3>1
    <2>2. CASE mode # "pullRefresh"
        BY <1>3, <1>4, <2>2 DEF StoreOK
    <2>3. QED
        BY <2>1, <2>2
<1>7. QED
    <2>1. DOMAIN after.by_dir = Dirs
        BY <1>3, <1>4 DEF StoreOK
    <2>2. \A d \in open : d \in Dirs
        BY DEF ConfigTypes
    <2>3. QED
        BY <1>3, <1>4, <1>6, <2>1, <2>2 DEF after, store, none
-----------------------------------------------------------------------------
(* The steps.                                                               *)

LEMMA ConfigStarts == ConfigInit => ConfigInv
BY DEF ConfigInit, ConfigInv, ConfigTypes, CacheIsCurrent, ShownIsCurrent

(* A step after which the server has something to hear of keeps all.        *)
LEMMA UntoldKeeps ==
    ASSUME ConfigTypes', ~ Told'
    PROVE  ConfigInv'
BY DEF ConfigInv, CacheIsCurrent, ShownIsCurrent

LEMMA ChangeFileKeeps ==
    ASSUME ConfigInv, NEW f, NEW content, NEW by_rename, ChangeFile(f, content, by_rename)
    PROVE  ConfigInv'
<1>1. ConfigTypes'
    BY DEF ConfigInv, ConfigTypes, ChangeFile, server
<1>2. to_server' # <<>> \/ unreported' # {}
    <2> USE DEF ChangeFile
    <2>1. CASE to_server' = Append(to_server, [kind |-> IF by_rename THEN "renamed" ELSE "changed", file |-> f])
        BY <2>1
    <2>2. CASE unreported' = unreported \cup {f}
        BY <2>2
    <2>3. QED
        BY <2>1, <2>2 DEF Send
<1>3. QED
    BY <1>1, <1>2, UntoldKeeps DEF Told

LEMMA PushSettingsKeeps ==
    ASSUME ConfigInv, NEW payload, PushSettings(payload)
    PROVE  ConfigInv'
<1>1. ConfigTypes'
    BY DEF ConfigInv, ConfigTypes, PushSettings, server
<1>2. to_server' # <<>>
    BY DEF PushSettings, Send
<1>3. QED
    BY <1>1, <1>2, UntoldKeeps DEF Told

LEMMA EditDocumentKeeps ==
    ASSUME ConfigInv, NEW d \in Dirs, EditDocument(d)
    PROVE  ConfigInv'
<1> DEFINE store == ConfigFor(Store, d)
<1>1. /\ store.client = client_config
      /\ store.sent \in Seq(ServerRequests)
      /\ DOMAIN store.by_dir = Dirs
      /\ Told => /\ store.by_dir[d] = NowFor(d)
                 /\ \A e \in Dirs : store.by_dir[e] # NotCached => store.by_dir[e] = NowFor(e)
    BY ForOneEffect DEF ConfigInv
<1>2. /\ client_config' = store.client /\ by_dir' = store.by_dir
      /\ to_client' = to_client \o store.sent
      /\ open' = open \cup {d}
      /\ shown' = [e \in Dirs |-> IF mode = "push" /\ e \in {d} THEN store.by_dir[e] ELSE shown[e]]
      /\ must_pull' = IF mode = "push" THEN {} ELSE must_pull \cup {d}
      /\ UNCHANGED <<disk, mode, to_server, unreported>>
    BY DEF EditDocument, Commit, Reanalysed, history
<1> HIDE DEF store
<1>3. ConfigTypes /\ to_client \in Seq(ServerRequests)
    BY DEF ConfigInv, ConfigTypes
<1>4. /\ to_client' \in Seq(ServerRequests)
      /\ \A i \in DOMAIN to_client : i \in DOMAIN to_client' /\ to_client'[i] = to_client[i]
    BY <1>1, <1>2, <1>3
<1>5. ConfigTypes'
    BY <1>1, <1>2, <1>3, <1>4 DEF ConfigTypes
<1>6. Told' = Told /\ \A e : NowFor(e)' = NowFor(e)
    BY <1>1, <1>2 DEF Told, NowFor
<1>7. CacheIsCurrent'
    BY <1>1, <1>2, <1>6 DEF CacheIsCurrent
<1>8. ShownIsCurrent'
    <2> SUFFICES ASSUME Told, mode # "pull", NEW e \in open'
                 PROVE  shown'[e] = NowFor(e) \/ Repulled(e)'
        BY <1>2, <1>6 DEF ShownIsCurrent
    <2>1. e \in Dirs
        BY <1>2, <1>3 DEF ConfigTypes
    <2>2. CASE e = d
        <3>1. CASE mode = "push"
            BY <1>1, <1>2, <2>1, <2>2, <3>1
        <3>2. CASE mode # "push"
            <4>1. mode' = "pullRefresh" /\ d \in must_pull'
                BY <1>2, <1>3, <3>2 DEF ConfigTypes
            <4>2. QED
                BY <2>2, <4>1 DEF Repulled
        <3>3. QED
            BY <3>1, <3>2
    <2>3. CASE e # d
        <3>1. shown'[e] = shown[e] /\ e \in open
            BY <1>2, <2>1, <2>3
        <3>2. shown[e] = NowFor(e) \/ Repulled(e)
            BY <3>1 DEF ConfigInv, ShownIsCurrent
        <3>3. Repulled(e) => Repulled(e)'
            BY <1>2, <1>4 DEF Repulled
        <3>4. QED
            BY <3>1, <3>2, <3>3
    <2>4. QED
        BY <2>2, <2>3
<1>9. QED
    BY <1>5, <1>7, <1>8 DEF ConfigInv

LEMMA CloseDocumentKeeps ==
    ASSUME ConfigInv, NEW d \in Dirs, CloseDocument(d)
    PROVE  ConfigInv'
<1>1. /\ open' = open \ {d} /\ must_pull' = must_pull \ {d}
      /\ shown' = [shown EXCEPT ![d] = NotCached]
      /\ UNCHANGED <<disk, mode, to_server, to_client, client_config, by_dir, unreported>>
    BY DEF CloseDocument, server, history
<1>2. ConfigTypes'
    BY <1>1 DEF ConfigInv, ConfigTypes
<1>3. Told' = Told /\ \A e : NowFor(e)' = NowFor(e)
    BY <1>1 DEF Told, NowFor
<1>4. CacheIsCurrent'
    BY <1>1, <1>3 DEF ConfigInv, CacheIsCurrent
<1>5. \A e \in open' : e \in open /\ shown'[e] = shown[e] /\ (Repulled(e) => Repulled(e)')
    BY <1>1 DEF ConfigInv, ConfigTypes, Repulled
<1>6. ShownIsCurrent'
    BY <1>1, <1>3, <1>5 DEF ConfigInv, ShownIsCurrent
<1>7. QED
    BY <1>2, <1>4, <1>6 DEF ConfigInv

LEMMA PullDiagnosticsKeeps ==
    ASSUME ConfigInv, NEW d \in Dirs, PullDiagnostics(d)
    PROVE  ConfigInv'
<1> DEFINE store == ConfigFor(Store, d)
<1>1. /\ store.client = client_config
      /\ store.sent \in Seq(ServerRequests)
      /\ DOMAIN store.by_dir = Dirs
      /\ Told => /\ store.by_dir[d] = NowFor(d)
                 /\ \A e \in Dirs : store.by_dir[e] # NotCached => store.by_dir[e] = NowFor(e)
    BY ForOneEffect DEF ConfigInv
<1>2. /\ client_config' = store.client /\ by_dir' = store.by_dir
      /\ to_client' = to_client \o store.sent
      /\ shown' = [shown EXCEPT ![d] = store.by_dir[d]]
      /\ must_pull' = must_pull \ {d}
      /\ UNCHANGED <<disk, mode, open, to_server, unreported>>
    BY DEF PullDiagnostics, Commit, history
<1> HIDE DEF store
<1>3. ConfigTypes /\ to_client \in Seq(ServerRequests)
    BY DEF ConfigInv, ConfigTypes
<1>4. /\ to_client' \in Seq(ServerRequests)
      /\ \A i \in DOMAIN to_client : i \in DOMAIN to_client' /\ to_client'[i] = to_client[i]
    BY <1>1, <1>2, <1>3
<1>5. ConfigTypes'
    BY <1>1, <1>2, <1>3, <1>4 DEF ConfigTypes
<1>6. Told' = Told /\ \A e : NowFor(e)' = NowFor(e)
    BY <1>1, <1>2 DEF Told, NowFor
<1>7. CacheIsCurrent'
    BY <1>1, <1>2, <1>6 DEF CacheIsCurrent
<1>8. ShownIsCurrent'
    <2> SUFFICES ASSUME Told, mode # "pull", NEW e \in open
                 PROVE  shown'[e] = NowFor(e) \/ Repulled(e)'
        BY <1>2, <1>6 DEF ShownIsCurrent
    <2>1. CASE e = d
        BY <1>1, <1>2, <1>3, <2>1 DEF ConfigTypes
    <2>2. CASE e # d
        <3>1. shown'[e] = shown[e]
            BY <1>2, <1>3, <2>2 DEF ConfigTypes
        <3>2. shown[e] = NowFor(e) \/ Repulled(e)
            BY DEF ConfigInv, ShownIsCurrent
        <3>3. Repulled(e) => Repulled(e)'
            BY <1>2, <1>4, <2>2 DEF Repulled
        <3>4. QED
            BY <3>1, <3>2, <3>3
    <2>3. QED
        BY <2>1, <2>2
<1>9. QED
    BY <1>5, <1>7, <1>8 DEF ConfigInv

LEMMA HandleKeeps ==
    ASSUME ConfigInv, Handle
    PROVE  ConfigInv'
<1> DEFINE message == Head(to_server)
           store == IF message.kind = "settings" THEN SetClientSettings(Store, message.payload)
                    ELSE InvalidateDiscovered(Store)
           changed == OnConfigChanged(store)
<1>1. ConfigTypes /\ UNCHANGED <<disk, mode, open, must_pull>>
    BY DEF ConfigInv, Handle
<1>2. CASE message.kind = "settings" \/ IsConfigFile(message.file)
    <2>1. /\ client_config' = changed.client /\ by_dir' = changed.by_dir
          /\ to_client' = to_client \o changed.sent
          /\ shown' = [d \in Dirs |-> IF mode = "push" /\ d \in open THEN changed.by_dir[d] ELSE shown[d]]
        BY <1>2 DEF Handle, Commit, Reanalysed
    <2>2. \E client : store = [client |-> client, by_dir |-> [d \in Dirs |-> NotCached],
                               inherited |-> inherited_files, sent |-> <<>>]
        BY DEF Store, InvalidateDiscovered, SetClientSettings
    <2>3. PICK client : store = [client |-> client, by_dir |-> [d \in Dirs |-> NotCached],
                                 inherited |-> inherited_files, sent |-> <<>>]
        BY <2>2
    <2> HIDE DEF store
    <2>4. /\ changed.client = client
          /\ changed.sent \in Seq(ServerRequests)
          /\ DOMAIN changed.by_dir = Dirs
          /\ \A d \in open : changed.by_dir[d] = Resolved(disk, d, client).value
          /\ \A d \in Dirs : changed.by_dir[d] # NotCached =>
                                 changed.by_dir[d] = Resolved(disk, d, client).value
          /\ mode = "pullRefresh" => \E i \in DOMAIN changed.sent : changed.sent[i] = Refresh
        BY <1>1, <2>3, ChangedEffect
    <2> HIDE DEF changed
    <2>5. to_client \in Seq(ServerRequests) /\ to_client' \in Seq(ServerRequests)
        BY <1>1, <2>1, <2>4 DEF ConfigTypes
    <2>6. ConfigTypes'
        BY <1>1, <2>1, <2>4, <2>5 DEF ConfigTypes
    <2>7. \A d : NowFor(d)' = Resolved(disk, d, client).value
        BY <1>1, <2>1, <2>4 DEF NowFor
    <2>8. CacheIsCurrent'
        BY <2>1, <2>4, <2>7 DEF CacheIsCurrent
    <2>9. mode = "pullRefresh" => \E i \in DOMAIN to_client' : to_client'[i] = Refresh
        <3> SUFFICES ASSUME mode = "pullRefresh"
                     PROVE  \E i \in DOMAIN to_client' : to_client'[i] = Refresh
            OBVIOUS
        <3>1. PICK i \in DOMAIN changed.sent : changed.sent[i] = Refresh
            BY <2>4
        <3>2. /\ Len(to_client) + i \in DOMAIN to_client'
              /\ to_client'[Len(to_client) + i] = changed.sent[i]
            BY <2>1, <2>4, <2>5
        <3>3. QED
            BY <3>1, <3>2
    <2>10. ShownIsCurrent'
        <3> SUFFICES ASSUME mode # "pull", NEW d \in open
                     PROVE  shown'[d] = NowFor(d)' \/ Repulled(d)'
            BY <1>1 DEF ShownIsCurrent
        <3>1. CASE mode = "push"
            BY <1>1, <2>1, <2>4, <2>7, <3>1 DEF ConfigTypes
        <3>2. CASE mode = "pullRefresh"
            BY <1>1, <2>9, <3>2 DEF Repulled
        <3>3. QED
            BY <1>1, <3>1, <3>2 DEF ConfigTypes
    <2>11. QED
        BY <2>6, <2>8, <2>10 DEF ConfigInv
<1>3. CASE ~ (message.kind = "settings" \/ IsConfigFile(message.file))
    <2>1. unreported' = unreported \cup {message.file} /\ UNCHANGED <<server, shown>>
        BY <1>3 DEF Handle
    <2>2. ConfigTypes'
        BY <1>1, <2>1 DEF ConfigTypes, server
    <2>3. QED
        BY <2>1, <2>2, UntoldKeeps DEF Told
<1>4. QED
    BY <1>2, <1>3

LEMMA ClientHandlesKeeps ==
    ASSUME ConfigInv, ClientHandles
    PROVE  ConfigInv'
<1>1. /\ ConfigTypes /\ to_client \in Seq(ServerRequests) /\ to_client # <<>>
      /\ to_client' = Tail(to_client)
      /\ \/ Head(to_client) = Refresh /\ must_pull' = open
         \/ Head(to_client) # Refresh /\ must_pull' = must_pull
      /\ UNCHANGED <<disk, mode, to_server, open, shown, client_config, by_dir, unreported>>
    BY DEF ConfigInv, ConfigTypes, ClientHandles, history
<1>2. to_client' \in Seq(ServerRequests)
    BY <1>1
<1>3. ConfigTypes'
    BY <1>1, <1>2 DEF ConfigTypes
<1>4. Told' = Told /\ \A e : NowFor(e)' = NowFor(e)
    BY <1>1 DEF Told, NowFor
<1>5. CacheIsCurrent'
    BY <1>1, <1>4 DEF ConfigInv, CacheIsCurrent
<1>6. ASSUME NEW e \in open, Repulled(e) PROVE Repulled(e)'
    <2>1. CASE Head(to_client) = Refresh
        BY <1>1, <1>6, <2>1 DEF Repulled, ConfigTypes, Refresh
    <2>2. CASE e \in must_pull
        BY <1>1, <1>6, <2>2 DEF Repulled, ConfigTypes
    <2>3. CASE Head(to_client) # Refresh /\ e \notin must_pull
        <3>1. PICK i \in DOMAIN to_client : to_client[i] = Refresh
            BY <1>6, <2>3 DEF Repulled
        <3>2. i # 1
            BY <1>1, <2>3, <3>1
        <3>3. i - 1 \in DOMAIN to_client' /\ to_client'[i - 1] = to_client[i]
            BY <1>1, <3>2
        <3>4. QED
            BY <1>1, <1>6, <3>1, <3>3 DEF Repulled
    <2>4. QED
        BY <2>1, <2>2, <2>3
<1>7. ShownIsCurrent'
    BY <1>1, <1>4, <1>6 DEF ConfigInv, ShownIsCurrent
<1>8. QED
    BY <1>3, <1>5, <1>7 DEF ConfigInv

LEMMA ConfigSteps == ConfigInv /\ [ConfigNext]_configVars => ConfigInv'
<1> SUFFICES ASSUME ConfigInv, [ConfigNext]_configVars PROVE ConfigInv'
    OBVIOUS
<1>1. CASE UNCHANGED configVars
    BY <1>1 DEF configVars, ConfigInv, ConfigTypes, CacheIsCurrent, ShownIsCurrent, Told, NowFor, Repulled
<1>2. CASE ConfigNext
    BY <1>2, ChangeFileKeeps, PushSettingsKeeps, EditDocumentKeeps, CloseDocumentKeeps,
       PullDiagnosticsKeeps, HandleKeeps, ClientHandlesKeeps DEF ConfigNext
<1>3. QED
    BY <1>1, <1>2

(* Whatever was edited, pushed, extended or renamed in between: when every  *)
(* message is handled, the cache holds what the disk and the client's       *)
(* settings say, and the findings of every open document were computed      *)
(* under it (ConfigStore and on_config_changed), unless nobody told the     *)
(* server of a change, or the client pulls and cannot be asked to. *)
THEOREM ConfigIsCurrent == ConfigSpec => []ConfigCurrentWhenQuiet
<1>1. ConfigInv => ConfigCurrentWhenQuiet
    BY DEF ConfigInv, CacheIsCurrent, ShownIsCurrent, ConfigCurrentWhenQuiet, Quiet, Told, Repulled
<1>2. QED
    BY <1>1, ConfigStarts, ConfigSteps, PTL DEF ConfigSpec
-----------------------------------------------------------------------------
(* LintFixes.  Its lists: a finite set in a strict order, the fixes sorted, *)
(* the fixes accepted.                                                      *)

(* How many elements of S come before x. *)
Rank(S, R, x) == Cardinality({y \in S : <<y, x>> \in R})

StrictOrder(S, R) ==
    /\ \A x \in S : <<x, x>> \notin R
    /\ \A x, y, z \in S : <<x, y>> \in R /\ <<y, z>> \in R => <<x, z>> \in R
    /\ \A x, y \in S : x = y \/ <<x, y>> \in R \/ <<y, x>> \in R

(* In a finite set with a strict order every element has a rank of its own, *)
(* and every rank an element.                                               *)
LEMMA RankGrows ==
    ASSUME NEW S, IsFiniteSet(S), NEW R, StrictOrder(S, R),
           NEW x \in S, NEW y \in S, <<x, y>> \in R
    PROVE  Rank(S, R, x) < Rank(S, R, y)
<1> DEFINE a == {z \in S : <<z, x>> \in R}
           b == {z \in S : <<z, y>> \in R}
<1>1. a \in SUBSET b /\ x \in b /\ x \notin a /\ b \in SUBSET S
  BY DEF StrictOrder
<1>2. IsFiniteSet(b) /\ IsFiniteSet(a) /\ Cardinality(a) <= Cardinality(b)
      /\ (Cardinality(a) = Cardinality(b) => a = b)
  <2> HIDE DEF a, b
  <2> QED
    BY <1>1, FS_Subset
<1>3. Cardinality(a) \in Nat /\ Cardinality(b) \in Nat
  BY <1>2, FS_CardinalityType
<1>4. a # b
  BY <1>1
<1>5. Cardinality(a) < Cardinality(b)
  <2> HIDE DEF a, b
  <2> QED
    BY <1>2, <1>3, <1>4
<1> QED
  BY <1>5 DEF Rank

LEMMA RankBounds ==
    ASSUME NEW S, IsFiniteSet(S), NEW R, StrictOrder(S, R), NEW x \in S
    PROVE  Rank(S, R, x) \in 0 .. Cardinality(S) - 1
<1> DEFINE a == {z \in S : <<z, x>> \in R}
<1>1. a \in SUBSET S /\ a # S
  BY DEF StrictOrder
<1>2. IsFiniteSet(a) /\ Cardinality(a) <= Cardinality(S)
      /\ (Cardinality(S) = Cardinality(a) => S = a)
  <2> HIDE DEF a
  <2> QED
    BY <1>1, FS_Subset
<1>3. Cardinality(a) \in Nat /\ Cardinality(S) \in Nat
  BY <1>2, FS_CardinalityType
<1>4. Cardinality(a) \in 0 .. Cardinality(S) - 1
  <2> HIDE DEF a
  <2> QED
    BY <1>1, <1>2, <1>3
<1> QED
  BY <1>4 DEF Rank

LEMMA EveryRankTaken ==
    ASSUME NEW S, IsFiniteSet(S), NEW R, StrictOrder(S, R)
    PROVE  \A k \in 0 .. Cardinality(S) - 1 : \E x \in S : Rank(S, R, x) = k
<1> DEFINE T == 0 .. Cardinality(S) - 1
           rank == [x \in S |-> Rank(S, R, x)]
<1>1. Cardinality(S) \in Nat
  BY FS_CardinalityType
<1>2. IsFiniteSet(T) /\ Cardinality(T) = Cardinality(S)
  <2>1. 0 \in Int /\ Cardinality(S) - 1 \in Int
    BY <1>1
  <2>2. IsFiniteSet(T) /\ Cardinality(T) =
          IF 0 > Cardinality(S) - 1 THEN 0 ELSE (Cardinality(S) - 1) - 0 + 1
    BY <2>1, FS_Interval
  <2> HIDE DEF T
  <2> QED
    BY <1>1, <2>2
<1>3. rank \in [S -> T]
  BY RankBounds
<1>4. \A x, y \in S : rank[x] = rank[y] => x = y
  <2> SUFFICES ASSUME NEW x \in S, NEW y \in S, x # y PROVE rank[x] # rank[y]
    OBVIOUS
  <2>1. Rank(S, R, x) \in T /\ Rank(S, R, y) \in T
    BY RankBounds
  <2>2. Rank(S, R, x) # Rank(S, R, y)
    <3>1. CASE <<x, y>> \in R
      BY <2>1, <3>1, RankGrows, <1>1
    <3>2. CASE <<y, x>> \in R
      BY <2>1, <3>2, RankGrows, <1>1
    <3> QED
      BY <3>1, <3>2 DEF StrictOrder
  <2> QED
    BY <2>2
<1>5. rank \in Injection(S, T)
  BY <1>3, <1>4 DEF Injection, IsInjective
<1>6. rank \in Surjection(S, T)
  <2> HIDE DEF rank, T
  <2> QED
    BY <1>2, <1>5, FS_Injection
<1>7. \A k \in T : \E x \in S : rank[x] = k
  BY <1>6 DEF Surjection
<1> QED
  BY <1>7

(* The elements of S in the order R. *)
Listed(S, R) == [k \in 1 .. Cardinality(S) |-> CHOOSE x \in S : Rank(S, R, x) = k - 1]

LEMMA ListedInOrder ==
    ASSUME NEW S, IsFiniteSet(S), NEW R, StrictOrder(S, R)
    PROVE  /\ Cardinality(S) \in Nat
           /\ Listed(S, R) \in [1 .. Cardinality(S) -> S]
           /\ \A x \in S : \E k \in 1 .. Cardinality(S) : Listed(S, R)[k] = x
           /\ \A i, j \in 1 .. Cardinality(S) :
                i < j => <<Listed(S, R)[i], Listed(S, R)[j]>> \in R
<1> DEFINE n == Cardinality(S)
           list == Listed(S, R)
<1>1. n \in Nat
  BY FS_CardinalityType
<1>2. \A k \in 1 .. n : list[k] \in S /\ Rank(S, R, list[k]) = k - 1
  <2> TAKE k \in 1 .. n
  <2>1. k - 1 \in 0 .. n - 1
    BY <1>1
  <2>2. \E x \in S : Rank(S, R, x) = k - 1
    BY <2>1, EveryRankTaken
  <2>3. list[k] = CHOOSE x \in S : Rank(S, R, x) = k - 1
    BY DEF Listed
  <2> HIDE DEF list
  <2> QED
    BY <2>2, <2>3
<1>3. list \in [1 .. n -> S]
  <2>1. list = [k \in 1 .. n |-> list[k]]
    BY DEF Listed
  <2> HIDE DEF list
  <2> QED
    BY <1>2, <2>1
<1>4. \A x, y \in S : Rank(S, R, x) = Rank(S, R, y) => x = y
  <2> SUFFICES ASSUME NEW x \in S, NEW y \in S, x # y PROVE Rank(S, R, x) # Rank(S, R, y)
    OBVIOUS
  <2>1. Rank(S, R, x) \in 0 .. n - 1 /\ Rank(S, R, y) \in 0 .. n - 1
    BY RankBounds
  <2>2. CASE <<x, y>> \in R
    BY <2>1, <2>2, RankGrows, <1>1
  <2>3. CASE <<y, x>> \in R
    BY <2>1, <2>3, RankGrows, <1>1
  <2> QED
    BY <2>2, <2>3 DEF StrictOrder
<1>5. \A x \in S : \E k \in 1 .. n : list[k] = x
  <2> TAKE x \in S
  <2>1. Rank(S, R, x) \in 0 .. n - 1
    BY RankBounds
  <2> DEFINE k == Rank(S, R, x) + 1
  <2>2. k \in 1 .. n /\ k - 1 = Rank(S, R, x)
    BY <1>1, <2>1
  <2> HIDE DEF k, list
  <2> QED
    BY <1>2, <1>4, <2>2
<1>6. \A i, j \in 1 .. n : i < j => <<list[i], list[j]>> \in R
  <2> SUFFICES ASSUME NEW i \in 1 .. n, NEW j \in 1 .. n, i < j
               PROVE  <<list[i], list[j]>> \in R
    OBVIOUS
  <2> HIDE DEF list
  <2>1. Rank(S, R, list[i]) = i - 1 /\ Rank(S, R, list[j]) = j - 1 /\ list[i] \in S /\ list[j] \in S
    BY <1>2
  <2>2. list[i] # list[j]
    BY <2>1, <1>1
  <2>3. CASE <<list[j], list[i]>> \in R
    <3>1. j - 1 < i - 1
      BY <2>1, <2>3, RankGrows
    <3> QED
      BY <3>1, <1>1
  <2> QED
    BY <2>1, <2>2, <2>3 DEF StrictOrder
<1> QED
  BY <1>1, <1>3, <1>5, <1>6
-----------------------------------------------------------------------------
(* Sorting fixes. *)

AFix == [start : Nat, end : Nat, content : Seq(Tokens), safe : BOOLEAN]

LEMMA Sorted ==
    ASSUME NEW fixes \in Seq(AFix)
    PROVE  /\ SortedFixes(fixes) \in Seq(AFix)
           /\ \A i \in DOMAIN fixes :
                \E k \in DOMAIN SortedFixes(fixes) : SortedFixes(fixes)[k] = fixes[i]
           /\ \A k \in DOMAIN SortedFixes(fixes) :
                \E i \in DOMAIN fixes : SortedFixes(fixes)[k] = fixes[i]
           /\ \A j, k \in DOMAIN SortedFixes(fixes) :
                j < k => SortedFixes(fixes)[j].start <= SortedFixes(fixes)[k].start
<1> DEFINE S == DOMAIN fixes
           Before(i, j) == \/ StartsBefore(fixes[i], fixes[j])
                           \/ ~StartsBefore(fixes[j], fixes[i]) /\ i < j
           R == {p \in S \X S : Before(p[1], p[2])}
           order == Listed(S, R)
           n == Cardinality(S)
           sorted == SortedFixes(fixes)
<1>1. S = 1 .. Len(fixes) /\ Len(fixes) \in Nat /\ IsFiniteSet(S)
  <2>1. S = 1 .. Len(fixes) /\ Len(fixes) \in Nat
    OBVIOUS
  <2> QED
    BY <2>1, FS_Interval
<1>2. \A i, j \in S : <<i, j>> \in R <=> Before(i, j)
  OBVIOUS
<1>3. \A i \in S : i \in Nat /\ fixes[i].start \in Nat /\ fixes[i].end \in Nat
  <2>1. \A i \in 1 .. Len(fixes) : fixes[i] \in AFix
    OBVIOUS
  <2>2. \A f \in AFix : f.start \in Nat /\ f.end \in Nat
    BY DEF AFix
  <2> QED
    BY <1>1, <2>1, <2>2
<1>4. StrictOrder(S, R)
  <2> HIDE DEF R, S
  <2>1. \A i \in S : ~Before(i, i)
    BY <1>3 DEF StartsBefore
  <2>2. \A i, j \in S : i = j \/ Before(i, j) \/ Before(j, i)
    BY <1>3 DEF StartsBefore
  <2>3. \A i, j, k \in S : Before(i, j) /\ Before(j, k) => Before(i, k)
    BY <1>3 DEF StartsBefore
  <2> HIDE DEF Before
  <2> QED
    BY <1>2, <2>1, <2>2, <2>3 DEF StrictOrder
<1>5. /\ n \in Nat /\ order \in [1 .. n -> S]
      /\ \A x \in S : \E k \in 1 .. n : order[k] = x
      /\ \A i, j \in 1 .. n : i < j => <<order[i], order[j]>> \in R
  <2>1. IsFiniteSet(S)
    BY <1>1
  <2> HIDE DEF S, R
  <2>2. /\ Cardinality(S) \in Nat
        /\ Listed(S, R) \in [1 .. Cardinality(S) -> S]
        /\ \A x \in S : \E k \in 1 .. Cardinality(S) : Listed(S, R)[k] = x
        /\ \A i, j \in 1 .. Cardinality(S) :
             i < j => <<Listed(S, R)[i], Listed(S, R)[j]>> \in R
    BY <2>1, <1>4, ListedInOrder
  <2> QED
    BY <2>2
<1>6. Ascending(S, Before) = order
  <2>1. \A x \in S : {y \in S : Before(y, x)} = {y \in S : <<y, x>> \in R}
    BY <1>2
  <2>2. \A x \in S : Cardinality({y \in S : Before(y, x)}) = Rank(S, R, x)
    BY <2>1 DEF Rank
  <2>3. \A k : (CHOOSE x \in S : Cardinality({y \in S : Before(y, x)}) = k - 1)
                 = (CHOOSE x \in S : Rank(S, R, x) = k - 1)
    <3> HIDE DEF S, R, Before
    <3> QED
      BY <2>2
  <2>4. Ascending(S, Before) = [k \in 1 .. n |->
           CHOOSE x \in S : Cardinality({y \in S : Before(y, x)}) = k - 1]
    BY DEF Ascending
  <2> HIDE DEF S, R, Before
  <2> QED
    BY <2>3, <2>4 DEF Listed
<1>7. sorted = [k \in DOMAIN order |-> fixes[order[k]]]
  BY <1>6 DEF SortedFixes
<1> HIDE DEF order, S, R, n
<1>8. DOMAIN order = 1 .. n
  BY <1>5
<1>9. DOMAIN sorted = 1 .. n /\ \A k \in 1 .. n : sorted[k] = fixes[order[k]] /\ order[k] \in S
  BY <1>5, <1>7, <1>8
<1>10. \A i \in S : fixes[i] \in AFix
  BY DEF S
<1>11. sorted \in [1 .. n -> AFix]
  <2>1. sorted = [k \in 1 .. n |-> sorted[k]]
    BY <1>7, <1>8
  <2> HIDE DEF sorted
  <2> QED
    BY <1>9, <1>10, <2>1
<1> HIDE DEF sorted
<1>12. sorted \in Seq(AFix)
  BY <1>5, <1>11
<1>13. \A j, k \in 1 .. n : j < k => sorted[j].start <= sorted[k].start
  <2> SUFFICES ASSUME NEW j \in 1 .. n, NEW k \in 1 .. n, j < k
               PROVE  fixes[order[j]].start <= fixes[order[k]].start
    BY <1>9
  <2>1. Before(order[j], order[k]) /\ order[j] \in S /\ order[k] \in S
    BY <1>2, <1>5
  <2> HIDE DEF order
  <2> QED
    BY <1>3, <2>1 DEF StartsBefore
<1>14. \A i \in S : \E k \in 1 .. n : sorted[k] = fixes[i]
  BY <1>5, <1>9
<1> HIDE DEF Before
<1> QED
  BY <1>9, <1>12, <1>13, <1>14 DEF sorted, S
-----------------------------------------------------------------------------
Accepting == INSTANCE FoldInduction WITH Op <- Accept

Valid(fixes) ==
    /\ fixes \in Seq(AFix)
    /\ \A i \in DOMAIN fixes : fixes[i].start <= fixes[i].end

(* What accepting the first n of the sorted fixes leaves.                   *)
AcceptedOf(sorted, acc, n) ==
    /\ acc \in Seq(AFix)
    /\ \A k \in DOMAIN acc : \E i \in 1 .. n : acc[k] = sorted[i]
    /\ \A j, k \in DOMAIN acc : j < k => acc[j].end <= acc[k].start
    /\ \A i \in 1 .. n :
         \E k \in DOMAIN acc :
            \/ acc[k] = sorted[i]
            \/ sorted[i].start < acc[k].end /\ acc[k].start <= sorted[i].start

LEMMA AcceptStep ==
    ASSUME NEW sorted, Valid(sorted),
           \A j, k \in DOMAIN sorted : j < k => sorted[j].start <= sorted[k].start,
           NEW n \in Nat, n + 1 \in DOMAIN sorted, NEW acc, AcceptedOf(sorted, acc, n)
    PROVE  AcceptedOf(sorted, Accept(acc, sorted[n + 1]), n + 1)
<1> DEFINE fix == sorted[n + 1]
           m == Len(acc)
           new == Accept(acc, fix)
<1>1. \A f \in AFix : f.start \in Nat /\ f.end \in Nat
  BY DEF AFix
<1>2. fix \in AFix /\ fix.start <= fix.end /\ 1 .. n + 1 \subseteq DOMAIN sorted
  <2>1. sorted \in Seq(AFix) /\ \A i \in DOMAIN sorted : sorted[i].start <= sorted[i].end
    BY DEF Valid
  <2>2. DOMAIN sorted = 1 .. Len(sorted) /\ Len(sorted) \in Nat /\ \A i \in DOMAIN sorted : sorted[i] \in AFix
    BY <2>1
  <2> QED
    BY <2>1, <2>2
<1>3. /\ acc \in Seq(AFix) /\ m \in Nat /\ DOMAIN acc = 1 .. m
      /\ \A k \in 1 .. m : acc[k] \in AFix
  BY DEF AcceptedOf
<1>4. /\ \A k \in 1 .. m : \E i \in 1 .. n : acc[k] = sorted[i]
      /\ \A j, k \in 1 .. m : j < k => acc[j].end <= acc[k].start
      /\ \A i \in 1 .. n :
           \E k \in 1 .. m :
              \/ acc[k] = sorted[i]
              \/ sorted[i].start < acc[k].end /\ acc[k].start <= sorted[i].start
  BY <1>3 DEF AcceptedOf
<1>5. m # 0 => Last(acc) = acc[m]
  BY DEF Last
<1>6. acc = <<>> <=> m = 0
  BY <1>3
<1>7. \A k \in 1 .. m : acc[k].start <= acc[k].end
  <2> TAKE k \in 1 .. m
  <2>1. PICK i \in 1 .. n : acc[k] = sorted[i]
    BY <1>4
  <2>2. i \in DOMAIN sorted
    BY <1>2, <2>1
  <2> QED
    BY <2>1, <2>2 DEF Valid
<1> HIDE DEF m, fix
<1>8. CASE m # 0 /\ ~(fix.start >= acc[m].end)
  <2>1. new = acc
    BY <1>5, <1>6, <1>8 DEF Accept
  <2>2. \A k \in 1 .. m : \E i \in 1 .. n + 1 : acc[k] = sorted[i]
    <3> TAKE k \in 1 .. m
    <3>1. PICK i \in 1 .. n : acc[k] = sorted[i]
      BY <1>4
    <3> QED
      BY <3>1
  <2>3. \A i \in 1 .. n + 1 :
           \E k \in 1 .. m :
              \/ acc[k] = sorted[i]
              \/ sorted[i].start < acc[k].end /\ acc[k].start <= sorted[i].start
    <3> TAKE i \in 1 .. n + 1
    <3>1. CASE i \in 1 .. n
      BY <1>4, <3>1
    <3>2. CASE i = n + 1
      <4>1. m \in 1 .. m
        BY <1>3, <1>8
      <4>2. PICK j \in 1 .. n : acc[m] = sorted[j]
        BY <1>4, <4>1
      <4>3. j \in DOMAIN sorted /\ j < n + 1
        BY <1>2, <4>2
      <4>4. sorted[j].start <= sorted[n + 1].start
        BY <4>3
      <4>5. fix.start < acc[m].end
        BY <1>1, <1>2, <1>3, <1>8, <4>1
      <4> QED
        BY <3>2, <4>1, <4>2, <4>4, <4>5 DEF fix
    <3> QED
      BY <3>1, <3>2
  <2> HIDE DEF new
  <2> QED
    <3>1. AcceptedOf(sorted, acc, n + 1)
      BY <1>3, <1>4, <2>2, <2>3 DEF AcceptedOf
    <3>2. AcceptedOf(sorted, new, n + 1)
      BY <2>1, <3>1
    <3> QED
      BY <3>2 DEF new, fix
<1>9. CASE m = 0 \/ fix.start >= acc[m].end
  <2>1. new = Append(acc, fix)
    <3>1. fix.start >= (IF acc = <<>> THEN 0 ELSE Last(acc).end)
      BY <1>1, <1>2, <1>5, <1>6, <1>9
    <3> QED
      BY <3>1 DEF Accept
  <2> HIDE DEF new
  <2>2. /\ new \in Seq(AFix) /\ DOMAIN new = 1 .. m + 1 /\ new[m + 1] = fix
        /\ \A k \in 1 .. m : new[k] = acc[k]
    <3>1. Append(acc, fix) \in Seq(AFix) /\ Len(Append(acc, fix)) = Len(acc) + 1
      BY <1>2, <1>3
    <3>2. Append(acc, fix)[Len(acc) + 1] = fix
          /\ \A k \in 1 .. Len(acc) : Append(acc, fix)[k] = acc[k]
      BY <1>2, <1>3
    <3>3. DOMAIN Append(acc, fix) = 1 .. Len(acc) + 1
      BY <3>1
    <3> QED
      BY <2>1, <3>1, <3>2, <3>3 DEF m
  <2>3. \A k \in 1 .. m + 1 : \E i \in 1 .. n + 1 : new[k] = sorted[i]
    <3> TAKE k \in 1 .. m + 1
    <3>1. CASE k \in 1 .. m
      <4>1. PICK i \in 1 .. n : acc[k] = sorted[i]
        BY <1>4, <3>1
      <4> QED
        BY <2>2, <3>1, <4>1
    <3>2. CASE k = m + 1
      <4>1. n + 1 \in 1 .. n + 1
        OBVIOUS
      <4> QED
        BY <2>2, <3>2, <4>1 DEF fix
    <3> QED
      BY <1>3, <3>1, <3>2
  <2>4. \A j, k \in 1 .. m + 1 : j < k => new[j].end <= new[k].start
    <3> SUFFICES ASSUME NEW j \in 1 .. m + 1, NEW k \in 1 .. m + 1, j < k
                 PROVE  new[j].end <= new[k].start
      OBVIOUS
    <3>1. j \in 1 .. m /\ new[j] = acc[j]
      BY <1>3, <2>2
    <3>2. CASE k \in 1 .. m
      BY <1>4, <2>2, <3>1, <3>2
    <3>3. CASE k = m + 1
      <4>1. m # 0 /\ m \in 1 .. m /\ new[k] = fix
        BY <1>3, <2>2, <3>1, <3>3
      <4>2. acc[j].end <= acc[m].end
        <5>1. CASE j = m
          BY <1>1, <1>3, <5>1, <4>1
        <5>2. CASE j # m
          <6>1. acc[j].end <= acc[m].start /\ acc[m].start <= acc[m].end
            BY <1>3, <1>4, <1>7, <3>1, <4>1, <5>2
          <6> QED
            BY <1>1, <1>3, <3>1, <4>1, <6>1
        <5> QED
          BY <5>1, <5>2
      <4>3. acc[m].end <= fix.start
        BY <1>1, <1>2, <1>3, <1>9, <4>1
      <4> QED
        BY <1>1, <1>2, <1>3, <3>1, <4>1, <4>2, <4>3
    <3> QED
      BY <1>3, <3>2, <3>3
  <2>5. \A i \in 1 .. n + 1 :
           \E k \in 1 .. m + 1 :
              \/ new[k] = sorted[i]
              \/ sorted[i].start < new[k].end /\ new[k].start <= sorted[i].start
    <3> TAKE i \in 1 .. n + 1
    <3>1. CASE i \in 1 .. n
      <4>1. PICK k \in 1 .. m :
              \/ acc[k] = sorted[i]
              \/ sorted[i].start < acc[k].end /\ acc[k].start <= sorted[i].start
        BY <1>4, <3>1
      <4>2. k \in 1 .. m + 1 /\ new[k] = acc[k]
        BY <1>3, <2>2, <4>1
      <4> QED
        BY <4>1, <4>2
    <3>2. CASE i = n + 1
      <4>1. m + 1 \in 1 .. m + 1
        BY <1>3
      <4> QED
        BY <2>2, <3>2, <4>1 DEF fix
    <3> QED
      BY <3>1, <3>2
  <2> QED
    BY <2>2, <2>3, <2>4, <2>5 DEF AcceptedOf, new, fix
<1> QED
  BY <1>8, <1>9

(* The accepted fixes are some of those offered, do not overlap, and every  *)
(* fix that is skipped starts in an accepted one.                           *)
LEMMA Accepted ==
    ASSUME NEW fixes, Valid(fixes)
    PROVE  /\ Valid(AcceptedFixes(fixes))
           /\ \A k \in DOMAIN AcceptedFixes(fixes) :
                \E i \in DOMAIN fixes : AcceptedFixes(fixes)[k] = fixes[i]
           /\ \A j, k \in DOMAIN AcceptedFixes(fixes) :
                j < k => AcceptedFixes(fixes)[j].end <= AcceptedFixes(fixes)[k].start
           /\ \A i \in DOMAIN fixes :
                \E k \in DOMAIN AcceptedFixes(fixes) :
                   \/ AcceptedFixes(fixes)[k] = fixes[i]
                   \/ /\ fixes[i].start < AcceptedFixes(fixes)[k].end
                      /\ AcceptedFixes(fixes)[k].start <= fixes[i].start
<1> DEFINE sorted == SortedFixes(fixes)
           acc == AcceptedFixes(fixes)
<1>1. fixes \in Seq(AFix) /\ \A i \in DOMAIN fixes : fixes[i].start <= fixes[i].end
  BY DEF Valid
<1>2. /\ sorted \in Seq(AFix)
      /\ \A i \in DOMAIN fixes : \E k \in DOMAIN sorted : sorted[k] = fixes[i]
      /\ \A k \in DOMAIN sorted : \E i \in DOMAIN fixes : sorted[k] = fixes[i]
      /\ \A j, k \in DOMAIN sorted : j < k => sorted[j].start <= sorted[k].start
  BY <1>1, Sorted
<1>3. acc = Accepting!FoldLeft(Accept, <<>>, sorted)
  BY DEF AcceptedFixes, FoldLeft, MapThenFoldSet, Max,
         Accepting!FoldLeft, Accepting!MapThenFoldSet, Accepting!Max
<1> HIDE DEF sorted, acc
<1>4. Valid(sorted)
  BY <1>1, <1>2 DEF Valid
<1>5. PICK v : Accepting!IsPath(v, sorted, <<>>)
                 /\ Accepting!FoldLeft(Accept, <<>>, sorted) = v[Len(sorted)]
  BY <1>2, Accepting!PathExists
<1>6. /\ v[0] = <<>>
      /\ \A k \in 1 .. Len(sorted) : v[k] = Accept(v[k - 1], sorted[k])
  BY <1>5 DEF Accepting!IsPath
<1>7. Len(sorted) \in Nat /\ DOMAIN sorted = 1 .. Len(sorted)
  BY <1>2
<1> DEFINE good == {n \in Nat : n <= Len(sorted) => AcceptedOf(sorted, v[n], n)}
<1>8. 0 \in good
  <2>1. AcceptedOf(sorted, <<>>, 0)
    BY DEF AcceptedOf
  <2> QED
    BY <1>6, <2>1
<1>9. \A n \in Nat : n \in good => n + 1 \in good
  <2> SUFFICES ASSUME NEW n \in Nat, n \in good, n + 1 <= Len(sorted)
               PROVE  AcceptedOf(sorted, v[n + 1], n + 1)
    OBVIOUS
  <2>1. AcceptedOf(sorted, v[n], n) /\ n + 1 \in 1 .. Len(sorted) /\ (n + 1) - 1 = n
    BY <1>7
  <2>2. v[n + 1] = Accept(v[n], sorted[n + 1])
    BY <1>6, <2>1
  <2> QED
    BY <1>2, <1>4, <1>7, <2>1, <2>2, AcceptStep
<1> HIDE DEF good
<1>10. Nat \subseteq good
  BY <1>8, <1>9, Accepting!NatInductionOnSets
<1>11. AcceptedOf(sorted, acc, Len(sorted))
  BY <1>3, <1>5, <1>7, <1>10 DEF good
<1>12. /\ acc \in Seq(AFix)
       /\ \A k \in DOMAIN acc : \E i \in DOMAIN sorted : acc[k] = sorted[i]
       /\ \A j, k \in DOMAIN acc : j < k => acc[j].end <= acc[k].start
       /\ \A i \in DOMAIN sorted :
            \E k \in DOMAIN acc :
               \/ acc[k] = sorted[i]
               \/ sorted[i].start < acc[k].end /\ acc[k].start <= sorted[i].start
  BY <1>7, <1>11 DEF AcceptedOf
<1>13. \A k \in DOMAIN acc : \E i \in DOMAIN fixes : acc[k] = fixes[i]
  BY <1>2, <1>12
<1>14. Valid(acc)
  BY <1>1, <1>12, <1>13 DEF Valid
<1>15. \A i \in DOMAIN fixes :
         \E k \in DOMAIN acc :
            \/ acc[k] = fixes[i]
            \/ fixes[i].start < acc[k].end /\ acc[k].start <= fixes[i].start
  <2> TAKE i \in DOMAIN fixes
  <2>1. PICK x \in DOMAIN sorted : sorted[x] = fixes[i]
    BY <1>2
  <2> QED
    BY <1>12, <2>1
<1> QED
  BY <1>12, <1>13, <1>14, <1>15 DEF acc
-----------------------------------------------------------------------------
Replacing == INSTANCE FoldInduction WITH Op <- ReplaceRange
Joining == INSTANCE FoldInduction WITH Op <- Joined

(* The texts that applying the last, the last two, ... of the fixes gives.  *)
RightToLeft(w, text, acc) ==
    /\ w[Len(acc)] = text
    /\ \A j \in 1 .. Len(acc) : w[j - 1] = ReplaceRange(w[j], acc[j])

LEMMA AppliedRightToLeft ==
    ASSUME NEW text, NEW fixes, AcceptedFixes(fixes) \in Seq(AFix)
    PROVE  \E w : RightToLeft(w, text, AcceptedFixes(fixes)) /\ ApplyFixes(text, fixes) = w[0]
<1> DEFINE acc == AcceptedFixes(fixes)
           n == Len(acc)
           rev == Reverse(acc)
<1>1. ApplyFixes(text, fixes) = Replacing!FoldLeft(ReplaceRange, text, rev)
  BY DEF ApplyFixes, FoldLeft, MapThenFoldSet, Max,
         Replacing!FoldLeft, Replacing!MapThenFoldSet, Replacing!Max
<1> HIDE DEF acc
<1>2. acc \in Seq(AFix) /\ n \in Nat /\ \A k \in 1 .. n : acc[k] \in AFix
  BY DEF acc
<1>3. /\ rev \in Seq(AFix) /\ Len(rev) = n
      /\ \A k \in 1 .. n : rev[k] = acc[(n - k) + 1]
  <2>1. rev = [k \in 1 .. n |-> acc[(n - k) + 1]]
    BY DEF Reverse
  <2>2. \A k \in 1 .. n : (n - k) + 1 \in 1 .. n
    BY <1>2
  <2>3. \A k \in 1 .. n : acc[(n - k) + 1] \in AFix
    BY <1>2, <2>2
  <2> HIDE DEF n, rev
  <2> QED
    BY <1>2, <2>1, <2>3
<1>4. PICK v : Replacing!IsPath(v, rev, text)
                 /\ Replacing!FoldLeft(ReplaceRange, text, rev) = v[Len(rev)]
  BY <1>3, Replacing!PathExists
<1>5. v[0] = text /\ \A k \in 1 .. n : v[k] = ReplaceRange(v[k - 1], rev[k])
  BY <1>3, <1>4 DEF Replacing!IsPath
<1> HIDE DEF n, rev
<1> DEFINE w == [j \in 0 .. n |-> v[n - j]]
<1>6. w[n] = text /\ w[0] = v[n]
  BY <1>2, <1>5
<1>7. \A j \in 1 .. n : w[j - 1] = ReplaceRange(w[j], acc[j])
  <2> TAKE j \in 1 .. n
  <2> DEFINE k == (n - j) + 1
  <2>1. k \in 1 .. n /\ (n - k) + 1 = j /\ k - 1 = n - j /\ k = n - (j - 1)
    BY <1>2
  <2>2. w[j - 1] = v[k] /\ w[j] = v[k - 1]
    BY <1>2, <2>1
  <2>3. v[k] = ReplaceRange(v[k - 1], rev[k]) /\ rev[k] = acc[j]
    BY <1>3, <1>5, <2>1
  <2> HIDE DEF w, k
  <2> QED
    BY <2>2, <2>3
<1> HIDE DEF w
<1>8. RightToLeft(w, text, acc)
  BY <1>6, <1>7 DEF RightToLeft, n
<1>9. ApplyFixes(text, fixes) = w[0]
  BY <1>1, <1>3, <1>4, <1>6
<1> QED
  BY <1>8, <1>9 DEF acc

(* What holds at n and, with a number, of the one below, holds down to 0.   *)
LEMMA DownToZero ==
    ASSUME NEW n \in Nat, NEW S, n \in S, \A j \in 1 .. n : j \in S => j - 1 \in S
    PROVE  \A j \in 0 .. n : j \in S
<1> DEFINE up == {k \in Nat : k <= n => n - k \in S}
<1>1. 0 \in up
  OBVIOUS
<1>2. \A k \in Nat : k \in up => k + 1 \in up
  <2> SUFFICES ASSUME NEW k \in Nat, k \in up, k + 1 <= n PROVE n - (k + 1) \in S
    OBVIOUS
  <2>1. n - k \in S /\ n - k \in 1 .. n /\ (n - k) - 1 = n - (k + 1)
    OBVIOUS
  <2> QED
    BY <2>1
<1> HIDE DEF up
<1>3. Nat \subseteq up
  BY <1>1, <1>2, Replacing!NatInductionOnSets
<1> TAKE j \in 0 .. n
<1>4. n - j \in Nat /\ n - j <= n /\ n - (n - j) = j
  OBVIOUS
<1> QED
  BY <1>3, <1>4 DEF up

(* Replacing within the first of two sequences.                             *)
Spliced(x, s, e, c) == (SubSeq(x, 1, s) \o c) \o SubSeq(x, e + 1, Len(x))
SplicedWithin(a, b, s, e, c) == SubSeq(a, 1, s) \o (c \o (SubSeq(a, e + 1, Len(a)) \o b))

LEMMA ReplaceWithin ==
    ASSUME NEW T, NEW a \in Seq(T), NEW b \in Seq(T),
           NEW s \in Nat, NEW e \in Nat, NEW c \in Seq(T), s <= e, e <= Len(a)
    PROVE  Spliced(a \o b, s, e, c) = SplicedWithin(a, b, s, e, c)
<1> DEFINE ab == a \o b
           head == SubSeq(a, 1, s)
           tail == SubSeq(a, e + 1, Len(a))
<1>1. /\ ab \in Seq(T) /\ Len(ab) = Len(a) + Len(b) /\ Len(a) \in Nat /\ Len(b) \in Nat
      /\ \A i \in 1 .. Len(a) : ab[i] = a[i]
      /\ \A i \in 1 .. Len(b) : ab[Len(a) + i] = b[i]
  OBVIOUS
<1>2. s \in Nat /\ e \in Nat /\ c \in Seq(T) /\ s <= e /\ e <= Len(a)
  OBVIOUS
<1>3. SubSeq(ab, 1, s) = head
  <2>1. \A i \in 1 .. s : ab[i] = a[i]
    BY <1>1, <1>2
  <2> HIDE DEF ab
  <2>2. SubSeq(ab, 1, s) = [i \in 1 .. s |-> ab[i]] /\ head = [i \in 1 .. s |-> a[i]]
    BY <1>1, <1>2
  <2> QED
    BY <2>1, <2>2
<1>4. SubSeq(ab, e + 1, Len(ab)) = tail \o b
  <2> DEFINE x == SubSeq(ab, e + 1, Len(ab))
             y == tail \o b
             d == Len(a) - e
  <2>1. d \in Nat /\ tail \in Seq(T) /\ Len(tail) = d /\ \A i \in 1 .. d : tail[i] = a[e + i]
    BY <1>2
  <2> HIDE DEF ab, tail
  <2>2. x \in Seq(T) /\ Len(x) = d + Len(b) /\ \A i \in 1 .. d + Len(b) : x[i] = ab[e + i]
    BY <1>1, <1>2
  <2>3. /\ y \in Seq(T) /\ Len(y) = d + Len(b)
        /\ \A i \in 1 .. d : y[i] = tail[i]
        /\ \A i \in d + 1 .. d + Len(b) : y[i] = b[i - d]
    <3> HIDE DEF d
    <3>0. tail \in Seq(T) /\ Len(tail) = d
      BY <2>1
    <3>1. tail \o b \in Seq(T) /\ Len(tail \o b) = d + Len(b)
      <4>1. b \in Seq(T)
        OBVIOUS
      <4>2. tail \o b \in Seq(T) /\ Len(tail \o b) = Len(tail) + Len(b)
        BY <3>0, <4>1, ConcatProperties
      <4> QED
        BY <3>0, <4>2
    <3>2. \A i \in 1 .. d + Len(b) :
             (tail \o b)[i] = IF i <= d THEN tail[i] ELSE b[i - d]
      BY <3>0
    <3>3. \A i \in 1 .. d : y[i] = tail[i]
      BY <1>1, <2>1, <3>2
    <3>4. \A i \in d + 1 .. d + Len(b) : y[i] = b[i - d]
      BY <1>1, <2>1, <3>2
    <3> QED
      BY <3>1, <3>3, <3>4
  <2>4. \A i \in 1 .. d + Len(b) : x[i] = y[i]
    <3> TAKE i \in 1 .. d + Len(b)
    <3>1. CASE i \in 1 .. d
      <4>1. e + i \in 1 .. Len(a)
        BY <1>2, <3>1
      <4> HIDE DEF x, y
      <4> QED
        BY <1>1, <2>1, <2>2, <2>3, <3>1, <4>1
    <3>2. CASE i \in d + 1 .. d + Len(b)
      <4>1. i - d \in 1 .. Len(b) /\ Len(a) + (i - d) = e + i
        BY <1>1, <1>2, <2>1, <3>2
      <4> HIDE DEF x, y
      <4> QED
        <5>1. x[i] = ab[e + i] /\ y[i] = b[i - d] /\ ab[Len(a) + (i - d)] = b[i - d]
          BY <1>1, <2>2, <2>3, <3>2, <4>1
        <5> QED
          BY <4>1, <5>1
    <3> HIDE DEF x, y, d
    <3>3. i \in 1 .. d \/ i \in d + 1 .. d + Len(b)
      BY <1>1, <2>1
    <3> QED
      BY <3>1, <3>2, <3>3
  <2> HIDE DEF x, y
  <2>5. x = y
    BY <1>1, <2>1, <2>2, <2>3, <2>4, SeqEqual
  <2> QED
    BY <2>5 DEF x, y, ab, tail
<1>5. head \in Seq(T) /\ tail \o b \in Seq(T)
  <2>1. head \in Seq(T) /\ tail \in Seq(T)
    BY <1>2
  <2> QED
    BY <2>1
<1>7. (head \o c) \o (tail \o b) = head \o (c \o (tail \o b))
  <2> DEFINE tb == tail \o b
  <2>1. head \in Seq(T) /\ c \in Seq(T) /\ tb \in Seq(T)
    BY <1>2, <1>5
  <2> HIDE DEF head, tail, tb
  <2>2. (head \o c) \o tb = head \o (c \o tb)
    BY <2>1, ConcatAssociative, SMTT(30)
  <2> QED
    BY <2>2 DEF tb
<1> QED
  BY <1>3, <1>4, <1>7 DEF Spliced, SplicedWithin
-----------------------------------------------------------------------------
Disjoint(text, acc) ==
    /\ Valid(acc)
    /\ \A j, k \in DOMAIN acc : j < k => acc[j].end <= acc[k].start
    /\ \A k \in DOMAIN acc : acc[k].end <= Len(text)

After(acc, k) == IF k = 0 THEN 0 ELSE acc[k].end
UpTo(text, acc, k) == IF k = Len(acc) THEN Len(text) ELSE acc[k + 1].start
Between(text, acc, k) == SubSeq(text, After(acc, k) + 1, UpTo(text, acc, k))

LEMMA GapsFit ==
    ASSUME NEW text \in Seq(Tokens), NEW acc, Disjoint(text, acc), NEW k \in 0 .. Len(acc)
    PROVE  /\ Len(acc) \in Nat /\ Len(text) \in Nat
           /\ After(acc, k) \in Nat /\ UpTo(text, acc, k) \in Nat
           /\ After(acc, k) <= UpTo(text, acc, k) /\ UpTo(text, acc, k) <= Len(text)
           /\ k > 0 => /\ acc[k] \in AFix /\ acc[k].start <= acc[k].end
                       /\ acc[k].start = UpTo(text, acc, k - 1) /\ acc[k].end = After(acc, k)
                       /\ acc[k].start \in Nat /\ acc[k].content \in Seq(Tokens)
<1>1. /\ acc \in Seq(AFix) /\ Len(acc) \in Nat /\ DOMAIN acc = 1 .. Len(acc)
      /\ \A i \in DOMAIN acc : acc[i].start <= acc[i].end
  BY DEF Disjoint, Valid
<1>2. /\ \A i, j \in DOMAIN acc : i < j => acc[i].end <= acc[j].start
      /\ \A i \in DOMAIN acc : acc[i].end <= Len(text)
  BY DEF Disjoint
<1>3. \A i \in DOMAIN acc : acc[i] \in AFix
  BY <1>1
<1>4. \A f \in AFix : f.start \in Nat /\ f.end \in Nat /\ f.content \in Seq(Tokens)
  BY DEF AFix
<1>5. Len(text) \in Nat
  OBVIOUS
<1>6. k > 0 => k \in DOMAIN acc
  BY <1>1
<1>7. k # Len(acc) => k + 1 \in DOMAIN acc
  <2> DEFINE n == Len(acc)
  <2>1. n \in Nat /\ DOMAIN acc = 1 .. n /\ k \in 0 .. n
    BY <1>1
  <2> HIDE DEF n
  <2>2. k # n => k + 1 \in 1 .. n
    BY <2>1
  <2> QED
    BY <2>1, <2>2 DEF n
<1>8. After(acc, k) \in Nat /\ After(acc, k) <= Len(text)
  BY <1>1, <1>2, <1>3, <1>4, <1>5, <1>6 DEF After
<1>9. UpTo(text, acc, k) \in Nat /\ UpTo(text, acc, k) <= Len(text)
  <2>1. CASE k = Len(acc)
    BY <1>5, <2>1 DEF UpTo
  <2>2. CASE k # Len(acc)
    <3>1. /\ UpTo(text, acc, k) = acc[k + 1].start /\ acc[k + 1].start <= acc[k + 1].end
          /\ acc[k + 1].end <= Len(text) /\ acc[k + 1].start \in Nat /\ acc[k + 1].end \in Nat
      BY <1>1, <1>2, <1>3, <1>4, <1>7, <2>2 DEF UpTo
    <3> QED
      BY <1>5, <3>1
  <2> QED
    BY <2>1, <2>2
<1>10. After(acc, k) <= UpTo(text, acc, k)
  <2>1. CASE k = Len(acc)
    BY <1>8, <2>1 DEF UpTo
  <2>2. CASE k # Len(acc) /\ k = 0
    BY <1>9, <2>2 DEF After
  <2>3. CASE k # Len(acc) /\ k # 0
    <3>1. k \in DOMAIN acc /\ k + 1 \in DOMAIN acc /\ k < k + 1
      BY <1>6, <1>7, <2>3
    <3>2. acc[k].end <= acc[k + 1].start
      BY <1>2, <3>1
    <3> QED
      BY <2>3, <3>2 DEF UpTo, After
  <2> QED
    BY <2>1, <2>2, <2>3
<1>11. ASSUME k > 0
       PROVE  /\ acc[k] \in AFix /\ acc[k].start <= acc[k].end
              /\ acc[k].start = UpTo(text, acc, k - 1) /\ acc[k].end = After(acc, k)
              /\ acc[k].start \in Nat /\ acc[k].content \in Seq(Tokens)
  <2>1. k - 1 # Len(acc) /\ (k - 1) + 1 = k /\ k # 0
    BY <1>1, <1>11
  <2> QED
    BY <1>1, <1>3, <1>4, <1>6, <1>11, <2>1 DEF UpTo, After
<1> QED
  BY <1>1, <1>5, <1>8, <1>9, <1>10, <1>11

(* Right to left leaves what building the text from left to right gives.    *)
LEMMA OneByOneIsAtOnce ==
    ASSUME NEW text \in Seq(Tokens), NEW fixes, Disjoint(text, AcceptedFixes(fixes))
    PROVE  ApplyFixes(text, fixes) =
             FoldLeft(Joined, Between(text, AcceptedFixes(fixes), 0),
                [k \in DOMAIN AcceptedFixes(fixes) |->
                   AcceptedFixes(fixes)[k].content \o Between(text, AcceptedFixes(fixes), k)])
<1> DEFINE acc == AcceptedFixes(fixes)
           n == Len(acc)
           Upto(k) == UpTo(text, acc, k)
           gap == [k \in 0 .. n |-> Between(text, acc, k)]
           piece == [k \in DOMAIN acc |-> acc[k].content \o Between(text, acc, k)]
<1>1. acc \in Seq(AFix) /\ n \in Nat /\ DOMAIN acc = 1 .. n
  BY DEF Disjoint, Valid
<1>2. PICK w : RightToLeft(w, text, acc) /\ ApplyFixes(text, fixes) = w[0]
  BY <1>1, AppliedRightToLeft
<1>3. FoldLeft(Joined, Between(text, acc, 0), piece)
        = Joining!FoldLeft(Joined, Between(text, acc, 0), piece)
  BY DEF FoldLeft, MapThenFoldSet, Max,
         Joining!FoldLeft, Joining!MapThenFoldSet, Joining!Max
<1> HIDE DEF acc
<1>4. w[n] = text /\ \A j \in 1 .. n : w[j - 1] = ReplaceRange(w[j], acc[j])
  BY <1>2 DEF RightToLeft
<1>5. Disjoint(text, acc)
  BY DEF acc
<1> HIDE DEF n
<1>6. \A k \in 0 .. n :
         /\ After(acc, k) \in Nat /\ Upto(k) \in Nat
         /\ After(acc, k) <= Upto(k) /\ Upto(k) <= Len(text)
         /\ k > 0 => /\ acc[k] \in AFix /\ acc[k].start <= acc[k].end
                     /\ acc[k].start = Upto(k - 1) /\ acc[k].end = After(acc, k)
                     /\ acc[k].start \in Nat /\ acc[k].content \in Seq(Tokens)
  BY <1>5, GapsFit DEF n
<1> HIDE DEF Upto
<1>7. \A k \in 0 .. n : gap[k] \in Seq(Tokens) /\ gap[k] = SubSeq(text, After(acc, k) + 1, Upto(k))
  <2> TAKE k \in 0 .. n
  <2>1. gap[k] = SubSeq(text, After(acc, k) + 1, Upto(k))
    BY DEF Between, Upto
  <2>2. /\ After(acc, k) \in Nat /\ Upto(k) \in Nat
        /\ Upto(k) <= Len(text)
    BY <1>6
  <2>3. SubSeq(text, After(acc, k) + 1, Upto(k)) \in Seq(Tokens)
    BY <2>2
  <2> HIDE DEF gap
  <2> QED
    BY <2>1, <2>3
<1>8. \A k \in 1 .. n : piece[k] = acc[k].content \o gap[k] /\ piece[k] \in Seq(Tokens)
  <2> TAKE k \in 1 .. n
  <2>1. k \in 0 .. n /\ k > 0
    BY <1>1
  <2>2. piece[k] = acc[k].content \o gap[k]
    BY <1>1, <2>1
  <2>3. acc[k].content \in Seq(Tokens) /\ gap[k] \in Seq(Tokens)
    BY <1>6, <1>7, <2>1
  <2> HIDE DEF piece, gap
  <2> QED
    BY <2>2, <2>3
<1>9. piece \in Seq(Seq(Tokens)) /\ Len(piece) = n
  <2> DEFINE T == Seq(Tokens)
  <2>1. piece = [k \in 1 .. n |-> piece[k]]
    BY <1>1
  <2>2. \A k \in 1 .. n : piece[k] \in T
    BY <1>8
  <2> HIDE DEF piece, T
  <2>3. piece \in Seq(T) /\ Len(piece) = n
    BY <1>1, <2>1, <2>2
  <2> QED
    BY <2>3 DEF T
<1> DEFINE gap0 == Between(text, acc, 0)
<1>10. gap[0] = gap0
  BY <1>1
<1> HIDE DEF gap, gap0
<1>11. PICK v : Joining!IsPath(v, piece, gap0)
                  /\ Joining!FoldLeft(Joined, gap0, piece) = v[Len(piece)]
  BY <1>9, Joining!PathExists
<1> HIDE DEF piece
<1>12. v[0] = gap[0] /\ \A k \in 1 .. n : v[k] = v[k - 1] \o piece[k]
  BY <1>9, <1>10, <1>11 DEF Joining!IsPath, Joined
(* What is right of the gap is complete.                                    *)
<1> DEFINE Right(j, r) == r \in Seq(Tokens) /\ w[j] = SubSeq(text, 1, Upto(j)) \o r
           known == {j \in 0 .. n : \E r : Right(j, r)}
<1>13. Right(n, <<>>)
  <2>1. Upto(n) = Len(text)
    BY DEF Upto, UpTo, n
  <2>2. SubSeq(text, 1, Len(text)) = text /\ text \o <<>> = text
    OBVIOUS
  <2> QED
    BY <1>4, <2>1, <2>2
<1>14. ASSUME NEW j \in 1 .. n, NEW r, Right(j, r)
       PROVE  Right(j - 1, piece[j] \o r)
  <2>1. j \in 0 .. n /\ j > 0
    BY <1>1
  <2>2. /\ After(acc, j) \in Nat /\ Upto(j) \in Nat
        /\ After(acc, j) <= Upto(j) /\ Upto(j) <= Len(text)
        /\ acc[j].start <= acc[j].end
        /\ acc[j].start = Upto(j - 1) /\ acc[j].end = After(acc, j)
        /\ acc[j].start \in Nat /\ acc[j].content \in Seq(Tokens)
    BY <1>6, <2>1
  <2> DEFINE a == SubSeq(text, 1, Upto(j))
  <2>3. a \in Seq(Tokens) /\ Len(a) = Upto(j) /\ \A i \in 1 .. Upto(j) : a[i] = text[i]
    BY <2>2
  <2> HIDE DEF a
  <2>4. w[j] = a \o r /\ r \in Seq(Tokens)
    BY <1>14 DEF a
  <2>5. ReplaceRange(a \o r, acc[j]) =
          SubSeq(a, 1, acc[j].start) \o (acc[j].content \o (SubSeq(a, acc[j].end + 1, Len(a)) \o r))
    <3> DEFINE s == acc[j].start
               e == acc[j].end
               c == acc[j].content
               ar == a \o r
    <3>1. s \in Nat /\ e \in Nat /\ c \in Seq(Tokens) /\ s <= e /\ e <= Len(a)
      BY <2>2, <2>3
    <3>2. ReplaceRange(ar, acc[j]) = Spliced(ar, s, e, c)
      BY DEF ReplaceRange, Spliced
    <3> HIDE DEF s, e, c
    <3>3. Spliced(ar, s, e, c) = SplicedWithin(a, r, s, e, c)
      BY <2>3, <2>4, <3>1, ReplaceWithin
    <3> QED
      BY <3>2, <3>3 DEF s, e, c, SplicedWithin
  <2>6. SubSeq(a, 1, acc[j].start) = SubSeq(text, 1, Upto(j - 1))
    <3> DEFINE s == acc[j].start
    <3>1. s \in Nat /\ s <= Upto(j) /\ s <= Len(text) /\ s = Upto(j - 1)
      BY <2>2
    <3> HIDE DEF s
    <3>2. SubSeq(a, 1, s) = [i \in 1 .. s |-> a[i]] /\ SubSeq(text, 1, s) = [i \in 1 .. s |-> text[i]]
      BY <2>3, <3>1
    <3>3. \A i \in 1 .. s : a[i] = text[i]
      BY <2>2, <2>3, <3>1
    <3> QED
      BY <3>1, <3>2, <3>3 DEF s
  <2>7. SubSeq(a, acc[j].end + 1, Len(a)) = gap[j]
    <3> DEFINE e == After(acc, j)
               u == Upto(j)
    <3>1. e \in Nat /\ u \in Nat /\ e <= u /\ u <= Len(text) /\ Len(a) = u
      BY <2>2, <2>3
    <3>2. gap[j] = SubSeq(text, e + 1, u)
      BY <1>7, <2>1
    <3> HIDE DEF e, u
    <3>3. /\ SubSeq(a, e + 1, u) = [i \in 1 .. u - e |-> a[e + i]]
          /\ SubSeq(text, e + 1, u) = [i \in 1 .. u - e |-> text[e + i]]
      BY <2>3, <3>1
    <3>4. \A i \in 1 .. u - e : a[e + i] = text[e + i]
      <4> TAKE i \in 1 .. u - e
      <4>1. e + i \in 1 .. u
        BY <3>1
      <4> QED
        BY <2>3, <4>1 DEF u
    <3>5. SubSeq(a, e + 1, u) = SubSeq(text, e + 1, u)
      BY <3>3, <3>4
    <3> QED
      BY <2>2, <3>1, <3>2, <3>5 DEF e
  <2>8. gap[j] \in Seq(Tokens)
    BY <1>7, <2>1
  <2>9. piece[j] = acc[j].content \o gap[j] /\ piece[j] \in Seq(Tokens)
    BY <1>8
  <2>10. acc[j].content \o (gap[j] \o r) = piece[j] \o r
    <3>1. (acc[j].content \o gap[j]) \o r = acc[j].content \o (gap[j] \o r)
      <4> DEFINE c == acc[j].content
                 g == gap[j]
      <4>1. c \in Seq(Tokens) /\ g \in Seq(Tokens) /\ r \in Seq(Tokens)
        BY <2>2, <2>4, <2>8
      <4> HIDE DEF c, g
      <4>2. (c \o g) \o r = c \o (g \o r)
        BY <4>1, ConcatAssociative
      <4> QED
        BY <4>2 DEF c, g
    <3> QED
      BY <2>9, <3>1
  <2>11. w[j - 1] = SubSeq(text, 1, Upto(j - 1)) \o (piece[j] \o r)
    BY <1>4, <2>4, <2>5, <2>6, <2>7, <2>10
  <2>12. piece[j] \o r \in Seq(Tokens)
    BY <2>4, <2>9
  <2> QED
    BY <2>11, <2>12
(* The part built so far and what is right of it make the same text.        *)
<1> DEFINE whole == {j \in 0 .. n : \E r : Right(j, r) /\ v[n] = v[j] \o r}
<1>15. \A j \in 0 .. n : v[j] \in Seq(Tokens)
  <2> DEFINE typed == {j \in Nat : j <= n => v[j] \in Seq(Tokens)}
  <2>1. 0 \in typed
    BY <1>1, <1>7, <1>12
  <2>2. \A j \in Nat : j \in typed => j + 1 \in typed
    <3> SUFFICES ASSUME NEW j \in Nat, j \in typed, j + 1 <= n PROVE v[j + 1] \in Seq(Tokens)
      OBVIOUS
    <3>1. v[j] \in Seq(Tokens) /\ j + 1 \in 1 .. n /\ (j + 1) - 1 = j
      BY <1>1
    <3>2. v[j + 1] = v[j] \o piece[j + 1] /\ piece[j + 1] \in Seq(Tokens)
      BY <1>8, <1>12, <3>1
    <3> QED
      BY <3>1, <3>2
  <2> HIDE DEF typed
  <2>3. Nat \subseteq typed
    BY <2>1, <2>2, Joining!NatInductionOnSets
  <2> QED
    BY <1>1, <2>3 DEF typed
<1> HIDE DEF Right
<1>16. n \in whole
  <2>1. v[n] \in Seq(Tokens)
    BY <1>1, <1>15
  <2>2. v[n] = v[n] \o <<>>
    BY <2>1
  <2>3. n \in 0 .. n
    BY <1>1
  <2>4. \E r : Right(n, r) /\ v[n] = v[n] \o r
    BY <1>13, <2>2
  <2> QED
    BY <2>3, <2>4
<1>17. \A j \in 1 .. n : j \in whole => j - 1 \in whole
  <2> SUFFICES ASSUME NEW j \in 1 .. n, NEW r, Right(j, r), v[n] = v[j] \o r
               PROVE  j - 1 \in 0 .. n /\ Right(j - 1, piece[j] \o r)
                        /\ v[n] = v[j - 1] \o (piece[j] \o r)
    OBVIOUS
  <2>1. j - 1 \in 0 .. n
    BY <1>1
  <2>2. v[j] = v[j - 1] \o piece[j] /\ v[j - 1] \in Seq(Tokens) /\ piece[j] \in Seq(Tokens)
    BY <1>8, <1>12, <1>15, <2>1
  <2>3. r \in Seq(Tokens)
    BY DEF Right
  <2>4. (v[j - 1] \o piece[j]) \o r = v[j - 1] \o (piece[j] \o r)
    <3> DEFINE x == v[j - 1]
               y == piece[j]
    <3>1. x \in Seq(Tokens) /\ y \in Seq(Tokens) /\ r \in Seq(Tokens)
      BY <2>2, <2>3
    <3> HIDE DEF x, y
    <3>2. (x \o y) \o r = x \o (y \o r)
      BY <3>1, ConcatAssociative, SMTT(30)
    <3> QED
      BY <3>2 DEF x, y
  <2> QED
    BY <1>14, <2>1, <2>2, <2>4
<1> HIDE DEF whole
<1>18. 0 \in whole
  <2>1. 0 \in 0 .. n
    BY <1>1
  <2> QED
    BY <1>1, <1>16, <1>17, <2>1, DownToZero
<1>19. PICK r : Right(0, r) /\ v[n] = v[0] \o r
  BY <1>18 DEF whole
<1>20. w[0] = SubSeq(text, 1, Upto(0)) \o r
  BY <1>19 DEF Right
<1>21. gap[0] = SubSeq(text, 1, Upto(0))
  <2>1. 0 \in 0 .. n /\ After(acc, 0) + 1 = 1
    BY <1>1 DEF After
  <2> QED
    BY <1>7, <2>1
<1>22. w[0] = v[n]
  BY <1>12, <1>19, <1>20, <1>21
<1> QED
  BY <1>2, <1>3, <1>9, <1>11, <1>22 DEF acc, piece, gap0
-----------------------------------------------------------------------------
Reading == INSTANCE FoldInduction WITH Op <- AddToken

Lines(before, text) == Reading!FoldLeft(AddToken, before, text)

LEMMA CodeLinesFolds ==
    ASSUME NEW text
    PROVE  CodeLines(text) = Lines(<<>>, text)
BY DEF CodeLines, Lines, FoldLeft, MapThenFoldSet, Max,
       Reading!FoldLeft, Reading!MapThenFoldSet, Reading!Max

(* Slices of a sequence, and a slice replaced.                              *)
LEMMA Slice ==
    ASSUME NEW T, NEW q \in Seq(T), NEW s \in Nat, NEW e \in Nat, s <= e, e <= Len(q)
    PROVE  /\ SubSeq(q, s + 1, e) \in Seq(T)
           /\ Len(SubSeq(q, s + 1, e)) = e - s
           /\ \A x \in 1 .. e - s : SubSeq(q, s + 1, e)[x] = q[s + x]
<1>1. Len(q) \in Nat /\ \A i \in 1 .. Len(q) : q[i] \in T
  OBVIOUS
<1>2. \A i \in s + 1 .. e : q[i] \in T
  BY <1>1
<1>3. s + 1 \in Int /\ e \in Int
  OBVIOUS
<1>4. /\ SubSeq(q, s + 1, e) \in Seq(T)
      /\ Len(SubSeq(q, s + 1, e)) = IF s + 1 <= e THEN e - (s + 1) + 1 ELSE 0
      /\ \A x \in 1 .. e - (s + 1) + 1 : SubSeq(q, s + 1, e)[x] = q[(s + 1) + x - 1]
  BY <1>2, <1>3, SubSeqProperties
<1> DEFINE z == SubSeq(q, s + 1, e)
<1> HIDE DEF z
<1>5. z \in Seq(T) /\ Len(z) = e - s
  BY <1>4 DEF z
<1>6. \A x \in 1 .. e - s : z[x] = q[s + x]
  <2> TAKE x \in 1 .. e - s
  <2>1. x \in 1 .. e - (s + 1) + 1 /\ (s + 1) + x - 1 = s + x
    OBVIOUS
  <2> QED
    BY <1>4, <2>1 DEF z
<1> QED
  BY <1>5, <1>6 DEF z

LEMMA Prefix ==
    ASSUME NEW T, NEW q \in Seq(T), NEW s \in Nat, s <= Len(q)
    PROVE  /\ SubSeq(q, 1, s) \in Seq(T)
           /\ Len(SubSeq(q, 1, s)) = s
           /\ \A x \in 1 .. s : SubSeq(q, 1, s)[x] = q[x]
<1>1. 0 \in Nat /\ 0 <= s /\ 0 + 1 = 1 /\ s - 0 = s /\ \A x \in 1 .. s : 0 + x = x
  OBVIOUS
<1>2. /\ SubSeq(q, 0 + 1, s) \in Seq(T)
      /\ Len(SubSeq(q, 0 + 1, s)) = s - 0
      /\ \A x \in 1 .. s - 0 : SubSeq(q, 0 + 1, s)[x] = q[0 + x]
  BY <1>1, Slice
<1> QED
  BY <1>1, <1>2

IsSpliced(T, q, s, e, c, y) ==
    /\ y \in Seq(T)
    /\ Len(y) = (s + Len(c)) + (Len(q) - e)
    /\ \A x \in 1 .. s : y[x] = q[x]
    /\ \A x \in 1 .. Len(c) : y[s + x] = c[x]
    /\ \A x \in 1 .. Len(q) - e : y[(s + Len(c)) + x] = q[e + x]

LEMMA SplicedFacts ==
    ASSUME NEW T, NEW q \in Seq(T), NEW c \in Seq(T),
           NEW s \in Nat, NEW e \in Nat, s <= e, e <= Len(q)
    PROVE  IsSpliced(T, q, s, e, c, Spliced(q, s, e, c))
<1> DEFINE n == Len(q)
           p == SubSeq(q, 1, s)
           r == SubSeq(q, e + 1, n)
           pc == p \o c
           k == Len(c)
<1>1. n \in Nat /\ k \in Nat /\ s <= n /\ e <= n /\ n - e \in Nat
  OBVIOUS
<1>2. p \in Seq(T) /\ Len(p) = s /\ \A x \in 1 .. s : p[x] = q[x]
  BY <1>1, Prefix
<1>3. r \in Seq(T) /\ Len(r) = n - e /\ \A x \in 1 .. n - e : r[x] = q[e + x]
  BY <1>1, Slice
<1> HIDE DEF p, r, n
<1>4. /\ pc \in Seq(T) /\ Len(pc) = s + k
      /\ \A x \in 1 .. s + k : pc[x] = IF x <= s THEN p[x] ELSE c[x - s]
  <2>1. pc \in Seq(T) /\ Len(pc) = Len(p) + Len(c)
    BY <1>2, ConcatProperties
  <2>2. \A x \in 1 .. Len(p) + Len(c) : pc[x] = IF x <= Len(p) THEN p[x] ELSE c[x - Len(p)]
    BY <1>2, ConcatProperties
  <2> HIDE DEF pc
  <2> QED
    BY <1>2, <2>1, <2>2
<1> HIDE DEF pc
<1> DEFINE y == pc \o r
<1>5. /\ y \in Seq(T) /\ Len(y) = (s + k) + (n - e)
      /\ \A x \in 1 .. (s + k) + (n - e) : y[x] = IF x <= s + k THEN pc[x] ELSE r[x - (s + k)]
  <2>0. pc \in Seq(T) /\ r \in Seq(T)
    BY <1>3, <1>4
  <2>1. y \in Seq(T) /\ Len(y) = Len(pc) + Len(r)
    BY <2>0, ConcatProperties
  <2>2. \A x \in 1 .. Len(pc) + Len(r) : y[x] = IF x <= Len(pc) THEN pc[x] ELSE r[x - Len(pc)]
    BY <2>0, ConcatProperties
  <2> HIDE DEF y
  <2> QED
    BY <1>3, <1>4, <2>1, <2>2
<1> HIDE DEF y, k
<1>6. ASSUME NEW x \in 1 .. s PROVE y[x] = q[x]
  <2>1. x \in 1 .. s + k /\ x \in 1 .. (s + k) + (n - e) /\ x <= s /\ x <= s + k
    BY <1>1
  <2> QED
    BY <1>2, <1>4, <1>5, <2>1
<1>7. ASSUME NEW x \in 1 .. k PROVE y[s + x] = c[x]
  <2>1. /\ s + x \in 1 .. s + k /\ s + x \in 1 .. (s + k) + (n - e)
        /\ ~(s + x <= s) /\ s + x <= s + k /\ (s + x) - s = x
    BY <1>1
  <2> QED
    BY <1>4, <1>5, <2>1
<1>8. ASSUME NEW x \in 1 .. n - e PROVE y[(s + k) + x] = q[e + x]
  <2>1. /\ (s + k) + x \in 1 .. (s + k) + (n - e)
        /\ ~((s + k) + x <= s + k) /\ ((s + k) + x) - (s + k) = x
    BY <1>1
  <2> QED
    BY <1>3, <1>5, <2>1
<1>9. Spliced(q, s, e, c) = y
  BY DEF Spliced, y, pc, p, r, n
<1> QED
  BY <1>5, <1>6, <1>7, <1>8, <1>9 DEF n, k, IsSpliced

LEMMA Cut ==
    ASSUME NEW T, NEW q \in Seq(T), NEW s \in Nat, NEW e \in Nat, s <= e, e <= Len(q)
    PROVE  q = (SubSeq(q, 1, s) \o SubSeq(q, s + 1, e)) \o SubSeq(q, e + 1, Len(q))
<1>1. Len(q) \in Nat /\ 1 \in 1 .. Len(q) + 1 /\ s \in 1 - 1 .. Len(q) /\ e \in s .. Len(q)
      /\ e \in 1 - 1 .. Len(q) /\ Len(q) \in e .. Len(q)
  OBVIOUS
<1>2. SubSeq(q, 1, s) \o SubSeq(q, s + 1, e) = SubSeq(q, 1, e)
  BY <1>1, ConcatAdjacentSubSeq
<1>3. SubSeq(q, 1, e) \o SubSeq(q, e + 1, Len(q)) = SubSeq(q, 1, Len(q))
  BY <1>1, ConcatAdjacentSubSeq
<1>4. SubSeq(q, 1, Len(q)) = q
  BY SubSeqFull
<1> QED
  BY <1>2, <1>3, <1>4
-----------------------------------------------------------------------------
Kinds == {"stmt", "if", "else", "end", "newline", "comment"}

LEMMA TokenTypes ==
    ASSUME NEW token \in Tokens
    PROVE  /\ token.t \in Kinds
           /\ token.kind = "code" <=> ~IsTrivia(token)
           /\ token.t = "comment" =>
                /\ token.kind \in {"all", "file", "node"}
                /\ token.kind = "all" => token.rule = NoRule
                /\ token.rule \in Rules \cup {Typo, NoRule}
BY DEF Tokens, Stmt, If, Else, End, NewLine, Comment, Kinds, IsTrivia

(* A fix of the linter: one token for another of its kind; or a comment is  *)
(* deleted, with its line break if it has the line for itself.              *)
Harmless(text, fix) ==
    \E i \in DOMAIN text :
      /\ fix.start = i - 1
      /\ \/ /\ fix.end = i
            /\ \E token \in Tokens : fix.content = <<token>> /\ token.t = text[i].t
         \/ fix.end = i /\ fix.content = <<>> /\ text[i].t = "comment"
         \/ /\ fix.end = i + 1 /\ fix.content = <<>> /\ i + 1 \in DOMAIN text
            /\ text[i].t = "comment" /\ text[i + 1].t = "newline"
            /\ i = 1 \/ text[i - 1].t = "newline"

LEMMA LinesOf ==
    ASSUME NEW T, NEW before, NEW a \in Seq(T), NEW b \in Seq(T), NEW c \in Seq(T)
    PROVE  Lines(before, (a \o b) \o c) = Lines(Lines(Lines(before, a), b), c)
<1> DEFINE ab == a \o b
<1>1. ab \in Seq(T)
  OBVIOUS
<1>2. Lines(before, ab) = Lines(Lines(before, a), b)
  BY Reading!FoldBoth DEF Lines
<1> HIDE DEF ab
<1>3. Lines(before, ab \o c) = Lines(Lines(before, ab), c)
  BY <1>1, Reading!FoldBoth DEF Lines
<1> QED
  BY <1>2, <1>3 DEF ab

(* After a line break, another one is no line.                              *)
LEMMA AfterNewline ==
    ASSUME NEW p \in Seq(Tokens), p = <<>> \/ Last(p).t = "newline"
    PROVE  Lines(<<>>, p) = <<>> \/ Last(Lines(<<>>, p)) = "newline"
<1>1. CASE p = <<>>
  <2>1. Lines(<<>>, <<>>) = <<>>
    BY Reading!FoldNothing DEF Lines
  <2> QED
    BY <1>1, <2>1
<1>2. CASE p # <<>>
  <2> DEFINE n == Len(p)
             q == SubSeq(p, 1, n - 1)
             one == <<p[n]>>
             l == Lines(<<>>, q)
  <2>1. n \in Nat /\ n > 0 /\ p[n].t = "newline" /\ p[n] \in Tokens
    BY <1>2 DEF Last
  <2>2. q \in Seq(Tokens) /\ one \in Seq(Tokens) /\ p = q \o one
    <3>1. q \in Seq(Tokens) /\ one \in Seq(Tokens)
      BY <2>1
    <3>2. SubSeq(p, 1, n) = SubSeq(p, 1, n - 1) \o <<p[n]>>
      BY <2>1, SubSeqRecursiveSecond
    <3>3. SubSeq(p, 1, n) = p
      BY SubSeqFull
    <3> QED
      BY <3>1, <3>2, <3>3
  <2>3. l \in Seq(Kinds)
    <3>1. \A x \in Seq(Kinds), token \in Tokens : AddToken(x, token) \in Seq(Kinds)
      <4> SUFFICES ASSUME NEW x \in Seq(Kinds), NEW token \in Tokens
                   PROVE  AddToken(x, token) \in Seq(Kinds)
        OBVIOUS
      <4> DEFINE t == token.t
      <4>1. t \in Kinds
        BY TokenTypes
      <4>2. AddToken(x, token) = x \/ AddToken(x, token) = Append(x, t)
        BY DEF AddToken
      <4> HIDE DEF t
      <4>3. Append(x, t) \in Seq(Kinds)
        BY <4>1
      <4> QED
        BY <4>2, <4>3
    <3>2. <<>> \in Seq(Kinds)
      OBVIOUS
    <3> HIDE DEF q
    <3> QED
      BY <2>2, <3>1, <3>2, Reading!FoldStays DEF Lines
  <2> HIDE DEF q, one, l
  <2>4. Lines(<<>>, p) = Lines(l, one)
    BY <2>2, Reading!FoldBoth DEF Lines, l
  <2>5. Lines(l, one) = AddToken(l, p[n])
    BY Reading!FoldOne DEF Lines, one
  <2>6. AddToken(l, p[n]) = IF l = <<>> \/ Last(l) = "newline" THEN l ELSE Append(l, "newline")
    BY <2>1 DEF AddToken
  <2>7. Last(Append(l, "newline")) = "newline"
    <3>1. "newline" \in Kinds
      BY DEF Kinds
    <3>2. Append(l, "newline") \in Seq(Kinds) /\ Len(Append(l, "newline")) = Len(l) + 1
          /\ Append(l, "newline")[Len(l) + 1] = "newline"
      BY <2>3, <3>1
    <3> QED
      BY <3>2 DEF Last
  <2> QED
    BY <2>4, <2>5, <2>6, <2>7
<1> QED
  BY <1>1, <1>2

LEMMA SameLines ==
    ASSUME NEW text \in Seq(Tokens), NEW c \in Seq(Tokens), NEW b \in Nat, NEW e \in Nat,
           b <= e, e <= Len(text),
           Lines(Lines(<<>>, SubSeq(text, 1, b)), SubSeq(text, b + 1, e))
             = Lines(Lines(<<>>, SubSeq(text, 1, b)), c)
    PROVE  CodeLines(Spliced(text, b, e, c)) = CodeLines(text)
<1> DEFINE n == Len(text)
           p == SubSeq(text, 1, b)
           u == SubSeq(text, b + 1, e)
           s == SubSeq(text, e + 1, n)
<1>1. n \in Nat /\ b <= n /\ e <= n /\ n <= n
  OBVIOUS
<1>2. p \in Seq(Tokens)
  BY <1>1, Prefix
<1>3. u \in Seq(Tokens)
  BY Slice
<1>4. s \in Seq(Tokens)
  BY <1>1, Slice
<1>5. text = (p \o u) \o s
  BY Cut
<1>6. Spliced(text, b, e, c) = (p \o c) \o s
  BY DEF Spliced
<1> HIDE DEF p, u, s
<1>7. Lines(<<>>, (p \o u) \o s) = Lines(Lines(Lines(<<>>, p), u), s)
  BY <1>2, <1>3, <1>4, LinesOf
<1>8. Lines(<<>>, (p \o c) \o s) = Lines(Lines(Lines(<<>>, p), c), s)
  BY <1>2, <1>4, LinesOf
<1>9. Lines(Lines(<<>>, p), u) = Lines(Lines(<<>>, p), c)
  BY DEF p, u
<1> QED
  BY <1>5, <1>6, <1>7, <1>8, <1>9, CodeLinesFolds

LEMMA OneToken ==
    ASSUME NEW l, NEW token
    PROVE  Lines(l, <<token>>) = AddToken(l, token)
BY Reading!FoldOne DEF Lines

LEMMA TwoTokens ==
    ASSUME NEW l, NEW first \in Tokens, NEW second \in Tokens, NEW u \in Seq(Tokens),
           Len(u) = 2, u[1] = first, u[2] = second
    PROVE  Lines(l, u) = AddToken(AddToken(l, first), second)
<1> DEFINE a == <<first>>
           z == <<second>>
           az == a \o z
<1>1. a \in Seq(Tokens) /\ Len(a) = 1 /\ a[1] = first
  OBVIOUS
<1>2. z \in Seq(Tokens) /\ Len(z) = 1 /\ z[1] = second
  OBVIOUS
<1>3. Lines(l, az) = Lines(Lines(l, a), z)
  <2>1. a \in Seq(Tokens) /\ z \in Seq(Tokens)
    BY <1>1, <1>2
  <2> HIDE DEF a, z
  <2> QED
    BY <2>1, Reading!FoldBoth DEF Lines
<1>4. Lines(l, a) = AddToken(l, first)
  BY OneToken
<1>5. Lines(AddToken(l, first), z) = AddToken(AddToken(l, first), second)
  BY OneToken
<1> HIDE DEF a, z
<1>6. az \in Seq(Tokens) /\ Len(az) = Len(a) + Len(z)
  BY <1>1, <1>2, ConcatProperties
<1>7. \A x \in 1 .. Len(a) + Len(z) : az[x] = IF x <= Len(a) THEN a[x] ELSE z[x - Len(a)]
  BY <1>1, <1>2, ConcatProperties
<1> HIDE DEF az
<1>8. Len(az) = 2 /\ az[1] = first /\ az[2] = second
  <2>1. Len(az) = 2 /\ 1 \in 1 .. 2 /\ 2 \in 1 .. 2 /\ 1 <= 1 /\ ~(2 <= 1) /\ 2 - 1 = 1
    BY <1>1, <1>2, <1>6
  <2>2. \A x \in 1 .. 2 : az[x] = IF x <= 1 THEN a[x] ELSE z[x - 1]
    BY <1>1, <1>2, <1>7
  <2> QED
    BY <1>1, <1>2, <2>1, <2>2
<1>9. u = az
  <2>1. \A x \in 1 .. Len(u) : u[x] = az[x]
    BY <1>8
  <2> QED
    BY <1>6, <1>8, <2>1, SeqEqual
<1> QED
  BY <1>3, <1>4, <1>5, <1>9

(* Where the fix is, in numbers.                                            *)
LEMMA HarmlessPlace ==
    ASSUME NEW text \in Seq(Tokens), NEW fix, Harmless(text, fix)
    PROVE  \E s, e \in Nat :
             /\ fix.start = s /\ fix.end = e /\ s < e /\ e <= Len(text) /\ s + 1 \in DOMAIN text
             /\ fix.content \in Seq(Tokens)
             /\ \/ /\ e = s + 1
                   /\ \E token \in Tokens : fix.content = <<token>> /\ token.t = text[s + 1].t
                \/ e = s + 1 /\ fix.content = <<>> /\ text[s + 1].t = "comment"
                \/ /\ e = s + 2 /\ fix.content = <<>>
                   /\ text[s + 1].t = "comment" /\ text[s + 2].t = "newline"
                   /\ s = 0 \/ text[s].t = "newline"
<1>1. PICK i \in DOMAIN text :
        /\ fix.start = i - 1
        /\ \/ /\ fix.end = i
              /\ \E token \in Tokens : fix.content = <<token>> /\ token.t = text[i].t
           \/ fix.end = i /\ fix.content = <<>> /\ text[i].t = "comment"
           \/ /\ fix.end = i + 1 /\ fix.content = <<>> /\ i + 1 \in DOMAIN text
              /\ text[i].t = "comment" /\ text[i + 1].t = "newline"
              /\ i = 1 \/ text[i - 1].t = "newline"
  BY DEF Harmless
<1>2. DOMAIN text = 1 .. Len(text) /\ Len(text) \in Nat
  OBVIOUS
<1>3. PICK s \in Nat : s = i - 1
  <2>1. i - 1 \in Nat
    BY <1>2
  <2> QED
    BY <2>1
<1>4. s + 1 = i /\ fix.start = s /\ s + 1 <= Len(text)
  BY <1>1, <1>2, <1>3
<1>5. CASE /\ fix.end = i
           /\ \E token \in Tokens : fix.content = <<token>> /\ token.t = text[i].t
  <2>1. fix.content \in Seq(Tokens)
    BY <1>5
  <2>2. fix.end = s + 1 /\ s + 1 \in Nat /\ s < s + 1
    BY <1>4, <1>5
  <2> QED
    BY <1>4, <1>5, <2>1, <2>2
<1>6. CASE fix.end = i /\ fix.content = <<>> /\ text[i].t = "comment"
  <2>1. fix.content \in Seq(Tokens)
    BY <1>6
  <2>2. fix.end = s + 1 /\ s + 1 \in Nat /\ s < s + 1
    BY <1>4, <1>6
  <2> QED
    BY <1>4, <1>6, <2>1, <2>2
<1>7. CASE /\ fix.end = i + 1 /\ fix.content = <<>> /\ i + 1 \in DOMAIN text
           /\ text[i].t = "comment" /\ text[i + 1].t = "newline"
           /\ i = 1 \/ text[i - 1].t = "newline"
  <2>1. fix.content \in Seq(Tokens)
    BY <1>7
  <2>2. fix.end = s + 2 /\ s + 2 \in Nat /\ s < s + 2 /\ s + 2 <= Len(text) /\ s + 2 = i + 1
        /\ (i = 1 => s = 0) /\ i - 1 = s
    BY <1>2, <1>3, <1>4, <1>7
  <2> QED
    BY <1>4, <1>7, <2>1, <2>2
<1> QED
  BY <1>1, <1>5, <1>6, <1>7

LEMMA HarmlessKeepsLines ==
    ASSUME NEW text \in Seq(Tokens), NEW fix, Harmless(text, fix)
    PROVE  CodeLines(ReplaceRange(text, fix)) = CodeLines(text)
<1>1. PICK s, e \in Nat :
             /\ fix.start = s /\ fix.end = e /\ s < e /\ e <= Len(text) /\ s + 1 \in DOMAIN text
             /\ fix.content \in Seq(Tokens)
             /\ \/ /\ e = s + 1
                   /\ \E token \in Tokens : fix.content = <<token>> /\ token.t = text[s + 1].t
                \/ e = s + 1 /\ fix.content = <<>> /\ text[s + 1].t = "comment"
                \/ /\ e = s + 2 /\ fix.content = <<>>
                   /\ text[s + 1].t = "comment" /\ text[s + 2].t = "newline"
                   /\ s = 0 \/ text[s].t = "newline"
  BY HarmlessPlace
<1>2. PICK c \in Seq(Tokens) : c = fix.content
  BY <1>1
<1> DEFINE p == SubSeq(text, 1, s)
           u == SubSeq(text, s + 1, e)
           l == Lines(<<>>, p)
<1>3. s <= e /\ s <= Len(text)
  BY <1>1
<1>4. p \in Seq(Tokens) /\ Len(p) = s /\ \A x \in 1 .. s : p[x] = text[x]
  BY <1>3, Prefix
<1>5. u \in Seq(Tokens) /\ Len(u) = e - s /\ \A x \in 1 .. e - s : u[x] = text[s + x]
  BY <1>1, <1>3, Slice
<1>6. ReplaceRange(text, fix) = Spliced(text, s, e, c)
  BY <1>1, <1>2 DEF ReplaceRange, Spliced
<1> SUFFICES Lines(l, u) = Lines(l, c)
  BY <1>1, <1>3, <1>6, SameLines
<1> HIDE DEF p, u
<1>7. CASE e = s + 1
  <2>1. u = <<text[s + 1]>>
    <3>1. Len(u) = 1 /\ u[1] = text[s + 1]
      BY <1>5, <1>7
    <3> QED
      BY <1>5, <3>1
  <2> HIDE DEF l
  <2>2. Lines(l, u) = AddToken(l, text[s + 1])
    BY <2>1, OneToken
  <2>3. ASSUME NEW token \in Tokens, c = <<token>>, token.t = text[s + 1].t
        PROVE  Lines(l, u) = Lines(l, c)
    <3>1. Lines(l, c) = AddToken(l, token)
      BY <2>3, OneToken
    <3>2. AddToken(l, token) = AddToken(l, text[s + 1])
      BY <2>3 DEF AddToken
    <3> QED
      BY <2>2, <3>1, <3>2
  <2>4. ASSUME c = <<>>, text[s + 1].t = "comment"
        PROVE  Lines(l, u) = Lines(l, c)
    <3>1. Lines(l, c) = l
      BY <2>4, Reading!FoldNothing DEF Lines
    <3>2. AddToken(l, text[s + 1]) = l
      BY <2>4 DEF AddToken
    <3> QED
      BY <2>2, <3>1, <3>2
  <2>5. e # s + 2
    BY <1>7
  <2> QED
    BY <1>1, <1>2, <2>3, <2>4, <2>5
<1>8. CASE e # s + 1
  <2>1. /\ e = s + 2 /\ c = <<>>
        /\ text[s + 1].t = "comment" /\ text[s + 2].t = "newline"
        /\ s = 0 \/ text[s].t = "newline"
    BY <1>1, <1>2, <1>8
  <2>2. s + 1 \in DOMAIN text /\ s + 2 \in DOMAIN text
    BY <1>1, <2>1
  <2>3. text[s + 1] \in Tokens /\ text[s + 2] \in Tokens
    BY <2>2
  <2>4. Len(u) = 2 /\ u[1] = text[s + 1] /\ u[2] = text[s + 2]
    BY <1>5, <2>1
  <2>5. Lines(l, u) = AddToken(AddToken(l, text[s + 1]), text[s + 2])
    <3> HIDE DEF l
    <3> QED
      BY <1>5, <2>3, <2>4, TwoTokens
  <2>6. p = <<>> \/ Last(p).t = "newline"
    <3>1. CASE s = 0
      BY <1>4, <3>1
    <3>2. CASE s # 0
      <4>1. s \in 1 .. s /\ p[s] = text[s]
        BY <1>4, <3>2
      <4> QED
        BY <1>4, <2>1, <3>2, <4>1 DEF Last
    <3> QED
      BY <3>1, <3>2
  <2>7. l = <<>> \/ Last(l) = "newline"
    BY <1>4, <2>6, AfterNewline
  <2> HIDE DEF l
  <2>8. AddToken(l, text[s + 1]) = l /\ AddToken(l, text[s + 2]) = l
    BY <2>1, <2>7 DEF AddToken
  <2>9. Lines(l, c) = l
    BY <2>1, Reading!FoldNothing DEF Lines
  <2> QED
    BY <2>5, <2>8, <2>9
<1> QED
  BY <1>7, <1>8
-----------------------------------------------------------------------------
(* Where the tokens of a text after some fixes come from.                   *)

Covered(F, x) == \E f \in F : f.start < x /\ x <= f.end

Tracks(a, b, m) ==
    /\ m \in [DOMAIN b -> DOMAIN a]
    /\ \A i, j \in DOMAIN b : i < j => m[i] < m[j]
    /\ \A j \in DOMAIN b : b[j].t = a[m[j]].t
    /\ \A x \in DOMAIN a : ~IsTrivia(a[x]) => \E j \in DOMAIN b : m[j] = x

Keeps(a, b, m, F) ==
    /\ Tracks(a, b, m)
    /\ \A x \in DOMAIN a : ~Covered(F, x) => \E j \in DOMAIN b : m[j] = x
    /\ \A j \in DOMAIN b : ~Covered(F, m[j]) => b[j] = a[m[j]]

KeepsBefore(a, b, s, fix) ==
    /\ b \in Seq(Tokens) /\ s <= Len(b)
    /\ \E h : /\ Keeps(a, b, h, {fix})
              /\ \A x \in 1 .. s : h[x] = x /\ b[x] = a[x]

(* The tokens s + 1 .. e of a text give way to at most one, of the kind of  *)
(* the first of them; and only trivia vanishes.                             *)
Replaceable(text, s, e, c) ==
    /\ s < e /\ e <= Len(text) /\ Len(c) <= 1
    /\ Len(c) = 1 => e = s + 1 /\ c[1].t = text[s + 1].t
    /\ Len(c) = 0 => \A x \in DOMAIN text : s < x /\ x <= e => IsTrivia(text[x])

LEMMA SplicedKeeps ==
    ASSUME NEW text \in Seq(Tokens), NEW c \in Seq(Tokens), NEW fix, NEW s \in Nat, NEW e \in Nat,
           fix.start = s, fix.end = e, Replaceable(text, s, e, c)
    PROVE  KeepsBefore(text, Spliced(text, s, e, c), s, fix)
<1>a. PICK n \in Nat, k \in Nat : n = Len(text) /\ k = Len(c)
  OBVIOUS
<1>b. /\ s < e /\ e <= n /\ k <= 1 /\ s + k <= e
      /\ k = 1 => e = s + 1 /\ c[1].t = text[s + 1].t
      /\ k = 0 => \A x \in DOMAIN text : s < x /\ x <= e => IsTrivia(text[x])
  BY <1>a DEF Replaceable
<1>c. PICK d \in Nat : d = (e - s) - k
  <2>1. (e - s) - k \in Nat
    BY <1>b
  <2> QED
    BY <2>1
<1>d. k = 1 => d = 0
  BY <1>b, <1>c
<1> USE <1>a, <1>b, <1>c, <1>d
<1> DEFINE new == Spliced(text, s, e, c)
           h == [j \in DOMAIN new |-> IF j <= s THEN j ELSE j + d]
<1>1. DOMAIN text = 1 .. n
  OBVIOUS
<1>2. /\ new \in Seq(Tokens) /\ Len(new) = (s + k) + (n - e)
      /\ \A x \in 1 .. s : new[x] = text[x]
      /\ \A x \in 1 .. k : new[s + x] = c[x]
      /\ \A x \in 1 .. n - e : new[(s + k) + x] = text[e + x]
  <2>1. s <= e /\ e <= Len(text)
    OBVIOUS
  <2>2. IsSpliced(Tokens, text, s, e, c, Spliced(text, s, e, c))
    BY <2>1, SplicedFacts
  <2>3. n = Len(text) /\ k = Len(c)
    OBVIOUS
  <2> HIDE DEF new
  <2>4. new = Spliced(text, s, e, c)
    BY DEF new
  <2> QED
    BY <2>2, <2>3, <2>4 DEF IsSpliced
<1> HIDE DEF new
<1>3. Len(new) = n - d /\ DOMAIN new = 1 .. n - d /\ s + k <= n - d
  <2>1. (s + k) + (n - e) = n - d /\ s + k <= n - d
    OBVIOUS
  <2> QED
    BY <1>2, <2>1
<1>4. ASSUME NEW x \in s + k + 1 .. n - d PROVE new[x] = text[x + d]
  <2>1. PICK y \in Nat : x = (s + k) + y
    <3>1. x - (s + k) \in Nat /\ x = (s + k) + (x - (s + k))
      OBVIOUS
    <3> QED
      BY <3>1
  <2>2. y \in 1 .. n - e /\ e + y = x + d
    BY <2>1
  <2> QED
    BY <1>2, <2>1, <2>2
<1>5. h \in [DOMAIN new -> DOMAIN text]
  BY <1>1, <1>3
<1>6. \A j \in DOMAIN new : j \in 1 .. n - d /\ h[j] = IF j <= s THEN j ELSE j + d
  BY <1>3
<1> HIDE DEF h
<1>7. \A a, b \in DOMAIN new : a < b => h[a] < h[b]
  <2> SUFFICES ASSUME NEW a \in 1 .. n - d, NEW b \in 1 .. n - d, a < b PROVE h[a] < h[b]
    BY <1>3
  <2>1. h[a] = (IF a <= s THEN a ELSE a + d) /\ h[b] = IF b <= s THEN b ELSE b + d
    BY <1>3, <1>6
  <2> QED
    BY <2>1
<1>8. ASSUME NEW j \in 1 .. n - d PROVE new[j].t = text[h[j]].t
  <2>0. h[j] = IF j <= s THEN j ELSE j + d
    BY <1>3, <1>6
  <2>1. CASE j <= s
    <3>1. j \in 1 .. s /\ h[j] = j
      BY <2>0, <2>1
    <3> QED
      BY <1>2, <3>1
  <2>2. CASE j > s /\ k = 1 /\ j = s + 1
    <3>1. h[j] = s + 1 /\ 1 \in 1 .. k
      BY <2>0, <2>2
    <3>2. new[s + 1] = c[1]
      BY <1>2, <3>1
    <3> QED
      BY <2>2, <3>1, <3>2
  <2>3. CASE j > s /\ ~(k = 1 /\ j = s + 1)
    <3>1. j \in s + k + 1 .. n - d /\ h[j] = j + d
      BY <2>0, <2>3
    <3> QED
      BY <1>4, <3>1
  <2> QED
    BY <2>1, <2>2, <2>3
<1>9. ASSUME NEW x \in 1 .. n, ~(k = 0 /\ s < x /\ x <= e)
      PROVE  \E j \in DOMAIN new : h[j] = x
  <2>1. CASE x <= s
    <3>1. x \in DOMAIN new /\ x \in 1 .. n - d
      BY <1>3, <2>1
    <3> QED
      BY <1>6, <2>1, <3>1
  <2>2. CASE x > s
    <3>1. x - d \in 1 .. n - d /\ ~(x - d <= s) /\ (x - d) + d = x
      BY <1>9, <2>2
    <3>2. h[x - d] = x
      BY <1>3, <1>6, <3>1
    <3> QED
      BY <1>3, <3>1, <3>2
  <2> QED
    BY <2>1, <2>2
<1>10. \A x : Covered({fix}, x) <=> s < x /\ x <= e
  BY DEF Covered
<1>11. \A x \in DOMAIN text : ~IsTrivia(text[x]) => \E j \in DOMAIN new : h[j] = x
  BY <1>1, <1>9
<1>12. \A x \in DOMAIN text : ~Covered({fix}, x) => \E j \in DOMAIN new : h[j] = x
  BY <1>1, <1>9, <1>10
<1>13. ASSUME NEW j \in 1 .. n - d, ~Covered({fix}, h[j]) PROVE new[j] = text[h[j]]
  <2>0. h[j] = IF j <= s THEN j ELSE j + d
    BY <1>3, <1>6
  <2>1. ~(s < h[j] /\ h[j] <= e)
    BY <1>10, <1>13
  <2>2. CASE j <= s
    <3>1. j \in 1 .. s /\ h[j] = j
      BY <2>0, <2>2
    <3> QED
      BY <1>2, <3>1
  <2>3. CASE j > s
    <3>1. j \in s + k + 1 .. n - d /\ h[j] = j + d
      BY <2>0, <2>1, <2>3
    <3> QED
      BY <1>4, <3>1
  <2> QED
    BY <2>2, <2>3
<1>14. Keeps(text, new, h, {fix})
  <2>1. Tracks(text, new, h)
    BY <1>3, <1>5, <1>7, <1>8, <1>11 DEF Tracks
  <2> QED
    BY <1>3, <1>12, <1>13, <2>1 DEF Keeps
<1>15. \A x \in 1 .. s : h[x] = x /\ new[x] = text[x]
  <2> TAKE x \in 1 .. s
  <2>1. x \in DOMAIN new /\ x <= s
    BY <1>3
  <2> QED
    BY <1>2, <1>6, <2>1
<1>16. s <= Len(new)
  BY <1>3
<1> QED
  BY <1>2, <1>14, <1>15, <1>16 DEF new, KeepsBefore

LEMMA HarmlessKeeps ==
    ASSUME NEW text \in Seq(Tokens), NEW fix, Harmless(text, fix)
    PROVE  KeepsBefore(text, ReplaceRange(text, fix), fix.start, fix)
<1>1. PICK s, e \in Nat :
             /\ fix.start = s /\ fix.end = e /\ s < e /\ e <= Len(text) /\ s + 1 \in DOMAIN text
             /\ fix.content \in Seq(Tokens)
             /\ \/ /\ e = s + 1
                   /\ \E token \in Tokens : fix.content = <<token>> /\ token.t = text[s + 1].t
                \/ e = s + 1 /\ fix.content = <<>> /\ text[s + 1].t = "comment"
                \/ /\ e = s + 2 /\ fix.content = <<>>
                   /\ text[s + 1].t = "comment" /\ text[s + 2].t = "newline"
                   /\ s = 0 \/ text[s].t = "newline"
  BY HarmlessPlace
<1>2. PICK c \in Seq(Tokens) : c = fix.content
  BY <1>1
<1>3. PICK n \in Nat : n = Len(text)
  OBVIOUS
<1>4. ReplaceRange(text, fix) = Spliced(text, s, e, c)
  BY <1>1, <1>2 DEF ReplaceRange, Spliced
<1>5. CASE e = s + 1 /\ \E token \in Tokens : c = <<token>> /\ token.t = text[s + 1].t
  <2>1. PICK token \in Tokens : c = <<token>> /\ token.t = text[s + 1].t
    BY <1>5
  <2>2. Len(c) = 1 /\ c[1].t = text[s + 1].t
    BY <2>1
  <2>3. Replaceable(text, s, e, c)
    BY <1>1, <1>5, <2>2 DEF Replaceable
  <2>4. KeepsBefore(text, Spliced(text, s, e, c), s, fix)
    BY <1>1, <2>3, SplicedKeeps
  <2> QED
    BY <1>1, <1>4, <2>4
<1>6. CASE c = <<>> /\ \A x \in DOMAIN text : s < x /\ x <= e => IsTrivia(text[x])
  <2>1. Len(c) = 0
    BY <1>6
  <2>3. Replaceable(text, s, e, c)
    BY <1>1, <1>6, <2>1 DEF Replaceable
  <2>4. KeepsBefore(text, Spliced(text, s, e, c), s, fix)
    BY <1>1, <2>3, SplicedKeeps
  <2> QED
    BY <1>1, <1>4, <2>4
<1>7. CASE c = <<>> /\ e = s + 1 /\ text[s + 1].t = "comment"
  <2>1. \A x \in DOMAIN text : s < x /\ x <= e => x = s + 1
    BY <1>7
  <2>2. IsTrivia(text[s + 1])
    BY <1>7 DEF IsTrivia
  <2> QED
    BY <1>6, <1>7, <2>1, <2>2
<1>8. CASE /\ c = <<>> /\ e = s + 2 /\ text[s + 1].t = "comment" /\ text[s + 2].t = "newline"
  <2>1. \A x \in DOMAIN text : s < x /\ x <= e => x = s + 1 \/ x = s + 2
    BY <1>8
  <2>2. IsTrivia(text[s + 1]) /\ IsTrivia(text[s + 2])
    BY <1>8 DEF IsTrivia
  <2> QED
    BY <1>6, <1>8, <2>1, <2>2
<1> QED
  BY <1>1, <1>2, <1>5, <1>7, <1>8
-----------------------------------------------------------------------------
Through(m, h, c) == [j \in DOMAIN c |-> m[h[j]]]

LEMMA TracksThrough ==
    ASSUME NEW a, NEW b, NEW c, NEW m, NEW h, Tracks(a, b, m), Tracks(b, c, h),
           DOMAIN a \subseteq Nat, DOMAIN b \subseteq Nat, DOMAIN c \subseteq Nat
    PROVE  Tracks(a, c, Through(m, h, c))
<1> DEFINE g == Through(m, h, c)
<1>1. /\ m \in [DOMAIN b -> DOMAIN a] /\ h \in [DOMAIN c -> DOMAIN b]
      /\ \A i, j \in DOMAIN b : i < j => m[i] < m[j]
      /\ \A i, j \in DOMAIN c : i < j => h[i] < h[j]
      /\ \A j \in DOMAIN b : b[j].t = a[m[j]].t
      /\ \A j \in DOMAIN c : c[j].t = b[h[j]].t
      /\ \A x \in DOMAIN a : ~IsTrivia(a[x]) => \E j \in DOMAIN b : m[j] = x
      /\ \A x \in DOMAIN b : ~IsTrivia(b[x]) => \E j \in DOMAIN c : h[j] = x
  BY DEF Tracks
<1>2. g \in [DOMAIN c -> DOMAIN a] /\ \A j \in DOMAIN c : g[j] = m[h[j]]
  BY <1>1 DEF Through
<1> HIDE DEF g
<1>3. \A i, j \in DOMAIN c : i < j => g[i] < g[j]
  BY <1>1, <1>2
<1>4. \A j \in DOMAIN c : c[j].t = a[g[j]].t
  BY <1>1, <1>2
<1>5. ASSUME NEW x \in DOMAIN a, ~IsTrivia(a[x]) PROVE \E j \in DOMAIN c : g[j] = x
  <2>1. PICK j \in DOMAIN b : m[j] = x
    BY <1>1, <1>5
  <2>2. ~IsTrivia(b[j])
    BY <1>1, <1>5, <2>1 DEF IsTrivia
  <2> QED
    BY <1>1, <1>2, <2>1, <2>2
<1> QED
  BY <1>2, <1>3, <1>4, <1>5 DEF Tracks, g

LEMMA KeepsThrough ==
    ASSUME NEW a, NEW b, NEW c, NEW m, NEW h, NEW F, NEW f,
           Keeps(a, b, m, F), Keeps(b, c, h, {f}),
           DOMAIN a \subseteq Nat, DOMAIN b \subseteq Nat, DOMAIN c \subseteq Nat,
           \A x \in DOMAIN b : x <= f.end => m[x] = x
    PROVE  Keeps(a, c, Through(m, h, c), F \cup {f})
<1> DEFINE g == Through(m, h, c)
<1>1. Tracks(a, c, g)
  BY TracksThrough DEF Keeps
<1>2. /\ m \in [DOMAIN b -> DOMAIN a] /\ h \in [DOMAIN c -> DOMAIN b]
      /\ \A j \in DOMAIN c : g[j] = m[h[j]]
  BY DEF Keeps, Tracks, Through
<1>3. \A x : ~Covered(F \cup {f}, x) => ~Covered(F, x) /\ ~(f.start < x /\ x <= f.end)
  BY DEF Covered
<1>4. \A x : ~(f.start < x /\ x <= f.end) => ~Covered({f}, x)
  BY DEF Covered
<1>5. ASSUME NEW j \in DOMAIN b, ~Covered(F \cup {f}, m[j]) PROVE ~Covered({f}, j)
  <2>1. CASE j <= f.end
    BY <1>3, <1>4, <1>5, <2>1
  <2>2. CASE ~(j <= f.end)
    BY <1>4, <2>2
  <2> QED
    BY <2>1, <2>2
<1> HIDE DEF g
<1>6. ASSUME NEW x \in DOMAIN a, ~Covered(F \cup {f}, x) PROVE \E k \in DOMAIN c : g[k] = x
  <2>1. PICK j \in DOMAIN b : m[j] = x
    BY <1>3, <1>6 DEF Keeps
  <2>2. ~Covered({f}, j)
    BY <1>5, <1>6, <2>1
  <2>3. PICK k \in DOMAIN c : h[k] = j
    BY <2>2 DEF Keeps
  <2> QED
    BY <1>2, <2>1, <2>3
<1>7. ASSUME NEW k \in DOMAIN c, ~Covered(F \cup {f}, g[k]) PROVE c[k] = a[g[k]]
  <2>1. h[k] \in DOMAIN b /\ g[k] = m[h[k]]
    BY <1>2
  <2>2. ~Covered({f}, h[k]) /\ ~Covered(F, m[h[k]])
    BY <1>3, <1>5, <1>7, <2>1
  <2>3. c[k] = b[h[k]] /\ b[h[k]] = a[m[h[k]]]
    BY <2>1, <2>2 DEF Keeps
  <2> QED
    BY <2>1, <2>3
<1> QED
  BY <1>1, <1>6, <1>7 DEF Keeps, g

(* The fixes from the last down to the one after j are applied.             *)
Passed(text, acc, b, j) ==
    /\ b \in Seq(Tokens) /\ UpTo(text, acc, j) <= Len(b)
    /\ CodeLines(b) = CodeLines(text)
    /\ \E m : /\ Keeps(text, b, m, {acc[k] : k \in j + 1 .. Len(acc)})
              /\ \A x \in 1 .. UpTo(text, acc, j) : m[x] = x /\ b[x] = text[x]

LEMMA NothingPassed ==
    ASSUME NEW text \in Seq(Tokens), NEW acc \in Seq(AFix)
    PROVE  Passed(text, acc, text, Len(acc))
<1> DEFINE m == [x \in DOMAIN text |-> x]
<1>1. UpTo(text, acc, Len(acc)) = Len(text) /\ Len(text) \in Nat /\ DOMAIN text = 1 .. Len(text)
  BY DEF UpTo
<1>2. m \in [DOMAIN text -> DOMAIN text] /\ \A x \in DOMAIN text : m[x] = x
  OBVIOUS
<1> HIDE DEF m
<1>3. \A F : Keeps(text, text, m, F)
  BY <1>2 DEF Keeps, Tracks
<1>4. \A x \in 1 .. UpTo(text, acc, Len(acc)) : m[x] = x
  BY <1>1, <1>2
<1> QED
  BY <1>1, <1>3, <1>4 DEF Passed

LEMMA StillHarmless ==
    ASSUME NEW text \in Seq(Tokens), NEW b \in Seq(Tokens), NEW fix, NEW u \in Nat,
           Harmless(text, fix), fix.end <= u, u <= Len(text), u <= Len(b),
           \A x \in 1 .. u : b[x] = text[x]
    PROVE  Harmless(b, fix)
<1>1. PICK i \in DOMAIN text :
        /\ fix.start = i - 1
        /\ \/ /\ fix.end = i
              /\ \E token \in Tokens : fix.content = <<token>> /\ token.t = text[i].t
           \/ fix.end = i /\ fix.content = <<>> /\ text[i].t = "comment"
           \/ /\ fix.end = i + 1 /\ fix.content = <<>> /\ i + 1 \in DOMAIN text
              /\ text[i].t = "comment" /\ text[i + 1].t = "newline"
              /\ i = 1 \/ text[i - 1].t = "newline"
  BY DEF Harmless
<1>2. i \in 1 .. u /\ i \in DOMAIN b /\ b[i] = text[i]
  BY <1>1
<1>3. i # 1 => i - 1 \in 1 .. u /\ b[i - 1] = text[i - 1]
  BY <1>2
<1>4. fix.end = i + 1 => i + 1 \in 1 .. u /\ i + 1 \in DOMAIN b /\ b[i + 1] = text[i + 1]
  BY <1>2
<1> QED
  BY <1>1, <1>2, <1>3, <1>4 DEF Harmless

LEMMA OneMorePassed ==
    ASSUME NEW text \in Seq(Tokens), NEW acc, Disjoint(text, acc),
           NEW j \in Nat, j > 0, j <= Len(acc), Harmless(text, acc[j]),
           NEW b, Passed(text, acc, b, j)
    PROVE  Passed(text, acc, ReplaceRange(b, acc[j]), j - 1)
<1>1. PICK f : f = acc[j]
  OBVIOUS
<1>2. PICK u : u = UpTo(text, acc, j)
  OBVIOUS
<1>3. PICK s : s = UpTo(text, acc, j - 1)
  OBVIOUS
<1>4. PICK c : c = ReplaceRange(b, f)
  OBVIOUS
<1>5. acc \in Seq(AFix) /\ Len(acc) \in Nat /\ j \in 0 .. Len(acc) /\ j - 1 \in 0 .. Len(acc)
  BY DEF Disjoint, Valid
<1>6. /\ u \in Nat /\ u <= Len(text) /\ f.start = s /\ f.start \in Nat
      /\ f.end \in Nat /\ f.end <= u /\ f.start <= f.end
  <2>1. /\ UpTo(text, acc, j) \in Nat /\ UpTo(text, acc, j) <= Len(text)
        /\ After(acc, j) \in Nat /\ After(acc, j) <= UpTo(text, acc, j)
        /\ acc[j].start <= acc[j].end
        /\ acc[j].start = UpTo(text, acc, j - 1) /\ acc[j].end = After(acc, j)
        /\ acc[j].start \in Nat
    BY <1>5, GapsFit
  <2> QED
    BY <1>1, <1>2, <1>3, <2>1
<1>7. /\ b \in Seq(Tokens) /\ u <= Len(b) /\ CodeLines(b) = CodeLines(text)
  BY <1>2 DEF Passed
<1>8. PICK m : /\ Keeps(text, b, m, {acc[k] : k \in j + 1 .. Len(acc)})
               /\ \A x \in 1 .. u : m[x] = x /\ b[x] = text[x]
  BY <1>2 DEF Passed
<1>9. Harmless(b, f)
  BY <1>1, <1>6, <1>7, <1>8, StillHarmless
<1>10. CodeLines(c) = CodeLines(b)
  BY <1>4, <1>7, <1>9, HarmlessKeepsLines
<1>11. KeepsBefore(b, c, s, f)
  BY <1>4, <1>6, <1>7, <1>9, HarmlessKeeps
<1>12. c \in Seq(Tokens) /\ s <= Len(c)
  BY <1>11 DEF KeepsBefore
<1>13. PICK h : /\ Keeps(b, c, h, {f})
                /\ \A x \in 1 .. s : h[x] = x /\ c[x] = b[x]
  BY <1>11 DEF KeepsBefore
<1>14. PICK F : F = {acc[k] : k \in j + 1 .. Len(acc)}
  OBVIOUS
<1>15. F \cup {f} = {acc[k] : k \in (j - 1) + 1 .. Len(acc)}
  <2>1. j .. Len(acc) = {j} \cup (j + 1 .. Len(acc)) /\ (j - 1) + 1 = j
    BY <1>5
  <2>2. {acc[k] : k \in j .. Len(acc)} = {acc[j]} \cup {acc[k] : k \in j + 1 .. Len(acc)}
    BY <2>1
  <2> QED
    BY <1>1, <1>14, <2>1, <2>2
<1>16. PICK g : g = Through(m, h, c)
  OBVIOUS
<1>17. Keeps(text, c, g, F \cup {f})
  <2>1. DOMAIN text \subseteq Nat /\ DOMAIN b \subseteq Nat /\ DOMAIN c \subseteq Nat
    BY <1>7, <1>12
  <2>2. \A x \in DOMAIN b : x <= f.end => m[x] = x
    <3> SUFFICES ASSUME NEW x \in DOMAIN b, x <= f.end PROVE m[x] = x
      OBVIOUS
    <3>1. x \in 1 .. u
      BY <1>6, <1>7
    <3> QED
      BY <1>8, <3>1
  <2>3. Keeps(text, b, m, F)
    BY <1>8, <1>14
  <2> QED
    BY <1>13, <1>16, <2>1, <2>2, <2>3, KeepsThrough
<1>18. \A x \in 1 .. s : g[x] = x /\ c[x] = text[x]
  <2> TAKE x \in 1 .. s
  <2>1. x \in 1 .. u /\ x \in DOMAIN c
    BY <1>6, <1>12
  <2>2. h[x] = x /\ c[x] = b[x]
    BY <1>13
  <2>3. m[x] = x /\ b[x] = text[x]
    BY <1>8, <2>1
  <2> QED
    BY <1>16, <2>1, <2>2, <2>3 DEF Through
<1>19. CodeLines(c) = CodeLines(text)
  BY <1>7, <1>10
<1> HIDE DEF Passed
<1>20. Passed(text, acc, c, j - 1)
  <2>1. Keeps(text, c, g, {acc[k] : k \in (j - 1) + 1 .. Len(acc)})
    BY <1>15, <1>17
  <2> QED
    BY <1>3, <1>12, <1>18, <1>19, <2>1 DEF Passed
<1> QED
  BY <1>1, <1>4, <1>20

(* What a pass leaves: the code on its lines, and every token but those the *)
(* fixes are for.                                                           *)
LEMMA PassKeeps ==
    ASSUME NEW text \in Seq(Tokens), NEW fixes, Valid(fixes),
           \A i \in DOMAIN fixes : Harmless(text, fixes[i])
    PROVE  /\ ApplyFixes(text, fixes) \in Seq(Tokens)
           /\ CodeLines(ApplyFixes(text, fixes)) = CodeLines(text)
           /\ \E m : Keeps(text, ApplyFixes(text, fixes), m, {fixes[i] : i \in DOMAIN fixes})
<1>1. PICK acc : acc = AcceptedFixes(fixes)
  OBVIOUS
<1>2. /\ Valid(acc) /\ \A k \in DOMAIN acc : \E i \in DOMAIN fixes : acc[k] = fixes[i]
      /\ \A j, k \in DOMAIN acc : j < k => acc[j].end <= acc[k].start
  BY <1>1, Accepted
<1>3. \A k \in DOMAIN acc : Harmless(text, acc[k])
  BY <1>2
<1>4. Disjoint(text, acc)
  <2>1. ASSUME NEW k \in DOMAIN acc PROVE acc[k].end <= Len(text)
    <3>1. PICK s, e \in Nat : acc[k].end = e /\ e <= Len(text)
      BY <1>3, HarmlessPlace
    <3> QED
      BY <3>1
  <2> QED
    BY <1>2, <2>1 DEF Disjoint
<1>5. PICK n \in Nat : n = Len(acc) /\ acc \in Seq(AFix)
  BY <1>2 DEF Valid
<1>6. PICK w : RightToLeft(w, text, acc) /\ ApplyFixes(text, fixes) = w[0]
  BY <1>1, <1>5, AppliedRightToLeft
<1>7. w[n] = text /\ \A j \in 1 .. n : w[j - 1] = ReplaceRange(w[j], acc[j])
  BY <1>5, <1>6 DEF RightToLeft
<1> DEFINE done == {j \in 0 .. n : Passed(text, acc, w[j], j)}
<1>8. n \in done
  BY <1>5, <1>7, NothingPassed
<1>9. ASSUME NEW j \in 1 .. n, j \in done PROVE j - 1 \in done
  <2>1. j - 1 \in 0 .. n /\ j > 0 /\ j <= Len(acc) /\ j \in Nat /\ j \in DOMAIN acc
    BY <1>5
  <2>2. Passed(text, acc, w[j], j) /\ Harmless(text, acc[j])
    BY <1>3, <1>9, <2>1
  <2>3. Passed(text, acc, ReplaceRange(w[j], acc[j]), j - 1)
    BY <1>4, <2>1, <2>2, OneMorePassed
  <2> QED
    BY <1>7, <2>1, <2>3
<1> HIDE DEF done
<1>10. 0 \in done
  <2>1. \A j \in 0 .. n : j \in done
    BY <1>8, <1>9, DownToZero
  <2> QED
    BY <1>5, <2>1
<1>11. Passed(text, acc, w[0], 0)
  BY <1>10 DEF done
<1>12. PICK m : Keeps(text, w[0], m, {acc[k] : k \in 0 + 1 .. Len(acc)})
  BY <1>11 DEF Passed
<1>13. {acc[k] : k \in 0 + 1 .. Len(acc)} \subseteq {fixes[i] : i \in DOMAIN fixes}
  <2>1. 0 + 1 .. Len(acc) = DOMAIN acc
    BY <1>5
  <2> QED
    BY <1>2, <2>1
<1>14. \A F, G : F \subseteq G => (Keeps(text, w[0], m, F) => Keeps(text, w[0], m, G))
  BY DEF Keeps, Covered
<1>15. Keeps(text, w[0], m, {fixes[i] : i \in DOMAIN fixes})
  BY <1>12, <1>13, <1>14
<1>16. w[0] \in Seq(Tokens) /\ CodeLines(w[0]) = CodeLines(text)
  BY <1>11 DEF Passed
<1> QED
  BY <1>6, <1>15, <1>16
-----------------------------------------------------------------------------
(* The tree of a text whose tokens come from another's, with at most trivia *)
(* gone: it is that text's tree.                                            *)
Follows(a, b, m) == a \in Seq(Tokens) /\ b \in Seq(Tokens) /\ Tracks(a, b, m)

Image(m, S) == {m[j] : j \in S}

LEMMA TrackFacts ==
    ASSUME NEW a, NEW b, NEW m, Follows(a, b, m)
    PROVE  /\ Len(a) \in Nat /\ Len(b) \in Nat
           /\ DOMAIN a = 1 .. Len(a) /\ DOMAIN b = 1 .. Len(b)
           /\ \A j \in DOMAIN b : j \in Nat /\ m[j] \in Nat /\ m[j] \in DOMAIN a
           /\ \A j \in DOMAIN b : b[j].t = a[m[j]].t
           /\ \A i, j \in DOMAIN b : i < j <=> m[i] < m[j]
           /\ \A i, j \in DOMAIN b : i <= j <=> m[i] <= m[j]
           /\ \A i, j \in DOMAIN b : i = j <=> m[i] = m[j]
           /\ \A x \in DOMAIN a : ~IsTrivia(a[x]) => \E j \in DOMAIN b : m[j] = x
<1>1. /\ Len(a) \in Nat /\ Len(b) \in Nat
      /\ DOMAIN a = 1 .. Len(a) /\ DOMAIN b = 1 .. Len(b)
  BY DEF Follows
<1>2. /\ m \in [DOMAIN b -> DOMAIN a]
      /\ \A i, j \in DOMAIN b : i < j => m[i] < m[j]
      /\ \A j \in DOMAIN b : b[j].t = a[m[j]].t
      /\ \A x \in DOMAIN a : ~IsTrivia(a[x]) => \E j \in DOMAIN b : m[j] = x
  BY DEF Follows, Tracks
<1>3. \A j \in DOMAIN b : j \in Nat /\ m[j] \in Nat /\ m[j] \in DOMAIN a
  BY <1>1, <1>2
<1>4. ASSUME NEW i \in DOMAIN b, NEW j \in DOMAIN b
      PROVE  /\ i < j <=> m[i] < m[j]
             /\ i <= j <=> m[i] <= m[j]
             /\ i = j <=> m[i] = m[j]
  <2>1. i \in Nat /\ j \in Nat /\ m[i] \in Nat /\ m[j] \in Nat
    BY <1>3
  <2>2. (i < j => m[i] < m[j]) /\ (j < i => m[j] < m[i]) /\ (i = j => m[i] = m[j])
    BY <1>2
  <2> QED
    BY <2>1, <2>2
<1> QED
  BY <1>1, <1>2, <1>3, <1>4

(* How many tokens of a kind lie between two others.                        *)
LEMMA CountTracks ==
    ASSUME NEW a, NEW b, NEW m, Follows(a, b, m),
           NEW i \in DOMAIN b, NEW j \in DOMAIN b, NEW t \in {"if", "end"}
    PROVE  Count(b, i, j, t) = Count(a, m[i], m[j], t)
<1> DEFINE S == {k \in i .. j : b[k].t = t}
           T == {k \in m[i] .. m[j] : a[k].t = t}
           f == [k \in S |-> m[k]]
<1>1. /\ Len(a) \in Nat /\ Len(b) \in Nat
      /\ DOMAIN a = 1 .. Len(a) /\ DOMAIN b = 1 .. Len(b)
      /\ \A x \in DOMAIN b : x \in Nat /\ m[x] \in Nat /\ m[x] \in DOMAIN a
      /\ \A x \in DOMAIN b : b[x].t = a[m[x]].t
      /\ \A x, y \in DOMAIN b : x <= y <=> m[x] <= m[y]
      /\ \A x, y \in DOMAIN b : x = y <=> m[x] = m[y]
      /\ \A x \in DOMAIN a : ~IsTrivia(a[x]) => \E y \in DOMAIN b : m[y] = x
  BY TrackFacts
<1>2. \A k : k \in S <=> k \in DOMAIN b /\ i <= k /\ k <= j /\ b[k].t = t
  BY <1>1
<1>3. \A k : k \in T <=> k \in DOMAIN a /\ m[i] <= k /\ k <= m[j] /\ a[k].t = t
  BY <1>1
<1>4. IsFiniteSet(S)
  <2>1. IsFiniteSet(i .. j)
    BY <1>1, FS_Interval
  <2> QED
    BY <2>1, FS_Subset
<1> HIDE DEF S, T
<1>5. \A k \in S : m[k] \in T
  BY <1>1, <1>2, <1>3
<1>6. f \in [S -> T] /\ \A k \in S : f[k] = m[k]
  BY <1>5
<1> HIDE DEF f
<1>7. \A x, y \in S : f[x] = f[y] => x = y
  BY <1>1, <1>2, <1>6
<1>8. ASSUME NEW x \in T PROVE \E k \in S : f[k] = x
  <2>1. ~IsTrivia(a[x]) /\ x \in DOMAIN a
    BY <1>3 DEF IsTrivia
  <2>2. PICK k \in DOMAIN b : m[k] = x
    BY <1>1, <2>1
  <2>3. k \in S
    BY <1>1, <1>2, <1>3, <2>2
  <2> QED
    BY <1>6, <2>2, <2>3
<1>9. f \in Bijection(S, T)
  BY <1>6, <1>7, <1>8 DEF Bijection, Injection, IsInjective, Surjection
<1>10. ExistsBijection(S, T)
  BY <1>9 DEF ExistsBijection
<1>11. Cardinality(T) = Cardinality(S)
  BY <1>4, <1>10, FS_Bijection
<1> QED
  BY <1>11 DEF Count, S, T

(* The first and the last of a set of tokens.                               *)
LEMMA LeastFacts ==
    ASSUME NEW S \in SUBSET Nat, S # {}
    PROVE  Least(S) \in S /\ \A j \in S : Least(S) <= j
<1>1. \E i \in S : \A j \in S : i <= j
  <2> SUFFICES ASSUME \A i \in S : \E j \in S : j < i
               PROVE  FALSE
    <3>1. \A i, j \in S : ~(i <= j) => j < i
      OBVIOUS
    <3> QED
      BY <3>1
  <2> DEFINE none == {n \in Nat : \A k \in S : k > n}
  <2>1. 0 \in none
    <3>1. 0 \notin S
      OBVIOUS
    <3> QED
      BY <3>1
  <2>2. \A n \in Nat : n \in none => n + 1 \in none
    <3> SUFFICES ASSUME NEW n \in Nat, \A k \in S : k > n, NEW k \in S
                 PROVE  k > n + 1
      OBVIOUS
    <3>1. PICK j \in S : j < k
      OBVIOUS
    <3> QED
      BY <3>1
  <2> HIDE DEF none
  <2>3. Nat \subseteq none
    BY <2>1, <2>2, Reading!NatInductionOnSets
  <2>4. PICK k \in S : TRUE
    OBVIOUS
  <2>5. k \in none
    BY <2>3, <2>4
  <2> QED
    BY <2>4, <2>5 DEF none
<1> QED
  BY <1>1 DEF Least

LEMMA LeastIs ==
    ASSUME NEW S \in SUBSET Nat, NEW i \in S, \A j \in S : i <= j
    PROVE  Least(S) = i
<1>1. \A x \in S : (\A j \in S : x <= j) <=> x = i
  <2> TAKE x \in S
  <2> QED
    OBVIOUS
<1> QED
  BY <1>1 DEF Least

LEMMA GreatestIs ==
    ASSUME NEW S \in SUBSET Nat, NEW i \in S, \A j \in S : i >= j
    PROVE  Greatest(S) = i
<1>1. \A x \in S : (\A j \in S : x >= j) <=> x = i
  <2> TAKE x \in S
  <2> QED
    OBVIOUS
<1> QED
  BY <1>1 DEF Greatest

LEMMA GreatestFacts ==
    ASSUME NEW S \in SUBSET Nat, S # {}, NEW n \in Nat, \A j \in S : j <= n
    PROVE  Greatest(S) \in S /\ \A j \in S : Greatest(S) >= j
<1> DEFINE R == {n - j : j \in S}
<1>1. R \in SUBSET Nat /\ R # {}
  <2>1. \A j \in S : n - j \in Nat
    OBVIOUS
  <2> QED
    BY <2>1
<1>2. PICK x \in R : \A y \in R : x <= y
  <2> HIDE DEF R
  <2> QED
    BY <1>1, LeastFacts
<1>3. PICK i \in S : x = n - i
  BY <1>2
<1>4. ASSUME NEW j \in S PROVE i >= j
  <2>1. n - i <= n - j
    BY <1>2, <1>3
  <2>2. i \in Nat /\ j \in Nat
    BY <1>3
  <2> QED
    BY <2>1, <2>2
<1>5. Greatest(S) = i
  BY <1>4, GreatestIs
<1> QED
  BY <1>4, <1>5

LEMMA LeastTracks ==
    ASSUME NEW a, NEW b, NEW m, Follows(a, b, m), NEW S \in SUBSET DOMAIN b, S # {}
    PROVE  Least(S) \in S /\ Least(Image(m, S)) = m[Least(S)]
<1>1. /\ DOMAIN b \subseteq Nat
      /\ \A x \in DOMAIN b : m[x] \in Nat
      /\ \A x, y \in DOMAIN b : x <= y <=> m[x] <= m[y]
  BY TrackFacts
<1>2. Least(S) \in S /\ \A j \in S : Least(S) <= j
  BY <1>1, LeastFacts
<1>3. PICK l \in S : l = Least(S)
  BY <1>2
<1>4. /\ Image(m, S) \in SUBSET Nat /\ m[l] \in Image(m, S)
      /\ \A x \in Image(m, S) : m[l] <= x
  BY <1>1, <1>2, <1>3 DEF Image
<1>5. Least(Image(m, S)) = m[l]
  BY <1>4, LeastIs
<1> QED
  BY <1>3, <1>5

(* The tokens a condition singles out, none of them trivia.                 *)
SameTokens(a, b, m, S, T) ==
    /\ S \in SUBSET DOMAIN b /\ T \in SUBSET DOMAIN a
    /\ \A x \in T : ~IsTrivia(a[x])
    /\ \A x \in DOMAIN b : x \in S <=> m[x] \in T

LEMMA ImageIs ==
    ASSUME NEW a, NEW b, NEW m, Follows(a, b, m), NEW S, NEW T, SameTokens(a, b, m, S, T)
    PROVE  T = Image(m, S)
<1>0. /\ S \in SUBSET DOMAIN b /\ T \in SUBSET DOMAIN a
      /\ \A x \in T : ~IsTrivia(a[x])
      /\ \A x \in DOMAIN b : x \in S <=> m[x] \in T
  BY DEF SameTokens
<1>1. \A x \in DOMAIN a : ~IsTrivia(a[x]) => \E y \in DOMAIN b : m[y] = x
  BY TrackFacts
<1>2. ASSUME NEW x \in T PROVE x \in Image(m, S)
  <2>1. PICK y \in DOMAIN b : m[y] = x
    BY <1>0, <1>1
  <2> QED
    BY <1>0, <2>1 DEF Image
<1>3. ASSUME NEW x \in Image(m, S) PROVE x \in T
  BY <1>0 DEF Image
<1> QED
  BY <1>2, <1>3

LEMMA EndsTrack ==
    ASSUME NEW a, NEW b, NEW m, Follows(a, b, m), NEW i \in DOMAIN b
    PROVE  Ends(b, i) \in SUBSET DOMAIN b /\ Ends(a, m[i]) = Image(m, Ends(b, i))
<1>1. /\ Len(a) \in Nat /\ Len(b) \in Nat
      /\ DOMAIN a = 1 .. Len(a) /\ DOMAIN b = 1 .. Len(b)
      /\ \A x \in DOMAIN b : x \in Nat /\ m[x] \in Nat /\ m[x] \in DOMAIN a
      /\ \A x \in DOMAIN b : b[x].t = a[m[x]].t
      /\ \A x, y \in DOMAIN b : x <= y <=> m[x] <= m[y]
  BY TrackFacts
<1> DEFINE opened(text, x) == IF text[x].t = "if" THEN 0 ELSE 1
<1>2. opened(b, i) = opened(a, m[i])
  BY <1>1
<1>3. \A j : j \in Ends(b, i) <=> /\ j \in DOMAIN b /\ i <= j /\ b[j].t = "end"
                                 /\ opened(b, i) + Count(b, i, j, "if") = Count(b, i, j, "end")
  BY <1>1 DEF Ends
<1>4. \A j : j \in Ends(a, m[i]) <=>
               /\ j \in DOMAIN a /\ m[i] <= j /\ a[j].t = "end"
               /\ opened(a, m[i]) + Count(a, m[i], j, "if") = Count(a, m[i], j, "end")
  BY <1>1 DEF Ends
<1> HIDE DEF opened
<1>5. ASSUME NEW j \in DOMAIN b PROVE j \in Ends(b, i) <=> m[j] \in Ends(a, m[i])
  <2>1. Count(b, i, j, "if") = Count(a, m[i], m[j], "if")
    BY CountTracks
  <2>2. Count(b, i, j, "end") = Count(a, m[i], m[j], "end")
    BY CountTracks
  <2>3. (i <= j <=> m[i] <= m[j]) /\ b[j].t = a[m[j]].t /\ m[j] \in DOMAIN a
    BY <1>1
  <2> QED
    BY <1>2, <1>3, <1>4, <2>1, <2>2, <2>3
<1>6. Ends(b, i) \in SUBSET DOMAIN b /\ Ends(a, m[i]) \in SUBSET DOMAIN a
  BY <1>3, <1>4
<1>7. \A x \in Ends(a, m[i]) : ~IsTrivia(a[x])
  BY <1>4 DEF IsTrivia
<1>8. SameTokens(a, b, m, Ends(b, i), Ends(a, m[i]))
  BY <1>5, <1>6, <1>7 DEF SameTokens
<1> QED
  BY <1>6, <1>8, ImageIs

LEMMA ParsesTracks ==
    ASSUME NEW a, NEW b, NEW m, Follows(a, b, m), Parses(a)
    PROVE  Parses(b)
<1> SUFFICES ASSUME NEW i \in DOMAIN b, b[i].t \in {"if", "else"} PROVE Ends(b, i) # {}
  BY DEF Parses, Follows
<1>1. m[i] \in DOMAIN a /\ b[i].t = a[m[i]].t
  BY TrackFacts
<1>2. Ends(a, m[i]) # {}
  BY <1>1 DEF Parses
<1> QED
  BY <1>2, EndsTrack DEF Image

(* Two texts, one the tree of the other.                                    *)
Alike(a, b, m) == Follows(a, b, m) /\ Parses(a) /\ Parses(b)
Opens(text, i) == i \in DOMAIN text /\ text[i].t \in {"if", "else"}

LEMMA EndOfTracks ==
    ASSUME NEW a, NEW b, NEW m, Alike(a, b, m), NEW i, Opens(b, i)
    PROVE  EndOf(b, i) \in Ends(b, i) /\ EndOf(b, i) \in DOMAIN b /\ EndOf(a, m[i]) = m[EndOf(b, i)]
<1>1. Follows(a, b, m) /\ i \in DOMAIN b /\ Ends(b, i) # {}
  BY DEF Alike, Opens, Parses
<1>2. Ends(b, i) \in SUBSET DOMAIN b /\ Ends(a, m[i]) = Image(m, Ends(b, i))
  BY <1>1, EndsTrack
<1>3. Least(Ends(b, i)) \in Ends(b, i) /\ Least(Image(m, Ends(b, i))) = m[Least(Ends(b, i))]
  BY <1>1, <1>2, LeastTracks
<1> QED
  BY <1>2, <1>3 DEF EndOf

Alternatives(text, i) ==
    {j \in i + 1 .. EndOf(text, i) :
        /\ text[i].t = "if" /\ text[j].t = "else"
        /\ Count(text, i, j, "if") = Count(text, i, j, "end") + 1}

LEMMA AlternativesTrack ==
    ASSUME NEW a, NEW b, NEW m, Alike(a, b, m), NEW i, Opens(b, i)
    PROVE  /\ Alternatives(b, i) \in SUBSET DOMAIN b
           /\ Alternatives(a, m[i]) = Image(m, Alternatives(b, i))
<1>1. Follows(a, b, m) /\ i \in DOMAIN b
  BY DEF Alike, Opens
<1>2. /\ Len(a) \in Nat /\ Len(b) \in Nat
      /\ DOMAIN a = 1 .. Len(a) /\ DOMAIN b = 1 .. Len(b)
      /\ \A x \in DOMAIN b : x \in Nat /\ m[x] \in Nat /\ m[x] \in DOMAIN a
      /\ \A x \in DOMAIN b : b[x].t = a[m[x]].t
      /\ \A x, y \in DOMAIN b : x <= y <=> m[x] <= m[y]
      /\ \A x, y \in DOMAIN b : x < y <=> m[x] < m[y]
  BY <1>1, TrackFacts
<1>3. PICK e \in DOMAIN b : e = EndOf(b, i) /\ EndOf(a, m[i]) = m[e]
  BY EndOfTracks
<1>4. \A j : j \in Alternatives(b, i) <=>
               /\ j \in DOMAIN b /\ i < j /\ j <= e /\ b[i].t = "if" /\ b[j].t = "else"
               /\ Count(b, i, j, "if") = Count(b, i, j, "end") + 1
  BY <1>1, <1>2, <1>3 DEF Alternatives
<1>5. \A j : j \in Alternatives(a, m[i]) <=>
               /\ j \in DOMAIN a /\ m[i] < j /\ j <= m[e] /\ a[m[i]].t = "if" /\ a[j].t = "else"
               /\ Count(a, m[i], j, "if") = Count(a, m[i], j, "end") + 1
  BY <1>1, <1>2, <1>3 DEF Alternatives
<1>6. ASSUME NEW j \in DOMAIN b PROVE j \in Alternatives(b, i) <=> m[j] \in Alternatives(a, m[i])
  <2>1. Count(b, i, j, "if") = Count(a, m[i], m[j], "if")
    BY <1>1, CountTracks
  <2>2. Count(b, i, j, "end") = Count(a, m[i], m[j], "end")
    BY <1>1, CountTracks
  <2>3. /\ (i < j <=> m[i] < m[j]) /\ (j <= e <=> m[j] <= m[e])
        /\ b[j].t = a[m[j]].t /\ b[i].t = a[m[i]].t /\ m[j] \in DOMAIN a
    BY <1>1, <1>2
  <2> QED
    BY <1>4, <1>5, <2>1, <2>2, <2>3
<1>7. Alternatives(b, i) \in SUBSET DOMAIN b /\ Alternatives(a, m[i]) \in SUBSET DOMAIN a
  BY <1>4, <1>5
<1>8. \A x \in Alternatives(a, m[i]) : ~IsTrivia(a[x])
  BY <1>5 DEF IsTrivia
<1>9. SameTokens(a, b, m, Alternatives(b, i), Alternatives(a, m[i]))
  BY <1>6, <1>7, <1>8 DEF SameTokens
<1> QED
  BY <1>1, <1>7, <1>9, ImageIs

LEMMA CloserTracks ==
    ASSUME NEW a, NEW b, NEW m, Alike(a, b, m), NEW i, Opens(b, i)
    PROVE  /\ Closer(b, i) \in DOMAIN b /\ i <= Closer(b, i)
           /\ b[Closer(b, i)].t \in {"else", "end"}
           /\ Closer(a, m[i]) = m[Closer(b, i)]
<1> DEFINE S == Alternatives(b, i)
<1>1. Follows(a, b, m) /\ i \in DOMAIN b /\ Len(b) \in Nat /\ DOMAIN b = 1 .. Len(b)
  BY TrackFacts DEF Alike, Opens
<1>2. S \in SUBSET DOMAIN b /\ Alternatives(a, m[i]) = Image(m, S)
  BY AlternativesTrack
<1>3. /\ EndOf(b, i) \in Ends(b, i) /\ EndOf(b, i) \in DOMAIN b
      /\ EndOf(a, m[i]) = m[EndOf(b, i)]
  BY EndOfTracks
<1>4. Closer(b, i) = IF S = {} THEN EndOf(b, i) ELSE Least(S)
  BY DEF Closer, Alternatives
<1>5. Closer(a, m[i]) = IF Image(m, S) = {} THEN EndOf(a, m[i]) ELSE Least(Image(m, S))
  BY <1>2 DEF Closer, Alternatives
<1>6. \A x \in S : b[x].t = "else" /\ i <= x
  BY <1>1 DEF Alternatives
<1> HIDE DEF S
<1>7. CASE S = {}
  <2>1. Image(m, S) = {}
    BY <1>7 DEF Image
  <2>2. b[EndOf(b, i)].t = "end" /\ i <= EndOf(b, i)
    BY <1>1, <1>3 DEF Ends
  <2> QED
    BY <1>3, <1>4, <1>5, <1>7, <2>1, <2>2
<1>8. CASE S # {}
  <2>1. Image(m, S) # {}
    BY <1>8 DEF Image
  <2>2. Least(S) \in S /\ Least(Image(m, S)) = m[Least(S)]
    BY <1>1, <1>2, <1>8, LeastTracks
  <2> QED
    BY <1>2, <1>4, <1>5, <1>6, <1>8, <2>1, <2>2
<1> QED
  BY <1>7, <1>8
-----------------------------------------------------------------------------
LEMMA GreatestTracks ==
    ASSUME NEW a, NEW b, NEW m, Follows(a, b, m), NEW S \in SUBSET DOMAIN b, S # {}
    PROVE  /\ Greatest({0} \cup S) \in S
           /\ Greatest({0} \cup Image(m, S)) = m[Greatest({0} \cup S)]
<1>1. /\ Len(b) \in Nat /\ DOMAIN b = 1 .. Len(b)
      /\ \A x \in DOMAIN b : m[x] \in Nat
      /\ \A x, y \in DOMAIN b : x <= y <=> m[x] <= m[y]
  BY TrackFacts
<1> DEFINE Z == {0} \cup S
<1>2. Z \in SUBSET Nat /\ Z # {} /\ \A x \in Z : x <= Len(b)
  BY <1>1
<1> HIDE DEF Z
<1>3. Greatest(Z) \in Z /\ \A x \in Z : Greatest(Z) >= x
  BY <1>1, <1>2, GreatestFacts
<1>4. PICK g \in Z : g = Greatest(Z) /\ \A x \in Z : g >= x
  BY <1>3
<1>5. g \in S
  <2>1. PICK x \in S : x \in 1 .. Len(b)
    BY <1>1
  <2>2. x \in Z /\ x > 0
    BY <2>1 DEF Z
  <2>3. g # 0
    BY <1>2, <1>4, <2>2
  <2> QED
    BY <2>3 DEF Z
<1> DEFINE Y == {0} \cup Image(m, S)
<1>6. Y \in SUBSET Nat /\ m[g] \in Y
  BY <1>1, <1>5 DEF Image
<1>7. ASSUME NEW y \in Y PROVE m[g] >= y
  <2>1. CASE y = 0
    BY <1>1, <1>5, <2>1
  <2>2. CASE y # 0
    <3>1. PICK x \in S : m[x] = y
      BY <2>2 DEF Image
    <3>2. g >= x /\ g \in DOMAIN b /\ x \in DOMAIN b
      BY <1>4, <1>5, <3>1 DEF Z
    <3>3. x <= g /\ m[x] <= m[g] /\ m[x] \in Nat /\ m[g] \in Nat
      BY <1>1, <3>2
    <3> QED
      BY <3>1, <3>3
  <2> QED
    BY <2>1, <2>2
<1> HIDE DEF Y
<1>8. Greatest(Y) = m[g]
  BY <1>6, <1>7, GreatestIs
<1> QED
  BY <1>4, <1>5, <1>8 DEF Y, Z

Openers(text, i) == {o \in 1 .. i - 1 : text[o].t \in {"if", "else"} /\ Closer(text, o) > i}

LEMMA OpenersTrack ==
    ASSUME NEW a, NEW b, NEW m, Alike(a, b, m), NEW i \in DOMAIN b
    PROVE  Openers(b, i) \in SUBSET DOMAIN b /\ Openers(a, m[i]) = Image(m, Openers(b, i))
<1>1. Follows(a, b, m)
  BY DEF Alike
<1>2. /\ Len(a) \in Nat /\ Len(b) \in Nat
      /\ DOMAIN a = 1 .. Len(a) /\ DOMAIN b = 1 .. Len(b)
      /\ \A x \in DOMAIN b : x \in Nat /\ m[x] \in Nat /\ m[x] \in DOMAIN a
      /\ \A x \in DOMAIN b : b[x].t = a[m[x]].t
      /\ \A x, y \in DOMAIN b : x < y <=> m[x] < m[y]
  BY <1>1, TrackFacts
<1>3. \A o : o \in Openers(b, i) <=> o \in DOMAIN b /\ o < i /\ Opens(b, o) /\ Closer(b, o) > i
  BY <1>2 DEF Openers, Opens
<1>4. \A o : o \in Openers(a, m[i]) <=>
               o \in DOMAIN a /\ o < m[i] /\ Opens(a, o) /\ Closer(a, o) > m[i]
  BY <1>2 DEF Openers, Opens
<1>5. ASSUME NEW o \in DOMAIN b PROVE o \in Openers(b, i) <=> m[o] \in Openers(a, m[i])
  <2>1. Opens(b, o) <=> Opens(a, m[o])
    BY <1>2 DEF Opens
  <2>2. ASSUME Opens(b, o) PROVE Closer(b, o) > i <=> Closer(a, m[o]) > m[i]
    <3>1. PICK c \in DOMAIN b : c = Closer(b, o) /\ Closer(a, m[o]) = m[c]
      BY <2>2, CloserTracks
    <3>2. i < c <=> m[i] < m[c]
      BY <1>2
    <3> QED
      BY <1>2, <3>1, <3>2
  <2>3. (o < i <=> m[o] < m[i]) /\ m[o] \in DOMAIN a
    BY <1>2
  <2> QED
    BY <1>3, <1>4, <2>1, <2>2, <2>3
<1>6. Openers(b, i) \in SUBSET DOMAIN b /\ Openers(a, m[i]) \in SUBSET DOMAIN a
  BY <1>3, <1>4
<1>7. \A x \in Openers(a, m[i]) : ~IsTrivia(a[x])
  BY <1>4 DEF IsTrivia, Opens
<1>8. SameTokens(a, b, m, Openers(b, i), Openers(a, m[i]))
  BY <1>5, <1>6, <1>7 DEF SameTokens
<1> QED
  BY <1>1, <1>6, <1>8, ImageIs

LEMMA OpenerTracks ==
    ASSUME NEW a, NEW b, NEW m, Alike(a, b, m), NEW i \in DOMAIN b
    PROVE  \/ Opener(b, i) = 0 /\ Opener(a, m[i]) = 0
           \/ /\ Opens(b, Opener(b, i)) /\ Opens(a, Opener(a, m[i]))
              /\ Opener(b, i) # 0 /\ Opener(a, m[i]) # 0
              /\ Opener(a, m[i]) = m[Opener(b, i)]
<1> DEFINE S == Openers(b, i)
<1>1. Follows(a, b, m)
  BY DEF Alike
<1>2. S \in SUBSET DOMAIN b /\ Openers(a, m[i]) = Image(m, S)
  BY OpenersTrack
<1>3. Opener(b, i) = Greatest({0} \cup S) /\ Opener(a, m[i]) = Greatest({0} \cup Image(m, S))
  BY <1>2 DEF Opener, Openers
<1>4. \A o \in S : Opens(b, o)
  BY <1>2 DEF Openers, Opens
<1> HIDE DEF S
<1>5. CASE S = {}
  <2>1. Image(m, S) = {} /\ {0} \cup S = {0} /\ {0} \cup Image(m, S) = {0}
    BY <1>5 DEF Image
  <2>2. Greatest({0}) = 0
    BY GreatestIs
  <2> QED
    BY <1>3, <2>1, <2>2
<1>6. CASE S # {}
  <2>1. Opener(b, i) \in S /\ Opener(a, m[i]) = m[Opener(b, i)]
    BY <1>1, <1>2, <1>3, <1>6, GreatestTracks
  <2>2. PICK o \in S : o = Opener(b, i) /\ Opener(a, m[i]) = m[o]
    BY <2>1
  <2>3. /\ DOMAIN b = 1 .. Len(b) /\ DOMAIN a = 1 .. Len(a) /\ Len(b) \in Nat /\ Len(a) \in Nat
        /\ b[o].t = a[m[o]].t /\ m[o] \in DOMAIN a
    BY <1>1, <1>2, TrackFacts
  <2>4. o # 0 /\ m[o] # 0
    BY <1>2, <2>3
  <2>5. Opens(b, o) /\ Opens(a, m[o])
    BY <1>4, <2>3 DEF Opens
  <2> QED
    BY <2>2, <2>4, <2>5
<1> QED
  BY <1>5, <1>6

(* What follows a token in its block and is not trivia.                     *)
Siblings(text, i) == {j \in i + 1 .. BlockEnd(text, Opener(text, i)) - 1 : ~IsTrivia(text[j])}

LEMMA SiblingsTrack ==
    ASSUME NEW a, NEW b, NEW m, Alike(a, b, m), NEW i \in DOMAIN b
    PROVE  Siblings(b, i) \in SUBSET DOMAIN b /\ Siblings(a, m[i]) = Image(m, Siblings(b, i))
<1>1. Follows(a, b, m)
  BY DEF Alike
<1>2. /\ Len(a) \in Nat /\ Len(b) \in Nat
      /\ DOMAIN a = 1 .. Len(a) /\ DOMAIN b = 1 .. Len(b)
      /\ \A x \in DOMAIN b : x \in Nat /\ m[x] \in Nat /\ m[x] \in DOMAIN a
      /\ \A x \in DOMAIN b : b[x].t = a[m[x]].t
      /\ \A x, y \in DOMAIN b : x < y <=> m[x] < m[y]
  BY <1>1, TrackFacts
<1>3. PICK v \in Nat, w \in Nat :
        /\ v = BlockEnd(b, Opener(b, i)) /\ w = BlockEnd(a, Opener(a, m[i]))
        /\ v <= Len(b) + 1 /\ w <= Len(a) + 1
        /\ \A x \in DOMAIN b : x < v <=> m[x] < w
  <2>1. CASE Opener(b, i) = 0 /\ Opener(a, m[i]) = 0
    <3>1. BlockEnd(b, Opener(b, i)) = Len(b) + 1 /\ BlockEnd(a, Opener(a, m[i])) = Len(a) + 1
      BY <2>1 DEF BlockEnd
    <3>2. \A x \in DOMAIN b : x < Len(b) + 1 /\ m[x] < Len(a) + 1
      BY <1>2
    <3>3. Len(b) + 1 \in Nat /\ Len(a) + 1 \in Nat
      BY <1>2
    <3> QED
      BY <3>1, <3>2, <3>3
  <2>2. CASE /\ Opens(b, Opener(b, i)) /\ Opener(b, i) # 0 /\ Opener(a, m[i]) # 0
             /\ Opener(a, m[i]) = m[Opener(b, i)]
    <3>1. PICK c \in DOMAIN b : c = Closer(b, Opener(b, i)) /\ Closer(a, Opener(a, m[i])) = m[c]
      BY <2>2, CloserTracks
    <3>2. c = BlockEnd(b, Opener(b, i)) /\ m[c] = BlockEnd(a, Opener(a, m[i]))
      BY <2>2, <3>1 DEF BlockEnd
    <3>3. c \in Nat /\ m[c] \in Nat /\ c <= Len(b) + 1 /\ m[c] <= Len(a) + 1
          /\ \A x \in DOMAIN b : x < c <=> m[x] < m[c]
      BY <1>2
    <3> QED
      BY <3>2, <3>3
  <2> QED
    BY <2>1, <2>2, OpenerTracks
<1>4. \A j : j \in Siblings(b, i) <=> j \in DOMAIN b /\ i < j /\ j < v /\ ~IsTrivia(b[j])
  BY <1>2, <1>3 DEF Siblings
<1>5. \A j : j \in Siblings(a, m[i]) <=> j \in DOMAIN a /\ m[i] < j /\ j < w /\ ~IsTrivia(a[j])
  BY <1>2, <1>3 DEF Siblings
<1>6. \A j \in DOMAIN b : j \in Siblings(b, i) <=> m[j] \in Siblings(a, m[i])
  <2> TAKE j \in DOMAIN b
  <2>1. IsTrivia(b[j]) <=> IsTrivia(a[m[j]])
    BY <1>2 DEF IsTrivia
  <2> QED
    BY <1>2, <1>3, <1>4, <1>5, <2>1
<1>7. Siblings(b, i) \in SUBSET DOMAIN b /\ Siblings(a, m[i]) \in SUBSET DOMAIN a
  BY <1>4, <1>5
<1>8. \A x \in Siblings(a, m[i]) : ~IsTrivia(a[x])
  BY <1>5
<1>9. SameTokens(a, b, m, Siblings(b, i), Siblings(a, m[i]))
  BY <1>6, <1>7, <1>8 DEF SameTokens
<1> QED
  BY <1>1, <1>7, <1>9, ImageIs
-----------------------------------------------------------------------------
LEMMA AlikeItself ==
    ASSUME NEW text, Parses(text)
    PROVE  /\ Alike(text, text, [x \in DOMAIN text |-> x])
           /\ \A x \in DOMAIN text : [y \in DOMAIN text |-> y][x] = x
<1>1. \A x \in DOMAIN text : [y \in DOMAIN text |-> y][x] = x
  OBVIOUS
<1>2. [x \in DOMAIN text |-> x] \in [DOMAIN text -> DOMAIN text]
  OBVIOUS
<1>3. Tracks(text, text, [x \in DOMAIN text |-> x])
  BY <1>1, <1>2 DEF Tracks
<1> QED
  BY <1>1, <1>3 DEF Alike, Follows, Parses

(* A directive at i is for the statement at j.                              *)
IsFor(text, i, j) ==
    /\ NextMeaningfulSibling(text, i) # NoTarget
    /\ ContainsRange(NextMeaningfulSibling(text, i), [start |-> j - 1, end |-> j])

(* The last token of the element that starts at i.                          *)
LastOf(text, i) == IF text[i].t = "if" THEN EndOf(text, i) ELSE i

IsForInTree(text, i, j) ==
    LET o == Opener(text, i)
        s == Siblings(text, i)
    IN  \/ s # {} /\ Least(s) <= j /\ j <= LastOf(text, Least(s))
        \/ /\ s = {} /\ o # 0 /\ text[o].t = "if" /\ text[Closer(text, o)].t = "else"
           /\ Closer(text, o) <= j /\ j < EndOf(text, o)
        \/ /\ s = {} /\ o # 0 /\ text[o].t = "if" /\ text[Closer(text, o)].t # "else"
           /\ Closer(text, o) <= j /\ j <= Closer(text, o)
        \/ s = {} /\ o # 0 /\ text[o].t # "if" /\ o < j /\ j < Closer(text, o)

LEMMA InRange ==
    ASSUME NEW s \in Nat, NEW e \in Nat, NEW j \in Nat, j > 0
    PROVE  /\ [start |-> s, end |-> e] # NoTarget
           /\ ContainsRange([start |-> s, end |-> e], [start |-> j - 1, end |-> j])
                <=> s < j /\ j <= e
<1>1. [start |-> s, end |-> e] \in [start : Nat, end : Nat]
  OBVIOUS
<1>2. [start |-> s, end |-> e] # NoTarget
  BY <1>1, LintAssumption
<1>3. s <= j - 1 <=> s < j
  OBVIOUS
<1>4. ContainsRange([start |-> s, end |-> e], [start |-> j - 1, end |-> j]) <=> s <= j - 1 /\ j <= e
  BY DEF ContainsRange
<1> QED
  BY <1>2, <1>3, <1>4

LEMMA InTree ==
    ASSUME NEW text, Parses(text), NEW i \in DOMAIN text, NEW j \in DOMAIN text
    PROVE  IsFor(text, i, j) <=> IsForInTree(text, i, j)
<1>1. PICK h : Alike(text, text, h) /\ \A x \in DOMAIN text : h[x] = x
  BY AlikeItself
<1>2. Len(text) \in Nat /\ DOMAIN text = 1 .. Len(text)
  BY DEF Parses
<1>3. PICK o : o = Opener(text, i)
  OBVIOUS
<1>4. PICK s : s = Siblings(text, i)
  OBVIOUS
<1>5. NextMeaningfulSibling(text, i) =
        CASE s # {} -> ElementAt(text, Least(s))
          [] s = {} /\ o = 0 -> NoTarget
          [] s = {} /\ o # 0 /\ text[o].t = "if" ->
                IF text[Closer(text, o)].t = "else"
                THEN [start |-> Closer(text, o) - 1, end |-> EndOf(text, o) - 1]
                ELSE ElementAt(text, Closer(text, o))
          [] OTHER -> [start |-> o, end |-> Closer(text, o) - 1]
  BY <1>3, <1>4 DEF NextMeaningfulSibling, Siblings
<1>6. j \in Nat /\ j > 0
  BY <1>2
<1>7. ASSUME NEW l \in DOMAIN text
      PROVE  /\ ElementAt(text, l) # NoTarget
             /\ ContainsRange(ElementAt(text, l), [start |-> j - 1, end |-> j])
                  <=> l <= j /\ j <= LastOf(text, l)
  <2>1. PICK e \in Nat : e = LastOf(text, l)
    <3>1. CASE text[l].t = "if"
      <4>1. Opens(text, l)
        BY <3>1 DEF Opens
      <4>2. EndOf(text, l) \in DOMAIN text
        BY <1>1, <4>1, EndOfTracks
      <4>3. EndOf(text, l) \in Nat /\ LastOf(text, l) = EndOf(text, l)
        BY <1>2, <3>1, <4>2 DEF LastOf
      <4> QED
        BY <4>3
    <3>2. CASE text[l].t # "if"
      <4>1. l \in Nat /\ LastOf(text, l) = l
        BY <1>2, <3>2 DEF LastOf
      <4> QED
        BY <4>1
    <3> QED
      BY <3>1, <3>2
  <2>2. ElementAt(text, l) = [start |-> l - 1, end |-> e]
    BY <2>1 DEF ElementAt, LastOf
  <2>3. l - 1 \in Nat /\ (l - 1 < j <=> l <= j)
    BY <1>2
  <2> QED
    BY <1>6, <2>1, <2>2, <2>3, InRange
<1>8. CASE s # {}
  <2>1. s \in SUBSET DOMAIN text /\ Follows(text, text, h)
    BY <1>1, <1>4, SiblingsTrack DEF Alike
  <2>2. Least(s) \in DOMAIN text
    BY <1>8, <2>1, LeastTracks
  <2>3. NextMeaningfulSibling(text, i) = ElementAt(text, Least(s))
    BY <1>5, <1>8
  <2>4. IsFor(text, i, j) <=> Least(s) <= j /\ j <= LastOf(text, Least(s))
    BY <1>7, <2>2, <2>3 DEF IsFor
  <2> QED
    BY <1>4, <1>8, <2>4 DEF IsForInTree
<1>9. CASE s = {} /\ o = 0
  <2>1. NextMeaningfulSibling(text, i) = NoTarget
    BY <1>5, <1>9
  <2> QED
    BY <1>3, <1>4, <1>9, <2>1 DEF IsForInTree, IsFor
<1>10. CASE s = {} /\ o # 0
  <2>1. Opens(text, o)
    BY <1>1, <1>3, <1>10, OpenerTracks
  <2>2. PICK c : c = Closer(text, o)
    OBVIOUS
  <2>3. c \in DOMAIN text /\ text[c].t \in {"else", "end"}
    BY <1>1, <2>1, <2>2, CloserTracks
  <2>4. PICK e : e = EndOf(text, o)
    OBVIOUS
  <2>5. e \in DOMAIN text
    BY <1>1, <2>1, <2>4, EndOfTracks
  <2>6. /\ c - 1 \in Nat /\ e - 1 \in Nat /\ o \in Nat
        /\ c - 1 < j <=> c <= j
        /\ j <= c - 1 <=> j < c
        /\ j <= e - 1 <=> j < e
    BY <1>2, <1>6, <2>1, <2>3, <2>5 DEF Opens
  <2>7. CASE text[o].t = "if" /\ text[c].t = "else"
    <3>1. NextMeaningfulSibling(text, i) = [start |-> c - 1, end |-> e - 1]
      BY <1>5, <1>10, <2>2, <2>4, <2>7
    <3>2. IsFor(text, i, j) <=> c <= j /\ j < e
      BY <1>6, <2>6, <3>1, InRange DEF IsFor
    <3> QED
      BY <1>3, <1>4, <1>10, <2>2, <2>4, <2>7, <3>2 DEF IsForInTree
  <2>8. CASE text[o].t = "if" /\ text[c].t # "else"
    <3>1. NextMeaningfulSibling(text, i) = ElementAt(text, c)
      BY <1>5, <1>10, <2>2, <2>8
    <3>2. LastOf(text, c) = c
      BY <2>3 DEF LastOf
    <3>3. IsFor(text, i, j) <=> c <= j /\ j <= c
      BY <1>7, <2>3, <3>1, <3>2 DEF IsFor
    <3> QED
      BY <1>3, <1>4, <1>10, <2>2, <2>8, <3>3 DEF IsForInTree
  <2>9. CASE text[o].t # "if"
    <3>1. NextMeaningfulSibling(text, i) = [start |-> o, end |-> c - 1]
      BY <1>5, <1>10, <2>2, <2>9
    <3>2. IsFor(text, i, j) <=> o < j /\ j < c
      BY <1>6, <2>6, <3>1, InRange DEF IsFor
    <3> QED
      BY <1>3, <1>4, <1>10, <2>2, <2>9, <3>2 DEF IsForInTree
  <2> QED
    BY <2>7, <2>8, <2>9
<1> QED
  BY <1>8, <1>9, <1>10

LEMMA LastOfTracks ==
    ASSUME NEW a, NEW b, NEW m, Alike(a, b, m), NEW l \in DOMAIN b
    PROVE  LastOf(b, l) \in DOMAIN b /\ LastOf(a, m[l]) = m[LastOf(b, l)]
<1>1. b[l].t = a[m[l]].t
  BY TrackFacts DEF Alike
<1>2. CASE b[l].t = "if"
  <2>1. Opens(b, l)
    BY <1>2 DEF Opens
  <2> QED
    BY <1>1, <1>2, <2>1, EndOfTracks DEF LastOf
<1>3. CASE b[l].t # "if"
  BY <1>1, <1>3 DEF LastOf
<1> QED
  BY <1>2, <1>3

(* A directive is for the same statements.                                  *)
LEMMA InTreeTracks ==
    ASSUME NEW a, NEW b, NEW m, Alike(a, b, m), NEW i \in DOMAIN b, NEW j \in DOMAIN b
    PROVE  IsForInTree(a, m[i], m[j]) <=> IsForInTree(b, i, j)
<1>1. Follows(a, b, m)
  BY DEF Alike
<1>2. /\ \A x, y \in DOMAIN b : x < y <=> m[x] < m[y]
      /\ \A x, y \in DOMAIN b : x <= y <=> m[x] <= m[y]
      /\ \A x \in DOMAIN b : b[x].t = a[m[x]].t
  BY <1>1, TrackFacts
<1>3. PICK o, p : o = Opener(b, i) /\ p = Opener(a, m[i])
  OBVIOUS
<1>4. PICK s, t : s = Siblings(b, i) /\ t = Siblings(a, m[i])
  OBVIOUS
<1>5. s \in SUBSET DOMAIN b /\ t = Image(m, s)
  BY <1>4, SiblingsTrack
<1>9. \/ o = 0 /\ p = 0
      \/ Opens(b, o) /\ o # 0 /\ p # 0 /\ p = m[o]
  <2>1. \/ Opener(b, i) = 0 /\ Opener(a, m[i]) = 0
        \/ /\ Opens(b, Opener(b, i)) /\ Opens(a, Opener(a, m[i]))
           /\ Opener(b, i) # 0 /\ Opener(a, m[i]) # 0
           /\ Opener(a, m[i]) = m[Opener(b, i)]
    BY OpenerTracks
  <2> QED
    BY <1>3, <2>1
<1>6. CASE s # {}
  <2>1. t # {}
    BY <1>5, <1>6 DEF Image
  <2>2. PICK l \in DOMAIN b : l = Least(s) /\ Least(t) = m[l]
    BY <1>1, <1>5, <1>6, LeastTracks
  <2>3. PICK e \in DOMAIN b : e = LastOf(b, l) /\ LastOf(a, m[l]) = m[e]
    BY LastOfTracks
  <2>4. (l <= j <=> m[l] <= m[j]) /\ (j <= e <=> m[j] <= m[e])
    BY <1>2
  <2>5. IsForInTree(b, i, j) <=> l <= j /\ j <= e
    BY <1>3, <1>4, <1>6, <2>2, <2>3 DEF IsForInTree
  <2>6. IsForInTree(a, m[i], m[j]) <=> m[l] <= m[j] /\ m[j] <= m[e]
    BY <1>3, <1>4, <2>1, <2>2, <2>3 DEF IsForInTree
  <2> QED
    BY <2>4, <2>5, <2>6
<1>7. CASE s = {} /\ o = 0
  <2>1. t = {} /\ p = 0
    <3>1. t = {}
      BY <1>5, <1>7 DEF Image
    <3>2. p = 0
      BY <1>7, <1>9
    <3> QED
      BY <3>1, <3>2
  <2> QED
    BY <1>3, <1>4, <1>7, <2>1 DEF IsForInTree
<1>8. CASE s = {} /\ o # 0
  <2>1. t = {} /\ p # 0 /\ Opens(b, o) /\ p = m[o]
    <3>1. t = {}
      BY <1>5, <1>8 DEF Image
    <3>2. p # 0 /\ Opens(b, o) /\ p = m[o]
      BY <1>8, <1>9
    <3> QED
      BY <3>1, <3>2
  <2>2. PICK c \in DOMAIN b : c = Closer(b, o) /\ Closer(a, p) = m[c]
    BY <2>1, CloserTracks
  <2>3. PICK e \in DOMAIN b : e = EndOf(b, o) /\ EndOf(a, p) = m[e]
    BY <2>1, EndOfTracks
  <2>4. o \in DOMAIN b
    BY <2>1 DEF Opens
  <2>5. /\ o < j <=> m[o] < m[j]
        /\ j < c <=> m[j] < m[c]
        /\ c <= j <=> m[c] <= m[j]
        /\ j <= c <=> m[j] <= m[c]
        /\ j < e <=> m[j] < m[e]
        /\ b[o].t = a[m[o]].t /\ b[c].t = a[m[c]].t
    BY <1>2, <2>4
  <2>6. IsForInTree(b, i, j) <=>
          \/ b[o].t = "if" /\ b[c].t = "else" /\ c <= j /\ j < e
          \/ b[o].t = "if" /\ b[c].t # "else" /\ c <= j /\ j <= c
          \/ b[o].t # "if" /\ o < j /\ j < c
    BY <1>3, <1>4, <1>8, <2>2, <2>3 DEF IsForInTree
  <2>7. IsForInTree(a, m[i], m[j]) <=>
          \/ a[p].t = "if" /\ a[m[c]].t = "else" /\ m[c] <= m[j] /\ m[j] < m[e]
          \/ a[p].t = "if" /\ a[m[c]].t # "else" /\ m[c] <= m[j] /\ m[j] <= m[c]
          \/ a[p].t # "if" /\ p < m[j] /\ m[j] < m[c]
    BY <1>3, <1>4, <2>1, <2>2, <2>3 DEF IsForInTree
  <2> QED
    BY <2>1, <2>5, <2>6, <2>7
<1> QED
  BY <1>6, <1>7, <1>8

LEMMA IsForTracks ==
    ASSUME NEW a, NEW b, NEW m, Alike(a, b, m), NEW i \in DOMAIN b, NEW j \in DOMAIN b
    PROVE  IsFor(a, m[i], m[j]) <=> IsFor(b, i, j)
<1>1. m[i] \in DOMAIN a /\ m[j] \in DOMAIN a
  BY TrackFacts DEF Alike
<1>2. IsFor(a, m[i], m[j]) <=> IsForInTree(a, m[i], m[j])
  BY <1>1, InTree DEF Alike
<1>3. IsFor(b, i, j) <=> IsForInTree(b, i, j)
  BY InTree DEF Alike
<1> QED
  BY <1>2, <1>3, InTreeTracks
-----------------------------------------------------------------------------
Found(text, enabled, quiet) ==
    { f \in StatementFindings(text, quiet) \cup MisnamedFindings(text)
            \cup BlanketFindings(text) : f.rule \in enabled }

Used(text, enabled, quiet) ==
    UNION { Matches(text, f.rule, f.range) : f \in Found(text, enabled, quiet) }

StatementFinding(text, i) ==
    Finding(text[i].rule, ElementAt(text, i), StatementFix(i, text[i].rule))

LEMMA RunIs ==
    ASSUME NEW text, NEW enabled, NEW quiet, NEW g
    PROVE  g \in Run(text, enabled, quiet) <=>
             /\ ~IsSuppressed(text, g)
             /\ \/ g \in Found(text, enabled, quiet)
                \/ /\ Outdated \in enabled
                   /\ g \in OutdatedFindings(text, enabled, quiet, Used(text, enabled, quiet))
BY DEF Run, Found, Used

(* The fixes of a run, each for one token.                                  *)
FixesStatement(text, enabled, quiet, i, f) ==
    /\ text[i].t = "stmt" /\ text[i].rule \in (CodeRules \ quiet) \cap enabled
    /\ ~IsSuppressed(text, StatementFinding(text, i))
    /\ text[i].rule \in FixableRules
    /\ f = Fix(i - 1, i, <<Stmt(Rewrites[text[i].rule])>>, text[i].rule \notin UnsafeRules)

FixesName(text, i, f) ==
    /\ text[i].t = "comment" /\ text[i].rule = Typo
    /\ f = Fix(i - 1, i, <<[text[i] EXCEPT !.rule = NearMatch]>>, TRUE)

DropsDirective(text, enabled, quiet, i, f) ==
    /\ text[i].t = "comment" /\ IsOutdated(text, enabled, quiet, Used(text, enabled, quiet), i)
    /\ f = Fix(DeletionSpan(text, i).start, DeletionSpan(text, i).end, <<>>, TRUE)

FixesToken(text, enabled, quiet, i, f) ==
    \/ FixesStatement(text, enabled, quiet, i, f)
    \/ FixesName(text, i, f)
    \/ DropsDirective(text, enabled, quiet, i, f)

LEMMA FixesOfRun ==
    ASSUME NEW text, NEW enabled, NEW quiet, NEW unsafe,
           NEW f \in FixesOf(Run(text, enabled, quiet), unsafe)
    PROVE  \E i \in DOMAIN text : FixesToken(text, enabled, quiet, i, f)
<1>1. PICK g \in Run(text, enabled, quiet) : g.fixes # NoFix /\ f = g.fixes[1]
  BY DEF FixesOf
<1>2. /\ ~IsSuppressed(text, g)
      /\ \/ g \in Found(text, enabled, quiet)
         \/ g \in OutdatedFindings(text, enabled, quiet, Used(text, enabled, quiet))
  BY RunIs
<1>3. CASE g \in StatementFindings(text, quiet) /\ g.rule \in enabled
  <2>1. PICK i \in DOMAIN text :
          /\ text[i].t = "stmt" /\ text[i].rule \in CodeRules \ quiet
          /\ g = StatementFinding(text, i)
    BY <1>3 DEF StatementFindings, StatementFinding
  <2>2. g.rule = text[i].rule /\ g.fixes = StatementFix(i, text[i].rule)
    BY <2>1 DEF StatementFinding, Finding
  <2>3. text[i].rule \in FixableRules
    BY <1>1, <2>2 DEF StatementFix
  <2>4. f = Fix(i - 1, i, <<Stmt(Rewrites[text[i].rule])>>, text[i].rule \notin UnsafeRules)
    BY <1>1, <2>2, <2>3 DEF StatementFix
  <2>5. FixesStatement(text, enabled, quiet, i, f)
    BY <1>2, <1>3, <2>1, <2>2, <2>3, <2>4 DEF FixesStatement
  <2> QED
    BY <2>5 DEF FixesToken
<1>4. CASE g \in MisnamedFindings(text)
  <2>1. PICK i \in DOMAIN text :
          /\ text[i].t = "comment" /\ text[i].rule = Typo
          /\ g = Finding(Misnamed, ElementAt(text, i),
                   << Fix(i - 1, i, <<[text[i] EXCEPT !.rule = NearMatch]>>, TRUE) >>)
    BY <1>4 DEF MisnamedFindings, Directives
  <2>2. f = Fix(i - 1, i, <<[text[i] EXCEPT !.rule = NearMatch]>>, TRUE)
    BY <1>1, <2>1 DEF Finding
  <2>3. FixesName(text, i, f)
    BY <2>1, <2>2 DEF FixesName
  <2> QED
    BY <2>3 DEF FixesToken
<1>5. CASE g \in BlanketFindings(text)
  BY <1>1, <1>5 DEF BlanketFindings, Finding
<1>6. CASE g \in OutdatedFindings(text, enabled, quiet, Used(text, enabled, quiet))
  <2>1. PICK i \in DOMAIN text :
          /\ text[i].t = "comment"
          /\ IsOutdated(text, enabled, quiet, Used(text, enabled, quiet), i)
          /\ g = Finding(Outdated, ElementAt(text, i),
                   << Fix(DeletionSpan(text, i).start, DeletionSpan(text, i).end, <<>>, TRUE) >>)
    BY <1>6 DEF OutdatedFindings, Directives
  <2>2. f = Fix(DeletionSpan(text, i).start, DeletionSpan(text, i).end, <<>>, TRUE)
    BY <1>1, <2>1 DEF Finding
  <2>3. DropsDirective(text, enabled, quiet, i, f)
    BY <2>1, <2>2 DEF DropsDirective
  <2> QED
    BY <2>3 DEF FixesToken
<1>7. g \in Found(text, enabled, quiet) =>
         /\ g.rule \in enabled
         /\ \/ g \in StatementFindings(text, quiet)
            \/ g \in MisnamedFindings(text)
            \/ g \in BlanketFindings(text)
  BY DEF Found
<1> QED
  BY <1>2, <1>3, <1>4, <1>5, <1>6, <1>7

LEMMA FixFacts ==
    ASSUME NEW start, NEW end, NEW content, NEW safe
    PROVE  /\ Fix(start, end, content, safe).start = start
           /\ Fix(start, end, content, safe).end = end
           /\ Fix(start, end, content, safe).content = content
           /\ Fix(start, end, content, safe).safe = safe
BY DEF Fix

LEMMA RenamedIsComment ==
    ASSUME NEW token \in Tokens, token.t = "comment", token.rule = Typo
    PROVE  /\ [token EXCEPT !.rule = NearMatch] \in Tokens
           /\ [token EXCEPT !.rule = NearMatch].t = "comment"
<1>1. NearMatch \in Rules /\ NearMatch # Typo /\ Typo # NoRule
  BY LintAssumption DEF Rules
<1>2. PICK kind \in {"file", "node"}, r \in Rules \cup {Typo, NoRule} : token = Comment(kind, r)
  BY <1>1 DEF Tokens, Stmt, If, Else, End, NewLine, Comment
<1>3. [token EXCEPT !.rule = NearMatch] = Comment(kind, NearMatch)
  BY <1>2 DEF Comment
<1>4. Comment(kind, NearMatch) \in Tokens
  BY <1>1 DEF Tokens
<1>5. Comment(kind, NearMatch).t = "comment"
  BY DEF Comment
<1> QED
  BY <1>3, <1>4, <1>5

(* What a fix of a run may be.                                              *)
IsFix(text, f) == f \in AFix /\ f.start <= f.end /\ Harmless(text, f)

LEMMA TokenFixIsHarmless ==
    ASSUME NEW text \in Seq(Tokens), NEW enabled, NEW quiet, NEW i \in DOMAIN text,
           NEW f, FixesToken(text, enabled, quiet, i, f)
    PROVE  IsFix(text, f) /\ f.start = i - 1
<1>1. DOMAIN text = 1 .. Len(text) /\ Len(text) \in Nat /\ text[i] \in Tokens
  OBVIOUS
<1>2. i - 1 \in Nat /\ i \in Nat /\ i + 1 \in Nat /\ i - 1 <= i /\ i - 1 <= i + 1
  BY <1>1
<1>3. ASSUME NEW end \in Nat, NEW content \in Seq(Tokens), NEW safe \in BOOLEAN
      PROVE  Fix(i - 1, end, content, safe) \in AFix
  BY <1>2 DEF Fix, AFix
<1>4. CASE FixesStatement(text, enabled, quiet, i, f)
  <2>1. PICK new : new = Stmt(Rewrites[text[i].rule])
    OBVIOUS
  <2>2. new \in Tokens
    <3>1. Rewrites[text[i].rule] \in CodeRules \cup {NoRule}
      BY <1>4, LintAssumption DEF FixesStatement
    <3> QED
      BY <2>1, <3>1 DEF Tokens
  <2>3. new.t = "stmt" /\ text[i].t = "stmt"
    BY <1>4, <2>1 DEF Stmt, FixesStatement
  <2>4. PICK safe \in BOOLEAN : f = Fix(i - 1, i, <<new>>, safe)
    BY <1>4, <2>1 DEF FixesStatement
  <2>5. f \in AFix
    <3>1. <<new>> \in Seq(Tokens)
      BY <2>2
    <3>2. Fix(i - 1, i, <<new>>, safe) \in AFix
      BY <1>2, <1>3, <3>1
    <3> QED
      BY <2>4, <3>2
  <2>6. f.start = i - 1 /\ f.end = i /\ f.content = <<new>>
    BY <2>4 DEF Fix
  <2> QED
    BY <1>2, <2>2, <2>3, <2>5, <2>6 DEF IsFix, Harmless
<1>5. CASE FixesName(text, i, f)
  <2>1. PICK new : new = [text[i] EXCEPT !.rule = NearMatch]
    OBVIOUS
  <2>2. new \in Tokens /\ new.t = text[i].t
    BY <1>1, <1>5, <2>1, RenamedIsComment DEF FixesName
  <2>3. f = Fix(i - 1, i, <<new>>, TRUE)
    BY <1>5, <2>1 DEF FixesName
  <2>4. f \in AFix
    <3>1. <<new>> \in Seq(Tokens)
      BY <2>2
    <3>2. Fix(i - 1, i, <<new>>, TRUE) \in AFix
      BY <1>2, <1>3, <3>1
    <3> QED
      BY <2>3, <3>2
  <2>5. f.start = i - 1 /\ f.end = i /\ f.content = <<new>>
    BY <2>3 DEF Fix
  <2> QED
    BY <1>2, <2>2, <2>4, <2>5 DEF IsFix, Harmless
<1>6. CASE DropsDirective(text, enabled, quiet, i, f)
  <2>1. PICK e : e = DeletionSpan(text, i).end
    OBVIOUS
  <2>2. /\ DeletionSpan(text, i).start = i - 1
        /\ \/ e = i
           \/ /\ e = i + 1 /\ i < Len(text) /\ text[i + 1].t = "newline"
              /\ i = 1 \/ text[i - 1].t = "newline"
    BY <2>1 DEF DeletionSpan
  <2>3. f = Fix(i - 1, e, <<>>, TRUE) /\ text[i].t = "comment"
    BY <1>6, <2>1, <2>2 DEF DropsDirective
  <2>4. e \in Nat /\ i - 1 <= e /\ (e = i + 1 => i + 1 \in DOMAIN text)
    BY <1>1, <1>2, <2>2
  <2>5. f \in AFix
    <3>1. <<>> \in Seq(Tokens)
      OBVIOUS
    <3> QED
      BY <1>3, <2>3, <2>4, <3>1
  <2>6. f.start = i - 1 /\ f.end = e /\ f.content = <<>>
    BY <2>3 DEF Fix
  <2> QED
    BY <2>2, <2>3, <2>4, <2>5, <2>6 DEF IsFix, Harmless
<1> QED
  BY <1>4, <1>5, <1>6 DEF FixesToken

(* One fix per token.                                                       *)
LEMMA OneFixPerToken ==
    ASSUME NEW text \in Seq(Tokens), NEW enabled, NEW quiet, NEW i \in DOMAIN text,
           NEW f, FixesToken(text, enabled, quiet, i, f),
           NEW g, FixesToken(text, enabled, quiet, i, g)
    PROVE  f = g
<1>1. ASSUME NEW h, DropsDirective(text, enabled, quiet, i, h) PROVE text[i].rule # Typo
  BY <1>1, LintAssumption DEF DropsDirective, IsOutdated, ShippedRules
<1>2. CASE FixesStatement(text, enabled, quiet, i, f)
  <2>1. FixesStatement(text, enabled, quiet, i, g)
    BY <1>2 DEF FixesToken, FixesStatement, FixesName, DropsDirective
  <2> QED
    BY <1>2, <2>1 DEF FixesStatement
<1>3. CASE FixesName(text, i, f)
  <2>1. FixesName(text, i, g)
    <3>1. text[i].t = "comment" /\ text[i].rule = Typo
      BY <1>3 DEF FixesName
    <3>2. ~FixesStatement(text, enabled, quiet, i, g)
      BY <3>1 DEF FixesStatement
    <3> QED
      BY <1>1, <3>1, <3>2 DEF FixesToken
  <2> QED
    BY <1>3, <2>1 DEF FixesName
<1>4. CASE DropsDirective(text, enabled, quiet, i, f)
  <2>1. DropsDirective(text, enabled, quiet, i, g)
    <3>1. text[i].t = "comment" /\ text[i].rule # Typo
      BY <1>1, <1>4 DEF DropsDirective
    <3>2. ~FixesStatement(text, enabled, quiet, i, g) /\ ~FixesName(text, i, g)
      BY <3>1 DEF FixesStatement, FixesName
    <3> QED
      BY <3>2 DEF FixesToken
  <2> QED
    BY <1>4, <2>1 DEF DropsDirective
<1> QED
  BY <1>2, <1>3, <1>4 DEF FixesToken
-----------------------------------------------------------------------------
(* Fixes of which no two start at one place.                                *)
Spread(text, F) ==
    /\ \A f \in F : IsFix(text, f) /\ f.start + 1 \in DOMAIN text
    /\ \A f, g \in F : f.start = g.start => f = g

LEMMA RunSpreads ==
    ASSUME NEW text \in Seq(Tokens), NEW enabled, NEW quiet, NEW unsafe
    PROVE  Spread(text, FixesOf(Run(text, enabled, quiet), unsafe))
<1> DEFINE F == FixesOf(Run(text, enabled, quiet), unsafe)
<1>1. \A f \in F : \E i \in DOMAIN text : FixesToken(text, enabled, quiet, i, f)
  BY FixesOfRun
<1> HIDE DEF F
<1>2. ASSUME NEW f \in F
      PROVE  \E i \in DOMAIN text : /\ FixesToken(text, enabled, quiet, i, f)
                                   /\ IsFix(text, f) /\ i = f.start + 1
  <2>1. PICK i \in DOMAIN text : FixesToken(text, enabled, quiet, i, f)
    BY <1>1
  <2>2. IsFix(text, f) /\ f.start = i - 1
    BY <2>1, TokenFixIsHarmless
  <2>3. i = f.start + 1
    BY <2>2
  <2> QED
    BY <2>1, <2>2, <2>3
<1>3. ASSUME NEW f \in F, NEW g \in F, f.start = g.start PROVE f = g
  <2>1. PICK i \in DOMAIN text : FixesToken(text, enabled, quiet, i, f) /\ i = f.start + 1
    BY <1>2
  <2>2. FixesToken(text, enabled, quiet, i, g)
    BY <1>2, <1>3, <2>1
  <2> QED
    BY <2>1, <2>2, OneFixPerToken
<1>4. \A f \in F : IsFix(text, f) /\ f.start + 1 \in DOMAIN text
  BY <1>2
<1>5. Spread(text, F)
  BY <1>3, <1>4 DEF Spread
<1> QED
  BY <1>5 DEF F

LEMMA SpreadIsFinite ==
    ASSUME NEW text \in Seq(Tokens), NEW F, Spread(text, F)
    PROVE  IsFiniteSet(F)
<1> DEFINE h == [f \in F |-> f.start + 1]
<1>1. h \in [F -> DOMAIN text]
  BY DEF Spread
<1>2. \A f, g \in F : h[f] = h[g] => f = g
  <2> SUFFICES ASSUME NEW f \in F, NEW g \in F, h[f] = h[g] PROVE f = g
    OBVIOUS
  <2>1. f.start + 1 = g.start + 1
    OBVIOUS
  <2>2. f.start \in Nat /\ g.start \in Nat
    BY DEF Spread, IsFix, AFix
  <2>3. f.start = g.start
    BY <2>1, <2>2
  <2> QED
    BY <2>3 DEF Spread
<1> HIDE DEF h
<1>3. h \in Injection(F, DOMAIN text)
  BY <1>1, <1>2 DEF Injection, IsInjective
<1>4. IsFiniteSet(DOMAIN text)
  <2>1. DOMAIN text = 1 .. Len(text) /\ Len(text) \in Nat
    OBVIOUS
  <2> QED
    BY <2>1, FS_Interval
<1> QED
  BY <1>3, <1>4, FS_Injection

(* The list of them.                                                        *)
ListOf(F) == Ascending(F, StartsBefore)

LEMMA ListOfSpread ==
    ASSUME NEW text \in Seq(Tokens), NEW F, Spread(text, F)
    PROVE  /\ Valid(ListOf(F))
           /\ F = {ListOf(F)[k] : k \in DOMAIN ListOf(F)}
           /\ \A k \in DOMAIN ListOf(F) : Harmless(text, ListOf(F)[k])
<1> DEFINE R == {p \in F \X F : StartsBefore(p[1], p[2])}
           list == Listed(F, R)
           n == Cardinality(F)
<1>1. IsFiniteSet(F)
  BY SpreadIsFinite
<1>2. \A f, g \in F : <<f, g>> \in R <=> StartsBefore(f, g)
  OBVIOUS
<1>3. \A f \in F : f.start \in Nat /\ f.end \in Nat /\ f \in AFix /\ f.start <= f.end
  BY DEF Spread, IsFix, AFix
<1>4. StrictOrder(F, R)
  <2>1. \A f \in F : ~StartsBefore(f, f)
    BY <1>3 DEF StartsBefore
  <2>2. \A f, g \in F : f = g \/ StartsBefore(f, g) \/ StartsBefore(g, f)
    BY <1>3 DEF StartsBefore, Spread
  <2>3. \A f, g, h \in F : StartsBefore(f, g) /\ StartsBefore(g, h) => StartsBefore(f, h)
    BY <1>3 DEF StartsBefore
  <2> HIDE DEF R
  <2> QED
    BY <1>2, <2>1, <2>2, <2>3 DEF StrictOrder
<1>5. /\ n \in Nat /\ list \in [1 .. n -> F]
      /\ \A x \in F : \E k \in 1 .. n : list[k] = x
  <2> HIDE DEF R
  <2> QED
    BY <1>1, <1>4, ListedInOrder
<1>6. ListOf(F) = list
  <2>1. \A x \in F : {y \in F : StartsBefore(y, x)} = {y \in F : <<y, x>> \in R}
    BY <1>2
  <2>2. \A x \in F : Cardinality({y \in F : StartsBefore(y, x)}) = Rank(F, R, x)
    BY <2>1 DEF Rank
  <2>3. \A k : (CHOOSE x \in F : Cardinality({y \in F : StartsBefore(y, x)}) = k - 1)
                 = (CHOOSE x \in F : Rank(F, R, x) = k - 1)
    <3> HIDE DEF R
    <3> QED
      BY <2>2
  <2>4. ListOf(F) = [k \in 1 .. n |->
           CHOOSE x \in F : Cardinality({y \in F : StartsBefore(y, x)}) = k - 1]
    BY DEF Ascending, ListOf
  <2> HIDE DEF R
  <2> QED
    BY <2>3, <2>4 DEF Listed
<1> HIDE DEF R, list, n
<1>7. DOMAIN list = 1 .. n /\ \A k \in 1 .. n : list[k] \in F
  BY <1>5
<1>8. list \in Seq(AFix)
  <2>1. list \in [1 .. n -> AFix]
    BY <1>3, <1>5, <1>7
  <2> QED
    BY <1>5, <2>1
<1>9. Valid(list)
  BY <1>3, <1>7, <1>8 DEF Valid
<1>10. F = {list[k] : k \in DOMAIN list}
  BY <1>5, <1>7
<1>11. \A k \in DOMAIN list : Harmless(text, list[k])
  BY <1>7 DEF Spread, IsFix
<1> QED
  BY <1>6, <1>9, <1>10, <1>11
-----------------------------------------------------------------------------
(* What suppresses a finding about a statement.                             *)
Hushed(text, j) ==
    /\ j \in DOMAIN text /\ text[j].t = "stmt" /\ text[j].rule \in CodeRules
    /\ Matches(text, text[j].rule, ElementAt(text, j)) # {}

Hushes(text, r, i, j) ==
    /\ i \in DOMAIN text /\ text[i].t = "comment"
    /\ text[i].kind = "all" \/ text[i].rule = r
    /\ text[i].kind = "node" => IsFor(text, i, j)

LEMMA MatchesAre ==
    ASSUME NEW text \in Seq(Tokens), NEW r, NEW j \in DOMAIN text, text[j].t = "stmt", NEW i
    PROVE  i \in Matches(text, r, ElementAt(text, j)) <=> Hushes(text, r, i, j)
<1>1. DOMAIN text = 1 .. Len(text) /\ Len(text) \in Nat
  OBVIOUS
<1>2. ElementAt(text, j) = [start |-> j - 1, end |-> j]
  BY DEF ElementAt
<1>3. ASSUME i \in DOMAIN text, text[i].t = "comment"
      PROVE  ~ContainsRange(ElementAt(text, i), ElementAt(text, j))
  <2>1. ElementAt(text, i) = [start |-> i - 1, end |-> i]
    BY <1>3 DEF ElementAt
  <2>2. i # j
    BY <1>3
  <2>3. ContainsRange(ElementAt(text, i), ElementAt(text, j)) <=> i - 1 <= j - 1 /\ j <= i
    BY <1>2, <2>1 DEF ContainsRange
  <2> QED
    BY <1>1, <1>3, <2>2, <2>3
<1>4. ASSUME i \in DOMAIN text, text[i].t = "comment"
      PROVE  text[i].kind \in {"all", "file", "node"}
  <2>1. text[i] \in Tokens
    BY <1>4
  <2> QED
    BY <1>4, <2>1, TokenTypes
<1>5. text[i].kind = "node" => Target(text, i) = NextMeaningfulSibling(text, i)
  BY DEF Target
<1>6. IsFor(text, i, j) <=> /\ NextMeaningfulSibling(text, i) # NoTarget
                            /\ ContainsRange(NextMeaningfulSibling(text, i), ElementAt(text, j))
  BY <1>2 DEF IsFor
<1>7. i \in Matches(text, r, ElementAt(text, j)) <=>
        /\ i \in DOMAIN text /\ text[i].t = "comment"
        /\ ~ContainsRange(ElementAt(text, i), ElementAt(text, j))
        /\ CASE text[i].kind = "all" -> TRUE
             [] text[i].kind = "file" -> text[i].rule = r
             [] text[i].kind = "node" -> /\ text[i].rule = r
                                         /\ Target(text, i) # NoTarget
                                         /\ ContainsRange(Target(text, i), ElementAt(text, j))
  BY DEF Matches, Directives
<1>8. CASE i \in DOMAIN text /\ text[i].t = "comment"
  <2>1. CASE text[i].kind = "all"
    BY <1>3, <1>7, <1>8, <2>1 DEF Hushes
  <2>2. CASE text[i].kind = "file"
    BY <1>3, <1>7, <1>8, <2>2 DEF Hushes
  <2>3. CASE text[i].kind = "node"
    BY <1>3, <1>5, <1>6, <1>7, <1>8, <2>3 DEF Hushes
  <2> QED
    BY <1>4, <1>8, <2>1, <2>2, <2>3
<1>9. CASE ~(i \in DOMAIN text /\ text[i].t = "comment")
  BY <1>7, <1>9 DEF Hushes
<1> QED
  BY <1>8, <1>9

(* Neither a statement whose finding is suppressed is fixed, nor what       *)
(* suppresses it.                                                           *)
LEMMA HushedIsLeft ==
    ASSUME NEW text \in Seq(Tokens), NEW enabled, NEW quiet, NEW unsafe, NEW j, Hushed(text, j),
           NEW d \in Matches(text, text[j].rule, ElementAt(text, j))
    PROVE  /\ ~Covered(FixesOf(Run(text, enabled, quiet), unsafe), j)
           /\ ~Covered(FixesOf(Run(text, enabled, quiet), unsafe), d)
<1> DEFINE F == FixesOf(Run(text, enabled, quiet), unsafe)
           r == text[j].rule
<1>1. \A f \in F : \E i \in DOMAIN text : FixesToken(text, enabled, quiet, i, f)
  BY FixesOfRun
<1>2. j \in DOMAIN text /\ text[j].t = "stmt" /\ r \in CodeRules
  BY DEF Hushed
<1>3. Hushes(text, r, d, j)
  BY <1>2, MatchesAre
<1>4. d \in DOMAIN text /\ text[d].t = "comment" /\ (text[d].kind = "all" \/ text[d].rule = r)
  BY <1>3 DEF Hushes
<1>5. IsSuppressed(text, StatementFinding(text, j))
  BY DEF IsSuppressed, StatementFinding, Finding
<1> HIDE DEF F, r
<1>6. ASSUME NEW f \in F, NEW x \in {j, d}, f.start < x, x <= f.end PROVE FALSE
  <2>1. PICK i \in DOMAIN text : FixesToken(text, enabled, quiet, i, f)
    BY <1>1
  <2>2. DOMAIN text = 1 .. Len(text) /\ Len(text) \in Nat /\ x \in DOMAIN text
    BY <1>2, <1>4
  <2>3. text[x].t # "newline"
    BY <1>2, <1>4
  <2>4. CASE FixesStatement(text, enabled, quiet, i, f)
    <3>1. f.start = i - 1 /\ f.end = i
      BY <2>4 DEF FixesStatement, Fix
    <3>2. x = i
      BY <1>6, <2>2, <3>1
    <3>3. x = j
      BY <1>4, <2>4, <3>2 DEF FixesStatement
    <3> QED
      BY <1>5, <2>4, <3>2, <3>3 DEF FixesStatement
  <2>5. CASE FixesName(text, i, f)
    <3>1. f.start = i - 1 /\ f.end = i
      BY <2>5 DEF FixesName, Fix
    <3>2. x = i
      BY <1>6, <2>2, <3>1
    <3>3. d = i /\ text[d].rule = Typo
      BY <1>2, <2>5, <3>2 DEF FixesName
    <3>4. text[d].rule = NoRule \/ text[d].rule = r
      <4>1. text[d] \in Tokens
        BY <1>4
      <4> QED
        BY <1>4, <4>1, TokenTypes
    <3> QED
      BY <1>2, <3>3, <3>4, LintAssumption DEF Rules
  <2>6. CASE DropsDirective(text, enabled, quiet, i, f)
    <3>1. /\ f.start = i - 1
          /\ \/ f.end = i
             \/ f.end = i + 1 /\ text[i + 1].t = "newline"
      <4>1. PICK e : e = DeletionSpan(text, i).end
        OBVIOUS
      <4>2. /\ DeletionSpan(text, i).start = i - 1
            /\ \/ e = i
               \/ e = i + 1 /\ text[i + 1].t = "newline"
        BY <4>1 DEF DeletionSpan
      <4>3. f = Fix(i - 1, e, <<>>, TRUE)
        BY <2>6, <4>1, <4>2 DEF DropsDirective
      <4> QED
        BY <4>2, <4>3 DEF Fix
    <3>2. x = i
      BY <1>6, <2>2, <2>3, <3>1
    <3>3. d = i
      BY <1>2, <2>6, <3>2 DEF DropsDirective
    <3>4. IsOutdated(text, enabled, quiet, Used(text, enabled, quiet), d)
      BY <2>6, <3>3 DEF DropsDirective
    <3>5. text[d].rule = r
      <4>1. text[d].rule \in Rules
        BY <3>4 DEF IsOutdated, ShippedRules
      <4>2. text[d] \in Tokens
        BY <1>4
      <4> QED
        BY <1>4, <4>1, <4>2, TokenTypes, LintAssumption
    <3>6. ~IsDangling(text, d)
      BY <1>3 DEF IsDangling, Hushes, Target, IsFor
    <3>7. d \notin Used(text, enabled, quiet) /\ r \in enabled /\ r \notin quiet
      BY <3>4, <3>5, <3>6 DEF IsOutdated
    <3>8. StatementFinding(text, j) \in Found(text, enabled, quiet)
      <4>1. StatementFinding(text, j) \in StatementFindings(text, quiet)
        BY <1>2, <3>7 DEF StatementFindings, StatementFinding, r
      <4>2. StatementFinding(text, j).rule = r
        BY DEF StatementFinding, Finding, r
      <4> QED
        BY <3>7, <4>1, <4>2 DEF Found
    <3>9. d \in Used(text, enabled, quiet)
      <4>1. /\ StatementFinding(text, j).rule = text[j].rule
            /\ StatementFinding(text, j).range = ElementAt(text, j)
        BY DEF StatementFinding, Finding
      <4> QED
        BY <3>8, <4>1 DEF Used
    <3> QED
      BY <3>7, <3>9
  <2> QED
    BY <2>1, <2>4, <2>5, <2>6 DEF FixesToken
<1> QED
  BY <1>6 DEF Covered, F
-----------------------------------------------------------------------------
(* What was suppressed stays, and stays suppressed.                         *)
StaysHushed(a, b, m) ==
    \A j \in DOMAIN b : Hushed(a, m[j]) => b[j] = a[m[j]] /\ Hushed(b, j)

LEMMA HushedThrough ==
    ASSUME NEW a, NEW b, NEW c, NEW m, NEW h, Tracks(a, b, m), Tracks(b, c, h),
           StaysHushed(a, b, m), StaysHushed(b, c, h)
    PROVE  StaysHushed(a, c, Through(m, h, c))
<1> SUFFICES ASSUME NEW j \in DOMAIN c, Hushed(a, Through(m, h, c)[j])
             PROVE  c[j] = a[Through(m, h, c)[j]] /\ Hushed(c, j)
  BY DEF StaysHushed
<1>1. Through(m, h, c)[j] = m[h[j]] /\ h[j] \in DOMAIN b
  BY DEF Through, Tracks
<1>2. b[h[j]] = a[m[h[j]]] /\ Hushed(b, h[j])
  BY <1>1 DEF StaysHushed
<1>3. c[j] = b[h[j]] /\ Hushed(c, j)
  BY <1>2 DEF StaysHushed
<1> QED
  BY <1>1, <1>2, <1>3

LEMMA PassHushes ==
    ASSUME NEW text, Parses(text), NEW enabled, NEW quiet, NEW unsafe,
           NEW b \in Seq(Tokens), NEW m, Keeps(text, b, m, FixesOf(Run(text, enabled, quiet), unsafe))
    PROVE  Parses(b) /\ Tracks(text, b, m) /\ StaysHushed(text, b, m)
<1> DEFINE F == FixesOf(Run(text, enabled, quiet), unsafe)
<1>1. Tracks(text, b, m) /\ Follows(text, b, m) /\ text \in Seq(Tokens)
  BY DEF Keeps, Follows, Parses
<1>2. Parses(b) /\ Alike(text, b, m)
  BY <1>1, ParsesTracks DEF Alike
<1>3. /\ m \in [DOMAIN b -> DOMAIN text]
      /\ \A x \in DOMAIN text : ~Covered(F, x) => \E y \in DOMAIN b : m[y] = x
      /\ \A y \in DOMAIN b : ~Covered(F, m[y]) => b[y] = text[m[y]]
  BY DEF Keeps, Tracks
<1> HIDE DEF F
<1>4. ASSUME NEW j \in DOMAIN b, Hushed(text, m[j]) PROVE b[j] = text[m[j]] /\ Hushed(b, j)
  <2>1. PICK i : i = m[j]
    OBVIOUS
  <2>2. /\ i \in DOMAIN text /\ text[i].t = "stmt" /\ text[i].rule \in CodeRules
        /\ Matches(text, text[i].rule, ElementAt(text, i)) # {}
    BY <1>4, <2>1 DEF Hushed
  <2>3. PICK d : d \in Matches(text, text[i].rule, ElementAt(text, i))
    BY <2>2
  <2>4. ~Covered(F, i) /\ ~Covered(F, d)
    BY <1>1, <1>4, <2>1, <2>3, HushedIsLeft DEF F
  <2>5. b[j] = text[i]
    BY <1>3, <2>1, <2>4
  <2>6. Hushes(text, text[i].rule, d, i)
    BY <1>1, <2>2, <2>3, MatchesAre
  <2>7. PICK e \in DOMAIN b : m[e] = d /\ b[e] = text[d]
    BY <1>3, <2>4, <2>6 DEF Hushes
  <2>8. IsFor(text, d, i) <=> IsFor(b, e, j)
    BY <1>2, <2>1, <2>7, IsForTracks
  <2>9. Hushes(b, b[j].rule, e, j)
    BY <2>5, <2>6, <2>7, <2>8 DEF Hushes
  <2>10. e \in Matches(b, b[j].rule, ElementAt(b, j))
    BY <2>2, <2>5, <2>9, MatchesAre
  <2> QED
    BY <2>1, <2>2, <2>5, <2>10 DEF Hushed
<1> QED
  BY <1>1, <1>2, <1>4 DEF StaysHushed
-----------------------------------------------------------------------------
(* Positions among the code tokens.                                         *)
LEMMA CodeIndexTracks ==
    ASSUME NEW a, NEW b, NEW m, Follows(a, b, m), NEW j \in DOMAIN b
    PROVE  CodeIndex(b, j) = CodeIndex(a, m[j])
<1> DEFINE S == {k \in 1 .. j : b[k].kind = "code"}
           T == {k \in 1 .. m[j] : a[k].kind = "code"}
           f == [k \in S |-> m[k]]
<1>1. /\ Len(a) \in Nat /\ Len(b) \in Nat
      /\ DOMAIN a = 1 .. Len(a) /\ DOMAIN b = 1 .. Len(b)
      /\ \A x \in DOMAIN b : x \in Nat /\ m[x] \in Nat /\ m[x] \in DOMAIN a
      /\ \A x \in DOMAIN b : b[x].t = a[m[x]].t
      /\ \A x, y \in DOMAIN b : x <= y <=> m[x] <= m[y]
      /\ \A x, y \in DOMAIN b : x = y <=> m[x] = m[y]
      /\ \A x \in DOMAIN a : ~IsTrivia(a[x]) => \E y \in DOMAIN b : m[y] = x
  BY TrackFacts
<1>a. /\ \A x \in DOMAIN a : a[x].kind = "code" <=> ~IsTrivia(a[x])
      /\ \A x \in DOMAIN b : b[x].kind = "code" <=> ~IsTrivia(b[x])
  <2>1. \A x \in DOMAIN a : a[x] \in Tokens
    BY DEF Follows
  <2>2. \A x \in DOMAIN b : b[x] \in Tokens
    BY DEF Follows
  <2> QED
    BY <2>1, <2>2, TokenTypes
<1>b. \A x \in DOMAIN b : IsTrivia(b[x]) <=> IsTrivia(a[m[x]])
  BY <1>1 DEF IsTrivia
<1>2. \A k : k \in S <=> k \in DOMAIN b /\ k <= j /\ ~IsTrivia(b[k])
  BY <1>1, <1>a
<1>3. \A k : k \in T <=> k \in DOMAIN a /\ k <= m[j] /\ ~IsTrivia(a[k])
  BY <1>1, <1>a
<1>4. IsFiniteSet(S)
  <2>1. IsFiniteSet(1 .. j)
    BY <1>1, FS_Interval
  <2> QED
    BY <2>1, FS_Subset
<1> HIDE DEF S, T
<1>5. \A k \in S : m[k] \in T
  BY <1>1, <1>2, <1>3, <1>b
<1>6. f \in [S -> T] /\ \A k \in S : f[k] = m[k]
  BY <1>5
<1> HIDE DEF f
<1>7. \A x, y \in S : f[x] = f[y] => x = y
  BY <1>1, <1>2, <1>6
<1>8. ASSUME NEW x \in T PROVE \E k \in S : f[k] = x
  <2>2. PICK k \in DOMAIN b : m[k] = x
    BY <1>1, <1>3
  <2>3. k \in S
    BY <1>1, <1>2, <1>3, <1>b, <2>2
  <2> QED
    BY <1>6, <2>2, <2>3
<1>9. f \in Bijection(S, T)
  BY <1>6, <1>7, <1>8 DEF Bijection, Injection, IsInjective, Surjection
<1>10. ExistsBijection(S, T)
  BY <1>9 DEF ExistsBijection
<1>11. Cardinality(T) = Cardinality(S)
  BY <1>4, <1>10, FS_Bijection
<1> QED
  BY <1>11 DEF CodeIndex, S, T

LEMMA CodeIndexGrows ==
    ASSUME NEW text \in Seq(Tokens), NEW i \in DOMAIN text, NEW j \in DOMAIN text,
           text[j].kind = "code", i < j
    PROVE  CodeIndex(text, i) < CodeIndex(text, j)
<1> DEFINE S == {k \in 1 .. i : text[k].kind = "code"}
           T == {k \in 1 .. j : text[k].kind = "code"}
<1>1. i \in Nat /\ j \in Nat /\ j >= 1
  OBVIOUS
<1>2. S \in SUBSET T /\ j \in T /\ j \notin S
  BY <1>1
<1>3. IsFiniteSet(T)
  <2>1. IsFiniteSet(1 .. j)
    BY <1>1, FS_Interval
  <2> QED
    BY <2>1, FS_Subset
<1> HIDE DEF S, T
<1>4. IsFiniteSet(S) /\ Cardinality(S) <= Cardinality(T) /\ (Cardinality(T) = Cardinality(S) => T = S)
  BY <1>2, <1>3, FS_Subset
<1>5. Cardinality(S) \in Nat /\ Cardinality(T) \in Nat
  BY <1>3, <1>4, FS_CardinalityType
<1>6. Cardinality(S) < Cardinality(T)
  BY <1>2, <1>4, <1>5
<1> QED
  BY <1>6 DEF CodeIndex, S, T

LEMMA SameCodeIndex ==
    ASSUME NEW text \in Seq(Tokens), NEW i \in DOMAIN text, NEW j \in DOMAIN text,
           text[i].kind = "code", text[j].kind = "code",
           CodeIndex(text, i) = CodeIndex(text, j)
    PROVE  i = j
<1>1. i \in Nat /\ j \in Nat
  OBVIOUS
<1>2. \A x \in DOMAIN text : CodeIndex(text, x) \in Nat
  <2> SUFFICES ASSUME NEW x \in DOMAIN text PROVE CodeIndex(text, x) \in Nat
    OBVIOUS
  <2>1. IsFiniteSet(1 .. x)
    BY FS_Interval
  <2>2. IsFiniteSet({k \in 1 .. x : text[k].kind = "code"})
    BY <2>1, FS_Subset
  <2> QED
    BY <2>2, FS_CardinalityType DEF CodeIndex
<1>3. ~(i < j)
  <2> SUFFICES ASSUME i < j PROVE FALSE
    OBVIOUS
  <2>1. CodeIndex(text, i) < CodeIndex(text, j)
    BY CodeIndexGrows
  <2> QED
    BY <1>2, <2>1
<1>4. ~(j < i)
  <2> SUFFICES ASSUME j < i PROVE FALSE
    OBVIOUS
  <2>1. CodeIndex(text, j) < CodeIndex(text, i)
    BY CodeIndexGrows
  <2> QED
    BY <1>2, <2>1
<1> QED
  BY <1>1, <1>3, <1>4

LEMMA VisibleAre ==
    ASSUME NEW text, NEW seen
    PROVE  seen \in Visible(text) <=>
             \E i \in DOMAIN text :
                /\ text[i].t = "stmt" /\ text[i].rule \in CodeRules /\ ~Hushed(text, i)
                /\ seen = <<CodeIndex(text, i), text[i].rule>>
<1>0. \A i : /\ StatementFinding(text, i).rule = text[i].rule
             /\ StatementFinding(text, i).range = ElementAt(text, i)
  BY DEF StatementFinding, Finding
<1>1. ASSUME NEW i \in DOMAIN text, text[i].t = "stmt", text[i].rule \in CodeRules
      PROVE  /\ StatementFinding(text, i).range.end = i
             /\ Hushed(text, i) <=> IsSuppressed(text, StatementFinding(text, i))
  <2>1. ElementAt(text, i).end = i
    BY <1>1 DEF ElementAt
  <2> QED
    BY <1>0, <1>1, <2>1 DEF Hushed, IsSuppressed
<1>2. ASSUME seen \in Visible(text)
      PROVE  \E i \in DOMAIN text :
                /\ text[i].t = "stmt" /\ text[i].rule \in CodeRules /\ ~Hushed(text, i)
                /\ seen = <<CodeIndex(text, i), text[i].rule>>
  <2>1. PICK f \in Run(text, Rules, {}) :
          f.rule \in CodeRules /\ seen = <<CodeIndex(text, f.range.end), f.rule>>
    BY <1>2 DEF Visible
  <2>2. f.rule \notin {Outdated, Misnamed, Blanket}
    BY <2>1, LintAssumption
  <2>a. \A r, range, fixes : Finding(r, range, fixes).rule = r
    BY DEF Finding
  <2>3. f \notin MisnamedFindings(text) /\ f \notin BlanketFindings(text)
    <3>1. ASSUME f \in MisnamedFindings(text) PROVE FALSE
      <4>1. PICK i : f = Finding(Misnamed, ElementAt(text, i),
                << Fix(i - 1, i, <<[text[i] EXCEPT !.rule = NearMatch]>>, TRUE) >>)
        BY <3>1 DEF MisnamedFindings
      <4>2. f.rule = Misnamed
        BY <2>a, <4>1
      <4> QED
        BY <2>2, <4>2
    <3>2. ASSUME f \in BlanketFindings(text) PROVE FALSE
      <4>1. PICK i : f = Finding(Blanket, ElementAt(text, i), NoFix)
        BY <3>2 DEF BlanketFindings
      <4>2. f.rule = Blanket
        BY <2>a, <4>1
      <4> QED
        BY <2>2, <4>2
    <3> QED
      BY <3>1, <3>2
  <2>4. f \notin OutdatedFindings(text, Rules, {}, Used(text, Rules, {}))
    <3> SUFFICES ASSUME f \in OutdatedFindings(text, Rules, {}, Used(text, Rules, {}))
                 PROVE  FALSE
      OBVIOUS
    <3>1. PICK i : f = Finding(Outdated, ElementAt(text, i),
              << Fix(DeletionSpan(text, i).start, DeletionSpan(text, i).end, <<>>, TRUE) >>)
      BY DEF OutdatedFindings
    <3>2. f.rule = Outdated
      BY <2>a, <3>1
    <3> QED
      BY <2>2, <3>2
  <2>5. f \in StatementFindings(text, {}) /\ ~IsSuppressed(text, f)
    BY <2>3, <2>4, RunIs DEF Found
  <2>6. PICK i \in DOMAIN text : /\ text[i].t = "stmt" /\ text[i].rule \in CodeRules
                                 /\ f = StatementFinding(text, i)
    BY <2>5 DEF StatementFindings, StatementFinding
  <2>7. f.range.end = i /\ f.rule = text[i].rule /\ ~Hushed(text, i)
    BY <1>0, <1>1, <2>5, <2>6
  <2> QED
    BY <2>1, <2>6, <2>7
<1>3. ASSUME NEW i \in DOMAIN text,
             text[i].t = "stmt", text[i].rule \in CodeRules, ~Hushed(text, i),
             seen = <<CodeIndex(text, i), text[i].rule>>
      PROVE  seen \in Visible(text)
  <2>1. PICK f : f = StatementFinding(text, i)
    OBVIOUS
  <2>2. f.rule = text[i].rule /\ f.range.end = i /\ ~IsSuppressed(text, f)
    BY <1>0, <1>1, <1>3, <2>1
  <2>3. f \in StatementFindings(text, {})
    BY <1>3, <2>1 DEF StatementFindings, StatementFinding
  <2>4. f.rule \in Rules
    BY <1>3, <2>2 DEF Rules
  <2>5. f \in Run(text, Rules, {})
    BY <2>2, <2>3, <2>4, RunIs DEF Found
  <2> QED
    BY <1>3, <2>2, <2>5 DEF Visible
<1> QED
  BY <1>2, <1>3
-----------------------------------------------------------------------------
(* What a file that is fixed keeps of the one on disk.                      *)
FileKept(a, b) ==
    /\ Parses(a) /\ Parses(b) /\ CodeLines(b) = CodeLines(a)
    /\ \E m : Tracks(a, b, m) /\ StaysHushed(a, b, m)

LEMMA FileKeptItself ==
    ASSUME NEW text, Parses(text)
    PROVE  FileKept(text, text)
<1>1. PICK h : Alike(text, text, h) /\ \A x \in DOMAIN text : h[x] = x
  BY AlikeItself
<1>2. Tracks(text, text, h) /\ StaysHushed(text, text, h)
  BY <1>1 DEF Alike, Follows, StaysHushed
<1> QED
  BY <1>2 DEF FileKept

LEMMA PassKeepsFile ==
    ASSUME NEW a, NEW b, FileKept(a, b), NEW enabled, NEW quiet, NEW unsafe
    PROVE  FileKept(a, ApplyFixes(b, ListOf(FixesOf(Run(b, enabled, quiet), unsafe))))
<1>1. PICK F : F = FixesOf(Run(b, enabled, quiet), unsafe)
  OBVIOUS
<1>2. PICK fixes : fixes = ListOf(F)
  OBVIOUS
<1>3. PICK c : c = ApplyFixes(b, fixes)
  OBVIOUS
<1>4. /\ Parses(a) /\ Parses(b) /\ b \in Seq(Tokens) /\ a \in Seq(Tokens)
      /\ CodeLines(b) = CodeLines(a)
  BY DEF FileKept, Parses
<1>5. Spread(b, F)
  BY <1>1, <1>4, RunSpreads
<1>6. /\ Valid(fixes) /\ F = {fixes[k] : k \in DOMAIN fixes}
      /\ \A k \in DOMAIN fixes : Harmless(b, fixes[k])
  BY <1>2, <1>4, <1>5, ListOfSpread
<1>7. /\ c \in Seq(Tokens) /\ CodeLines(c) = CodeLines(b)
      /\ \E h : Keeps(b, c, h, F)
  BY <1>3, <1>4, <1>6, PassKeeps
<1>8. PICK h : Keeps(b, c, h, F)
  BY <1>7
<1>9. Parses(c) /\ Tracks(b, c, h) /\ StaysHushed(b, c, h)
  BY <1>1, <1>4, <1>7, <1>8, PassHushes
<1>10. PICK m : Tracks(a, b, m) /\ StaysHushed(a, b, m)
  BY DEF FileKept
<1>11. DOMAIN a \subseteq Nat /\ DOMAIN b \subseteq Nat /\ DOMAIN c \subseteq Nat
  BY <1>4, <1>7
<1>12. Tracks(a, c, Through(m, h, c))
  BY <1>9, <1>10, <1>11, TracksThrough
<1>13. StaysHushed(a, c, Through(m, h, c))
  BY <1>9, <1>10, HushedThrough
<1>14. FileKept(a, c)
  BY <1>4, <1>7, <1>9, <1>12, <1>13 DEF FileKept
<1> QED
  BY <1>1, <1>2, <1>3, <1>14

LEMMA KeptShowsNoMore ==
    ASSUME NEW a, NEW b, FileKept(a, b), NEW seen \in Visible(b), Untouched(a, b, seen[1])
    PROVE  seen \in Visible(a)
<1>1. a \in Seq(Tokens) /\ b \in Seq(Tokens)
  BY DEF FileKept, Parses
<1>2. PICK m : Tracks(a, b, m) /\ StaysHushed(a, b, m)
  BY DEF FileKept
<1>3. Follows(a, b, m)
  BY <1>1, <1>2 DEF Follows
<1>4. PICK j \in DOMAIN b :
        /\ b[j].t = "stmt" /\ b[j].rule \in CodeRules /\ ~Hushed(b, j)
        /\ seen = <<CodeIndex(b, j), b[j].rule>>
  BY VisibleAre
<1>5. PICK i \in DOMAIN a, k \in DOMAIN b :
        /\ a[i].kind = "code" /\ CodeIndex(a, i) = seen[1]
        /\ b[k].kind = "code" /\ CodeIndex(b, k) = seen[1]
        /\ a[i] = b[k]
  BY DEF Untouched
<1>6. seen[1] = CodeIndex(b, j)
  BY <1>4
<1>7. b[j].kind = "code"
  <2>1. b[j] \in Tokens
    BY <1>1
  <2> QED
    BY <1>4, <2>1, TokenTypes DEF IsTrivia
<1>8. k = j
  BY <1>1, <1>5, <1>6, <1>7, SameCodeIndex
<1>9. m[j] \in DOMAIN a /\ a[m[j]].t = "stmt"
  BY <1>3, <1>4, TrackFacts
<1>10. a[m[j]].kind = "code"
  <2>1. a[m[j]] \in Tokens
    BY <1>1, <1>9
  <2> QED
    BY <1>9, <2>1, TokenTypes DEF IsTrivia
<1>11. CodeIndex(a, m[j]) = seen[1]
  BY <1>3, <1>6, CodeIndexTracks
<1>12. i = m[j]
  BY <1>1, <1>5, <1>9, <1>10, <1>11, SameCodeIndex
<1>13. a[m[j]] = b[j]
  BY <1>5, <1>8, <1>12
<1>14. ~Hushed(a, m[j])
  BY <1>2, <1>4 DEF StaysHushed
<1>15. seen = <<CodeIndex(a, m[j]), a[m[j]].rule>>
  BY <1>4, <1>6, <1>11, <1>13
<1> QED
  BY <1>4, <1>9, <1>13, <1>14, <1>15, VisibleAre
-----------------------------------------------------------------------------
(* The inductive invariant: a file that is fixed, or fixes offered by       *)
(* themselves.                                                              *)
FixInv ==
    \/ /\ offered = <<>>
       /\ FileKept(source, current)
    \/ /\ offered \in LooseFixes /\ remaining.ended
       /\ current = source

LEMMA FixInvInit == LintInit => FixInv
<1> SUFFICES ASSUME LintInit PROVE FixInv
  OBVIOUS
<1>1. CASE source \in FirstFiles /\ offered = <<>>
  <2>1. FileKept(source, source)
    BY <1>1, FilesAssumption, FileKeptItself
  <2> QED
    BY <1>1, <2>1 DEF FixInv, LintInit
<1>2. CASE offered \in LooseFixes /\ remaining = [NotDone EXCEPT !.ended = TRUE]
  <2>1. remaining.ended
    BY <1>2 DEF NotDone
  <2> QED
    BY <1>2, <2>1 DEF FixInv, LintInit
<1> QED
  BY <1>1, <1>2 DEF LintInit

LEMMA FixInvNext == FixInv /\ [LintNext]_lintVars => FixInv'
<1> SUFFICES ASSUME FixInv, [LintNext]_lintVars PROVE FixInv'
  OBVIOUS
<1>1. CASE FixPass
  <2>1. /\ ~remaining.ended /\ source' = source /\ offered' = offered
        /\ current' = ApplyFixes(current, Applicable(current))
    BY <1>1 DEF FixPass
  <2>2. offered = <<>> /\ FileKept(source, current)
    BY <2>1 DEF FixInv
  <2>3. Applicable(current)
          = ListOf(FixesOf(Run(current, settings.enabled, settings.quiet), settings.unsafe))
    BY DEF Applicable, ListOf
  <2>4. FileKept(source, ApplyFixes(current, Applicable(current)))
    BY <2>2, <2>3, PassKeepsFile
  <2> QED
    BY <2>1, <2>2, <2>4 DEF FixInv
<1>2. CASE ReportRemaining
  <2>1. remaining'.ended /\ UNCHANGED <<source, current, offered>>
    BY <1>2 DEF ReportRemaining, Outcome
  <2> QED
    BY <2>1 DEF FixInv
<1>3. CASE UNCHANGED lintVars
  BY <1>3 DEF FixInv, lintVars
<1> QED
  BY <1>1, <1>2, <1>3 DEF LintNext

LEMMA FixInvAtOnce == FixInv => AppliedAtOnce
<1> SUFFICES ASSUME FixInv, offered # <<>> PROVE AppliedAtOnce
  BY DEF AppliedAtOnce
<1>1. /\ LooseText \in Seq(Tokens) /\ offered \in Seq(AFix)
      /\ \A i \in DOMAIN offered :
           offered[i].start <= offered[i].end /\ offered[i].end <= Len(LooseText)
  BY FixesAssumption DEF FixInv, AFix
<1>2. Valid(offered)
  BY <1>1 DEF Valid
<1> DEFINE accepted == AcceptedFixes(offered)
<1>3. /\ Valid(accepted)
      /\ \A k \in DOMAIN accepted : \E i \in DOMAIN offered : accepted[k] = offered[i]
      /\ \A j, k \in DOMAIN accepted : j < k => accepted[j].end <= accepted[k].start
      /\ \A i \in DOMAIN offered :
           \E k \in DOMAIN accepted :
             \/ accepted[k] = offered[i]
             \/ offered[i].start < accepted[k].end /\ accepted[k].start <= offered[i].start
  BY <1>2, Accepted
<1>4. Disjoint(LooseText, accepted)
  <2> HIDE DEF accepted
  <2> QED
    BY <1>1, <1>3 DEF Disjoint
<1>5. ApplyFixes(LooseText, offered) =
        FoldLeft(Joined, Between(LooseText, accepted, 0),
                 [k \in DOMAIN accepted |-> accepted[k].content \o Between(LooseText, accepted, k)])
  BY <1>1, <1>4, OneByOneIsAtOnce
<1>6. \A k \in 0 .. Len(accepted) : After(accepted, k) <= UpTo(LooseText, accepted, k)
  BY <1>1, <1>4, GapsFit
<1> QED
  BY <1>3, <1>5, <1>6 DEF AppliedAtOnce, After, UpTo, Between

(* Linting with `--fix` is safe: after any number of passes of fix_with a   *)
(* statement that was not rewritten shows no finding that a directive hid   *)
(* before, and every statement is on its line; and apply_fixes, which       *)
(* replaces from the right, gives what replacing at once would.             *)
THEOREM FixingIsSafe == LintSpec => []FixesAreSafe
<1>1. FixInv => SuppressionsSurvive
  <2> SUFFICES ASSUME FixInv, NEW seen \in Visible(current),
                      Untouched(source, current, seen[1])
               PROVE  seen \in Visible(source)
    BY DEF SuppressionsSurvive
  <2> QED
    BY KeptShowsNoMore DEF FixInv
<1>2. FixInv => LinesKept
  BY DEF FixInv, LinesKept, FileKept
<1>3. FixInv => FixesAreSafe
  BY <1>1, <1>2, FixInvAtOnce DEF FixesAreSafe
<1> QED
  BY <1>3, FixInvInit, FixInvNext, PTL DEF LintSpec
================================================================================
