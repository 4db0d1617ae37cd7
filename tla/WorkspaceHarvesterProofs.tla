----------------------- MODULE WorkspaceHarvesterProofs -----------------------
(***************************************************************************)
(* What the harvester remembers, what the lints rest on, what text is      *)
(* tracked of a project file, what library the database ends up with and   *)
(* what findings the client is left looking at, for any number of folders, *)
(* packages and steps of the client.  Types is the invariant they all rest *)
(* on.                                                                     *)
(***************************************************************************)
EXTENDS WorkspaceHarvester, FiniteSetTheorems, SequenceTheorems, TLAPS

-----------------------------------------------------------------------------
(* Types of what the proofs are about.                                      *)

ProjectFiles == {ProjectOf(p) : p \in Projects}
Partial(A, B) == UNION {[S -> B] : S \in SUBSET A}

Index == Partial(Sources, {ApiOf[c] : c \in Contents \cup {Absent}})
Packages == Partial(Names, Index)
Tags == {"toml-syntax", "missing-entry-file", "stale-manifest"}
Dev == [project : Projects, name : Names]
Env == [fault : {None}, project : Projects, name : Names \cup {None},
        pins : (SUBSET Names) \cup {None}]

SetText == [kind : {"SetText"}, file : ProjectFiles, text : ProjectTexts \cup {Broken}]
Revert == [kind : {"Revert"}, file : ProjectFiles, text : {None}]
Renamed == [kind : {"RenamedProjects"}, old : Sources, open : SUBSET Projects]
SyncMessage == SetText \cup Revert \cup Renamed

Full == [kind : {"Full"}, packages : Packages, project_files : Partial(Names, Projects)]
Package == [kind : {"Package"}, name : Names, index : Index]
LibraryMessage == Full \cup Package

Place == {"locate", "read", "check", "publish", "list", "claim", "harvest",
          "wait", "reharvest"}
HarvesterRecord ==
    [at : Place, roots : Seq(Seq(Projects)), located : Projects \cup {None},
     env : Env \cup {None}, envs : Seq(Env),
     findings : Partial(EnvFiles, SUBSET Tags), devs : Seq(Dev),
     todo : Seq(Dev), library : Packages, last : Packages, dev : Dev \cup {None}]

(* What the harvester's locals are for is there where they are used.        *)
HarvesterOK(h) ==
    /\ h \in HarvesterRecord
    /\ h.at \in {"locate", "read", "check"} => h.roots # <<>>
    /\ h.at = "read" => h.located \in Projects
    /\ h.at = "check" => h.env \in Env
    /\ h.at = "reharvest" => h.dev \in Dev
    /\ IsFiniteSet(DOMAIN h.library)

(* A file whose changes nobody reports changes only under its buffer.       *)
Reported == budget.watched \/ (budget.writes = 0 /\ budget.renames = 0)

ClientOK ==
    /\ DOMAIN disk = EnvFiles \cup Sources
    /\ \A f \in EnvFiles \cup Sources : disk[f] \in Holds(f) \cup {Absent}
    /\ budget \in Budget
    /\ unreported \in SUBSET (EnvFiles \cup Sources)
DocumentsOK ==
    /\ documents \in [EnvFiles -> Texts \cup {None}]
    /\ \A f \in EnvFiles : documents[f] \in Holds(f) \cup {None}
DatabaseOK ==
    /\ tracked \in [Projects -> ProjectTexts \cup {Broken, None}]
    /\ project_files \in Partial(Names, Projects)
    /\ \A n \in DOMAIN project_files : tracked[project_files[n]] # None
    /\ packages \in Packages
    /\ workspaces \in SUBSET Names
Types ==
    /\ ClientOK /\ DocumentsOK /\ DatabaseOK
    /\ sync_rx \in Seq(SyncMessage)
    /\ library_rx \in Seq(LibraryMessage)
    /\ HarvesterOK(harvester)

(* What a message does to the text tracked of a project file.               *)
Sets(m, p) == m.kind = "SetText" /\ m.file = ProjectOf(p)
Undoes(m, p) == m.kind = "Revert" /\ m.file = ProjectOf(p)
Resyncs(m, p) == Undoes(m, p) \/ (m.kind = "RenamedProjects" /\ p \notin m.open)
-----------------------------------------------------------------------------
(* Facts about the helper operators.                                        *)

LEMMA PartialPut ==
    ASSUME NEW A, NEW B, NEW f \in Partial(A, B), NEW a \in A, NEW b \in B
    PROVE  Put(f, a, b) \in Partial(A, B)
<1>1. PICK S \in SUBSET A : f \in [S -> B]
  BY DEF Partial
<1>2. S \cup {a} \in SUBSET A /\ Put(f, a, b) \in [S \cup {a} -> B]
  BY <1>1 DEF Put
<1> QED
  BY <1>2 DEF Partial

LEMMA PartialEmpty ==
    ASSUME NEW A, NEW B
    PROVE  Empty \in Partial(A, B)
BY DEF Partial, Empty

LEMMA PartialDomain ==
    ASSUME NEW A, NEW B, NEW f \in Partial(A, B)
    PROVE  /\ DOMAIN f \in SUBSET A
           /\ f = [a \in DOMAIN f |-> f[a]]
           /\ \A a \in DOMAIN f : f[a] \in B
BY DEF Partial

LEMMA SetToSeqLists ==
    ASSUME NEW S, IsFiniteSet(S)
    PROVE  /\ SetToSeq(S) \in Seq(S)
           /\ \A x \in S : \E i \in DOMAIN SetToSeq(S) : SetToSeq(S)[i] = x
<1> DEFINE n == Cardinality(S)
           order == SetToSeq(S)
<1>1. n \in Nat /\ ExistsBijection(1..n, S)
  BY FS_CardinalityType
<1>2. \E f \in [1..n -> S] : IsInjective(f)
  BY <1>1 DEF ExistsBijection, Bijection, Injection, IsInjective
<1>3. order \in [1..n -> S] /\ IsInjective(order)
  BY <1>2 DEF SetToSeq
<1>4. order \in Seq(S)
  <2> HIDE DEF n, order
  <2> QED
    BY <1>1, <1>3
<1>5. order \in Injection(1..n, S)
  BY <1>3 DEF Injection, IsInjective
<1>6. IsFiniteSet(1..n) /\ Cardinality(1..n) = n
  <2> HIDE DEF n
  <2> QED
    BY <1>1, FS_Interval
<1>7. order \in Surjection(1..n, S)
  <2>1. S \in SUBSET S
    OBVIOUS
  <2> HIDE DEF order
  <2> QED
    BY <1>5, <1>6, FS_Injection
<1> HIDE DEF n, order
<1>8. \A x \in S : \E i \in DOMAIN order : order[i] = x
  BY <1>7 DEF Surjection
<1> QED
  BY <1>4, <1>8 DEF order

LEMMA ProjectFile ==
    ASSUME NEW p \in Projects
    PROVE  /\ ProjectOf(p) \in EnvFiles /\ ProjectOf(p) \in ProjectFiles
           /\ ManifestOf(p) \in EnvFiles
           /\ ProjectOf(p)[1] = p /\ IsProject(ProjectOf(p))
           /\ Holds(ProjectOf(p)) = ProjectTexts \cup {Broken}
           /\ Holds(ManifestOf(p)) = Manifests \cup {Broken}
<1>1. ProjectOf(p) \in EnvFiles /\ ManifestOf(p) \in EnvFiles
  BY DEF EnvFiles, ProjectOf, ManifestOf
<1>2. ProjectOf(p) \notin Sources /\ ManifestOf(p) \notin Sources
  BY <1>1, FilesAssumption
<1> QED
  BY <1>1, <1>2 DEF ProjectFiles, ProjectOf, ManifestOf, IsProject, Holds

LEMMA ProjectFilesAre ==
    ASSUME NEW f \in EnvFiles, IsProject(f)
    PROVE  f = ProjectOf(f[1]) /\ f[1] \in Projects
BY DEF EnvFiles, IsProject, ProjectOf

LEMMA LongerTail ==
    ASSUME NEW S, NEW q \in Seq(S), q # <<>>
    PROVE  Tail(q) \in Seq(S) /\ (Len(q) > 1 => Tail(q) # <<>>)
<1> DEFINE rest == Tail(q)
           m == Len(q)
           n == Len(rest)
<1>1. rest \in Seq(S) /\ n = m - 1 /\ m \in Nat
  OBVIOUS
<1> HIDE DEF m, n
<1>2. m > 1 => n # 0
  BY <1>1
<1>3. n = 0 <=> rest = <<>>
  <2> HIDE DEF rest
  <2> QED
    BY <1>1, EmptySeq DEF n
<1> QED
  BY <1>1, <1>2, <1>3 DEF m

LEMMA AppendTwo ==
    ASSUME NEW S, NEW q \in Seq(S), NEW a \in S, NEW b \in S
    PROVE  q \o <<a, b>> = Append(q, a) \o <<b>>
<1> DEFINE one == <<a>>
           other == <<b>>
<1>1. one \in Seq(S) /\ other \in Seq(S)
  OBVIOUS
<1>2. <<a, b>> = one \o other
  <2>1. one \o other = Append(one, b)
    BY <1>1, AppendIsConcat
  <2>2. Append(one, b) = <<a, b>>
    <3> DEFINE pair == <<a, b>>
               made == Append(one, b)
    <3>1. /\ pair \in Seq(S) /\ Len(pair) = 2 /\ pair[1] = a /\ pair[2] = b
          /\ made \in Seq(S) /\ Len(made) = 2 /\ made[1] = a /\ made[2] = b
      BY <1>1
    <3> HIDE DEF pair, made
    <3>2. \A i \in 1..Len(pair) : pair[i] = made[i]
      BY <3>1
    <3>3. pair = made
      BY <3>1, <3>2, SeqEqual
    <3> QED
      BY <3>3 DEF pair, made
  <2> QED
    BY <2>1, <2>2
<1>3. Append(q, a) = q \o one
  BY AppendIsConcat
<1> HIDE DEF one, other
<1>4. q \o (one \o other) = (q \o one) \o other
  BY <1>1, ConcatAssociative
<1> QED
  BY <1>2, <1>3, <1>4 DEF other

LEMMA LeastExists ==
    ASSUME NEW S \in SUBSET Nat, S # {}
    PROVE  \E x \in S : \A y \in S : x =< y
<1> DEFINE less == OpToRel(<, Nat)
<1>1. IsWellFoundedOn(less, Nat)
  BY NatLessThanWellFounded
<1>2. \A i, j \in Nat : <<i, j>> \in less <=> i < j
  BY DEF OpToRel
<1> HIDE DEF less
<1>3. PICK x \in S : \A y \in S : ~ (<<y, x>> \in less)
  BY <1>1, WFMin
<1>4. ASSUME NEW y \in S PROVE x =< y
  <2>1. x \in Nat /\ y \in Nat
    OBVIOUS
  <2>2. ~ (y < x)
    BY <1>2, <1>3, <2>1
  <2> QED
    BY <2>1, <2>2
<1> QED
  BY <1>4

-----------------------------------------------------------------------------
(* What the harvester reads.                                                *)

LEMMA LocatedTyped ==
    ASSUME NEW dirs \in Seq(Projects)
    PROVE  Located(dirs) \in Projects \cup {None}
<1> DEFINE found == {i \in DOMAIN dirs : disk[ProjectOf(dirs[i])] # Absent}
<1>1. CASE found = {}
  BY <1>1 DEF Located
<1>2. CASE found # {}
  <2>1. found \in SUBSET Nat /\ \A i \in found : dirs[i] \in Projects
    OBVIOUS
  <2>2. Located(dirs) = dirs[Min(found)]
    BY <1>2 DEF Located
  <2> HIDE DEF found
  <2>3. Min(found) \in found
    BY <1>2, <2>1, LeastExists DEF Min
  <2> QED
    BY <2>1, <2>2, <2>3
<1> QED
  BY <1>1, <1>2

LEMMA ResolvedTyped ==
    ASSUME ClientOK, NEW p \in Projects
    PROVE  /\ Resolved(p).fault = None => Resolved(p) \in Env
           /\ Resolved(p).fault # None => Resolved(p).fault \in EnvFiles
<1> DEFINE text == disk[ProjectOf(p)]
           manifest == disk[ManifestOf(p)]
<1>1. /\ text \in ProjectTexts \cup {Broken, Absent}
      /\ manifest \in Manifests \cup {Broken, Absent}
      /\ ProjectOf(p) \in EnvFiles /\ ManifestOf(p) \in EnvFiles
  BY ProjectFile DEF ClientOK
<1>2. ProjectOf(p) # None /\ ManifestOf(p) # None
  BY <1>1, FilesAssumption
<1> HIDE DEF text, manifest
<1>3. CASE ~Parses(text)
  BY <1>1, <1>2, <1>3 DEF Resolved, text
<1>4. CASE Parses(text) /\ manifest = Broken
  BY <1>1, <1>2, <1>4 DEF Resolved, text, manifest
<1>5. CASE Parses(text) /\ manifest # Broken
  <2> DEFINE pins == IF manifest = Absent THEN None ELSE manifest.pins
  <2>1. text \in ProjectTexts
    BY <1>1, <1>5 DEF Parses
  <2>2. text.name \in Names \cup {None}
    BY <2>1, ContentsAssumption
  <2>3. pins \in (SUBSET Names) \cup {None}
    <3>1. CASE manifest = Absent
      BY <3>1
    <3>2. CASE manifest # Absent
      <4>1. manifest \in Manifests
        BY <1>1, <1>5, <3>2
      <4> QED
        BY <3>2, <4>1, ContentsAssumption
    <3> QED
      BY <3>1, <3>2
  <2>4. Resolved(p) = [fault |-> None, project |-> p, name |-> text.name, pins |-> pins]
    BY <1>5 DEF Resolved, text, manifest
  <2> HIDE DEF pins
  <2> QED
    BY <2>2, <2>3, <2>4 DEF Env
<1> QED
  BY <1>3, <1>4, <1>5

LEMMA FindingsTyped ==
    ASSUME NEW env, NEW text
    PROVE  SemanticFindings(env, text) \in SUBSET Tags /\ SyntaxFindings(text) \in SUBSET Tags
BY DEF SemanticFindings, SyntaxFindings, Tags

LEMMA EntryTyped ==
    ASSUME NEW p \in Projects, NEW n \in Names
    PROVE  EntryOf[p][n] \in Sources /\ ReadBy[p] \in SUBSET Sources
BY PlacesAssumption

LEMMA SourcesHold ==
    ASSUME ClientOK, NEW s \in Sources
    PROVE  disk[s] \in Contents \cup {Absent}
BY DEF ClientOK, Holds

LEMMA HarvestTyped ==
    ASSUME ClientOK, NEW dev \in Dev
    PROVE  HarvestWorkspace(dev) \in Index
<1> DEFINE entry == EntryOf[dev.project][dev.name]
           files == {entry} \cup ReadBy[dev.project]
           apis == {ApiOf[c] : c \in Contents \cup {Absent}}
<1>1. files \in SUBSET Sources
  BY EntryTyped DEF Dev
<1>2. \A s \in files : ApiOf[disk[s]] \in apis
  BY <1>1, SourcesHold
<1> HIDE DEF files, apis
<1>3. [s \in files |-> ApiOf[disk[s]]] \in Partial(Sources, apis)
  BY <1>1, <1>2 DEF Partial
<1>4. Empty \in Partial(Sources, apis)
  BY PartialEmpty
<1> QED
  BY <1>3, <1>4 DEF HarvestWorkspace, Index, files, apis

(* One environment of the list DevPackages goes through.                    *)
AddDev(devs, env) ==
    IF IsPackage(env) /\ \A i \in DOMAIN devs : devs[i].name # env.name
    THEN Append(devs, [project |-> env.project, name |-> env.name])
    ELSE devs

Listed == INSTANCE FoldInduction WITH Op <- AddDev

LEMMA DevPackagesTyped ==
    ASSUME NEW envs \in Seq(Env)
    PROVE  DevPackages(envs) \in Seq(Dev)
<1>1. ASSUME NEW devs \in Seq(Dev), NEW env \in Env
      PROVE  AddDev(devs, env) \in Seq(Dev)
  <2>1. CASE IsPackage(env)
    <3>1. [project |-> env.project, name |-> env.name] \in Dev
      BY <2>1 DEF IsPackage, Env, Dev
    <3> QED
      BY <3>1 DEF AddDev
  <2>2. CASE ~IsPackage(env)
    BY <2>2 DEF AddDev
  <2> QED
    BY <2>1, <2>2
<1>2. <<>> \in Seq(Dev)
  OBVIOUS
<1>3. Listed!FoldLeft(AddDev, <<>>, envs) \in Seq(Dev)
  BY <1>1, <1>2, Listed!FoldStays
<1>4. DevPackages(envs) = Listed!FoldLeft(AddDev, <<>>, envs)
  BY DEF DevPackages, AddDev, FoldLeft, MapThenFoldSet, Max,
         Listed!FoldLeft, Listed!MapThenFoldSet, Listed!Max
<1> QED
  BY <1>3, <1>4

(* The package with the deepest project directory, among those a test       *)
(* holds of.                                                                *)
LEMMA DeepestExists ==
    ASSUME NEW devs \in Seq(Dev), NEW owners, owners \subseteq ToSet(devs), owners # {}
    PROVE  \E dev \in owners : \A d \in owners : Depth[d.project] <= Depth[dev.project]
<1> DEFINE Within(n) == {i \in 1..n : devs[i] \in owners}
           Deep(i) == Depth[devs[i].project]
           S == {n \in Nat : n <= Len(devs) /\ Within(n) # {} =>
                   \E i \in Within(n) : \A j \in Within(n) : Deep(j) <= Deep(i)}
<1>1. \A i \in 1..Len(devs) : Deep(i) \in Nat
  <2>1. \A i \in 1..Len(devs) : devs[i] \in Dev
    OBVIOUS
  <2>2. \A i \in 1..Len(devs) : devs[i].project \in Projects
    BY <2>1 DEF Dev
  <2> QED
    BY <2>2, PlacesAssumption
<1> HIDE DEF Deep
<1>2. 0 \in S
  OBVIOUS
<1>3. ASSUME NEW n \in Nat, n \in S PROVE n + 1 \in S
  <2> SUFFICES ASSUME n + 1 <= Len(devs), Within(n + 1) # {}
               PROVE  \E i \in Within(n + 1) : \A j \in Within(n + 1) : Deep(j) <= Deep(i)
    OBVIOUS
  <2>1. Within(n + 1) = Within(n) \cup (IF devs[n+1] \in owners THEN {n + 1} ELSE {})
    OBVIOUS
  <2>2. \A i \in Within(n + 1) : Deep(i) \in Nat
    BY <1>1
  <2>3. CASE Within(n) = {}
    <3>1. Within(n + 1) = {n + 1}
      BY <2>1, <2>3
    <3> HIDE DEF Within
    <3> QED
      BY <2>2, <3>1
  <2>4. CASE Within(n) # {}
    <3>1. PICK i \in Within(n) : \A j \in Within(n) : Deep(j) <= Deep(i)
      BY <1>3, <2>4
    <3> HIDE DEF Within
    <3> QED
      BY <2>1, <2>2, <3>1
  <2> QED
    BY <2>3, <2>4
<1> DEFINE all == Len(devs)
<1>4. all \in S
  <2>1. \A n \in Nat : n \in S => n + 1 \in S
    BY <1>3
  <2>2. all \in Nat
    OBVIOUS
  <2> HIDE DEF S, all
  <2>3. Nat \subseteq S
    BY <1>2, <2>1, Listed!NatInductionOnSets
  <2> QED
    BY <2>2, <2>3
<1>5. \A dev \in owners : \E i \in Within(all) : devs[i] = dev
  BY DEF ToSet
<1>6. Within(all) # {} /\ \A i \in Within(all) : devs[i] \in owners
  BY <1>5
<1>7. PICK i \in Within(all) : \A j \in Within(all) : Deep(j) <= Deep(i)
  BY <1>4, <1>6
<1> HIDE DEF Within
<1> QED
  BY <1>5, <1>6, <1>7 DEF Deep

LEMMA OwnerTyped ==
    ASSUME harvester.devs \in Seq(Dev), NEW s
    PROVE  OwnerOf(s) \in Dev \cup {None}
<1> DEFINE owners == {dev \in ToSet(harvester.devs) : dev.project \in UnderSrc[s]}
<1>1. owners \subseteq ToSet(harvester.devs) /\ owners \subseteq Dev
  BY DEF ToSet
<1>2. CASE owners = {}
  BY <1>2 DEF OwnerOf
<1>3. CASE owners # {}
  <2>1. OwnerOf(s) = CHOOSE dev \in owners :
                       \A d \in owners : Depth[d.project] <= Depth[dev.project]
    BY <1>3 DEF OwnerOf
  <2> HIDE DEF owners
  <2>2. \E dev \in owners : \A d \in owners : Depth[d.project] <= Depth[dev.project]
    BY <1>1, <1>3, DeepestExists
  <2> QED
    BY <1>1, <2>1, <2>2
<1> QED
  BY <1>2, <1>3

-----------------------------------------------------------------------------
(* Every step keeps the types.                                              *)

Counters == {"opens", "edits", "closes", "saves", "sources", "writes", "renames"}

LEMMA SpendTyped ==
    ASSUME budget \in Budget, NEW what \in Counters, Spend(what)
    PROVE  /\ budget' \in Budget
           /\ Reported => Reported'
           /\ budget'.watched = budget.watched
<1>1. budget[what] \in Nat /\ budget[what] > 0
  BY DEF Budget, Counters, Spend
<1>2. budget' = [budget EXCEPT ![what] = budget[what] - 1]
  BY DEF Spend
<1>3. budget[what] - 1 \in Nat
  BY <1>1
<1> DEFINE left == budget[what] - 1
<1>4. budget' = [budget EXCEPT ![what] = left] /\ left \in Nat
  BY <1>2, <1>3
<1>5. what # "watched"
  BY DEF Counters
<1>6. budget'.watched = budget.watched
  BY <1>4, <1>5 DEF Budget
<1>7. budget' \in Budget
  <2> HIDE DEF left
  <2> QED
    BY <1>4, <1>5 DEF Budget, Counters
<1>8. \A w \in {"writes", "renames"} : budget[w] = 0 => budget'[w] = 0
  <2> HIDE DEF left
  <2> QED
    BY <1>1, <1>4 DEF Budget
<1> QED
  BY <1>6, <1>7, <1>8 DEF Reported

LEMMA OnDiskTyped ==
    ASSUME ClientOK, NEW change, NEW reason,
           DOMAIN change \subseteq EnvFiles \cup Sources,
           \A f \in DOMAIN change : change[f] \in Holds(f) \cup {Absent},
           OnDisk(change, reason), budget' \in Budget
    PROVE  ClientOK'
<1>1. \A f \in EnvFiles \cup Sources : disk'[f] \in Holds(f) \cup {Absent}
  BY DEF ClientOK, OnDisk
<1>2. DOMAIN disk' = EnvFiles \cup Sources
  BY DEF ClientOK, OnDisk
<1>3. unreported' \in SUBSET (EnvFiles \cup Sources)
  BY DEF ClientOK, OnDisk
<1> QED
  BY <1>1, <1>2, <1>3 DEF ClientOK, Holds

LEMMA RevertsTyped ==
    ASSUME NEW files
    PROVE  /\ Reverts(files) \in Seq(Revert)
           /\ \A i \in DOMAIN Reverts(files) : Reverts(files)[i].file \in files
           /\ \A f \in files \cap EnvFiles : IsProject(f) =>
                \E i \in DOMAIN Reverts(files) :
                  Reverts(files)[i] = [kind |-> "Revert", file |-> f, text |-> None]
<1> DEFINE Undo(f) == [kind |-> "Revert", file |-> f, text |-> None]
           undone == {f \in files \cap EnvFiles : IsProject(f)}
           all == {Undo(f) : f \in undone}
           undo == [p \in Projects |-> Undo(ProjectOf(p))]
<1>1. \A f \in undone : f[1] \in Projects /\ f = ProjectOf(f[1])
  BY ProjectFilesAre
<1>2. all \subseteq Revert
  <2>1. \A f \in undone : f \in ProjectFiles
    BY <1>1 DEF ProjectFiles
  <2> QED
    BY <2>1 DEF Revert
<1>3. IsFiniteSet(all)
  <2> DEFINE some == {undo[p] : p \in Projects}
  <2>1. all \subseteq some
    BY <1>1
  <2>2. undo \in Surjection(Projects, some)
    BY DEF Surjection
  <2>3. IsFiniteSet(Projects)
    BY FilesAssumption
  <2> HIDE DEF some, undo, all
  <2>4. IsFiniteSet(some)
    BY <2>2, <2>3, FS_Surjection
  <2> QED
    BY <2>1, <2>4, FS_Subset
<1>4. Reverts(files) = SetToSeq(all)
  BY DEF Reverts
<1>5. \A f \in files \cap EnvFiles : IsProject(f) => Undo(f) \in all
  OBVIOUS
<1>6. \A x \in all : x.file \in files
  OBVIOUS
<1> HIDE DEF all
<1>7. SetToSeq(all) \in Seq(all) /\ \A x \in all : \E i \in DOMAIN SetToSeq(all) : SetToSeq(all)[i] = x
  BY <1>3, SetToSeqLists
<1>8. /\ Reverts(files) \in Seq(Revert)
      /\ \A i \in DOMAIN Reverts(files) : Reverts(files)[i].file \in files
  <2> DEFINE order == SetToSeq(all)
  <2>1. order \in Seq(all) /\ Reverts(files) = order
    BY <1>4, <1>7
  <2> HIDE DEF order
  <2>2. \A i \in DOMAIN order : order[i] \in all
    BY <2>1
  <2> QED
    BY <1>2, <1>6, <2>1, <2>2
<1> QED
  BY <1>4, <1>5, <1>7, <1>8

LEMMA HoldsTexts ==
    ASSUME NEW f \in EnvFiles
    PROVE  /\ Holds(f) \subseteq Texts
           /\ None \notin Holds(f) /\ Absent \notin Holds(f)
           /\ IsProject(f) => Holds(f) = ProjectTexts \cup {Broken}
BY FilesAssumption, ContentsAssumption DEF Holds, Texts, IsProject

LEMMA RouteTyped ==
    ASSUME DocumentsOK, sync_rx \in Seq(SyncMessage),
           NEW f \in EnvFiles, NEW text \in Holds(f), RouteDocument(f, text)
    PROVE  DocumentsOK' /\ sync_rx' \in Seq(SyncMessage)
<1>1. text \in Texts
  BY HoldsTexts
<1>2. documents' = [documents EXCEPT ![f] = text]
  BY DEF RouteDocument
<1>3. DocumentsOK'
  BY <1>1, <1>2 DEF DocumentsOK, Holds
<1> DEFINE msg == [kind |-> "SetText", file |-> f, text |-> text]
<1>4. IsProject(f) => msg \in SyncMessage
  BY HoldsTexts, ProjectFilesAre DEF SyncMessage, SetText, ProjectFiles
<1>5. sync_rx' = IF IsProject(f) THEN Append(sync_rx, msg) ELSE sync_rx
  BY DEF RouteDocument
<1> HIDE DEF msg
<1>6. sync_rx' \in Seq(SyncMessage)
  BY <1>4, <1>5
<1> QED
  BY <1>3, <1>6

(* The client's steps.                                                      *)

LEMMA ReportedStays ==
    ASSUME Reported, UNCHANGED budget
    PROVE  Reported'
BY DEF Reported

LEMMA UnchangedTyped ==
    /\ ClientOK /\ UNCHANGED clientVars => ClientOK'
    /\ DocumentsOK /\ UNCHANGED documents => DocumentsOK'
    /\ DatabaseOK /\ UNCHANGED dbVars => DatabaseOK'
<1>1. ClientOK /\ UNCHANGED clientVars => ClientOK'
  BY DEF ClientOK, clientVars, Holds
<1>2. DocumentsOK /\ UNCHANGED documents => DocumentsOK'
  BY DEF DocumentsOK, Holds
<1>3. DatabaseOK /\ UNCHANGED dbVars => DatabaseOK'
  BY DEF DatabaseOK, dbVars
<1> QED
  BY <1>1, <1>2, <1>3

LEMMA BuffersTyped ==
    ASSUME Types, NEW f \in EnvFiles
    PROVE  /\ \A text \in TypedIn[f] : DidChange(f, text) => Types'
           /\ DidOpen(f) => Types'
           /\ DidClose(f) => Types'
           /\ DidSave(f) => Types'
<1>1. ASSUME NEW text \in TypedIn[f], DidChange(f, text) PROVE Types'
  <2>1. text \in Holds(f)
    BY FilesAssumption
  <2>2. DocumentsOK' /\ sync_rx' \in Seq(SyncMessage)
    BY <1>1, <2>1, RouteTyped DEF Types, DidChange
  <2>3. budget' \in Budget
    BY <1>1, SpendTyped DEF DidChange, Types, ClientOK, Counters
  <2>4. ClientOK'
    BY <1>1, <2>3 DEF DidChange, Types, ClientOK, Holds
  <2>5. DatabaseOK'
    BY <1>1, UnchangedTyped DEF DidChange, Types
  <2> QED
    BY <1>1, <2>2, <2>4, <2>5 DEF Types, DidChange, HarvesterOK
<1>2. ASSUME DidOpen(f) PROVE Types'
  <2>1. disk[f] \in Holds(f)
    BY <1>2 DEF Types, ClientOK, DidOpen
  <2>2. DocumentsOK' /\ sync_rx' \in Seq(SyncMessage)
    BY <1>2, <2>1, RouteTyped DEF Types, DidOpen
  <2>3. budget' \in Budget
    BY <1>2, SpendTyped DEF DidOpen, Types, ClientOK, Counters
  <2>4. ClientOK'
    BY <1>2, <2>3 DEF DidOpen, Types, ClientOK, Holds
  <2>5. DatabaseOK'
    BY <1>2, UnchangedTyped DEF DidOpen, Types
  <2> QED
    BY <1>2, <2>2, <2>4, <2>5 DEF Types, DidOpen, HarvesterOK
<1>3. ASSUME DidClose(f) PROVE Types'
  <2>1. documents' = [documents EXCEPT ![f] = None]
    BY <1>3 DEF DidClose
  <2>2. DocumentsOK'
    BY <2>1 DEF Types, DocumentsOK, Holds
  <2>3. sync_rx' \in Seq(SyncMessage)
    <3> DEFINE undo == Reverts({f})
    <3>1. undo \in Seq(SyncMessage)
      BY RevertsTyped DEF SyncMessage
    <3>2. sync_rx' = sync_rx \o undo
      BY <1>3 DEF DidClose
    <3> HIDE DEF undo
    <3> QED
      BY <3>1, <3>2 DEF Types
  <2>4. budget' \in Budget
    BY <1>3, SpendTyped DEF DidClose, Types, ClientOK, Counters
  <2>5. ClientOK'
    BY <1>3, <2>4 DEF DidClose, Types, ClientOK, Holds
  <2>6. DatabaseOK'
    BY <1>3, UnchangedTyped DEF DidClose, Types
  <2> QED
    BY <1>3, <2>2, <2>3, <2>5, <2>6 DEF Types, DidClose, HarvesterOK
<1>4. ASSUME DidSave(f) PROVE Types'
  <2> DEFINE change == [g \in {f} |-> documents[f]]
  <2>1. budget' \in Budget
    BY <1>4, SpendTyped DEF DidSave, Types, ClientOK, Counters
  <2>2. documents[f] \in Holds(f)
    BY <1>4 DEF Types, DocumentsOK, DidSave
  <2>3. /\ DOMAIN change \subseteq EnvFiles \cup Sources
        /\ \A g \in DOMAIN change : change[g] \in Holds(g) \cup {Absent}
    BY <2>2
  <2>4. OnDisk(change, "written")
    BY <1>4 DEF DidSave
  <2> HIDE DEF change
  <2>5. ClientOK'
    BY <2>1, <2>3, <2>4, OnDiskTyped DEF Types
  <2>6. DocumentsOK' /\ DatabaseOK'
    BY <1>4, UnchangedTyped DEF DidSave, Types, mainVars
  <2> QED
    BY <1>4, <2>5, <2>6 DEF Types, DidSave, HarvesterOK
<1> QED
  BY <1>1, <1>2, <1>3, <1>4

LEMMA WritesTyped ==
    ASSUME Types, NEW f \in EnvFiles \cup Sources, NEW text \in Holds(f) \cup {Absent},
           DidSaveSource(f, text) \/ Rewrite(f, text)
    PROVE  Types'
<1> DEFINE change == [g \in {f} |-> text]
<1>1. budget' \in Budget
  BY SpendTyped DEF DidSaveSource, Rewrite, Types, ClientOK, Counters
<1>2. OnDisk(change, "written")
  BY DEF DidSaveSource, Rewrite
<1>3. /\ DOMAIN change \subseteq EnvFiles \cup Sources
      /\ \A g \in DOMAIN change : change[g] \in Holds(g) \cup {Absent}
  OBVIOUS
<1> HIDE DEF change
<1>4. ClientOK'
  BY <1>1, <1>2, <1>3, OnDiskTyped DEF Types
<1>5. UNCHANGED <<documents, dbVars, sync_rx, library_rx, harvester>>
  BY DEF DidSaveSource, Rewrite, mainVars
<1>6. DocumentsOK' /\ DatabaseOK'
  BY <1>5, UnchangedTyped DEF Types
<1> QED
  BY <1>4, <1>5, <1>6 DEF Types, HarvesterOK

LEMMA WatcherTyped ==
    ASSUME Types, NEW batch \in SUBSET unreported, DidChangeWatchedFiles(batch)
    PROVE  Types'
<1> DEFINE undo == Reverts({f \in batch \cap EnvFiles : documents[f] = None})
<1>1. undo \in Seq(SyncMessage)
  BY RevertsTyped DEF SyncMessage
<1>2. sync_rx' = sync_rx \o undo
  BY DEF DidChangeWatchedFiles
<1> HIDE DEF undo
<1>3. sync_rx' \in Seq(SyncMessage)
  BY <1>1, <1>2 DEF Types
<1>4. ClientOK'
  BY DEF DidChangeWatchedFiles, Types, ClientOK, Holds
<1>5. DocumentsOK' /\ DatabaseOK'
  BY UnchangedTyped DEF DidChangeWatchedFiles, Types, mainVars
<1> QED
  BY <1>3, <1>4, <1>5 DEF Types, DidChangeWatchedFiles, HarvesterOK

(* The name edit of a rename is made to a parseable text.                   *)
LEMMA EditedTyped ==
    ASSUME DatabaseOK, NEW p \in Projects, NEW n \in Names, NEW m \in Names,
           NameFollows(p, n)
    PROVE  [tracked[p] EXCEPT !.name = m] \in ProjectTexts
<1>1. tracked[p] # None
  BY DEF DatabaseOK, NameFollows
<1>2. tracked[p] \in ProjectTexts
  BY <1>1 DEF DatabaseOK, NameFollows, Parses
<1> DEFINE text == tracked[p]
<1>3. text \in ProjectTexts
  BY <1>2
<1> HIDE DEF text
<1>4. [text EXCEPT !.name = m] \in ProjectTexts
  BY <1>3, FilesAssumption
<1> QED
  BY <1>4 DEF text

LEMMA RenameTyped ==
    ASSUME Types, NEW p \in Projects, NEW n \in Names, NEW m \in Names, n # m,
           RenameEntry(p, n, m)
    PROVE  Types'
<1> DEFINE f == ProjectOf(p)
           old == EntryOf[p][n]
           new == EntryOf[p][m]
           edited == [tracked[p] EXCEPT !.name = m]
           moved == [s \in {old, new} |-> IF s = old THEN Absent ELSE disk[old]]
           renamed == [kind |-> "RenamedProjects", old |-> old,
                       open |-> {q \in Projects : documents[ProjectOf(q)] # None}]
           set == [kind |-> "SetText", file |-> f, text |-> edited]
<1>1. /\ f \in EnvFiles /\ old \in Sources /\ new \in Sources
      /\ Holds(f) = ProjectTexts \cup {Broken} /\ f \in ProjectFiles
  BY ProjectFile, EntryTyped
<1>2. budget' \in Budget
  BY SpendTyped DEF RenameEntry, Types, ClientOK, Counters
<1>3. renamed \in SyncMessage
  BY <1>1 DEF SyncMessage, Renamed
<1>4. /\ DOMAIN moved \subseteq EnvFiles \cup Sources
      /\ \A g \in DOMAIN moved : moved[g] \in Holds(g) \cup {Absent}
  <2>1. disk[old] \in Contents \cup {Absent}
    BY <1>1, SourcesHold DEF Types
  <2>2. Holds(old) = Contents /\ Holds(new) = Contents
    BY <1>1 DEF Holds
  <2> QED
    BY <1>1, <2>1, <2>2
<1>5. UNCHANGED <<dbVars, library_rx, harvester>>
  BY DEF RenameEntry
<1>6. CASE NameFollows(p, n) /\ documents[f] # None
  <2>1. edited \in ProjectTexts
    BY <1>6, EditedTyped DEF Types
  <2>2. set \in SyncMessage
    BY <1>1, <2>1 DEF SyncMessage, SetText
  <2>3. /\ documents' = [documents EXCEPT ![f] = edited]
        /\ OnDisk(moved, "renamed")
        /\ sync_rx' = sync_rx \o <<set, renamed>>
    BY <1>6 DEF RenameEntry
  <2> HIDE DEF f, edited, moved, renamed, set
  <2>4. ClientOK'
    BY <1>2, <1>4, <2>3, OnDiskTyped DEF Types
  <2>5. sync_rx' \in Seq(SyncMessage)
    <3>1. <<set, renamed>> \in Seq(SyncMessage)
      BY <1>3, <2>2
    <3> QED
      BY <2>3, <3>1 DEF Types
  <2>6. DocumentsOK'
    BY <1>1, <2>1, <2>3 DEF Types, DocumentsOK, Holds, Texts
  <2> QED
    BY <1>5, <2>4, <2>5, <2>6, UnchangedTyped DEF Types, HarvesterOK
<1>7. CASE NameFollows(p, n) /\ documents[f] = None
  <2>1. edited \in ProjectTexts
    BY <1>7, EditedTyped DEF Types
  <2>2. /\ documents' = documents
        /\ OnDisk(Put(moved, f, edited), "renamed")
        /\ sync_rx' = Append(sync_rx, renamed)
    BY <1>7 DEF RenameEntry
  <2> HIDE DEF f, edited, moved, renamed
  <2>3. ClientOK'
    <3> DEFINE both == Put(moved, f, edited)
    <3>1. /\ DOMAIN both \subseteq EnvFiles \cup Sources
          /\ \A g \in DOMAIN both : both[g] \in Holds(g) \cup {Absent}
      BY <1>1, <1>4, <2>1 DEF Put
    <3>2. OnDisk(both, "renamed")
      BY <2>2
    <3> HIDE DEF both
    <3> QED
      BY <1>2, <3>1, <3>2, OnDiskTyped DEF Types
  <2>4. sync_rx' \in Seq(SyncMessage)
    BY <1>3, <2>2 DEF Types
  <2>5. DocumentsOK'
    BY <2>2, UnchangedTyped DEF Types
  <2> QED
    BY <1>5, <2>3, <2>4, <2>5, UnchangedTyped DEF Types, HarvesterOK
<1>8. CASE ~NameFollows(p, n)
  <2>1. /\ documents' = documents
        /\ OnDisk(moved, "moved")
        /\ sync_rx' = Append(sync_rx, renamed)
    BY <1>8 DEF RenameEntry
  <2> HIDE DEF f, moved, renamed
  <2>2. ClientOK'
    BY <1>2, <1>4, <2>1, OnDiskTyped DEF Types
  <2>3. sync_rx' \in Seq(SyncMessage)
    BY <1>3, <2>1 DEF Types
  <2>4. DocumentsOK'
    BY <2>1, UnchangedTyped DEF Types
  <2> QED
    BY <1>5, <2>2, <2>3, <2>4, UnchangedTyped DEF Types, HarvesterOK
<1> QED
  BY <1>6, <1>7, <1>8

(* The analysis thread's steps.                                             *)

LEMMA RevertedTyped ==
    ASSUME ClientOK, DatabaseOK, NEW p \in Projects
    PROVE  /\ RevertedText(tracked, p) \in ProjectTexts \cup {Broken, None}
           /\ tracked[p] # None => RevertedText(tracked, p) # None
           /\ Seeded(p) \in ProjectTexts \cup {Broken, None}
           /\ tracked[p] # None => Seeded(p) = tracked[p]
<1> DEFINE text == disk[ProjectOf(p)]
<1>1. text \in ProjectTexts \cup {Broken, Absent}
  BY ProjectFile DEF ClientOK
<1>2. text # Absent => text \in ProjectTexts \cup {Broken} /\ text # None
  BY <1>1, FilesAssumption DEF Texts
<1>3. tracked[p] \in ProjectTexts \cup {Broken, None}
  BY DEF DatabaseOK
<1> HIDE DEF text
<1> QED
  BY <1>1, <1>2, <1>3 DEF RevertedText, Seeded, text

LEMMA SyncMessages ==
    ASSUME NEW msg \in SyncMessage
    PROVE  /\ msg.kind = "SetText" => /\ msg.file[1] \in Projects
                                      /\ msg.file = ProjectOf(msg.file[1])
                                      /\ msg.text \in ProjectTexts \cup {Broken}
           /\ msg.kind = "Revert" => /\ msg.file[1] \in Projects
                                     /\ msg.file = ProjectOf(msg.file[1])
           /\ msg.kind \notin {"SetText", "Revert"} => msg \in Renamed
<1>1. \A f \in ProjectFiles : f[1] \in Projects /\ f = ProjectOf(f[1])
  BY ProjectFile DEF ProjectFiles
<1>2. CASE msg \in SetText
  BY <1>1, <1>2 DEF SetText
<1>3. CASE msg \in Revert
  BY <1>1, <1>3 DEF Revert
<1>4. CASE msg \in Renamed
  BY <1>4 DEF Renamed
<1> QED
  BY <1>2, <1>3, <1>4 DEF SyncMessage

(* What a message does to the tracked text of a project file.               *)
LEMMA SyncedText ==
    ASSUME Types, OnSyncMessage, NEW p \in Projects
    PROVE  LET msg == Head(sync_rx)
           IN  /\ msg \in SyncMessage
               /\ Sets(msg, p) => tracked'[p] = msg.text
               /\ Undoes(msg, p) => tracked'[p] = RevertedText(tracked, p)
               /\ ~Sets(msg, p) =>
                    tracked'[p] \in {tracked[p], RevertedText(tracked, p)}
               /\ ~Sets(msg, p) /\ ~Resyncs(msg, p) => tracked'[p] = tracked[p]
<1> DEFINE msg == Head(sync_rx)
<1>1. msg \in SyncMessage
  BY DEF Types, OnSyncMessage
<1>2. tracked \in [Projects -> ProjectTexts \cup {Broken, None}]
  BY DEF Types, DatabaseOK
<1>3. CASE msg.kind = "SetText"
  <2>1. tracked' = [tracked EXCEPT ![msg.file[1]] = msg.text]
    BY <1>3 DEF OnSyncMessage
  <2> HIDE DEF msg
  <2>2. msg.file[1] \in Projects /\ msg.file = ProjectOf(msg.file[1])
    BY <1>1, <1>3, SyncMessages
  <2>3. msg.file = ProjectOf(p) <=> msg.file[1] = p
    BY <2>2, ProjectFile
  <2> QED
    BY <1>1, <1>2, <1>3, <2>1, <2>2, <2>3 DEF Sets, Undoes, Resyncs, msg
<1>4. CASE msg.kind = "Revert"
  <2>1. tracked' = [tracked EXCEPT ![msg.file[1]] = RevertedText(tracked, msg.file[1])]
    BY <1>4 DEF OnSyncMessage
  <2> HIDE DEF msg
  <2>2. msg.file[1] \in Projects /\ msg.file = ProjectOf(msg.file[1])
    BY <1>1, <1>4, SyncMessages
  <2>3. msg.file = ProjectOf(p) <=> msg.file[1] = p
    BY <2>2, ProjectFile
  <2> QED
    BY <1>1, <1>2, <1>4, <2>1, <2>2, <2>3 DEF Sets, Undoes, Resyncs, msg
<1>5. CASE msg.kind \notin {"SetText", "Revert"}
  <2> DEFINE moved == {project_files[n] : n \in
                        {n \in workspaces \cap DOMAIN project_files :
                           EntryOf[project_files[n]][n] = msg.old}}
  <2>1. tracked' = [q \in Projects |-> IF q \in moved \ msg.open
                                       THEN RevertedText(tracked, q) ELSE tracked[q]]
    BY <1>5 DEF OnSyncMessage
  <2>2. msg.kind = "RenamedProjects"
    BY <1>1, <1>5, SyncMessages DEF Renamed
  <2> HIDE DEF msg, moved
  <2> QED
    BY <1>1, <2>1, <2>2 DEF Sets, Undoes, Resyncs, msg
<1> QED
  BY <1>3, <1>4, <1>5

LEMMA SyncTyped ==
    ASSUME Types, OnSyncMessage
    PROVE  Types'
<1> DEFINE msg == Head(sync_rx)
<1>1. \A p \in Projects : /\ tracked'[p] \in ProjectTexts \cup {Broken, None}
                          /\ tracked[p] # None => tracked'[p] # None
  <2> SUFFICES ASSUME NEW p \in Projects
               PROVE  /\ tracked'[p] \in ProjectTexts \cup {Broken, None}
                      /\ tracked[p] # None => tracked'[p] # None
    OBVIOUS
  <2>1. /\ tracked[p] \in ProjectTexts \cup {Broken, None}
        /\ RevertedText(tracked, p) \in ProjectTexts \cup {Broken, None}
        /\ tracked[p] # None => RevertedText(tracked, p) # None
    BY RevertedTyped DEF Types, DatabaseOK
  <2>2. CASE Sets(msg, p)
    <3>1. tracked'[p] = msg.text /\ msg \in SyncMessage
      BY <2>2, SyncedText
    <3>2. msg.text \in ProjectTexts \cup {Broken}
      BY <2>2, <3>1, SyncMessages DEF Sets
    <3> QED
      BY <3>1, <3>2, FilesAssumption DEF Texts
  <2>3. CASE ~Sets(msg, p)
    <3>1. tracked'[p] \in {tracked[p], RevertedText(tracked, p)}
      BY <2>3, SyncedText
    <3> QED
      BY <2>1, <3>1
  <2> QED
    BY <2>2, <2>3
<1>2. tracked' = [p \in Projects |-> tracked'[p]]
  BY DEF OnSyncMessage, Types, DatabaseOK
<1>3. tracked' \in [Projects -> ProjectTexts \cup {Broken, None}]
  BY <1>1, <1>2
<1>4. UNCHANGED <<project_files, packages, workspaces, clientVars, documents,
                  library_rx, harvester>>
  BY DEF OnSyncMessage, mainVars
<1>5. DatabaseOK'
  <2>1. \A n \in DOMAIN project_files : project_files[n] \in Projects
    BY PartialDomain DEF Types, DatabaseOK
  <2> QED
    BY <1>1, <1>3, <1>4, <2>1 DEF Types, DatabaseOK
<1>6. ClientOK' /\ DocumentsOK'
  BY <1>4, UnchangedTyped DEF Types
<1>7. sync_rx' \in Seq(SyncMessage)
  BY DEF OnSyncMessage, Types
<1> QED
  BY <1>4, <1>5, <1>6, <1>7 DEF Types, HarvesterOK

LEMMA LibraryTyped ==
    ASSUME Types, OnLibraryMessage
    PROVE  Types'
<1> DEFINE msg == Head(library_rx)
<1>1. msg \in LibraryMessage /\ library_rx' \in Seq(LibraryMessage)
  BY DEF Types, OnLibraryMessage
<1>2. UNCHANGED <<clientVars, documents, sync_rx, harvester>>
  BY DEF OnLibraryMessage, mainVars
<1>3. ClientOK' /\ DocumentsOK'
  BY <1>2, UnchangedTyped DEF Types
<1>4. CASE msg.kind = "Full"
  <2> DEFINE files == msg.project_files
  <2>1. msg \in Full
    BY <1>1, <1>4 DEF LibraryMessage, Package
  <2>2. files \in Partial(Names, Projects) /\ msg.packages \in Packages
    BY <2>1 DEF Full
  <2>3. /\ tracked' = [p \in Projects |->
                         IF \E n \in DOMAIN files : files[n] = p THEN Seeded(p) ELSE tracked[p]]
        /\ project_files' = [n \in Claimed(files) |-> files[n]]
        /\ packages' = msg.packages
        /\ workspaces' = DOMAIN files
    BY <1>4 DEF OnLibraryMessage, OnFullLibrary
  <2> HIDE DEF msg, files
  <2>4. DOMAIN files \in SUBSET Names /\ \A n \in DOMAIN files : files[n] \in Projects
    BY <2>2, PartialDomain
  <2>5. Claimed(files) \in SUBSET Names /\ Claimed(files) \subseteq DOMAIN files
    BY <2>4 DEF Claimed
  <2>6. project_files' \in Partial(Names, Projects)
    <3>1. project_files' \in [Claimed(files) -> Projects]
      BY <2>3, <2>4, <2>5
    <3> QED
      BY <2>5, <3>1 DEF Partial
  <2>7. tracked' \in [Projects -> ProjectTexts \cup {Broken, None}]
    BY <2>3, RevertedTyped DEF Types, DatabaseOK
  <2>8. \A n \in DOMAIN project_files' : tracked'[project_files'[n]] # None
    BY <2>3, <2>4, <2>5 DEF Claimed
  <2>9. DatabaseOK'
    BY <2>2, <2>3, <2>4, <2>6, <2>7, <2>8 DEF DatabaseOK
  <2> QED
    BY <1>1, <1>2, <1>3, <2>9 DEF Types, HarvesterOK
<1>5. CASE msg.kind # "Full"
  <2>1. msg \in Package
    BY <1>1, <1>5 DEF LibraryMessage, Full
  <2>2. /\ packages' = Put(packages, msg.name, msg.index)
        /\ UNCHANGED <<tracked, project_files, workspaces>>
    BY <1>5 DEF OnLibraryMessage, OnPackage
  <2>3. msg.name \in Names /\ msg.index \in Index
    BY <2>1 DEF Package
  <2> HIDE DEF msg
  <2>4. packages' \in Packages
    BY <2>2, <2>3, PartialPut DEF Packages, Types, DatabaseOK
  <2>5. DatabaseOK'
    BY <2>2, <2>4 DEF Types, DatabaseOK
  <2> QED
    BY <1>1, <1>2, <1>3, <2>5 DEF Types, HarvesterOK
<1> QED
  BY <1>4, <1>5

(* The harvester's steps.                                                   *)

LEMMA NextRootTyped ==
    ASSUME NEW h \in HarvesterRecord, h.roots # <<>>, IsFiniteSet(DOMAIN h.library)
    PROVE  HarvesterOK(NextRoot(h))
<1> DEFINE next == IF Len(h.roots) > 1 THEN "locate" ELSE "publish"
           rest == Tail(h.roots)
<1>1. h.roots \in Seq(Seq(Projects))
  BY DEF HarvesterRecord
<1>2. rest \in Seq(Seq(Projects)) /\ (next = "locate" => rest # <<>>)
  <2> DEFINE roots == h.roots
             dirs == Seq(Projects)
  <2>1. roots \in Seq(dirs) /\ roots # <<>>
    BY <1>1
  <2> HIDE DEF roots, dirs
  <2> QED
    BY <2>1, LongerTail DEF roots, dirs
<1>3. next \in {"locate", "publish"}
  OBVIOUS
<1>4. NextRoot(h) = [h EXCEPT !.at = next, !.roots = rest]
  BY DEF NextRoot
<1> HIDE DEF next, rest
<1>5. /\ NextRoot(h) \in HarvesterRecord
      /\ NextRoot(h).at = next /\ NextRoot(h).roots = rest
      /\ NextRoot(h).library = h.library
  BY <1>2, <1>3, <1>4 DEF HarvesterRecord, Place
<1> QED
  BY <1>2, <1>3, <1>5 DEF HarvesterOK

LEMMA StartTyped ==
    ASSUME NEW last \in Packages
    PROVE  HarvesterOK(Start(last))
<1>1. Empty \in Packages /\ Empty \in Partial(EnvFiles, SUBSET Tags)
  BY PartialEmpty DEF Packages
<1>2. IsFiniteSet(DOMAIN Empty)
  <2>1. DOMAIN Empty = {}
    BY DEF Empty
  <2> QED
    BY <2>1, FS_EmptySet
<1>3. WalkUps \in Seq(Seq(Projects)) /\ WalkUps # <<>>
  BY PlacesAssumption
<1> DEFINE none == <<>>
<1>4. none \in Seq(Env) /\ none \in Seq(Dev)
  OBVIOUS
<1>5. Start(last) = [at |-> "locate", roots |-> WalkUps, located |-> None, env |-> None,
                     envs |-> none, findings |-> Empty, devs |-> none, todo |-> none,
                     library |-> Empty, last |-> last, dev |-> None]
  BY DEF Start
<1> HIDE DEF none
<1>6. Start(last) \in HarvesterRecord
  BY <1>1, <1>3, <1>4, <1>5 DEF HarvesterRecord, Place
<1> QED
  BY <1>2, <1>3, <1>5, <1>6 DEF HarvesterOK

LEMMA LocateTyped ==
    ASSUME Types, Locate
    PROVE  HarvesterOK(harvester')
<1>1. harvester \in HarvesterRecord /\ harvester.roots # <<>>
      /\ IsFiniteSet(DOMAIN harvester.library)
  BY DEF Types, HarvesterOK, Locate, At
<1> DEFINE p == Located(Head(harvester.roots))
<1>2. p \in Projects \cup {None}
  <2> DEFINE dirs == Head(harvester.roots)
  <2>1. dirs \in Seq(Projects)
    BY <1>1 DEF HarvesterRecord
  <2> HIDE DEF dirs
  <2>2. Located(dirs) \in Projects \cup {None}
    BY <2>1, LocatedTyped
  <2> QED
    BY <2>2 DEF dirs
<1>3. harvester' = IF p = None THEN NextRoot(harvester)
                   ELSE [harvester EXCEPT !.at = "read", !.located = p]
  BY DEF Locate
<1> HIDE DEF p
<1>4. CASE p = None
  BY <1>1, <1>3, <1>4, NextRootTyped
<1>5. CASE p # None
  <2>1. /\ harvester' \in HarvesterRecord /\ harvester'.at = "read"
        /\ harvester'.roots = harvester.roots /\ harvester'.located = p
        /\ harvester'.library = harvester.library
    BY <1>1, <1>2, <1>3, <1>5 DEF HarvesterRecord, Place
  <2> QED
    BY <1>1, <1>2, <1>5, <2>1 DEF HarvesterOK
<1> QED
  BY <1>4, <1>5

LEMMA ReadTyped ==
    ASSUME Types, ReadEnvironment
    PROVE  HarvesterOK(harvester')
<1>1. /\ harvester \in HarvesterRecord /\ harvester.roots # <<>>
      /\ IsFiniteSet(DOMAIN harvester.library) /\ harvester.located \in Projects
  BY DEF Types, HarvesterOK, ReadEnvironment, At
<1>2. harvester.findings \in Partial(EnvFiles, SUBSET Tags)
  BY <1>1 DEF HarvesterRecord
<1> DEFINE env == Resolved(harvester.located)
           fault == env.fault
           noted == IF fault \in DOMAIN harvester.findings THEN harvester.findings
                    ELSE Put(harvester.findings, fault, SyntaxFindings(Broken))
           faulty == [harvester EXCEPT !.findings = noted]
           seen == \E i \in DOMAIN harvester.envs :
                     harvester.envs[i].project = harvester.located
<1>3. (fault = None => env \in Env) /\ (fault # None => fault \in EnvFiles)
  BY <1>1, ResolvedTyped DEF Types
<1>4. harvester' = IF fault # None THEN NextRoot(faulty)
                   ELSE IF seen THEN NextRoot(harvester)
                   ELSE [harvester EXCEPT !.at = "check", !.env = env]
  BY DEF ReadEnvironment
<1>5. CASE fault # None
  <2>1. noted \in Partial(EnvFiles, SUBSET Tags)
    <3> HIDE DEF fault
    <3>1. SyntaxFindings(Broken) \in SUBSET Tags
      BY FindingsTyped
    <3>2. Put(harvester.findings, fault, SyntaxFindings(Broken))
            \in Partial(EnvFiles, SUBSET Tags)
      BY <1>2, <1>3, <1>5, <3>1, PartialPut
    <3> QED
      BY <1>2, <3>2
  <2> HIDE DEF noted, fault
  <2>2. /\ faulty \in HarvesterRecord /\ faulty.roots = harvester.roots
        /\ faulty.library = harvester.library
    BY <1>1, <2>1 DEF HarvesterRecord
  <2> HIDE DEF faulty
  <2> QED
    BY <1>1, <1>4, <1>5, <2>2, NextRootTyped
<1>6. CASE fault = None /\ seen
  BY <1>1, <1>4, <1>6, NextRootTyped
<1>7. CASE fault = None /\ ~seen
  <2> HIDE DEF seen, env
  <2>1. env \in Env
    BY <1>3, <1>7
  <2>2. harvester' = [harvester EXCEPT !.at = "check", !.env = env]
    BY <1>4, <1>7
  <2>3. /\ harvester' \in HarvesterRecord /\ harvester'.at = "check"
        /\ harvester'.roots = harvester.roots /\ harvester'.env = env
        /\ harvester'.library = harvester.library
    BY <1>1, <2>1, <2>2 DEF HarvesterRecord, Place
  <2> QED
    BY <1>1, <2>1, <2>3 DEF HarvesterOK
<1> QED
  BY <1>5, <1>6, <1>7

LEMMA CheckTyped ==
    ASSUME Types, CheckEnvironment
    PROVE  HarvesterOK(harvester')
<1> DEFINE env == harvester.env
           f == ProjectOf(env.project)
           diags == SemanticFindings(env, disk[f])
           found == IF diags = {} THEN harvester.findings
                    ELSE Put(harvester.findings, f, diags)
           envs == Append(harvester.envs, env)
           checked == [harvester EXCEPT !.findings = found, !.envs = envs]
<1>1. /\ harvester \in HarvesterRecord /\ harvester.roots # <<>>
      /\ IsFiniteSet(DOMAIN harvester.library) /\ env \in Env
  BY DEF Types, HarvesterOK, CheckEnvironment, At
<1>2. harvester' = NextRoot(checked)
  BY DEF CheckEnvironment
<1>3. f \in EnvFiles
  BY <1>1, ProjectFile DEF Env
<1>4. diags \in SUBSET Tags
  BY FindingsTyped
<1>5. found \in Partial(EnvFiles, SUBSET Tags)
  <2>1. harvester.findings \in Partial(EnvFiles, SUBSET Tags)
    BY <1>1 DEF HarvesterRecord
  <2> HIDE DEF f, diags
  <2> QED
    BY <1>3, <1>4, <2>1, PartialPut
<1>6. envs \in Seq(Env)
  BY <1>1 DEF HarvesterRecord
<1> HIDE DEF found, envs
<1>7. /\ checked \in HarvesterRecord /\ checked.roots = harvester.roots
      /\ checked.library = harvester.library
  BY <1>1, <1>5, <1>6 DEF HarvesterRecord
<1> HIDE DEF checked
<1> QED
  BY <1>1, <1>2, <1>7, NextRootTyped

LEMMA PassTyped ==
    ASSUME Types, PublishEnvironmentDiagnostics \/ ListPackages \/ ClaimPackages
    PROVE  HarvesterOK(harvester')
<1>1. harvester \in HarvesterRecord /\ IsFiniteSet(DOMAIN harvester.library)
  BY DEF Types, HarvesterOK
<1> DEFINE devs == DevPackages(harvester.envs)
<1>2. devs \in Seq(Dev)
  BY <1>1, DevPackagesTyped DEF HarvesterRecord
<1>3. \/ harvester' = [harvester EXCEPT !.at = "list"]
      \/ harvester' = [harvester EXCEPT !.at = "claim", !.devs = devs]
      \/ harvester' = [harvester EXCEPT !.at = "harvest", !.todo = devs]
  BY DEF PublishEnvironmentDiagnostics, ListPackages, ClaimPackages
<1> HIDE DEF devs
<1>4. /\ harvester' \in HarvesterRecord
      /\ harvester'.at \in {"list", "claim", "harvest"}
      /\ harvester'.library = harvester.library
  BY <1>1, <1>2, <1>3 DEF HarvesterRecord, Place
<1> QED
  BY <1>1, <1>4 DEF HarvesterOK

LEMMA HarvestPackageTyped ==
    ASSUME Types, HarvestPackage
    PROVE  HarvesterOK(harvester')
<1> DEFINE next == Cardinality(DOMAIN harvester.library) + 1
           dev == harvester.todo[next]
           index == HarvestWorkspace(dev)
           more == Put(harvester.library, dev.name, index)
<1>1. /\ harvester \in HarvesterRecord /\ IsFiniteSet(DOMAIN harvester.library)
      /\ harvester.at = "harvest"
  BY DEF Types, HarvesterOK, HarvestPackage, At
<1>2. dev \in Dev
  <2>1. Cardinality(DOMAIN harvester.library) \in Nat
    BY <1>1, FS_CardinalityType
  <2>2. Cardinality(DOMAIN harvester.library) < Len(harvester.todo)
    BY DEF HarvestPackage
  <2>3. harvester.todo \in Seq(Dev)
    BY <1>1 DEF HarvesterRecord
  <2>4. next \in 1..Len(harvester.todo)
    BY <2>1, <2>2, <2>3
  <2> QED
    BY <2>3, <2>4
<1>3. index \in Index
  <2> HIDE DEF dev
  <2> QED
    BY <1>2, HarvestTyped DEF Types
<1>4. more \in Packages /\ DOMAIN more = DOMAIN harvester.library \cup {dev.name}
  <2>1. harvester.library \in Packages /\ dev.name \in Names
    BY <1>1, <1>2 DEF HarvesterRecord, Dev
  <2> HIDE DEF dev, index
  <2>2. more \in Packages
    BY <1>3, <2>1, PartialPut DEF Packages
  <2> QED
    BY <2>2 DEF Put
<1>5. IsFiniteSet(DOMAIN more)
  <2> HIDE DEF dev, more
  <2> QED
    BY <1>1, <1>4, FS_AddElement
<1>6. harvester' = [harvester EXCEPT !.library = more]
  BY DEF HarvestPackage
<1> HIDE DEF more
<1>7. /\ harvester' \in HarvesterRecord /\ harvester'.at = "harvest"
      /\ harvester'.library = more
  BY <1>1, <1>4, <1>6 DEF HarvesterRecord
<1> QED
  BY <1>5, <1>7 DEF HarvesterOK

LEMMA SendLibraryTyped ==
    ASSUME Types, SendLibrary
    PROVE  HarvesterOK(harvester') /\ library_rx' \in Seq(LibraryMessage)
<1> DEFINE todo == harvester.todo
           files == [n \in NamesOf(todo) |-> DevNamed(todo, n).project]
           msg == [kind |-> "Full", packages |-> harvester.library, project_files |-> files]
<1>1. harvester \in HarvesterRecord
  BY DEF Types, HarvesterOK
<1>2. todo \in Seq(Dev)
  BY <1>1 DEF HarvesterRecord
<1>3. \A n \in NamesOf(todo) : n \in Names /\ DevNamed(todo, n).project \in Projects
  <2> HIDE DEF todo
  <2> SUFFICES ASSUME NEW n \in NamesOf(todo)
               PROVE  n \in Names /\ DevNamed(todo, n).project \in Projects
    OBVIOUS
  <2>1. PICK i \in DOMAIN todo : todo[i].name = n
    BY DEF NamesOf
  <2>2. \A dev \in ToSet(todo) : dev \in Dev
    BY <1>2 DEF ToSet
  <2>3. todo[i] \in ToSet(todo)
    BY DEF ToSet
  <2>4. DevNamed(todo, n) \in ToSet(todo)
    BY <2>1, <2>3 DEF DevNamed
  <2> QED
    BY <2>1, <2>2, <2>3, <2>4 DEF Dev
<1>4. files \in Partial(Names, Projects)
  <2> HIDE DEF todo
  <2>1. files \in [NamesOf(todo) -> Projects] /\ NamesOf(todo) \in SUBSET Names
    BY <1>3
  <2> HIDE DEF files
  <2> QED
    BY <2>1 DEF Partial
<1>5. library_rx' = Append(library_rx, msg)
  BY DEF SendLibrary
<1>6. msg \in LibraryMessage
  <2> HIDE DEF files
  <2> QED
    BY <1>1, <1>4 DEF LibraryMessage, Full, HarvesterRecord
<1> HIDE DEF msg
<1>7. library_rx' \in Seq(LibraryMessage)
  BY <1>5, <1>6 DEF Types
<1> DEFINE start == Start(Empty)
           none == <<>>
<1>8. HarvesterOK(start) /\ start.library = Empty
  BY StartTyped, PartialEmpty DEF Packages, Start
<1>9. harvester' = [start EXCEPT !.at = "wait", !.roots = none, !.devs = harvester.devs]
  BY DEF SendLibrary
<1>10. none \in Seq(Seq(Projects)) /\ harvester.devs \in Seq(Dev)
  BY <1>1 DEF HarvesterRecord
<1> HIDE DEF start, none
<1>11. start \in HarvesterRecord /\ IsFiniteSet(DOMAIN start.library)
  BY <1>8 DEF HarvesterOK
<1>12. /\ harvester' \in HarvesterRecord /\ harvester'.at = "wait"
       /\ harvester'.library = start.library
  BY <1>9, <1>10, <1>11 DEF HarvesterRecord, Place
<1> QED
  BY <1>7, <1>11, <1>12 DEF HarvesterOK

LEMMA ResolveTyped ==
    ASSUME Types, Resolve
    PROVE  HarvesterOK(harvester')
<1>1. harvester.last \in Packages
  BY DEF Types, HarvesterOK, HarvesterRecord
<1>2. harvester' = Start(harvester.last)
  BY DEF Resolve
<1> QED
  BY <1>1, <1>2, StartTyped

LEMMA TakeSourceTyped ==
    ASSUME Types, TakeSource
    PROVE  HarvesterOK(harvester')
<1> DEFINE dev == OwnerOf(Head(harvest_rx))
<1>1. /\ harvester \in HarvesterRecord /\ IsFiniteSet(DOMAIN harvester.library)
      /\ harvester.at = "wait" /\ HarvesterOK(harvester)
  BY DEF Types, HarvesterOK, TakeSource, At
<1>2. dev \in Dev \cup {None}
  BY <1>1, OwnerTyped DEF HarvesterRecord
<1>3. harvester' = IF dev = None THEN harvester
                   ELSE [harvester EXCEPT !.at = "reharvest", !.dev = dev]
  BY DEF TakeSource
<1> HIDE DEF dev
<1>4. CASE dev = None
  BY <1>1, <1>3, <1>4
<1>5. CASE dev # None
  <2>1. /\ harvester' \in HarvesterRecord /\ harvester'.at = "reharvest"
        /\ harvester'.library = harvester.library /\ harvester'.dev = dev
    BY <1>1, <1>2, <1>3, <1>5 DEF HarvesterRecord, Place
  <2> QED
    BY <1>1, <1>2, <1>5, <2>1 DEF HarvesterOK
<1> QED
  BY <1>4, <1>5

LEMMA ReharvestTyped ==
    ASSUME Types, Reharvest
    PROVE  HarvesterOK(harvester') /\ library_rx' \in Seq(LibraryMessage)
<1> DEFINE dev == harvester.dev
           index == HarvestWorkspace(dev)
           last == Put(harvester.last, dev.name, index)
           msg == [kind |-> "Package", name |-> dev.name, index |-> index]
<1>1. /\ harvester \in HarvesterRecord /\ IsFiniteSet(DOMAIN harvester.library)
      /\ dev \in Dev
  BY DEF Types, HarvesterOK, Reharvest, At
<1>2. index \in Index /\ dev.name \in Names
  <2> HIDE DEF dev
  <2> QED
    BY <1>1, HarvestTyped DEF Types, Dev
<1>3. last \in Packages
  <2>1. harvester.last \in Packages
    BY <1>1 DEF HarvesterRecord
  <2> HIDE DEF dev, index
  <2> QED
    BY <1>2, <2>1, PartialPut DEF Packages
<1>4. msg \in LibraryMessage
  <2> HIDE DEF dev, index
  <2> QED
    BY <1>2 DEF LibraryMessage, Package
<1>5. /\ harvester' = [harvester EXCEPT !.at = "wait", !.dev = None, !.last = last]
      /\ library_rx' \in {library_rx, Append(library_rx, msg)}
  BY DEF Reharvest
<1> HIDE DEF last, msg
<1>6. /\ harvester' \in HarvesterRecord /\ harvester'.at = "wait"
      /\ harvester'.library = harvester.library
  BY <1>1, <1>3, <1>5 DEF HarvesterRecord, Place
<1>7. library_rx' \in Seq(LibraryMessage)
  BY <1>4, <1>5 DEF Types
<1> QED
  BY <1>1, <1>6, <1>7 DEF HarvesterOK

LEMMA InitTyped == Init => Types
<1> SUFFICES ASSUME Init PROVE Types
  OBVIOUS
<1>1. budget \in Budget
  BY BudgetsAssumption DEF Init
<1>2. ClientOK
  BY <1>1, ContentsAssumption, FilesAssumption DEF ClientOK, Init
<1>3. DocumentsOK
  BY DEF DocumentsOK, Init
<1>4. DatabaseOK
  <2>1. project_files = Empty /\ packages = Empty /\ workspaces = {}
        /\ tracked = [p \in Projects |-> None]
    BY DEF Init
  <2>2. Empty \in Packages /\ Empty \in Partial(Names, Projects) /\ DOMAIN Empty = {}
    BY PartialEmpty DEF Packages, Empty
  <2> QED
    BY <2>1, <2>2 DEF DatabaseOK
<1>5. HarvesterOK(harvester)
  <2>1. harvester = Start(Empty) /\ Empty \in Packages
    BY PartialEmpty DEF Init, Packages
  <2> QED
    BY <2>1, StartTyped
<1>6. sync_rx \in Seq(SyncMessage) /\ library_rx \in Seq(LibraryMessage)
  BY DEF Init
<1> QED
  BY <1>2, <1>3, <1>4, <1>5, <1>6 DEF Types

(* The harvester's steps leave the client, the buffers, the database and    *)
(* the messages of the main loop alone.                                     *)
LEMMA HarvesterAlone ==
    ASSUME Harvester
    PROVE  UNCHANGED <<clientVars, documents, dbVars, sync_rx, refresh, linted>>
<1>1. CASE Locate \/ ReadEnvironment \/ CheckEnvironment \/ ListPackages
           \/ ClaimPackages \/ HarvestPackage
  BY <1>1 DEF Locate, ReadEnvironment, CheckEnvironment, ListPackages, ClaimPackages,
              HarvestPackage, HarvesterOnly, mainVars
<1>2. CASE PublishEnvironmentDiagnostics
  BY <1>2 DEF PublishEnvironmentDiagnostics, mainVars
<1>3. CASE SendLibrary
  BY <1>3 DEF SendLibrary, mainVars
<1>4. CASE Resolve
  BY <1>4 DEF Resolve, mainVars
<1>5. CASE TakeSource
  BY <1>5 DEF TakeSource, mainVars
<1>6. CASE Reharvest
  BY <1>6 DEF Reharvest, mainVars
<1> QED
  BY <1>1, <1>2, <1>3, <1>4, <1>5, <1>6 DEF Harvester

LEMMA LibraryQueueKept ==
    ASSUME Harvester, ~SendLibrary, ~Reharvest
    PROVE  UNCHANGED library_rx
BY DEF Harvester, Locate, ReadEnvironment, CheckEnvironment, ListPackages, ClaimPackages,
       HarvestPackage, HarvesterOnly, PublishEnvironmentDiagnostics, Resolve, TakeSource

LEMMA HarvesterTyped ==
    ASSUME Types, Harvester
    PROVE  Types'
<1>1. HarvesterOK(harvester')
  BY LocateTyped, ReadTyped, CheckTyped, PassTyped, HarvestPackageTyped,
     SendLibraryTyped, ResolveTyped, TakeSourceTyped, ReharvestTyped DEF Harvester
<1>2. library_rx' \in Seq(LibraryMessage)
  BY SendLibraryTyped, ReharvestTyped, LibraryQueueKept DEF Types
<1>3. UNCHANGED <<clientVars, documents, dbVars, sync_rx>>
  BY HarvesterAlone
<1>4. ClientOK' /\ DocumentsOK' /\ DatabaseOK'
  BY <1>3, UnchangedTyped DEF Types
<1> QED
  BY <1>1, <1>2, <1>3, <1>4 DEF Types, HarvesterOK

LEMMA ClientTyped ==
    ASSUME Types, Client
    PROVE  Types'
<1>1. CASE \E f \in EnvFiles : DidOpen(f) \/ DidClose(f) \/ DidSave(f)
  BY <1>1, BuffersTyped
<1>2. CASE \E f \in EnvFiles : \E text \in TypedIn[f] : DidChange(f, text)
  BY <1>2, BuffersTyped
<1>3. CASE \E s \in Sources, content \in Contents : DidSaveSource(s, content)
  <2>1. PICK s \in Sources, content \in Contents : DidSaveSource(s, content)
    BY <1>3
  <2>2. content \in Holds(s) \cup {Absent}
    BY DEF Holds
  <2> QED
    BY <2>1, <2>2, WritesTyped
<1>4. CASE \E f \in DOMAIN disk : \E text \in WrittenTo[f] : Rewrite(f, text)
  <2>1. PICK f \in DOMAIN disk : \E text \in WrittenTo[f] : Rewrite(f, text)
    BY <1>4
  <2>2. f \in EnvFiles \cup Sources
    BY <2>1 DEF Types, ClientOK
  <2>3. WrittenTo[f] \subseteq Holds(f) \cup {Absent}
    BY <2>2, FilesAssumption
  <2> QED
    BY <2>1, <2>2, <2>3, WritesTyped
<1>5. CASE \E p \in Projects, n, m \in Names : n # m /\ RenameEntry(p, n, m)
  BY <1>5, RenameTyped
<1> QED
  BY <1>1, <1>2, <1>3, <1>4, <1>5 DEF Client

LEMMA TypesStep == Types /\ [Next]_vars => Types'
<1> SUFFICES ASSUME Types, [Next]_vars PROVE Types'
  OBVIOUS
<1>1. CASE Client
  BY <1>1, ClientTyped
<1>2. CASE Watcher
  BY <1>2, WatcherTyped DEF Watcher
<1>3. CASE TakeFindings \/ Relint
  <2>1. UNCHANGED <<clientVars, documents, dbVars, sync_rx, library_rx, harvester>>
    BY <1>3 DEF TakeFindings, Relint, mainVars
  <2>2. ClientOK' /\ DocumentsOK' /\ DatabaseOK'
    BY <2>1, UnchangedTyped DEF Types
  <2> QED
    BY <2>1, <2>2 DEF Types, HarvesterOK
<1>4. CASE AnalysisThread
  BY <1>4, SyncTyped, LibraryTyped DEF AnalysisThread
<1>5. CASE Harvester
  BY <1>5, HarvesterTyped
<1>6. CASE UNCHANGED vars
  <2>1. UNCHANGED <<clientVars, documents, dbVars, sync_rx, library_rx, harvester>>
    BY <1>6 DEF vars, mainVars
  <2>2. ClientOK' /\ DocumentsOK' /\ DatabaseOK'
    BY <2>1, UnchangedTyped DEF Types
  <2> QED
    BY <2>1, <2>2 DEF Types, HarvesterOK
<1> QED
  BY <1>1, <1>2, <1>3, <1>4, <1>5, <1>6 DEF Next

(* Every message, text and local of the harvester is what the code that     *)
(* reads it expects: a library claims project files, a project file that is *)
(* registered is tracked, the harvester reads a folder only when there is   *)
(* one left and reharvests only a package it listed.                        *)
THEOREM TypesInvariant == Spec => []Types
BY InitTyped, TypesStep, PTL DEF Spec
-----------------------------------------------------------------------------
(* What the last lint rested on.                                            *)

LEMMA LintKept ==
    ASSUME LintedWithCurrentPremises, UNCHANGED <<refresh, linted, dbVars>>
    PROVE  LintedWithCurrentPremises'
<1>1. Premises' = Premises
  BY DEF Premises, dbVars
<1> QED
  BY <1>1 DEF LintedWithCurrentPremises

(* A message that leaves every declared dependency as it was leaves the     *)
(* premises as they were.                                                   *)
LEMMA SyncLinted ==
    ASSUME Types, LintedWithCurrentPremises, OnSyncMessage
    PROVE  LintedWithCurrentPremises'
<1> SUFFICES ASSUME ~refresh' PROVE linted' = Premises'
  BY DEF LintedWithCurrentPremises
<1> DEFINE Changed(p) == DeclaredDepsOf(tracked', p) # DeclaredDepsOf(tracked, p)
<1>1. ~refresh /\ \A p \in Projects : ~Changed(p)
  <2>1. refresh' = (refresh \/ \E p \in Projects : Changed(p))
    BY DEF OnSyncMessage, RefreshIfDepsChanged
  <2> HIDE DEF Changed
  <2> QED
    BY <2>1
<1>2. \A n \in DOMAIN project_files :
        DepsIn(tracked'[project_files[n]]) = DepsIn(tracked[project_files[n]])
  <2> SUFFICES ASSUME NEW n \in DOMAIN project_files
               PROVE  DepsIn(tracked'[project_files[n]]) = DepsIn(tracked[project_files[n]])
    OBVIOUS
  <2> DEFINE p == project_files[n]
  <2>1. p \in Projects
    BY PartialDomain DEF Types, DatabaseOK
  <2>2. \E name \in DOMAIN project_files : project_files[name] = p
    OBVIOUS
  <2>3. ~Changed(p)
    BY <1>1, <2>1
  <2> HIDE DEF p
  <2>4. DeclaredDepsOf(tracked', p) = DeclaredDepsOf(tracked, p)
    BY <2>3
  <2>5. DepsIn(tracked'[p]) = DepsIn(tracked[p])
    BY <2>2, <2>4 DEF DeclaredDepsOf
  <2> QED
    BY <2>5 DEF p
<1>3. UNCHANGED <<linted, project_files, packages>>
  BY DEF OnSyncMessage
<1>4. Premises' = Premises
  BY <1>2, <1>3 DEF Premises
<1> QED
  BY <1>1, <1>3, <1>4 DEF LintedWithCurrentPremises

(* The steps of the main loop and its client before any message is taken.   *)
LEMMA ClientLeaves ==
    ASSUME Client \/ Watcher \/ TakeFindings
    PROVE  UNCHANGED <<refresh, linted, dbVars, library_rx, harvester>>
<1>1. ASSUME NEW f, DidOpen(f) \/ DidClose(f) \/ DidSave(f)
      PROVE  UNCHANGED <<refresh, linted, dbVars, library_rx, harvester>>
  BY <1>1 DEF DidOpen, DidClose, DidSave
<1>2. ASSUME NEW f, NEW text, DidChange(f, text) \/ DidSaveSource(f, text) \/ Rewrite(f, text)
      PROVE  UNCHANGED <<refresh, linted, dbVars, library_rx, harvester>>
  BY <1>2 DEF DidChange, DidSaveSource, Rewrite
<1>3. ASSUME NEW p, NEW n, NEW m, RenameEntry(p, n, m)
      PROVE  UNCHANGED <<refresh, linted, dbVars, library_rx, harvester>>
  BY <1>3 DEF RenameEntry
<1>4. CASE TakeFindings
  BY <1>4 DEF TakeFindings
<1>5. CASE Watcher
  BY <1>5 DEF Watcher, DidChangeWatchedFiles
<1>6. CASE Client
  BY <1>1, <1>2, <1>3, <1>6 DEF Client
<1> QED
  BY <1>4, <1>5, <1>6

LEMMA LintStep ==
    Types /\ LintedWithCurrentPremises /\ [Next]_vars => LintedWithCurrentPremises'
<1> SUFFICES ASSUME Types, LintedWithCurrentPremises, [Next]_vars
             PROVE  LintedWithCurrentPremises'
  OBVIOUS
<1>1. CASE Client \/ Watcher \/ TakeFindings
  BY <1>1, ClientLeaves, LintKept
<1>2. CASE Relint
  <2>1. linted' = Premises /\ UNCHANGED dbVars
    BY <1>2 DEF Relint
  <2>2. Premises' = Premises
    BY <2>1 DEF Premises, dbVars
  <2> QED
    BY <2>1, <2>2 DEF LintedWithCurrentPremises
<1>3. CASE OnSyncMessage
  BY <1>3, SyncLinted
<1>4. CASE OnLibraryMessage
  BY <1>4 DEF OnLibraryMessage, LintedWithCurrentPremises
<1>5. CASE Harvester
  BY <1>5, HarvesterAlone, LintKept
<1>6. CASE UNCHANGED vars
  BY <1>6, LintKept DEF vars
<1> QED
  BY <1>1, <1>2, <1>3, <1>4, <1>5, <1>6 DEF Next, AnalysisThread

(* The open documents were linted with the indexes and the declared         *)
(* dependencies the database holds, unless a refresh is on its way: no      *)
(* message the analysis thread takes changes what a lint reads in silence.  *)
THEOREM LintsAreCurrent == Spec => []LintedWithCurrentPremises
<1>1. Init => LintedWithCurrentPremises
  BY DEF Init, LintedWithCurrentPremises, Premises, Empty
<1> QED
  BY <1>1, LintStep, TypesInvariant, PTL DEF Spec
-----------------------------------------------------------------------------
(* What the harvester remembers of what it sent.                            *)

(* What a library message makes of the packages the database holds.         *)
Install(held, msg) ==
    IF msg.kind = "Full" THEN msg.packages ELSE Put(held, msg.name, msg.index)

Installed == INSTANCE FoldInduction WITH Op <- Install

(* The packages held once the messages on their way are installed.          *)
HeldOnceServed == Installed!FoldLeft(Install, packages, library_rx)

Remembers(held) ==
    At("wait") \/ At("reharvest") =>
      \A n \in DOMAIN harvester.last : n \in DOMAIN held /\ harvester.last[n] = held[n]

LEMMA LastMeans == LastIsWhatTheDatabaseWillHold <=> Remembers(HeldOnceServed)
<1> DEFINE held == FoldLeft(Install, packages, library_rx)
<1>1. HeldOnceServed = held
  BY DEF HeldOnceServed, FoldLeft, MapThenFoldSet, Max,
         Installed!FoldLeft, Installed!MapThenFoldSet, Installed!Max
<1>2. LastIsWhatTheDatabaseWillHold <=> Remembers(held)
  BY DEF LastIsWhatTheDatabaseWillHold, Remembers, Install
<1> QED
  BY <1>1, <1>2

(* Installing the first message leaves what is held once all are.           *)
LEMMA InstalledNext ==
    ASSUME Types, OnLibraryMessage
    PROVE  HeldOnceServed' = HeldOnceServed
<1> DEFINE msg == Head(library_rx)
           rest == Tail(library_rx)
           first == <<msg>>
<1>1. library_rx \in Seq(LibraryMessage) /\ library_rx # <<>> /\ library_rx' = rest
  BY DEF Types, OnLibraryMessage
<1>2. /\ first \in Seq(LibraryMessage) /\ rest \in Seq(LibraryMessage)
      /\ library_rx = first \o rest
  BY <1>1
<1>3. packages' = Install(packages, msg)
  BY DEF OnLibraryMessage, OnFullLibrary, OnPackage, Install
<1>4. Installed!FoldLeft(Install, packages, first) = Install(packages, msg)
  BY Installed!FoldOne
<1> HIDE DEF msg, rest, first
<1>5. Installed!FoldLeft(Install, packages, first \o rest) =
        Installed!FoldLeft(Install, Installed!FoldLeft(Install, packages, first), rest)
  BY <1>2, Installed!FoldBoth
<1>6. HeldOnceServed' = Installed!FoldLeft(Install, packages', rest)
  BY <1>1 DEF HeldOnceServed
<1> QED
  BY <1>2, <1>3, <1>4, <1>5, <1>6 DEF HeldOnceServed

(* A package harvested anew is remembered as it is sent.                    *)
LEMMA ReharvestRemembers ==
    ASSUME Types, Remembers(HeldOnceServed), Reharvest
    PROVE  Remembers(HeldOnceServed)'
<1> DEFINE dev == harvester.dev
           index == HarvestWorkspace(dev)
           last == harvester.last
           held == HeldOnceServed
           same == dev.name \in DOMAIN last /\ last[dev.name] = index
           msg == [kind |-> "Package", name |-> dev.name, index |-> index]
<1>1. /\ harvester \in HarvesterRecord /\ dev \in Dev /\ library_rx \in Seq(LibraryMessage)
      /\ \A n \in DOMAIN last : n \in DOMAIN held /\ last[n] = held[n]
  BY DEF Types, HarvesterOK, Reharvest, At, Remembers
<1>2. /\ harvester'.last = Put(last, dev.name, index)
      /\ library_rx' = IF same THEN library_rx ELSE Append(library_rx, msg)
      /\ packages' = packages
  BY <1>1 DEF Reharvest, HarvesterRecord, dbVars
<1>3. CASE same
  <2>1. HeldOnceServed' = held
    BY <1>2, <1>3 DEF HeldOnceServed
  <2> HIDE DEF dev, index, held, last
  <2>2. \A n \in DOMAIN Put(last, dev.name, index) :
          n \in DOMAIN held /\ Put(last, dev.name, index)[n] = held[n]
    BY <1>1, <1>3 DEF Put
  <2> QED
    BY <1>2, <2>1, <2>2 DEF Remembers, held
<1>4. CASE ~same
  <2> DEFINE sent == <<msg>>
  <2>1. msg \in LibraryMessage
    <3>1. index \in Index /\ dev.name \in Names
      <4> HIDE DEF dev
      <4> QED
        BY <1>1, HarvestTyped DEF Types, Dev
    <3> HIDE DEF dev, index
    <3> QED
      BY <3>1 DEF LibraryMessage, Package
  <2>2. Installed!FoldLeft(Install, held, sent) = Install(held, msg)
    BY Installed!FoldOne
  <2>3. Install(held, msg) = Put(held, dev.name, index)
    BY DEF Install
  <2> HIDE DEF msg, same
  <2>4. library_rx' = library_rx \o sent /\ sent \in Seq(LibraryMessage)
    BY <1>1, <1>2, <1>4, <2>1
  <2> HIDE DEF sent
  <2>5. Installed!FoldLeft(Install, packages, library_rx \o sent) =
          Installed!FoldLeft(Install, Installed!FoldLeft(Install, packages, library_rx), sent)
    BY <1>1, <2>4, Installed!FoldBoth
  <2>6. HeldOnceServed' = Put(held, dev.name, index)
    BY <1>2, <2>2, <2>3, <2>4, <2>5 DEF HeldOnceServed
  <2> HIDE DEF dev, index, held, last
  <2>7. \A n \in DOMAIN Put(last, dev.name, index) :
          /\ n \in DOMAIN Put(held, dev.name, index)
          /\ Put(last, dev.name, index)[n] = Put(held, dev.name, index)[n]
    BY <1>1 DEF Put
  <2> QED
    BY <1>2, <2>6, <2>7 DEF Remembers
<1> QED
  BY <1>3, <1>4

LEMMA RemembersStep ==
    Types /\ Remembers(HeldOnceServed) /\ [Next]_vars => Remembers(HeldOnceServed)'
<1> SUFFICES ASSUME Types, Remembers(HeldOnceServed), [Next]_vars
             PROVE  Remembers(HeldOnceServed)'
  OBVIOUS
<1>1. CASE UNCHANGED <<dbVars, library_rx, harvester>>
  <2>1. HeldOnceServed' = HeldOnceServed
    BY <1>1 DEF HeldOnceServed, dbVars
  <2> QED
    BY <1>1, <2>1 DEF Remembers, At
<1>2. CASE Client \/ Watcher \/ TakeFindings
  BY <1>1, <1>2, ClientLeaves
<1>3. CASE Relint \/ OnSyncMessage
  <2>1. UNCHANGED <<packages, library_rx, harvester>>
    BY <1>3 DEF Relint, OnSyncMessage, dbVars
  <2>2. HeldOnceServed' = HeldOnceServed
    BY <2>1 DEF HeldOnceServed
  <2> QED
    BY <2>1, <2>2 DEF Remembers, At
<1>4. CASE OnLibraryMessage
  <2>1. UNCHANGED harvester
    BY <1>4 DEF OnLibraryMessage
  <2> QED
    BY <1>4, <2>1, InstalledNext DEF Remembers, At
<1>5. CASE Locate \/ ReadEnvironment \/ CheckEnvironment \/ PublishEnvironmentDiagnostics
           \/ ListPackages \/ ClaimPackages \/ HarvestPackage
  <2>1. harvester'.at \notin {"wait", "reharvest"}
    BY <1>5 DEF Locate, ReadEnvironment, CheckEnvironment, PublishEnvironmentDiagnostics,
                ListPackages, ClaimPackages, HarvestPackage, NextRoot, Types, HarvesterOK,
                HarvesterRecord, At
  <2> QED
    BY <2>1 DEF Remembers, At
<1>6. CASE SendLibrary
  <2>1. harvester'.last = Empty
    BY <1>6 DEF SendLibrary, Start
  <2> QED
    BY <2>1 DEF Remembers, Empty
<1>7. CASE Resolve
  BY <1>7 DEF Resolve, Start, Remembers, At
<1>8. CASE TakeSource
  <2>1. UNCHANGED <<packages, library_rx>> /\ At("wait")
    BY <1>8 DEF TakeSource, dbVars
  <2>2. harvester'.last = harvester.last
    BY <1>8 DEF TakeSource, Types, HarvesterOK, HarvesterRecord
  <2>3. HeldOnceServed' = HeldOnceServed
    BY <2>1 DEF HeldOnceServed
  <2> QED
    BY <2>1, <2>2, <2>3 DEF Remembers
<1>9. CASE Reharvest
  BY <1>9, ReharvestRemembers
<1>10. CASE UNCHANGED vars
  BY <1>1, <1>10 DEF vars
<1> QED
  BY <1>2, <1>3, <1>4, <1>5, <1>6, <1>7, <1>8, <1>9, <1>10
     DEF Next, AnalysisThread, Harvester

(* What the harvester takes to be the last index of a package is the one    *)
(* the database holds once the messages on their way are installed, so that *)
(* leaving out an index equal to it loses nothing (run_harvester).          *)
THEOREM LastIsHeld == Spec => []LastIsWhatTheDatabaseWillHold
<1>1. Init => Remembers(HeldOnceServed)
  BY DEF Init, Start, Remembers, At
<1> DEFINE Kept == Remembers(HeldOnceServed)
<1>2. Types /\ Kept /\ [Next]_vars => Kept'
  BY RemembersStep
<1>3. Init => Kept
  BY <1>1
<1>4. Kept => LastIsWhatTheDatabaseWillHold
  BY LastMeans
<1> HIDE DEF Kept
<1> QED
  BY <1>2, <1>3, <1>4, TypesInvariant, PTL DEF Spec
-----------------------------------------------------------------------------
(* The text tracked of a project file.                                      *)

(* An open file: the last message about it sets its buffer's text, or the   *)
(* text is tracked already and nothing on its way is about the file.        *)
SetAt(rx, i, p, text) ==
    /\ Sets(rx[i], p) /\ rx[i].text = text
    /\ \A j \in DOMAIN rx : j > i => ~Sets(rx[j], p) /\ ~Resyncs(rx[j], p)
Untouched(rx, p) == \A j \in DOMAIN rx : ~Sets(rx[j], p) /\ ~Resyncs(rx[j], p)
OpenTracked(rx, held, text, p) ==
    \/ \E i \in DOMAIN rx : SetAt(rx, i, p, text)
    \/ held = text /\ Untouched(rx, p)

(* A closed one: the last message about it reverts it to disk, or the text  *)
(* is that of the disk.                                                     *)
RevertAt(rx, i, p) ==
    Undoes(rx[i], p) /\ \A j \in DOMAIN rx : j > i => ~Sets(rx[j], p)
NeverSet(rx, p) == \A j \in DOMAIN rx : ~Sets(rx[j], p)
ClosedTracked(rx, held, now, p) ==
    \/ \E i \in DOMAIN rx : RevertAt(rx, i, p)
    \/ (now = Absent \/ held \in {None, now}) /\ NeverSet(rx, p)

(* Or its change is yet to be reported.                                     *)
TrackedFollows(p) ==
    LET f == ProjectOf(p)
    IN  IF documents[f] # None
        THEN OpenTracked(sync_rx, tracked[p], documents[f], p)
        ELSE f \in unreported \/ ClosedTracked(sync_rx, tracked[p], disk[f], p)
TrackInv == Reported /\ \A p \in Projects : TrackedFollows(p)

(* Messages about other files change nothing.                               *)
LEMMA OpenAppend ==
    ASSUME NEW S, NEW rx \in Seq(S), NEW more \in Seq(S), NEW p, NEW held,
           NEW text, OpenTracked(rx, held, text, p), Untouched(more, p)
    PROVE  OpenTracked(rx \o more, held, text, p)
<1> DEFINE all == rx \o more
<1>1. /\ DOMAIN rx = 1..Len(rx) /\ DOMAIN more = 1..Len(more) /\ Len(rx) \in Nat
      /\ DOMAIN all = 1..(Len(rx) + Len(more)) /\ Len(more) \in Nat
      /\ \A j \in DOMAIN rx : j \in DOMAIN all /\ all[j] = rx[j]
      /\ \A j \in DOMAIN all : j \notin DOMAIN rx =>
           j - Len(rx) \in DOMAIN more /\ all[j] = more[j - Len(rx)]
  OBVIOUS
<1> HIDE DEF all
<1>2. \A j \in DOMAIN all : j \notin DOMAIN rx => ~Sets(all[j], p) /\ ~Resyncs(all[j], p)
  BY <1>1 DEF Untouched
<1>3. CASE \E i \in DOMAIN rx : SetAt(rx, i, p, text)
  <2>1. PICK i \in DOMAIN rx : SetAt(rx, i, p, text)
    BY <1>3
  <2>2. i \in DOMAIN all /\ SetAt(all, i, p, text)
    BY <1>1, <1>2, <2>1 DEF SetAt
  <2> QED
    BY <2>2 DEF OpenTracked, all
<1>4. CASE held = text /\ Untouched(rx, p)
  <2>1. Untouched(all, p)
    BY <1>1, <1>2, <1>4 DEF Untouched
  <2> QED
    BY <1>4, <2>1 DEF OpenTracked, all
<1> QED
  BY <1>3, <1>4 DEF OpenTracked

LEMMA ClosedAppend ==
    ASSUME NEW S, NEW rx \in Seq(S), NEW more \in Seq(S), NEW p, NEW held,
           NEW now, ClosedTracked(rx, held, now, p), NeverSet(more, p)
    PROVE  ClosedTracked(rx \o more, held, now, p)
<1> DEFINE all == rx \o more
<1>1. /\ DOMAIN rx = 1..Len(rx) /\ DOMAIN more = 1..Len(more) /\ Len(rx) \in Nat
      /\ DOMAIN all = 1..(Len(rx) + Len(more)) /\ Len(more) \in Nat
      /\ \A j \in DOMAIN rx : j \in DOMAIN all /\ all[j] = rx[j]
      /\ \A j \in DOMAIN all : j \notin DOMAIN rx =>
           j - Len(rx) \in DOMAIN more /\ all[j] = more[j - Len(rx)]
  OBVIOUS
<1> HIDE DEF all
<1>2. \A j \in DOMAIN all : j \notin DOMAIN rx => ~Sets(all[j], p)
  BY <1>1 DEF NeverSet
<1>3. CASE \E i \in DOMAIN rx : RevertAt(rx, i, p)
  <2>1. PICK i \in DOMAIN rx : RevertAt(rx, i, p)
    BY <1>3
  <2>2. i \in DOMAIN all /\ RevertAt(all, i, p)
    BY <1>1, <1>2, <2>1 DEF RevertAt
  <2> QED
    BY <2>2 DEF ClosedTracked, all
<1>4. CASE (now = Absent \/ held \in {None, now}) /\ NeverSet(rx, p)
  <2>1. NeverSet(all, p)
    BY <1>1, <1>2, <1>4 DEF NeverSet
  <2> QED
    BY <1>4, <2>1 DEF ClosedTracked, all
<1> QED
  BY <1>3, <1>4 DEF ClosedTracked

(* A buffer's text appended is tracked at the end.                          *)
LEMMA OpenSet ==
    ASSUME NEW S, NEW rx \in Seq(S), NEW more \in Seq(S), NEW p, NEW held,
           NEW text, NEW msg \in S,
           Sets(msg, p), msg.text = text, Untouched(more, p)
    PROVE  OpenTracked(Append(rx, msg) \o more, held, text, p)
<1> DEFINE all == Append(rx, msg) \o more
           n == Len(rx) + 1
<1>1. /\ n \in DOMAIN all /\ all[n] = msg
      /\ DOMAIN more = 1..Len(more)
      /\ \A j \in DOMAIN all : j > n => j - n \in DOMAIN more /\ all[j] = more[j - n]
  OBVIOUS
<1> HIDE DEF all, n
<1>2. SetAt(all, n, p, text)
  BY <1>1 DEF SetAt, Untouched
<1> QED
  BY <1>1, <1>2 DEF OpenTracked, all

(* A revert appended after which nothing sets the text.                     *)
LEMMA ClosedRevert ==
    ASSUME NEW S, NEW rx \in Seq(S), NEW more \in Seq(S), NEW p, NEW held,
           NEW now, NEW k \in DOMAIN more, Undoes(more[k], p), NeverSet(more, p)
    PROVE  ClosedTracked(rx \o more, held, now, p)
<1> DEFINE all == rx \o more
           n == Len(rx) + k
<1>1. /\ n \in DOMAIN all /\ all[n] = more[k]
      /\ \A j \in DOMAIN all : j > n => j - Len(rx) \in DOMAIN more /\ all[j] = more[j - Len(rx)]
  OBVIOUS
<1> HIDE DEF all, n
<1>2. RevertAt(all, n, p)
  BY <1>1 DEF RevertAt, NeverSet
<1> QED
  BY <1>1, <1>2 DEF ClosedTracked, all

LEMMA RevertsSetNothing ==
    ASSUME NEW files, NEW p
    PROVE  NeverSet(Reverts(files), p)
<1> DEFINE undo == Reverts(files)
<1>1. undo \in Seq(Revert)
  BY RevertsTyped
<1> HIDE DEF undo
<1>2. \A j \in DOMAIN undo : undo[j] \in Revert
  BY <1>1
<1>3. \A j \in DOMAIN undo : undo[j].kind = "Revert"
  BY <1>2 DEF Revert
<1>4. NeverSet(undo, p)
  BY <1>3 DEF NeverSet, Sets
<1> QED
  BY <1>4 DEF undo

(* A revert is about a file the list names.                                 *)
LEMMA RevertsLeave ==
    ASSUME NEW files, NEW p \in Projects, ProjectOf(p) \notin files
    PROVE  Untouched(Reverts(files), p)
<1> DEFINE undo == Reverts(files)
<1>1. undo \in Seq(Revert) /\ \A i \in DOMAIN undo : undo[i].file \in files
  BY RevertsTyped
<1> HIDE DEF undo
<1>2. \A j \in DOMAIN undo : undo[j] \in Revert
  BY <1>1
<1>3. \A j \in DOMAIN undo : undo[j].kind = "Revert"
  BY <1>2 DEF Revert
<1>4. Untouched(undo, p)
  BY <1>1, <1>3 DEF Untouched, Sets, Resyncs, Undoes
<1> QED
  BY <1>4 DEF undo

(* A step that leaves a file's buffer and its tracked text alone and sends  *)
(* nothing about it, and the file too, or it is open or has the change      *)
(* reported.                                                                *)
LEMMA FollowsFrame ==
    ASSUME Types, NEW p \in Projects, TrackedFollows(p),
           documents'[ProjectOf(p)] = documents[ProjectOf(p)],
           tracked'[p] = tracked[p],
           \/ documents[ProjectOf(p)] # None \/ disk'[ProjectOf(p)] = disk[ProjectOf(p)]
           \/ ProjectOf(p) \in unreported',
           ProjectOf(p) \in unreported => ProjectOf(p) \in unreported',
           NEW more \in Seq(SyncMessage), sync_rx' = sync_rx \o more,
           documents[ProjectOf(p)] # None => Untouched(more, p),
           NeverSet(more, p)
    PROVE  TrackedFollows(p)'
<1> DEFINE text == documents[ProjectOf(p)]
           now == disk[ProjectOf(p)]
           held == tracked[p]
<1>1. sync_rx \in Seq(SyncMessage)
  BY DEF Types
<1> HIDE DEF text, now, held
<1>2. OpenTracked(sync_rx, held, text, p) /\ Untouched(more, p)
        => OpenTracked(sync_rx', held, text, p)
  BY <1>1, OpenAppend
<1>3. ClosedTracked(sync_rx, held, now, p) => ClosedTracked(sync_rx', held, now, p)
  BY <1>1, ClosedAppend
<1> QED
  BY <1>2, <1>3 DEF TrackedFollows, text, now, held

LEMMA SameFile ==
    ASSUME NEW p \in Projects, NEW q \in Projects
    PROVE  (ProjectOf(p) = ProjectOf(q)) <=> p = q
BY DEF ProjectOf

LEMMA RouteTracked ==
    ASSUME Types, NEW f \in EnvFiles, NEW text \in Holds(f), RouteDocument(f, text),
           UNCHANGED <<disk, unreported, tracked>>, NEW p \in Projects, TrackedFollows(p)
    PROVE  TrackedFollows(p)'
<1> DEFINE msg == [kind |-> "SetText", file |-> f, text |-> text]
           more == IF IsProject(f) THEN <<msg>> ELSE <<>>
           none == <<>>
<1>1. /\ documents' = [documents EXCEPT ![f] = text]
      /\ sync_rx' = IF IsProject(f) THEN Append(sync_rx, msg) ELSE sync_rx
  BY DEF RouteDocument
<1>2. sync_rx \in Seq(SyncMessage) /\ documents \in [EnvFiles -> Texts \cup {None}]
  BY DEF Types, DocumentsOK
<1>3. IsProject(f) => msg \in SyncMessage
  BY HoldsTexts, ProjectFilesAre DEF SyncMessage, SetText, ProjectFiles
<1>4. ProjectOf(p) \in EnvFiles /\ IsProject(ProjectOf(p))
  BY ProjectFile
<1>5. CASE ProjectOf(p) = f
  <2>1. Sets(msg, p) /\ msg.text = text
    BY <1>5 DEF Sets
  <2>2. none \in Seq(SyncMessage) /\ Untouched(none, p)
    BY DEF Untouched
  <2>3. msg \in SyncMessage /\ sync_rx' = Append(sync_rx, msg)
    BY <1>1, <1>3, <1>4, <1>5
  <2>4. Append(sync_rx, msg) \o none = Append(sync_rx, msg)
    <3> HIDE DEF msg
    <3> QED
      BY <1>2, <2>3
  <2> DEFINE held == tracked[p]
  <2> HIDE DEF msg, none, held
  <2>5. OpenTracked(Append(sync_rx, msg) \o none, held, text, p)
    BY <1>2, <2>1, <2>2, <2>3, OpenSet
  <2>6. OpenTracked(sync_rx', held, text, p)
    BY <2>3, <2>4, <2>5
  <2>7. text # None
    BY HoldsTexts
  <2> QED
    BY <1>1, <1>2, <1>5, <2>6, <2>7 DEF TrackedFollows, held
<1>6. CASE ProjectOf(p) # f
  <2>1. more \in Seq(SyncMessage)
    <3> HIDE DEF msg
    <3> QED
      BY <1>3
  <2>2. Untouched(more, p) /\ NeverSet(more, p)
    BY <1>6 DEF Untouched, NeverSet, Sets, Resyncs, Undoes
  <2>3. sync_rx' = sync_rx \o more
    <3> HIDE DEF msg
    <3> QED
      BY <1>1, <1>2, <1>3
  <2>4. documents'[ProjectOf(p)] = documents[ProjectOf(p)]
    BY <1>1, <1>2, <1>4, <1>6
  <2> HIDE DEF more
  <2> QED
    BY <2>1, <2>2, <2>3, <2>4, FollowsFrame
<1> QED
  BY <1>5, <1>6

LEMMA CloseTracked ==
    ASSUME Types, NEW f \in EnvFiles, DidClose(f), NEW p \in Projects, TrackedFollows(p)
    PROVE  TrackedFollows(p)'
<1> DEFINE more == Reverts({f})
<1>1. /\ documents' = [documents EXCEPT ![f] = None] /\ sync_rx' = sync_rx \o more
      /\ UNCHANGED <<disk, unreported, tracked>>
  BY DEF DidClose, dbVars
<1>2. sync_rx \in Seq(SyncMessage) /\ documents \in [EnvFiles -> Texts \cup {None}]
  BY DEF Types, DocumentsOK
<1>3. more \in Seq(SyncMessage) /\ NeverSet(more, p)
  BY RevertsTyped, RevertsSetNothing DEF SyncMessage
<1>4. ProjectOf(p) \in EnvFiles /\ IsProject(ProjectOf(p))
  BY ProjectFile
<1>5. CASE ProjectOf(p) = f
  <2>1. \E k \in DOMAIN more : more[k] = [kind |-> "Revert", file |-> f, text |-> None]
    BY <1>4, <1>5, RevertsTyped
  <2>2. PICK k \in DOMAIN more : Undoes(more[k], p)
    BY <1>5, <2>1 DEF Undoes
  <2> DEFINE held == tracked[p]
             now == disk[f]
  <2> HIDE DEF more, held, now
  <2>3. ClosedTracked(sync_rx', held, now, p)
    BY <1>1, <1>2, <1>3, <2>2, ClosedRevert
  <2> QED
    BY <1>1, <1>2, <1>5, <2>3 DEF TrackedFollows, held, now
<1>6. CASE ProjectOf(p) # f
  <2>1. Untouched(more, p)
    BY <1>6, RevertsLeave
  <2>2. documents'[ProjectOf(p)] = documents[ProjectOf(p)]
    BY <1>1, <1>2, <1>4, <1>6
  <2> HIDE DEF more
  <2> QED
    BY <1>1, <1>3, <2>1, <2>2, FollowsFrame
<1> QED
  BY <1>5, <1>6

(* What a change of files on disk is to those it leaves alone, and to a     *)
(* watching client.                                                         *)
LEMMA OnDiskLeaves ==
    ASSUME ClientOK, NEW change, NEW reason, OnDisk(change, reason)
    PROVE  /\ unreported \subseteq unreported'
           /\ budget.watched => DOMAIN change \subseteq unreported'
           /\ \A g \in EnvFiles : g \notin DOMAIN change => disk'[g] = disk[g]
BY DEF OnDisk, ClientOK

LEMMA NothingSent ==
    ASSUME Types, UNCHANGED sync_rx, NEW p
    PROVE  <<>> \in Seq(SyncMessage) /\ sync_rx' = sync_rx \o <<>>
           /\ Untouched(<<>>, p) /\ NeverSet(<<>>, p)
BY DEF Types, Untouched, NeverSet

LEMMA SavesTracked ==
    ASSUME Types, NEW f \in EnvFiles, DidSave(f), NEW p \in Projects, TrackedFollows(p)
    PROVE  TrackedFollows(p)'
<1> DEFINE change == [g \in {f} |-> documents[f]]
           none == <<>>
<1>1. OnDisk(change, "written") /\ documents[f] # None
      /\ UNCHANGED <<documents, tracked, sync_rx>>
  BY DEF DidSave, mainVars, dbVars
<1>2. DOMAIN change = {f}
  OBVIOUS
<1> HIDE DEF change
<1>3. /\ unreported \subseteq unreported'
      /\ \A g \in EnvFiles : g # f => disk'[g] = disk[g]
  BY <1>1, <1>2, OnDiskLeaves DEF Types
<1>4. /\ none \in Seq(SyncMessage) /\ sync_rx' = sync_rx \o none
      /\ Untouched(none, p) /\ NeverSet(none, p)
  BY <1>1, NothingSent
<1>5. documents[ProjectOf(p)] # None \/ disk'[ProjectOf(p)] = disk[ProjectOf(p)]
  BY <1>1, <1>3, ProjectFile
<1> HIDE DEF none
<1> QED
  BY <1>1, <1>3, <1>4, <1>5, FollowsFrame

(* Another program's writes are reported: of an environment file, by        *)
(* assumption; of a source, no text is tracked here.                        *)
LEMMA WritesTracked ==
    ASSUME Types, Reported, NEW f \in EnvFiles \cup Sources, NEW text,
           (f \in Sources /\ DidSaveSource(f, text)) \/ Rewrite(f, text),
           NEW p \in Projects, TrackedFollows(p)
    PROVE  TrackedFollows(p)'
<1> DEFINE change == [g \in {f} |-> text]
           none == <<>>
<1>1. OnDisk(change, "written") /\ UNCHANGED <<documents, tracked, sync_rx>>
  BY DEF DidSaveSource, Rewrite, mainVars, dbVars
<1>2. DOMAIN change = {f}
  OBVIOUS
<1> HIDE DEF change
<1>3. /\ unreported \subseteq unreported'
      /\ budget.watched => f \in unreported'
      /\ \A g \in EnvFiles : g # f => disk'[g] = disk[g]
  BY <1>1, <1>2, OnDiskLeaves DEF Types
<1>4. /\ none \in Seq(SyncMessage) /\ sync_rx' = sync_rx \o none
      /\ Untouched(none, p) /\ NeverSet(none, p)
  BY <1>1, NothingSent
<1>5. ProjectOf(p) \in EnvFiles /\ ProjectOf(p) \notin Sources
  BY ProjectFile, FilesAssumption
<1>6. f \in Sources \/ budget.watched
  <2>1. CASE Rewrite(f, text)
    <3>1. budget.writes > 0
      BY <2>1 DEF Rewrite, Spend
    <3> QED
      BY <3>1 DEF Reported
  <2> QED
    BY <2>1
<1>7. disk'[ProjectOf(p)] = disk[ProjectOf(p)] \/ ProjectOf(p) \in unreported'
  BY <1>3, <1>5, <1>6
<1> HIDE DEF none
<1> QED
  BY <1>1, <1>3, <1>4, <1>7, FollowsFrame

LEMMA WatcherTracked ==
    ASSUME Types, NEW batch \in SUBSET unreported, DidChangeWatchedFiles(batch),
           NEW p \in Projects, TrackedFollows(p)
    PROVE  TrackedFollows(p)'
<1> DEFINE f == ProjectOf(p)
           files == {g \in batch \cap EnvFiles : documents[g] = None}
           more == Reverts(files)
<1>1. /\ sync_rx' = sync_rx \o more /\ unreported' = unreported \ batch
      /\ UNCHANGED <<disk, documents, tracked>>
  BY DEF DidChangeWatchedFiles, mainVars, dbVars
<1>2. sync_rx \in Seq(SyncMessage)
  BY DEF Types
<1>3. more \in Seq(SyncMessage) /\ NeverSet(more, p)
  BY RevertsTyped, RevertsSetNothing DEF SyncMessage
<1>4. f \in EnvFiles /\ IsProject(f)
  BY ProjectFile
<1>5. CASE f \in files
  <2>1. \E k \in DOMAIN more : more[k] = [kind |-> "Revert", file |-> f, text |-> None]
    BY <1>4, <1>5, RevertsTyped
  <2>2. PICK k \in DOMAIN more : Undoes(more[k], p)
    BY <2>1 DEF Undoes
  <2>3. documents[f] = None
    BY <1>5
  <2> DEFINE held == tracked[p]
             now == disk[f]
  <2> HIDE DEF more, held, now
  <2>4. ClosedTracked(sync_rx', held, now, p)
    BY <1>1, <1>2, <1>3, <2>2, ClosedRevert
  <2> QED
    BY <1>1, <2>3, <2>4 DEF TrackedFollows, held, now
<1>6. CASE f \notin files
  <2>1. Untouched(more, p)
    BY <1>6, RevertsLeave
  <2>2. CASE documents[f] = None
    <3>1. f \notin batch
      BY <1>4, <1>6, <2>2
    <3>2. f \in unreported => f \in unreported'
      BY <1>1, <3>1
    <3> HIDE DEF more, files
    <3> QED
      BY <1>1, <1>3, <2>1, <3>2, FollowsFrame
  <2>3. CASE documents[f] # None
    <3> DEFINE held == tracked[p]
               text == documents[f]
    <3> HIDE DEF more, held, text
    <3>1. OpenTracked(sync_rx, held, text, p)
      BY <2>3 DEF TrackedFollows, held, text
    <3>2. OpenTracked(sync_rx', held, text, p)
      BY <1>1, <1>2, <1>3, <2>1, <3>1, OpenAppend
    <3> QED
      BY <1>1, <2>3, <3>2 DEF TrackedFollows, held, text
  <2> QED
    BY <2>2, <2>3
<1> QED
  BY <1>5, <1>6

LEMMA RenameTracked ==
    ASSUME Types, Reported, NEW p \in Projects, NEW n \in Names, NEW m \in Names, n # m,
           RenameEntry(p, n, m), NEW q \in Projects, TrackedFollows(q)
    PROVE  TrackedFollows(q)'
<1> DEFINE f == ProjectOf(p)
           old == EntryOf[p][n]
           new == EntryOf[p][m]
           edited == [tracked[p] EXCEPT !.name = m]
           moved == [s \in {old, new} |-> IF s = old THEN Absent ELSE disk[old]]
           open == {r \in Projects : documents[ProjectOf(r)] # None}
           renamed == [kind |-> "RenamedProjects", old |-> old, open |-> open]
           set == [kind |-> "SetText", file |-> f, text |-> edited]
           one == <<renamed>>
           two == <<set, renamed>>
           g == ProjectOf(q)
<1>1. /\ f \in EnvFiles /\ old \in Sources /\ new \in Sources /\ f \in ProjectFiles
      /\ g \in EnvFiles /\ g \notin Sources
  BY ProjectFile, EntryTyped, FilesAssumption
<1>2. sync_rx \in Seq(SyncMessage) /\ documents \in [EnvFiles -> Texts \cup {None}]
  BY DEF Types, DocumentsOK
<1>3. renamed \in SyncMessage
  BY <1>1 DEF SyncMessage, Renamed
<1>4. one \in Seq(SyncMessage) /\ NeverSet(one, q) /\ (documents[g] # None => Untouched(one, q))
  <2>1. one \in Seq(SyncMessage)
    <3> HIDE DEF renamed
    <3> QED
      BY <1>3
  <2>2. DOMAIN one = {1} /\ one[1] = renamed
    OBVIOUS
  <2> HIDE DEF one
  <2>3. NeverSet(one, q) /\ (documents[g] # None => Untouched(one, q))
    BY <2>2 DEF NeverSet, Untouched, Sets, Resyncs, Undoes
  <2> QED
    BY <2>1, <2>3
<1>5. UNCHANGED tracked /\ budget.watched
  <2>1. budget.renames > 0
    BY DEF RenameEntry, Spend
  <2> QED
    BY <2>1 DEF Reported, RenameEntry, dbVars
<1>6. DOMAIN moved = {old, new}
  OBVIOUS
<1>7. CASE NameFollows(p, n) /\ documents[f] # None
  <2>1. edited \in ProjectTexts
    BY <1>7, EditedTyped DEF Types
  <2>2. set \in SyncMessage
    BY <1>1, <2>1 DEF SyncMessage, SetText
  <2>3. /\ documents' = [documents EXCEPT ![f] = edited]
        /\ OnDisk(moved, "renamed") /\ sync_rx' = sync_rx \o two
    BY <1>7 DEF RenameEntry
  <2>4. CASE q = p
    <3> DEFINE held == tracked[p]
    <3>1. Untouched(one, p)
      BY <1>4, <1>7, <2>4
    <3>2. Sets(set, p) /\ set.text = edited
      BY DEF Sets
    <3> HIDE DEF set, renamed
    <3>3. sync_rx \o two = Append(sync_rx, set) \o one
      BY <1>2, <1>3, <2>2, AppendTwo
    <3>4. sync_rx' = Append(sync_rx, set) \o one
      BY <2>3, <3>3
    <3> HIDE DEF one, two, edited, held
    <3>5. OpenTracked(Append(sync_rx, set) \o one, held, edited, p)
      BY <1>2, <1>4, <2>2, <3>1, <3>2, OpenSet
    <3>6. edited # None
      BY <2>1, FilesAssumption DEF Texts
    <3>7. documents'[f] = edited
      BY <1>1, <1>2, <2>3
    <3> QED
      BY <1>5, <2>4, <3>4, <3>5, <3>6, <3>7 DEF TrackedFollows, held
  <2>5. CASE q # p
    <3>1. g # f
      BY <2>5, SameFile
    <3>2. DOMAIN two = {1, 2} /\ two[1] = set /\ two[2] = renamed
      OBVIOUS
    <3>3. two \in Seq(SyncMessage)
      <4> HIDE DEF set, renamed
      <4> QED
        BY <1>3, <2>2
    <3> HIDE DEF two
    <3>4. NeverSet(two, q) /\ (documents[g] # None => Untouched(two, q))
      BY <3>1, <3>2 DEF NeverSet, Untouched, Sets, Resyncs, Undoes
    <3>5. documents'[g] = documents[g]
      BY <1>1, <1>2, <2>3, <3>1
    <3> HIDE DEF moved
    <3>6. unreported \subseteq unreported' /\ disk'[g] = disk[g]
      BY <1>1, <1>6, <2>3, OnDiskLeaves DEF Types
    <3> QED
      BY <1>5, <2>3, <3>3, <3>4, <3>5, <3>6, FollowsFrame
  <2> QED
    BY <2>4, <2>5
<1>8. CASE ~(NameFollows(p, n) /\ documents[f] # None)
  <2>1. UNCHANGED documents /\ sync_rx' = sync_rx \o one
    <3>1. sync_rx' = Append(sync_rx, renamed) /\ UNCHANGED documents
      BY <1>8 DEF RenameEntry
    <3> HIDE DEF renamed
    <3> QED
      BY <1>2, <1>3, <3>1
  <2>2. /\ unreported \subseteq unreported'
        /\ disk'[g] = disk[g] \/ g \in unreported'
    <3>1. CASE NameFollows(p, n)
      <4> DEFINE both == Put(moved, f, edited)
      <4>1. OnDisk(both, "renamed")
        BY <1>8, <3>1 DEF RenameEntry
      <4>2. DOMAIN both = {old, new, f}
        BY <1>6 DEF Put
      <4> HIDE DEF both
      <4>3. f \in unreported' /\ unreported \subseteq unreported'
        BY <1>5, <4>1, <4>2, OnDiskLeaves DEF Types
      <4>4. g # f => disk'[g] = disk[g]
        BY <1>1, <4>1, <4>2, OnDiskLeaves DEF Types
      <4> QED
        BY <4>3, <4>4
    <3>2. CASE ~NameFollows(p, n)
      <4>1. OnDisk(moved, "moved")
        BY <3>2 DEF RenameEntry
      <4> HIDE DEF moved
      <4> QED
        BY <1>1, <1>6, <4>1, OnDiskLeaves DEF Types
    <3> QED
      BY <3>1, <3>2
  <2> HIDE DEF one
  <2> QED
    BY <1>4, <1>5, <2>1, <2>2, FollowsFrame
<1> QED
  BY <1>7, <1>8

(* The first message on its way is taken.                                   *)
LEMMA OpenTail ==
    ASSUME NEW S, NEW rx \in Seq(S), rx # <<>>, NEW p, NEW held, NEW text, NEW next,
           OpenTracked(rx, held, text, p),
           Sets(Head(rx), p) => next = Head(rx).text,
           ~Sets(Head(rx), p) /\ ~Resyncs(Head(rx), p) => next = held
    PROVE  OpenTracked(Tail(rx), next, text, p)
<1> DEFINE rest == Tail(rx)
<1>1. /\ Head(rx) = rx[1] /\ 1 \in DOMAIN rx
      /\ \A j \in DOMAIN rest : j + 1 \in DOMAIN rx /\ rest[j] = rx[j+1] /\ j \in Nat /\ j > 0
      /\ \A i \in DOMAIN rx : i \in Nat /\ (i # 1 => i - 1 \in DOMAIN rest /\ rest[i-1] = rx[i])
  OBVIOUS
<1> HIDE DEF rest
<1>2. CASE \E i \in DOMAIN rx : SetAt(rx, i, p, text)
  <2>1. PICK i \in DOMAIN rx : SetAt(rx, i, p, text)
    BY <1>2
  <2>2. CASE i = 1
    <3>1. next = text
      BY <1>1, <2>1, <2>2 DEF SetAt
    <3>2. Untouched(rest, p)
      BY <1>1, <2>1, <2>2 DEF SetAt, Untouched
    <3> QED
      BY <3>1, <3>2 DEF OpenTracked, rest
  <2>3. CASE i # 1
    <3>1. i - 1 \in DOMAIN rest /\ SetAt(rest, i - 1, p, text)
      BY <1>1, <2>1, <2>3 DEF SetAt
    <3> QED
      BY <3>1 DEF OpenTracked, rest
  <2> QED
    BY <2>2, <2>3
<1>3. CASE held = text /\ Untouched(rx, p)
  <2>1. next = text
    BY <1>1, <1>3 DEF Untouched
  <2>2. Untouched(rest, p)
    BY <1>1, <1>3 DEF Untouched
  <2> QED
    BY <2>1, <2>2 DEF OpenTracked, rest
<1> QED
  BY <1>2, <1>3 DEF OpenTracked

LEMMA ClosedTail ==
    ASSUME NEW S, NEW rx \in Seq(S), rx # <<>>, NEW p, NEW held, NEW now, NEW next,
           ClosedTracked(rx, held, now, p),
           NEW reverted, now = Absent \/ reverted \in {None, now},
           Undoes(Head(rx), p) => next = reverted,
           ~Sets(Head(rx), p) => next \in {held, reverted}
    PROVE  ClosedTracked(Tail(rx), next, now, p)
<1> DEFINE rest == Tail(rx)
<1>1. /\ Head(rx) = rx[1] /\ 1 \in DOMAIN rx
      /\ \A j \in DOMAIN rest : j + 1 \in DOMAIN rx /\ rest[j] = rx[j+1] /\ j \in Nat /\ j > 0
      /\ \A i \in DOMAIN rx : i \in Nat /\ (i # 1 => i - 1 \in DOMAIN rest /\ rest[i-1] = rx[i])
  OBVIOUS
<1> HIDE DEF rest
<1>2. CASE \E i \in DOMAIN rx : RevertAt(rx, i, p)
  <2>1. PICK i \in DOMAIN rx : RevertAt(rx, i, p)
    BY <1>2
  <2>2. CASE i = 1
    <3>1. now = Absent \/ next \in {None, now}
      BY <1>1, <2>1, <2>2 DEF RevertAt
    <3>2. NeverSet(rest, p)
      BY <1>1, <2>1, <2>2 DEF RevertAt, NeverSet
    <3> QED
      BY <3>1, <3>2 DEF ClosedTracked, rest
  <2>3. CASE i # 1
    <3>1. i - 1 \in DOMAIN rest /\ RevertAt(rest, i - 1, p)
      BY <1>1, <2>1, <2>3 DEF RevertAt
    <3> QED
      BY <3>1 DEF ClosedTracked, rest
  <2> QED
    BY <2>2, <2>3
<1>3. CASE (now = Absent \/ held \in {None, now}) /\ NeverSet(rx, p)
  <2>1. now = Absent \/ next \in {None, now}
    BY <1>1, <1>3 DEF NeverSet
  <2>2. NeverSet(rest, p)
    BY <1>1, <1>3 DEF NeverSet
  <2> QED
    BY <2>1, <2>2 DEF ClosedTracked, rest
<1> QED
  BY <1>2, <1>3 DEF ClosedTracked

LEMMA SyncTracked ==
    ASSUME Types, OnSyncMessage, NEW p \in Projects, TrackedFollows(p)
    PROVE  TrackedFollows(p)'
<1> DEFINE f == ProjectOf(p)
           held == tracked[p]
           next == tracked'[p]
           text == documents[f]
           now == disk[f]
           reverted == RevertedText(tracked, p)
<1>1. /\ sync_rx \in Seq(SyncMessage) /\ sync_rx # <<>> /\ sync_rx' = Tail(sync_rx)
      /\ UNCHANGED <<disk, documents, unreported>>
  BY DEF Types, OnSyncMessage, clientVars, mainVars
<1>2. /\ Sets(Head(sync_rx), p) => next = Head(sync_rx).text
      /\ Undoes(Head(sync_rx), p) => next = reverted
      /\ ~Sets(Head(sync_rx), p) => next \in {held, reverted}
      /\ ~Sets(Head(sync_rx), p) /\ ~Resyncs(Head(sync_rx), p) => next = held
  BY SyncedText
<1>3. now = Absent \/ reverted \in {None, now}
  BY DEF RevertedText
<1> HIDE DEF held, next, text, now, reverted
<1>4. OpenTracked(sync_rx, held, text, p) => OpenTracked(sync_rx', next, text, p)
  BY <1>1, <1>2, OpenTail
<1>5. ClosedTracked(sync_rx, held, now, p) => ClosedTracked(sync_rx', next, now, p)
  BY <1>1, <1>2, <1>3, ClosedTail
<1> QED
  BY <1>1, <1>4, <1>5 DEF TrackedFollows, held, next, text, now

(* A library may begin to track a file; a tracked one stays as it is.       *)
LEMMA LibraryTracked ==
    ASSUME Types, OnLibraryMessage, NEW p \in Projects, TrackedFollows(p)
    PROVE  TrackedFollows(p)'
<1> DEFINE f == ProjectOf(p)
           held == tracked[p]
           next == tracked'[p]
           text == documents[f]
           now == disk[f]
<1>1. UNCHANGED <<disk, documents, unreported, sync_rx>>
  BY DEF OnLibraryMessage, clientVars, mainVars
<1>2. next \in {held, Seeded(p)}
  BY DEF OnLibraryMessage, OnFullLibrary, OnPackage
<1>3. held # None => next = held
  BY <1>2 DEF Seeded
<1>4. held = None => next \in {None, now}
  BY <1>2 DEF Seeded
<1> HIDE DEF held, next, text, now
<1>5. text # None /\ OpenTracked(sync_rx, held, text, p) => OpenTracked(sync_rx, next, text, p)
  BY <1>3 DEF OpenTracked
<1>6. ClosedTracked(sync_rx, held, now, p) => ClosedTracked(sync_rx, next, now, p)
  BY <1>3, <1>4 DEF ClosedTracked
<1> QED
  BY <1>1, <1>5, <1>6 DEF TrackedFollows, held, next, text, now

LEMMA TrackedStep == Types /\ TrackInv /\ [Next]_vars => TrackInv'
<1> SUFFICES ASSUME Types, TrackInv, [Next]_vars PROVE TrackInv'
  OBVIOUS
<1>1. Reported /\ \A p \in Projects : TrackedFollows(p)
  BY DEF TrackInv
<1>2. CASE UNCHANGED <<disk, budget, unreported, documents, sync_rx, tracked>>
  BY <1>1, <1>2 DEF TrackInv, TrackedFollows, Reported
<1>3. CASE \E f \in EnvFiles : DidOpen(f) \/ \E text \in TypedIn[f] : DidChange(f, text)
  <2>1. PICK f \in EnvFiles : DidOpen(f) \/ \E text \in TypedIn[f] : DidChange(f, text)
    BY <1>3
  <2>2. PICK text \in Holds(f) : RouteDocument(f, text)
    <3>1. CASE DidOpen(f)
      <4>1. disk[f] \in Holds(f)
        BY <3>1 DEF Types, ClientOK, DidOpen
      <4> QED
        BY <3>1, <4>1 DEF DidOpen
    <3>2. CASE \E text \in TypedIn[f] : DidChange(f, text)
      BY <3>2, FilesAssumption DEF DidChange
    <3> QED
      BY <2>1, <3>1, <3>2
  <2>3. UNCHANGED <<disk, unreported, tracked>>
    BY <2>1 DEF DidOpen, DidChange, dbVars
  <2>4. Reported'
    BY <1>1, <2>1, SpendTyped DEF DidOpen, DidChange, Counters, Types, ClientOK
  <2>5. \A p \in Projects : TrackedFollows(p)'
    BY <1>1, <2>2, <2>3, RouteTracked
  <2> QED
    BY <2>4, <2>5 DEF TrackInv
<1>4. CASE \E f \in EnvFiles : DidClose(f) \/ DidSave(f)
  <2>1. PICK f \in EnvFiles : DidClose(f) \/ DidSave(f)
    BY <1>4
  <2>2. Reported'
    BY <1>1, <2>1, SpendTyped DEF DidClose, DidSave, Counters, Types, ClientOK
  <2>3. \A p \in Projects : TrackedFollows(p)'
    BY <1>1, <2>1, CloseTracked, SavesTracked
  <2> QED
    BY <2>2, <2>3 DEF TrackInv
<1>5. CASE \/ \E s \in Sources, content \in Contents : DidSaveSource(s, content)
           \/ \E f \in DOMAIN disk : \E text \in WrittenTo[f] : Rewrite(f, text)
  <2>1. PICK f \in EnvFiles \cup Sources :
          \E text : (f \in Sources /\ DidSaveSource(f, text)) \/ Rewrite(f, text)
    BY <1>5 DEF Types, ClientOK
  <2>2. Reported'
    BY <1>1, <2>1, SpendTyped DEF DidSaveSource, Rewrite, Counters, Types, ClientOK
  <2>3. \A p \in Projects : TrackedFollows(p)'
    BY <1>1, <2>1, WritesTracked
  <2> QED
    BY <2>2, <2>3 DEF TrackInv
<1>6. CASE \E p \in Projects, n, m \in Names : n # m /\ RenameEntry(p, n, m)
  <2>1. PICK p \in Projects, n \in Names, m \in Names : n # m /\ RenameEntry(p, n, m)
    BY <1>6
  <2>2. Reported'
    BY <1>1, <2>1, SpendTyped DEF RenameEntry, Counters, Types, ClientOK
  <2>3. \A q \in Projects : TrackedFollows(q)'
    BY <1>1, <2>1, RenameTracked
  <2> QED
    BY <2>2, <2>3 DEF TrackInv
<1>7. CASE Client
  BY <1>3, <1>4, <1>5, <1>6, <1>7 DEF Client
<1>8. CASE Watcher
  <2>1. PICK batch \in SUBSET unreported : DidChangeWatchedFiles(batch)
    BY <1>8 DEF Watcher
  <2>2. Reported'
    BY <1>1, <2>1, ReportedStays DEF DidChangeWatchedFiles
  <2>3. \A p \in Projects : TrackedFollows(p)'
    BY <1>1, <2>1, WatcherTracked
  <2> QED
    BY <2>2, <2>3 DEF TrackInv
<1>9. CASE AnalysisThread
  <2>1. Reported'
    BY <1>1, <1>9, ReportedStays
       DEF AnalysisThread, OnSyncMessage, OnLibraryMessage, clientVars
  <2>2. \A p \in Projects : TrackedFollows(p)'
    BY <1>1, <1>9, SyncTracked, LibraryTracked DEF AnalysisThread
  <2> QED
    BY <2>1, <2>2 DEF TrackInv
<1>10. CASE TakeFindings \/ Relint
  BY <1>2, <1>10 DEF TakeFindings, Relint, clientVars, mainVars, dbVars
<1>11. CASE Harvester
  BY <1>2, <1>11, HarvesterAlone DEF clientVars, dbVars
<1>12. CASE UNCHANGED vars
  BY <1>2, <1>12 DEF vars, clientVars, mainVars, dbVars
<1> QED
  BY <1>7, <1>8, <1>9, <1>10, <1>11, <1>12 DEF Next

(* What other programs write and what an entry rename edits is reported: a  *)
(* client that does not watch files sees only its own saves.                *)
ChangesAreReported ==
    \A b \in Budgets : b.watched \/ (b.writes = 0 /\ b.renames = 0)

(* A tracked project file holds its buffer while it is open and the file on *)
(* disk otherwise, once everything sent is served: edits, reverts, seeds of *)
(* a library and renames may come in any order.                             *)
THEOREM TrackedTextsFollow ==
    ASSUME ChangesAreReported
    PROVE  Spec => []ProjectTextTracked
<1>1. Init => TrackInv
  <2> SUFFICES ASSUME Init PROVE TrackInv
    OBVIOUS
  <2>1. Reported
    BY DEF Init, Reported, ChangesAreReported
  <2>2. ASSUME NEW p \in Projects PROVE TrackedFollows(p)
    <3>1. documents[ProjectOf(p)] = None /\ tracked[p] = None /\ DOMAIN sync_rx = {}
      BY ProjectFile DEF Init
    <3> QED
      BY <3>1 DEF TrackedFollows, ClosedTracked, NeverSet
  <2> QED
    BY <2>1, <2>2 DEF TrackInv
<1>2. TrackInv => ProjectTextTracked
  <2> SUFFICES ASSUME TrackInv, Quiet, NEW p \in Projects, tracked[p] # None
               PROVE  IF documents[ProjectOf(p)] # None
                      THEN tracked[p] = documents[ProjectOf(p)]
                      ELSE disk[ProjectOf(p)] # Absent => tracked[p] = disk[ProjectOf(p)]
    BY DEF ProjectTextTracked
  <2>1. DOMAIN sync_rx = {} /\ unreported = {}
    BY DEF Quiet
  <2>2. TrackedFollows(p)
    BY DEF TrackInv
  <2> QED
    BY <2>1, <2>2 DEF TrackedFollows, OpenTracked, ClosedTracked
<1> QED
  BY <1>1, <1>2, TrackedStep, TypesInvariant, PTL DEF Spec
-----------------------------------------------------------------------------
(* What a pass over the folders collects.                                   *)

(* One folder of the pass FreshEnvs makes at once.                          *)
AddEnv(envs, dirs) ==
    LET p == Located(dirs)
    IN  IF p = None \/ \E i \in DOMAIN envs : envs[i].project = p
        THEN envs
        ELSE IF Resolved(p).fault # None THEN envs ELSE Append(envs, Resolved(p))

Walked == INSTANCE FoldInduction WITH Op <- AddEnv

IsWalk(g) ==
    /\ g[0] = <<>>
    /\ \A k \in 1..Len(WalkUps) : g[k] = AddEnv(g[k-1], WalkUps[k])
IsListing(h, envs) ==
    /\ h[0] = <<>>
    /\ \A k \in 1..Len(envs) : h[k] = AddDev(h[k-1], envs[k])

LEMMA WalkIsFresh == \A g : IsWalk(g) => FreshEnvs = g[Len(WalkUps)]
<1> SUFFICES ASSUME NEW g, IsWalk(g) PROVE FreshEnvs = g[Len(WalkUps)]
  OBVIOUS
<1>1. WalkUps \in Seq(Seq(Projects))
  BY PlacesAssumption
<1>2. Walked!IsPath(g, WalkUps, <<>>)
  BY DEF IsWalk, Walked!IsPath
<1>3. Walked!FoldLeft(AddEnv, <<>>, WalkUps) = g[Len(WalkUps)]
  BY <1>1, <1>2, Walked!FoldFollows
<1>4. FreshEnvs = Walked!FoldLeft(AddEnv, <<>>, WalkUps)
  BY DEF FreshEnvs, AddEnv, FoldLeft, MapThenFoldSet, Max,
         Walked!FoldLeft, Walked!MapThenFoldSet, Walked!Max
<1> QED
  BY <1>3, <1>4

LEMMA WalkExists == \E g : IsWalk(g)
<1>1. WalkUps \in Seq(Seq(Projects))
  BY PlacesAssumption
<1> DEFINE base == <<>>
<1>2. PICK g : Walked!IsPath(g, WalkUps, base)
  <2> HIDE DEF base
  <2> QED
    BY <1>1, Walked!PathExists
<1> QED
  BY <1>2 DEF IsWalk, Walked!IsPath

LEMMA ListingIsIt ==
    \A envs \in Seq(Env) : \A h : IsListing(h, envs) => DevPackages(envs) = h[Len(envs)]
<1> SUFFICES ASSUME NEW envs \in Seq(Env), NEW h, IsListing(h, envs)
             PROVE  DevPackages(envs) = h[Len(envs)]
  OBVIOUS
<1>1. Listed!IsPath(h, envs, <<>>)
  BY DEF IsListing, Listed!IsPath
<1>2. Listed!FoldLeft(AddDev, <<>>, envs) = h[Len(envs)]
  BY <1>1, Listed!FoldFollows
<1>3. DevPackages(envs) = Listed!FoldLeft(AddDev, <<>>, envs)
  BY DEF DevPackages, AddDev, FoldLeft, MapThenFoldSet, Max,
         Listed!FoldLeft, Listed!MapThenFoldSet, Listed!Max
<1> QED
  BY <1>2, <1>3

LEMMA ListingExists ==
    ASSUME NEW envs \in Seq(Env)
    PROVE  \E h : IsListing(h, envs)
<1> DEFINE base == <<>>
<1>1. PICK h : Listed!IsPath(h, envs, base)
  <2> HIDE DEF base
  <2> QED
    BY Listed!PathExists
<1> QED
  BY <1>1 DEF IsListing, Listed!IsPath

(* A pass sees environment files and whether sources exist, nothing else.   *)
SameEnvironments ==
    /\ \A f \in EnvFiles : disk'[f] = disk[f]
    /\ \A s \in Sources : disk'[s] = Absent <=> disk[s] = Absent

LEMMA ReadsTheSame ==
    ASSUME SameEnvironments
    PROVE  /\ \A dirs \in Seq(Projects) : Located(dirs)' = Located(dirs)
           /\ \A p \in Projects : Resolved(p)' = Resolved(p)
           /\ \A env \in Env : IsPackage(env)' <=> IsPackage(env)
<1>1. \A p \in Projects : /\ disk'[ProjectOf(p)] = disk[ProjectOf(p)]
                          /\ disk'[ManifestOf(p)] = disk[ManifestOf(p)]
  BY ProjectFile DEF SameEnvironments
<1>2. ASSUME NEW dirs \in Seq(Projects) PROVE Located(dirs)' = Located(dirs)
  <2>1. \A i \in DOMAIN dirs : dirs[i] \in Projects
    OBVIOUS
  <2>2. {i \in DOMAIN dirs : disk'[ProjectOf(dirs[i])] # Absent} =
        {i \in DOMAIN dirs : disk[ProjectOf(dirs[i])] # Absent}
    BY <1>1, <2>1
  <2> QED
    BY <2>2 DEF Located
<1>3. ASSUME NEW p \in Projects PROVE Resolved(p)' = Resolved(p)
  BY <1>1 DEF Resolved
<1>4. ASSUME NEW env \in Env PROVE IsPackage(env)' <=> IsPackage(env)
  <2>1. env.project \in Projects /\ env.name \in Names \cup {None}
    BY DEF Env
  <2>2. env.name # None => EntryOf[env.project][env.name] \in Sources
    BY <2>1, EntryTyped
  <2> QED
    BY <2>2 DEF IsPackage, SameEnvironments
<1> QED
  BY <1>2, <1>3, <1>4

LEMMA AddsTheSame ==
    ASSUME SameEnvironments
    PROVE  /\ \A envs : \A dirs \in Seq(Projects) : AddEnv(envs, dirs)' = AddEnv(envs, dirs)
           /\ \A devs : \A env \in Env : AddDev(devs, env)' = AddDev(devs, env)
<1>1. /\ \A dirs \in Seq(Projects) : Located(dirs)' = Located(dirs)
      /\ \A p \in Projects : Resolved(p)' = Resolved(p)
      /\ \A env \in Env : IsPackage(env)' <=> IsPackage(env)
  BY ReadsTheSame
<1>2. ASSUME NEW envs, NEW dirs \in Seq(Projects)
      PROVE  AddEnv(envs, dirs)' = AddEnv(envs, dirs)
  <2>1. Located(dirs) \in Projects \cup {None}
    BY LocatedTyped
  <2> QED
    BY <1>1, <2>1 DEF AddEnv
<1>3. ASSUME NEW devs, NEW env \in Env
      PROVE  AddDev(devs, env)' = AddDev(devs, env)
  BY <1>1 DEF AddDev
<1> QED
  BY <1>2, <1>3

LEMMA WalksTheSame ==
    ASSUME SameEnvironments
    PROVE  /\ \A g : IsWalk(g) => IsWalk(g)'
           /\ FreshEnvs' = FreshEnvs
           /\ \A envs \in Seq(Env) : DevPackages(envs)' = DevPackages(envs)
<1>1. \A g : IsWalk(g) => IsWalk(g)'
  <2>1. \A k \in 1..Len(WalkUps) : WalkUps[k] \in Seq(Projects)
    BY PlacesAssumption
  <2>2. \A envs : \A dirs \in Seq(Projects) : AddEnv(envs, dirs)' = AddEnv(envs, dirs)
    BY AddsTheSame
  <2> QED
    BY <2>1, <2>2 DEF IsWalk
<1>2. (\A g : IsWalk(g) => FreshEnvs = g[Len(WalkUps)])'
  BY WalkIsFresh, PTL
<1>3. PICK g : IsWalk(g)
  BY WalkExists
<1>4. FreshEnvs' = g[Len(WalkUps)]
  BY <1>1, <1>2, <1>3
<1>5. FreshEnvs' = FreshEnvs
  BY <1>3, <1>4, WalkIsFresh
<1>6. (\A envs \in Seq(Env) : \A h :
         IsListing(h, envs) => DevPackages(envs) = h[Len(envs)])'
  BY ListingIsIt, PTL
<1>7. ASSUME NEW envs \in Seq(Env) PROVE DevPackages(envs)' = DevPackages(envs)
  <2>1. PICK h : IsListing(h, envs)
    BY ListingExists
  <2>2. \A devs : \A env \in Env : AddDev(devs, env)' = AddDev(devs, env)
    BY AddsTheSame
  <2>3. \A k \in 1..Len(envs) : envs[k] \in Env
    OBVIOUS
  <2>4. IsListing(h, envs)'
    BY <2>1, <2>2, <2>3 DEF IsListing
  <2>5. DevPackages(envs)' = h[Len(envs)]
    BY <1>6, <2>4
  <2> QED
    BY <2>1, <2>5, ListingIsIt
<1> QED
  BY <1>1, <1>5, <1>7

(* What DevPackages lists: named environments whose entry exists, the       *)
(* first of each name.                                                      *)
OneEach(devs) == \A i, j \in DOMAIN devs : devs[i].name = devs[j].name => i = j
ListedFrom(devs, envs) ==
    /\ \A i \in DOMAIN devs : \E k \in DOMAIN envs :
         /\ envs[k].project = devs[i].project /\ envs[k].name = devs[i].name
         /\ IsPackage(envs[k])
    /\ \A k \in DOMAIN envs : IsPackage(envs[k]) =>
         \E i \in DOMAIN devs : devs[i].name = envs[k].name
    /\ OneEach(devs)

LEMMA ListsPackages ==
    ASSUME NEW envs \in Seq(Env)
    PROVE  ListedFrom(DevPackages(envs), envs)
<1>1. PICK h : IsListing(h, envs)
  BY ListingExists
<1> DEFINE Upto(devs, n) ==
             /\ devs \in Seq(Dev)
             /\ \A i \in DOMAIN devs : \E k \in 1..n :
                  /\ envs[k].project = devs[i].project /\ envs[k].name = devs[i].name
                  /\ IsPackage(envs[k])
             /\ \A k \in 1..n : IsPackage(envs[k]) =>
                  \E i \in DOMAIN devs : devs[i].name = envs[k].name
             /\ OneEach(devs)
           S == {n \in Nat : n <= Len(envs) => Upto(h[n], n)}
<1>2. 0 \in S
  <2>1. PICK none : none = h[0]
    OBVIOUS
  <2>2. none = <<>>
    BY <1>1, <2>1 DEF IsListing
  <2>3. none \in Seq(Dev) /\ DOMAIN none = {} /\ 1..0 = {}
    BY <2>2
  <2>4. Upto(none, 0)
    BY <2>3 DEF OneEach
  <2> HIDE DEF Upto
  <2> QED
    BY <2>1, <2>4
<1>3. ASSUME NEW n \in Nat, n \in S PROVE n + 1 \in S
  <2> SUFFICES ASSUME n + 1 <= Len(envs) PROVE Upto(h[n+1], n + 1)
    OBVIOUS
  <2>1. n + 1 \in 1..Len(envs) /\ (n + 1) - 1 = n /\ n <= Len(envs)
    OBVIOUS
  <2>2. h[n+1] = AddDev(h[n], envs[n+1])
    BY <1>1, <2>1 DEF IsListing
  <2>3. PICK devs : devs = h[n]
    OBVIOUS
  <2>4. PICK env : env = envs[n+1]
    OBVIOUS
  <2>5. env \in Env /\ Upto(devs, n)
    BY <1>3, <2>1, <2>3, <2>4
  <2>6. PICK longer : longer = h[n+1]
    OBVIOUS
  <2>7. longer = AddDev(devs, env)
    BY <2>2, <2>3, <2>4, <2>6
  <2>8. CASE IsPackage(env) /\ \A i \in DOMAIN devs : devs[i].name # env.name
    <3> DEFINE dev == [project |-> env.project, name |-> env.name]
    <3>1. longer = Append(devs, dev)
      BY <2>7, <2>8 DEF AddDev
    <3>2. dev \in Dev /\ dev.project = env.project /\ dev.name = env.name
      BY <2>5, <2>8 DEF IsPackage, Env, Dev
    <3> HIDE DEF dev
    <3>3. /\ longer \in Seq(Dev) /\ DOMAIN longer = DOMAIN devs \cup {Len(devs) + 1}
          /\ \A i \in DOMAIN devs : longer[i] = devs[i] /\ i # Len(devs) + 1
          /\ longer[Len(devs) + 1] = dev
      BY <2>5, <3>1, <3>2
    <3> DEFINE last == Len(devs) + 1
    <3>4. \A i \in DOMAIN longer : \E k \in 1..(n+1) :
             /\ envs[k].project = longer[i].project /\ envs[k].name = longer[i].name
             /\ IsPackage(envs[k])
      <4>1. ASSUME NEW i \in DOMAIN devs
            PROVE  \E k \in 1..(n+1) :
                     /\ envs[k].project = longer[i].project
                     /\ envs[k].name = longer[i].name /\ IsPackage(envs[k])
        <5>1. PICK k \in 1..n : envs[k].project = devs[i].project
                             /\ envs[k].name = devs[i].name /\ IsPackage(envs[k])
          BY <2>5
        <5>2. k \in 1..(n+1)
          OBVIOUS
        <5> QED
          BY <3>3, <5>1, <5>2
      <4>2. \E k \in 1..(n+1) :
               /\ envs[k].project = longer[last].project
               /\ envs[k].name = longer[last].name /\ IsPackage(envs[k])
        BY <2>4, <2>8, <3>2, <3>3
      <4> QED
        BY <3>3, <4>1, <4>2
    <3>5. \A k \in 1..(n+1) : IsPackage(envs[k]) =>
             \E i \in DOMAIN longer : longer[i].name = envs[k].name
      <4>1. ASSUME NEW k \in 1..n, IsPackage(envs[k])
            PROVE  \E i \in DOMAIN longer : longer[i].name = envs[k].name
        BY <2>5, <3>3, <4>1
      <4>2. \E i \in DOMAIN longer : longer[i].name = envs[n+1].name
        BY <2>4, <3>2, <3>3
      <4>3. \A k \in 1..(n+1) : k \in 1..n \/ k = n + 1
        OBVIOUS
      <4> QED
        BY <4>1, <4>2, <4>3
    <3>6. OneEach(longer)
      <4> HIDE DEF last
      <4> QED
        BY <2>5, <2>8, <3>2, <3>3 DEF OneEach, last
    <3>7. longer \in Seq(Dev)
      BY <3>3
    <3> HIDE DEF last
    <3> QED
      BY <2>6, <3>4, <3>5, <3>6, <3>7
  <2>9. CASE ~(IsPackage(env) /\ \A i \in DOMAIN devs : devs[i].name # env.name)
    <3>1. longer = devs
      BY <2>7, <2>9 DEF AddDev
    <3>2. \A i \in DOMAIN devs : \E k \in 1..(n+1) :
             /\ envs[k].project = devs[i].project /\ envs[k].name = devs[i].name
             /\ IsPackage(envs[k])
      <4>1. \A k \in 1..n : k \in 1..(n+1)
        OBVIOUS
      <4> QED
        BY <2>5, <4>1
    <3>3. \A k \in 1..(n+1) : IsPackage(envs[k]) =>
             \E i \in DOMAIN devs : devs[i].name = envs[k].name
      <4>1. \A k \in 1..(n+1) : k \in 1..n \/ k = n + 1
        OBVIOUS
      <4> QED
        BY <2>4, <2>5, <2>9, <4>1
    <3>4. Upto(devs, n + 1)
      BY <2>5, <3>2, <3>3
    <3> HIDE DEF Upto
    <3> QED
      BY <2>6, <3>1, <3>4
  <2> QED
    BY <2>8, <2>9
<1>4. Len(envs) \in S
  <2>1. \A n \in Nat : n \in S => n + 1 \in S
    BY <1>3
  <2>2. Len(envs) \in Nat
    OBVIOUS
  <2> HIDE DEF S
  <2>3. Nat \subseteq S
    BY <1>2, <2>1, Listed!NatInductionOnSets
  <2> QED
    BY <2>2, <2>3
<1>5. DevPackages(envs) = h[Len(envs)]
  BY <1>1, ListingIsIt
<1>6. Upto(DevPackages(envs), Len(envs))
  BY <1>4, <1>5
<1>7. DOMAIN envs = 1..Len(envs)
  OBVIOUS
<1> QED
  BY <1>6, <1>7 DEF ListedFrom

(* No project is taken twice, so no project is listed under two names.      *)
ProjectsApart(list) == \A i, j \in DOMAIN list : list[i].project = list[j].project => i = j

LEMMA ListsApart ==
    ASSUME NEW devs, NEW envs, ListedFrom(devs, envs), ProjectsApart(envs)
    PROVE  ProjectsApart(devs)
<1> SUFFICES ASSUME NEW i \in DOMAIN devs, NEW j \in DOMAIN devs,
                    devs[i].project = devs[j].project
             PROVE  i = j
  BY DEF ProjectsApart
<1>1. PICK k \in DOMAIN envs : envs[k].project = devs[i].project /\ envs[k].name = devs[i].name
  BY DEF ListedFrom
<1>2. PICK l \in DOMAIN envs : envs[l].project = devs[j].project /\ envs[l].name = devs[j].name
  BY DEF ListedFrom
<1>3. k = l
  BY <1>1, <1>2 DEF ProjectsApart
<1> QED
  BY <1>1, <1>2, <1>3 DEF ListedFrom, OneEach

(* The one of a name.                                                       *)
LEMMA DevNamedIs ==
    ASSUME NEW devs, OneEach(devs), NEW i \in DOMAIN devs
    PROVE  DevNamed(devs, devs[i].name) = devs[i]
<1>1. devs[i] \in ToSet(devs)
  BY DEF ToSet
<1>2. \A dev \in ToSet(devs) : dev.name = devs[i].name => dev = devs[i]
  BY DEF ToSet, OneEach
<1> QED
  BY <1>1, <1>2 DEF DevNamed

-----------------------------------------------------------------------------
(* What the library rests on, while signals are on their way.               *)

(* The harvester has yet to hear that an environment file changed, or that  *)
(* one of the files of a package did.                                       *)
EnvPending ==
    \/ \E i \in DOMAIN harvest_rx : harvest_rx[i] = Environment
    \/ \E f \in EnvFiles : f \in unreported
SourcePending(s) ==
    \/ EnvPending
    \/ s \in unreported
    \/ \E i \in DOMAIN harvest_rx : harvest_rx[i] = s
Settled == ~EnvPending /\ unresolved = {}

EntryFile(dev) == EntryOf[dev.project][dev.name]
FilesOf(dev) == {EntryFile(dev)} \cup ReadBy[dev.project]
Changing(dev) == \E s \in FilesOf(dev) : SourcePending(s)
Present(p) == disk[ProjectOf(p)] # Absent

WritesReported == budget.watched \/ budget.writes = 0
QueueOK ==
    /\ harvest_rx \in Seq(Sources \cup {Environment})
    /\ IsFiniteSet(unreported)
    /\ WritesReported

(* The lists of a pass: no project twice, no name twice; the packages that  *)
(* are served are those of the environments; nothing is harvested yet.      *)
ListsOK(h) ==
    /\ ProjectsApart(h.envs)
    /\ h.at = "check" => \A i \in DOMAIN h.envs : h.envs[i].project # h.env.project
    /\ OneEach(h.devs) /\ ProjectsApart(h.devs) /\ OneEach(h.todo)
    /\ h.at = "reharvest" => h.dev \in ToSet(h.devs)
    /\ h.at = "claim" => \A i \in DOMAIN h.devs : \E k \in DOMAIN h.envs :
         /\ h.envs[k].project = h.devs[i].project /\ h.envs[k].name = h.devs[i].name
         /\ h.envs[k].name # None
    /\ h.at # "harvest" => DOMAIN h.library = {}

ReadsPresent(h) ==
    ~EnvPending =>
      /\ \A i \in DOMAIN h.envs : Present(h.envs[i].project)
      /\ h.at = "check" => Present(h.env.project)
      /\ \A i \in DOMAIN h.todo : Present(h.todo[i].project)

(* Between the listing and the harvest a package may have gone; what was    *)
(* harvested may have changed.                                              *)
HarvestsListed(h) ==
    /\ h.at = "claim" => \A i \in DOMAIN h.devs :
         \/ disk[EntryFile(h.devs[i])] # Absent
         \/ SourcePending(EntryFile(h.devs[i]))
    /\ h.at = "harvest" => \A i \in DOMAIN h.devs :
         \/ h.devs[i].name \in NamesOf(h.todo)
         \/ SourcePending(EntryFile(h.devs[i]))
    /\ h.at = "harvest" => \A i \in DOMAIN h.todo :
         h.todo[i].name \in DOMAIN h.library =>
           \/ h.library[h.todo[i].name] = HarvestWorkspace(h.todo[i])
           \/ Changing(h.todo[i])

(* A pass nothing disturbed is the one that FreshEnvs makes at once.        *)
WalksAt(h, g, k) ==
    /\ IsWalk(g) /\ h.envs = g[k]
    /\ k \in Nat /\ k < Len(WalkUps) /\ Len(h.roots) = Len(WalkUps) - k
    /\ \A i \in 1..Len(h.roots) : h.roots[i] = WalkUps[k + i]
FreshPass(h) ==
    Settled =>
      /\ h.at \in {"locate", "read", "check"} => \E g, k : WalksAt(h, g, k)
      /\ h.at = "read" => h.located = Located(h.roots[1])
      /\ h.at = "check" =>
           Located(h.roots[1]) \in Projects /\ h.env = Resolved(Located(h.roots[1]))
      /\ h.at \in {"publish", "list", "claim", "harvest"} => h.envs = FreshEnvs
      /\ h.at \in {"claim", "harvest", "wait", "reharvest"} => h.devs = FreshDevs
      /\ h.at = "harvest" => h.todo = FreshDevs

(* The project files of the last library sent, and the packages held once   *)
(* every message is installed.                                              *)
RegistersOnce(rx, files) ==
    \/ \E i \in DOMAIN rx :
         /\ rx[i].kind = "Full" /\ rx[i].project_files = files
         /\ \A j \in DOMAIN rx : i < j => rx[j].kind # "Full"
    \/ /\ \A j \in DOMAIN rx : rx[j].kind # "Full"
       /\ workspaces = DOMAIN files /\ project_files = files
HeldFor(held, dev) == dev.name \in DOMAIN held /\ held[dev.name] = HarvestWorkspace(dev)
Unclaimed(files, dev) == dev.name \in DOMAIN files => files[dev.name] = dev.project
ServedBy(h, held, files) ==
    /\ files \in Partial(Names, Projects)
    /\ \A n \in DOMAIN files : Present(files[n])
    /\ Settled =>
         /\ DOMAIN files = NamesOf(FreshDevs) /\ DOMAIN held = NamesOf(FreshDevs)
         /\ \A i \in DOMAIN FreshDevs : files[FreshDevs[i].name] = FreshDevs[i].project
    /\ \A i \in DOMAIN h.devs : Unclaimed(files, h.devs[i]) =>
         \/ HeldFor(held, h.devs[i])
         \/ Changing(h.devs[i])
         \/ h.at = "reharvest" /\ h.dev = h.devs[i]
Serves(h, held, rx) ==
    h.at \in {"wait", "reharvest"} /\ ~EnvPending =>
      \E files : RegistersOnce(rx, files) /\ ServedBy(h, held, files)

PassInv(h) ==
    /\ ListsOK(h) /\ ReadsPresent(h) /\ HarvestsListed(h) /\ FreshPass(h)
LibraryInv ==
    /\ QueueOK /\ PassInv(harvester)
    /\ Serves(harvester, HeldOnceServed, library_rx)

-----------------------------------------------------------------------------
(* A step that changes files, reports or signals changes.                   *)

Hears ==
    /\ EnvPending => EnvPending'
    /\ \A s \in Sources : SourcePending(s) => SourcePending(s)'
    /\ Settled' => Settled /\ SameEnvironments
    /\ ~EnvPending' => \A p \in Projects : Present(p) => Present(p)'
    /\ \A s \in Sources : disk'[s] = disk[s] \/ SourcePending(s)'

LEMMA FirstOf ==
    ASSUME NEW S, NEW q \in Seq(S), q # <<>>
    PROVE  q[1] \in S /\ 1 \in 1..Len(q)
<1>1. Len(q) # 0
  BY EmptySeq
<1>2. Len(q) \in Nat
  OBVIOUS
<1>3. 1 \in 1..Len(q)
  BY <1>1, <1>2
<1> QED
  BY <1>3

LEMMA FreshEnvsTyped ==
    ASSUME ClientOK
    PROVE  FreshEnvs \in Seq(Env)
<1>1. ASSUME NEW envs \in Seq(Env), NEW dirs \in Seq(Projects)
      PROVE  AddEnv(envs, dirs) \in Seq(Env)
  <2>1. Located(dirs) \in Projects \cup {None}
    BY LocatedTyped
  <2>2. CASE Located(dirs) \in Projects
    <3>1. Resolved(Located(dirs)).fault = None => Resolved(Located(dirs)) \in Env
      BY <2>2, ResolvedTyped
    <3> QED
      BY <3>1 DEF AddEnv
  <2>3. CASE Located(dirs) = None
    BY <2>3 DEF AddEnv
  <2> QED
    BY <2>1, <2>2, <2>3
<1>2. WalkUps \in Seq(Seq(Projects))
  BY PlacesAssumption
<1> DEFINE base == <<>>
<1>3. base \in Seq(Env)
  OBVIOUS
<1> HIDE DEF base
<1>4. Walked!FoldLeft(AddEnv, base, WalkUps) \in Seq(Env)
  BY <1>1, <1>2, <1>3, Walked!FoldStays
<1>5. FreshEnvs = Walked!FoldLeft(AddEnv, base, WalkUps)
  BY DEF FreshEnvs, AddEnv, FoldLeft, MapThenFoldSet, Max, base,
         Walked!FoldLeft, Walked!MapThenFoldSet, Walked!Max
<1> QED
  BY <1>4, <1>5

LEMMA DevFiles ==
    ASSUME NEW dev \in Dev
    PROVE  EntryFile(dev) \in Sources /\ FilesOf(dev) \subseteq Sources
           /\ EntryFile(dev) \in FilesOf(dev)
BY EntryTyped DEF Dev, EntryFile, FilesOf

(* What a package's harvest gives, unless one of its files is pending.      *)
LEMMA HarvestHeard ==
    ASSUME Hears, NEW dev \in Dev
    PROVE  /\ Changing(dev) => Changing(dev)'
           /\ HarvestWorkspace(dev)' = HarvestWorkspace(dev) \/ Changing(dev)'
           /\ SourcePending(EntryFile(dev)) => SourcePending(EntryFile(dev))'
           /\ disk[EntryFile(dev)] # Absent /\ disk'[EntryFile(dev)] = Absent =>
                SourcePending(EntryFile(dev))'
<1>1. EntryFile(dev) \in Sources /\ FilesOf(dev) \subseteq Sources
      /\ EntryFile(dev) \in FilesOf(dev)
  BY DevFiles
<1>2. Changing(dev) => Changing(dev)'
  BY <1>1 DEF Changing, Hears, FilesOf, EntryFile
<1>3. ASSUME ~Changing(dev)' PROVE HarvestWorkspace(dev)' = HarvestWorkspace(dev)
  <2>1. \A s \in FilesOf(dev) : disk'[s] = disk[s]
    BY <1>1, <1>3 DEF Changing, Hears, FilesOf, EntryFile
  <2> QED
    BY <1>1, <2>1 DEF HarvestWorkspace, FilesOf, EntryFile
<1> QED
  BY <1>1, <1>2, <1>3 DEF Hears

LEMMA PassHeard ==
    ASSUME ClientOK, Hears, NEW h, HarvesterOK(h), PassInv(h)
    PROVE  PassInv(h)'
<1>1. /\ h.envs \in Seq(Env) /\ h.devs \in Seq(Dev) /\ h.todo \in Seq(Dev)
      /\ h.roots \in Seq(Seq(Projects))
      /\ h.at = "check" => h.env \in Env
  BY DEF HarvesterOK, HarvesterRecord
<1>2. ListsOK(h)'
  BY DEF PassInv, ListsOK, ProjectsApart, OneEach
<1>3. ReadsPresent(h)'
  <2>1. /\ \A i \in DOMAIN h.envs : h.envs[i].project \in Projects
        /\ \A i \in DOMAIN h.todo : h.todo[i].project \in Projects
        /\ h.at = "check" => h.env.project \in Projects
    <3>1. /\ \A i \in DOMAIN h.envs : h.envs[i] \in Env
          /\ \A i \in DOMAIN h.todo : h.todo[i] \in Dev
      BY <1>1
    <3>2. \A env \in Env : env.project \in Projects
      BY DEF Env
    <3>3. \A dev \in Dev : dev.project \in Projects
      BY DEF Dev
    <3>4. \A i \in DOMAIN h.envs : h.envs[i].project \in Projects
      BY <3>1, <3>2
    <3>5. \A i \in DOMAIN h.todo : h.todo[i].project \in Projects
      BY <3>1, <3>3
    <3>6. h.at = "check" => h.env.project \in Projects
      BY <1>1, <3>2
    <3> QED
      BY <3>4, <3>5, <3>6
  <2> QED
    BY <2>1 DEF PassInv, ReadsPresent, Hears
<1>4. HarvestsListed(h)'
  <2>1. \A i \in DOMAIN h.devs : h.devs[i] \in Dev
    BY <1>1
  <2>2. \A i \in DOMAIN h.todo : h.todo[i] \in Dev
    BY <1>1
  <2>3. ASSUME h.at = "claim", NEW i \in DOMAIN h.devs
        PROVE  disk'[EntryFile(h.devs[i])] # Absent \/ SourcePending(EntryFile(h.devs[i]))'
    BY <2>1, <2>3, HarvestHeard DEF PassInv, HarvestsListed
  <2>4. ASSUME h.at = "harvest", NEW i \in DOMAIN h.devs
        PROVE  h.devs[i].name \in NamesOf(h.todo) \/ SourcePending(EntryFile(h.devs[i]))'
    BY <2>1, <2>4, HarvestHeard DEF PassInv, HarvestsListed
  <2>5. ASSUME h.at = "harvest", NEW i \in DOMAIN h.todo,
               h.todo[i].name \in DOMAIN h.library
        PROVE  h.library[h.todo[i].name] = HarvestWorkspace(h.todo[i])' \/ Changing(h.todo[i])'
    BY <2>2, <2>5, HarvestHeard DEF PassInv, HarvestsListed
  <2> QED
    BY <2>3, <2>4, <2>5 DEF HarvestsListed, EntryFile, NamesOf
<1>5. FreshPass(h)'
  <2> SUFFICES ASSUME Settled' PROVE FreshPass(h)'
    BY DEF FreshPass
  <2>1. Settled /\ SameEnvironments
    BY DEF Hears
  <2>2. /\ \A g : IsWalk(g) => IsWalk(g)'
        /\ FreshEnvs' = FreshEnvs
    BY <2>1, WalksTheSame
  <2>3. FreshDevs' = FreshDevs
    <3>1. FreshEnvs \in Seq(Env) => FreshDevs' = FreshDevs
      BY <2>1, <2>2, WalksTheSame DEF FreshDevs
    <3> QED
      BY <3>1, FreshEnvsTyped
  <2>4. /\ \A dirs \in Seq(Projects) : Located(dirs)' = Located(dirs)
        /\ \A p \in Projects : Resolved(p)' = Resolved(p)
    BY <2>1, ReadsTheSame
  <2>5. h.at \in {"read", "check"} => h.roots[1] \in Seq(Projects)
    <3>1. h.at \in {"read", "check"} => h.roots # <<>>
      BY DEF HarvesterOK
    <3>2. PICK roots : roots = h.roots
      OBVIOUS
    <3>3. roots \in Seq(Seq(Projects))
      BY <1>1, <3>2
    <3>4. roots # <<>> => roots[1] \in Seq(Projects)
      BY <3>3, FirstOf
    <3> QED
      BY <3>1, <3>2, <3>4
  <2>6. \A g, k : WalksAt(h, g, k) => WalksAt(h, g, k)'
    BY <2>2 DEF WalksAt
  <2> QED
    BY <2>1, <2>2, <2>3, <2>4, <2>5, <2>6 DEF PassInv, FreshPass
<1> QED
  BY <1>2, <1>3, <1>4, <1>5 DEF PassInv

LEMMA ServedByHeard ==
    ASSUME ClientOK, Hears, ~EnvPending', NEW h, HarvesterOK(h), NEW held, NEW files,
           ServedBy(h, held, files)
    PROVE  ServedBy(h, held, files)'
<1>1. \A n \in DOMAIN files : files[n] \in Projects
  BY PartialDomain DEF ServedBy
<1>2. \A n \in DOMAIN files : Present(files[n])'
  BY <1>1 DEF ServedBy, Hears
<1>3. Settled' =>
       /\ DOMAIN files = NamesOf(FreshDevs)' /\ DOMAIN held = NamesOf(FreshDevs)'
       /\ \A i \in DOMAIN FreshDevs' : files[FreshDevs'[i].name] = FreshDevs'[i].project
  <2> SUFFICES ASSUME Settled'
               PROVE  /\ DOMAIN files = NamesOf(FreshDevs)'
                      /\ DOMAIN held = NamesOf(FreshDevs)'
                      /\ \A i \in DOMAIN FreshDevs' :
                           files[FreshDevs'[i].name] = FreshDevs'[i].project
    OBVIOUS
  <2>1. Settled /\ SameEnvironments
    BY DEF Hears
  <2>2. FreshDevs' = FreshDevs
    BY <2>1, WalksTheSame, FreshEnvsTyped DEF FreshDevs
  <2> QED
    BY <2>1, <2>2 DEF ServedBy, NamesOf
<1>4. ASSUME NEW i \in DOMAIN h.devs, Unclaimed(files, h.devs[i])
      PROVE  \/ HeldFor(held, h.devs[i])'
             \/ Changing(h.devs[i])'
             \/ h.at = "reharvest" /\ h.dev = h.devs[i]
  <2>1. h.devs[i] \in Dev
    BY DEF HarvesterOK, HarvesterRecord
  <2> QED
    BY <1>4, <2>1, HarvestHeard DEF ServedBy, HeldFor
<1> QED
  BY <1>2, <1>3, <1>4 DEF ServedBy, Unclaimed

LEMMA ServesHeard ==
    ASSUME ClientOK, Hears, UNCHANGED <<workspaces, project_files>>,
           NEW h, HarvesterOK(h), NEW held, NEW rx, Serves(h, held, rx)
    PROVE  Serves(h, held, rx)'
<1> SUFFICES ASSUME h.at \in {"wait", "reharvest"}, ~EnvPending'
             PROVE  \E files : RegistersOnce(rx, files)' /\ ServedBy(h, held, files)'
  BY DEF Serves
<1>1. ~EnvPending
  BY DEF Hears
<1>2. PICK files : RegistersOnce(rx, files) /\ ServedBy(h, held, files)
  BY <1>1 DEF Serves
<1>3. RegistersOnce(rx, files)'
  BY <1>2 DEF RegistersOnce
<1>4. ServedBy(h, held, files)'
  BY <1>2, ServedByHeard
<1> QED
  BY <1>3, <1>4

LEMMA LibraryHeard ==
    ASSUME Types, LibraryInv, Hears, QueueOK',
           UNCHANGED <<harvester, library_rx, packages, workspaces, project_files>>
    PROVE  LibraryInv'
<1>1. PICK h : h = harvester
  OBVIOUS
<1>2. PICK held : held = HeldOnceServed
  OBVIOUS
<1>3. PICK rx : rx = library_rx
  OBVIOUS
<1>4. HarvesterOK(h) /\ PassInv(h) /\ Serves(h, held, rx) /\ ClientOK
  BY <1>1, <1>2, <1>3 DEF LibraryInv, Types
<1>5. PassInv(h)' /\ Serves(h, held, rx)'
  BY <1>4, PassHeard, ServesHeard
<1>6. h = harvester' /\ held = HeldOnceServed' /\ rx = library_rx'
  BY <1>1, <1>2, <1>3 DEF HeldOnceServed
<1> QED
  BY <1>5, <1>6 DEF LibraryInv

(* Signals are only added.                                                  *)
Signals(q, p) == \A i \in DOMAIN p : \E j \in DOMAIN q : q[j] = p[i]

LEMMA SpendReported ==
    ASSUME budget \in Budget, NEW what \in Counters, Spend(what), WritesReported
    PROVE  WritesReported'
<1>1. budget'.watched = budget.watched
  BY SpendTyped
<1>2. budget[what] \in Nat /\ budget[what] > 0 /\ budget' = [budget EXCEPT ![what] = budget[what] - 1]
  BY DEF Budget, Counters, Spend
<1>3. budget.writes = 0 => budget'.writes = 0
  BY <1>2 DEF Budget
<1> QED
  BY <1>1, <1>3 DEF WritesReported

LEMMA NothingHeard ==
    ASSUME UNCHANGED <<disk, unreported, unresolved>>, Signals(harvest_rx', harvest_rx)
    PROVE  Hears
<1>1. EnvPending => EnvPending'
  BY DEF EnvPending, Signals
<1>2. \A s \in Sources : SourcePending(s) => SourcePending(s)'
  BY <1>1 DEF SourcePending, Signals
<1> QED
  BY <1>1, <1>2 DEF Hears, Settled, SameEnvironments, Present

LEMMA SignalsKept ==
    /\ \A q : Signals(q, q)
    /\ \A S : \A q \in Seq(S) : \A e \in S : Signals(Append(q, e), q)
    /\ \A S : \A p, q \in Seq(S) : Signals(q \o p, q)
<1>1. \A q : Signals(q, q)
  BY DEF Signals
<1>2. ASSUME NEW S, NEW q \in Seq(S), NEW e \in S PROVE Signals(Append(q, e), q)
  BY DEF Signals
<1>3. ASSUME NEW S, NEW p \in Seq(S), NEW q \in Seq(S) PROVE Signals(q \o p, q)
  <2>1. \A i \in DOMAIN q : i \in DOMAIN (q \o p) /\ (q \o p)[i] = q[i]
    OBVIOUS
  <2> QED
    BY <2>1 DEF Signals
<1> QED
  BY <1>1, <1>2, <1>3

(* A change on disk is heard of, or no environment can be read from it:     *)
(* then "unresolved" says so.                                               *)
LEMMA OnDiskHeard ==
    ASSUME ClientOK, NEW change, NEW reason, OnDisk(change, reason),
           Signals(harvest_rx', harvest_rx),
           \A s \in DOMAIN change \cap Sources : SourcePending(s)',
           \A f \in DOMAIN change \cap EnvFiles :
              EnvPending' \/ (unresolved' # {} /\ change[f] # Absent)
    PROVE  Hears
<1>1. DOMAIN disk = EnvFiles \cup Sources
  BY DEF ClientOK
<1>2. /\ disk' = [f \in DOMAIN disk |-> IF f \in DOMAIN change THEN change[f] ELSE disk[f]]
      /\ \A f : f \in unreported => f \in unreported'
  BY DEF OnDisk
<1>3. EnvPending => EnvPending'
  BY <1>2 DEF EnvPending, Signals
<1>4. \A s \in Sources : SourcePending(s) => SourcePending(s)'
  BY <1>2, <1>3 DEF SourcePending, Signals
<1>5. \A s \in Sources : disk'[s] = disk[s] \/ SourcePending(s)'
  BY <1>1, <1>2
<1>6. ASSUME Settled' PROVE Settled /\ SameEnvironments
  <2>1. ~EnvPending' /\ unresolved' = {} /\ ~EnvPending
    BY <1>3, <1>6 DEF Settled
  <2>2. \A f \in EnvFiles : f \notin DOMAIN change
    BY <2>1
  <2>3. unresolved = {} /\ \A s \in DOMAIN change \cap Sources :
           (disk[s] = Absent) <=> (change[s] = Absent)
    BY <2>1 DEF OnDisk
  <2>4. \A f \in EnvFiles : disk'[f] = disk[f]
    BY <1>1, <1>2, <2>2
  <2>5. \A s \in Sources : disk'[s] = Absent <=> disk[s] = Absent
    BY <1>1, <1>2, <2>3
  <2> QED
    BY <2>1, <2>3, <2>4, <2>5 DEF Settled, SameEnvironments
<1>7. ASSUME ~EnvPending', NEW p \in Projects, Present(p) PROVE Present(p)'
  <2>1. ProjectOf(p) \in EnvFiles
    BY ProjectFile
  <2>2. disk'[ProjectOf(p)] # Absent
    BY <1>1, <1>2, <1>7, <2>1 DEF Present
  <2> QED
    BY <2>2 DEF Present
<1> QED
  BY <1>3, <1>4, <1>5, <1>6, <1>7 DEF Hears

-----------------------------------------------------------------------------
(* The client and the other threads.                                        *)

LEMMA FiniteChange ==
    ASSUME NEW change, NEW reason, OnDisk(change, reason), IsFiniteSet(DOMAIN change),
           IsFiniteSet(unreported)
    PROVE  IsFiniteSet(unreported')
<1>1. unreported' \in {unreported, unreported \cup DOMAIN change}
  BY DEF OnDisk
<1>2. IsFiniteSet(unreported \cup DOMAIN change)
  BY FS_Union
<1> QED
  BY <1>1, <1>2

LEMMA SignalTyped ==
    /\ \A f \in EnvFiles : SignalFor(f) = Environment
    /\ \A s \in Sources : SignalFor(s) = s
BY FilesAssumption DEF SignalFor

LEMMA AppendHeard ==
    ASSUME NEW S, NEW q \in Seq(S), NEW e \in S
    PROVE  /\ Append(q, e) \in Seq(S) /\ Signals(Append(q, e), q)
           /\ \E i \in DOMAIN Append(q, e) : Append(q, e)[i] = e
<1>1. Append(q, e) \in Seq(S)
  OBVIOUS
<1>2. Len(q) + 1 \in DOMAIN Append(q, e) /\ Append(q, e)[Len(q) + 1] = e
  OBVIOUS
<1> QED
  BY <1>1, <1>2, SignalsKept

LEMMA BuffersHear ==
    ASSUME Types, QueueOK, NEW f \in EnvFiles,
           \/ DidOpen(f) \/ DidClose(f)
           \/ \E text \in TypedIn[f] : DidChange(f, text)
    PROVE  Hears /\ QueueOK'
<1>1. UNCHANGED <<disk, unreported, harvest_rx, unresolved>>
  BY DEF DidOpen, DidClose, DidChange
<1>2. \E what \in Counters : Spend(what)
  BY DEF DidOpen, DidClose, DidChange, Counters
<1>3. WritesReported'
  BY <1>2, SpendReported DEF QueueOK, Types, ClientOK
<1> QED
  BY <1>1, <1>3, NothingHeard, SignalsKept DEF QueueOK

LEMMA SavesHear ==
    ASSUME Types, QueueOK,
           \/ \E f \in EnvFiles : DidSave(f)
           \/ \E s \in Sources, content \in Contents : DidSaveSource(s, content)
    PROVE  Hears /\ QueueOK'
<1>1. ClientOK /\ harvest_rx \in Seq(Sources \cup {Environment})
  BY DEF Types, QueueOK
<1>2. WritesReported'
  <2>1. \E what \in Counters : Spend(what)
    BY DEF DidSave, DidSaveSource, Counters
  <2> QED
    BY <2>1, SpendReported DEF QueueOK, Types, ClientOK
<1>3. CASE \E f \in EnvFiles : DidSave(f)
  <2>1. PICK f \in EnvFiles : DidSave(f)
    BY <1>3
  <2> DEFINE change == [g \in {f} |-> documents[f]]
  <2>2. OnDisk(change, "written") /\ harvest_rx' = Append(harvest_rx, Environment)
    BY <2>1, SignalTyped DEF DidSave
  <2>3. DOMAIN change = {f} /\ f \notin Sources
    BY FilesAssumption
  <2> HIDE DEF change
  <2>4. /\ harvest_rx' \in Seq(Sources \cup {Environment})
        /\ Signals(harvest_rx', harvest_rx)
        /\ \E i \in DOMAIN harvest_rx' : harvest_rx'[i] = Environment
    BY <1>1, <2>2, AppendHeard
  <2>5. EnvPending'
    BY <2>4 DEF EnvPending
  <2>6. Hears
    BY <1>1, <2>2, <2>3, <2>4, <2>5, OnDiskHeard
  <2>7. IsFiniteSet(unreported')
    <3>1. IsFiniteSet(DOMAIN change)
      BY <2>3, FS_Singleton
    <3> QED
      BY <2>2, <3>1, FiniteChange DEF QueueOK
  <2> QED
    BY <1>2, <2>4, <2>6, <2>7 DEF QueueOK
<1>4. CASE \E s \in Sources, content \in Contents : DidSaveSource(s, content)
  <2>1. PICK s \in Sources, content \in Contents : DidSaveSource(s, content)
    BY <1>4
  <2> DEFINE change == [g \in {s} |-> content]
  <2>2. OnDisk(change, "written") /\ harvest_rx' = Append(harvest_rx, s)
    BY <2>1, SignalTyped DEF DidSaveSource
  <2>3. DOMAIN change = {s} /\ s \notin EnvFiles
    BY FilesAssumption
  <2> HIDE DEF change
  <2>4. /\ harvest_rx' \in Seq(Sources \cup {Environment})
        /\ Signals(harvest_rx', harvest_rx)
        /\ \E i \in DOMAIN harvest_rx' : harvest_rx'[i] = s
    BY <1>1, <2>2, AppendHeard
  <2>5. SourcePending(s)'
    BY <2>4 DEF SourcePending
  <2>6. Hears
    BY <1>1, <2>2, <2>3, <2>4, <2>5, OnDiskHeard
  <2>7. IsFiniteSet(unreported')
    <3>1. IsFiniteSet(DOMAIN change)
      BY <2>3, FS_Singleton
    <3> QED
      BY <2>2, <3>1, FiniteChange DEF QueueOK
  <2> QED
    BY <1>2, <2>4, <2>6, <2>7 DEF QueueOK
<1> QED
  BY <1>3, <1>4

LEMMA RewriteHeard ==
    ASSUME Types, QueueOK, NEW f \in EnvFiles \cup Sources, NEW text, Rewrite(f, text)
    PROVE  Hears /\ QueueOK'
<1>1. ClientOK /\ UNCHANGED harvest_rx /\ Signals(harvest_rx', harvest_rx)
  BY SignalsKept DEF Types, Rewrite
<1>2. WritesReported'
  BY SpendReported DEF Rewrite, QueueOK, Types, ClientOK, Counters
<1>3. budget.watched
  <2>1. budget.writes \in Nat /\ budget.writes > 0
    BY DEF Types, ClientOK, Budget, Rewrite, Spend
  <2> QED
    BY <2>1 DEF QueueOK, WritesReported
<1> DEFINE change == [g \in {f} |-> text]
<1>4. OnDisk(change, "written") /\ DOMAIN change = {f}
  BY DEF Rewrite
<1> HIDE DEF change
<1>5. f \in unreported'
  BY <1>3, <1>4 DEF OnDisk
<1>6. /\ f \in EnvFiles => EnvPending'
      /\ SourcePending(f)'
  BY <1>5 DEF EnvPending, SourcePending
<1>7. Hears
  BY <1>1, <1>4, <1>6, OnDiskHeard
<1>8. IsFiniteSet(unreported')
  BY <1>4, FiniteChange, FS_Singleton DEF QueueOK
<1> QED
  BY <1>1, <1>2, <1>7, <1>8 DEF QueueOK

LEMMA RenameHeard ==
    ASSUME Types, QueueOK, NEW p \in Projects, NEW n \in Names, NEW m \in Names, n # m,
           RenameEntry(p, n, m)
    PROVE  Hears /\ QueueOK'
<1>1. ClientOK /\ DatabaseOK /\ harvest_rx \in Seq(Sources \cup {Environment})
  BY DEF Types, QueueOK
<1>2. PICK old, new : old = EntryOf[p][n] /\ new = EntryOf[p][m]
  OBVIOUS
<1>3. old \in Sources /\ new \in Sources
  BY <1>2, EntryTyped
<1> DEFINE f == ProjectOf(p)
           edited == [tracked[p] EXCEPT !.name = m]
           moved == [s \in {old, new} |-> IF s = old THEN Absent ELSE disk[old]]
           change == IF NameFollows(p, n) /\ documents[f] = None
                     THEN Put(moved, f, edited) ELSE moved
<1>4. \E reason : OnDisk(change, reason)
  BY <1>2 DEF RenameEntry
<1>5. WritesReported'
  BY SpendReported DEF RenameEntry, QueueOK, Types, ClientOK, Counters
<1>6. harvest_rx' = harvest_rx \o <<old, new>>
  BY <1>2, <1>3, SignalTyped DEF RenameEntry
<1>7. disk[old] # Absent
  BY <1>2 DEF RenameEntry
<1>8. /\ DOMAIN change \subseteq {old, new, f} /\ old \in DOMAIN change
      /\ f \in EnvFiles /\ f \notin Sources
      /\ change[old] = Absent
  <2>1. f \in EnvFiles /\ f \notin Sources
    BY ProjectFile, FilesAssumption
  <2>2. DOMAIN change \subseteq {old, new, f} /\ old \in DOMAIN change
    BY DEF Put
  <2>3. change[old] = Absent
    BY <1>3, <2>1 DEF Put
  <2> QED
    BY <2>1, <2>2, <2>3
<1>9. f \in DOMAIN change => change[f] # Absent
  <2>1. f \in DOMAIN change => NameFollows(p, n) /\ change[f] = edited
    <3>1. f \notin {old, new}
      BY <1>3, <1>8
    <3> QED
      BY <3>1 DEF Put
  <2>2. NameFollows(p, n) => edited \in ProjectTexts
    BY <1>1, EditedTyped
  <2>3. Absent \notin ProjectTexts
    BY ContentsAssumption DEF Texts
  <2> HIDE DEF edited, change
  <2> QED
    BY <2>1, <2>2, <2>3
<1> HIDE DEF change, f
<1>10. PICK reason : OnDisk(change, reason)
  BY <1>4
<1>11. unresolved' # {}
  <2>1. \E g \in DOMAIN change \cap Sources : (disk[g] = Absent) # (change[g] = Absent)
    BY <1>3, <1>7, <1>8
  <2> QED
    BY <1>10, <2>1 DEF OnDisk
<1>12. PICK q : q = Append(harvest_rx, old)
  OBVIOUS
<1>13. /\ q \in Seq(Sources \cup {Environment}) /\ Signals(q, harvest_rx)
       /\ \E i \in DOMAIN q : q[i] = old
  BY <1>1, <1>3, <1>12, AppendHeard
<1>14. harvest_rx' = Append(q, new)
  <2>1. harvest_rx \o <<old, new>> = Append(harvest_rx, old) \o <<new>>
    BY <1>1, <1>3, AppendTwo
  <2>2. q \o <<new>> = Append(q, new)
    BY <1>3, <1>13, AppendIsConcat
  <2> QED
    BY <1>6, <1>12, <2>1, <2>2
<1>15. /\ harvest_rx' \in Seq(Sources \cup {Environment}) /\ Signals(harvest_rx', q)
       /\ \E i \in DOMAIN harvest_rx' : harvest_rx'[i] = new
  BY <1>3, <1>13, <1>14, AppendHeard
<1>16. /\ Signals(harvest_rx', harvest_rx)
       /\ \E i \in DOMAIN harvest_rx' : harvest_rx'[i] = old
  BY <1>13, <1>15 DEF Signals
<1>17. SourcePending(old)' /\ SourcePending(new)'
  BY <1>15, <1>16 DEF SourcePending
<1>18. Hears
  <2>1. \A s \in DOMAIN change \cap Sources : SourcePending(s)'
    BY <1>8, <1>17
  <2>2. \A g \in DOMAIN change \cap EnvFiles : unresolved' # {} /\ change[g] # Absent
    <3>1. old \notin EnvFiles /\ new \notin EnvFiles
      BY <1>3, FilesAssumption
    <3> QED
      BY <1>8, <1>9, <1>11, <3>1
  <2> QED
    BY <1>1, <1>10, <1>16, <2>1, <2>2, OnDiskHeard
<1>19. IsFiniteSet(unreported')
  <2>1. IsFiniteSet({old, new, f})
    <3>1. IsFiniteSet({old}) /\ IsFiniteSet({new}) /\ IsFiniteSet({f})
      BY FS_Singleton
    <3>2. IsFiniteSet(({old} \cup {new}) \cup {f})
      BY <3>1, FS_Union
    <3>3. {old, new, f} = ({old} \cup {new}) \cup {f}
      OBVIOUS
    <3> QED
      BY <3>2, <3>3
  <2>2. IsFiniteSet(DOMAIN change)
    BY <1>8, <2>1, FS_Subset
  <2> QED
    BY <1>10, <2>2, FiniteChange DEF QueueOK
<1> QED
  BY <1>5, <1>15, <1>18, <1>19 DEF QueueOK

LEMMA WatcherHeard ==
    ASSUME Types, QueueOK, NEW batch \in SUBSET unreported, DidChangeWatchedFiles(batch)
    PROVE  Hears /\ QueueOK'
<1>1. /\ UNCHANGED <<disk, budget, unresolved>>
      /\ unreported' = unreported \ batch
      /\ batch \subseteq EnvFiles \cup Sources
      /\ harvest_rx \in Seq(Sources \cup {Environment})
  BY DEF DidChangeWatchedFiles, Types, ClientOK, QueueOK
<1>2. IsFiniteSet(unreported') /\ IsFiniteSet(batch)
  BY <1>1, FS_Subset DEF QueueOK
<1>3. /\ harvest_rx' \in Seq(Sources \cup {Environment})
      /\ Signals(harvest_rx', harvest_rx)
      /\ batch \cap EnvFiles # {} => \E i \in DOMAIN harvest_rx' : harvest_rx'[i] = Environment
      /\ batch \cap EnvFiles = {} =>
           \A s \in batch : \E i \in DOMAIN harvest_rx' : harvest_rx'[i] = s
  <2>1. CASE batch \cap EnvFiles # {}
    <3>1. harvest_rx' = Append(harvest_rx, Environment)
      BY <2>1 DEF DidChangeWatchedFiles
    <3> QED
      BY <1>1, <2>1, <3>1, AppendHeard
  <2>2. CASE batch \cap EnvFiles = {}
    <3>1. harvest_rx' = harvest_rx \o SetToSeq(batch)
      BY <2>2 DEF DidChangeWatchedFiles
    <3>2. PICK order : order = SetToSeq(batch)
      OBVIOUS
    <3>3. order \in Seq(batch) /\ \A s \in batch : \E i \in DOMAIN order : order[i] = s
      BY <1>2, <3>2, SetToSeqLists
    <3>4. order \in Seq(Sources \cup {Environment})
      <4>1. batch \subseteq Sources
        BY <1>1, <2>2
      <4>2. \A i \in 1..Len(order) : order[i] \in Sources
        BY <3>3, <4>1
      <4>3. Len(order) \in Nat /\ order = [i \in 1..Len(order) |-> order[i]]
        BY <3>3
      <4> QED
        BY <4>2, <4>3
    <3>5. PICK q : q = harvest_rx
      OBVIOUS
    <3>6. /\ q \o order \in Seq(Sources \cup {Environment})
          /\ \A i \in DOMAIN order :
               Len(q) + i \in DOMAIN (q \o order) /\ (q \o order)[Len(q) + i] = order[i]
      BY <1>1, <3>4, <3>5
    <3>7. Signals(q \o order, q)
      BY <1>1, <3>4, <3>5, SignalsKept
    <3>8. \A s \in batch : \E i \in DOMAIN (q \o order) : (q \o order)[i] = s
      BY <3>3, <3>6
    <3> QED
      BY <2>2, <3>1, <3>2, <3>5, <3>6, <3>7, <3>8
  <2> QED
    BY <2>1, <2>2
<1>4. EnvPending => EnvPending'
  <2>1. ASSUME NEW f \in EnvFiles, f \in unreported PROVE EnvPending'
    <3>1. CASE f \in batch
      BY <1>3, <3>1 DEF EnvPending
    <3>2. CASE f \notin batch
      BY <1>1, <2>1, <3>2 DEF EnvPending
    <3> QED
      BY <3>1, <3>2
  <2> QED
    BY <1>3, <2>1 DEF EnvPending, Signals
<1>5. ASSUME NEW s \in Sources, SourcePending(s) PROVE SourcePending(s)'
  <2>1. CASE s \in unreported /\ s \in batch
    <3>1. CASE batch \cap EnvFiles # {}
      BY <1>3, <3>1 DEF SourcePending, EnvPending
    <3>2. CASE batch \cap EnvFiles = {}
      BY <1>3, <2>1, <3>2 DEF SourcePending
    <3> QED
      BY <3>1, <3>2
  <2>2. CASE s \in unreported /\ s \notin batch
    BY <1>1, <2>2 DEF SourcePending
  <2>3. CASE EnvPending
    BY <1>4, <2>3 DEF SourcePending
  <2>4. CASE \E i \in DOMAIN harvest_rx : harvest_rx[i] = s
    BY <1>3, <2>4 DEF SourcePending, Signals
  <2> QED
    BY <1>5, <2>1, <2>2, <2>3, <2>4 DEF SourcePending
<1>6. WritesReported'
  BY <1>1 DEF QueueOK, WritesReported
<1> QED
  BY <1>1, <1>2, <1>3, <1>4, <1>5, <1>6
     DEF Hears, Settled, SameEnvironments, Present, QueueOK

LEMMA SyncHeard ==
    ASSUME QueueOK, OnSyncMessage
    PROVE  Hears /\ QueueOK'
<1>1. UNCHANGED <<disk, unreported, unresolved, budget>>
  BY DEF OnSyncMessage, clientVars
<1>2. harvest_rx' \in {harvest_rx, Append(harvest_rx, Environment)}
  BY DEF OnSyncMessage
<1>3. harvest_rx' \in Seq(Sources \cup {Environment}) /\ Signals(harvest_rx', harvest_rx)
  <2> DEFINE S == Sources \cup {Environment}
             e == Environment
  <2>1. e \in S /\ harvest_rx \in Seq(S)
    BY DEF QueueOK
  <2> HIDE DEF S, e
  <2>2. Append(harvest_rx, e) \in Seq(S) /\ Signals(Append(harvest_rx, e), harvest_rx)
    BY <2>1, AppendHeard
  <2> QED
    BY <1>2, <2>1, <2>2, SignalsKept DEF S, e
<1> QED
  BY <1>1, <1>3, NothingHeard DEF QueueOK, WritesReported

LEMMA OthersHear ==
    ASSUME Types, QueueOK,
           \/ Client \/ Watcher \/ TakeFindings \/ Relint \/ AnalysisThread
           \/ UNCHANGED vars
    PROVE  Hears /\ QueueOK'
<1>1. CASE \E f \in EnvFiles : DidOpen(f) \/ DidClose(f)
  BY <1>1, BuffersHear
<1>2. CASE \E f \in EnvFiles : \E text \in TypedIn[f] : DidChange(f, text)
  BY <1>2, BuffersHear
<1>3. CASE \/ \E f \in EnvFiles : DidSave(f)
           \/ \E s \in Sources, content \in Contents : DidSaveSource(s, content)
  BY <1>3, SavesHear
<1>4. CASE \E f \in DOMAIN disk : \E text \in WrittenTo[f] : Rewrite(f, text)
  <2>1. DOMAIN disk = EnvFiles \cup Sources
    BY DEF Types, ClientOK
  <2> QED
    BY <1>4, <2>1, RewriteHeard
<1>5. CASE \E p \in Projects, n, m \in Names : n # m /\ RenameEntry(p, n, m)
  BY <1>5, RenameHeard
<1>6. CASE Watcher
  BY <1>6, WatcherHeard DEF Watcher
<1>7. CASE OnSyncMessage
  BY <1>7, SyncHeard
<1>8. CASE TakeFindings \/ Relint \/ OnLibraryMessage \/ UNCHANGED vars
  <2>1. UNCHANGED <<disk, budget, unreported, harvest_rx, unresolved>>
    BY <1>8 DEF TakeFindings, Relint, OnLibraryMessage, vars, clientVars
  <2> QED
    BY <2>1, NothingHeard, SignalsKept DEF QueueOK, WritesReported
<1> QED
  BY <1>1, <1>2, <1>3, <1>4, <1>5, <1>6, <1>7, <1>8 DEF Client, AnalysisThread

LEMMA OthersKeepLibrary ==
    ASSUME Types, LibraryInv,
           Client \/ Watcher \/ TakeFindings \/ Relint \/ OnSyncMessage \/ UNCHANGED vars
    PROVE  LibraryInv'
<1>1. QueueOK
  BY DEF LibraryInv
<1>2. Hears /\ QueueOK'
  BY <1>1, OthersHear DEF AnalysisThread
<1>3. UNCHANGED <<harvester, library_rx, packages, workspaces, project_files>>
  <2>1. CASE Client \/ Watcher \/ TakeFindings
    BY <2>1, ClientLeaves DEF dbVars
  <2>2. CASE Relint \/ OnSyncMessage \/ UNCHANGED vars
    BY <2>2 DEF Relint, OnSyncMessage, vars, dbVars
  <2> QED
    BY <2>1, <2>2
<1> QED
  BY <1>2, <1>3, LibraryHeard

-----------------------------------------------------------------------------
(* The analysis thread installs a library.                                  *)

LEMMA InstallRegisters ==
    ASSUME Types, OnLibraryMessage, NEW files \in Partial(Names, Projects),
           \A n \in DOMAIN files : Present(files[n]), RegistersOnce(library_rx, files)
    PROVE  RegistersOnce(library_rx, files)'
<1>1. PICK rx : rx = library_rx
  OBVIOUS
<1>2. PICK rest : rest = Tail(rx)
  OBVIOUS
<1>3. PICK msg : msg = Head(rx)
  OBVIOUS
<1>4. rx \in Seq(LibraryMessage) /\ rx # <<>>
  BY <1>1 DEF Types, OnLibraryMessage
<1>5. /\ library_rx' = rest /\ msg = rx[1] /\ Len(rest) = Len(rx) - 1
      /\ DOMAIN rest = 1..Len(rest) /\ DOMAIN rx = 1..Len(rx) /\ Len(rx) \in Nat /\ Len(rx) >= 1
      /\ \A i \in DOMAIN rest : rest[i] = rx[i+1]
  <2>1. library_rx' = rest
    BY <1>1, <1>2 DEF OnLibraryMessage
  <2>2. 1 \in 1..Len(rx)
    BY <1>4, FirstOf
  <2> QED
    BY <1>2, <1>3, <1>4, <2>1, <2>2
<1>6. CASE msg.kind = "Full" /\ \A j \in DOMAIN rest : rest[j].kind # "Full"
  <2>1. msg.project_files = files
    <3>1. \A j \in DOMAIN rx : j # 1 => rx[j].kind # "Full"
      <4>1. ASSUME NEW j \in DOMAIN rx, j # 1 PROVE rx[j].kind # "Full"
        <5>1. j - 1 \in DOMAIN rest /\ (j - 1) + 1 = j
          BY <1>5, <4>1
        <5> QED
          BY <1>5, <1>6, <5>1
      <4> QED
        BY <4>1
    <3>2. 1 \in DOMAIN rx
      BY <1>5
    <3> QED
      BY <1>1, <1>5, <1>6, <3>1, <3>2 DEF RegistersOnce
  <2>2. OnFullLibrary(msg)
    BY <1>1, <1>3, <1>6 DEF OnLibraryMessage
  <2>3. Claimed(files) = DOMAIN files
    <3>1. \A n \in DOMAIN files : files[n] \in Projects
      BY PartialDomain
    <3>2. \A p \in Projects : disk[ProjectOf(p)] \in Texts \cup {Absent} /\ None \notin Texts
      <4>1. ASSUME NEW p \in Projects PROVE disk[ProjectOf(p)] \in Texts \cup {Absent}
        <5>1. ProjectOf(p) \in EnvFiles
          BY ProjectFile
        <5> QED
          BY <5>1, HoldsTexts DEF Types, ClientOK
      <4> QED
        BY <4>1, FilesAssumption
    <3>3. ASSUME NEW n \in DOMAIN files PROVE Seeded(files[n]) # None
      BY <3>1, <3>2, <3>3 DEF Seeded, Present
    <3> QED
      BY <3>3 DEF Claimed
  <2>4. files = [n \in DOMAIN files |-> files[n]]
    BY PartialDomain
  <2>5. workspaces' = DOMAIN files /\ project_files' = files
    BY <2>1, <2>2, <2>3, <2>4 DEF OnFullLibrary
  <2> QED
    BY <1>5, <1>6, <2>5 DEF RegistersOnce
<1>7. CASE msg.kind = "Full" /\ \E j \in DOMAIN rest : rest[j].kind = "Full"
  <2>1. PICK j \in DOMAIN rest : rest[j].kind = "Full"
    BY <1>7
  <2>2. j + 1 \in DOMAIN rx /\ rx[j+1].kind = "Full"
    BY <1>5, <2>1
  <2>3. PICK i \in DOMAIN rx : /\ rx[i].kind = "Full" /\ rx[i].project_files = files
                               /\ \A k \in DOMAIN rx : i < k => rx[k].kind # "Full"
    BY <1>1, <2>2 DEF RegistersOnce
  <2>4. i # 1
    BY <1>5, <2>1, <2>2, <2>3
  <2>5. i - 1 \in DOMAIN rest /\ rest[i-1] = rx[i]
    BY <1>5, <2>3, <2>4
  <2>6. \A k \in DOMAIN rest : i - 1 < k => rest[k].kind # "Full"
    BY <1>5, <2>3
  <2> QED
    BY <1>5, <2>3, <2>5, <2>6 DEF RegistersOnce
<1>8. CASE msg.kind # "Full"
  <2>1. UNCHANGED <<workspaces, project_files>>
    BY <1>1, <1>3, <1>8 DEF OnLibraryMessage, OnPackage
  <2>2. CASE \A j \in DOMAIN rx : rx[j].kind # "Full"
    <3>1. workspaces = DOMAIN files /\ project_files = files
      BY <1>1, <2>2 DEF RegistersOnce
    <3>2. \A j \in DOMAIN rest : rest[j].kind # "Full"
      BY <1>5, <2>2
    <3> QED
      BY <1>5, <2>1, <3>1, <3>2 DEF RegistersOnce
  <2>3. CASE \E j \in DOMAIN rx : rx[j].kind = "Full"
    <3>1. PICK i \in DOMAIN rx : /\ rx[i].kind = "Full" /\ rx[i].project_files = files
                                 /\ \A k \in DOMAIN rx : i < k => rx[k].kind # "Full"
      BY <1>1, <2>3 DEF RegistersOnce
    <3>2. i # 1
      BY <1>5, <1>8, <3>1
    <3>3. i - 1 \in DOMAIN rest /\ rest[i-1] = rx[i]
      BY <1>5, <3>1, <3>2
    <3>4. \A k \in DOMAIN rest : i - 1 < k => rest[k].kind # "Full"
      BY <1>5, <3>1
    <3> QED
      BY <1>5, <3>1, <3>3, <3>4 DEF RegistersOnce
  <2> QED
    BY <2>2, <2>3
<1> QED
  BY <1>6, <1>7, <1>8

LEMMA InstallKeepsLibrary ==
    ASSUME Types, LibraryInv, OnLibraryMessage
    PROVE  LibraryInv'
<1>1. UNCHANGED <<disk, budget, unreported, harvest_rx, unresolved, harvester>>
  BY DEF OnLibraryMessage, clientVars
<1>2. Hears /\ QueueOK'
  BY <1>1, NothingHeard, SignalsKept DEF LibraryInv, QueueOK, WritesReported
<1>3. PICK h : h = harvester
  OBVIOUS
<1>4. HarvesterOK(h) /\ PassInv(h) /\ ClientOK
  BY <1>3 DEF LibraryInv, Types
<1>5. PassInv(h)'
  BY <1>2, <1>4, PassHeard
<1>6. HeldOnceServed' = HeldOnceServed
  BY InstalledNext
<1>7. PICK held : held = HeldOnceServed
  OBVIOUS
<1>8. ASSUME h.at \in {"wait", "reharvest"}, ~EnvPending'
      PROVE  \E files : RegistersOnce(library_rx, files)' /\ ServedBy(h, held, files)'
  <2>1. ~EnvPending
    BY <1>2, <1>8 DEF Hears
  <2>2. PICK files : RegistersOnce(library_rx, files) /\ ServedBy(h, held, files)
    BY <1>3, <1>7, <1>8, <2>1 DEF LibraryInv, Serves
  <2>3. RegistersOnce(library_rx, files)'
    BY <2>2, InstallRegisters DEF ServedBy
  <2>4. ServedBy(h, held, files)'
    BY <1>2, <1>4, <1>8, <2>2, ServedByHeard
  <2> QED
    BY <2>3, <2>4
<1> QED
  BY <1>1, <1>2, <1>3, <1>5, <1>6, <1>7, <1>8 DEF LibraryInv, Serves

-----------------------------------------------------------------------------
(* A pass of the harvester.                                                 *)

(* The folders left once the first of them is added.                        *)
AddedAt(h, g, k) ==
    /\ IsWalk(g) /\ h.envs = g[k+1]
    /\ k \in Nat /\ k < Len(WalkUps) /\ Len(h.roots) = Len(WalkUps) - k
    /\ \A i \in 1..Len(h.roots) : h.roots[i] = WalkUps[k + i]

LEMMA TailOf ==
    ASSUME NEW S, NEW q \in Seq(S), q # <<>>
    PROVE  /\ Len(q) \in Nat /\ Len(q) >= 1 /\ Len(Tail(q)) = Len(q) - 1
           /\ \A i \in 1..Len(Tail(q)) : Tail(q)[i] = q[i+1] /\ i + 1 \in 1..Len(q)
           /\ Head(q) = q[1] /\ q[1] \in S
<1>1. q[1] \in S /\ 1 \in 1..Len(q) /\ Len(q) \in Nat
  BY FirstOf
<1>2. Len(q) >= 1
  BY <1>1
<1>3. Len(Tail(q)) = Len(q) - 1
  OBVIOUS
<1>4. \A i \in 1..Len(Tail(q)) : Tail(q)[i] = q[i+1] /\ i + 1 \in 1..Len(q)
  BY <1>2, <1>3
<1> QED
  BY <1>1, <1>2, <1>3, <1>4

LEMMA NextRootPasses ==
    ASSUME NEW h \in HarvesterRecord, h.roots # <<>>,
           ProjectsApart(h.envs), OneEach(h.devs), ProjectsApart(h.devs), OneEach(h.todo),
           DOMAIN h.library = {},
           ~EnvPending => /\ \A i \in DOMAIN h.envs : Present(h.envs[i].project)
                          /\ \A i \in DOMAIN h.todo : Present(h.todo[i].project),
           Settled => \E g, k : AddedAt(h, g, k)
    PROVE  PassInv(NextRoot(h))
<1> DEFINE n == NextRoot(h)
           dirs == Seq(Projects)
<1>1. h.roots \in Seq(dirs)
  BY DEF HarvesterRecord
<1>2. PICK roots : roots = h.roots
  OBVIOUS
<1>3. PICK rest : rest = Tail(roots)
  OBVIOUS
<1>4. /\ n.at = IF Len(roots) > 1 THEN "locate" ELSE "publish"
      /\ n.roots = rest /\ n.envs = h.envs /\ n.devs = h.devs /\ n.todo = h.todo
      /\ n.library = h.library
  BY <1>2, <1>3 DEF NextRoot, HarvesterRecord
<1>5. roots \in Seq(dirs) /\ roots # <<>>
  BY <1>1, <1>2
<1> HIDE DEF n, dirs
<1>6. n.at \in {"locate", "publish"}
  BY <1>4
<1>7. /\ Len(roots) \in Nat /\ Len(roots) >= 1 /\ Len(rest) = Len(roots) - 1
      /\ \A i \in 1..Len(rest) : rest[i] = roots[i+1] /\ i + 1 \in 1..Len(roots)
  BY <1>3, <1>5, TailOf
<1>8. FreshPass(n)
  <2> SUFFICES ASSUME Settled PROVE FreshPass(n)
    BY DEF FreshPass
  <2>1. PICK g, k : AddedAt(h, g, k)
    OBVIOUS
  <2>2. /\ k \in Nat /\ Len(WalkUps) \in Nat /\ Len(roots) = Len(WalkUps) - k
        /\ \A i \in 1..Len(roots) : roots[i] = WalkUps[k + i]
    <3>1. Len(WalkUps) \in Nat
      BY PlacesAssumption
    <3> QED
      BY <1>2, <2>1, <3>1 DEF AddedAt
  <2>3. CASE Len(roots) > 1
    <3>1. n.at = "locate"
      BY <1>4, <2>3
    <3>2. k + 1 \in Nat /\ k + 1 < Len(WalkUps) /\ Len(rest) = Len(WalkUps) - (k + 1)
      BY <1>7, <2>2, <2>3
    <3>3. \A i \in 1..Len(rest) : rest[i] = WalkUps[(k + 1) + i]
      <4> SUFFICES ASSUME NEW i \in 1..Len(rest) PROVE rest[i] = WalkUps[(k + 1) + i]
        OBVIOUS
      <4>1. rest[i] = WalkUps[k + (i + 1)]
        BY <1>7, <2>2
      <4>2. k + (i + 1) = (k + 1) + i
        BY <2>2
      <4> QED
        BY <4>1, <4>2
    <3>4. WalksAt(n, g, k + 1)
      BY <1>4, <2>1, <3>2, <3>3 DEF WalksAt, AddedAt
    <3> QED
      BY <3>1, <3>4 DEF FreshPass
  <2>4. CASE ~(Len(roots) > 1)
    <3>1. n.at = "publish"
      BY <1>4, <2>4
    <3>2. k + 1 = Len(WalkUps)
      BY <1>7, <2>2, <2>4
    <3>3. n.envs = g[Len(WalkUps)] /\ IsWalk(g)
      BY <1>4, <2>1, <3>2 DEF AddedAt
    <3>4. n.envs = FreshEnvs
      BY <3>3, WalkIsFresh
    <3> QED
      BY <3>1, <3>4 DEF FreshPass
  <2> QED
    BY <2>3, <2>4
<1>9. ListsOK(n)
  BY <1>4, <1>6 DEF ListsOK
<1>10. ReadsPresent(n)
  BY <1>4, <1>6 DEF ReadsPresent
<1>11. HarvestsListed(n)
  BY <1>6 DEF HarvestsListed
<1> QED
  BY <1>8, <1>9, <1>10, <1>11 DEF PassInv, n

(* The environment a project resolves to.                                   *)
LEMMA ResolvedIs ==
    ASSUME NEW p, Resolved(p).fault = None, None \notin EnvFiles, p \in Projects
    PROVE  Resolved(p).project = p /\ Present(p)
<1>1. ProjectOf(p) \in EnvFiles /\ ManifestOf(p) \in EnvFiles
  BY ProjectFile
<1>2. Parses(disk[ProjectOf(p)]) /\ disk[ManifestOf(p)] # Broken
  BY <1>1 DEF Resolved
<1> QED
  BY <1>2 DEF Resolved, Parses, Present

(* What holds of a pass at a folder.                                        *)
LEMMA FolderFacts ==
    ASSUME NEW h, HarvesterOK(h), PassInv(h), h.at \in {"locate", "read", "check"}
    PROVE  /\ h \in HarvesterRecord /\ h.roots # <<>>
           /\ ProjectsApart(h.envs) /\ OneEach(h.devs) /\ ProjectsApart(h.devs)
           /\ OneEach(h.todo) /\ DOMAIN h.library = {}
           /\ ~EnvPending => /\ \A i \in DOMAIN h.envs : Present(h.envs[i].project)
                             /\ \A i \in DOMAIN h.todo : Present(h.todo[i].project)
BY DEF HarvesterOK, PassInv, ListsOK, ReadsPresent

(* The folder at hand adds to the environments what AddEnv says.            *)
LEMMA AddsFolder ==
    ASSUME NEW h, HarvesterOK(h), PassInv(h), h.at \in {"locate", "read", "check"},
           Settled, NEW more, more.envs = AddEnv(h.envs, h.roots[1]), more.roots = h.roots
    PROVE  \E g, k : AddedAt(more, g, k)
<1>1. PICK g, k : WalksAt(h, g, k)
  BY DEF PassInv, FreshPass
<1>2. h.roots \in Seq(Seq(Projects)) /\ h.roots # <<>>
  BY DEF HarvesterOK, HarvesterRecord
<1>3. 1 \in 1..Len(h.roots)
  <2> DEFINE roots == h.roots
             dirs == Seq(Projects)
  <2>1. roots \in Seq(dirs) /\ roots # <<>>
    BY <1>2
  <2> HIDE DEF roots, dirs
  <2>2. 1 \in 1..Len(roots)
    BY <2>1, FirstOf
  <2> QED
    BY <2>2 DEF roots
<1>4. h.roots[1] = WalkUps[k+1]
  BY <1>1, <1>3 DEF WalksAt
<1>5. k + 1 \in 1..Len(WalkUps) /\ (k + 1) - 1 = k
  <2>1. Len(WalkUps) \in Nat
    BY PlacesAssumption
  <2> QED
    BY <1>1, <2>1 DEF WalksAt
<1>6. g[k+1] = AddEnv(g[k], WalkUps[k+1])
  BY <1>1, <1>5 DEF WalksAt, IsWalk
<1>7. more.envs = g[k+1]
  BY <1>1, <1>4, <1>6 DEF WalksAt
<1>8. AddedAt(more, g, k)
  BY <1>1, <1>7 DEF WalksAt, AddedAt
<1> QED
  BY <1>8

LEMMA HeadRoot ==
    ASSUME NEW h, HarvesterOK(h), h.at \in {"locate", "read", "check"}
    PROVE  Head(h.roots) = h.roots[1] /\ h.roots[1] \in Seq(Projects)
<1> DEFINE dirs == Seq(Projects)
<1>1. PICK roots : roots = h.roots
  OBVIOUS
<1>2. roots \in Seq(dirs) /\ roots # <<>>
  BY <1>1 DEF HarvesterOK, HarvesterRecord
<1> HIDE DEF dirs
<1>3. Head(roots) = roots[1] /\ roots[1] \in dirs
  BY <1>2, TailOf
<1> QED
  BY <1>1, <1>3 DEF dirs

LEMMA LocatePasses ==
    ASSUME Types, PassInv(harvester), Locate
    PROVE  PassInv(harvester')
<1>1. PICK h : h = harvester
  OBVIOUS
<1>2. PICK next : next = harvester'
  OBVIOUS
<1>3. HarvesterOK(h) /\ PassInv(h) /\ h.at = "locate"
  BY <1>1 DEF Types, Locate, At
<1>4. PICK p : p = Located(h.roots[1])
  OBVIOUS
<1>5. next = IF p = None THEN NextRoot(h) ELSE [h EXCEPT !.at = "read", !.located = p]
  BY <1>1, <1>2, <1>3, <1>4, HeadRoot DEF Locate
<1>6. CASE p = None
  <2>1. h.envs = AddEnv(h.envs, h.roots[1])
    BY <1>4, <1>6 DEF AddEnv
  <2>2. Settled => \E g, k : AddedAt(h, g, k)
    BY <1>3, <2>1, AddsFolder
  <2>3. PassInv(NextRoot(h))
    BY <1>3, <2>2, FolderFacts, NextRootPasses
  <2> QED
    BY <1>2, <1>5, <1>6, <2>3
<1>7. CASE p # None
  <2>1. /\ next.at = "read" /\ next.located = p /\ next.roots = h.roots
        /\ next.envs = h.envs /\ next.devs = h.devs /\ next.todo = h.todo
        /\ next.library = h.library
    BY <1>3, <1>5, <1>7 DEF HarvesterOK, HarvesterRecord
  <2>2. ListsOK(next) /\ ReadsPresent(next)
    BY <1>3, <2>1, FolderFacts DEF ListsOK, ReadsPresent
  <2>3. HarvestsListed(next)
    BY <2>1 DEF HarvestsListed
  <2>4. FreshPass(next)
    <3> SUFFICES ASSUME Settled PROVE FreshPass(next)
      BY DEF FreshPass
    <3>1. PICK g, k : WalksAt(h, g, k)
      BY <1>3 DEF PassInv, FreshPass
    <3>2. WalksAt(next, g, k)
      BY <2>1, <3>1 DEF WalksAt
    <3> QED
      BY <1>4, <2>1, <3>2 DEF FreshPass
  <2> QED
    BY <1>2, <2>2, <2>3, <2>4 DEF PassInv
<1> QED
  BY <1>6, <1>7

LEMMA ReadPasses ==
    ASSUME Types, PassInv(harvester), ReadEnvironment
    PROVE  PassInv(harvester')
<1>1. PICK h : h = harvester
  OBVIOUS
<1>2. PICK next : next = harvester'
  OBVIOUS
<1>3. /\ HarvesterOK(h) /\ PassInv(h) /\ h.at = "read" /\ h.located \in Projects
      /\ h \in HarvesterRecord
  BY <1>1 DEF Types, ReadEnvironment, At, HarvesterOK
<1>4. PICK env : env = Resolved(h.located)
  OBVIOUS
<1>5. PICK noted : noted = IF env.fault \in DOMAIN h.findings THEN h.findings
                           ELSE Put(h.findings, env.fault, SyntaxFindings(Broken))
  OBVIOUS
<1> DEFINE seen == \E i \in DOMAIN h.envs : h.envs[i].project = h.located
<1>6. next = IF env.fault # None THEN NextRoot([h EXCEPT !.findings = noted])
             ELSE IF seen THEN NextRoot(h)
             ELSE [h EXCEPT !.at = "check", !.env = env]
  BY <1>1, <1>2, <1>4, <1>5 DEF ReadEnvironment
<1> HIDE DEF seen
<1>7. Settled => h.located = Located(h.roots[1])
  BY <1>3 DEF PassInv, FreshPass
<1>8. h.located # None
  BY <1>3, FilesAssumption
<1>9. CASE env.fault # None
  <2>1. Settled => h.envs = AddEnv(h.envs, h.roots[1])
    BY <1>4, <1>7, <1>9 DEF AddEnv
  <2>2. PICK faulty : faulty = [h EXCEPT !.findings = noted]
    OBVIOUS
  <2>3. noted \in Partial(EnvFiles, SUBSET Tags)
    <3>1. env.fault \in EnvFiles
      BY <1>3, <1>4, <1>9, ResolvedTyped DEF Types
    <3>2. SyntaxFindings(Broken) \in SUBSET Tags
      BY FindingsTyped
    <3>3. h.findings \in Partial(EnvFiles, SUBSET Tags)
      BY <1>3 DEF HarvesterRecord
    <3> QED
      BY <1>5, <3>1, <3>2, <3>3, PartialPut
  <2>4. /\ faulty \in HarvesterRecord /\ faulty.roots = h.roots
        /\ faulty.envs = h.envs /\ faulty.devs = h.devs /\ faulty.todo = h.todo
        /\ faulty.library = h.library
    BY <1>3, <2>2, <2>3 DEF HarvesterRecord
  <2>5. Settled => \E g, k : AddedAt(faulty, g, k)
    BY <1>3, <2>1, <2>4, AddsFolder
  <2>6. PassInv(NextRoot(faulty))
    BY <1>3, <2>4, <2>5, FolderFacts, NextRootPasses
  <2> QED
    BY <1>2, <1>6, <1>9, <2>2, <2>6
<1>10. CASE env.fault = None /\ seen
  <2>1. Settled => h.envs = AddEnv(h.envs, h.roots[1])
    BY <1>7, <1>10 DEF AddEnv, seen
  <2>2. Settled => \E g, k : AddedAt(h, g, k)
    BY <1>3, <2>1, AddsFolder
  <2>3. PassInv(NextRoot(h))
    BY <1>3, <2>2, FolderFacts, NextRootPasses
  <2> QED
    BY <1>2, <1>6, <1>10, <2>3
<1>11. CASE env.fault = None /\ ~seen
  <2>1. env \in Env /\ env.project = h.located /\ Present(h.located)
    BY <1>3, <1>4, <1>11, ResolvedTyped, ResolvedIs, FilesAssumption DEF Types
  <2>2. /\ next.at = "check" /\ next.env = env /\ next.roots = h.roots
        /\ next.envs = h.envs /\ next.devs = h.devs /\ next.todo = h.todo
        /\ next.library = h.library
    BY <1>3, <1>6, <1>11 DEF HarvesterRecord
  <2>3. ListsOK(next) /\ ReadsPresent(next)
    BY <1>3, <1>11, <2>1, <2>2, FolderFacts DEF ListsOK, ReadsPresent, seen
  <2>4. HarvestsListed(next)
    BY <2>2 DEF HarvestsListed
  <2>5. FreshPass(next)
    <3> SUFFICES ASSUME Settled PROVE FreshPass(next)
      BY DEF FreshPass
    <3>1. PICK g, k : WalksAt(h, g, k)
      BY <1>3 DEF PassInv, FreshPass
    <3>2. WalksAt(next, g, k)
      BY <2>2, <3>1 DEF WalksAt
    <3> QED
      BY <1>3, <1>4, <1>7, <2>2, <3>2 DEF FreshPass
  <2> QED
    BY <1>2, <2>3, <2>4, <2>5 DEF PassInv
<1> QED
  BY <1>9, <1>10, <1>11

LEMMA CheckPasses ==
    ASSUME Types, PassInv(harvester), CheckEnvironment
    PROVE  PassInv(harvester')
<1>1. PICK h : h = harvester
  OBVIOUS
<1>2. PICK next : next = harvester'
  OBVIOUS
<1>3. /\ HarvesterOK(h) /\ PassInv(h) /\ h.at = "check" /\ h.env \in Env
      /\ h \in HarvesterRecord
  BY <1>1 DEF Types, CheckEnvironment, At, HarvesterOK
<1>4. PICK env : env = h.env
  OBVIOUS
<1>5. PICK diags : diags = SemanticFindings(env, disk[ProjectOf(env.project)])
  OBVIOUS
<1>6. PICK found : found = IF diags = {} THEN h.findings
                           ELSE Put(h.findings, ProjectOf(env.project), diags)
  OBVIOUS
<1>7. PICK envs : envs = Append(h.envs, env)
  OBVIOUS
<1>8. PICK checked : checked = [h EXCEPT !.findings = found, !.envs = envs]
  OBVIOUS
<1>9. next = NextRoot(checked)
  BY <1>1, <1>2, <1>4, <1>5, <1>6, <1>7, <1>8 DEF CheckEnvironment
<1>10. found \in Partial(EnvFiles, SUBSET Tags)
  <2>1. ProjectOf(env.project) \in EnvFiles
    BY <1>3, <1>4, ProjectFile DEF Env
  <2>2. diags \in SUBSET Tags
    BY <1>5, FindingsTyped
  <2>3. h.findings \in Partial(EnvFiles, SUBSET Tags)
    BY <1>3 DEF HarvesterRecord
  <2> QED
    BY <1>6, <2>1, <2>2, <2>3, PartialPut
<1>11. PICK before : before = h.envs
  OBVIOUS
<1>12. before \in Seq(Env) /\ env \in Env
  BY <1>3, <1>4, <1>11 DEF HarvesterRecord
<1>13. /\ envs \in Seq(Env) /\ DOMAIN envs = DOMAIN before \cup {Len(before) + 1}
       /\ \A i \in DOMAIN before : envs[i] = before[i] /\ i # Len(before) + 1
       /\ envs[Len(before) + 1] = env
  BY <1>7, <1>11, <1>12
<1>14. /\ checked \in HarvesterRecord /\ checked.roots = h.roots
       /\ checked.envs = envs /\ checked.devs = h.devs /\ checked.todo = h.todo
       /\ checked.library = h.library
  BY <1>3, <1>8, <1>10, <1>13 DEF HarvesterRecord
<1>15. ProjectsApart(envs)
  <2>1. ProjectsApart(before) /\ \A i \in DOMAIN before : before[i].project # env.project
    BY <1>3, <1>4, <1>11 DEF PassInv, ListsOK
  <2> QED
    BY <1>13, <2>1 DEF ProjectsApart
<1>16. ~EnvPending => \A i \in DOMAIN envs : Present(envs[i].project)
  <2>1. ~EnvPending => /\ \A i \in DOMAIN before : Present(before[i].project)
                       /\ Present(env.project)
    BY <1>3, <1>4, <1>11 DEF PassInv, ReadsPresent
  <2> QED
    BY <1>13, <2>1
<1>17. Settled => \E g, k : AddedAt(checked, g, k)
  <2> SUFFICES ASSUME Settled PROVE \E g, k : AddedAt(checked, g, k)
    OBVIOUS
  <2>1. PICK p : p = Located(h.roots[1])
    OBVIOUS
  <2>2. p \in Projects /\ env = Resolved(p)
    BY <1>3, <1>4, <2>1 DEF PassInv, FreshPass
  <2>3. p # None /\ env.fault = None
    BY <1>12, <2>2, FilesAssumption DEF Env
  <2>4. env.project = p
    BY <2>2, <2>3, ResolvedIs, FilesAssumption
  <2>5. \A i \in DOMAIN h.envs : h.envs[i].project # p
    BY <1>3, <1>4, <2>4 DEF PassInv, ListsOK
  <2>6. envs = AddEnv(h.envs, h.roots[1])
    BY <1>7, <2>1, <2>2, <2>3, <2>5 DEF AddEnv
  <2> QED
    BY <1>3, <1>14, <2>6, AddsFolder
<1>18. PassInv(NextRoot(checked))
  BY <1>3, <1>14, <1>15, <1>16, <1>17, FolderFacts, NextRootPasses
<1> QED
  BY <1>2, <1>9, <1>18

LEMMA PublishPasses ==
    ASSUME Types, PassInv(harvester), PublishEnvironmentDiagnostics
    PROVE  PassInv(harvester')
<1>1. PICK h : h = harvester
  OBVIOUS
<1>2. PICK next : next = harvester'
  OBVIOUS
<1>3. HarvesterOK(h) /\ PassInv(h) /\ h.at = "publish" /\ h \in HarvesterRecord
  BY <1>1 DEF Types, PublishEnvironmentDiagnostics, At, HarvesterOK
<1>4. next = [h EXCEPT !.at = "list"]
  BY <1>1, <1>2 DEF PublishEnvironmentDiagnostics
<1>5. /\ next.at = "list" /\ next.envs = h.envs /\ next.devs = h.devs
      /\ next.todo = h.todo /\ next.library = h.library
  BY <1>3, <1>4 DEF HarvesterRecord
<1>6. ListsOK(next)
  BY <1>3, <1>5 DEF PassInv, ListsOK
<1>7. ReadsPresent(next)
  BY <1>3, <1>5 DEF PassInv, ReadsPresent
<1>8. HarvestsListed(next) /\ FreshPass(next)
  BY <1>3, <1>5 DEF PassInv, HarvestsListed, FreshPass
<1> QED
  BY <1>2, <1>6, <1>7, <1>8 DEF PassInv

LEMMA ListPasses ==
    ASSUME Types, PassInv(harvester), ListPackages
    PROVE  PassInv(harvester')
<1>1. PICK h : h = harvester
  OBVIOUS
<1>2. PICK next : next = harvester'
  OBVIOUS
<1>3. HarvesterOK(h) /\ PassInv(h) /\ h.at = "list" /\ h \in HarvesterRecord
  BY <1>1 DEF Types, ListPackages, At, HarvesterOK
<1>4. PICK devs : devs = DevPackages(h.envs)
  OBVIOUS
<1>5. next = [h EXCEPT !.at = "claim", !.devs = devs]
  BY <1>1, <1>2, <1>4 DEF ListPackages
<1>6. /\ next.at = "claim" /\ next.envs = h.envs /\ next.devs = devs
      /\ next.todo = h.todo /\ next.library = h.library
  BY <1>3, <1>5 DEF HarvesterRecord
<1>7. ListedFrom(devs, h.envs)
  BY <1>3, <1>4, ListsPackages DEF HarvesterRecord
<1>8. OneEach(devs) /\ ProjectsApart(devs)
  BY <1>3, <1>7, ListsApart DEF ListedFrom, PassInv, ListsOK
<1>9. \A i \in DOMAIN devs :
         /\ \E k \in DOMAIN h.envs :
              /\ h.envs[k].project = devs[i].project /\ h.envs[k].name = devs[i].name
              /\ h.envs[k].name # None
         /\ disk[EntryFile(devs[i])] # Absent
  <2> SUFFICES ASSUME NEW i \in DOMAIN devs
               PROVE  /\ \E k \in DOMAIN h.envs :
                           /\ h.envs[k].project = devs[i].project
                           /\ h.envs[k].name = devs[i].name
                           /\ h.envs[k].name # None
                      /\ disk[EntryFile(devs[i])] # Absent
    OBVIOUS
  <2>1. PICK k \in DOMAIN h.envs :
          /\ h.envs[k].project = devs[i].project /\ h.envs[k].name = devs[i].name
          /\ IsPackage(h.envs[k])
    BY <1>7 DEF ListedFrom
  <2> QED
    BY <2>1 DEF IsPackage, EntryFile
<1>10. ListsOK(next)
  BY <1>3, <1>6, <1>8, <1>9 DEF PassInv, ListsOK
<1>11. ReadsPresent(next)
  BY <1>3, <1>6 DEF PassInv, ReadsPresent
<1>12. HarvestsListed(next)
  BY <1>6, <1>9 DEF HarvestsListed
<1>13. FreshPass(next)
  <2>1. Settled => h.envs = FreshEnvs
    BY <1>3 DEF PassInv, FreshPass
  <2> QED
    BY <1>4, <1>6, <2>1 DEF FreshPass, FreshDevs
<1> QED
  BY <1>2, <1>10, <1>11, <1>12, <1>13 DEF PassInv

LEMMA ClaimPasses ==
    ASSUME Types, PassInv(harvester), ClaimPackages
    PROVE  PassInv(harvester')
<1>1. PICK h : h = harvester
  OBVIOUS
<1>2. PICK next : next = harvester'
  OBVIOUS
<1>3. HarvesterOK(h) /\ PassInv(h) /\ h.at = "claim" /\ h \in HarvesterRecord
  BY <1>1 DEF Types, ClaimPackages, At, HarvesterOK
<1>4. PICK todo : todo = DevPackages(h.envs)
  OBVIOUS
<1>5. next = [h EXCEPT !.at = "harvest", !.todo = todo]
  BY <1>1, <1>2, <1>4 DEF ClaimPackages
<1>6. /\ next.at = "harvest" /\ next.envs = h.envs /\ next.devs = h.devs
      /\ next.todo = todo /\ next.library = h.library
  BY <1>3, <1>5 DEF HarvesterRecord
<1>7. ListedFrom(todo, h.envs)
  BY <1>3, <1>4, ListsPackages DEF HarvesterRecord
<1>8. ListsOK(next)
  BY <1>3, <1>6, <1>7 DEF PassInv, ListsOK, ListedFrom
<1>9. ReadsPresent(next)
  <2> SUFFICES ASSUME ~EnvPending, NEW i \in DOMAIN todo PROVE Present(todo[i].project)
    BY <1>3, <1>6 DEF PassInv, ReadsPresent
  <2>1. PICK k \in DOMAIN h.envs : h.envs[k].project = todo[i].project
    BY <1>7 DEF ListedFrom
  <2> QED
    BY <1>3, <2>1 DEF PassInv, ReadsPresent
<1>10. HarvestsListed(next)
  <2>1. ASSUME NEW i \in DOMAIN h.devs, ~SourcePending(EntryFile(h.devs[i]))
        PROVE  h.devs[i].name \in NamesOf(todo)
    <3>1. disk[EntryFile(h.devs[i])] # Absent
      BY <1>3, <2>1 DEF PassInv, HarvestsListed
    <3>2. PICK k \in DOMAIN h.envs :
            /\ h.envs[k].project = h.devs[i].project /\ h.envs[k].name = h.devs[i].name
            /\ h.envs[k].name # None
      BY <1>3 DEF PassInv, ListsOK
    <3>3. IsPackage(h.envs[k])
      BY <3>1, <3>2 DEF IsPackage, EntryFile
    <3> QED
      BY <1>7, <3>2, <3>3 DEF ListedFrom, NamesOf
  <2>2. DOMAIN h.library = {}
    BY <1>3 DEF PassInv, ListsOK
  <2> QED
    BY <1>6, <2>1, <2>2 DEF HarvestsListed
<1>11. FreshPass(next)
  <2>1. Settled => h.envs = FreshEnvs /\ h.devs = FreshDevs
    BY <1>3 DEF PassInv, FreshPass
  <2> QED
    BY <1>4, <1>6, <2>1 DEF FreshPass, FreshDevs
<1> QED
  BY <1>2, <1>8, <1>9, <1>10, <1>11 DEF PassInv

LEMMA HarvestPasses ==
    ASSUME Types, PassInv(harvester), HarvestPackage
    PROVE  PassInv(harvester')
<1>1. PICK h : h = harvester
  OBVIOUS
<1>2. PICK next : next = harvester'
  OBVIOUS
<1>3. /\ HarvesterOK(h) /\ PassInv(h) /\ h.at = "harvest" /\ h \in HarvesterRecord
      /\ IsFiniteSet(DOMAIN h.library)
  BY <1>1 DEF Types, HarvestPackage, At, HarvesterOK
<1>4. PICK k : k = Cardinality(DOMAIN h.library) + 1
  OBVIOUS
<1>5. PICK todo : todo = h.todo
  OBVIOUS
<1>6. k \in DOMAIN todo /\ todo \in Seq(Dev)
  <2>1. Cardinality(DOMAIN h.library) \in Nat
    BY <1>3, FS_CardinalityType
  <2>2. Cardinality(DOMAIN h.library) < Len(todo)
    BY <1>1, <1>5 DEF HarvestPackage
  <2>3. todo \in Seq(Dev)
    BY <1>3, <1>5 DEF HarvesterRecord
  <2> QED
    BY <1>4, <2>1, <2>2, <2>3
<1>7. PICK dev : dev = todo[k]
  OBVIOUS
<1>8. PICK index : index = HarvestWorkspace(dev)
  OBVIOUS
<1>9. PICK more : more = Put(h.library, dev.name, index)
  OBVIOUS
<1>10. next = [h EXCEPT !.library = more]
  BY <1>1, <1>2, <1>4, <1>5, <1>7, <1>8, <1>9 DEF HarvestPackage
<1>11. /\ next.at = "harvest" /\ next.envs = h.envs /\ next.devs = h.devs
       /\ next.todo = todo /\ next.library = more
  BY <1>3, <1>5, <1>10 DEF HarvesterRecord
<1>12. ListsOK(next)
  BY <1>3, <1>5, <1>11 DEF PassInv, ListsOK
<1>13. ReadsPresent(next)
  BY <1>3, <1>5, <1>11 DEF PassInv, ReadsPresent
<1>14. HarvestsListed(next)
  <2>1. ASSUME NEW i \in DOMAIN todo, todo[i].name \in DOMAIN more
        PROVE  more[todo[i].name] = HarvestWorkspace(todo[i]) \/ Changing(todo[i])
    <3>1. CASE todo[i].name = dev.name
      <4>1. i = k
        BY <1>3, <1>5, <1>6, <1>7, <3>1 DEF PassInv, ListsOK, OneEach
      <4> QED
        BY <1>7, <1>8, <1>9, <4>1 DEF Put
    <3>2. CASE todo[i].name # dev.name
      <4>1. todo[i].name \in DOMAIN h.library /\ more[todo[i].name] = h.library[todo[i].name]
        BY <1>9, <2>1, <3>2 DEF Put
      <4> QED
        BY <1>3, <1>5, <4>1 DEF PassInv, HarvestsListed
    <3> QED
      BY <3>1, <3>2
  <2> QED
    BY <1>3, <1>5, <1>11, <2>1 DEF PassInv, HarvestsListed
<1>15. FreshPass(next)
  BY <1>3, <1>5, <1>11 DEF PassInv, FreshPass
<1> QED
  BY <1>2, <1>12, <1>13, <1>14, <1>15 DEF PassInv

(* A step of a pass takes no signal and sends no library.                   *)
LEMMA PassSteps ==
    ASSUME Types, QueueOK, PassInv(harvester),
           \/ Locate \/ ReadEnvironment \/ CheckEnvironment \/ PublishEnvironmentDiagnostics
           \/ ListPackages \/ ClaimPackages \/ HarvestPackage
    PROVE  /\ Hears /\ QueueOK' /\ PassInv(harvester')
           /\ HarvesterOK(harvester') /\ PassInv(harvester)'
           /\ harvester'.at \notin {"wait", "reharvest"}
<1>1. PICK next : next = harvester'
  OBVIOUS
<1>2. UNCHANGED <<disk, budget, unreported, harvest_rx, unresolved>>
  BY DEF Locate, ReadEnvironment, CheckEnvironment, PublishEnvironmentDiagnostics,
         ListPackages, ClaimPackages, HarvestPackage, HarvesterOnly, clientVars
<1>3. Hears /\ QueueOK' /\ ClientOK
  BY <1>2, NothingHeard, SignalsKept DEF QueueOK, WritesReported, Types
<1>4. HarvesterOK(next)
  BY <1>1, LocateTyped, ReadTyped, CheckTyped, PassTyped, HarvestPackageTyped
<1>5. PassInv(next)
  BY <1>1, LocatePasses, ReadPasses, CheckPasses, PublishPasses, ListPasses,
     ClaimPasses, HarvestPasses
<1>6. PassInv(next)'
  BY <1>3, <1>4, <1>5, PassHeard
<1>7. next.at \notin {"wait", "reharvest"}
  BY <1>1 DEF Locate, ReadEnvironment, CheckEnvironment, PublishEnvironmentDiagnostics,
              ListPackages, ClaimPackages, HarvestPackage, NextRoot, Types, HarvesterOK,
              HarvesterRecord, At
<1>8. PassInv(harvester)'
  BY <1>1, <1>6
<1> QED
  BY <1>1, <1>3, <1>4, <1>5, <1>7, <1>8

LEMMA PassKeepsLibrary ==
    ASSUME Types, LibraryInv,
           \/ Locate \/ ReadEnvironment \/ CheckEnvironment \/ PublishEnvironmentDiagnostics
           \/ ListPackages \/ ClaimPackages \/ HarvestPackage
    PROVE  LibraryInv'
<1>1. QueueOK' /\ PassInv(harvester)' /\ harvester'.at \notin {"wait", "reharvest"}
  BY PassSteps DEF LibraryInv
<1> QED
  BY <1>1 DEF LibraryInv, Serves

-----------------------------------------------------------------------------
(* What the harvester sends.                                                *)

LEMMA SendPasses ==
    ASSUME Types, PassInv(harvester), SendLibrary
    PROVE  /\ PassInv(harvester')
           /\ harvester'.at = "wait" /\ harvester'.devs = harvester.devs
<1>1. PICK h : h = harvester
  OBVIOUS
<1>2. PICK next : next = harvester'
  OBVIOUS
<1>3. HarvesterOK(h) /\ PassInv(h) /\ h.at = "harvest"
  BY <1>1 DEF Types, SendLibrary, At
<1> DEFINE start == Start(Empty)
<1>4. /\ start \in HarvesterRecord
      /\ start.envs = <<>> /\ start.todo = <<>> /\ start.library = Empty
  BY StartTyped, PartialEmpty DEF Packages, HarvesterOK, Start
<1>5. next = [start EXCEPT !.at = "wait", !.roots = <<>>, !.devs = h.devs]
  BY <1>1, <1>2 DEF SendLibrary
<1> HIDE DEF start
<1>6. /\ next.at = "wait" /\ next.devs = h.devs
      /\ next.envs = start.envs /\ next.todo = start.todo /\ next.library = start.library
  BY <1>4, <1>5 DEF HarvesterRecord
<1>7. DOMAIN next.envs = {} /\ DOMAIN next.todo = {} /\ DOMAIN next.library = {}
  <2>1. \A none : none = <<>> => DOMAIN none = {}
    OBVIOUS
  <2>2. DOMAIN Empty = {}
    BY DEF Empty
  <2>3. next.envs = <<>> /\ next.todo = <<>> /\ next.library = Empty
    BY <1>4, <1>6
  <2> QED
    BY <2>1, <2>2, <2>3
<1>8. ListsOK(next)
  BY <1>3, <1>6, <1>7 DEF PassInv, ListsOK, ProjectsApart, OneEach
<1>9. ReadsPresent(next) /\ HarvestsListed(next)
  BY <1>6, <1>7 DEF ReadsPresent, HarvestsListed
<1>10. FreshPass(next)
  <2>1. Settled => h.devs = FreshDevs
    BY <1>3 DEF PassInv, FreshPass
  <2> QED
    BY <1>6, <2>1 DEF FreshPass
<1> QED
  BY <1>1, <1>2, <1>6, <1>8, <1>9, <1>10 DEF PassInv

LEMMA SendLeavesPass ==
    ASSUME Types, QueueOK, PassInv(harvester), SendLibrary
    PROVE  Hears /\ QueueOK' /\ PassInv(harvester)'
<1>1. PICK next : next = harvester'
  OBVIOUS
<1>2. UNCHANGED <<disk, budget, unreported, harvest_rx, unresolved>>
  BY DEF SendLibrary, clientVars
<1>3. Hears /\ QueueOK' /\ ClientOK
  BY <1>2, NothingHeard, SignalsKept DEF QueueOK, WritesReported, Types
<1>4. HarvesterOK(next) /\ PassInv(next)
  BY <1>1, SendPasses, SendLibraryTyped
<1>5. PassInv(next)'
  BY <1>3, <1>4, PassHeard
<1>6. PassInv(harvester)'
  BY <1>1, <1>5
<1> QED
  BY <1>3, <1>6

(* The library just harvested is what a server of its packages needs.       *)
LEMMA HarvestServes ==
    ASSUME NEW h, HarvesterOK(h), PassInv(h), h.at = "harvest",
           DOMAIN h.library = NamesOf(h.todo), ~EnvPending,
           NEW files \in Partial(Names, Projects),
           files = [n \in NamesOf(h.todo) |-> DevNamed(h.todo, n).project],
           NEW next, next.devs = h.devs
    PROVE  ServedBy(next, h.library, files)
<1>1. PICK todo : todo = h.todo
  OBVIOUS
<1>2. todo \in Seq(Dev) /\ h.devs \in Seq(Dev) /\ OneEach(todo)
  BY <1>1 DEF HarvesterOK, HarvesterRecord, PassInv, ListsOK
<1>3. \A i \in DOMAIN todo : files[todo[i].name] = todo[i].project
  <2> SUFFICES ASSUME NEW i \in DOMAIN todo PROVE files[todo[i].name] = todo[i].project
    OBVIOUS
  <2>1. todo[i].name \in NamesOf(todo)
    BY DEF NamesOf
  <2>2. DevNamed(todo, todo[i].name) = todo[i]
    BY <1>2, DevNamedIs
  <2> QED
    BY <1>1, <2>1, <2>2
<1>4. DOMAIN files = NamesOf(todo)
  BY <1>1
<1>5. \A n \in DOMAIN files : Present(files[n])
  <2> SUFFICES ASSUME NEW n \in NamesOf(todo) PROVE Present(files[n])
    BY <1>4
  <2>1. PICK i \in DOMAIN todo : todo[i].name = n
    BY DEF NamesOf
  <2>2. Present(todo[i].project)
    BY <1>1 DEF PassInv, ReadsPresent
  <2> QED
    BY <1>3, <2>1, <2>2
<1>6. Settled =>
       /\ DOMAIN files = NamesOf(FreshDevs) /\ DOMAIN h.library = NamesOf(FreshDevs)
       /\ \A i \in DOMAIN FreshDevs : files[FreshDevs[i].name] = FreshDevs[i].project
  <2> SUFFICES ASSUME Settled
               PROVE  /\ DOMAIN files = NamesOf(FreshDevs)
                      /\ DOMAIN h.library = NamesOf(FreshDevs)
                      /\ \A i \in DOMAIN FreshDevs :
                           files[FreshDevs[i].name] = FreshDevs[i].project
    OBVIOUS
  <2>1. todo = FreshDevs
    BY <1>1 DEF PassInv, FreshPass
  <2> QED
    BY <1>1, <1>3, <1>4, <2>1
<1>7. ASSUME NEW i \in DOMAIN h.devs, Unclaimed(files, h.devs[i])
      PROVE  HeldFor(h.library, h.devs[i]) \/ Changing(h.devs[i])
  <2>1. PICK dev : dev = h.devs[i]
    OBVIOUS
  <2>2. dev \in Dev
    BY <1>2, <2>1
  <2>3. CASE dev.name \in NamesOf(todo)
    <3>1. PICK j \in DOMAIN todo : todo[j].name = dev.name
      BY <2>3 DEF NamesOf
    <3>2. todo[j].project = dev.project
      BY <1>3, <1>4, <1>7, <2>1, <2>3, <3>1 DEF Unclaimed
    <3>3. todo[j] \in Dev
      BY <1>2
    <3>4. todo[j] = dev
      BY <2>2, <3>1, <3>2, <3>3 DEF Dev
    <3>5. dev.name \in DOMAIN h.library
      BY <1>1, <2>3
    <3>6. h.library[todo[j].name] = HarvestWorkspace(todo[j]) \/ Changing(todo[j])
      BY <1>1, <3>4, <3>5 DEF PassInv, HarvestsListed
    <3> QED
      BY <2>1, <3>4, <3>5, <3>6 DEF HeldFor
  <2>4. CASE SourcePending(EntryFile(dev))
    BY <2>1, <2>2, <2>4, DevFiles DEF Changing
  <2> QED
    BY <1>1, <2>1, <2>3, <2>4 DEF PassInv, HarvestsListed
<1> QED
  BY <1>5, <1>6, <1>7 DEF ServedBy

LEMMA SendKeepsLibrary ==
    ASSUME Types, LibraryInv, SendLibrary
    PROVE  LibraryInv'
<1>1. PICK h : h = harvester
  OBVIOUS
<1>2. PICK next : next = harvester'
  OBVIOUS
<1>3. PICK files : files = [n \in NamesOf(h.todo) |-> DevNamed(h.todo, n).project]
  OBVIOUS
<1>4. PICK msg : msg = [kind |-> "Full", packages |-> h.library, project_files |-> files]
  OBVIOUS
<1>5. PICK rx : rx = library_rx
  OBVIOUS
<1>7. Hears /\ QueueOK' /\ ClientOK
  BY SendLeavesPass DEF LibraryInv, Types
<1>8. /\ HarvesterOK(h) /\ PassInv(h) /\ h.at = "harvest"
      /\ DOMAIN h.library = NamesOf(h.todo) /\ rx \in Seq(LibraryMessage)
      /\ library_rx' = Append(rx, msg)
  BY <1>1, <1>3, <1>4, <1>5 DEF Types, LibraryInv, SendLibrary, At
<1>9. HarvesterOK(next) /\ PassInv(next) /\ next.at = "wait" /\ next.devs = h.devs
  BY <1>1, <1>2, SendPasses, SendLibraryTyped DEF LibraryInv
<1>10. PICK all : all = Append(rx, msg)
  OBVIOUS
<1>11. all \in Seq(LibraryMessage)
  BY <1>8, <1>10, SendLibraryTyped
<1>12. /\ DOMAIN all = DOMAIN rx \cup {Len(rx) + 1} /\ all[Len(rx) + 1] = msg
       /\ DOMAIN rx = 1..Len(rx) /\ Len(rx) \in Nat /\ DOMAIN all = 1..(Len(rx) + 1)
  BY <1>8, <1>10
<1>13. msg \in LibraryMessage
  BY <1>11, <1>12
<1>14. files \in Partial(Names, Projects) /\ msg.kind = "Full" /\ msg.project_files = files
       /\ msg.packages = h.library
  <2>1. msg.kind = "Full" /\ msg.project_files = files /\ msg.packages = h.library
    BY <1>4
  <2>2. msg \in Full
    BY <1>13, <2>1 DEF LibraryMessage, Package
  <2> QED
    BY <2>1, <2>2 DEF Full
<1>15. RegistersOnce(all, files)'
  <2>1. \A j \in DOMAIN all : ~(Len(rx) + 1 < j)
    BY <1>12
  <2>2. Len(rx) + 1 \in DOMAIN all
    BY <1>12
  <2> QED
    BY <1>12, <1>14, <2>1, <2>2 DEF RegistersOnce
<1>16. PICK held : held = h.library
  OBVIOUS
<1>17. HeldOnceServed' = held
  <2> DEFINE sent == <<msg>>
  <2>1. packages' = packages
    BY DEF SendLibrary, dbVars
  <2>2. PICK before : before = Installed!FoldLeft(Install, packages, rx)
    OBVIOUS
  <2>3. Installed!FoldLeft(Install, before, sent) = Install(before, msg)
    BY Installed!FoldOne
  <2>4. Install(before, msg) = held
    BY <1>14, <1>16 DEF Install
  <2>5. all = rx \o sent /\ sent \in Seq(LibraryMessage)
    BY <1>8, <1>10, <1>13
  <2> HIDE DEF sent
  <2>6. Installed!FoldLeft(Install, packages, rx \o sent) =
          Installed!FoldLeft(Install, Installed!FoldLeft(Install, packages, rx), sent)
    BY <1>8, <2>5, Installed!FoldBoth
  <2>7. HeldOnceServed' = Installed!FoldLeft(Install, packages, all)
    BY <1>8, <1>10, <2>1 DEF HeldOnceServed
  <2> QED
    BY <2>2, <2>3, <2>4, <2>5, <2>6, <2>7
<1>18. ASSUME ~EnvPending' PROVE ServedBy(next, held, files)'
  <2>1. ~EnvPending
    BY <1>7, <1>18 DEF Hears
  <2>2. ServedBy(next, held, files)
    BY <1>3, <1>8, <1>9, <1>14, <1>16, <2>1, HarvestServes
  <2> QED
    BY <1>7, <1>9, <1>18, <2>2, ServedByHeard
<1>19. PassInv(harvester)'
  BY SendLeavesPass DEF LibraryInv
<1>20. Serves(next, held, all)'
  BY <1>15, <1>18 DEF Serves
<1>21. Serves(harvester, HeldOnceServed, library_rx)'
  BY <1>2, <1>8, <1>10, <1>17, <1>20
<1> QED
  BY <1>7, <1>19, <1>21 DEF LibraryInv

(* A pass just begun.                                                       *)
StartPasses == \A last \in Packages : PassInv(Start(last))

LEMMA StartsFresh == StartPasses
<1> SUFFICES ASSUME NEW last \in Packages PROVE PassInv(Start(last))
  BY DEF StartPasses
<1>1. PICK h : h = Start(last)
  OBVIOUS
<1>2. PICK none : none = <<>>
  OBVIOUS
<1>3. /\ h.at = "locate" /\ h.envs = none /\ h.devs = none /\ h.todo = none
      /\ h.library = Empty /\ h.roots = WalkUps
  BY <1>1, <1>2 DEF Start
<1>4. DOMAIN none = {} /\ DOMAIN Empty = {}
  BY <1>2 DEF Empty
<1>5. ListsOK(h)
  BY <1>3, <1>4 DEF ListsOK, ProjectsApart, OneEach
<1>6. ReadsPresent(h) /\ HarvestsListed(h)
  BY <1>3, <1>4 DEF ReadsPresent, HarvestsListed
<1>7. FreshPass(h)
  <2>1. PICK g : IsWalk(g)
    BY WalkExists
  <2>2. Len(WalkUps) \in Nat /\ Len(WalkUps) > 0
    <3>1. WalkUps \in Seq(Seq(Projects)) /\ WalkUps # <<>>
      BY PlacesAssumption
    <3> DEFINE dirs == Seq(Projects)
    <3> HIDE DEF dirs
    <3>2. WalkUps \in Seq(dirs) => Len(WalkUps) \in Nat /\ Len(WalkUps) >= 1
      BY <3>1, TailOf
    <3>3. Len(WalkUps) \in Nat /\ Len(WalkUps) >= 1
      BY <3>1, <3>2 DEF dirs
    <3> QED
      BY <3>3
  <2>3. Len(h.roots) = Len(WalkUps) - 0 /\ \A i \in 1..Len(h.roots) : h.roots[i] = WalkUps[0 + i]
    BY <1>3, <2>2
  <2>4. WalksAt(h, g, 0)
    BY <1>2, <1>3, <2>1, <2>2, <2>3 DEF WalksAt, IsWalk
  <2> QED
    BY <1>3, <2>4 DEF FreshPass
<1> QED
  BY <1>1, <1>5, <1>6, <1>7 DEF PassInv

LEMMA ResolvePasses ==
    ASSUME Types, QueueOK, Resolve
    PROVE  /\ QueueOK' /\ PassInv(harvester)' /\ harvester'.at = "locate"
           /\ harvester' = Start(harvester.last)
<1>1. PICK sent : sent = harvester.last
  OBVIOUS
<1>2. sent \in Packages
  BY <1>1 DEF Types, HarvesterOK, HarvesterRecord
<1>3. StartPasses'
  BY StartsFresh, PTL
<1>4. harvester' = Start(sent) /\ harvest_rx' = <<>> /\ UNCHANGED <<budget, unreported>>
  BY <1>1 DEF Resolve, clientVars
<1>5. PassInv(harvester)'
  BY <1>2, <1>3, <1>4 DEF StartPasses
<1>6. harvester'.at = "locate"
  BY <1>4 DEF Start
<1>7. QueueOK'
  BY <1>4 DEF QueueOK, WritesReported
<1> QED
  BY <1>1, <1>4, <1>5, <1>6, <1>7

LEMMA ResolveKeepsLibrary ==
    ASSUME Types, LibraryInv, Resolve
    PROVE  LibraryInv'
<1>1. QueueOK' /\ PassInv(harvester)' /\ harvester'.at = "locate"
  BY ResolvePasses DEF LibraryInv
<1> QED
  BY <1>1 DEF LibraryInv, Serves

-----------------------------------------------------------------------------
(* What the harvester sends for one package.                                *)

(* A change to a file of a package is answered for that package.            *)
LEMMA OwnsItsFiles ==
    ASSUME FilesUnderSrc, harvester.devs \in Seq(Dev), ProjectsApart(harvester.devs),
           NEW i \in DOMAIN harvester.devs, NEW s \in FilesOf(harvester.devs[i])
    PROVE  OwnerOf(s) = harvester.devs[i]
<1>1. PICK devs : devs = harvester.devs
  OBVIOUS
<1>2. PICK dev : dev = devs[i]
  OBVIOUS
<1>3. dev \in Dev /\ dev \in ToSet(devs) /\ devs \in Seq(Dev)
  BY <1>1, <1>2 DEF ToSet
<1>4. s \in ReadBy[dev.project] \cup {EntryOf[dev.project][n] : n \in Names}
  BY <1>1, <1>2, <1>3 DEF FilesOf, EntryFile, Dev
<1>5. /\ dev.project \in UnderSrc[s]
      /\ \A q \in UnderSrc[s] : q = dev.project \/ Depth[q] < Depth[dev.project]
  BY <1>3, <1>4 DEF FilesUnderSrc, Dev
<1> DEFINE owners == {d \in ToSet(devs) : d.project \in UnderSrc[s]}
<1>6. dev \in owners
  BY <1>3, <1>5
<1>7. OwnerOf(s) = CHOOSE d \in owners : \A e \in owners : Depth[e.project] <= Depth[d.project]
  BY <1>1, <1>6 DEF OwnerOf
<1>8. \A d \in owners : d \in Dev /\ (d.project = dev.project => d = dev)
  <2> SUFFICES ASSUME NEW d \in owners PROVE d \in Dev /\ (d.project = dev.project => d = dev)
    OBVIOUS
  <2>1. PICK j \in DOMAIN devs : devs[j] = d
    BY DEF ToSet
  <2> QED
    BY <1>1, <1>2, <1>3, <2>1 DEF ProjectsApart
<1>9. \A d \in owners : d.project \in Projects /\ Depth[d.project] \in Nat
  BY <1>8, PlacesAssumption DEF Dev
<1>10. \A d \in owners : d.project \in UnderSrc[s]
  OBVIOUS
<1> HIDE DEF owners
<1>11. \A d \in owners : (\A e \in owners : Depth[e.project] <= Depth[d.project]) => d = dev
  <2> SUFFICES ASSUME NEW d \in owners, \A e \in owners : Depth[e.project] <= Depth[d.project]
               PROVE  d = dev
    OBVIOUS
  <2>1. Depth[dev.project] <= Depth[d.project]
    BY <1>6
  <2>2. d.project = dev.project \/ Depth[d.project] < Depth[dev.project]
    BY <1>5, <1>10
  <2>3. Depth[d.project] \in Nat /\ Depth[dev.project] \in Nat
    BY <1>6, <1>9
  <2> QED
    BY <1>8, <2>1, <2>2, <2>3
<1>12. \A e \in owners : Depth[e.project] <= Depth[dev.project]
  <2> SUFFICES ASSUME NEW e \in owners PROVE Depth[e.project] <= Depth[dev.project]
    OBVIOUS
  <2>1. e.project = dev.project \/ Depth[e.project] < Depth[dev.project]
    BY <1>5, <1>10
  <2>2. Depth[e.project] \in Nat /\ Depth[dev.project] \in Nat
    BY <1>6, <1>9
  <2> QED
    BY <2>1, <2>2
<1> QED
  BY <1>1, <1>2, <1>6, <1>7, <1>11, <1>12

(* Taking a source's signal hears nothing of the other files.               *)
LEMMA TakeLeaves ==
    ASSUME Types, QueueOK, TakeSource
    PROVE  /\ QueueOK'
           /\ EnvPending' <=> EnvPending
           /\ Settled' <=> Settled
           /\ \A s \in Sources : s # Head(harvest_rx) =>
                (SourcePending(s) => SourcePending(s)')
<1>1. PICK rx : rx = harvest_rx
  OBVIOUS
<1>2. PICK rest : rest = Tail(rx)
  OBVIOUS
<1> DEFINE S == Sources \cup {Environment}
<1>3. /\ rx \in Seq(S) /\ rx # <<>> /\ harvest_rx' = rest /\ Head(rx) # Environment
      /\ UNCHANGED <<disk, budget, unreported, unresolved>>
  BY <1>1, <1>2 DEF QueueOK, TakeSource, clientVars
<1> HIDE DEF S
<1>4. /\ rest \in Seq(S) /\ Len(rx) \in Nat /\ Len(rx) >= 1 /\ Len(rest) = Len(rx) - 1
      /\ \A i \in 1..Len(rest) : rest[i] = rx[i+1] /\ i + 1 \in 1..Len(rx)
      /\ Head(rx) = rx[1] /\ DOMAIN rx = 1..Len(rx) /\ DOMAIN rest = 1..Len(rest)
  <2>1. rest \in Seq(S) /\ DOMAIN rx = 1..Len(rx)
    BY <1>2, <1>3
  <2>2. DOMAIN rest = 1..Len(rest)
    BY <2>1
  <2> QED
    BY <1>2, <1>3, <2>1, <2>2, TailOf
<1>5. ASSUME NEW e, e # Head(rx)
      PROVE  (\E i \in DOMAIN rx : rx[i] = e) <=> (\E i \in DOMAIN rest : rest[i] = e)
  <2>1. ASSUME NEW i \in DOMAIN rx, rx[i] = e PROVE \E j \in DOMAIN rest : rest[j] = e
    <3>1. i # 1 /\ i \in 1..Len(rx)
      BY <1>4, <1>5, <2>1
    <3>2. i - 1 \in 1..Len(rest) /\ (i - 1) + 1 = i
      BY <1>4, <3>1
    <3>3. rest[i - 1] = e
      BY <1>4, <2>1, <3>2
    <3> QED
      BY <1>4, <3>2, <3>3
  <2>2. ASSUME NEW i \in DOMAIN rest, rest[i] = e PROVE \E j \in DOMAIN rx : rx[j] = e
    BY <1>4, <2>2
  <2> QED
    BY <2>1, <2>2
<1>6. EnvPending' <=> EnvPending
  BY <1>1, <1>3, <1>5 DEF EnvPending
<1>7. Settled' <=> Settled
  BY <1>3, <1>6 DEF Settled
<1>8. ASSUME NEW s \in Sources, s # Head(harvest_rx), SourcePending(s) PROVE SourcePending(s)'
  BY <1>1, <1>3, <1>5, <1>6, <1>8 DEF SourcePending
<1>9. QueueOK'
  BY <1>3, <1>4 DEF QueueOK, WritesReported, S
<1> QED
  BY <1>6, <1>7, <1>8, <1>9

LEMMA TakePasses ==
    ASSUME Types, QueueOK, PassInv(harvester), TakeSource
    PROVE  /\ QueueOK' /\ (Settled' <=> Settled) /\ PassInv(harvester)'
           /\ harvester'.at \in {"wait", "reharvest"}
           /\ SameEnvironments
<1>1. PICK h : h = harvester
  OBVIOUS
<1>2. PICK next : next = harvester'
  OBVIOUS
<1>3. PICK s : s = Head(harvest_rx)
  OBVIOUS
<1>4. PICK dev : dev = OwnerOf(s)
  OBVIOUS
<1>5. /\ HarvesterOK(h) /\ PassInv(h) /\ h.at = "wait" /\ h \in HarvesterRecord /\ ClientOK
      /\ next = IF dev = None THEN h ELSE [h EXCEPT !.at = "reharvest", !.dev = dev]
      /\ UNCHANGED <<disk, unreported, unresolved>>
  BY <1>1, <1>2, <1>3, <1>4 DEF Types, TakeSource, At, HarvesterOK, clientVars
<1>6. /\ QueueOK' /\ (EnvPending' <=> EnvPending) /\ (Settled' <=> Settled)
      /\ \A t \in Sources : t # s => (SourcePending(t) => SourcePending(t)')
  BY <1>3, TakeLeaves
<1>7. /\ next.devs = h.devs /\ next.envs = h.envs /\ next.todo = h.todo
      /\ next.library = h.library /\ next.at \in {"wait", "reharvest"}
      /\ next.at = "reharvest" => next.dev = dev
      /\ dev # None => next.at = "reharvest"
      /\ next.at = "reharvest" => dev # None
  BY <1>5 DEF HarvesterRecord
<1>8. SameEnvironments /\ FreshDevs' = FreshDevs
  <2>1. SameEnvironments
    BY <1>5 DEF SameEnvironments
  <2> QED
    BY <1>5, <2>1, WalksTheSame, FreshEnvsTyped DEF FreshDevs
<1>9. dev # None => dev \in ToSet(h.devs)
  <2>1. PICK owners : owners = {d \in ToSet(h.devs) : d.project \in UnderSrc[s]}
    OBVIOUS
  <2>2. CASE owners = {}
    BY <1>1, <1>4, <2>1, <2>2 DEF OwnerOf
  <2>3. CASE owners # {}
    <3>1. dev = CHOOSE d \in owners : \A e \in owners : Depth[e.project] <= Depth[d.project]
      BY <1>1, <1>4, <2>1, <2>3 DEF OwnerOf
    <3>2. PICK devs : devs = h.devs
      OBVIOUS
    <3>3. devs \in Seq(Dev) /\ owners \subseteq ToSet(devs)
      BY <1>5, <2>1, <3>2 DEF HarvesterRecord
    <3>4. \E d \in owners : \A e \in owners : Depth[e.project] <= Depth[d.project]
      BY <2>3, <3>3, DeepestExists
    <3> QED
      BY <2>1, <3>1, <3>4
  <2> QED
    BY <2>2, <2>3
<1>10. PassInv(next)'
  <2>1. ListsOK(next)'
    BY <1>5, <1>7, <1>9 DEF PassInv, ListsOK, ProjectsApart, OneEach
  <2>2. ReadsPresent(next)'
    BY <1>5, <1>6, <1>7 DEF PassInv, ReadsPresent, Present
  <2>3. HarvestsListed(next)'
    BY <1>7 DEF HarvestsListed
  <2>4. FreshPass(next)'
    <3>1. Settled => h.devs = FreshDevs
      BY <1>5 DEF PassInv, FreshPass
    <3> QED
      BY <1>6, <1>7, <1>8, <3>1 DEF FreshPass
  <2> QED
    BY <2>1, <2>2, <2>3, <2>4 DEF PassInv
<1>11. PassInv(harvester)'
  BY <1>2, <1>10
<1> QED
  BY <1>2, <1>6, <1>7, <1>8, <1>11

LEMMA TakeKeepsLibrary ==
    ASSUME FilesUnderSrc, Types, LibraryInv, TakeSource
    PROVE  LibraryInv'
<1>1. PICK h : h = harvester
  OBVIOUS
<1>2. PICK next : next = harvester'
  OBVIOUS
<1>3. PICK s : s = Head(harvest_rx)
  OBVIOUS
<1>4. PICK dev : dev = OwnerOf(s)
  OBVIOUS
<1>5. /\ HarvesterOK(h) /\ PassInv(h) /\ h.at = "wait" /\ h \in HarvesterRecord /\ ClientOK
      /\ next = IF dev = None THEN h ELSE [h EXCEPT !.at = "reharvest", !.dev = dev]
      /\ UNCHANGED <<disk, unreported, unresolved, library_rx, packages, workspaces,
                     project_files>>
  BY <1>1, <1>2, <1>3, <1>4 DEF Types, LibraryInv, TakeSource, At, HarvesterOK, clientVars, dbVars
<1>6. /\ QueueOK' /\ (EnvPending' <=> EnvPending) /\ (Settled' <=> Settled)
      /\ \A t \in Sources : t # s => (SourcePending(t) => SourcePending(t)')
  BY <1>3, TakeLeaves DEF LibraryInv
<1>7. /\ next.devs = h.devs /\ next.envs = h.envs /\ next.todo = h.todo
      /\ next.library = h.library /\ next.at \in {"wait", "reharvest"}
      /\ next.at = "reharvest" => next.dev = dev
      /\ dev # None => next.at = "reharvest"
      /\ next.at = "reharvest" => dev # None
  BY <1>5 DEF HarvesterRecord
<1>8. SameEnvironments /\ FreshDevs' = FreshDevs
  <2>1. SameEnvironments
    BY <1>5 DEF SameEnvironments
  <2> QED
    BY <1>5, <2>1, WalksTheSame, FreshEnvsTyped DEF FreshDevs
<1>9. PassInv(harvester)'
  BY TakePasses DEF LibraryInv
<1>11. PICK held, rx : held = HeldOnceServed /\ rx = library_rx
  OBVIOUS
<1>12. ASSUME ~EnvPending'
       PROVE  \E files : RegistersOnce(rx, files)' /\ ServedBy(next, held, files)'
  <2>1. PICK files : RegistersOnce(rx, files) /\ ServedBy(h, held, files)
    BY <1>1, <1>5, <1>6, <1>11, <1>12 DEF LibraryInv, Serves
  <2>2. RegistersOnce(rx, files)'
    BY <1>5, <2>1 DEF RegistersOnce
  <2>3. \A n \in DOMAIN files : Present(files[n])'
    BY <1>5, <2>1 DEF ServedBy, Present
  <2>4. Settled' =>
         /\ DOMAIN files = NamesOf(FreshDevs)' /\ DOMAIN held = NamesOf(FreshDevs)'
         /\ \A i \in DOMAIN FreshDevs' : files[FreshDevs'[i].name] = FreshDevs'[i].project
    BY <1>6, <1>8, <2>1 DEF ServedBy, NamesOf
  <2>5. ASSUME NEW i \in DOMAIN next.devs, Unclaimed(files, next.devs[i])
        PROVE  \/ HeldFor(held, next.devs[i])'
               \/ Changing(next.devs[i])'
               \/ next.at = "reharvest" /\ next.dev = next.devs[i]
    <3>1. PICK d : d = h.devs[i]
      OBVIOUS
    <3>2. i \in DOMAIN h.devs /\ d \in Dev /\ next.devs[i] = d /\ Unclaimed(files, d)
      BY <1>5, <1>7, <2>5, <3>1 DEF HarvesterRecord
    <3>3. HeldFor(held, d) \/ Changing(d)
      BY <1>5, <2>1, <3>1, <3>2 DEF ServedBy
    <3>4. CASE HeldFor(held, d)
      BY <1>5, <3>2, <3>4 DEF HeldFor, HarvestWorkspace
    <3>5. CASE Changing(d)
      <4>1. PICK t \in FilesOf(d) : SourcePending(t)
        BY <3>5 DEF Changing
      <4>2. t \in Sources
        BY <3>2, DevFiles
      <4>3. CASE t # s
        BY <1>6, <3>2, <4>1, <4>2, <4>3 DEF Changing, FilesOf, EntryFile
      <4>4. CASE t = s
        <5>1. harvester.devs \in Seq(Dev) /\ ProjectsApart(harvester.devs)
          BY <1>1, <1>5 DEF HarvesterRecord, PassInv, ListsOK
        <5>2. i \in DOMAIN harvester.devs /\ harvester.devs[i] = d
          BY <1>1, <3>1, <3>2
        <5>3. dev = d
          BY <1>4, <4>1, <4>4, <5>1, <5>2, OwnsItsFiles
        <5>4. dev # None
          BY <3>2, <5>3, FilesAssumption DEF Dev
        <5> QED
          BY <1>7, <3>2, <5>3, <5>4
      <4> QED
        BY <4>3, <4>4
    <3> QED
      BY <3>3, <3>4, <3>5
  <2>6. files \in Partial(Names, Projects)
    BY <2>1 DEF ServedBy
  <2>7. ServedBy(next, held, files)'
    BY <2>3, <2>4, <2>5, <2>6 DEF ServedBy, Unclaimed
  <2> QED
    BY <2>2, <2>7
<1>13. held = HeldOnceServed' /\ rx = library_rx'
  BY <1>5, <1>11 DEF HeldOnceServed
<1>14. Serves(next, held, rx)'
  BY <1>12 DEF Serves
<1>15. Serves(harvester, HeldOnceServed, library_rx)'
  BY <1>2, <1>13, <1>14
<1> QED
  BY <1>6, <1>9, <1>15 DEF LibraryInv

(* One package's index is held once it is sent, or was already.             *)
LEMMA ReharvestHolds ==
    ASSUME Types, Remembers(HeldOnceServed), Reharvest, NEW dev, dev = harvester.dev
    PROVE  /\ DOMAIN HeldOnceServed' = DOMAIN HeldOnceServed \cup {dev.name}
           /\ HeldOnceServed'[dev.name] = HarvestWorkspace(dev)
           /\ \A n \in DOMAIN HeldOnceServed :
                n # dev.name => HeldOnceServed'[n] = HeldOnceServed[n]
<1>1. PICK h : h = harvester
  OBVIOUS
<1>2. PICK held : held = HeldOnceServed
  OBVIOUS
<1>3. PICK rx : rx = library_rx
  OBVIOUS
<1>4. PICK index : index = HarvestWorkspace(dev)
  OBVIOUS
<1>5. PICK msg : msg = [kind |-> "Package", name |-> dev.name, index |-> index]
  OBVIOUS
<1> DEFINE same == dev.name \in DOMAIN h.last /\ h.last[dev.name] = index
<1>6. /\ library_rx' = IF same THEN rx ELSE Append(rx, msg)
      /\ packages' = packages /\ h.at = "reharvest" /\ HarvesterOK(h)
      /\ rx \in Seq(LibraryMessage) /\ dev \in Dev
  BY <1>1, <1>3, <1>4, <1>5 DEF Reharvest, At, dbVars, Types, HarvesterOK
<1> HIDE DEF same
<1>7. CASE same
  <2>1. HeldOnceServed' = held
    BY <1>2, <1>3, <1>6, <1>7 DEF HeldOnceServed
  <2>2. dev.name \in DOMAIN held /\ held[dev.name] = index
    BY <1>1, <1>2, <1>6, <1>7 DEF Remembers, same, At
  <2> QED
    BY <1>2, <1>4, <2>1, <2>2
<1>8. CASE ~same
  <2> DEFINE sent == <<msg>>
  <2>1. msg \in LibraryMessage
    <3>1. index \in Index /\ dev.name \in Names
      BY <1>4, <1>6, HarvestTyped DEF Types, Dev
    <3> QED
      BY <1>5, <3>1 DEF LibraryMessage, Package
  <2>2. Installed!FoldLeft(Install, held, sent) = Install(held, msg)
    BY Installed!FoldOne
  <2>3. Install(held, msg) = Put(held, dev.name, index)
    BY <1>5 DEF Install
  <2>4. library_rx' = rx \o sent /\ sent \in Seq(LibraryMessage)
    BY <1>6, <1>8, <2>1
  <2> HIDE DEF sent
  <2>5. Installed!FoldLeft(Install, packages, rx \o sent) =
          Installed!FoldLeft(Install, Installed!FoldLeft(Install, packages, rx), sent)
    BY <1>6, <2>4, Installed!FoldBoth
  <2>6. HeldOnceServed' = Put(held, dev.name, index)
    BY <1>2, <1>3, <1>6, <2>2, <2>3, <2>4, <2>5 DEF HeldOnceServed
  <2>7. /\ DOMAIN Put(held, dev.name, index) = DOMAIN held \cup {dev.name}
        /\ Put(held, dev.name, index)[dev.name] = index
        /\ \A n \in DOMAIN held : n # dev.name => Put(held, dev.name, index)[n] = held[n]
    BY DEF Put
  <2> QED
    BY <1>2, <1>4, <2>6, <2>7
<1> QED
  BY <1>7, <1>8

LEMMA ReharvestPasses ==
    ASSUME Types, QueueOK, PassInv(harvester), Reharvest
    PROVE  /\ Hears /\ QueueOK' /\ PassInv(harvester)'
           /\ harvester'.at = "wait" /\ harvester.at = "reharvest"
<1>1. PICK h : h = harvester
  OBVIOUS
<1>2. PICK next : next = harvester'
  OBVIOUS
<1>3. PICK last : last = Put(h.last, h.dev.name, HarvestWorkspace(h.dev))
  OBVIOUS
<1>4. /\ HarvesterOK(h) /\ PassInv(h) /\ h.at = "reharvest" /\ h \in HarvesterRecord /\ ClientOK
      /\ next = [h EXCEPT !.at = "wait", !.dev = None, !.last = last]
      /\ UNCHANGED <<disk, unreported, unresolved, harvest_rx, budget>>
  BY <1>1, <1>2, <1>3 DEF Types, Reharvest, At, HarvesterOK, clientVars
<1>5. Hears /\ QueueOK'
  BY <1>4, NothingHeard, SignalsKept DEF QueueOK, WritesReported
<1>6. /\ next.at = "wait" /\ next.devs = h.devs /\ next.envs = h.envs
      /\ next.todo = h.todo /\ next.library = h.library
  BY <1>4 DEF HarvesterRecord
<1>7. HarvesterOK(next)
  BY <1>2, ReharvestTyped
<1>8. ListsOK(next) /\ ReadsPresent(next)
  BY <1>4, <1>6 DEF PassInv, ListsOK, ReadsPresent
<1>9. HarvestsListed(next) /\ FreshPass(next)
  BY <1>4, <1>6 DEF PassInv, HarvestsListed, FreshPass
<1>10. PassInv(next)'
  BY <1>4, <1>5, <1>7, <1>8, <1>9, PassHeard DEF PassInv
<1>11. PassInv(harvester)'
  BY <1>2, <1>10
<1> QED
  BY <1>1, <1>2, <1>4, <1>5, <1>6, <1>11

LEMMA ReharvestKeepsLibrary ==
    ASSUME Types, LibraryInv, Remembers(HeldOnceServed), Reharvest
    PROVE  LibraryInv'
<1>1. PICK h : h = harvester
  OBVIOUS
<1>2. PICK next : next = harvester'
  OBVIOUS
<1>3. PICK dev : dev = h.dev
  OBVIOUS
<1>4. PICK rx, all : rx = library_rx /\ all = library_rx'
  OBVIOUS
<1>5. PICK held, more : held = HeldOnceServed /\ more = HeldOnceServed'
  OBVIOUS
<1>6. PICK index : index = HarvestWorkspace(dev)
  OBVIOUS
<1>7. PICK msg : msg = [kind |-> "Package", name |-> dev.name, index |-> index]
  OBVIOUS
<1>8. PICK last : last = Put(h.last, dev.name, index)
  OBVIOUS
<1>9. /\ HarvesterOK(h) /\ PassInv(h) /\ h.at = "reharvest" /\ h \in HarvesterRecord /\ ClientOK
      /\ next = [h EXCEPT !.at = "wait", !.dev = None, !.last = last]
      /\ all \in {rx, Append(rx, msg)} /\ rx \in Seq(LibraryMessage)
      /\ UNCHANGED <<disk, unreported, unresolved, harvest_rx, budget, packages, workspaces,
                     project_files>>
  BY <1>1, <1>2, <1>3, <1>4, <1>6, <1>7, <1>8
     DEF Types, LibraryInv, Reharvest, At, HarvesterOK, clientVars, dbVars
<1>10. Hears /\ QueueOK'
  BY ReharvestPasses DEF LibraryInv
<1>11. /\ next.at = "wait" /\ next.devs = h.devs /\ next.envs = h.envs
       /\ next.todo = h.todo /\ next.library = h.library
  BY <1>9 DEF HarvesterRecord
<1>12. HarvesterOK(next)
  BY <1>2, ReharvestTyped
<1>13. PassInv(harvester)'
  BY ReharvestPasses DEF LibraryInv
<1>15. /\ DOMAIN more = DOMAIN held \cup {dev.name} /\ more[dev.name] = HarvestWorkspace(dev)
       /\ \A n \in DOMAIN held : n # dev.name => more[n] = held[n]
  BY <1>1, <1>3, <1>5, ReharvestHolds
<1>16. ASSUME ~EnvPending'
       PROVE  \E files : RegistersOnce(all, files)' /\ ServedBy(next, more, files)'
  <2>1. ~EnvPending
    BY <1>10, <1>16 DEF Hears
  <2>2. PICK files : RegistersOnce(rx, files) /\ ServedBy(h, held, files)
    BY <1>1, <1>4, <1>5, <1>9, <2>1 DEF LibraryInv, Serves
  <2>3. RegistersOnce(all, files)'
    <3>1. CASE all = rx
      BY <1>9, <2>2, <3>1 DEF RegistersOnce
    <3>2. CASE all = Append(rx, msg)
      <4>1. msg.kind # "Full"
        BY <1>7
      <4>2. /\ DOMAIN all = DOMAIN rx \cup {Len(rx) + 1} /\ all[Len(rx) + 1] = msg
            /\ \A i \in DOMAIN rx : all[i] = rx[i]
        BY <1>9, <3>2
      <4> QED
        BY <1>9, <2>2, <4>1, <4>2 DEF RegistersOnce
    <3> QED
      BY <1>9, <3>1, <3>2
  <2>4. Settled =>
         /\ DOMAIN files = NamesOf(FreshDevs) /\ DOMAIN more = NamesOf(FreshDevs)
         /\ \A i \in DOMAIN FreshDevs : files[FreshDevs[i].name] = FreshDevs[i].project
    <3>1. ASSUME Settled PROVE dev.name \in NamesOf(FreshDevs)
      <4>1. dev \in ToSet(h.devs)
        BY <1>3, <1>9 DEF PassInv, ListsOK
      <4>2. h.devs = FreshDevs
        BY <1>9, <3>1 DEF PassInv, FreshPass
      <4> QED
        BY <4>1, <4>2 DEF ToSet, NamesOf
    <3> QED
      BY <1>15, <2>2, <3>1 DEF ServedBy
  <2>5. ASSUME NEW i \in DOMAIN h.devs, Unclaimed(files, h.devs[i])
        PROVE  HeldFor(more, h.devs[i]) \/ Changing(h.devs[i])
    <3>1. CASE h.devs[i] = dev
      BY <1>15, <3>1 DEF HeldFor
    <3>2. CASE h.devs[i] # dev
      <4>1. PICK j \in DOMAIN h.devs : h.devs[j] = dev
        BY <1>3, <1>9 DEF PassInv, ListsOK, ToSet
      <4>2. h.devs[i].name # dev.name
        BY <1>9, <3>2, <4>1 DEF PassInv, ListsOK, OneEach
      <4>3. HeldFor(held, h.devs[i]) \/ Changing(h.devs[i])
        BY <1>3, <2>2, <2>5, <3>2 DEF ServedBy
      <4> QED
        BY <1>15, <4>2, <4>3 DEF HeldFor
    <3> QED
      BY <3>1, <3>2
  <2>6. ServedBy(next, more, files)
    BY <1>11, <2>2, <2>4, <2>5 DEF ServedBy
  <2>7. ServedBy(next, more, files)'
    BY <1>9, <1>10, <1>12, <1>16, <2>6, ServedByHeard
  <2> QED
    BY <2>3, <2>7
<1>17. Serves(next, more, all)'
  BY <1>16 DEF Serves
<1>18. Serves(harvester, HeldOnceServed, library_rx)'
  BY <1>2, <1>4, <1>5, <1>17
<1> QED
  BY <1>10, <1>13, <1>18 DEF LibraryInv

(* The pass keeps its facts whatever happens, wherever the sources lie.     *)
LEMMA PassesStep ==
    Types /\ QueueOK /\ PassInv(harvester) /\ [Next]_vars
      => QueueOK' /\ PassInv(harvester)'
<1> SUFFICES ASSUME Types, QueueOK, PassInv(harvester), [Next]_vars
             PROVE  QueueOK' /\ PassInv(harvester)'
  OBVIOUS
<1>1. CASE Client \/ Watcher \/ TakeFindings \/ Relint \/ AnalysisThread \/ UNCHANGED vars
  <2>1. Hears /\ QueueOK'
    BY <1>1, OthersHear
  <2>2. PICK h : h = harvester
    OBVIOUS
  <2>3. harvester' = h
    BY <1>1, <2>2, ClientLeaves DEF Relint, AnalysisThread, OnSyncMessage, OnLibraryMessage, vars
  <2>4. PassInv(h)'
    BY <2>1, <2>2, PassHeard DEF Types
  <2> QED
    BY <2>1, <2>3, <2>4
<1>2. CASE \/ Locate \/ ReadEnvironment \/ CheckEnvironment \/ PublishEnvironmentDiagnostics
           \/ ListPackages \/ ClaimPackages \/ HarvestPackage
  BY <1>2, PassSteps
<1>3. CASE SendLibrary
  BY <1>3, SendLeavesPass
<1>4. CASE Resolve
  BY <1>4, ResolvePasses
<1>5. CASE TakeSource
  BY <1>5, TakePasses
<1>6. CASE Reharvest
  BY <1>6, ReharvestPasses
<1> QED
  BY <1>1, <1>2, <1>3, <1>4, <1>5, <1>6 DEF Next, Harvester

LEMMA InitLibrary ==
    ASSUME Init, WritesReported
    PROVE  LibraryInv
<1>1. harvester = Start(Empty) /\ Empty \in Packages
  BY PartialEmpty DEF Init, Packages
<1>2. PassInv(harvester)
  BY <1>1, StartsFresh DEF StartPasses
<1>3. harvester.at = "locate"
  BY <1>1 DEF Start
<1>4. QueueOK
  BY FS_EmptySet DEF Init, QueueOK
<1> QED
  BY <1>2, <1>3, <1>4 DEF LibraryInv, Serves

LEMMA LibraryStep ==
    ASSUME FilesUnderSrc
    PROVE  Types /\ Remembers(HeldOnceServed) /\ LibraryInv /\ [Next]_vars => LibraryInv'
<1> SUFFICES ASSUME Types, Remembers(HeldOnceServed), LibraryInv, [Next]_vars
             PROVE  LibraryInv'
  OBVIOUS
<1>1. CASE Client \/ Watcher \/ TakeFindings \/ Relint \/ OnSyncMessage \/ UNCHANGED vars
  BY <1>1, OthersKeepLibrary
<1>2. CASE OnLibraryMessage
  BY <1>2, InstallKeepsLibrary
<1>3. CASE \/ Locate \/ ReadEnvironment \/ CheckEnvironment \/ PublishEnvironmentDiagnostics
           \/ ListPackages \/ ClaimPackages \/ HarvestPackage
  BY <1>3, PassKeepsLibrary
<1>4. CASE SendLibrary
  BY <1>4, SendKeepsLibrary
<1>5. CASE Resolve
  BY <1>5, ResolveKeepsLibrary
<1>6. CASE TakeSource
  BY <1>6, TakeKeepsLibrary
<1>7. CASE Reharvest
  BY <1>7, ReharvestKeepsLibrary
<1> QED
  BY <1>1, <1>2, <1>3, <1>4, <1>5, <1>6, <1>7 DEF Next, AnalysisThread, Harvester

(* At rest nothing is pending and nothing is on its way.                    *)
LEMMA LibraryAtRest ==
    ASSUME LibraryInv
    PROVE  LibraryCurrentWhenQuiet
<1> SUFFICES ASSUME Quiet PROVE LibraryCurrentWhenQuiet
  BY DEF LibraryCurrentWhenQuiet
<1>1. /\ unreported = {} /\ harvest_rx = <<>> /\ library_rx = <<>> /\ harvester.at = "wait"
  BY DEF Quiet, At
<1>2. DOMAIN harvest_rx = {} /\ DOMAIN library_rx = {}
  <2>1. \A none : none = <<>> => DOMAIN none = {}
    OBVIOUS
  <2> QED
    BY <1>1, <2>1
<1>3. ~EnvPending /\ \A s : ~SourcePending(s)
  BY <1>1, <1>2 DEF EnvPending, SourcePending
<1>4. HeldOnceServed = packages
  BY <1>1, Installed!FoldNothing DEF HeldOnceServed
<1>5. PICK files : RegistersOnce(library_rx, files) /\ ServedBy(harvester, packages, files)
  BY <1>1, <1>3, <1>4 DEF LibraryInv, Serves
<1>6. workspaces = DOMAIN files /\ project_files = files
  BY <1>2, <1>5 DEF RegistersOnce
<1>7. \A i \in DOMAIN harvester.devs :
        Unclaimed(files, harvester.devs[i]) => HeldFor(packages, harvester.devs[i])
  BY <1>1, <1>3, <1>5 DEF ServedBy, Changing
<1>8. ASSUME unresolved = {}
      PROVE  /\ workspaces = NamesOf(FreshDevs)
             /\ DOMAIN packages = workspaces
             /\ \A i \in DOMAIN FreshDevs :
                  /\ packages[FreshDevs[i].name] = HarvestWorkspace(FreshDevs[i])
                  /\ project_files[FreshDevs[i].name] = FreshDevs[i].project
  <2>1. Settled
    BY <1>3, <1>8 DEF Settled
  <2>2. harvester.devs = FreshDevs
    BY <1>1, <2>1 DEF LibraryInv, PassInv, FreshPass
  <2>3. /\ DOMAIN files = NamesOf(FreshDevs) /\ DOMAIN packages = NamesOf(FreshDevs)
        /\ \A i \in DOMAIN FreshDevs : files[FreshDevs[i].name] = FreshDevs[i].project
    BY <1>5, <2>1 DEF ServedBy
  <2>4. \A i \in DOMAIN FreshDevs : HeldFor(packages, FreshDevs[i])
    BY <1>7, <2>2, <2>3 DEF Unclaimed
  <2> QED
    BY <1>6, <2>3, <2>4 DEF HeldFor
<1>9. ASSUME NEW dev \in ToSet(harvester.devs), ~NameTaken(dev)
      PROVE  dev.name \in DOMAIN packages /\ packages[dev.name] = HarvestWorkspace(dev)
  <2>1. PICK i \in DOMAIN harvester.devs : harvester.devs[i] = dev
    BY DEF ToSet
  <2>2. Unclaimed(files, dev)
    BY <1>6, <1>9 DEF NameTaken, Unclaimed
  <2> QED
    BY <1>7, <2>1, <2>2 DEF HeldFor
<1> QED
  BY <1>8, <1>9 DEF LibraryCurrentWhenQuiet

(* Once every signal is served the library is what a harvest of the files   *)
(* as they are would make, for any number of folders, packages and steps of *)
(* the client: signals are neither lost nor overtaken (run_harvester).      *)
THEOREM LibraryIsCurrent ==
    ASSUME WritesAreReported, FilesUnderSrc
    PROVE  Spec => []LibraryCurrentWhenQuiet
<1> DEFINE Kept == Remembers(HeldOnceServed)
<1>1. Init => Kept
  BY DEF Init, Start, Remembers, At
<1>2. Types /\ Kept /\ [Next]_vars => Kept'
  BY RemembersStep
<1>3. Init => LibraryInv
  <2>1. Init => WritesReported
    BY DEF Init, WritesAreReported, WritesReported
  <2> QED
    BY <2>1, InitLibrary
<1>4. Types /\ Kept /\ LibraryInv /\ [Next]_vars => LibraryInv'
  BY LibraryStep
<1>5. LibraryInv => LibraryCurrentWhenQuiet
  BY LibraryAtRest
<1> HIDE DEF Kept
<1> QED
  BY <1>1, <1>2, <1>3, <1>4, <1>5, TypesInvariant, PTL DEF Spec

-----------------------------------------------------------------------------
(* What a pass finds wrong.                                                 *)

Given(findings, f) == IF f \in DOMAIN findings THEN findings[f] ELSE {}

(* What the first k folders give, envs being the environments they have.    *)
FaultyIn(k, f) ==
    \E i \in 1..k : /\ Located(WalkUps[i]) # None
                    /\ Resolved(Located(WalkUps[i])).fault = f
Checked(envs, f) == {env \in ToSet(envs) : ProjectOf(env.project) = f}
FindingsAt(envs, k, f) ==
    IF FaultyIn(k, f)
    THEN SyntaxFindings(Broken)
    ELSE UNION {SemanticFindings(env, disk[f]) : env \in Checked(envs, f)}

FindsAt(h, k) == \A f \in EnvFiles : Given(h.findings, f) = FindingsAt(h.envs, k, f)
FindsFresh(h) == \A f \in EnvFiles : Given(h.findings, f) = FreshFindings(f)
FindingsPass(h) ==
    /\ \A f \in DOMAIN h.findings : h.findings[f] # {}
    /\ Settled =>
         /\ h.at \in {"locate", "read", "check"} => FindsAt(h, Len(WalkUps) - Len(h.roots))
         /\ h.at = "publish" => FindsFresh(h)

LEMMA FreshFindingsAre ==
    \A f : FreshFindings(f) = FindingsAt(FreshEnvs, Len(WalkUps), f)
<1> SUFFICES ASSUME NEW f
             PROVE  FreshFindings(f) = FindingsAt(FreshEnvs, Len(WalkUps), f)
  OBVIOUS
<1>1. WalkUps \in Seq(Seq(Projects))
  BY PlacesAssumption
<1> DEFINE dirs == Seq(Projects)
<1> HIDE DEF dirs
<1>2. WalkUps \in Seq(dirs) => DOMAIN WalkUps = 1..Len(WalkUps)
  OBVIOUS
<1>3. DOMAIN WalkUps = 1..Len(WalkUps)
  BY <1>1, <1>2 DEF dirs
<1> DEFINE faulty == {i \in DOMAIN WalkUps : /\ Located(WalkUps[i]) # None
                                             /\ Resolved(Located(WalkUps[i])).fault = f}
<1>4. faulty # {} <=> FaultyIn(Len(WalkUps), f)
  BY <1>3 DEF FaultyIn
<1>5. FreshFindings(f) =
        IF faulty # {} THEN SyntaxFindings(Broken)
        ELSE UNION {SemanticFindings(env, disk[f]) : env \in Checked(FreshEnvs, f)}
  BY DEF FreshFindings, Checked
<1> HIDE DEF faulty
<1> QED
  BY <1>4, <1>5 DEF FindingsAt

(* They are read off the environment files, and off which sources exist.    *)
LEMMA FindsTheSame ==
    ASSUME SameEnvironments
    PROVE  \A envs \in Seq(Env), f \in EnvFiles, k \in 0..Len(WalkUps) :
             FindingsAt(envs, k, f)' = FindingsAt(envs, k, f)
<1> SUFFICES ASSUME NEW envs \in Seq(Env), NEW f \in EnvFiles, NEW k \in 0..Len(WalkUps)
             PROVE  FindingsAt(envs, k, f)' = FindingsAt(envs, k, f)
  OBVIOUS
<1>1. \A i \in 1..k : WalkUps[i] \in Seq(Projects)
  <2>1. WalkUps \in Seq(Seq(Projects))
    BY PlacesAssumption
  <2> DEFINE dirs == Seq(Projects)
  <2> HIDE DEF dirs
  <2>2. WalkUps \in Seq(dirs) => \A i \in 1..k : WalkUps[i] \in dirs
    OBVIOUS
  <2> QED
    BY <2>1, <2>2 DEF dirs
<1>2. \A i \in 1..k : Located(WalkUps[i]) \in Projects \cup {None}
  BY <1>1, LocatedTyped
<1>3. FaultyIn(k, f)' <=> FaultyIn(k, f)
  BY <1>1, <1>2, ReadsTheSame DEF FaultyIn
<1>4. Checked(envs, f)' = Checked(envs, f)
  BY DEF Checked
<1>5. \A env \in Checked(envs, f) : env \in Env
  BY DEF Checked, ToSet
<1>6. ASSUME NEW env \in Env
      PROVE  SemanticFindings(env, disk[f])' = SemanticFindings(env, disk[f])
  <2>1. disk'[f] = disk[f]
    BY DEF SameEnvironments
  <2>2. env.name # None =>
          (disk'[EntryOf[env.project][env.name]] = Absent <=>
           disk[EntryOf[env.project][env.name]] = Absent)
    <3>1. env.project \in Projects /\ env.name \in Names \cup {None}
      BY DEF Env
    <3>2. env.name # None => EntryOf[env.project][env.name] \in Sources
      BY <3>1, EntryTyped
    <3> QED
      BY <3>2 DEF SameEnvironments
  <2> QED
    BY <2>1, <2>2 DEF SemanticFindings
<1>7. {SemanticFindings(env, disk[f])' : env \in Checked(envs, f)} =
      {SemanticFindings(env, disk[f]) : env \in Checked(envs, f)}
  BY <1>5, <1>6
<1>8. FindingsAt(envs, k, f)' =
        IF FaultyIn(k, f)' THEN SyntaxFindings(Broken)
        ELSE UNION {SemanticFindings(env, disk[f])' : env \in Checked(envs, f)'}
  BY DEF FindingsAt, SyntaxFindings, Parses
<1> QED
  BY <1>3, <1>4, <1>7, <1>8 DEF FindingsAt

LEMMA FreshFindingsHeard ==
    ASSUME ClientOK, SameEnvironments
    PROVE  \A f \in EnvFiles : FreshFindings(f)' = FreshFindings(f)
<1>1. (\A f : FreshFindings(f) = FindingsAt(FreshEnvs, Len(WalkUps), f))'
  BY FreshFindingsAre, PTL
<1>2. FreshEnvs' = FreshEnvs
  BY WalksTheSame
<1>3. PICK envs : envs = FreshEnvs
  OBVIOUS
<1>4. envs \in Seq(Env)
  BY <1>3, FreshEnvsTyped
<1>5. Len(WalkUps) \in 0..Len(WalkUps)
  <2>1. Len(WalkUps) \in Nat
    BY PlacesAssumption
  <2> QED
    BY <2>1
<1> SUFFICES ASSUME NEW f \in EnvFiles PROVE FreshFindings(f)' = FreshFindings(f)
  OBVIOUS
<1>6. FindingsAt(envs, Len(WalkUps), f)' = FindingsAt(envs, Len(WalkUps), f)
  BY <1>4, <1>5, FindsTheSame
<1>7. FreshFindings(f)' = FindingsAt(FreshEnvs, Len(WalkUps), f)'
  BY <1>1
<1>8. FindingsAt(FreshEnvs, Len(WalkUps), f)' = FindingsAt(envs, Len(WalkUps), f)'
  BY <1>2, <1>3 DEF FindingsAt, Checked
<1> QED
  BY <1>3, <1>6, <1>7, <1>8, FreshFindingsAre

-----------------------------------------------------------------------------
(* What a pass has found, folder by folder.                                 *)

LEMMA FaultyNext ==
    ASSUME NEW k \in Nat, NEW f
    PROVE  /\ ~FaultyIn(0, f)
           /\ FaultyIn(k + 1, f) <=>
                \/ FaultyIn(k, f)
                \/ /\ Located(WalkUps[k + 1]) # None
                   /\ Resolved(Located(WalkUps[k + 1])).fault = f
<1>1. \A i : i \in 1..(k + 1) <=> i \in 1..k \/ i = k + 1
  OBVIOUS
<1>2. ~ \E i : i \in 1..0
  OBVIOUS
<1> QED
  BY <1>1, <1>2 DEF FaultyIn

(* The file at fault has no findings of another kind.                       *)
LEMMA FaultExcludes ==
    ASSUME ClientOK, NEW p \in Projects, NEW q \in Projects
    PROVE  /\ Resolved(p).fault = ProjectOf(q) => p = q /\ ~Parses(disk[ProjectOf(q)])
           /\ Resolved(p).fault # None =>
                Resolved(p).fault = ProjectOf(p) \/ Resolved(p).fault = ManifestOf(p)
           /\ Resolved(p).fault = None => Parses(disk[ProjectOf(p)])
           /\ ProjectOf(p) # ManifestOf(q)
           /\ ProjectOf(p) = ProjectOf(q) => p = q
<1>1. /\ \A r \in Projects : ProjectOf(p) # ManifestOf(r) /\ ManifestOf(p) # ProjectOf(r)
      /\ \A r \in Projects : ProjectOf(p) = ProjectOf(r) => p = r
  BY DEF ProjectOf, ManifestOf
<1>2. /\ ProjectOf(p) \in EnvFiles /\ ManifestOf(p) \in EnvFiles
      /\ ProjectOf(q) \in EnvFiles
  BY ProjectFile
<1>3. ProjectOf(p) # None /\ ManifestOf(p) # None /\ ProjectOf(q) # None
  BY <1>2, FilesAssumption
<1>4. CASE ~Parses(disk[ProjectOf(p)])
  BY <1>1, <1>3, <1>4 DEF Resolved
<1>5. CASE Parses(disk[ProjectOf(p)]) /\ disk[ManifestOf(p)] = Broken
  BY <1>1, <1>3, <1>5 DEF Resolved
<1>6. CASE Parses(disk[ProjectOf(p)]) /\ disk[ManifestOf(p)] # Broken
  BY <1>1, <1>3, <1>6 DEF Resolved
<1> QED
  BY <1>1, <1>4, <1>5, <1>6

LEMMA NextRootFinds ==
    ASSUME NEW h \in HarvesterRecord, h.roots # <<>>,
           \A f \in DOMAIN h.findings : h.findings[f] # {},
           Settled => \E k \in Nat : Len(h.roots) = Len(WalkUps) - k /\ FindsAt(h, k + 1),
           PassInv(NextRoot(h))
    PROVE  FindingsPass(NextRoot(h))
<1> DEFINE dirs == Seq(Projects)
<1>1. h.roots \in Seq(dirs)
  BY DEF HarvesterRecord
<1>2. PICK roots : roots = h.roots
  OBVIOUS
<1>3. PICK rest : rest = Tail(roots)
  OBVIOUS
<1>4. PICK n : n = NextRoot(h)
  OBVIOUS
<1>5. /\ n.at = IF Len(roots) > 1 THEN "locate" ELSE "publish"
      /\ n.roots = rest /\ n.envs = h.envs /\ n.findings = h.findings
  BY <1>2, <1>3, <1>4 DEF NextRoot, HarvesterRecord
<1>6. roots \in Seq(dirs) /\ roots # <<>>
  BY <1>1, <1>2
<1> HIDE DEF dirs
<1>7. Len(roots) \in Nat /\ Len(roots) >= 1 /\ Len(rest) = Len(roots) - 1
  BY <1>3, <1>6, TailOf
<1>8. Len(WalkUps) \in Nat
  BY PlacesAssumption
<1>9. \A f \in DOMAIN n.findings : n.findings[f] # {}
  BY <1>5
<1>10. ASSUME Settled
       PROVE  /\ n.at \in {"locate", "read", "check"} => FindsAt(n, Len(WalkUps) - Len(n.roots))
              /\ n.at = "publish" => FindsFresh(n)
  <2>1. PICK k \in Nat : Len(h.roots) = Len(WalkUps) - k /\ FindsAt(h, k + 1)
    BY <1>10
  <2>2. FindsAt(n, k + 1)
    BY <1>5, <2>1 DEF FindsAt
  <2>3. CASE Len(roots) > 1
    <3>1. Len(WalkUps) - Len(n.roots) = k + 1
      BY <1>2, <1>5, <1>7, <1>8, <2>1
    <3>2. n.at = "locate"
      BY <1>5, <2>3
    <3> QED
      BY <2>2, <3>1, <3>2
  <2>4. CASE ~(Len(roots) > 1)
    <3>1. n.at = "publish"
      BY <1>5, <2>4
    <3>2. k + 1 = Len(WalkUps)
      BY <1>2, <1>7, <1>8, <2>1, <2>4
    <3>3. n.envs = FreshEnvs
      BY <1>4, <1>10, <3>1 DEF PassInv, FreshPass
    <3>4. FindsFresh(n)
      BY <2>2, <3>2, <3>3, FreshFindingsAre DEF FindsAt, FindsFresh
    <3> QED
      BY <3>1, <3>4
  <2> QED
    BY <2>3, <2>4
<1> QED
  BY <1>4, <1>9, <1>10 DEF FindingsPass

(* Where a pass stands.                                                     *)
LEMMA StandsAt ==
    ASSUME NEW h, HarvesterOK(h), PassInv(h), h.at \in {"locate", "read", "check"}, Settled
    PROVE  \E k \in Nat : /\ k < Len(WalkUps) /\ Len(h.roots) = Len(WalkUps) - k
                          /\ Len(WalkUps) - Len(h.roots) = k
                          /\ h.roots[1] = WalkUps[k + 1]
<1>1. PICK g, k : WalksAt(h, g, k)
  BY DEF PassInv, FreshPass
<1>2. h.roots \in Seq(Seq(Projects)) /\ h.roots # <<>>
  BY DEF HarvesterOK, HarvesterRecord
<1>3. 1 \in 1..Len(h.roots)
  <2> DEFINE roots == h.roots
             dirs == Seq(Projects)
  <2>1. roots \in Seq(dirs) /\ roots # <<>>
    BY <1>2
  <2> HIDE DEF roots, dirs
  <2>2. 1 \in 1..Len(roots)
    BY <2>1, FirstOf
  <2> QED
    BY <2>2 DEF roots
<1>4. k \in Nat /\ k < Len(WalkUps) /\ Len(h.roots) = Len(WalkUps) - k /\ h.roots[1] = WalkUps[k + 1]
  BY <1>1, <1>3 DEF WalksAt
<1>5. Len(WalkUps) \in Nat
  BY PlacesAssumption
<1>6. Len(WalkUps) - Len(h.roots) = k
  BY <1>4, <1>5
<1> QED
  BY <1>4, <1>6

LEMMA LocateFinds ==
    ASSUME Types, PassInv(harvester), FindingsPass(harvester), Locate
    PROVE  FindingsPass(harvester')
<1>1. PICK h : h = harvester
  OBVIOUS
<1>2. PICK next : next = harvester'
  OBVIOUS
<1>3. HarvesterOK(h) /\ PassInv(h) /\ FindingsPass(h) /\ h.at = "locate"
  BY <1>1 DEF Types, Locate, At
<1>4. PICK p : p = Located(h.roots[1])
  OBVIOUS
<1>5. next = IF p = None THEN NextRoot(h) ELSE [h EXCEPT !.at = "read", !.located = p]
  BY <1>1, <1>2, <1>3, <1>4, HeadRoot DEF Locate
<1>6. CASE p = None
  <2>1. PassInv(NextRoot(h))
    BY <1>2, <1>5, <1>6, LocatePasses
  <2>2. ASSUME Settled
        PROVE  \E k \in Nat : Len(h.roots) = Len(WalkUps) - k /\ FindsAt(h, k + 1)
    <3>1. PICK k \in Nat : /\ Len(h.roots) = Len(WalkUps) - k
                           /\ Len(WalkUps) - Len(h.roots) = k
                           /\ h.roots[1] = WalkUps[k + 1]
      BY <1>3, <2>2, StandsAt
    <3>2. FindsAt(h, k)
      BY <1>3, <2>2, <3>1 DEF FindingsPass
    <3>3. \A f : FaultyIn(k + 1, f) <=> FaultyIn(k, f)
      BY <1>4, <1>6, <3>1, FaultyNext
    <3>4. FindsAt(h, k + 1)
      BY <3>2, <3>3 DEF FindsAt, FindingsAt
    <3> QED
      BY <3>1, <3>4
  <2>3. h \in HarvesterRecord /\ h.roots # <<>>
    BY <1>3, FolderFacts
  <2>4. \A f \in DOMAIN h.findings : h.findings[f] # {}
    BY <1>3 DEF FindingsPass
  <2>5. FindingsPass(NextRoot(h))
    BY <2>1, <2>2, <2>3, <2>4, NextRootFinds
  <2> QED
    BY <1>2, <1>5, <1>6, <2>5
<1>7. CASE p # None
  <2>1. /\ next.at = "read" /\ next.roots = h.roots
        /\ next.envs = h.envs /\ next.findings = h.findings
    BY <1>3, <1>5, <1>7 DEF HarvesterOK, HarvesterRecord
  <2> QED
    BY <1>2, <1>3, <2>1 DEF FindingsPass, FindsAt
<1> QED
  BY <1>6, <1>7

(* A folder that does not resolve gives one finding, of the file at fault.  *)
Noted(findings, fault) ==
    IF fault \in DOMAIN findings THEN findings ELSE Put(findings, fault, SyntaxFindings(Broken))

LEMMA NotesFault ==
    ASSUME ClientOK, NEW h, h.envs \in Seq(Env),
           \A f \in DOMAIN h.findings : h.findings[f] # {}
    PROVE  \A k \in Nat, p \in Projects :
             FindsAt(h, k) /\ p = Located(WalkUps[k + 1]) /\ Resolved(p).fault # None =>
               \A f \in EnvFiles :
                 Given(Noted(h.findings, Resolved(p).fault), f) = FindingsAt(h.envs, k + 1, f)
<1> SUFFICES ASSUME NEW k \in Nat, NEW p \in Projects,
                    FindsAt(h, k), p = Located(WalkUps[k + 1]), Resolved(p).fault # None
             PROVE  \A f \in EnvFiles :
                      Given(Noted(h.findings, Resolved(p).fault), f) = FindingsAt(h.envs, k + 1, f)
  OBVIOUS
<1> PICK fault : fault = Resolved(p).fault
  OBVIOUS
<1> PICK noted : noted = Noted(h.findings, fault)
  OBVIOUS
<1> DEFINE syntax == SyntaxFindings(Broken)
<1>1. syntax # {}
  BY DEF SyntaxFindings, Parses
<1>2. p # None
  BY FilesAssumption
<1>3. \A f : FaultyIn(k + 1, f) <=> FaultyIn(k, f) \/ f = fault
  BY <1>2, FaultyNext
<1>4. \A f \in EnvFiles : f # fault => FindingsAt(h.envs, k + 1, f) = FindingsAt(h.envs, k, f)
  BY <1>3 DEF FindingsAt
<1>5. FindingsAt(h.envs, k + 1, fault) = syntax
  BY <1>3 DEF FindingsAt
<1>6. fault \in EnvFiles
  BY ResolvedTyped
<1>7. Given(h.findings, fault) \in {{}, syntax}
  <2>1. Given(h.findings, fault) = FindingsAt(h.envs, k, fault)
    BY <1>6 DEF FindsAt
  <2>2. CASE FaultyIn(k, fault)
    BY <2>1, <2>2 DEF FindingsAt
  <2>3. CASE ~FaultyIn(k, fault)
    <3>1. FindingsAt(h.envs, k, fault) =
            UNION {SemanticFindings(env, disk[fault]) : env \in Checked(h.envs, fault)}
      BY <2>3 DEF FindingsAt
    <3>2. \A env \in Checked(h.envs, fault) : SemanticFindings(env, disk[fault]) = {}
      <4> SUFFICES ASSUME NEW env \in Checked(h.envs, fault)
                   PROVE  SemanticFindings(env, disk[fault]) = {}
        OBVIOUS
      <4>1. env \in Env /\ ProjectOf(env.project) = fault
        BY DEF Checked, ToSet
      <4>2. env.project \in Projects
        BY <4>1 DEF Env
      <4>3. ~Parses(disk[fault])
        BY <4>1, <4>2, FaultExcludes
      <4> QED
        BY <4>3 DEF SemanticFindings
    <3>3. FindingsAt(h.envs, k, fault) = {}
      BY <3>1, <3>2
    <3> QED
      BY <2>1, <3>3
  <2> QED
    BY <2>2, <2>3
<1> HIDE DEF syntax
<1>8. CASE fault \in DOMAIN h.findings
  <2>1. noted = h.findings
    BY <1>8 DEF Noted
  <2>2. Given(noted, fault) = syntax
    BY <1>7, <1>8, <2>1 DEF Given
  <2>3. \A f \in EnvFiles : Given(noted, f) = FindingsAt(h.envs, k, f)
    BY <2>1 DEF FindsAt
  <2>4. \A f \in EnvFiles : Given(noted, f) = FindingsAt(h.envs, k + 1, f)
    BY <1>4, <1>5, <2>2, <2>3
  <2> QED
    BY <2>4
<1>9. CASE fault \notin DOMAIN h.findings
  <2>1. /\ DOMAIN noted = DOMAIN h.findings \cup {fault} /\ noted[fault] = syntax
        /\ \A f \in DOMAIN h.findings : f # fault => noted[f] = h.findings[f]
    BY <1>9 DEF Noted, Put, syntax
  <2>2. Given(noted, fault) = syntax
    BY <2>1 DEF Given
  <2>3. \A f \in EnvFiles : f # fault => Given(noted, f) = Given(h.findings, f)
    BY <2>1 DEF Given
  <2>4. \A f \in EnvFiles : Given(noted, f) = FindingsAt(h.envs, k + 1, f)
    BY <1>4, <1>5, <2>2, <2>3 DEF FindsAt
  <2> QED
    BY <2>4
<1> QED
  BY <1>8, <1>9

LEMMA ReadFinds ==
    ASSUME Types, PassInv(harvester), FindingsPass(harvester), ReadEnvironment
    PROVE  FindingsPass(harvester')
<1>1. PICK h : h = harvester
  OBVIOUS
<1>2. PICK next : next = harvester'
  OBVIOUS
<1>3. /\ HarvesterOK(h) /\ PassInv(h) /\ FindingsPass(h) /\ h.at = "read"
      /\ h.located \in Projects /\ h \in HarvesterRecord
  BY <1>1 DEF Types, ReadEnvironment, At, HarvesterOK
<1>4. PICK env : env = Resolved(h.located)
  OBVIOUS
<1>5. PICK noted : noted = Noted(h.findings, env.fault)
  OBVIOUS
<1> DEFINE seen == \E i \in DOMAIN h.envs : h.envs[i].project = h.located
<1>6. next = IF env.fault # None THEN NextRoot([h EXCEPT !.findings = noted])
             ELSE IF seen THEN NextRoot(h)
             ELSE [h EXCEPT !.at = "check", !.env = env]
  BY <1>1, <1>2, <1>4, <1>5 DEF ReadEnvironment, Noted
<1> HIDE DEF seen
<1>7. PassInv(next)
  BY <1>2, ReadPasses
<1>8. h.roots # <<>> /\ h.envs \in Seq(Env) /\ \A f \in DOMAIN h.findings : h.findings[f] # {}
  BY <1>3, FolderFacts DEF HarvesterRecord, FindingsPass
<1>9. ASSUME Settled
      PROVE  \E k \in Nat : /\ Len(h.roots) = Len(WalkUps) - k
                            /\ h.located = Located(WalkUps[k + 1])
                            /\ FindsAt(h, k)
  <2>1. PICK k \in Nat : /\ Len(h.roots) = Len(WalkUps) - k
                         /\ Len(WalkUps) - Len(h.roots) = k
                         /\ h.roots[1] = WalkUps[k + 1]
    BY <1>3, <1>9, StandsAt
  <2>2. FindsAt(h, k)
    BY <1>3, <1>9, <2>1 DEF FindingsPass
  <2>3. h.located = Located(WalkUps[k + 1])
    BY <1>3, <1>9, <2>1 DEF PassInv, FreshPass
  <2> QED
    BY <2>1, <2>2, <2>3
<1>10. CASE env.fault # None
  <2>1. PICK faulty : faulty = [h EXCEPT !.findings = noted]
    OBVIOUS
  <2>2. noted \in Partial(EnvFiles, SUBSET Tags)
    <3>1. env.fault \in EnvFiles
      BY <1>3, <1>4, <1>10, ResolvedTyped DEF Types
    <3>2. SyntaxFindings(Broken) \in SUBSET Tags
      BY FindingsTyped
    <3>3. h.findings \in Partial(EnvFiles, SUBSET Tags)
      BY <1>3 DEF HarvesterRecord
    <3> QED
      BY <1>5, <3>1, <3>2, <3>3, PartialPut DEF Noted
  <2>3. /\ faulty \in HarvesterRecord /\ faulty.roots = h.roots
        /\ faulty.envs = h.envs /\ faulty.findings = noted
    BY <1>3, <2>1, <2>2 DEF HarvesterRecord
  <2>4. PassInv(NextRoot(faulty))
    BY <1>6, <1>7, <1>10, <2>1
  <2>5. \A f \in DOMAIN faulty.findings : faulty.findings[f] # {}
    BY <1>5, <1>8, <2>3 DEF Noted, Put, SyntaxFindings, Parses
  <2>6. ASSUME Settled
        PROVE  \E k \in Nat : Len(faulty.roots) = Len(WalkUps) - k /\ FindsAt(faulty, k + 1)
    <3>1. PICK k \in Nat : /\ Len(h.roots) = Len(WalkUps) - k
                           /\ h.located = Located(WalkUps[k + 1])
                           /\ FindsAt(h, k)
      BY <1>9, <2>6
    <3>2. \A f \in EnvFiles :
            Given(Noted(h.findings, Resolved(h.located).fault), f) = FindingsAt(h.envs, k + 1, f)
      BY <1>3, <1>4, <1>8, <1>10, <3>1, NotesFault DEF Types
    <3>3. \A f \in EnvFiles : Given(noted, f) = FindingsAt(h.envs, k + 1, f)
      BY <1>4, <1>5, <3>2
    <3>4. FindsAt(faulty, k + 1)
      BY <2>3, <3>3 DEF FindsAt
    <3> QED
      BY <2>3, <3>1, <3>4
  <2>7. FindingsPass(NextRoot(faulty))
    BY <1>8, <2>3, <2>4, <2>5, <2>6, NextRootFinds
  <2> QED
    BY <1>2, <1>6, <1>10, <2>1, <2>7
<1>11. CASE env.fault = None /\ seen
  <2>1. ASSUME Settled
        PROVE  \E k \in Nat : Len(h.roots) = Len(WalkUps) - k /\ FindsAt(h, k + 1)
    <3>1. PICK k \in Nat : /\ Len(h.roots) = Len(WalkUps) - k
                           /\ h.located = Located(WalkUps[k + 1])
                           /\ FindsAt(h, k)
      BY <1>9, <2>1
    <3>2. \A f \in EnvFiles : FaultyIn(k + 1, f) <=> FaultyIn(k, f)
      BY <1>4, <1>11, <3>1, FaultyNext, FilesAssumption
    <3>3. FindsAt(h, k + 1)
      BY <3>1, <3>2 DEF FindsAt, FindingsAt
    <3> QED
      BY <3>1, <3>3
  <2>2. PassInv(NextRoot(h))
    BY <1>6, <1>7, <1>11
  <2>3. FindingsPass(NextRoot(h))
    BY <1>3, <1>8, <2>1, <2>2, NextRootFinds
  <2> QED
    BY <1>2, <1>6, <1>11, <2>3
<1>12. CASE env.fault = None /\ ~seen
  <2>1. /\ next.at = "check" /\ next.roots = h.roots
        /\ next.envs = h.envs /\ next.findings = h.findings
    BY <1>3, <1>6, <1>12 DEF HarvesterRecord
  <2> QED
    BY <1>2, <1>3, <2>1 DEF FindingsPass, FindsAt
<1> QED
  BY <1>10, <1>11, <1>12

(* A resolved project's text is checked against its environment.            *)
Added(findings, env) ==
    LET diags == SemanticFindings(env, disk[ProjectOf(env.project)])
    IN  IF diags = {} THEN findings ELSE Put(findings, ProjectOf(env.project), diags)

LEMMA AddsChecked ==
    ASSUME ClientOK, NEW h, h.envs \in Seq(Env)
    PROVE  \A k \in Nat, env \in Env :
             /\ k < Len(WalkUps) /\ FindsAt(h, k)
             /\ env.project = Located(WalkUps[k + 1]) /\ Resolved(env.project).fault = None
             /\ \A i \in DOMAIN h.envs : h.envs[i].project # env.project
             /\ \A f \in DOMAIN h.findings : h.findings[f] # {}
             => \A f \in EnvFiles :
                  Given(Added(h.findings, env), f) = FindingsAt(Append(h.envs, env), k + 1, f)
<1> SUFFICES ASSUME NEW k \in Nat, NEW env \in Env, k < Len(WalkUps), FindsAt(h, k),
                    env.project = Located(WalkUps[k + 1]), Resolved(env.project).fault = None,
                    \A i \in DOMAIN h.envs : h.envs[i].project # env.project,
                    \A f \in DOMAIN h.findings : h.findings[f] # {}
             PROVE  \A f \in EnvFiles :
                      Given(Added(h.findings, env), f) = FindingsAt(Append(h.envs, env), k + 1, f)
  OBVIOUS
<1> PICK p : p = env.project
  OBVIOUS
<1> p \in Projects /\ p = Located(WalkUps[k + 1]) /\ Resolved(p).fault = None /\ env.project = p
  BY DEF Env
<1> PICK diags : diags = SemanticFindings(env, disk[ProjectOf(p)])
  OBVIOUS
<1> PICK found : found = Added(h.findings, env)
  OBVIOUS
<1> found = IF diags = {} THEN h.findings ELSE Put(h.findings, ProjectOf(p), diags)
  BY DEF Added
<1> PICK envs : envs = Append(h.envs, env)
  OBVIOUS
<1>1. PICK file : file = ProjectOf(p)
  OBVIOUS
<1>2. file \in EnvFiles
  BY <1>1, ProjectFile
<1>3. \A f \in EnvFiles : FaultyIn(k + 1, f) <=> FaultyIn(k, f)
  BY FaultyNext, FilesAssumption
<1>4. PICK before : before = h.envs
  OBVIOUS
<1>5. before \in Seq(Env)
  BY <1>4
<1>6. /\ DOMAIN envs = DOMAIN before \cup {Len(before) + 1}
      /\ \A i \in DOMAIN before : envs[i] = before[i]
      /\ envs[Len(before) + 1] = env
  BY <1>4, <1>5
<1>7. ToSet(envs) = ToSet(before) \cup {env}
  <2>1. ASSUME NEW e \in ToSet(envs) PROVE e \in ToSet(before) \cup {env}
    BY <1>6 DEF ToSet
  <2>2. ASSUME NEW e \in ToSet(before) \cup {env} PROVE e \in ToSet(envs)
    BY <1>6 DEF ToSet
  <2> QED
    BY <2>1, <2>2
<1>8. \A e \in ToSet(before) : e \in Env /\ e.project \in Projects /\ e.project # p
  <2>1. \A e \in Env : e.project \in Projects
    BY DEF Env
  <2> QED
    BY <1>4, <1>5, <2>1 DEF ToSet
<1>9. Checked(before, file) = {} /\ Checked(envs, file) = {env}
  <2>1. \A e \in ToSet(before) : ProjectOf(e.project) # file
    BY <1>1, <1>8, FaultExcludes
  <2>2. ProjectOf(env.project) = file
    BY <1>1
  <2> QED
    BY <1>7, <2>1, <2>2 DEF Checked
<1>10. \A f : f # file => Checked(envs, f) = Checked(before, f)
  <2>1. ProjectOf(env.project) = file
    BY <1>1
  <2> QED
    BY <1>7, <2>1 DEF Checked
<1>11. ~FaultyIn(k, file)
  <2> SUFFICES ASSUME NEW i \in 1..k, Located(WalkUps[i]) # None,
                      Resolved(Located(WalkUps[i])).fault = file
               PROVE  FALSE
    BY DEF FaultyIn
  <2>1. WalkUps[i] \in Seq(Projects)
    <3>1. WalkUps \in Seq(Seq(Projects))
      BY PlacesAssumption
    <3> DEFINE dirs == Seq(Projects)
    <3> HIDE DEF dirs
    <3>2. WalkUps \in Seq(dirs) => WalkUps[i] \in dirs
      OBVIOUS
    <3> QED
      BY <3>1, <3>2 DEF dirs
  <2>2. Located(WalkUps[i]) \in Projects
    BY <2>1, LocatedTyped
  <2> QED
    BY <1>1, <2>2, FaultExcludes
<1>12. FindingsAt(before, k, file) = {} /\ FindingsAt(envs, k + 1, file) = diags
  BY <1>1, <1>2, <1>3, <1>9, <1>11 DEF FindingsAt
<1>13. \A f \in EnvFiles : f # file => FindingsAt(envs, k + 1, f) = FindingsAt(before, k, f)
  BY <1>3, <1>10 DEF FindingsAt
<1>14. file \notin DOMAIN h.findings
  BY <1>2, <1>4, <1>12 DEF FindsAt, Given
<1>15. Given(found, file) = diags
  BY <1>1, <1>14 DEF Given, Put
<1>16. \A f \in EnvFiles : f # file => Given(found, f) = Given(h.findings, f)
  BY <1>1, <1>14 DEF Given, Put
<1> QED
  BY <1>4, <1>12, <1>13, <1>15, <1>16 DEF FindsAt

LEMMA CheckFinds ==
    ASSUME Types, PassInv(harvester), FindingsPass(harvester), CheckEnvironment
    PROVE  FindingsPass(harvester')
<1>1. PICK h : h = harvester
  OBVIOUS
<1>2. PICK next : next = harvester'
  OBVIOUS
<1>3. /\ HarvesterOK(h) /\ PassInv(h) /\ FindingsPass(h) /\ h.at = "check" /\ h.env \in Env
      /\ h \in HarvesterRecord
  BY <1>1 DEF Types, CheckEnvironment, At, HarvesterOK
<1>4. PICK env : env = h.env
  OBVIOUS
<1>5. PICK found : found = Added(h.findings, env)
  OBVIOUS
<1>6. PICK envs : envs = Append(h.envs, env)
  OBVIOUS
<1>7. PICK checked : checked = [h EXCEPT !.findings = found, !.envs = envs]
  OBVIOUS
<1>8. next = NextRoot(checked)
  BY <1>1, <1>2, <1>4, <1>5, <1>6, <1>7 DEF CheckEnvironment, Added
<1>9. found \in Partial(EnvFiles, SUBSET Tags)
  <2>1. ProjectOf(env.project) \in EnvFiles
    BY <1>3, <1>4, ProjectFile DEF Env
  <2>2. SemanticFindings(env, disk[ProjectOf(env.project)]) \in SUBSET Tags
    BY FindingsTyped
  <2>3. h.findings \in Partial(EnvFiles, SUBSET Tags)
    BY <1>3 DEF HarvesterRecord
  <2> QED
    BY <1>5, <2>1, <2>2, <2>3, PartialPut DEF Added
<1>10. h.envs \in Seq(Env) /\ h.roots # <<>> /\ \A f \in DOMAIN h.findings : h.findings[f] # {}
  BY <1>3, FolderFacts DEF HarvesterRecord, FindingsPass
<1>11. envs \in Seq(Env)
  BY <1>3, <1>4, <1>6, <1>10
<1>12. /\ checked \in HarvesterRecord /\ checked.roots = h.roots
       /\ checked.envs = envs /\ checked.findings = found
  BY <1>3, <1>7, <1>9, <1>11 DEF HarvesterRecord
<1>13. PassInv(NextRoot(checked))
  BY <1>2, <1>8, CheckPasses
<1>14. \A f \in DOMAIN checked.findings : checked.findings[f] # {}
  BY <1>5, <1>10, <1>12 DEF Put, Added
<1>15. ASSUME Settled
       PROVE  \E k \in Nat : Len(checked.roots) = Len(WalkUps) - k /\ FindsAt(checked, k + 1)
  <2>1. PICK k \in Nat : /\ k < Len(WalkUps) /\ Len(h.roots) = Len(WalkUps) - k
                         /\ Len(WalkUps) - Len(h.roots) = k
                         /\ h.roots[1] = WalkUps[k + 1]
    BY <1>3, <1>15, StandsAt
  <2>2. PICK p : p = Located(WalkUps[k + 1])
    OBVIOUS
  <2>3. p \in Projects /\ env = Resolved(p)
    BY <1>3, <1>4, <1>15, <2>1, <2>2 DEF PassInv, FreshPass
  <2>4. FindsAt(h, k)
    BY <1>3, <1>15, <2>1 DEF FindingsPass
  <2>5. env.fault = None /\ env \in Env
    BY <1>3, <1>4 DEF Env
  <2>6. env.project = p
    BY <2>3, <2>5, ResolvedIs, FilesAssumption
  <2>7. \A i \in DOMAIN h.envs : h.envs[i].project # p
    BY <1>3, <1>4, <2>6 DEF PassInv, ListsOK
  <2>8. Resolved(env.project).fault = None /\ ClientOK
        /\ env.project = Located(WalkUps[k + 1])
        /\ \A i \in DOMAIN h.envs : h.envs[i].project # env.project
    BY <2>2, <2>3, <2>5, <2>6, <2>7 DEF Types
  <2>9. \A f \in EnvFiles : Given(found, f) = FindingsAt(envs, k + 1, f)
    BY <1>5, <1>6, <1>10, <2>1, <2>4, <2>5, <2>8, AddsChecked
  <2>10. FindsAt(checked, k + 1)
    BY <1>12, <2>9 DEF FindsAt
  <2> QED
    BY <1>12, <2>1, <2>10
<1>16. FindingsPass(NextRoot(checked))
  BY <1>10, <1>12, <1>13, <1>14, <1>15, NextRootFinds
<1> QED
  BY <1>2, <1>8, <1>16

(* Any pass that starts over has found, rightly, nothing yet.               *)
StartsFound == \A last : FindingsPass(Start(last))

LEMMA StartFinds == StartsFound
<1> SUFFICES ASSUME NEW last PROVE FindingsPass(Start(last))
  BY DEF StartsFound
<1>1. PICK h : h = Start(last)
  OBVIOUS
<1>2. PICK none : none = <<>>
  OBVIOUS
<1>3. h.at = "locate" /\ h.roots = WalkUps /\ h.envs = none /\ h.findings = Empty
  BY <1>1, <1>2 DEF Start
<1>4. DOMAIN Empty = {} /\ ToSet(none) = {}
  BY <1>2 DEF Empty, ToSet
<1>5. Len(WalkUps) - Len(h.roots) = 0
  <2>1. Len(WalkUps) \in Nat
    BY PlacesAssumption
  <2> QED
    BY <1>3, <2>1
<1>6. \A f : ~FaultyIn(0, f)
  BY FaultyNext
<1>7. FindsAt(h, 0)
  BY <1>3, <1>4, <1>6 DEF FindsAt, FindingsAt, Given, Checked
<1> QED
  BY <1>1, <1>3, <1>4, <1>5, <1>7 DEF FindingsPass

(* A pass in which nothing was found or forgotten.                          *)
LEMMA SameFindings ==
    ASSUME NEW h, FindingsPass(h), NEW next,
           next.at \in {"list", "claim", "harvest", "wait", "reharvest"},
           next.findings = h.findings \/ next.findings = Empty
    PROVE  FindingsPass(next)
BY DEF FindingsPass, Empty

LEMMA FindingsPassHeard ==
    ASSUME ClientOK, Hears, NEW h, HarvesterOK(h), PassInv(h), FindingsPass(h)
    PROVE  FindingsPass(h)'
<1>1. /\ h.envs \in Seq(Env) /\ h.roots \in Seq(Seq(Projects))
  BY DEF HarvesterOK, HarvesterRecord
<1> SUFFICES ASSUME Settled'
             PROVE  /\ h.at \in {"locate", "read", "check"} =>
                         FindsAt(h, Len(WalkUps) - Len(h.roots))'
                    /\ h.at = "publish" => FindsFresh(h)'
  BY DEF FindingsPass
<1>2. Settled /\ SameEnvironments
  BY DEF Hears
<1>3. h.at = "publish" => FindsFresh(h)'
  <2>1. \A f \in EnvFiles : FreshFindings(f)' = FreshFindings(f)
    BY <1>2, FreshFindingsHeard
  <2> QED
    BY <1>2, <2>1 DEF FindingsPass, FindsFresh, Given
<1>4. ASSUME h.at \in {"locate", "read", "check"}
      PROVE  FindsAt(h, Len(WalkUps) - Len(h.roots))'
  <2>1. PICK k \in Nat : k < Len(WalkUps) /\ k = Len(WalkUps) - Len(h.roots)
    BY <1>2, <1>4, StandsAt
  <2>2. FindsAt(h, k)
    BY <1>2, <1>4, <2>1 DEF FindingsPass
  <2>3. k \in 0..Len(WalkUps)
    <3>1. Len(WalkUps) \in Nat
      BY PlacesAssumption
    <3> QED
      BY <2>1, <3>1
  <2>4. FindsAt(h, k)'
    BY <1>1, <1>2, <2>2, <2>3, FindsTheSame DEF FindsAt, Given
  <2> QED
    BY <2>1, <2>4
<1> QED
  BY <1>3, <1>4

-----------------------------------------------------------------------------
(* What the main loop is told.                                              *)

LEMMA SetToSeqApart ==
    ASSUME NEW S, IsFiniteSet(S)
    PROVE  \A i, j \in DOMAIN SetToSeq(S) : SetToSeq(S)[i] = SetToSeq(S)[j] => i = j
<1> DEFINE n == Cardinality(S)
           order == SetToSeq(S)
<1>1. n \in Nat /\ ExistsBijection(1..n, S)
  BY FS_CardinalityType
<1>2. \E f \in [1..n -> S] : IsInjective(f)
  BY <1>1 DEF ExistsBijection, Bijection, Injection, IsInjective
<1>3. order \in [1..n -> S] /\ IsInjective(order)
  BY <1>2 DEF SetToSeq
<1> HIDE DEF n, order
<1>4. \A i, j \in DOMAIN order : order[i] = order[j] => i = j
  BY <1>3 DEF IsInjective
<1> QED
  BY <1>4 DEF order

Finding == [file : EnvFiles, diags : SUBSET Tags]
About(f, d) == [file |-> f, diags |-> d]

LEMMA EnvFilesFinite == IsFiniteSet(EnvFiles)
<1> DEFINE kinds == {"Project", "Manifest"}
<1>1. kinds = {"Project"} \cup {"Manifest"}
  OBVIOUS
<1>2. IsFiniteSet({"Project"}) /\ IsFiniteSet({"Manifest"})
  BY FS_Singleton
<1> HIDE DEF kinds
<1>3. IsFiniteSet(kinds)
  BY <1>1, <1>2, FS_Union
<1>4. IsFiniteSet(Projects)
  BY FilesAssumption
<1>5. IsFiniteSet(Projects \X kinds)
  BY <1>3, <1>4, FS_Product
<1> QED
  BY <1>5 DEF EnvFiles, kinds

(* One message for each file of a set.                                      *)
SaysOf(news, files, d) ==
    /\ news \in Seq(Finding)
    /\ \A i \in DOMAIN news : news[i].file \in files /\ news[i].diags = d[news[i].file]
    /\ \A f \in files : \E i \in DOMAIN news : news[i].file = f
    /\ \A i, j \in DOMAIN news : news[i].file = news[j].file => i = j

LEMMA SaysEach ==
    ASSUME NEW files \in SUBSET EnvFiles, NEW d \in [EnvFiles -> SUBSET Tags]
    PROVE  SaysOf(SetToSeq({About(f, d[f]) : f \in files}), files, d)
<1> DEFINE all == {About(f, d[f]) : f \in files}
           news == SetToSeq(all)
           say == [f \in files |-> About(f, d[f])]
<1>1. \A x \in all : x \in Finding /\ x.file \in files /\ x.diags = d[x.file]
  BY DEF About, Finding
<1>2. ASSUME NEW f \in files PROVE \E x \in all : x.file = f
  <2>1. About(f, d[f]) \in all /\ About(f, d[f]).file = f
    BY DEF About
  <2> QED
    BY <2>1
<1>3. \A x, y \in all : x.file = y.file => x = y
  BY DEF About
<1>4. IsFiniteSet(all)
  <2>1. say \in Surjection(files, all)
    BY DEF Surjection
  <2>2. IsFiniteSet(files)
    BY EnvFilesFinite, FS_Subset
  <2> HIDE DEF say, all
  <2> QED
    BY <2>1, <2>2, FS_Surjection
<1> HIDE DEF all
<1>5. /\ news \in Seq(all) /\ \A x \in all : \E i \in DOMAIN news : news[i] = x
      /\ \A i, j \in DOMAIN news : news[i] = news[j] => i = j
  BY <1>4, SetToSeqLists, SetToSeqApart
<1> HIDE DEF news
<1>6. \A i \in DOMAIN news : news[i] \in all
  BY <1>5
<1>7. news \in Seq(Finding)
  BY <1>1, <1>5
<1>8. SaysOf(news, files, d)
  <2>1. \A i \in DOMAIN news : news[i].file \in files /\ news[i].diags = d[news[i].file]
    BY <1>1, <1>6
  <2>2. \A f \in files : \E i \in DOMAIN news : news[i].file = f
    BY <1>2, <1>5
  <2>3. \A i, j \in DOMAIN news : news[i].file = news[j].file => i = j
    BY <1>3, <1>5, <1>6
  <2> QED
    BY <1>7, <2>1, <2>2, <2>3 DEF SaysOf
<1> QED
  BY <1>8 DEF news, all

LEMMA SaysBoth ==
    ASSUME NEW now, NEW cleared, now \cap cleared = {}, NEW d, NEW a, NEW b,
           SaysOf(a, now, d), SaysOf(b, cleared, d)
    PROVE  SaysOf(a \o b, now \cup cleared, d)
<1> DEFINE L == Len(a)
<1>1. a \in Seq(Finding) /\ b \in Seq(Finding)
  BY DEF SaysOf
<1>2. PICK both : both = a \o b
  OBVIOUS
<1>3. both \in Seq(Finding) /\ L \in Nat /\ Len(b) \in Nat /\ Len(both) = L + Len(b)
  BY <1>1, <1>2
<1>4. /\ DOMAIN a = 1..L /\ DOMAIN b = 1..Len(b) /\ DOMAIN both = 1..(L + Len(b))
      /\ \A i \in 1..L : both[i] = a[i]
      /\ \A i \in 1..Len(b) : both[L + i] = b[i]
  BY <1>1, <1>2
<1> HIDE DEF L
<1>5. \A i \in DOMAIN both : \/ i \in DOMAIN a /\ both[i] = a[i]
                             \/ i - L \in DOMAIN b /\ both[i] = b[i - L] /\ i \notin DOMAIN a
  <2> SUFFICES ASSUME NEW i \in DOMAIN both
               PROVE  \/ i \in DOMAIN a /\ both[i] = a[i]
                      \/ i - L \in DOMAIN b /\ both[i] = b[i - L] /\ i \notin DOMAIN a
    OBVIOUS
  <2>1. CASE i \in 1..L
    BY <1>4, <2>1
  <2>2. CASE i \notin 1..L
    <3>1. i - L \in 1..Len(b) /\ L + (i - L) = i
      BY <1>3, <1>4, <2>2
    <3> QED
      BY <1>4, <2>2, <3>1
  <2> QED
    BY <2>1, <2>2
<1>6. \A i \in DOMAIN both : both[i].file \in now \cup cleared /\ both[i].diags = d[both[i].file]
  BY <1>5 DEF SaysOf
<1>7. \A f \in now \cup cleared : \E i \in DOMAIN both : both[i].file = f
  <2>1. \A i \in DOMAIN a : i \in DOMAIN both
    BY <1>3, <1>4
  <2>2. \A i \in DOMAIN b : L + i \in DOMAIN both
    BY <1>3, <1>4
  <2> QED
    BY <1>4, <2>1, <2>2 DEF SaysOf
<1>8. \A i, j \in DOMAIN both : both[i].file = both[j].file => i = j
  <2> SUFFICES ASSUME NEW i \in DOMAIN both, NEW j \in DOMAIN both, both[i].file = both[j].file
               PROVE  i = j
    OBVIOUS
  <2>1. i \in Nat /\ j \in Nat
    BY <1>4
  <2>2. CASE i \in DOMAIN a
    <3>1. j \in DOMAIN a
      BY <1>5, <2>2 DEF SaysOf
    <3> QED
      BY <1>4, <2>2, <3>1 DEF SaysOf
  <2>3. CASE i \notin DOMAIN a
    <3>1. i - L \in DOMAIN b /\ both[i] = b[i - L]
      BY <1>5, <2>3
    <3>2. j \notin DOMAIN a
      BY <1>4, <3>1 DEF SaysOf
    <3>3. j - L \in DOMAIN b /\ both[j] = b[j - L]
      BY <1>5, <3>2
    <3>4. i - L = j - L
      BY <3>1, <3>3 DEF SaysOf
    <3> QED
      BY <1>3, <2>1, <3>4
  <2> QED
    BY <2>2, <2>3
<1> QED
  BY <1>2, <1>3, <1>6, <1>7, <1>8 DEF SaysOf

LEMMA PublishSays ==
    ASSUME PublishEnvironmentDiagnostics, harvester \in HarvesterRecord,
           published_env_files \in SUBSET EnvFiles, out_rx \in Seq(Finding)
    PROVE  \E news, d : /\ d \in [EnvFiles -> SUBSET Tags]
                        /\ \A f \in EnvFiles : d[f] = Given(harvester.findings, f)
                        /\ out_rx' = out_rx \o news
                        /\ SaysOf(news, DOMAIN harvester.findings \cup published_env_files, d)
<1>1. PICK found : found = harvester.findings
  OBVIOUS
<1>2. PICK d : d = [f \in EnvFiles |-> Given(found, f)]
  OBVIOUS
<1>3. PICK now : now = DOMAIN found
  OBVIOUS
<1>4. PICK cleared : cleared = published_env_files \ now
  OBVIOUS
<1>5. found \in Partial(EnvFiles, SUBSET Tags)
  BY <1>1 DEF HarvesterRecord
<1>6. now \in SUBSET EnvFiles /\ cleared \in SUBSET EnvFiles
      /\ \A f \in now : found[f] \in SUBSET Tags
  BY <1>3, <1>4, <1>5, PartialDomain
<1>7. d \in [EnvFiles -> SUBSET Tags] /\ \A f \in EnvFiles : d[f] = Given(found, f)
  BY <1>2, <1>3, <1>6 DEF Given
<1>8. PICK a : a = SetToSeq({About(f, d[f]) : f \in now})
  OBVIOUS
<1>9. PICK b : b = SetToSeq({About(f, d[f]) : f \in cleared})
  OBVIOUS
<1>10. {[file |-> f, diags |-> found[f]] : f \in now} = {About(f, d[f]) : f \in now}
  BY <1>3, <1>6, <1>7 DEF About, Given
<1>11. {[file |-> f, diags |-> {}] : f \in cleared} = {About(f, d[f]) : f \in cleared}
  BY <1>3, <1>4, <1>6, <1>7 DEF About, Given
<1>12. out_rx' = out_rx \o SetToSeq({[file |-> f, diags |-> found[f]] : f \in now})
                        \o SetToSeq({[file |-> f, diags |-> {}] : f \in cleared})
  BY <1>1, <1>3, <1>4 DEF PublishEnvironmentDiagnostics
<1>13. SaysOf(a, now, d) /\ SaysOf(b, cleared, d)
  BY <1>6, <1>7, <1>8, <1>9, SaysEach
<1>14. SaysOf(a \o b, now \cup cleared, d)
  BY <1>4, <1>13, SaysBoth
<1>15. now \cup cleared = DOMAIN harvester.findings \cup published_env_files
  BY <1>1, <1>3, <1>4
<1>16. out_rx' = out_rx \o (a \o b)
  <2>1. out_rx' = (out_rx \o a) \o b
    BY <1>8, <1>9, <1>10, <1>11, <1>12
  <2>2. a \in Seq(Finding) /\ b \in Seq(Finding)
    BY <1>13 DEF SaysOf
  <2> QED
    BY <2>1, <2>2, ConcatAssociative
<1>17. PICK news : news = a \o b
  OBVIOUS
<1> QED
  BY <1>1, <1>7, <1>14, <1>15, <1>16, <1>17

(* What the first n messages leave the main loop with, for one file.        *)
Said(rx, held, n, f, d) ==
    \/ (\A j \in 1..n : rx[j].file # f) /\ d = held
    \/ \E i \in 1..n : /\ rx[i].file = f /\ rx[i].diags = d
                       /\ \A j \in 1..n : i < j => rx[j].file # f
Hearing(rx, held, f, g) ==
    /\ \A n \in 0..Len(rx) : Said(rx, held, n, f, g[n])
    /\ \A n \in 1..Len(rx) : rx[n].file = f /\ rx[n].diags = {} => g[n - 1] # {}

LEMMA HearingTail ==
    ASSUME NEW rx \in Seq(Finding), rx # <<>>, NEW held, NEW f, NEW g, Hearing(rx, held, f, g),
           NEW now, now = IF rx[1].file = f THEN rx[1].diags ELSE held
    PROVE  Hearing(Tail(rx), now, f, [n \in 0..Len(Tail(rx)) |-> g[n + 1]])
<1> DEFINE S == Finding
<1>1. rx \in Seq(S)
  OBVIOUS
<1> HIDE DEF S
<1>2. PICK rest : rest = Tail(rx)
  OBVIOUS
<1>3. PICK m : m = Len(rest)
  OBVIOUS
<1>4. /\ Len(rx) \in Nat /\ Len(rx) >= 1 /\ m = Len(rx) - 1
      /\ \A i \in 1..m : rest[i] = rx[i + 1]
  BY <1>1, <1>2, <1>3, TailOf
<1>5. PICK next : next = [n \in 0..m |-> g[n + 1]]
  OBVIOUS
<1>6. ASSUME NEW n \in 0..m PROVE Said(rest, now, n, f, next[n])
  <2>1. n \in Nat /\ n + 1 \in 0..Len(rx) /\ next[n] = g[n + 1]
    BY <1>4, <1>5
  <2>2. PICK d : d = g[n + 1]
    OBVIOUS
  <2>3. Said(rx, held, n + 1, f, d)
    BY <2>1, <2>2 DEF Hearing
  <2>4. \A j \in 1..n : rest[j] = rx[j + 1] /\ j + 1 \in 1..(n + 1)
    BY <1>4, <2>1
  <2>5. CASE (\A j \in 1..(n + 1) : rx[j].file # f) /\ d = held
    <3>1. 1 \in 1..(n + 1)
      BY <2>1
    <3>2. rx[1].file # f
      BY <2>5, <3>1
    <3>3. \A j \in 1..n : rest[j].file # f
      BY <2>4, <2>5
    <3> QED
      BY <2>1, <2>2, <2>5, <3>2, <3>3 DEF Said
  <2>6. CASE \E i \in 1..(n + 1) : /\ rx[i].file = f /\ rx[i].diags = d
                                   /\ \A j \in 1..(n + 1) : i < j => rx[j].file # f
    <3>1. PICK i \in 1..(n + 1) : /\ rx[i].file = f /\ rx[i].diags = d
                                  /\ \A j \in 1..(n + 1) : i < j => rx[j].file # f
      BY <2>6
    <3>2. \A j \in 1..n : i < j + 1 => rest[j].file # f
      BY <2>4, <3>1
    <3>3. CASE i = 1
      <4>1. \A j \in 1..n : rest[j].file # f
        BY <3>2, <3>3
      <4>2. now = d
        BY <3>1, <3>3
      <4> QED
        BY <2>1, <2>2, <4>1, <4>2 DEF Said
    <3>4. CASE i # 1
      <4>1. i - 1 \in 1..n /\ (i - 1) + 1 = i
        BY <2>1, <3>4
      <4>2. rest[i - 1].file = f /\ rest[i - 1].diags = d
        BY <2>4, <3>1, <4>1
      <4>3. \A j \in 1..n : i - 1 < j => rest[j].file # f
        BY <2>1, <3>2
      <4> QED
        BY <2>1, <2>2, <4>1, <4>2, <4>3 DEF Said
    <3> QED
      BY <3>3, <3>4
  <2> QED
    BY <2>3, <2>5, <2>6 DEF Said
<1>7. ASSUME NEW n \in 1..m, rest[n].file = f, rest[n].diags = {}
      PROVE  next[n - 1] # {}
  <2>1. /\ n + 1 \in 1..Len(rx) /\ n - 1 \in 0..m
        /\ next[n - 1] = g[n] /\ (n + 1) - 1 = n
    BY <1>4, <1>5
  <2>2. rx[n + 1].file = f /\ rx[n + 1].diags = {}
    BY <1>4, <1>7
  <2>3. g[(n + 1) - 1] # {}
    BY <2>1, <2>2 DEF Hearing
  <2> QED
    BY <2>1, <2>3
<1> QED
  BY <1>2, <1>3, <1>5, <1>6, <1>7 DEF Hearing

(* A pass publishes: each file is told of once at most, and only a file     *)
(* that was left with findings has them taken back.                         *)
LEMMA HearingMore ==
    ASSUME NEW rx \in Seq(Finding), NEW files, NEW d, NEW news, SaysOf(news, files, d)
    PROVE  \A f, held, g :
             Hearing(rx, held, f, g) /\ (f \in files /\ d[f] = {} => g[Len(rx)] # {}) =>
               \E more : /\ Hearing(rx \o news, held, f, more)
                         /\ more[Len(rx \o news)] = IF f \in files THEN d[f] ELSE g[Len(rx)]
<1> SUFFICES ASSUME NEW f, NEW held, NEW g, Hearing(rx, held, f, g),
                    f \in files /\ d[f] = {} => g[Len(rx)] # {}
             PROVE  \E more : /\ Hearing(rx \o news, held, f, more)
                              /\ more[Len(rx \o news)] = IF f \in files THEN d[f] ELSE g[Len(rx)]
  OBVIOUS
<1>1. PICK L : L = Len(rx)
  OBVIOUS
<1>2. PICK m : m = Len(news)
  OBVIOUS
<1>3. PICK all : all = rx \o news
  OBVIOUS
<1>4. news \in Seq(Finding)
  BY DEF SaysOf
<1>5. /\ L \in Nat /\ m \in Nat /\ Len(all) = L + m
      /\ \A i \in 1..L : all[i] = rx[i]
      /\ \A i \in 1..m : all[L + i] = news[i]
      /\ DOMAIN news = 1..m
  BY <1>1, <1>2, <1>3, <1>4
<1> DEFINE told(n) == \E i \in 1..m : news[i].file = f /\ L + i <= n
<1>6. PICK more : more = [n \in 0..(L + m) |-> IF n <= L THEN g[n]
                                               ELSE IF told(n) THEN d[f] ELSE g[L]]
  OBVIOUS
<1>7. \A n \in 0..(L + m) : more[n] = IF n <= L THEN g[n]
                                      ELSE IF told(n) THEN d[f] ELSE g[L]
  BY <1>6
<1>8. ASSUME NEW i \in 1..m, news[i].file = f PROVE news[i].diags = d[f] /\ f \in files
  <2>1. news[i].file \in files /\ news[i].diags = d[news[i].file]
    BY <1>5 DEF SaysOf
  <2> QED
    BY <1>8, <2>1
<1>9. \A i, j \in 1..m : news[i].file = f /\ news[j].file = f => i = j
  BY <1>5 DEF SaysOf
<1>10. ASSUME NEW n \in 0..(L + m) PROVE Said(all, held, n, f, more[n])
  <2>1. CASE n <= L
    <3>1. n \in 0..Len(rx) /\ more[n] = g[n]
      BY <1>1, <1>5, <1>7, <2>1
    <3>2. Said(rx, held, n, f, g[n])
      BY <3>1 DEF Hearing
    <3>3. \A j \in 1..n : all[j] = rx[j]
      BY <1>5, <2>1
    <3> QED
      BY <3>1, <3>2, <3>3 DEF Said
  <2>2. CASE ~(n <= L) /\ told(n)
    <3>1. PICK i \in 1..m : news[i].file = f /\ L + i <= n
      BY <2>2
    <3>2. more[n] = d[f] /\ L + i \in 1..n
      BY <1>5, <1>7, <2>2, <3>1
    <3>3. all[L + i].file = f /\ all[L + i].diags = d[f]
      BY <1>5, <1>8, <3>1
    <3>4. ASSUME NEW j \in 1..n, L + i < j PROVE all[j].file # f
      <4>1. j - L \in 1..m /\ L + (j - L) = j /\ j - L # i
        BY <1>5, <3>4
      <4>2. all[j] = news[j - L]
        BY <1>5, <4>1
      <4> QED
        BY <1>9, <3>1, <4>1, <4>2
    <3> QED
      BY <3>2, <3>3, <3>4 DEF Said
  <2>3. CASE ~(n <= L) /\ ~told(n)
    <3>1. more[n] = g[L] /\ L \in 0..Len(rx)
      BY <1>1, <1>5, <1>7, <2>3
    <3>2. ASSUME NEW j \in 1..n, L < j PROVE all[j].file # f
      <4>1. j - L \in 1..m /\ L + (j - L) = j /\ L + (j - L) <= n
        BY <1>5, <3>2
      <4>2. all[j] = news[j - L]
        BY <1>5, <4>1
      <4> QED
        BY <2>3, <4>1, <4>2
    <3>3. Said(rx, held, L, f, g[L])
      BY <3>1 DEF Hearing
    <3>4. \A j \in 1..n : j \in 1..L \/ L < j
      BY <1>5
    <3>5. \A j \in 1..L : j \in 1..n /\ all[j] = rx[j]
      BY <1>5, <2>3
    <3>6. CASE (\A j \in 1..L : rx[j].file # f) /\ g[L] = held
      BY <3>1, <3>2, <3>4, <3>5, <3>6 DEF Said
    <3>7. CASE \E i \in 1..L : /\ rx[i].file = f /\ rx[i].diags = g[L]
                               /\ \A j \in 1..L : i < j => rx[j].file # f
      BY <3>1, <3>2, <3>4, <3>5, <3>7 DEF Said
    <3> QED
      BY <3>3, <3>6, <3>7 DEF Said
  <2> QED
    BY <2>1, <2>2, <2>3
<1>11. ASSUME NEW n \in 1..(L + m), all[n].file = f, all[n].diags = {}
       PROVE  more[n - 1] # {}
  <2>1. n - 1 \in 0..(L + m) /\ n \in Nat
    BY <1>5
  <2>2. CASE n <= L
    <3>1. n \in 1..Len(rx) /\ all[n] = rx[n] /\ n - 1 <= L
      BY <1>1, <1>5, <2>1, <2>2
    <3>2. g[n - 1] # {}
      BY <1>11, <3>1 DEF Hearing
    <3>3. more[n - 1] = g[n - 1]
      BY <1>7, <2>1, <3>1
    <3> QED
      BY <3>2, <3>3
  <2>3. CASE ~(n <= L)
    <3>1. n - L \in 1..m /\ L + (n - L) = n
      BY <1>5, <2>1, <2>3
    <3>2. all[n] = news[n - L]
      BY <1>5, <3>1
    <3>3. g[L] # {}
      BY <1>1, <1>8, <1>11, <3>1, <3>2
    <3>4. ~told(n - 1)
      <4>1. \A i \in 1..m : news[i].file = f => i = n - L
        BY <1>9, <1>11, <3>1, <3>2
      <4>2. ~(L + (n - L) <= n - 1)
        BY <1>5, <2>1
      <4> QED
        BY <4>1, <4>2
    <3>5. n - 1 <= L => n - 1 = L
      BY <1>5, <2>1, <2>3
    <3>6. more[n - 1] = g[L]
      BY <1>7, <2>1, <3>4, <3>5
    <3> QED
      BY <3>3, <3>6
  <2> QED
    BY <2>2, <2>3
<1>12. more[L + m] = IF f \in files THEN d[f] ELSE g[L]
  <2>1. L + m \in 0..(L + m)
    BY <1>5
  <2>2. CASE f \in files
    <3>1. PICK i \in 1..m : news[i].file = f
      BY <1>5, <2>2 DEF SaysOf
    <3>2. L + i <= L + m /\ ~(L + m <= L)
      BY <1>5
    <3> QED
      BY <1>7, <2>1, <2>2, <3>1, <3>2
  <2>3. CASE f \notin files
    <3>1. ~told(L + m)
      BY <1>8, <2>3
    <3>2. L + m <= L => L + m = L
      BY <1>5
    <3> QED
      BY <1>7, <2>1, <2>3, <3>1, <3>2
  <2> QED
    BY <2>2, <2>3
<1>13. Hearing(all, held, f, more)
  BY <1>5, <1>10, <1>11 DEF Hearing
<1> QED
  BY <1>1, <1>3, <1>5, <1>12, <1>13

Kept(f) == IF env_diags[f] = None THEN {} ELSE env_diags[f]
Reports == {"list", "claim", "harvest", "wait", "reharvest"}

(* The files published with findings last are those the main loop will      *)
(* hold some for; a pass nothing disturbed leaves what a resolve finds.     *)
ToldOf(f, g) ==
    /\ Hearing(out_rx, Kept(f), f, g)
    /\ g[Len(out_rx)] # {} <=> f \in published_env_files
    /\ Settled /\ harvester.at \in Reports => g[Len(out_rx)] = FreshFindings(f)
ToldInv ==
    /\ out_rx \in Seq(Finding) /\ published_env_files \in SUBSET EnvFiles
    /\ \A f \in EnvFiles : \E g : ToldOf(f, g)

(* What the client is shown, buffer first.                                  *)
ShownInv ==
    /\ buffer_diags = [f \in EnvFiles |-> IF documents[f] = Broken
                                          THEN SyntaxFindings(Broken) ELSE None]
    /\ env_diags \in [EnvFiles -> ((SUBSET Tags) \ {{}}) \cup {None}]
    /\ shown = [f \in EnvFiles |-> Merged(buffer_diags, env_diags, f)]

LEMMA NoneIsNoFinding == None \notin SUBSET Tags
BY FilesAssumption DEF Tags

LEMMA ToldKept ==
    ASSUME ClientOK, ToldInv, UNCHANGED <<out_rx, env_diags, published_env_files>>,
           Settled' /\ harvester'.at \in Reports =>
             Settled /\ SameEnvironments /\ harvester.at \in Reports
    PROVE  ToldInv'
<1> SUFFICES ASSUME NEW f \in EnvFiles PROVE \E g : ToldOf(f, g)'
  BY DEF ToldInv, Finding
<1>1. PICK g : ToldOf(f, g)
  BY DEF ToldInv
<1>2. Settled' /\ harvester'.at \in Reports => FreshFindings(f)' = FreshFindings(f)
  BY FreshFindingsHeard
<1>3. ToldOf(f, g)'
  BY <1>1, <1>2 DEF ToldOf, Kept
<1> QED
  BY <1>3

LEMMA PublishTold ==
    ASSUME Types, ToldInv, FindingsPass(harvester), PublishEnvironmentDiagnostics
    PROVE  ToldInv'
<1>1. PICK h : h = harvester
  OBVIOUS
<1>2. PICK rx : rx = out_rx
  OBVIOUS
<1>3. PICK published : published = published_env_files
  OBVIOUS
<1>4. PICK now : now = DOMAIN h.findings
  OBVIOUS
<1>5. /\ h \in HarvesterRecord /\ h.at = "publish" /\ FindingsPass(h)
      /\ rx \in Seq(Finding) /\ published \in SUBSET EnvFiles
  BY <1>1, <1>2, <1>3 DEF Types, HarvesterOK, PublishEnvironmentDiagnostics, At, ToldInv
<1>6. now \in SUBSET EnvFiles /\ \A f \in now : h.findings[f] # {}
  <2>1. PICK found : found = h.findings
    OBVIOUS
  <2>2. found \in Partial(EnvFiles, SUBSET Tags)
    BY <1>5, <2>1 DEF HarvesterRecord
  <2> QED
    BY <1>4, <1>5, <2>1, <2>2, PartialDomain DEF FindingsPass
<1>7. PICK news, d : /\ d \in [EnvFiles -> SUBSET Tags]
                     /\ \A f \in EnvFiles : d[f] = Given(h.findings, f)
                     /\ out_rx' = rx \o news
                     /\ SaysOf(news, now \cup published, d)
  BY <1>1, <1>2, <1>3, <1>4, <1>5, PublishSays
<1>8. /\ published_env_files' = now /\ env_diags' = env_diags
      /\ UNCHANGED <<disk, unreported, harvest_rx, unresolved>>
  BY <1>1, <1>4 DEF PublishEnvironmentDiagnostics, mainVars, clientVars
<1>9. PICK all : all = rx \o news
  OBVIOUS
<1>10. all \in Seq(Finding)
  BY <1>5, <1>7, <1>9 DEF SaysOf
<1>11. SameEnvironments /\ (Settled' => Settled)
  BY <1>8 DEF SameEnvironments, Settled, EnvPending
<1>12. ASSUME NEW f \in EnvFiles PROVE \E more : ToldOf(f, more)'
  <2>1. PICK g : ToldOf(f, g)
    BY DEF ToldInv
  <2>2. PICK held : held = Kept(f)
    OBVIOUS
  <2>3. Hearing(rx, held, f, g) /\ (g[Len(rx)] # {} <=> f \in published)
    BY <1>2, <1>3, <2>1, <2>2 DEF ToldOf
  <2>4. d[f] # {} <=> f \in now
    BY <1>4, <1>6, <1>7 DEF Given
  <2>5. PICK more : /\ Hearing(all, held, f, more)
                    /\ more[Len(all)] = IF f \in now \cup published THEN d[f] ELSE g[Len(rx)]
    <3>1. f \in now \cup published /\ d[f] = {} => g[Len(rx)] # {}
      BY <2>3, <2>4
    <3> QED
      BY <1>5, <1>7, <1>9, <2>3, <3>1, HearingMore
  <2>6. more[Len(all)] = d[f]
    BY <2>3, <2>4, <2>5
  <2>7. Settled' => d[f] = FreshFindings(f)'
    <3>1. ASSUME Settled' PROVE d[f] = FreshFindings(f)'
      <4>1. Given(h.findings, f) = FreshFindings(f)
        BY <1>5, <1>11, <3>1 DEF FindingsPass, FindsFresh
      <4>2. FreshFindings(f)' = FreshFindings(f)
        BY <1>11, FreshFindingsHeard DEF Types
      <4> QED
        BY <1>7, <4>1, <4>2
    <3> QED
      BY <3>1
  <2>8. Kept(f)' = held /\ out_rx' = all
    BY <1>7, <1>8, <1>9, <2>2 DEF Kept
  <2>9. ToldOf(f, more)'
    BY <1>8, <2>4, <2>5, <2>6, <2>7, <2>8 DEF ToldOf
  <2> QED
    BY <2>9
<1> QED
  BY <1>6, <1>7, <1>8, <1>9, <1>10, <1>12 DEF ToldInv, Finding

LEMMA TakeTold ==
    ASSUME Types, ToldInv, ShownInv, TakeFindings
    PROVE  ToldInv'
<1>1. PICK rx : rx = out_rx
  OBVIOUS
<1>2. PICK msg : msg = rx[1]
  OBVIOUS
<1>3. rx \in Seq(Finding) /\ rx # <<>>
  BY <1>1 DEF ToldInv, TakeFindings
<1>4. /\ Len(rx) \in Nat /\ Len(rx) >= 1 /\ Len(Tail(rx)) = Len(rx) - 1
      /\ Head(rx) = msg /\ msg \in Finding
  <2> DEFINE S == Finding
  <2>1. rx \in Seq(S) /\ rx # <<>>
    BY <1>3
  <2> HIDE DEF S
  <2>2. /\ Len(rx) \in Nat /\ Len(rx) >= 1 /\ Len(Tail(rx)) = Len(rx) - 1
        /\ Head(rx) = rx[1] /\ rx[1] \in S
    BY <2>1, TailOf
  <2> QED
    BY <1>2, <2>2 DEF S
<1>5. /\ out_rx' = Tail(rx)
      /\ env_diags' = [env_diags EXCEPT ![msg.file] = IF msg.diags = {} THEN None ELSE msg.diags]
      /\ UNCHANGED <<disk, unreported, harvest_rx, unresolved, harvester, published_env_files>>
  BY <1>1, <1>4 DEF TakeFindings, clientVars
<1>6. SameEnvironments /\ (Settled' <=> Settled)
  BY <1>5 DEF SameEnvironments, Settled, EnvPending
<1>7. msg.file \in EnvFiles /\ msg.diags \in SUBSET Tags
  BY <1>4 DEF Finding
<1>8. PICK rest : rest = Tail(rx)
  OBVIOUS
<1>9. rest \in Seq(Finding)
  BY <1>3, <1>8
<1>10. ASSUME NEW f \in EnvFiles PROVE \E g : ToldOf(f, g)'
  <2>1. PICK g : ToldOf(f, g)
    BY DEF ToldInv
  <2>2. PICK held : held = Kept(f)
    OBVIOUS
  <2>3. PICK now : now = IF msg.file = f THEN msg.diags ELSE held
    OBVIOUS
  <2>4. Kept(f)' = now
    <3>1. CASE msg.file = f
      <4>1. env_diags'[f] = IF msg.diags = {} THEN None ELSE msg.diags
        BY <1>5, <1>7, <3>1 DEF ShownInv
      <4> QED
        BY <1>7, <2>3, <3>1, <4>1, NoneIsNoFinding DEF Kept
    <3>2. CASE msg.file # f
      <4>1. env_diags'[f] = env_diags[f]
        BY <1>5, <1>7, <3>2 DEF ShownInv
      <4> QED
        BY <2>2, <2>3, <3>2, <4>1 DEF Kept
    <3> QED
      BY <3>1, <3>2
  <2>5. PICK next : next = [n \in 0..Len(rest) |-> g[n + 1]]
    OBVIOUS
  <2>6. Hearing(rx, held, f, g)
    BY <1>1, <2>1, <2>2 DEF ToldOf
  <2>7. Hearing(rest, now, f, next)
    BY <1>2, <1>3, <1>8, <2>3, <2>5, <2>6, HearingTail
  <2>8. next[Len(rest)] = g[Len(rx)]
    BY <1>4, <1>8, <2>5
  <2>9. /\ g[Len(rx)] # {} <=> f \in published_env_files
        /\ Settled /\ harvester.at \in Reports => g[Len(rx)] = FreshFindings(f)
    BY <1>1, <2>1 DEF ToldOf
  <2>10. FreshFindings(f)' = FreshFindings(f)
    BY <1>6, FreshFindingsHeard DEF Types
  <2>11. ToldOf(f, next)'
    BY <1>5, <1>6, <1>8, <2>4, <2>7, <2>8, <2>9, <2>10 DEF ToldOf
  <2> QED
    BY <2>11
<1> QED
  BY <1>5, <1>8, <1>9, <1>10 DEF ToldInv, Finding

-----------------------------------------------------------------------------
(* What the client is shown.                                                *)

BufferFindings(texts, f) == IF texts[f] = Broken THEN SyntaxFindings(Broken) ELSE None

LEMMA RouteShown ==
    ASSUME DocumentsOK, ShownInv, NEW f \in EnvFiles, NEW text \in Texts, RouteDocument(f, text),
           env_diags' = env_diags
    PROVE  ShownInv'
<1>1. text # Absent
  BY ContentsAssumption
<1>2. PICK kept : kept = IF text = Broken THEN SyntaxFindings(Broken) ELSE None
  OBVIOUS
<1>3. /\ documents' = [documents EXCEPT ![f] = text]
      /\ buffer_diags' = [buffer_diags EXCEPT ![f] = kept]
      /\ IF SyntaxFindings(text) = {} /\ buffer_diags[f] = None
         THEN UNCHANGED shown
         ELSE Publish(buffer_diags', env_diags, {f})
  <2>1. kept = IF SyntaxFindings(text) = {} THEN None ELSE SyntaxFindings(text)
    BY <1>1, <1>2 DEF SyntaxFindings, Parses
  <2> QED
    BY <2>1 DEF RouteDocument
<1>4. documents \in [EnvFiles -> Texts \cup {None}]
  BY DEF DocumentsOK
<1>5. buffer_diags' = [e \in EnvFiles |-> BufferFindings(documents', e)]
  BY <1>2, <1>3, <1>4 DEF ShownInv, BufferFindings
<1>6. \A e \in EnvFiles : e # f => buffer_diags'[e] = buffer_diags[e]
  BY <1>3 DEF ShownInv
<1>7. shown' = [e \in EnvFiles |-> Merged(buffer_diags', env_diags, e)]
  <2>1. CASE SyntaxFindings(text) = {} /\ buffer_diags[f] = None
    <3>1. kept = None
      BY <1>2, <2>1 DEF SyntaxFindings, Parses
    <3>2. buffer_diags' = buffer_diags
      BY <1>3, <2>1, <3>1 DEF ShownInv
    <3> QED
      BY <1>3, <2>1, <3>2 DEF ShownInv
  <2>2. CASE ~(SyntaxFindings(text) = {} /\ buffer_diags[f] = None)
    BY <1>3, <1>6, <2>2 DEF ShownInv, Publish, Merged
  <2> QED
    BY <2>1, <2>2
<1> QED
  BY <1>5, <1>7 DEF ShownInv, BufferFindings

LEMMA CloseShown ==
    ASSUME DocumentsOK, ShownInv, NEW f \in EnvFiles, DidClose(f)
    PROVE  ShownInv'
<1>1. None # Broken
  BY FilesAssumption DEF Texts
<1>2. /\ documents' = [documents EXCEPT ![f] = None]
      /\ buffer_diags' = [buffer_diags EXCEPT ![f] = None]
      /\ env_diags' = env_diags
      /\ Publish(buffer_diags', env_diags, {f})
  BY DEF DidClose
<1>3. documents \in [EnvFiles -> Texts \cup {None}]
  BY DEF DocumentsOK
<1>4. buffer_diags' = [e \in EnvFiles |-> BufferFindings(documents', e)]
  BY <1>1, <1>2, <1>3 DEF ShownInv, BufferFindings
<1>5. \A e \in EnvFiles : e # f => buffer_diags'[e] = buffer_diags[e]
  BY <1>2 DEF ShownInv
<1>6. shown' = [e \in EnvFiles |-> Merged(buffer_diags', env_diags, e)]
  BY <1>2, <1>5 DEF ShownInv, Publish, Merged
<1> QED
  BY <1>2, <1>4, <1>6 DEF ShownInv, BufferFindings

(* A renamed entry edits a buffer that parses into one that does.           *)
LEMMA RenameShown ==
    ASSUME Types, ShownInv, NEW p \in Projects, NEW n \in Names, NEW m \in Names,
           RenameEntry(p, n, m)
    PROVE  ShownInv'
<1> DEFINE f == ProjectOf(p)
           edited == [tracked[p] EXCEPT !.name = m]
<1>1. UNCHANGED <<buffer_diags, env_diags, shown>>
  BY DEF RenameEntry
<1>2. f \in EnvFiles /\ documents \in [EnvFiles -> Texts \cup {None}]
  BY ProjectFile DEF Types, DocumentsOK
<1>3. CASE NameFollows(p, n) /\ documents[f] # None
  <2>1. documents' = [documents EXCEPT ![f] = edited] /\ tracked[p] = documents[f]
    BY <1>3 DEF RenameEntry
  <2>2. Parses(tracked[p]) /\ tracked[p] \in ProjectTexts \cup {Broken, None}
    BY <1>3 DEF NameFollows, Types, DatabaseOK
  <2>3. tracked[p] \in ProjectTexts
    BY <1>3, <2>1, <2>2 DEF Parses
  <2>4. edited \in ProjectTexts
    BY <2>3, FilesAssumption
  <2>5. edited # Broken /\ documents[f] # Broken
    BY <2>1, <2>3, <2>4, ContentsAssumption
  <2> HIDE DEF f, edited
  <2>6. \A e \in EnvFiles : documents'[e] = Broken <=> documents[e] = Broken
    BY <1>2, <2>1, <2>5
  <2> QED
    BY <1>1, <2>6 DEF ShownInv
<1>4. CASE ~(NameFollows(p, n) /\ documents[f] # None)
  <2>1. documents' = documents
    BY <1>4 DEF RenameEntry
  <2> QED
    BY <1>1, <2>1 DEF ShownInv
<1> QED
  BY <1>3, <1>4

LEMMA TakeShown ==
    ASSUME ToldInv, ShownInv, TakeFindings
    PROVE  ShownInv'
<1>1. PICK msg : msg = Head(out_rx)
  OBVIOUS
<1>2. msg \in Finding
  <2> DEFINE S == Finding
             rx == out_rx
  <2>1. rx \in Seq(S) /\ rx # <<>>
    BY DEF ToldInv, TakeFindings
  <2> HIDE DEF S, rx
  <2>2. Head(rx) = rx[1] /\ rx[1] \in S
    BY <2>1, TailOf
  <2> QED
    BY <1>1, <2>2 DEF S, rx
<1>3. PICK d : d = IF msg.diags = {} THEN None ELSE msg.diags
  OBVIOUS
<1>4. /\ env_diags' = [env_diags EXCEPT ![msg.file] = d]
      /\ UNCHANGED <<documents, buffer_diags>>
      /\ Publish(buffer_diags, env_diags', {msg.file})
  BY <1>1, <1>3 DEF TakeFindings
<1>5. msg.file \in EnvFiles /\ d \in ((SUBSET Tags) \ {{}}) \cup {None}
  BY <1>2, <1>3 DEF Finding
<1>6. env_diags' \in [EnvFiles -> ((SUBSET Tags) \ {{}}) \cup {None}]
  BY <1>4, <1>5 DEF ShownInv
<1>7. \A e \in EnvFiles : e # msg.file => env_diags'[e] = env_diags[e]
  BY <1>4 DEF ShownInv
<1>8. shown' = [e \in EnvFiles |-> Merged(buffer_diags, env_diags', e)]
  BY <1>4, <1>7 DEF ShownInv, Publish, Merged
<1> QED
  BY <1>4, <1>6, <1>8 DEF ShownInv

LEMMA ShownStep ==
    Types /\ ToldInv /\ ShownInv /\ [Next]_vars => ShownInv'
<1> SUFFICES ASSUME Types, ToldInv, ShownInv, [Next]_vars
             PROVE  ShownInv'
  OBVIOUS
<1>1. ASSUME UNCHANGED mainVars PROVE ShownInv'
  BY <1>1 DEF mainVars, ShownInv
<1>2. ASSUME NEW f \in EnvFiles, DidOpen(f) PROVE ShownInv'
  <2>1. RouteDocument(f, disk[f]) /\ env_diags' = env_diags /\ disk[f] # Absent
    BY <1>2 DEF DidOpen
  <2>2. disk[f] \in Texts
    BY <2>1, HoldsTexts DEF Types, ClientOK
  <2> QED
    BY <2>1, <2>2, RouteShown DEF Types
<1>3. ASSUME NEW f \in EnvFiles, NEW text \in TypedIn[f], DidChange(f, text) PROVE ShownInv'
  <2>1. RouteDocument(f, text) /\ env_diags' = env_diags
    BY <1>3 DEF DidChange
  <2>2. text \in Texts
    BY HoldsTexts, FilesAssumption
  <2> QED
    BY <2>1, <2>2, RouteShown DEF Types
<1>4. ASSUME NEW f \in EnvFiles, DidClose(f) PROVE ShownInv'
  BY <1>4, CloseShown DEF Types
<1>5. ASSUME NEW f, NEW text, DidSave(f) \/ DidSaveSource(f, text) \/ Rewrite(f, text)
      PROVE  ShownInv'
  BY <1>1, <1>5 DEF DidSave, DidSaveSource, Rewrite
<1>6. ASSUME NEW p \in Projects, NEW n \in Names, NEW m \in Names, RenameEntry(p, n, m)
      PROVE  ShownInv'
  BY <1>6, RenameShown
<1>7. CASE Client
  BY <1>2, <1>3, <1>4, <1>5, <1>6, <1>7 DEF Client
<1>8. CASE Watcher \/ Relint \/ AnalysisThread
  BY <1>1, <1>8 DEF Watcher, DidChangeWatchedFiles, Relint, AnalysisThread, OnSyncMessage,
                    OnLibraryMessage
<1>9. CASE TakeFindings
  BY <1>9, TakeShown
<1>10. CASE Harvester
  BY <1>1, <1>10 DEF Harvester, Locate, ReadEnvironment, CheckEnvironment,
     PublishEnvironmentDiagnostics, ListPackages, ClaimPackages, HarvestPackage, SendLibrary,
     Resolve, TakeSource, Reharvest, HarvesterOnly
<1>11. CASE UNCHANGED vars
  BY <1>1, <1>11 DEF vars
<1> QED
  BY <1>7, <1>8, <1>9, <1>10, <1>11 DEF Next

-----------------------------------------------------------------------------
(* All of it together.                                                      *)

FindInv ==
    /\ QueueOK /\ PassInv(harvester)
    /\ FindingsPass(harvester) /\ ToldInv /\ ShownInv

LEMMA FindInit ==
    ASSUME Init, WritesReported
    PROVE  FindInv
<1>1. harvester = Start(Empty) /\ Empty \in Packages
  BY PartialEmpty DEF Init, Packages
<1>2. PassInv(harvester) /\ FindingsPass(harvester)
  BY <1>1, StartsFresh, StartFinds DEF StartPasses, StartsFound
<1>3. QueueOK
  BY FS_EmptySet DEF Init, QueueOK
<1>4. harvester.at = "locate"
  BY <1>1 DEF Start
<1>5. ToldInv
  <2>1. PICK rx : rx = out_rx
    OBVIOUS
  <2>2. rx \in Seq(Finding) /\ Len(rx) = 0
    BY <2>1 DEF Init
  <2>3. ASSUME NEW f \in EnvFiles PROVE \E g : ToldOf(f, g)
    <3>1. Kept(f) = {} /\ f \notin published_env_files
      BY DEF Init, Kept
    <3>2. PICK none : none = {}
      OBVIOUS
    <3>3. PICK g : g = [n \in 0..0 |-> none]
      OBVIOUS
    <3>4. g[0] = none
      BY <3>3
    <3>5. Hearing(rx, none, f, g)
      BY <2>2, <3>4 DEF Hearing, Said
    <3>6. ToldOf(f, g)
      BY <1>4, <2>1, <2>2, <3>1, <3>2, <3>4, <3>5 DEF ToldOf, Reports
    <3> QED
      BY <3>6
  <2> QED
    BY <2>1, <2>2, <2>3 DEF ToldInv, Init
<1>6. ShownInv
  <2>1. None # Broken
    BY FilesAssumption DEF Texts
  <2> QED
    BY <2>1 DEF Init, ShownInv, Merged
<1> QED
  BY <1>2, <1>3, <1>5, <1>6 DEF FindInv

LEMMA OthersTold ==
    ASSUME Types, FindInv,
           Client \/ Watcher \/ Relint \/ AnalysisThread \/ UNCHANGED vars
    PROVE  FindingsPass(harvester)' /\ ToldInv'
<1>1. Hears
  BY OthersHear DEF FindInv
<1>2. UNCHANGED <<out_rx, env_diags, published_env_files>>
  <2> DEFINE Same == UNCHANGED <<out_rx, env_diags, published_env_files>>
  <2>1. ASSUME NEW f, DidOpen(f) \/ DidClose(f) \/ DidSave(f)
        PROVE  Same
    BY <2>1 DEF DidOpen, DidClose, DidSave, mainVars
  <2>2. ASSUME NEW f, NEW text, DidChange(f, text) \/ DidSaveSource(f, text) \/ Rewrite(f, text)
        PROVE  Same
    BY <2>2 DEF DidChange, DidSaveSource, Rewrite, mainVars
  <2>3. ASSUME NEW p, NEW n, NEW m, RenameEntry(p, n, m)
        PROVE  Same
    BY <2>3 DEF RenameEntry, mainVars
  <2>4. CASE Client
    BY <2>1, <2>2, <2>3, <2>4 DEF Client
  <2>5. CASE Watcher
    BY <2>5 DEF Watcher, DidChangeWatchedFiles, mainVars
  <2>6. CASE Relint
    BY <2>6 DEF Relint, mainVars
  <2>7. CASE AnalysisThread
    BY <2>7 DEF AnalysisThread, OnSyncMessage, OnLibraryMessage, mainVars
  <2>8. CASE UNCHANGED vars
    BY <2>8 DEF vars, mainVars
  <2> QED
    BY <2>4, <2>5, <2>6, <2>7, <2>8
<1>3. PICK h : h = harvester
  OBVIOUS
<1>4. harvester' = h
  BY <1>3, ClientLeaves DEF Relint, AnalysisThread, OnSyncMessage, OnLibraryMessage, vars
<1>5. FindingsPass(h)'
  BY <1>1, <1>3, FindingsPassHeard DEF FindInv, Types
<1>6. ToldInv'
  BY <1>1, <1>2, <1>3, <1>4, ToldKept DEF FindInv, Types, Hears
<1> QED
  BY <1>4, <1>5, <1>6

(* The harvester's own steps.                                               *)
LEMMA HarvesterTold ==
    ASSUME Types, FindInv, Harvester
    PROVE  FindingsPass(harvester)' /\ ToldInv'
<1>1. PICK h : h = harvester
  OBVIOUS
<1>2. PICK next : next = harvester'
  OBVIOUS
<1>3. /\ h \in HarvesterRecord /\ HarvesterOK(h) /\ PassInv(h) /\ FindingsPass(h)
      /\ QueueOK /\ ToldInv /\ ClientOK
  BY <1>1 DEF Types, FindInv, HarvesterOK
<1>4. ASSUME \/ Locate \/ ReadEnvironment \/ CheckEnvironment \/ PublishEnvironmentDiagnostics
             \/ ListPackages \/ ClaimPackages \/ HarvestPackage
      PROVE  FindingsPass(harvester)' /\ ToldInv'
  <2>1. Hears /\ PassInv(next) /\ HarvesterOK(next)
    BY <1>1, <1>2, <1>3, <1>4, PassSteps
  <2>2. CASE Locate \/ ReadEnvironment \/ CheckEnvironment
    <3>1. FindingsPass(next)
      BY <1>1, <1>2, <1>3, <2>2, LocateFinds, ReadFinds, CheckFinds
    <3>2. UNCHANGED <<out_rx, env_diags, published_env_files>>
      BY <2>2 DEF Locate, ReadEnvironment, CheckEnvironment, HarvesterOnly, mainVars
    <3>3. next.at \notin Reports
      BY <1>1, <1>2, <1>3, <2>2
         DEF Locate, ReadEnvironment, CheckEnvironment, NextRoot, HarvesterRecord, Reports, At
    <3>4. ToldInv'
      BY <1>2, <1>3, <3>2, <3>3, ToldKept
    <3> QED
      BY <1>2, <1>3, <2>1, <3>1, <3>4, FindingsPassHeard
  <2>3. CASE PublishEnvironmentDiagnostics
    <3>1. next = [h EXCEPT !.at = "list"]
      BY <1>1, <1>2, <2>3 DEF PublishEnvironmentDiagnostics
    <3>2. next.at = "list" /\ next.findings = h.findings
      BY <1>3, <3>1 DEF HarvesterRecord
    <3>3. FindingsPass(next)
      BY <1>3, <3>2, SameFindings
    <3>4. ToldInv'
      BY <1>1, <1>3, <2>3, PublishTold
    <3> QED
      BY <1>2, <1>3, <2>1, <3>3, <3>4, FindingsPassHeard
  <2>4. CASE ListPackages \/ ClaimPackages \/ HarvestPackage
    <3>1. /\ next.at \in {"list", "claim", "harvest"} /\ h.at \in {"list", "claim", "harvest"}
          /\ next.findings = h.findings
      BY <1>1, <1>2, <1>3, <2>4
         DEF ListPackages, ClaimPackages, HarvestPackage, HarvesterRecord, At
    <3>2. UNCHANGED <<out_rx, env_diags, published_env_files>>
      BY <2>4 DEF ListPackages, ClaimPackages, HarvestPackage, HarvesterOnly, mainVars
    <3>3. FindingsPass(next)
      BY <1>3, <3>1, SameFindings
    <3>4. h.at \in Reports
      BY <3>1 DEF Reports
    <3>5. ToldInv'
      BY <1>1, <1>3, <2>1, <3>2, <3>4, ToldKept DEF Hears
    <3> QED
      BY <1>2, <1>3, <2>1, <3>3, <3>5, FindingsPassHeard
  <2> QED
    BY <1>4, <2>2, <2>3, <2>4
<1>5. CASE SendLibrary
  <2>1. Hears /\ h.at = "harvest" /\ next.at = "wait" /\ next.findings = Empty
    <3>1. Hears /\ h.at = "harvest"
      BY <1>1, <1>3, <1>5, SendLeavesPass DEF SendLibrary, At
    <3>2. PICK start : start = Start(Empty)
      OBVIOUS
    <3>3. start \in HarvesterRecord /\ start.findings = Empty
      BY <3>2, StartTyped, PartialEmpty DEF Packages, HarvesterOK, Start
    <3>4. next = [start EXCEPT !.at = "wait", !.roots = <<>>, !.devs = h.devs]
      BY <1>1, <1>2, <1>5, <3>2 DEF SendLibrary
    <3> QED
      BY <3>1, <3>3, <3>4 DEF HarvesterRecord
  <2>2. FindingsPass(next) /\ HarvesterOK(next) /\ PassInv(next)
    BY <1>1, <1>2, <1>3, <1>5, <2>1, SameFindings, SendLibraryTyped, SendPasses
  <2>3. UNCHANGED <<out_rx, env_diags, published_env_files>> /\ h.at \in Reports
    BY <1>5, <2>1 DEF SendLibrary, mainVars, Reports
  <2>4. ToldInv'
    BY <1>1, <1>3, <2>1, <2>3, ToldKept DEF Hears
  <2> QED
    BY <1>2, <1>3, <2>1, <2>2, <2>4, FindingsPassHeard
<1>6. CASE Resolve
  <2>1. PICK last : last = harvester.last
    OBVIOUS
  <2>2. harvester' = Start(last) /\ harvester'.at = "locate"
    BY <1>3, <1>6, <2>1, ResolvePasses
  <2>3. StartsFound'
    BY StartFinds, PTL
  <2>4. UNCHANGED <<out_rx, env_diags, published_env_files>> /\ harvester'.at \notin Reports
    BY <1>6, <2>2 DEF Resolve, mainVars, Reports
  <2>5. ToldInv'
    BY <1>3, <2>4, ToldKept
  <2>6. FindingsPass(harvester)'
    BY <2>2, <2>3 DEF StartsFound
  <2> QED
    BY <2>5, <2>6
<1>7. CASE TakeSource
  <2>1. (Settled' <=> Settled) /\ SameEnvironments /\ next.at \in {"wait", "reharvest"}
    BY <1>1, <1>2, <1>3, <1>7, TakePasses
  <2>2. /\ h.at = "wait" /\ next.findings = h.findings
        /\ UNCHANGED <<out_rx, env_diags, published_env_files>>
    BY <1>1, <1>2, <1>3, <1>7 DEF TakeSource, At, HarvesterRecord, mainVars
  <2>3. FindingsPass(next)'
    BY <1>3, <2>1, <2>2 DEF FindingsPass
  <2>4. h.at \in Reports
    BY <2>2 DEF Reports
  <2>5. ToldInv'
    BY <1>1, <1>3, <2>1, <2>2, <2>4, ToldKept
  <2> QED
    BY <1>2, <2>3, <2>5
<1>8. CASE Reharvest
  <2>1. Hears /\ next.at = "wait" /\ h.at = "reharvest"
    BY <1>1, <1>2, <1>3, <1>8, ReharvestPasses
  <2>2. next.findings = h.findings /\ UNCHANGED <<out_rx, env_diags, published_env_files>>
    BY <1>1, <1>2, <1>3, <1>8 DEF Reharvest, HarvesterRecord, mainVars
  <2>3. FindingsPass(next)'
    BY <1>3, <2>1, <2>2 DEF FindingsPass
  <2>4. h.at \in Reports
    BY <2>1 DEF Reports
  <2>5. ToldInv'
    BY <1>1, <1>3, <2>1, <2>2, <2>4, ToldKept DEF Hears
  <2> QED
    BY <1>2, <2>3, <2>5
<1> QED
  BY <1>4, <1>5, <1>6, <1>7, <1>8 DEF Harvester

LEMMA FindStep == Types /\ FindInv /\ [Next]_vars => FindInv'
<1> SUFFICES ASSUME Types, FindInv, [Next]_vars PROVE FindInv'
  OBVIOUS
<1>1. QueueOK' /\ PassInv(harvester)' /\ ShownInv'
  BY PassesStep, ShownStep DEF FindInv
<1>2. CASE Client \/ Watcher \/ Relint \/ AnalysisThread \/ UNCHANGED vars
  BY <1>1, <1>2, OthersTold DEF FindInv
<1>3. CASE Harvester
  BY <1>1, <1>3, HarvesterTold DEF FindInv
<1>4. CASE TakeFindings
  <2>1. ToldInv'
    BY <1>4, TakeTold DEF FindInv
  <2>2. UNCHANGED <<harvester, disk, unreported, harvest_rx, unresolved>>
    BY <1>4 DEF TakeFindings, clientVars
  <2>3. Hears
    BY <2>2, NothingHeard, SignalsKept
  <2>4. PICK h : h = harvester
    OBVIOUS
  <2>5. FindingsPass(h)' /\ h = harvester'
    BY <2>2, <2>3, <2>4, FindingsPassHeard DEF FindInv, Types
  <2> QED
    BY <1>1, <2>1, <2>5 DEF FindInv
<1> QED
  BY <1>2, <1>3, <1>4 DEF Next

LEMMA FoundAtRest ==
    ASSUME FindInv
    PROVE  FindingsCurrentWhenQuiet
<1>1. PICK rx : rx = out_rx
  OBVIOUS
<1>2. rx \in Seq(Finding)
  BY <1>1 DEF FindInv, ToldInv
<1>3. ASSUME NEW f \in EnvFiles
      PROVE  \E g : ToldOf(f, g) /\ Hearing(rx, Kept(f), f, g)
  BY <1>1 DEF FindInv, ToldInv, ToldOf
<1>4. ClearsTakeBack
  <2> SUFFICES ASSUME NEW i \in DOMAIN rx, rx[i].diags = {}
               PROVE  LET before == {j \in 1 .. i - 1 : rx[j].file = rx[i].file}
                          last == CHOOSE j \in before : \A k \in before : k <= j
                      IN  IF before = {} THEN env_diags[rx[i].file] # None
                          ELSE rx[last].diags # {}
    BY <1>1 DEF ClearsTakeBack
  <2> DEFINE before == {j \in 1 .. i - 1 : rx[j].file = rx[i].file}
             last == CHOOSE j \in before : \A k \in before : k <= j
  <2>1. PICK f : f = rx[i].file
    OBVIOUS
  <2>2. f \in EnvFiles /\ i \in 1..Len(rx) /\ Len(rx) \in Nat
    <3> DEFINE S == Finding
    <3>1. rx \in Seq(S)
      BY <1>2
    <3> HIDE DEF S
    <3>2. Len(rx) \in Nat /\ i \in 1..Len(rx) /\ rx[i] \in S
      BY <3>1
    <3>3. rx[i] \in [file : EnvFiles, diags : SUBSET Tags]
      BY <3>2 DEF S, Finding
    <3> QED
      BY <2>1, <3>2, <3>3
  <2>3. PICK g : Hearing(rx, Kept(f), f, g)
    BY <1>3, <2>2
  <2>4. PICK d : d = g[i - 1]
    OBVIOUS
  <2>5. d # {} /\ Said(rx, Kept(f), i - 1, f, d)
    <3>1. i - 1 \in 0..Len(rx)
      BY <2>2
    <3> QED
      BY <2>1, <2>2, <2>3, <2>4, <3>1 DEF Hearing
  <2>6. CASE (\A j \in 1..(i - 1) : rx[j].file # f) /\ d = Kept(f)
    <3>1. before = {} /\ env_diags[f] # None
      BY <2>1, <2>5, <2>6 DEF Kept
    <3> QED
      BY <2>1, <3>1
  <2>7. CASE \E j \in 1..(i - 1) : /\ rx[j].file = f /\ rx[j].diags = d
                                   /\ \A k \in 1..(i - 1) : j < k => rx[k].file # f
    <3>1. PICK j \in 1..(i - 1) : /\ rx[j].file = f /\ rx[j].diags = d
                                  /\ \A k \in 1..(i - 1) : j < k => rx[k].file # f
      BY <2>7
    <3>2. j \in before /\ \A k \in before : k <= j
      <4>1. j \in before
        BY <2>1, <3>1
      <4>2. ASSUME NEW k \in before PROVE k <= j
        <5>1. k \in 1..(i - 1) /\ ~(j < k) /\ k \in Int /\ j \in Int
          BY <2>1, <3>1
        <5> QED
          BY <5>1
      <4> QED
        BY <4>1, <4>2
    <3>3. \A k \in before : k \in Int
      OBVIOUS
    <3> HIDE DEF before
    <3>4. last \in before /\ \A k \in before : k <= last
      BY <3>2
    <3> HIDE DEF last
    <3>5. last = j
      <4>1. last <= j /\ j <= last /\ last \in Int /\ j \in Int
        BY <3>2, <3>3, <3>4
      <4> QED
        BY <4>1
    <3>6. before # {} /\ rx[last].diags # {}
      BY <2>5, <3>1, <3>2, <3>5
    <3> QED
      BY <3>6 DEF before, last
  <2> QED
    BY <2>5, <2>6, <2>7 DEF Said
<1>5. ASSUME Quiet, unresolved = {}, NEW f \in EnvFiles
      PROVE  shown[f] = IF documents[f] = Broken THEN SyntaxFindings(documents[f])
                        ELSE FreshFindings(f)
  <2>1. /\ unreported = {} /\ harvest_rx = <<>> /\ rx = <<>> /\ harvester.at = "wait"
    BY <1>1, <1>5 DEF Quiet, At
  <2>2. DOMAIN harvest_rx = {} /\ Len(rx) = 0
    BY <2>1
  <2>3. Settled
    BY <1>5, <2>1, <2>2 DEF Settled, EnvPending
  <2>4. PICK g : ToldOf(f, g)
    BY <1>3
  <2>5. g[0] = FreshFindings(f)
    BY <1>1, <2>1, <2>2, <2>3, <2>4 DEF ToldOf, Reports
  <2>6. Said(rx, Kept(f), 0, f, g[0])
    BY <1>1, <2>2, <2>4 DEF ToldOf, Hearing
  <2>7. g[0] = Kept(f)
    BY <2>6 DEF Said
  <2>8. shown[f] = Merged(buffer_diags, env_diags, f)
    BY DEF FindInv, ShownInv
  <2>9. buffer_diags[f] = IF documents[f] = Broken THEN SyntaxFindings(Broken) ELSE None
    BY DEF FindInv, ShownInv
  <2>10. SyntaxFindings(Broken) # None
    BY NoneIsNoFinding, FindingsTyped
  <2> QED
    BY <2>5, <2>7, <2>8, <2>9, <2>10 DEF Merged, Kept
<1> QED
  BY <1>4, <1>5 DEF FindingsCurrentWhenQuiet

(* Once every signal is served the client sees of each environment file     *)
(* what a resolve of the files as they are finds, or what its own buffer    *)
(* says, and nothing was ever taken back that was not there: for any        *)
(* number of folders, files and steps of the client (publish_merged).       *)
THEOREM FindingsAreCurrent ==
    ASSUME WritesAreReported
    PROVE  Spec => []FindingsCurrentWhenQuiet
<1>1. Init => FindInv
  <2>1. Init => WritesReported
    BY DEF Init, WritesAreReported, WritesReported
  <2> QED
    BY <2>1, FindInit
<1>2. Types /\ FindInv /\ [Next]_vars => FindInv'
  BY FindStep
<1>3. FindInv => FindingsCurrentWhenQuiet
  BY FoundAtRest
<1> QED
  BY <1>1, <1>2, <1>3, TypesInvariant, PTL DEF Spec
=============================================================================
