------------------------------ MODULE ListSync ------------------------------
(***************************************************************************)
(* Category blocklists on the agent: the list half of SyncOnce, around and *)
(* inside ListArtifactStore.SyncAsync.                                     *)
(*                                                                         *)
(* A policy document names the list version to run.  Before saving it the  *)
(* agent installs that version, one file per category, each verified and   *)
(* moved over its predecessor, and then stamps lists/.version.  A list     *)
(* fault is logged and the policy saved all the same; a download that      *)
(* times out is a cancellation, which abandons the whole sync.             *)
(***************************************************************************)
EXTENDS Integers, FiniteSets

CONSTANTS
    Categories,  \* filter categories, one artifact file each
    Manifest,    \* list version -> categories its signed manifest names
    NoPolicy,    \* the agent holds no policy
    Torn,        \* lists/.version is empty: opened for writing, not yet written
    MaxLists,    \* bound: list versions published (0 is "bootstrap")
    MaxPolicy    \* bound: policy versions explored

ASSUME ListAssumption ==
    /\ MaxLists \in Nat /\ MaxPolicy \in Nat
    /\ Manifest \in [1..MaxLists -> SUBSET Categories]
    /\ Torn \notin Int

Doc == [version : Nat, lists : 0..MaxLists]

ASSUME NoPolicyAssumption == NoPolicy \notin Doc

VARIABLES
    latest,      \* version in R2 lists/latest.json
    policy,      \* policy_version in D1
    file,        \* Categories -> version of the installed file, 0 if there is none
    stamp,       \* lists/.version, 0 if there is none
    disk,        \* policy.json
    mem, loaded, \* AgentState: the policy, and the lists it evaluates with
    sync         \* SyncOnce: where it is, the document answered, files to install

cloud == <<latest, policy>>
state == <<mem, loaded>>
vars  == <<cloud, file, stamp, disk, state, sync>>

Idle == [pc |-> "idle", doc |-> NoPolicy, left |-> {}]

Goto(pc) == sync' = [sync EXCEPT !.pc = pc]

-----------------------------------------------------------------------------
\* The versions are UTC time stamps, so a later one is greater; all artifacts
\* of a version are uploaded before latest.json names it.
PublishLists ==
    /\ latest < MaxLists
    /\ latest' = latest + 1
    /\ UNCHANGED <<policy, file, stamp, disk, state, sync>>

ChangePolicy ==
    /\ policy < MaxPolicy
    /\ policy' = policy + 1
    /\ UNCHANGED <<latest, file, stamp, disk, state, sync>>

\* Mutant of Request: lists are installed for "bootstrap" as well.
RequestBootstrap ==
    LET doc == [version |-> policy, lists |-> latest] IN
    /\ sync.pc = "idle"
    /\ mem # doc
    /\ sync' = [pc |-> IF latest = stamp /\ stamp # 0 THEN "save" ELSE "manifest",
                doc |-> doc, left |-> {}]
    /\ UNCHANGED <<cloud, file, stamp, disk, state>>

\* GET /sync answers 304 to an agent that has both versions; otherwise the
\* answer's list version is installed first, unless it is none or already here.
Request ==
    LET doc == [version |-> policy, lists |-> latest] IN
    /\ sync.pc = "idle"
    /\ mem # doc
    /\ sync' = [pc |-> IF latest \in {0, stamp} THEN "save" ELSE "manifest",
                doc |-> doc, left |-> {}]
    /\ UNCHANGED <<cloud, file, stamp, disk, state>>

\* Mutant of ReadManifest: its version is not compared with the expected one.
ReadAnyManifest ==
    /\ sync.pc = "manifest"
    /\ sync' = [sync EXCEPT !.pc = "install", !.left = Manifest[latest]]
    /\ UNCHANGED <<cloud, file, stamp, disk, state>>

\* The manifest in lists/latest.json is used only if it is the expected one.
ReadManifest ==
    /\ sync.pc = "manifest"
    /\ sync' = IF latest = sync.doc.lists
               THEN [sync EXCEPT !.pc = "install", !.left = Manifest[latest]]
               ELSE [sync EXCEPT !.pc = "save"]
    /\ UNCHANGED <<cloud, file, stamp, disk, state>>

\* One artifact is downloaded, its hash compared, and moved into place.
InstallFile(c) ==
    /\ sync.pc = "install"
    /\ c \in sync.left
    /\ file' = [file EXCEPT ![c] = sync.doc.lists]
    /\ sync' = [sync EXCEPT !.left = sync.left \ {c}]
    /\ UNCHANGED <<cloud, stamp, disk, state>>

\* Mutant of OpenStamp: .version is written before every file is in place.
OpenStampEarly ==
    /\ sync.pc = "install"
    /\ stamp' = Torn
    /\ Goto("stamp")
    /\ UNCHANGED <<cloud, file, disk, state>>

\* WriteAllTextAsync truncates .version, then fills it.
OpenStamp ==
    /\ sync.pc = "install"
    /\ sync.left = {}
    /\ stamp' = Torn
    /\ Goto("stamp")
    /\ UNCHANGED <<cloud, file, disk, state>>

WriteStamp ==
    /\ sync.pc = "stamp"
    /\ stamp' = sync.doc.lists
    /\ Goto("save")
    /\ UNCHANGED <<cloud, file, disk, state>>

InList == sync.pc \in {"manifest", "install", "stamp"}

\* Mutant of ListFault: the fault ends the sync, as it once did.
ListFaultEndsSync ==
    /\ InList
    /\ sync' = Idle
    /\ UNCHANGED <<cloud, file, stamp, disk, state>>

\* A bad signature or hash, an error status, an I/O error: caught, logged, and
\* the policy is saved nevertheless.
ListFault ==
    /\ InList
    /\ Goto("save")
    /\ UNCHANGED <<cloud, file, stamp, disk, state>>

\* HttpClient reports a timeout as TaskCanceledException, which the filter of
\* the inner catch lets through to the end of SyncOnce.
ListTimeout ==
    /\ sync.pc \in {"manifest", "install"}
    /\ sync' = Idle
    /\ UNCHANGED <<cloud, file, stamp, disk, state>>

\* PolicyStore.Save
SavePolicy ==
    /\ sync.pc = "save"
    /\ disk' = sync.doc
    /\ Goto("update")
    /\ UNCHANGED <<cloud, file, stamp, state>>

\* LoadLists and AgentState.Update
UpdateState ==
    /\ sync.pc = "update"
    /\ mem' = sync.doc
    /\ loaded' = file
    /\ sync' = Idle
    /\ UNCHANGED <<cloud, file, stamp, disk>>

\* Save or LoadLists throws: the backstop of SyncOnce ends this attempt.
SaveFails ==
    /\ sync.pc \in {"save", "update"}
    /\ sync' = Idle
    /\ UNCHANGED <<cloud, file, stamp, disk, state>>

\* Mutant of Restart: the cached policy is loaded without the cached lists.
RestartWithoutLists ==
    /\ mem' = disk
    /\ loaded' = [c \in Categories |-> 0]
    /\ sync' = Idle
    /\ UNCHANGED <<cloud, file, stamp, disk>>

\* The service stops at any step and starts from what is on disk.
Restart ==
    /\ mem' = disk
    /\ loaded' = IF disk = NoPolicy THEN loaded ELSE file
    /\ sync' = Idle
    /\ UNCHANGED <<cloud, file, stamp, disk>>

-----------------------------------------------------------------------------
Init ==
    /\ latest = 0
    /\ policy = 1
    /\ file = [c \in Categories |-> 0]
    /\ stamp = 0
    /\ disk = NoPolicy
    /\ mem = NoPolicy
    /\ loaded = file
    /\ sync = Idle

InstallOrFault ==
    \/ ReadManifest
    \/ \E c \in Categories : InstallFile(c)
    \/ OpenStamp
    \/ WriteStamp
    \/ ListFault

ListStep == InstallOrFault \/ ListTimeout

Next ==
    \/ PublishLists
    \/ ChangePolicy
    \/ Request
    \/ ListStep
    \/ SavePolicy
    \/ UpdateState
    \/ SaveFails
    \/ Restart

Spec == Init /\ [][Next]_vars

At(pc, n) == sync.pc = pc /\ Cardinality(sync.left) = n

\* RunSync tries every minute and an exchange goes on until it ends; faults and
\* restarts may interrupt any number of attempts, not all of them.
Retries ==
    /\ SF_vars(Request)
    /\ SF_vars(At("stamp", 0) /\ ListStep)
    /\ SF_vars(SavePolicy)
    /\ SF_vars(UpdateState)

\* The service lives long enough for a download to end (assumed per number of
\* files left): installed, failed or timed out ...
DownloadsEnd ==
    /\ SF_vars(At("manifest", 0) /\ ListStep)
    /\ \A n \in 0..Cardinality(Categories) : SF_vars(At("install", n) /\ ListStep)

\* ... or, of some of them, in time: installed or failed, perhaps failed always.
DownloadsEndInTime ==
    /\ SF_vars(At("manifest", 0) /\ InstallOrFault)
    /\ \A n \in 0..Cardinality(Categories) : SF_vars(At("install", n) /\ InstallOrFault)

FairSpec   == Spec /\ Retries /\ DownloadsEnd
SpecInTime == Spec /\ Retries /\ DownloadsEndInTime

-----------------------------------------------------------------------------
TypeOK ==
    /\ latest \in 0..MaxLists
    /\ policy \in Nat
    /\ file \in [Categories -> 0..MaxLists]
    /\ stamp \in 0..MaxLists \cup {Torn}
    /\ disk \in Doc \cup {NoPolicy}
    /\ mem \in Doc \cup {NoPolicy}
    /\ loaded \in [Categories -> 0..MaxLists]
    /\ sync \in [pc : {"idle", "manifest", "install", "stamp", "save", "update"},
                 doc : Doc \cup {NoPolicy}, left : SUBSET Categories]
    /\ sync.pc # "idle" => sync.doc # NoPolicy
    /\ sync.pc \in {"manifest", "install", "stamp"} => sync.doc.lists > 0

\* The early return of SyncAsync is safe: when .version equals the list version
\* a policy asks for, every file of that version is installed, whatever crashes
\* and half-finished installs came before.
StampIsTrue ==
    stamp = latest /\ latest > 0 => \A c \in Manifest[latest] : file[c] = latest

\* The inductive form of it: a stamped version's files are that version or a
\* later, unfinished one; nothing installed is ahead of what is published.
StampInv ==
    /\ \A c \in Categories : file[c] <= latest
    /\ stamp # Torn => stamp <= latest
    /\ stamp \notin {0, Torn} => \A c \in Manifest[stamp] : file[c] >= stamp
    /\ InList =>
          /\ 0 < sync.doc.lists /\ sync.doc.lists <= latest
          /\ stamp # Torn => stamp < sync.doc.lists
          /\ \A c \in Categories : file[c] <= sync.doc.lists
    /\ sync.pc \in {"install", "stamp"} =>
          \A c \in Manifest[sync.doc.lists] \ sync.left : file[c] = sync.doc.lists
    /\ sync.pc = "stamp" => sync.left = {}

\* Neither the installed files nor the lists in memory ever go back to an
\* older version, through any number of faults, timeouts and restarts.
ListsNeverOlder ==
    [][\A c \in Categories : file'[c] >= file[c] /\ loaded'[c] >= loaded[c]]_vars

Relayed == INSTANCE Relay WITH
    Items  <- Categories,
    source <- [c \in Categories |-> latest],
    stored <- file,
    loaded <- loaded

\* Whatever faults, timeouts, half-finished installations and restarts there are,
\* the lists go from R2 to the files, one by one, and from the files to memory,
\* all at once, and never back (ListArtifactStore.SyncAsync, LoadLists, Restart).
ImplementsRelay == Relayed!RelaySpec

\* ProtectionWorker.cs: "Blocklist problems must never cost us the device".  A
\* parent's change reaches the agent whatever list downloads come to.  (True if
\* some of them end in time, SpecInTime; not of FairSpec.)
PolicyReachesAgent == <>[](mem # NoPolicy /\ mem.version = policy)

=============================================================================
