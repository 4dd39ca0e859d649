--------------------------- MODULE ListSyncProofs ---------------------------
(***************************************************************************)
(* Proofs about ListSync, for any categories, any sequence of manifests    *)
(* and any number of published versions.                                   *)
(***************************************************************************)
EXTENDS ListSync, TLAPS

USE DEF cloud, state, vars, Idle, Goto, InList

\* Type correctness of the list sync: the document being installed exists in
\* every phase that uses it, and lists are installed only for a real version.
THEOREM TypeCorrect == Spec => []TypeOK
<1>1. Init => TypeOK
  BY ListAssumption DEF Init, TypeOK
<1>2. TypeOK /\ [Next]_vars => TypeOK'
  <2> SUFFICES ASSUME TypeOK, [Next]_vars PROVE TypeOK'
    OBVIOUS
  <2> USE ListAssumption DEF TypeOK
  <2>1. CASE PublishLists
    BY <2>1 DEF PublishLists
  <2>2. CASE ChangePolicy
    BY <2>2 DEF ChangePolicy
  <2>3. CASE Request
    <3>1. [version |-> policy, lists |-> latest] \in Doc
      BY DEF Doc
    <3>2. QED
      BY <2>3, <3>1, NoPolicyAssumption DEF Request
  <2>4. CASE ReadManifest
    <3>1. sync.doc \in Doc
      BY <2>4 DEF ReadManifest
    <3>2. latest = sync.doc.lists => Manifest[latest] \in SUBSET Categories
      BY <2>4, <3>1 DEF ReadManifest, Doc
    <3>3. QED
      BY <2>4, <3>1, <3>2 DEF ReadManifest
  <2>5. ASSUME NEW c \in Categories, InstallFile(c) PROVE TypeOK'
    BY <2>5 DEF InstallFile, Doc
  <2>6. CASE OpenStamp
    BY <2>6 DEF OpenStamp
  <2>7. CASE WriteStamp
    BY <2>7 DEF WriteStamp, Doc
  <2>8. CASE ListFault
    BY <2>8 DEF ListFault
  <2>9. CASE ListTimeout
    BY <2>9 DEF ListTimeout
  <2>10. CASE SavePolicy
    BY <2>10 DEF SavePolicy
  <2>11. CASE UpdateState
    BY <2>11 DEF UpdateState
  <2>12. CASE SaveFails
    BY <2>12 DEF SaveFails
  <2>13. CASE Restart
    BY <2>13 DEF Restart
  <2>14. CASE UNCHANGED vars
    BY <2>14
  <2>15. QED
    BY <2>1, <2>2, <2>3, <2>4, <2>5, <2>6, <2>7, <2>8, <2>9, <2>10, <2>11, <2>12,
       <2>13, <2>14 DEF Next, ListStep, InstallOrFault
<1>3. QED
  BY <1>1, <1>2, PTL DEF Spec

-----------------------------------------------------------------------------
\* StampInv together with: what is in memory was read from the files.
ListInv == StampInv /\ \A c \in Categories : loaded[c] <= file[c]

\* One step keeps the inductive invariant.
LEMMA ListInvStep ==
    ASSUME TypeOK, TypeOK', ListInv, [Next]_vars
    PROVE  ListInv'
<1> USE ListAssumption DEF TypeOK, StampInv, ListInv
<1>1. CASE PublishLists
  BY <1>1 DEF PublishLists, Doc
<1>2. CASE ChangePolicy
  BY <1>2 DEF ChangePolicy
<1>3. CASE Request
  <2>1. sync'.doc.lists = latest /\ sync'.pc \in {"save", "manifest"}
    BY <1>3 DEF Request
  <2>2. sync'.pc = "manifest" => 0 < latest /\ latest # stamp
    BY <1>3 DEF Request
  <2>3. QED
    BY <1>3, <2>1, <2>2 DEF Request
<1>4. CASE ReadManifest
  <2>1. sync'.doc = sync.doc /\ sync'.pc \in {"install", "save"}
    BY <1>4 DEF ReadManifest
  <2>2. sync'.pc = "install" => sync'.left = Manifest[sync.doc.lists]
    BY <1>4 DEF ReadManifest
  <2>3. QED
    BY <1>4, <2>1, <2>2 DEF ReadManifest
<1>5. ASSUME NEW c \in Categories, InstallFile(c) PROVE ListInv'
  <2>1. /\ sync'.doc = sync.doc /\ sync'.pc = "install" /\ sync.pc = "install"
        /\ sync'.left = sync.left \ {c}
    BY <1>5 DEF InstallFile
  <2>2. file' = [file EXCEPT ![c] = sync.doc.lists]
    BY <1>5 DEF InstallFile
  <2>3. \A d \in Categories : file'[d] >= file[d] /\ file'[d] <= sync.doc.lists
    BY <2>1, <2>2, <1>5 DEF InstallFile, Doc
  <2>4. UNCHANGED <<latest, stamp, loaded>>
    BY <1>5 DEF InstallFile
  <2>5. \A d \in Manifest[sync.doc.lists] \ sync'.left : file'[d] = sync.doc.lists
    BY <2>1, <2>2, <1>5 DEF Doc
  <2>6. stamp \notin {0, Torn} => \A d \in Manifest[stamp] : file'[d] >= stamp
    <3> SUFFICES ASSUME stamp \in 1..MaxLists, NEW d \in Manifest[stamp]
                 PROVE  file'[d] >= stamp
      OBVIOUS
    <3>1. d \in Categories
      OBVIOUS
    <3>2. file[d] >= stamp
      OBVIOUS
    <3>3. QED
      BY <3>1, <3>2, <2>3 DEF Doc
  <2>7. \A d \in Categories : loaded'[d] <= file'[d]
    <3> SUFFICES ASSUME NEW d \in Categories PROVE loaded[d] <= file'[d]
      BY <2>4
    <3>1. loaded[d] <= file[d] /\ file[d] <= file'[d]
      BY <2>3
    <3>2. loaded[d] \in Int /\ file[d] \in Int /\ file'[d] \in Int
      OBVIOUS
    <3>3. QED
      BY <3>1, <3>2
  <2>8. \A d \in Categories : file'[d] <= latest
    <3> SUFFICES ASSUME NEW d \in Categories PROVE file'[d] <= latest
      OBVIOUS
    <3>1. file'[d] <= sync.doc.lists /\ sync.doc.lists <= latest
      BY <2>1, <2>3
    <3>2. file'[d] \in Int /\ sync.doc.lists \in Int
      BY <2>1 DEF Doc
    <3>3. QED
      BY <3>1, <3>2
  <2>9. StampInv'
    BY <2>1, <2>3, <2>4, <2>5, <2>6, <2>8
  <2>10. QED
    BY <2>7, <2>9
<1>6. CASE OpenStamp
  BY <1>6 DEF OpenStamp
<1>7. CASE WriteStamp
  <2>1. sync'.pc = "save" /\ stamp' = sync.doc.lists /\ stamp' \in 1..MaxLists
    BY <1>7 DEF WriteStamp, Doc
  <2>2. UNCHANGED <<latest, file, loaded>> /\ sync.pc = "stamp"
    BY <1>7 DEF WriteStamp
  <2>3. \A c \in Manifest[sync.doc.lists] : file[c] = sync.doc.lists
    BY <2>2
  <2>4. QED
    BY <2>1, <2>2, <2>3
<1>8. CASE ListFault
  BY <1>8 DEF ListFault
<1>9. CASE ListTimeout
  BY <1>9 DEF ListTimeout
<1>10. CASE SavePolicy
  BY <1>10 DEF SavePolicy
<1>11. CASE UpdateState
  BY <1>11 DEF UpdateState
<1>12. CASE SaveFails
  BY <1>12 DEF SaveFails
<1>13. CASE Restart
  BY <1>13 DEF Restart
<1>14. CASE UNCHANGED vars
  BY <1>14
<1>15. QED
  BY <1>1, <1>2, <1>3, <1>4, <1>5, <1>6, <1>7, <1>8, <1>9, <1>10, <1>11, <1>12,
     <1>13, <1>14 DEF Next, ListStep, InstallOrFault

\* The strengthened invariant holds: what Restart and UpdateState load is bounded
\* by the files, and the files by what is published.
THEOREM ListInvariant == Spec => []ListInv
<1>1. Init => ListInv
  BY DEF Init, ListInv, StampInv
<1>2. TypeOK /\ TypeOK' /\ ListInv /\ [Next]_vars => ListInv'
  BY ListInvStep
<1>3. QED
  BY <1>1, <1>2, TypeCorrect, PTL DEF Spec

\* A stamped version is never ahead of what is installed, and nothing installed
\* is ahead of what ListArtifactStore.SyncAsync was asked for or R2 published.
THEOREM StampInvariant == Spec => []StampInv
<1>1. ListInv => StampInv
  BY DEF ListInv
<1>2. QED
  BY <1>1, ListInvariant, PTL

\* The property the early return of ListArtifactStore.SyncAsync relies on.
THEOREM StampTellsTheTruth == Spec => []StampIsTrue
<1>1. TypeOK /\ ListInv => StampIsTrue
  BY ListAssumption DEF TypeOK, ListInv, StampInv, StampIsTrue
<1>2. QED
  BY <1>1, TypeCorrect, ListInvariant, PTL

\* No step takes an installed file or a list in memory back to an older version.
THEOREM ListsOnlyAdvance == Spec => ListsNeverOlder
<1>1. TypeOK /\ ListInv /\ [Next]_vars
        => [\A c \in Categories : file'[c] >= file[c] /\ loaded'[c] >= loaded[c]]_vars
  <2> SUFFICES ASSUME TypeOK, ListInv, Next, NEW c \in Categories
               PROVE  file'[c] >= file[c] /\ loaded'[c] >= loaded[c]
    OBVIOUS
  <2> USE DEF TypeOK, ListInv, StampInv
  <2>1. \/ UNCHANGED <<file, loaded>>
        \/ UNCHANGED file /\ loaded' = file
        \/ \E d \in Categories : InstallFile(d)
    BY DEF Next, ListStep, InstallOrFault, PublishLists, ChangePolicy, Request, ReadManifest, OpenStamp,
       WriteStamp, ListFault, ListTimeout, SavePolicy, UpdateState, SaveFails, Restart
  <2>2. ASSUME NEW d \in Categories, InstallFile(d)
        PROVE  file'[c] >= file[c] /\ loaded'[c] >= loaded[c]
    BY <2>2 DEF InstallFile, Doc
  <2>3. QED
    BY <2>1, <2>2
<1>2. QED
  BY <1>1, TypeCorrect, ListInvariant, PTL DEF Spec, ListsNeverOlder

-----------------------------------------------------------------------------
\* One step of the list sync is a step of the relay, or invisible to it.
LEMMA RelayStep ==
    ASSUME TypeOK, ListInv, [Next]_vars
    PROVE  [Relayed!RelayNext]_(Relayed!relayVars)
<1> USE ListAssumption DEF TypeOK
<1>1. ASSUME UNCHANGED <<latest, file, loaded>> PROVE UNCHANGED Relayed!relayVars
  BY <1>1 DEF Relayed!relayVars
<1>2. ASSUME PublishLists PROVE Relayed!Publish
  <2>1. latest' \in Nat /\ latest <= latest' /\ UNCHANGED <<file, loaded>>
    BY <1>2 DEF PublishLists
  <2> QED BY <2>1 DEF Relayed!Publish, Relayed!UpTo
<1>3. ASSUME NEW c \in Categories, InstallFile(c) PROVE Relayed!Save
  <2>1. /\ sync.pc = "install" /\ file' = [file EXCEPT ![c] = sync.doc.lists]
        /\ UNCHANGED <<latest, loaded>>
    BY <1>3 DEF InstallFile
  <2>2. /\ sync.doc.lists \in Nat /\ sync.doc.lists <= latest
        /\ \A x \in Categories : file[x] <= sync.doc.lists
    BY <2>1 DEF ListInv, StampInv, Doc
  <2>3. file' \in [Categories -> Nat]
    BY <2>1, <2>2
  <2>4. \A x \in Categories : file[x] <= file'[x] /\ file'[x] <= latest
    BY <2>1, <2>2 DEF ListInv, StampInv
  <2> QED BY <2>1, <2>3, <2>4 DEF Relayed!Save, Relayed!UpTo
<1>4. ASSUME UpdateState PROVE Relayed!Load
  BY <1>4 DEF UpdateState, Relayed!Load
<1>5. ASSUME Restart PROVE Relayed!Load \/ UNCHANGED Relayed!relayVars
  BY <1>1, <1>5 DEF Restart, Relayed!Load
<1>6. ASSUME \/ ChangePolicy \/ Request \/ ReadManifest \/ OpenStamp \/ WriteStamp
             \/ ListFault \/ ListTimeout \/ SavePolicy \/ SaveFails \/ UNCHANGED vars
      PROVE  UNCHANGED Relayed!relayVars
  BY <1>1, <1>6
  DEF ChangePolicy, Request, ReadManifest, OpenStamp, WriteStamp, ListFault, ListTimeout,
      SavePolicy, SaveFails
<1> QED
  BY <1>2, <1>3, <1>4, <1>5, <1>6 DEF Next, ListStep, InstallOrFault, Relayed!RelayNext

\* The list half of a sync implements the relay too, for any manifests and
\* categories: files are replaced one by one, memory all at once, neither ever by
\* anything older.
THEOREM ListsRelay == Spec => ImplementsRelay
<1>1. Init => Relayed!RelayInit
  BY DEF Init, Relayed!RelayInit
<1>2. TypeOK /\ ListInv /\ [Next]_vars => [Relayed!RelayNext]_(Relayed!relayVars)
  BY RelayStep
<1>3. QED
  BY <1>1, <1>2, TypeCorrect, ListInvariant, PTL DEF Spec, ImplementsRelay, Relayed!RelaySpec

-----------------------------------------------------------------------------
\* A sync goes on to save its policy without having stamped the policy's lists:
\* a list fault, or a manifest that is already of another version.
InstallMissed == InList /\ sync'.pc = "save" /\ stamp' # sync.doc.lists

\* Files or loaded lists f are at least as new as a policy document d names them.
Provided(d, f) ==
    d # NoPolicy /\ d.lists # 0 => \A c \in Manifest[d.lists] : f[c] >= d.lists

ListsProvided == Provided(mem, loaded)

\* The policies on their way and on disk have their files as well.
ProvidedInv ==
    /\ sync.pc \in {"save", "update"} => Provided(sync.doc, file)
    /\ Provided(disk, file)
    /\ ListsProvided

LEMMA ProvidedLater ==
    ASSUME NEW d \in Doc \cup {NoPolicy}, NEW f \in [Categories -> 0..MaxLists],
           NEW g \in [Categories -> 0..MaxLists], \A c \in Categories : g[c] >= f[c],
           Provided(d, f)
    PROVE  Provided(d, g)
<1> SUFFICES ASSUME d # NoPolicy, d.lists # 0, NEW c \in Manifest[d.lists]
             PROVE  g[c] >= d.lists
  BY DEF Provided
<1>1. d.lists \in 1..MaxLists
  BY ListAssumption DEF Doc
<1>2. c \in Categories /\ f[c] >= d.lists
  BY <1>1, ListAssumption DEF Provided
<1>3. f[c] \in Nat /\ g[c] \in Nat /\ d.lists \in Nat /\ g[c] >= f[c]
  BY <1>1, <1>2, ListAssumption
<1> QED
  BY <1>2, <1>3

LEMMA ProvidedStep ==
    ASSUME TypeOK, TypeOK', ListInv, ProvidedInv, [Next /\ ~InstallMissed]_vars,
           \A c \in Categories : file'[c] >= file[c] /\ loaded'[c] >= loaded[c]
    PROVE  ProvidedInv'
<1> USE ListAssumption
<1>1. /\ disk \in Doc \cup {NoPolicy} /\ mem \in Doc \cup {NoPolicy}
      /\ sync.doc \in Doc \cup {NoPolicy}
      /\ file \in [Categories -> 0..MaxLists] /\ file' \in [Categories -> 0..MaxLists]
      /\ loaded \in [Categories -> 0..MaxLists] /\ loaded' \in [Categories -> 0..MaxLists]
  BY DEF TypeOK
<1>2. Provided(disk, file')
  BY <1>1, ProvidedLater DEF ProvidedInv
<1>3. Provided(mem, loaded')
  BY <1>1, ProvidedLater DEF ProvidedInv, ListsProvided
<1>4. sync.pc \in {"save", "update"} => Provided(sync.doc, file')
  BY <1>1, ProvidedLater DEF ProvidedInv
<1>5. CASE UNCHANGED vars
  BY <1>5 DEF vars, cloud, state, ProvidedInv, ListsProvided
<1>6. ASSUME UNCHANGED <<disk, mem>>, sync'.pc \notin {"save", "update"}
      PROVE  ProvidedInv'
  BY <1>2, <1>3, <1>6 DEF ProvidedInv, ListsProvided
<1>7. ASSUME UNCHANGED <<disk, mem, sync>>
      PROVE  ProvidedInv'
  BY <1>2, <1>3, <1>4, <1>7 DEF ProvidedInv, ListsProvided
<1>8. ASSUME UNCHANGED <<disk, mem>>, Provided(sync'.doc, file')
      PROVE  ProvidedInv'
  BY <1>2, <1>3, <1>8 DEF ProvidedInv, ListsProvided
<1>9. CASE PublishLists \/ ChangePolicy
  BY <1>7, <1>9 DEF PublishLists, ChangePolicy, state
<1>10. CASE Request
  <2>1. UNCHANGED <<disk, mem, file>> /\ sync' = [pc |-> sync'.pc, doc |-> sync'.doc, left |-> {}]
        /\ sync'.doc = [version |-> policy, lists |-> latest]
    BY <1>10 DEF Request, state
  <2>2. CASE latest \in {0, stamp}
    <3>1. latest # 0 => \A c \in Manifest[latest] : file[c] >= latest
      BY <2>2 DEF TypeOK, ListInv, StampInv
    <3>2. Provided(sync'.doc, file')
      BY <2>1, <3>1 DEF Provided
    <3> QED
      BY <1>8, <2>1, <3>2
  <2>3. CASE latest \notin {0, stamp}
    <3>1. sync'.pc = "manifest"
      BY <1>10, <2>3 DEF Request
    <3> QED
      BY <1>6, <2>1, <3>1
  <2> QED
    BY <2>2, <2>3
<1>11. CASE WriteStamp
  <2>1. UNCHANGED <<disk, mem, file>> /\ sync'.doc = sync.doc /\ sync.pc = "stamp"
    BY <1>11 DEF WriteStamp, Goto, state, TypeOK
  <2>2. \A c \in Manifest[sync.doc.lists] : file[c] = sync.doc.lists
    BY <2>1 DEF ListInv, StampInv
  <2>3. sync.doc.lists \in 1..MaxLists
    BY <2>1 DEF TypeOK, Doc
  <2>4. Manifest[sync.doc.lists] \subseteq Categories
    BY <2>3
  <2>5. \A c \in Manifest[sync.doc.lists] : file[c] >= sync.doc.lists
    BY <2>2, <2>3
  <2>6. Provided(sync'.doc, file')
    BY <2>1, <2>5 DEF Provided
  <2> QED
    BY <1>8, <2>1, <2>6
<1>12. CASE (ReadManifest \/ ListFault) /\ ~InstallMissed
  <2>1. UNCHANGED <<disk, mem, stamp>> /\ InList
    BY <1>12 DEF ReadManifest, ListFault, Goto, state, InList
  <2>2. stamp # sync.doc.lists
    BY <2>1, ListAssumption DEF ListInv, StampInv, InList, TypeOK, Doc
  <2>3. sync'.pc # "save"
    BY <1>12, <2>1, <2>2 DEF InstallMissed
  <2>4. sync'.pc \notin {"save", "update"}
    BY <1>12, <2>3 DEF ReadManifest, ListFault, Goto, TypeOK
  <2> QED
    BY <1>6, <2>1, <2>4
<1>13. CASE (\E c \in Categories : InstallFile(c)) \/ OpenStamp \/ ListTimeout \/ SaveFails
  <2>1. UNCHANGED <<disk, mem>> /\ sync'.pc \notin {"save", "update"}
    BY <1>13 DEF InstallFile, OpenStamp, ListTimeout, SaveFails, Goto, Idle, state, TypeOK
  <2> QED
    BY <1>6, <2>1
<1>14. CASE SavePolicy
  <2>1. disk' = sync.doc /\ UNCHANGED <<mem, file>> /\ sync.pc = "save" /\ sync'.doc = sync.doc
    BY <1>14 DEF SavePolicy, Goto, state, TypeOK
  <2> QED
    BY <1>3, <1>4, <2>1 DEF ProvidedInv, ListsProvided
<1>15. CASE UpdateState
  <2>1. /\ mem' = sync.doc /\ loaded' = file /\ UNCHANGED <<disk, file>>
        /\ sync.pc = "update" /\ sync'.pc = "idle"
    BY <1>15 DEF UpdateState, Idle
  <2> QED
    BY <1>2, <1>4, <2>1 DEF ProvidedInv, ListsProvided
<1>16. CASE Restart
  <2>1. mem' = disk /\ UNCHANGED <<disk, file>> /\ sync'.pc = "idle"
        /\ (disk # NoPolicy => loaded' = file)
    BY <1>16 DEF Restart, Idle
  <2>2. Provided(mem', loaded')
    BY <1>2, <2>1 DEF Provided
  <2> QED
    BY <1>2, <2>1, <2>2 DEF ProvidedInv, ListsProvided
<1> QED
  BY <1>5, <1>9, <1>10, <1>11, <1>12, <1>13, <1>14, <1>15, <1>16
  DEF Next, ListStep, InstallOrFault

\* Only a missed installation leaves the agent with a policy that names newer
\* lists than it evaluates with (and that /sync then answers 304 to): as long as
\* every sync that begins to install stamps its lists or is abandoned, the lists
\* in memory are those the policy names, or newer, through restarts, timeouts,
\* torn stamps and publications in between.
THEOREM OnlyMissedInstallsLag == Spec /\ [][~InstallMissed]_vars => []ListsProvided
<1>1. Init => ProvidedInv
  BY DEF Init, Idle, ProvidedInv, ListsProvided, Provided
<1>2. TypeOK /\ TypeOK' /\ ListInv /\ ProvidedInv /\ [Next]_vars /\ [~InstallMissed]_vars
      /\ [\A c \in Categories : file'[c] >= file[c] /\ loaded'[c] >= loaded[c]]_vars
      => ProvidedInv'
  <2> SUFFICES ASSUME TypeOK, TypeOK', ListInv, ProvidedInv, [Next]_vars, [~InstallMissed]_vars,
                      [\A c \in Categories : file'[c] >= file[c] /\ loaded'[c] >= loaded[c]]_vars
               PROVE  ProvidedInv'
    OBVIOUS
  <2>1. CASE UNCHANGED vars
    BY <2>1 DEF vars, cloud, state, ProvidedInv, ListsProvided, Provided
  <2>2. CASE ~UNCHANGED vars
    BY <2>2, ProvidedStep
  <2> QED
    BY <2>1, <2>2
<1>3. ProvidedInv => ListsProvided
  BY DEF ProvidedInv
<1>4. QED
  BY <1>1, <1>2, <1>3, TypeCorrect, ListInvariant, ListsOnlyAdvance, PTL
  DEF Spec, ListsNeverOlder

=============================================================================
