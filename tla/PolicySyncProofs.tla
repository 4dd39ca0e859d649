-------------------------- MODULE PolicySyncProofs --------------------------
(***************************************************************************)
(* Proofs about PolicySync, for every set of domains, categories, schedule *)
(* slots and worker invocations and every bound.                           *)
(***************************************************************************)
EXTENDS PolicySync, TLAPS

USE DEF cloud, agent

-----------------------------------------------------------------------------
\* Selecting unexpired rules yields a rules table.
LEMMA UnexpiredType ==
    ASSUME NEW rs \in Rules, NEW t
    PROVE  Unexpired(rs, t) \in Rules
BY DEF Unexpired, Rules

\* Selecting twice at one time is selecting once: the document buildPolicy
\* made and the table it was made from are equal to the evaluator.
LEMMA UnexpiredTwice ==
    ASSUME NEW rs, NEW t
    PROVE  Unexpired(Unexpired(rs, t), t) = Unexpired(rs, t)
BY DEF Unexpired, Live

\* Two tables equal to the evaluator now are equal to it for ever: expiry and
\* the clock never make a document drift away from the database.
LEMMA UnexpiredLater ==
    ASSUME NEW a \in Rules, NEW b \in Rules, NEW t \in Nat,
           Unexpired(a, t) = Unexpired(b, t)
    PROVE  Unexpired(a, t + 1) = Unexpired(b, t + 1)
<1>1. ASSUME NEW x \in Rules, NEW d \in Domains, Live(x[d], t + 1)
      PROVE  Live(x[d], t)
  BY <1>1 DEF Live, Rules, Rule, Expiry
<1>2. ASSUME NEW d \in Domains
      PROVE  Unexpired(a, t)[d] = Unexpired(b, t)[d]
  OBVIOUS
<1>3. ASSUME NEW d \in Domains
      PROVE  (IF Live(a[d], t + 1) THEN a[d] ELSE NoRule)
               = (IF Live(b[d], t + 1) THEN b[d] ELSE NoRule)
  <2>1. CASE Live(a[d], t + 1)
    <3>1. Live(a[d], t)
      BY <1>1, <2>1
    <3>2. a[d] # NoRule
      BY <3>1 DEF Live
    <3>3. a[d] = b[d]
      BY <1>2, <3>1, <3>2 DEF Unexpired
    <3> QED BY <3>3
  <2>2. CASE Live(b[d], t + 1)
    <3>1. Live(b[d], t)
      BY <1>1, <2>2
    <3>2. b[d] # NoRule
      BY <3>1 DEF Live
    <3>3. a[d] = b[d]
      BY <1>2, <3>1, <3>2 DEF Unexpired
    <3> QED BY <3>3
  <2>3. CASE ~Live(a[d], t + 1) /\ ~Live(b[d], t + 1)
    BY <2>3
  <2> QED BY <2>1, <2>2, <2>3
<1> QED BY <1>3 DEF Unexpired

-----------------------------------------------------------------------------
\* Every variable keeps its type, through every handler, sync step and restart.
THEOREM TypeCorrect == Spec => []TypeOK
<1>1. Init => TypeOK
  BY PresetAssumption DEF Init, TypeOK, Rules, Jobs, Sync, SyncIdle, Phases
<1>2. TypeOK /\ [Next]_vars => TypeOK'
  <2> SUFFICES ASSUME TypeOK, [Next]_vars PROVE TypeOK'
    OBVIOUS
  <2> USE DEF TypeOK
  <2>1. ASSUME NEW h \in Handlers, WriteSchedules(h) PROVE TypeOK'
    BY <2>1 DEF WriteSchedules, MayWrite, ThenBump, Jobs, Tables
  <2>2. ASSUME NEW h \in Handlers, WriteRule(h) PROVE TypeOK'
    <3>1. PICK d \in Domains,
               r \in [action : Actions, expires : {Never} \cup 0..MaxTime] \cup {NoRule} :
                 rules' = [rules EXCEPT ![d] = r]
      BY <2>2 DEF WriteRule
    <3>2. r \in Rule \cup {NoRule}
      BY BoundAssumption DEF Rule, Expiry
    <3>3. rules' \in Rules
      BY <3>1, <3>2 DEF Rules
    <3> QED BY <2>2, <3>3 DEF WriteRule, ThenBump, Jobs, Tables
  <2>3. ASSUME NEW h \in Handlers, ResetReadBand(h) PROVE TypeOK'
    BY <2>3 DEF ResetReadBand, Jobs
  <2>4. ASSUME NEW h \in Handlers, ResetWriteCategories(h) PROVE TypeOK'
    <3>1. PICK b \in AgeBands : job[h] = PresetOf(b)
      BY <2>4 DEF ResetWriteCategories, MayWrite, Jobs, Idle, Bump
    <3>2. job[h].band \in AgeBands
      BY <3>1 DEF PresetOf
    <3>3. enabled' \in SUBSET Categories
      BY <2>4, <3>2, PresetAssumption DEF ResetWriteCategories
    <3> QED BY <2>4, <3>3 DEF ResetWriteCategories, ThenBump, Jobs, Tables
  <2>5. ASSUME NEW h \in Handlers, BumpVersion(h) PROVE TypeOK'
    BY <2>5 DEF BumpVersion, Increment, Jobs
  <2>6. ASSUME NEW h \in Handlers, HandlerDies(h) PROVE TypeOK'
    BY <2>6 DEF HandlerDies, Jobs
  <2>7. CASE PutPolicy
    BY <2>7, PresetAssumption DEF PutPolicy, Increment
  <2>8. CASE ResolveRequest
    <3>1. CASE UNCHANGED rules
      BY <2>8, <3>1 DEF ResolveRequest, Increment
    <3>2. ASSUME NEW d \in Domains, NEW e \in {Never} \cup (now + 1)..(MaxTime + 1),
                 rules' = [rules EXCEPT ![d] = [action |-> "allow", expires |-> e]]
          PROVE  TypeOK'
      <4>1. [action |-> "allow", expires |-> e] \in Rule
        BY BoundAssumption DEF Rule, Expiry, Actions
      <4>2. rules' \in Rules
        BY <3>2, <4>1 DEF Rules
      <4> QED BY <2>8, <4>2 DEF ResolveRequest, Increment
    <3> QED BY <2>8, <3>1, <3>2 DEF ResolveRequest
  <2>9. CASE Retention
    <3>1. rules' \in Rules
      BY <2>9 DEF Retention, Rules
    <3> QED BY <2>9, <3>1 DEF Retention
  <2>10. CASE PublishLists
    BY <2>10 DEF PublishLists
  <2>11. CASE Tick
    BY <2>11 DEF Tick
  <2>12. CASE SyncRequest
    <3>1. KnownVersion \in Int /\ KnownLists \in Int
      BY PolicyAssumption DEF KnownVersion, KnownLists, Policy
    <3> QED BY <2>12, <3>1 DEF SyncRequest, Sync, Phases
  <2>13. CASE SyncReadLists
    BY <2>13 DEF SyncReadLists, Sync, Phases
  <2>14. CASE SyncReadRow
    <3>1. [version |-> version, band |-> band, enabled |-> {}, schedules |-> {},
           rules |-> [d \in Domains |-> NoRule], lists |-> sync.lists] \in Policy
      BY DEF Policy, Rules, Sync
    <3> QED BY <2>14, <3>1, PolicyAssumption DEF SyncReadRow, Sync, Phases
  <2>15. ASSUME NEW t \in Tables, SyncReadTable(t) PROVE TypeOK'
    <3>1. sync.snap \in Policy
      BY <2>15 DEF SyncReadTable, Sync
    <3>2. Unexpired(rules, now) \in Rules
      BY UnexpiredType
    <3>3. sync'.snap \in Policy
      BY <2>15, <3>1, <3>2 DEF SyncReadTable, Sync, Policy, Tables
    <3>4. sync' \in Sync
      BY <2>15, <3>3 DEF SyncReadTable, Sync
    <3> QED BY <2>15, <3>3, <3>4, PolicyAssumption DEF SyncReadTable
  <2>16. CASE SyncRespond
    <3>1. CASE NotModified
      BY <2>16, <3>1 DEF SyncRespond, Sync, SyncIdle, Phases
    <3>2. CASE ~NotModified
      <4>1. sync' = [SyncIdle EXCEPT !.pc = "save", !.snap = sync.snap]
        BY <2>16, <3>2 DEF SyncRespond
      <4>2. sync.snap \in Policy /\ sync.snap # NoPolicy
        BY <2>16 DEF SyncRespond, Sync
      <4>3. sync' \in Sync /\ sync'.snap = sync.snap
        <5>1. SyncIdle \in Sync
          BY DEF Sync, SyncIdle, Phases
        <5> QED BY <4>1, <4>2, <5>1 DEF Sync, Phases
      <4> QED BY <2>16, <4>2, <4>3 DEF SyncRespond
    <3> QED BY <3>1, <3>2
  <2>17. CASE SavePolicy
    BY <2>17 DEF SavePolicy, Sync, Phases
  <2>18. CASE UpdateState
    BY <2>18 DEF UpdateState, Sync, SyncIdle, Phases
  <2>19. CASE SyncFails
    BY <2>19 DEF SyncFails, Sync, SyncIdle, Phases
  <2>20. CASE Restart
    BY <2>20 DEF Restart, Sync, SyncIdle, Phases
  <2>21. CASE UNCHANGED vars
    BY <2>21 DEF vars
  <2> QED
    BY <2>1, <2>2, <2>3, <2>4, <2>5, <2>6, <2>7, <2>8, <2>9, <2>10, <2>11, <2>12,
       <2>13, <2>14, <2>15, <2>16, <2>17, <2>18, <2>19, <2>20, <2>21
    DEF Next, ParentStep, SyncStep
<1> QED BY <1>1, <1>2, PTL DEF Spec

-----------------------------------------------------------------------------
\* What parents, the clock and retention do keeps a document current: a write
\* marks its table as unbumped until the version moves past the document.
LEMMA StillCurrent ==
    ASSUME TypeOK, ParentStep \/ Retention \/ PublishLists \/ Tick,
           NEW p \in Policy, NEW ts \in SUBSET Tables, Current(p, ts)
    PROVE  Current(p, ts)'
<1> USE DEF TypeOK, Current, AgreesOn
<1>1. p.version \in Nat /\ p.rules \in Rules
  BY DEF Policy
<1>2. CASE version' = version + 1
  BY <1>1, <1>2
<1>3. ASSUME NEW h \in Handlers, WriteSchedules(h) PROVE Current(p, ts)'
  BY <1>3 DEF WriteSchedules, ThenBump
<1>4. ASSUME NEW h \in Handlers, WriteRule(h) PROVE Current(p, ts)'
  BY <1>4 DEF WriteRule, ThenBump
<1>5. ASSUME NEW h \in Handlers, ResetReadBand(h) PROVE Current(p, ts)'
  BY <1>5 DEF ResetReadBand
<1>6. ASSUME NEW h \in Handlers, ResetWriteCategories(h) PROVE Current(p, ts)'
  BY <1>6 DEF ResetWriteCategories, ThenBump
<1>7. ASSUME NEW h \in Handlers, BumpVersion(h) PROVE Current(p, ts)'
  BY <1>2, <1>7 DEF BumpVersion, Increment
<1>8. ASSUME NEW h \in Handlers, HandlerDies(h) PROVE Current(p, ts)'
  BY <1>8 DEF HandlerDies
<1>9. CASE PutPolicy
  BY <1>2, <1>9 DEF PutPolicy, Increment
<1>10. CASE ResolveRequest
  BY <1>2, <1>10 DEF ResolveRequest, Increment
<1>11. CASE Retention
  <2>1. Unexpired(rules', now) = Unexpired(rules, now)
    <3>1. ASSUME NEW d \in Domains
          PROVE  (IF Live(rules'[d], now) THEN rules'[d] ELSE NoRule)
                   = (IF Live(rules[d], now) THEN rules[d] ELSE NoRule)
      BY <1>11 DEF Retention, Live, Rules, Rule, Expiry
    <3> QED BY <3>1 DEF Unexpired
  <2> QED BY <1>11, <2>1 DEF Retention
<1>12. CASE PublishLists
  BY <1>12 DEF PublishLists
<1>13. CASE Tick
  <2>1. Unexpired(p.rules, now) = Unexpired(rules, now)
           => Unexpired(p.rules, now + 1) = Unexpired(rules, now + 1)
    BY <1>1, UnexpiredLater
  <2> QED BY <1>13, <2>1 DEF Tick
<1> QED
  BY <1>3, <1>4, <1>5, <1>6, <1>7, <1>8, <1>9, <1>10, <1>11, <1>12, <1>13 DEF ParentStep

\* Reading one more table leaves the document current on one more table.
LEMMA ReadKeepsCurrent ==
    ASSUME TypeOK, SyncInv, NEW t \in Tables, SyncReadTable(t)
    PROVE  Current(sync'.snap, Tables \ sync'.missing)
<1> USE DEF TypeOK, Tables
<1>1. sync.snap \in Policy /\ Current(sync.snap, Tables \ sync.missing)
  BY DEF SyncReadTable, SyncInv, Sync
<1>2. sync'.missing = sync.missing \ {t} /\ sync.missing \in SUBSET Tables
  BY DEF SyncReadTable, Sync
<1>3. CASE t = "categories"
  <2>1. sync'.snap = [sync.snap EXCEPT !.enabled = enabled]
    BY <1>3 DEF SyncReadTable, Sync
  <2> QED BY <1>1, <1>2, <1>3, <2>1 DEF Current, AgreesOn, Policy
<1>4. CASE t = "schedules"
  <2>1. sync'.snap = [sync.snap EXCEPT !.schedules = schedules]
    BY <1>4 DEF SyncReadTable, Sync
  <2> QED BY <1>1, <1>2, <1>4, <2>1 DEF Current, AgreesOn, Policy
<1>5. CASE t = "rules"
  <2>1. sync'.snap = [sync.snap EXCEPT !.rules = Unexpired(rules, now)]
    BY <1>5 DEF SyncReadTable, Sync
  <2> QED BY <1>1, <1>2, <1>5, <2>1, UnexpiredTwice DEF Current, AgreesOn, Policy
<1> QED BY <1>3, <1>4, <1>5

\* The strengthened invariant holds of every step.
LEMMA SyncInvStep ==
    ASSUME TypeOK, TypeOK', SyncInv, [Next]_vars
    PROVE  SyncInv'
<1> USE DEF TypeOK
<1>0. \A p \in Policy \cup {NoPolicy} : p # NoPolicy => p \in Policy
  OBVIOUS
<1>1. CASE ParentStep \/ Retention \/ PublishLists \/ Tick
  <2>1. UNCHANGED <<mem, disk, sync>>
    BY <1>1 DEF ParentStep, Retention, PublishLists, Tick, WriteSchedules, WriteRule,
       ResetReadBand, ResetWriteCategories, BumpVersion, HandlerDies, PutPolicy,
       ResolveRequest, ThenBump
  <2>2. mem # NoPolicy => Current(mem, Tables)'
    BY <1>0, <1>1, <2>1, StillCurrent DEF SyncInv
  <2>3. disk # NoPolicy => Current(disk, Tables)'
    BY <1>0, <1>1, <2>1, StillCurrent DEF SyncInv
  <2>4. sync.pc \in {"tables", "save", "update"}
           => Current(sync.snap, Tables \ sync.missing)'
    BY <1>0, <1>1, <2>1, StillCurrent DEF SyncInv, Sync
  <2> QED BY <2>1, <2>2, <2>3, <2>4 DEF SyncInv
<1>2. CASE SyncRequest \/ SyncReadLists
  <2>1. UNCHANGED <<cloud, now, unbumped, mem, disk>> /\ sync'.pc \in {"lists", "row"}
    BY <1>2 DEF SyncRequest, SyncReadLists, Sync
  <2> QED BY <2>1 DEF SyncInv, Current, AgreesOn
<1>3. CASE SyncReadRow
  <2>1. sync'.snap.version = version /\ sync'.snap.band = band /\ sync'.missing = Tables
    BY <1>3 DEF SyncReadRow, Sync
  <2>2. UNCHANGED <<version, band, mem, disk>> /\ sync'.pc = "tables"
    BY <1>3 DEF SyncReadRow, Sync
  <2>3. Current(sync.snap, Tables \ sync.missing)'
    BY <2>1, <2>2 DEF Current, AgreesOn
  <2>4. disk # NoPolicy => disk.version <= version
    BY DEF SyncInv, Current
  <2> QED BY <1>3, <2>1, <2>2, <2>3, <2>4 DEF SyncInv, SyncReadRow, Current, AgreesOn
<1>4. ASSUME NEW t \in Tables, SyncReadTable(t) PROVE SyncInv'
  <2>1. Current(sync'.snap, Tables \ sync'.missing)
    BY <1>4, ReadKeepsCurrent
  <2>2. UNCHANGED <<cloud, now, unbumped, mem, disk>>
    BY <1>4 DEF SyncReadTable
  <2>3. sync'.pc = "tables" /\ sync'.snap.version = sync.snap.version
    BY <1>4 DEF SyncReadTable, Sync, Policy, Tables
  <2>4. sync.pc = "tables"
    BY <1>4 DEF SyncReadTable
  <2> QED BY <2>1, <2>2, <2>3, <2>4 DEF SyncInv, Current, AgreesOn
<1>5. CASE SyncRespond
  <2>1. UNCHANGED <<cloud, now, unbumped, mem, disk>>
    BY <1>5 DEF SyncRespond
  <2>2. CASE sync' = SyncIdle
    BY <2>1, <2>2 DEF SyncInv, SyncIdle, Current, AgreesOn
  <2>3. CASE sync' = [SyncIdle EXCEPT !.pc = "save", !.snap = sync.snap]
    <3>1. sync'.pc = "save" /\ sync'.snap = sync.snap /\ sync'.missing = sync.missing
      BY <1>5, <2>3 DEF SyncRespond, SyncIdle, Sync
    <3> QED BY <1>5, <2>1, <3>1 DEF SyncRespond, SyncInv, Current, AgreesOn
  <2> QED BY <1>5, <2>2, <2>3 DEF SyncRespond
<1>6. CASE SavePolicy
  <2>1. UNCHANGED <<cloud, now, unbumped, mem>> /\ disk' = sync.snap
    BY <1>6 DEF SavePolicy
  <2>2. sync'.pc = "update" /\ sync'.snap = sync.snap /\ sync'.missing = sync.missing
    BY <1>6 DEF SavePolicy, Sync
  <2>3. sync.snap \in Policy /\ (mem # NoPolicy => mem \in Policy /\ disk \in Policy)
    BY <1>6 DEF SavePolicy, Sync, SyncInv
  <2>4. Current(sync.snap, Tables) /\ sync.missing = {}
    BY <1>6 DEF SavePolicy, SyncInv
  <2>5. mem # NoPolicy => mem.version <= sync.snap.version
    BY <1>6, <2>3 DEF SavePolicy, SyncInv, Policy
  <2>6. sync.snap.version \in Nat
    BY <2>3 DEF Policy
  <2> QED BY <1>6, <2>1, <2>2, <2>3, <2>4, <2>5, <2>6 DEF SyncInv, Current, AgreesOn, SavePolicy
<1>7. CASE UpdateState
  <2>1. UNCHANGED <<cloud, now, unbumped, disk>> /\ mem' = disk /\ sync'.pc = "idle"
    BY <1>7 DEF UpdateState, SyncInv, SyncIdle
  <2>2. disk # NoPolicy => disk.version \in Nat
    BY DEF Policy
  <2> QED BY <2>1, <2>2 DEF SyncInv, Current, AgreesOn
<1>8. CASE SyncFails \/ Restart
  <2>1. UNCHANGED <<cloud, now, unbumped, disk>> /\ sync'.pc = "idle" /\ mem' \in {mem, disk}
    BY <1>8 DEF SyncFails, Restart, SyncIdle
  <2>2. disk # NoPolicy => disk.version \in Nat
    BY DEF Policy
  <2> QED BY <2>1, <2>2 DEF SyncInv, Current, AgreesOn
<1>9. CASE UNCHANGED vars
  BY <1>9 DEF vars, SyncInv, Current, AgreesOn
<1> QED
  BY <1>1, <1>2, <1>3, <1>4, <1>5, <1>6, <1>7, <1>8, <1>9 DEF Next, SyncStep

\* The inductive invariant holds of every behaviour.
THEOREM SyncInvariant == Spec => []SyncInv
<1>1. Init => SyncInv
  BY DEF Init, SyncInv, SyncIdle
<1>2. TypeOK /\ TypeOK' /\ SyncInv /\ [Next]_vars => SyncInv'
  BY SyncInvStep
<1> QED BY <1>1, <1>2, TypeCorrect, PTL DEF Spec

\* A 304 never hides a change: a device that holds the database's version
\* enforces the database's content, table by table, unless the writer of a
\* table has not moved the version yet or died before it could.
THEOREM VersionDeterminesContent == Spec => []CurrentVersionIsCurrentContent
<1>1. SyncInv => CurrentVersionIsCurrentContent
  BY DEF SyncInv, Current, CurrentVersionIsCurrentContent
<1> QED BY <1>1, SyncInvariant, PTL

\* No late answer, failed sync or restart takes the agent back to an older
\* policy, or to none.
THEOREM DeviceNeverOlder == Spec => NeverOlder
<1>1. TypeOK /\ SyncInv /\ [Next]_vars
         => [mem # NoPolicy => mem' # NoPolicy /\ mem'.version >= mem.version]_vars
  <2> SUFFICES ASSUME TypeOK, SyncInv, Next, mem # NoPolicy
               PROVE  mem' # NoPolicy /\ mem'.version >= mem.version
    OBVIOUS
  <2>1. mem \in Policy /\ disk \in Policy /\ mem.version \in Nat /\ disk.version \in Nat
    BY DEF TypeOK, SyncInv, Policy
  <2>2. CASE UpdateState
    BY <2>1, <2>2, PolicyAssumption DEF UpdateState, SyncInv
  <2>3. CASE Restart
    BY <2>1, <2>3, PolicyAssumption DEF Restart, SyncInv
  <2>4. CASE mem' = mem
    BY <2>1, <2>4
  <2>5. UpdateState \/ Restart \/ mem' = mem
    BY DEF Next, ParentStep, SyncStep, Retention, PublishLists, Tick, WriteSchedules,
       WriteRule, ResetReadBand, ResetWriteCategories, BumpVersion, HandlerDies,
       PutPolicy, ResolveRequest, ThenBump, SyncRequest, SyncReadLists, SyncReadRow,
       SyncReadTable, SyncRespond, SavePolicy, SyncFails
  <2> QED BY <2>2, <2>3, <2>4, <2>5
<1> QED BY <1>1, TypeCorrect, SyncInvariant, PTL DEF Spec, NeverOlder

-----------------------------------------------------------------------------
\* The inductive form of ThreatsStayOn: whatever set of categories is on, in the
\* table, in an answer being built or at the agent, is empty or has the threats.
Guarded(E) == E # {} => Threats \in E

ThreatInv ==
    /\ seeded => Threats \in enabled
    /\ Guarded(enabled)
    /\ mem # NoPolicy => Guarded(mem.enabled)
    /\ disk # NoPolicy => Guarded(disk.enabled)
    /\ sync.snap # NoPolicy => Guarded(sync.snap.enabled)

\* Reading a table fills the category set from the table or leaves it alone.
LEMMA TableReadGuarded ==
  ASSUME TypeOK, ThreatInv, NEW t \in Tables, SyncReadTable(t)
  PROVE  Guarded(sync'.snap.enabled)
<1>1. /\ sync \in Sync /\ sync.snap \in Policy /\ sync.snap # NoPolicy
      /\ sync.pc = "tables"
  BY PolicyAssumption DEF TypeOK, SyncReadTable, Sync
<1>2. CASE t = "categories"
  <2>1. sync'.snap = [sync.snap EXCEPT !.enabled = enabled]
    BY <1>1, <1>2 DEF SyncReadTable, Sync
  <2>2. sync'.snap.enabled = enabled
    BY <1>1, <2>1 DEF Policy
  <2> QED BY <2>2 DEF ThreatInv
<1>3. CASE t = "schedules"
  <2>1. sync'.snap = [sync.snap EXCEPT !.schedules = schedules]
    BY <1>1, <1>3 DEF SyncReadTable, Sync
  <2>2. sync'.snap.enabled = sync.snap.enabled
    BY <1>1, <2>1 DEF Policy
  <2> QED BY <1>1, <2>2 DEF ThreatInv
<1>4. CASE t = "rules"
  <2>1. sync'.snap = [sync.snap EXCEPT !.rules = Unexpired(rules, now)]
    BY <1>1, <1>4 DEF SyncReadTable, Sync
  <2>2. sync'.snap.enabled = sync.snap.enabled
    BY <1>1, <2>1 DEF Policy
  <2> QED BY <1>1, <2>2 DEF ThreatInv
<1> QED BY <1>2, <1>3, <1>4 DEF Tables

LEMMA ThreatInvStep ==
  ASSUME TypeOK, ThreatInv, [Next]_vars
  PROVE  ThreatInv'
<1> USE PresetAssumption, PolicyAssumption DEF ThreatInv
<1>1. ASSUME UNCHANGED <<seeded, enabled, mem, disk, sync>> PROVE ThreatInv'
  BY <1>1
<1>2. SyncIdle.snap = NoPolicy
  BY DEF SyncIdle
<1>3. ASSUME NEW h \in Handlers, ResetWriteCategories(h) PROVE ThreatInv'
  <2>1. /\ enabled' = IF seeded THEN Preset[job[h].band] ELSE enabled
        /\ UNCHANGED <<seeded, mem, disk, sync>>
    BY <1>3 DEF ResetWriteCategories, ThenBump, agent
  <2>2. job[h].band \in AgeBands
    <3>1. PICK b \in AgeBands : job[h] = PresetOf(b)
      BY <1>3 DEF ResetWriteCategories, MayWrite, Jobs, Idle, Bump, TypeOK
    <3> QED BY <3>1 DEF PresetOf
  <2> QED BY <2>1, <2>2 DEF Guarded
<1>4. ASSUME PutPolicy PROVE ThreatInv'
  BY <1>4 DEF PutPolicy, Guarded, agent
<1>5. ASSUME NEW s, sync' = s, s.snap \in {NoPolicy, sync.snap},
             UNCHANGED <<seeded, enabled, mem, disk>>
      PROVE  ThreatInv'
  BY <1>5
<1>6. ASSUME SyncRequest \/ SyncReadLists PROVE ThreatInv'
  <2>1. sync'.snap = sync.snap
    BY <1>6 DEF SyncRequest, SyncReadLists, TypeOK, Sync
  <2> QED BY <1>5, <1>6, <2>1 DEF SyncRequest, SyncReadLists, cloud, agent
<1>7. ASSUME SyncReadRow PROVE ThreatInv'
  <2>1. sync'.snap.enabled = {}
    BY <1>7 DEF SyncReadRow, TypeOK, Sync
  <2> QED BY <1>7, <2>1 DEF SyncReadRow, cloud, agent, Guarded
<1>8. ASSUME NEW t \in Tables, SyncReadTable(t) PROVE ThreatInv'
  <2>1. UNCHANGED <<seeded, enabled, mem, disk>>
    BY <1>8 DEF SyncReadTable, cloud, agent
  <2> QED BY <1>8, <2>1, TableReadGuarded
<1>9. ASSUME SyncRespond PROVE ThreatInv'
  <2>1. sync'.snap \in {NoPolicy, sync.snap}
    BY <1>2, <1>9 DEF SyncRespond, SyncIdle
  <2> QED BY <1>5, <1>9, <2>1 DEF SyncRespond, cloud, agent
<1>10. ASSUME SavePolicy PROVE ThreatInv'
  <2>1. /\ sync'.snap = sync.snap /\ disk' = sync.snap
        /\ UNCHANGED <<seeded, enabled, mem>>
    BY <1>10 DEF SavePolicy, TypeOK, Sync, cloud
  <2> QED BY <2>1
<1>11. ASSUME UpdateState PROVE ThreatInv'
  <2>1. /\ sync'.snap = NoPolicy /\ mem' = sync.snap
        /\ UNCHANGED <<seeded, enabled, disk>>
    BY <1>2, <1>11 DEF UpdateState, cloud
  <2> QED BY <2>1
<1>12. ASSUME SyncFails PROVE ThreatInv'
  BY <1>2, <1>5, <1>12 DEF SyncFails, cloud, agent
<1>13. ASSUME Restart PROVE ThreatInv'
  <2>1. /\ sync'.snap = NoPolicy /\ mem' = disk
        /\ UNCHANGED <<seeded, enabled, disk>>
    BY <1>2, <1>13 DEF Restart, cloud
  <2> QED BY <2>1
<1>14. ASSUME NEW h \in Handlers,
              \/ WriteSchedules(h) \/ WriteRule(h) \/ ResetReadBand(h)
              \/ BumpVersion(h) \/ HandlerDies(h)
       PROVE  ThreatInv'
  BY <1>1, <1>14 DEF WriteSchedules, WriteRule, ResetReadBand, BumpVersion, HandlerDies,
     ThenBump, cloud, agent
<1>15. ASSUME ResolveRequest \/ Retention \/ PublishLists \/ Tick \/ UNCHANGED vars
       PROVE  ThreatInv'
  BY <1>1, <1>15 DEF ResolveRequest, Retention, PublishLists, Tick, vars, cloud, agent
<1> QED
  BY <1>3, <1>4, <1>6, <1>7, <1>8, <1>9, <1>10, <1>11, <1>12, <1>13, <1>14, <1>15
  DEF Next, ParentStep, SyncStep

\* Neither a reset against a stale age band, nor a policy put together from
\* several reads, nor a restart takes the threats category off a device.
THEOREM ThreatsCannotBeSwitchedOff == Spec => []ThreatsStayOn
<1>1. Init => ThreatInv
  BY PresetAssumption DEF Init, ThreatInv, Guarded, SyncIdle
<1>2. TypeOK /\ ThreatInv /\ [Next]_vars => ThreatInv'
  BY ThreatInvStep
<1>3. ThreatInv => ThreatsStayOn
  BY DEF ThreatInv, Guarded, ThreatsStayOn
<1> QED BY <1>1, <1>2, <1>3, TypeCorrect, PTL DEF Spec

-----------------------------------------------------------------------------
\* A handler that is not cut off between its write and incrementPolicy leaves
\* nothing behind that the version does not show.
NoneDies == \A h \in Handlers : ~HandlerDies(h)

\* Every table the version has yet to move for has a handler about to move it.
BumpInv == unbumped # {} => \E h \in Handlers : job[h] = Bump

LEMMA BumpInvStep ==
    ASSUME TypeOK, BumpInv, [Next]_vars, [NoneDies]_vars
    PROVE  BumpInv'
<1> USE DEF TypeOK, BumpInv
<1>1. ASSUME UNCHANGED <<unbumped, job>> PROVE BumpInv'
  BY <1>1
<1>2. ASSUME unbumped' = {} PROVE BumpInv'
  BY <1>2
<1>3. ASSUME NEW h \in Handlers, NEW table, ThenBump(h, table) PROVE BumpInv'
  BY <1>3 DEF ThenBump
<1>4. ASSUME NEW h \in Handlers, ResetReadBand(h) PROVE BumpInv'
  <2>1. job[h] # Bump /\ \A g \in Handlers : g # h => job'[g] = job[g]
    BY <1>4 DEF ResetReadBand, Idle, Bump
  <2> QED BY <1>4, <2>1 DEF ResetReadBand
<1>5. ASSUME NEW h \in Handlers, HandlerDies(h) PROVE BumpInv'
  <2>1. UNCHANGED vars
    BY <1>5 DEF NoneDies
  <2> QED BY <1>1, <2>1 DEF vars
<1>6. ASSUME NEW h \in Handlers,
             WriteSchedules(h) \/ WriteRule(h) \/ ResetWriteCategories(h)
      PROVE  BumpInv'
  BY <1>3, <1>6 DEF WriteSchedules, WriteRule, ResetWriteCategories
<1>7. ASSUME \/ \E h \in Handlers : BumpVersion(h)
             \/ PutPolicy
             \/ ResolveRequest
      PROVE  BumpInv'
  BY <1>2, <1>7 DEF BumpVersion, PutPolicy, ResolveRequest, Increment
<1>8. ASSUME Retention \/ PublishLists \/ Tick \/ SyncStep \/ SyncFails \/ Restart
      PROVE  BumpInv'
  BY <1>1, <1>8
  DEF Retention, PublishLists, Tick, SyncStep, SyncRequest, SyncReadLists, SyncReadRow,
      SyncReadTable, SyncRespond, SavePolicy, UpdateState, SyncFails, Restart
<1>9. ASSUME UNCHANGED vars PROVE BumpInv'
  BY <1>1, <1>9 DEF vars
<1> QED BY <1>4, <1>5, <1>6, <1>7, <1>8, <1>9 DEF Next, ParentStep

\* With no handler about to move the version, the version alone says whether a
\* device is up to date in every table.
VersionTellsAll ==
    /\ \A h \in Handlers : job[h] # Bump
    /\ mem # NoPolicy /\ mem.version = version
    => AgreesOn(mem, Tables)

\* The only thing that ever hides a parent's change behind an old version number
\* is an invocation that dies between its two statements: in a worker where none
\* does, a device with the current version has the current policy in full.
THEOREM OnlyDeathsHideChanges ==
    Spec /\ [][NoneDies]_vars => []VersionTellsAll
<1>1. Init => BumpInv
  BY DEF Init, BumpInv
<1>2. TypeOK /\ BumpInv /\ [Next]_vars /\ [NoneDies]_vars => BumpInv'
  BY BumpInvStep
<1>3. BumpInv /\ CurrentVersionIsCurrentContent => VersionTellsAll
  BY DEF BumpInv, CurrentVersionIsCurrentContent, VersionTellsAll
<1> QED BY <1>1, <1>2, <1>3, TypeCorrect, VersionDeterminesContent, PTL DEF Spec

-----------------------------------------------------------------------------
\* What SyncInv says of policy versions, said of list versions: the worker reads
\* lists/latest.json first, and the answer is never behind what the agent has.
RelayInv ==
    /\ mem # NoPolicy => disk # NoPolicy /\ mem.lists <= disk.lists
    /\ disk # NoPolicy => disk.lists <= lists
    /\ sync.pc = "row" =>
          /\ sync.lists <= lists
          /\ disk # NoPolicy => disk.lists <= sync.lists
    /\ sync.pc \in {"tables", "save", "update"} =>
          /\ sync.snap.lists <= lists
          /\ disk # NoPolicy => disk.lists <= sync.snap.lists

LEMMA RelayInvStep ==
    ASSUME TypeOK, SyncInv, RelayInv, [Next]_vars
    PROVE  RelayInv'
<1> USE PolicyAssumption DEF TypeOK, RelayInv
<1>0. /\ mem # NoPolicy => mem.lists \in Nat
      /\ disk # NoPolicy => disk.lists \in Nat
      /\ sync.pc \in {"tables", "save", "update"} => sync.snap \in Policy /\ sync.snap.lists \in Nat
      /\ sync.lists \in Nat
  BY DEF Policy, Sync
<1>1. ASSUME UNCHANGED <<mem, disk, sync>>, lists' \in Nat, lists <= lists' PROVE RelayInv'
  BY <1>0, <1>1
<1>2. ASSUME ParentStep \/ Retention \/ PublishLists \/ Tick PROVE RelayInv'
  <2>1. UNCHANGED <<mem, disk, sync>> /\ lists' \in {lists, lists + 1}
    BY <1>2 DEF ParentStep, Retention, PublishLists, Tick, WriteSchedules, WriteRule,
       ResetReadBand, ResetWriteCategories, BumpVersion, HandlerDies, PutPolicy,
       ResolveRequest, ThenBump
  <2> QED BY <1>1, <2>1
<1>3. ASSUME SyncRequest PROVE RelayInv'
  <2>1. UNCHANGED <<lists, mem, disk>> /\ sync'.pc = "lists"
    BY <1>3 DEF SyncRequest, Sync
  <2> QED BY <2>1
<1>4. ASSUME SyncReadLists PROVE RelayInv'
  <2>1. UNCHANGED <<lists, mem, disk>> /\ sync'.pc = "row" /\ sync'.lists = lists
    BY <1>4 DEF SyncReadLists, Sync
  <2> QED BY <2>1
<1>5. ASSUME SyncReadRow PROVE RelayInv'
  <2>1. UNCHANGED <<lists, mem, disk>> /\ sync'.pc = "tables" /\ sync'.snap.lists = sync.lists
    BY <1>5 DEF SyncReadRow, Sync
  <2> QED BY <1>5, <2>1 DEF SyncReadRow
<1>6. ASSUME NEW t \in Tables, SyncReadTable(t) PROVE RelayInv'
  <2>1. UNCHANGED <<lists, mem, disk>> /\ sync'.pc = "tables" /\ sync.pc = "tables"
    BY <1>6 DEF SyncReadTable, Sync
  <2>2. sync'.snap.lists = sync.snap.lists
    BY <1>0, <1>6, <2>1 DEF SyncReadTable, Sync, Policy, Tables
  <2> QED BY <2>1, <2>2
<1>7. ASSUME SyncRespond PROVE RelayInv'
  <2>1. UNCHANGED <<lists, mem, disk>> /\ sync.pc = "tables"
    BY <1>7 DEF SyncRespond
  <2>2. sync'.pc = "idle" \/ (sync'.pc = "save" /\ sync'.snap = sync.snap)
    BY <1>7 DEF SyncRespond, SyncIdle
  <2> QED BY <2>1, <2>2
<1>8. ASSUME SavePolicy PROVE RelayInv'
  <2>1. /\ UNCHANGED <<lists, mem>> /\ disk' = sync.snap /\ sync.pc = "save"
        /\ sync'.pc = "update" /\ sync'.snap = sync.snap
    BY <1>8 DEF SavePolicy, Sync
  <2>2. sync.snap # NoPolicy
    BY <1>0, <2>1
  <2> QED BY <1>0, <2>1, <2>2
<1>9. ASSUME UpdateState PROVE RelayInv'
  <2>1. UNCHANGED <<lists, disk>> /\ mem' = disk /\ sync'.pc = "idle"
    BY <1>9 DEF UpdateState, SyncInv, SyncIdle
  <2> QED BY <1>0, <2>1
<1>10. ASSUME SyncFails \/ Restart PROVE RelayInv'
  <2>1. UNCHANGED <<lists, disk>> /\ sync'.pc = "idle" /\ mem' \in {mem, disk}
    BY <1>10 DEF SyncFails, Restart, SyncIdle
  <2> QED BY <1>0, <2>1
<1>11. ASSUME UNCHANGED vars PROVE RelayInv'
  BY <1>11 DEF vars
<1> QED BY <1>2, <1>3, <1>4, <1>5, <1>6, <1>7, <1>8, <1>9, <1>10, <1>11 DEF Next, SyncStep

\* One step of the system is a step of the relay, or invisible to it.
LEMMA RelayStep ==
    ASSUME TypeOK, SyncInv, RelayInv, [Next]_vars
    PROVE  [Relayed!RelayNext]_(Relayed!relayVars)
<1> USE PolicyAssumption DEF TypeOK
<1>0. /\ mem # NoPolicy => mem.version \in Nat /\ mem.lists \in Nat
      /\ disk # NoPolicy => disk.version \in Nat /\ disk.lists \in Nat
  BY DEF Policy
<1>1. ASSUME UNCHANGED <<version, lists, mem, disk>> PROVE UNCHANGED Relayed!relayVars
  BY <1>1 DEF Relayed!relayVars
<1>2. ASSUME UNCHANGED <<mem, disk>>, version' \in {version, version + 1},
             lists' \in {lists, lists + 1}
      PROVE  Relayed!Publish
  <2>1. version' \in Nat /\ lists' \in Nat /\ version <= version' /\ lists <= lists'
    BY <1>2
  <2> QED BY <1>2, <2>1 DEF Relayed!Publish, Relayed!UpTo
<1>3. ASSUME ParentStep \/ Retention \/ PublishLists \/ Tick PROVE Relayed!Publish
  <2>1. /\ UNCHANGED <<mem, disk>> /\ version' \in {version, version + 1}
        /\ lists' \in {lists, lists + 1}
    BY <1>3 DEF ParentStep, Retention, PublishLists, Tick, WriteSchedules, WriteRule,
       ResetReadBand, ResetWriteCategories, BumpVersion, HandlerDies, PutPolicy,
       ResolveRequest, ThenBump, Increment
  <2> QED BY <1>2, <2>1
<1>4. ASSUME \/ SyncRequest \/ SyncReadLists \/ SyncReadRow \/ SyncRespond \/ SyncFails
             \/ \E t \in Tables : SyncReadTable(t)
      PROVE  UNCHANGED Relayed!relayVars
  BY <1>1, <1>4 DEF SyncRequest, SyncReadLists, SyncReadRow, SyncReadTable, SyncRespond, SyncFails
<1>5. ASSUME SavePolicy PROVE Relayed!Save
  <2>1. sync.pc = "save" /\ disk' = sync.snap /\ UNCHANGED <<version, lists, mem>>
    BY <1>5 DEF SavePolicy
  <2>2. sync.snap \in Policy /\ sync.snap # NoPolicy
    BY <2>1 DEF Sync
  <2>3. /\ sync.snap.version \in Nat /\ sync.snap.version <= version
        /\ sync.snap.lists \in Nat /\ sync.snap.lists <= lists
    BY <2>1, <2>2 DEF SyncInv, RelayInv, Current, Policy
  <2>4. disk # NoPolicy => disk.version <= sync.snap.version /\ disk.lists <= sync.snap.lists
    BY <2>1 DEF SyncInv, RelayInv
  <2>5. Held(disk)' = [policy |-> sync.snap.version, lists |-> sync.snap.lists]
    BY <2>1, <2>2 DEF Held
  <2>6. /\ Held(disk).policy <= sync.snap.version
        /\ Held(disk).lists <= sync.snap.lists
    BY <2>3, <2>4 DEF Held
  <2> QED BY <2>1, <2>3, <2>5, <2>6 DEF Relayed!Save, Relayed!UpTo
<1>6. ASSUME UpdateState PROVE Relayed!Load
  BY <1>6 DEF UpdateState, SyncInv, Relayed!Load
<1>7. ASSUME Restart PROVE Relayed!Load
  BY <1>7 DEF Restart, Relayed!Load
<1>8. ASSUME UNCHANGED vars PROVE UNCHANGED Relayed!relayVars
  BY <1>1, <1>8 DEF vars
<1> QED
  BY <1>3, <1>4, <1>5, <1>6, <1>7, <1>8 DEF Next, SyncStep, Relayed!RelayNext

\* A sync, interleaved with parents, publisher, failures and restarts, implements
\* the relay of policy and list version, for any tables, handlers and bounds.
THEOREM SyncRelays == Spec => ImplementsRelay
<1>1. Init => Relayed!RelayInit /\ RelayInv
  BY DEF Init, Relayed!RelayInit, RelayInv, Held, SyncIdle
<1>2. TypeOK /\ SyncInv /\ RelayInv /\ [Next]_vars => RelayInv'
  BY RelayInvStep
<1>3. TypeOK /\ SyncInv /\ RelayInv /\ [Next]_vars
         => [Relayed!RelayNext]_(Relayed!relayVars)
  BY RelayStep
<1> QED BY <1>1, <1>2, <1>3, TypeCorrect, SyncInvariant, PTL
        DEF Spec, ImplementsRelay, Relayed!RelaySpec

=============================================================================
