----------------------------- MODULE PolicySync -----------------------------
(***************************************************************************)
(* One child's policy, from the parent console's writes to the copy the    *)
(* Windows agent enforces.                                                 *)
(*                                                                         *)
(* The Cloudflare worker keeps the policy in four D1 tables: the row of    *)
(* children (version and settings), policy_categories, schedules and       *)
(* domain_rules.  A D1 batch is atomic; between two statements of one      *)
(* handler every other handler may run, or the invocation may die.  The    *)
(* agent asks for the policy once a minute and keeps its own copy when the *)
(* worker answers 304, so the version number must never hide a change.     *)
(***************************************************************************)
EXTENDS Integers, FiniteSets

CONSTANTS
    AgeBands,     \* values of the settings columns of children (age_band, paused, ...)
    Categories,   \* filter categories
    Threats,      \* the category no parent can switch off
    Preset,       \* presetCategories: AgeBands -> SUBSET Categories
    Slots,        \* schedule rows
    Domains,      \* domains rules are about
    Handlers,     \* worker invocations that may run at the same time
    NoRule,       \* no domain_rules row for a domain
    Never,        \* expires_at IS NULL
    NoPolicy,     \* the agent holds no policy
    MaxVersion,   \* bound: policy_version values explored
    MaxTime,      \* bound: clock values explored
    MaxLists      \* bound: list versions published

ASSUME PresetAssumption ==
    /\ Threats \in Categories
    /\ Preset \in [AgeBands -> SUBSET Categories]
    /\ \A b \in AgeBands : Threats \in Preset[b]

ASSUME BoundAssumption ==
    MaxVersion \in Nat /\ MaxTime \in Nat /\ MaxLists \in Nat

ASSUME MarkerAssumption == Never \notin Int /\ AgeBands # {}

Tables  == {"categories", "schedules", "rules"}
Actions == {"allow", "block"}
Expiry  == {Never} \cup Nat
Rule    == [action : Actions, expires : Expiry]
Rules   == [Domains -> Rule \cup {NoRule}]

ASSUME RuleAssumption == NoRule \notin Rule

\* The policy document of the contract (policySchema).
Policy == [version : Nat, band : AgeBands, enabled : SUBSET Categories,
           schedules : SUBSET Slots, rules : Rules, lists : Nat]

ASSUME PolicyAssumption == NoPolicy \notin Policy

VARIABLES
    version, band,   \* children: policy_version and the settings columns
    seeded, enabled, \* policy_categories: whether its rows exist, the enabled ones
    schedules,       \* schedules
    rules,           \* domain_rules
    lists,           \* version in R2 lists/latest.json, 0 for "bootstrap"
    now,             \* wall clock
    job,             \* Handlers -> what a mutating handler has left to do
    unbumped,        \* history: tables written since policy_version last moved
    mem, disk,       \* agent: AgentState.Policy and policy.json
    sync             \* agent and worker: the sync exchange in flight

cloud == <<version, band, seeded, enabled, schedules, rules, lists>>
agent == <<mem, disk>>
vars  == <<cloud, now, job, unbumped, agent, sync>>

-----------------------------------------------------------------------------
\* Expiry.  buildPolicy selects expires_at > now, the evaluator skips the rest.

Live(r, t) == r # NoRule /\ (r.expires = Never \/ r.expires > t)

Unexpired(rs, t) == [d \in Domains |-> IF Live(rs[d], t) THEN rs[d] ELSE NoRule]

KnownVersion == IF mem = NoPolicy THEN -1 ELSE mem.version
KnownLists   == IF mem = NoPolicy THEN -1 ELSE mem.lists

-----------------------------------------------------------------------------
\* Parent handlers.  A job is "idle", "bump" (incrementPolicy is still to run)
\* or the age band a reset-preset handler has read.

Idle == [pc |-> "idle"]
Bump == [pc |-> "bump"]
PresetOf(b) == [pc |-> "preset", band |-> b]

Jobs == {Idle, Bump} \cup {PresetOf(b) : b \in AgeBands}

\* incrementPolicy, also as a statement of a batch
Increment == /\ version < MaxVersion
             /\ version' = version + 1
             /\ unbumped' = {}

\* A table is written by a statement of its own, incrementPolicy follows.
\* (A handler starts only if the version bound leaves room for its bump.)
MayWrite(h, pc) == job[h].pc = pc /\ version < MaxVersion

ThenBump(h, table) ==
    /\ job' = [job EXCEPT ![h] = Bump]
    /\ unbumped' = unbumped \cup {table}
    /\ UNCHANGED <<version, band, seeded, lists, now, agent, sync>>

\* POST and DELETE /children/:id/schedules
WriteSchedules(h) ==
    /\ MayWrite(h, "idle")
    /\ \E s \in Slots : schedules' \in {schedules \cup {s}, schedules \ {s}}
    /\ UNCHANGED <<enabled, rules>>
    /\ ThenBump(h, "schedules")

\* POST /children/:id/rules (an upsert on child and domain) and DELETE of a rule
WriteRule(h) ==
    /\ MayWrite(h, "idle")
    /\ \E d \in Domains,
          r \in [action : Actions, expires : {Never} \cup 0..MaxTime] \cup {NoRule} :
            rules' = [rules EXCEPT ![d] = r]
    /\ UNCHANGED <<enabled, schedules>>
    /\ ThenBump(h, "rules")

\* POST /children/:id/reset-preset: the age band is read first ...
ResetReadBand(h) ==
    /\ job[h] = Idle
    /\ job' = [job EXCEPT ![h] = PresetOf(band)]
    /\ UNCHANGED <<cloud, now, unbumped, agent, sync>>

\* ... then one batch UPDATEs the category rows that exist
ResetWriteCategories(h) ==
    /\ MayWrite(h, "preset")
    /\ enabled' = IF seeded THEN Preset[job[h].band] ELSE enabled
    /\ UNCHANGED <<schedules, rules>>
    /\ ThenBump(h, "categories")

BumpVersion(h) ==
    /\ job[h] = Bump
    /\ Increment
    /\ job' = [job EXCEPT ![h] = Idle]
    /\ UNCHANGED <<band, seeded, enabled, schedules, rules, lists, now, agent, sync>>

\* Mutant of PutPolicy: the categories are stored as sent, threats or not.
PutPolicyAsSent ==
    /\ Increment
    /\ band' \in AgeBands
    /\ enabled' \in SUBSET Categories
    /\ seeded' = TRUE
    /\ UNCHANGED <<schedules, rules, lists, now, job, agent, sync>>

\* PUT /children/:id/policy: settings, version and categories in one batch
PutPolicy ==
    /\ Increment
    /\ band' \in AgeBands
    /\ \E E \in SUBSET Categories : enabled' = E \cup {Threats}
    /\ seeded' = TRUE
    /\ UNCHANGED <<schedules, rules, lists, now, job, agent, sync>>

\* POST /requests/:id/resolve: the allow rule and the version in one batch; a
\* denial moves only the version.  (The request row is in AccessRequests.)
ResolveRequest ==
    /\ Increment
    /\ \/ \E d \in Domains, e \in {Never} \cup (now + 1)..(MaxTime + 1) :
              rules' = [rules EXCEPT ![d] = [action |-> "allow", expires |-> e]]
       \/ UNCHANGED rules
    /\ UNCHANGED <<band, seeded, enabled, schedules, lists, now, job, agent, sync>>

\* The invocation dies between two awaits: what it wrote stays written.
HandlerDies(h) ==
    /\ job[h] # Idle
    /\ job' = [job EXCEPT ![h] = Idle]
    /\ UNCHANGED <<cloud, now, unbumped, agent, sync>>

\* Nightly retention deletes expired rules and leaves the version alone.
Retention ==
    /\ rules' = [d \in Domains |->
                    IF /\ rules[d] # NoRule
                       /\ rules[d].expires # Never
                       /\ rules[d].expires < now
                    THEN NoRule ELSE rules[d]]
    /\ UNCHANGED <<version, band, seeded, enabled, schedules, lists, now, job, unbumped, agent, sync>>

\* The list publisher replaces lists/latest.json (outside the worker).
PublishLists ==
    /\ lists < MaxLists
    /\ lists' = lists + 1
    /\ UNCHANGED <<version, band, seeded, enabled, schedules, rules, now, job, unbumped, agent, sync>>

Tick ==
    /\ now < MaxTime
    /\ now' = now + 1
    /\ UNCHANGED <<cloud, job, unbumped, agent, sync>>

-----------------------------------------------------------------------------
\* One sync: GET /sync with what the agent knows; the worker reads the list
\* version, then the children row, then the three tables in any order.

Phases == {"idle", "lists", "row", "tables", "save", "update"}

\* known, knownLists: the query; lists: the list version read; snap: the
\* document, its tables in missing still to be read
Sync == [pc : Phases, known : Int, knownLists : Int, lists : Nat,
         missing : SUBSET Tables, snap : Policy \cup {NoPolicy}]

SyncIdle == [pc |-> "idle", known |-> -1, knownLists |-> -1, lists |-> 0,
             missing |-> {}, snap |-> NoPolicy]

SyncRequest ==
    /\ sync.pc = "idle"
    /\ sync' = [sync EXCEPT !.pc = "lists", !.known = KnownVersion,
                            !.knownLists = KnownLists]
    /\ UNCHANGED <<cloud, now, job, unbumped, agent>>

\* Mutant of SyncReadLists: the tables are read without the children row.
SyncReadListsOnly ==
    /\ sync.pc = "lists"
    /\ sync' = [sync EXCEPT !.pc = "tables", !.lists = lists]
    /\ UNCHANGED <<cloud, now, job, unbumped, agent>>

SyncReadLists ==
    /\ sync.pc = "lists"
    /\ sync' = [sync EXCEPT !.pc = "row", !.lists = lists]
    /\ UNCHANGED <<cloud, now, job, unbumped, agent>>

SyncReadRow ==
    /\ sync.pc = "row"
    /\ sync' = [sync EXCEPT !.pc = "tables", !.missing = Tables,
          !.snap = [version |-> version, band |-> band, enabled |-> {},
                    schedules |-> {}, rules |-> [d \in Domains |-> NoRule],
                    lists |-> sync.lists]]
    /\ UNCHANGED <<cloud, now, job, unbumped, agent>>

SyncReadTable(t) ==
    /\ sync.pc = "tables"
    /\ t \in sync.missing
    /\ sync' = [sync EXCEPT !.missing = sync.missing \ {t},
          !.snap = CASE t = "categories" -> [sync.snap EXCEPT !.enabled = enabled]
                     [] t = "schedules"  -> [sync.snap EXCEPT !.schedules = schedules]
                     [] t = "rules"      -> [sync.snap EXCEPT !.rules = Unexpired(rules, now)]]
    /\ UNCHANGED <<cloud, now, job, unbumped, agent>>

\* Mutant of NotModified: the list version is not compared.
NotModifiedIgnoringLists == sync.known = sync.snap.version

NotModified == sync.known = sync.snap.version /\ sync.knownLists = sync.snap.lists

\* Mutant of SyncRespond: the version is read after the tables.
SyncRespondLateVersion ==
    /\ sync.pc = "tables"
    /\ sync.missing = {}
    /\ sync' = IF NotModified THEN SyncIdle
               ELSE [SyncIdle EXCEPT !.pc = "save", !.snap = [sync.snap EXCEPT !.version = version]]
    /\ UNCHANGED <<cloud, now, job, unbumped, agent>>

\* Mutant of SyncRespond: the policy goes to memory and is not saved.
SyncRespondUnsaved ==
    /\ sync.pc = "tables"
    /\ sync.missing = {}
    /\ sync' = IF NotModified THEN SyncIdle
                              ELSE [SyncIdle EXCEPT !.pc = "update", !.snap = sync.snap]
    /\ UNCHANGED <<cloud, now, job, unbumped, agent>>

\* 304, or the document; the agent keeps what it has on a 304
SyncRespond ==
    /\ sync.pc = "tables"
    /\ sync.missing = {}
    /\ sync' = IF NotModified THEN SyncIdle
                              ELSE [SyncIdle EXCEPT !.pc = "save", !.snap = sync.snap]
    /\ UNCHANGED <<cloud, now, job, unbumped, agent>>

\* PolicyStore.Save: written beside policy.json and moved over it
SavePolicy ==
    /\ sync.pc = "save"
    /\ disk' = sync.snap
    /\ sync' = [sync EXCEPT !.pc = "update"]
    /\ UNCHANGED <<cloud, now, job, unbumped, mem>>

\* AgentState.Update
UpdateState ==
    /\ sync.pc = "update"
    /\ mem' = sync.snap
    /\ sync' = SyncIdle
    /\ UNCHANGED <<cloud, now, job, unbumped, disk>>

\* A network fault, a timeout (also of the list download before Save), an error
\* status, or LoadLists throwing between Save and Update
SyncFails ==
    /\ sync.pc # "idle"
    /\ sync' = SyncIdle
    /\ UNCHANGED <<cloud, now, job, unbumped, agent>>

\* The service stops at any point and comes back with the cached policy.
Restart ==
    /\ mem' = disk
    /\ sync' = SyncIdle
    /\ UNCHANGED <<cloud, now, job, unbumped, disk>>

-----------------------------------------------------------------------------
\* An enrolled device that has not installed a policy yet.  POST /children
\* inserts the child (version 1), then seeds its categories in a batch of its
\* own: an invocation that died in between left a child without category rows.
Init ==
    /\ version = 1
    /\ band \in AgeBands
    /\ seeded \in BOOLEAN
    /\ enabled = IF seeded THEN Preset[band] ELSE {}
    /\ schedules = {}
    /\ rules = [d \in Domains |-> NoRule]
    /\ lists = 0
    /\ now = 0
    /\ job = [h \in Handlers |-> Idle]
    /\ unbumped = {}
    /\ mem = NoPolicy
    /\ disk = NoPolicy
    /\ sync = SyncIdle

ParentStep ==
    \/ \E h \in Handlers :
          \/ WriteSchedules(h)
          \/ WriteRule(h)
          \/ ResetReadBand(h)
          \/ ResetWriteCategories(h)
          \/ BumpVersion(h)
          \/ HandlerDies(h)
    \/ PutPolicy
    \/ ResolveRequest

SyncStep ==
    \/ SyncRequest
    \/ SyncReadLists
    \/ SyncReadRow
    \/ \E t \in Tables : SyncReadTable(t)
    \/ SyncRespond
    \/ SavePolicy
    \/ UpdateState

Next ==
    \/ ParentStep
    \/ Retention
    \/ PublishLists
    \/ Tick
    \/ SyncStep
    \/ SyncFails
    \/ Restart

Spec == Init /\ [][Next]_vars

SyncReadWithLeft(n) ==
    /\ sync.pc = "tables" /\ Cardinality(sync.missing) = n
    /\ \E t \in Tables : SyncReadTable(t)

\* RunSync retries every minute for ever; that some attempts go through is what
\* is assumed of the network and of the machine, as strong fairness because
\* failures and restarts may interrupt any number of attempts (of a table read,
\* per number of tables left, or a sync could always fail after another one).
Fairness ==
    /\ SF_vars(SyncRequest)
    /\ SF_vars(SyncReadLists)
    /\ SF_vars(SyncReadRow)
    /\ \A n \in 1..3 : SF_vars(SyncReadWithLeft(n))
    /\ SF_vars(SyncRespond)
    /\ SF_vars(SavePolicy)
    /\ SF_vars(UpdateState)

FairSpec == Spec /\ Fairness

-----------------------------------------------------------------------------
TypeOK ==
    /\ version \in Nat
    /\ band \in AgeBands
    /\ seeded \in BOOLEAN
    /\ enabled \in SUBSET Categories
    /\ schedules \in SUBSET Slots
    /\ rules \in Rules
    /\ lists \in Nat
    /\ now \in Nat
    /\ job \in [Handlers -> Jobs]
    /\ unbumped \in SUBSET Tables
    /\ mem \in Policy \cup {NoPolicy}
    /\ disk \in Policy \cup {NoPolicy}
    /\ sync \in Sync
    /\ sync.pc \in {"tables", "save", "update"} => sync.snap # NoPolicy

\* A document agrees with the database on the tables ts: what the agent does
\* with it now is what it would do with a document built now.
AgreesOn(p, ts) ==
    /\ p.band = band
    /\ "categories" \in ts => p.enabled = enabled
    /\ "schedules" \in ts => p.schedules = schedules
    /\ "rules" \in ts => Unexpired(p.rules, now) = Unexpired(rules, now)

\* A 304 is safe: a device that holds the database's version number enforces
\* the database's content, except for tables whose writer has not yet moved (or
\* died before moving) the version.  This is about buildPolicy reading the
\* version before the tables and handlers moving it after their write.
CurrentVersionIsCurrentContent ==
    (mem # NoPolicy /\ mem.version = version) => AgreesOn(mem, Tables \ unbumped)

\* The inductive form of it.  A document is never ahead of the database, and
\* one with the database's version agrees with it on what was read of it; the
\* file is at least as new as the memory, the answer at least as new as both.
Current(p, ts) ==
    /\ p.version <= version
    /\ p.version = version => AgreesOn(p, ts \ unbumped)

SyncInv ==
    /\ mem # NoPolicy => Current(mem, Tables)
    /\ disk # NoPolicy => Current(disk, Tables)
    /\ mem # NoPolicy => disk # NoPolicy /\ mem.version <= disk.version
    /\ sync.pc \in {"tables", "save", "update"} =>
          /\ Current(sync.snap, Tables \ sync.missing)
          /\ disk # NoPolicy => disk.version <= sync.snap.version
    /\ sync.pc \in {"save", "update"} => sync.missing = {}
    /\ sync.pc = "update" => disk = sync.snap

\* Policies that have categories at all have threats among them, in the
\* database and on the device, whatever mixture of reset and update produced them.
ThreatsStayOn ==
    /\ seeded => Threats \in enabled
    /\ \A p \in {mem, disk} : p # NoPolicy /\ p.enabled # {} => Threats \in p.enabled

\* The agent never goes back to an older policy, and never loses the one it
\* has: not through a late answer, a failed sync or a restart at any step.
NeverOlder ==
    [][mem # NoPolicy => mem' # NoPolicy /\ mem'.version >= mem.version]_vars

\* What a document holds, as versions: 0 of everything if there is none.
Held(p) == IF p = NoPolicy THEN [policy |-> 0, lists |-> 0]
                           ELSE [policy |-> p.version, lists |-> p.lists]

Relayed == INSTANCE Relay WITH
    Items  <- {"policy", "lists"},
    source <- [policy |-> version, lists |-> lists],
    stored <- Held(disk),
    loaded <- Held(mem)

\* An exchange of seven steps that may fail, race other writes and be cut off by
\* a restart anywhere looks like a relay: what is enforced was loaded from the
\* file, the file took over what was published, policy and list version alike,
\* and neither ever goes back (SyncOnce, PolicyStore.Save, GET /sync).
ImplementsRelay == Relayed!RelaySpec

\* Once parents stop (here: at the version bound), device and database come to
\* agree for good, list version included, on everything whose version bump was
\* not lost with a dying invocation: a parent's change reaches the device.
EventuallyInSync ==
    <>[](/\ mem # NoPolicy
         /\ mem.version = version
         /\ mem.lists = lists
         /\ AgreesOn(mem, Tables \ unbumped))

=============================================================================
