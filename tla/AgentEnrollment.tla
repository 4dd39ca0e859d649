--------------------------- MODULE AgentEnrollment ---------------------------
(***************************************************************************)
(* Linking seen from the PC: SafeBrowse.Enroll posts the code, writes the  *)
(* credential and the policy file and tries to restart the protection      *)
(* service, which keeps syncing meanwhile.  The cloud side is Enrollment.  *)
(* A policy is reduced to its child and version (PolicySync shows that     *)
(* these determine its content); the list version does not change.         *)
(***************************************************************************)
EXTENDS Enrollment

CONSTANTS
    PCs,
    NoCred,      \* device.credential does not exist
    Torn,        \* device.credential is being written, or was cut short
    NoPolicy,    \* policy.json missing or unreadable, or nothing in memory
    MaxVersion   \* bound: policy_version values explored

Policies == [child : Children, version : Nat]

ASSUME AgentAssumption ==
    /\ NoCred \notin Attempts /\ Torn \notin Attempts /\ NoCred # Torn
    /\ NoPolicy \notin Policies
    /\ None \notin PCs /\ MaxVersion \in Nat

VARIABLES
    version,     \* Children -> policy_version
    owner,       \* Attempts -> the PC that posted it
    tool,        \* PCs -> what SafeBrowse.Enroll is about to do
    cred, file,  \* PCs -> device.credential, policy.json
    mem,         \* PCs -> AgentState.Policy
    running,     \* PCs -> the protection service runs
    loop,        \* PCs -> its RunSync loop is alive
    sync         \* PCs -> the sync exchange in flight

pcVars  == <<tool, cred, file, mem, running, loop, sync>>
vars    == <<cloudVars, version, owner, pcVars>>

ToolPcs  == {"idle", "waiting", "openCredential", "writeCredential",
             "openPolicy", "writePolicy", "restart"}
ToolIdle == [pc |-> "idle", dev |-> None, policy |-> NoPolicy]
SyncIdle == [pc |-> "idle", dev |-> None, policy |-> NoPolicy]

\* Mutant of PolicyOf: the policy is looked up per household, not per child.
PolicyOfHousehold(c) == [child |-> CHOOSE x \in Children : TRUE, version |-> version[c]]

PolicyOf(c) == [child |-> c, version |-> version[c]]

\* The service process starts: cached policy, fresh loop.
Start(p) ==
    /\ running' = [running EXCEPT ![p] = TRUE]
    /\ loop' = [loop EXCEPT ![p] = TRUE]
    /\ mem' = [mem EXCEPT ![p] = file[p]]
    /\ sync' = [sync EXCEPT ![p] = SyncIdle]

-----------------------------------------------------------------------------
\* The parent console and retention (any mutation moves the version)

ConsoleAction == ConsoleStep /\ UNCHANGED <<version, owner, pcVars>>

ChangePolicy(c) ==
    /\ version[c] < MaxVersion
    /\ version' = [version EXCEPT ![c] = @ + 1]
    /\ UNCHANGED <<cloudVars, owner, pcVars>>

-----------------------------------------------------------------------------
\* SafeBrowse.Enroll

ToolPost(p, a, k) ==
    /\ tool[p].pc = "idle"
    /\ EnrollLookup(a, k)
    /\ owner' = [owner EXCEPT ![a] = p]
    /\ tool' = [tool EXCEPT ![p] = [pc |-> "waiting", dev |-> a, policy |-> NoPolicy]]
    /\ UNCHANGED <<version, cred, file, mem, running, loop, sync>>

\* The handler goes on, answered or not.
WorkerStep(a) ==
    /\ EnrollConsume(a) \/ EnrollRegister(a) \/ EnrollDies(a)
    /\ UNCHANGED <<version, owner, pcVars>>

\* The answer arrives with the token and the child's policy.
ToolAnswered(p) ==
    LET a == tool[p].dev IN
    /\ tool[p].pc = "waiting"
    /\ EnrollAnswer(a)
    /\ tool' = [tool EXCEPT ![p].pc = "openCredential", ![p].policy = PolicyOf(attempt[a].child)]
    /\ UNCHANGED <<version, owner, cred, file, mem, running, loop, sync>>

ToolGoto(p, from, to) ==
    /\ tool[p].pc = from
    /\ tool' = [tool EXCEPT ![p].pc = to]
    /\ UNCHANGED <<cloudVars, version, owner, mem, running, loop, sync>>

\* Mutant of ToolOpenCredential: a null credential is written first.
ToolClearCredential(p) ==
    /\ ToolGoto(p, "openCredential", "writeCredential")
    /\ cred' = [cred EXCEPT ![p] = None]
    /\ UNCHANGED file

\* File.WriteAllBytesAsync truncates the credential, then fills it.
ToolOpenCredential(p) ==
    /\ ToolGoto(p, "openCredential", "writeCredential")
    /\ cred' = [cred EXCEPT ![p] = Torn]
    /\ UNCHANGED file

ToolWriteCredential(p) ==
    /\ ToolGoto(p, "writeCredential", "openPolicy")
    /\ cred' = [cred EXCEPT ![p] = tool[p].dev]
    /\ UNCHANGED file

ToolOpenPolicy(p) ==
    /\ ToolGoto(p, "openPolicy", "writePolicy")
    /\ file' = [file EXCEPT ![p] = NoPolicy]
    /\ UNCHANGED cred

ToolWritePolicy(p) ==
    /\ ToolGoto(p, "writePolicy", "restart")
    /\ file' = [file EXCEPT ![p] = tool[p].policy]
    /\ UNCHANGED cred

\* TryRestartService swallows every fault: the service may have restarted, may
\* run on as it was, or may be left stopped.
ToolRestart(p) ==
    /\ tool[p].pc = "restart"
    /\ tool' = [tool EXCEPT ![p] = ToolIdle]
    /\ \/ Start(p)
       \/ UNCHANGED <<running, loop, mem, sync>>
       \/ /\ running' = [running EXCEPT ![p] = FALSE]
          /\ mem' = [mem EXCEPT ![p] = NoPolicy]
          /\ loop' = [loop EXCEPT ![p] = FALSE]
          /\ sync' = [sync EXCEPT ![p] = SyncIdle]
    /\ UNCHANGED <<cloudVars, version, owner, cred, file>>

\* An error status, a timeout, or the tool being closed at any step
ToolEnds(p) ==
    /\ tool[p].pc # "idle"
    /\ tool' = [tool EXCEPT ![p] = ToolIdle]
    /\ UNCHANGED <<cloudVars, version, owner, cred, file, mem, running, loop, sync>>

-----------------------------------------------------------------------------
\* SyncOnce of the protection service

SyncGoto(p, s) ==
    /\ sync' = [sync EXCEPT ![p] = s]
    /\ UNCHANGED <<cloudVars, version, owner, tool, cred, running, loop>>

Ready(p) == running[p] /\ loop[p] /\ sync[p].pc = "idle"

\* credentials.Read() comes before the try block of SyncOnce.
SyncReadTorn(p) ==
    /\ Ready(p)
    /\ cred[p] = Torn
    /\ loop' = [loop EXCEPT ![p] = FALSE]
    /\ UNCHANGED <<cloudVars, version, owner, tool, cred, file, mem, running, sync>>

\* deviceAuth looks the credential up once, at the start of the request.
SyncAuth(p) ==
    /\ Ready(p)
    /\ cred[p] \in Attempts
    /\ Active(cred[p])
    /\ SyncGoto(p, [pc |-> "build", dev |-> cred[p], policy |-> NoPolicy])
    /\ UNCHANGED <<file, mem>>

\* The worker compares versions only; mem does not change during an exchange.
NotModified(p) ==
    mem[p] # NoPolicy /\ mem[p].version = version[devices[sync[p].dev].child]

SyncBuild(p) ==
    /\ sync[p].pc = "build"
    /\ SyncGoto(p, IF NotModified(p) THEN SyncIdle
                   ELSE [sync[p] EXCEPT !.pc = "save",
                                        !.policy = PolicyOf(devices[sync[p].dev].child)])
    /\ UNCHANGED <<file, mem>>

\* Save and Update, joined: PolicySync has what can come between the two.  The file
\* cannot be replaced while the tool has it open.
SyncSave(p) ==
    /\ sync[p].pc = "save"
    /\ tool[p].pc # "writePolicy"
    /\ file' = [file EXCEPT ![p] = sync[p].policy]
    /\ mem' = [mem EXCEPT ![p] = sync[p].policy]
    /\ SyncGoto(p, SyncIdle)

SyncFails(p) ==
    /\ sync[p].pc # "idle"
    /\ SyncGoto(p, SyncIdle)
    /\ UNCHANGED <<file, mem>>

Reboot(p) ==
    /\ Start(p)
    /\ tool' = [tool EXCEPT ![p] = ToolIdle]
    /\ UNCHANGED <<cloudVars, version, owner, cred, file>>

-----------------------------------------------------------------------------
AgentInit ==
    /\ Init
    /\ version = [c \in Children |-> 1]
    /\ owner = [a \in Attempts |-> None]
    /\ tool = [p \in PCs |-> ToolIdle]
    /\ cred = [p \in PCs |-> NoCred]
    /\ file = [p \in PCs |-> NoPolicy]
    /\ mem = [p \in PCs |-> NoPolicy]
    /\ running = [p \in PCs |-> TRUE]
    /\ loop = [p \in PCs |-> TRUE]
    /\ sync = [p \in PCs |-> SyncIdle]

ToolStep(p) ==
    \/ \E a \in Attempts, k \in Codes : ToolPost(p, a, k)
    \/ ToolAnswered(p)
    \/ ToolOpenCredential(p)
    \/ ToolWriteCredential(p)
    \/ ToolOpenPolicy(p)
    \/ ToolWritePolicy(p)
    \/ ToolRestart(p)
    \/ ToolEnds(p)

ServiceStep(p) ==
    \/ SyncReadTorn(p)
    \/ SyncAuth(p)
    \/ SyncBuild(p)
    \/ SyncSave(p)
    \/ SyncFails(p)
    \/ Reboot(p)

AgentNext ==
    \/ ConsoleAction
    \/ \E c \in Children : ChangePolicy(c)
    \/ \E a \in Attempts : WorkerStep(a)
    \/ \E p \in PCs : ToolStep(p) \/ ServiceStep(p)

AgentSpec == AgentInit /\ [][AgentNext]_vars

-----------------------------------------------------------------------------
Slot(pcs) == [pc : pcs, dev : Attempts \cup {None}, policy : Policies \cup {NoPolicy}]

AgentTypeOK ==
    /\ version \in [Children -> Nat]
    /\ owner \in [Attempts -> PCs \cup {None}]
    /\ tool \in [PCs -> Slot(ToolPcs)]
    /\ cred \in [PCs -> Attempts \cup {NoCred, Torn}]
    /\ file \in [PCs -> Policies \cup {NoPolicy}]
    /\ mem \in [PCs -> Policies \cup {NoPolicy}]
    /\ running \in [PCs -> BOOLEAN]
    /\ loop \in [PCs -> BOOLEAN]
    /\ sync \in [PCs -> Slot({"idle", "build", "save"})]

\* Two PCs never both hold a working credential of one child: linking a second
\* PC cuts the first one off, whatever became of either tool.
OnePCPerChild ==
    \A p, q \in PCs :
        /\ cred[p] \in Attempts /\ Active(cred[p])
        /\ cred[q] \in Attempts /\ Active(cred[q])
        /\ devices[cred[p]].child = devices[cred[q]].child
        => p = q

Linked(p) == {a \in Attempts : owner[a] = p /\ devices[a] # NoDevice}

\* A PC that was linked once enforces and caches only the policy of the child it
\* was linked to, through every torn write, failed restart and lost answer.
LinkedOnceEnforcesOwnChild ==
    \A p \in PCs : Cardinality(Linked(p)) <= 1 =>
        \A policy \in {mem[p], file[p]} : policy # NoPolicy =>
            \E a \in Linked(p) : devices[a].child = policy.child

\* docs/architecture.md says /sync answers 304 if the policy has not changed: the
\* policy the agent holds is then the device's.  A PC moved to another child
\* whose service did not restart holds the former child's policy.
NotModifiedMeansUnchanged ==
    \A p \in PCs : sync[p].pc = "build" /\ NotModified(p) =>
        mem[p].child = devices[sync[p].dev].child

\* ProtectionWorker.cs says no fault may escape and end RunSync's loop; a
\* credential that cannot be read does.
SyncLoopSurvives == \A p \in PCs : running[p] => loop[p]

=============================================================================
