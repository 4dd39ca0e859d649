----------------------- MODULE AgentEnrollmentProofs -----------------------
(***************************************************************************)
(* Proofs about AgentEnrollment, for any number of PCs, children, codes    *)
(* and attempts.  The cloud half of every step is a step of Enrollment, so *)
(* that what EnrollmentProofs shows of the cloud holds beside the PCs; the *)
(* PCs' half is followed from slot to slot.                                *)
(***************************************************************************)
EXTENDS AgentEnrollment, EnrollmentProofs

\* What the cloud keeps, as one inductive invariant.
RegisteredInv ==
    \A a \in Attempts : attempt[a].pc \in {"registered", "answered"} =>
        devices[a] # NoDevice /\ devices[a].child = attempt[a].child

CloudInv == TypeOK /\ ClaimInv /\ OneActiveDevice /\ RegisteredInv

LEMMA RegisteredStep ==
    ASSUME CloudInv, [Next]_cloudVars
    PROVE  RegisteredInv'
<1> SUFFICES ASSUME NEW a \in Attempts, attempt'[a].pc \in {"registered", "answered"}
             PROVE  devices'[a] # NoDevice /\ devices'[a].child = attempt'[a].child
  BY DEF RegisteredInv
<1> USE EnrollmentAssumption DEF CloudInv
<1>1. attempt \in [Attempts -> Attempt]
  BY DEF TypeOK
<1>2. ASSUME attempt[a].pc \in {"registered", "answered"}, attempt'[a].child = attempt[a].child
      PROVE  devices'[a] # NoDevice /\ devices'[a].child = attempt'[a].child
  BY <1>2, DeviceKept DEF RegisteredInv
<1>3. CASE attempt'[a] = attempt[a]
  BY <1>2, <1>3
<1>4. ASSUME NEW b \in Attempts, NEW k \in Codes, EnrollLookup(b, k)
      PROVE  attempt'[a] = attempt[a]
  BY <1>1, <1>4 DEF EnrollLookup
<1>5. ASSUME NEW b \in Attempts, NEW pc \in {"consumed", "rejected", "dead"}, Goto(b, pc)
      PROVE  attempt'[a] = attempt[a]
  BY <1>1, <1>5 DEF Goto, Attempt
<1>6. ASSUME NEW b \in Attempts, EnrollRegister(b)
      PROVE  devices'[a] # NoDevice /\ devices'[a].child = attempt'[a].child
  <2>1. attempt' = [attempt EXCEPT ![b].pc = "registered"]
    BY <1>6 DEF EnrollRegister, Goto
  <2>2. CASE a = b
    <3>1. attempt[b].child \in Children /\ attempt'[b].child = attempt[b].child
      BY <1>1, <1>6, <2>1 DEF EnrollRegister, TypeOK, Attempt
    <3>2. devices'[b] = [child |-> attempt[b].child, revoked |-> FALSE]
      BY <1>6 DEF EnrollRegister
    <3>3. devices'[b] \in DeviceRow
      BY <3>1, <3>2 DEF DeviceRow
    <3>4. devices'[b].child = attempt'[b].child
      BY <3>1, <3>2
    <3>5. devices'[b] # NoDevice
      BY <3>3
    <3> QED BY <2>2, <3>4, <3>5
  <2>3. CASE a # b
    <3>1. attempt'[a] = attempt[a]
      BY <1>1, <2>1, <2>3
    <3> QED BY <1>3, <3>1
  <2> QED BY <2>2, <2>3
<1>7. ASSUME NEW b \in Attempts, EnrollAnswer(b)
      PROVE  devices'[a] # NoDevice /\ devices'[a].child = attempt'[a].child
  <2>1. attempt' = [attempt EXCEPT ![b].pc = "answered"] /\ attempt[b].pc = "registered"
    BY <1>7 DEF EnrollAnswer, Goto
  <2>2. a = b => attempt'[a].child = attempt[a].child
    BY <1>1, <2>1 DEF Attempt
  <2>3. a # b => attempt'[a] = attempt[a]
    BY <1>1, <2>1
  <2> QED BY <1>2, <1>3, <2>1, <2>2, <2>3
<1>8. ASSUME NEW b \in Attempts, EnrollConsume(b) \/ EnrollDies(b)
      PROVE  attempt'[a] = attempt[a]
  BY <1>5, <1>8 DEF EnrollConsume, EnrollDies
<1>9. CASE UNCHANGED attempt
  BY <1>3, <1>9
<1> QED
  BY <1>3, <1>4, <1>6, <1>7, <1>8, <1>9
  DEF Next, EnrollStep, ConsoleStep, cloudVars, MintCode, Revoke, Retention, Tick

LEMMA CloudInvStep ==
    ASSUME CloudInv, [Next]_cloudVars
    PROVE  CloudInv'
<1>1. TypeOK' /\ OneActiveDevice' /\ RegisteredInv'
  BY EnrollTyped, OneActiveStep, RegisteredStep DEF CloudInv
<1> QED BY <1>1, ClaimInvStep DEF CloudInv

\* An attempt that has begun does not become new again.
LEMMA StartedForGood ==
    ASSUME TypeOK, [Next]_cloudVars, NEW a \in Attempts, attempt[a].pc # "new"
    PROVE  attempt'[a].pc # "new"
<1>1. attempt \in [Attempts -> Attempt]
  BY DEF TypeOK
<1>2. ASSUME NEW b \in Attempts, NEW k \in Codes, EnrollLookup(b, k)
      PROVE  attempt'[a].pc # "new"
  BY <1>1, <1>2 DEF EnrollLookup
<1>3. ASSUME NEW b \in Attempts, NEW pc \in Pcs \ {"new"}, Goto(b, pc)
      PROVE  attempt'[a].pc # "new"
  BY <1>1, <1>3 DEF Goto, Attempt
<1>4. ASSUME NEW b \in Attempts, EnrollStep(b)
      PROVE  attempt'[a].pc # "new"
  BY <1>3, <1>4 DEF EnrollStep, EnrollConsume, EnrollRegister, EnrollAnswer, EnrollDies, Pcs
<1>5. CASE UNCHANGED attempt
  BY <1>5
<1> QED
  BY <1>2, <1>4, <1>5 DEF Next, ConsoleStep, cloudVars, MintCode, Revoke, Retention, Tick

-----------------------------------------------------------------------------
\* The devices a PC may come to hold are those of the attempts it posted; the
\* policies it holds are of children it has been linked to.
Holder(p, a) == a \in Attempts /\ owner[a] = p /\ attempt[a].pc # "new"

Own(p, x) == x # NoPolicy => \E a \in Linked(p) : devices[a].child = x.child

HoldInv ==
    \A p \in PCs :
        /\ tool[p].pc # "idle" => Holder(p, tool[p].dev)
        /\ cred[p] \in Attempts => Holder(p, cred[p])
        /\ sync[p].pc # "idle" => Holder(p, sync[p].dev) /\ devices[sync[p].dev] # NoDevice

OwnInv ==
    \A p \in PCs : \A x \in {tool[p].policy, sync[p].policy, mem[p], file[p]} : Own(p, x)

AgentInv == CloudInv /\ AgentTypeOK /\ HoldInv /\ OwnInv

\* Every step is a step, or a stutter, of the cloud.
LEMMA CloudSide ==
    ASSUME AgentInv, [AgentNext]_vars
    PROVE  [Next]_cloudVars
<1>1. CASE UNCHANGED vars
  BY <1>1 DEF vars
<1>2. CASE ConsoleAction
  BY <1>2 DEF ConsoleAction, Next
<1>3. ASSUME NEW a \in Attempts, WorkerStep(a) PROVE Next
  BY <1>3 DEF WorkerStep, Next, EnrollStep
<1>4. ASSUME NEW p \in PCs, NEW a \in Attempts, NEW k \in Codes, ToolPost(p, a, k) PROVE Next
  BY <1>4 DEF ToolPost, Next
<1>5. ASSUME NEW p \in PCs, ToolAnswered(p) PROVE Next
  <2>1. tool[p].dev \in Attempts
    BY <1>5 DEF ToolAnswered, AgentInv, HoldInv, Holder
  <2> QED BY <1>5, <2>1 DEF ToolAnswered, Next, EnrollStep
<1>6. CASE AgentNext
  <2>1. \/ ConsoleAction
        \/ \E a \in Attempts : WorkerStep(a)
        \/ \E p \in PCs, a \in Attempts, k \in Codes : ToolPost(p, a, k)
        \/ \E p \in PCs : ToolAnswered(p)
        \/ UNCHANGED cloudVars
    BY <1>6 DEF AgentNext, ChangePolicy, ToolStep, ServiceStep, ToolOpenCredential,
       ToolWriteCredential, ToolOpenPolicy, ToolWritePolicy, ToolGoto, ToolRestart, ToolEnds,
       SyncReadTorn, SyncAuth, SyncBuild, SyncSave, SyncFails, SyncGoto, Reboot
  <2> QED BY <1>2, <1>3, <1>4, <1>5, <2>1
<1> QED BY <1>1, <1>6

\* Only the post of an attempt gives it an owner, and it had not begun.
LEMMA OwnerStep ==
    ASSUME AgentInv, [AgentNext]_vars, NEW a \in Attempts, attempt[a].pc # "new"
    PROVE  owner'[a] = owner[a]
<1>1. ASSUME NEW p \in PCs, NEW b \in Attempts, NEW k \in Codes, ToolPost(p, b, k)
      PROVE  owner'[a] = owner[a]
  BY <1>1 DEF ToolPost, EnrollLookup, AgentInv, AgentTypeOK
<1>2. CASE UNCHANGED owner
  BY <1>2
<1> QED
  BY <1>1, <1>2 DEF AgentNext, vars, ConsoleAction, ChangePolicy, WorkerStep, ToolStep,
     ServiceStep, ToolAnswered, ToolOpenCredential, ToolWriteCredential, ToolOpenPolicy,
     ToolWritePolicy, ToolGoto, ToolRestart, ToolEnds, SyncReadTorn, SyncAuth, SyncBuild,
     SyncSave, SyncFails, SyncGoto, Reboot

\* What a PC holds it may go on holding.
LEMMA HolderKept ==
    ASSUME AgentInv, [AgentNext]_vars, NEW p, NEW a, Holder(p, a)
    PROVE  /\ Holder(p, a)'
           /\ devices[a] # NoDevice => /\ devices'[a] # NoDevice
                                       /\ devices'[a].child = devices[a].child
<1>1. a \in Attempts /\ attempt[a].pc # "new" /\ owner[a] = p
  BY DEF Holder
<1>2. [Next]_cloudVars
  BY CloudSide
<1>3. attempt'[a].pc # "new"
  BY <1>1, <1>2, StartedForGood DEF AgentInv, CloudInv
<1>4. owner'[a] = p
  BY <1>1, OwnerStep
<1>5. devices[a] # NoDevice => devices'[a] # NoDevice /\ devices'[a].child = devices[a].child
  BY <1>1, <1>2, DeviceKept DEF AgentInv, CloudInv
<1> QED BY <1>1, <1>3, <1>4, <1>5 DEF Holder

LEMMA OwnKept ==
    ASSUME AgentInv, [AgentNext]_vars, NEW p, NEW x, Own(p, x)
    PROVE  Own(p, x)'
<1> SUFFICES ASSUME x # NoPolicy
             PROVE  \E a \in Linked(p)' : devices'[a].child = x.child
  BY DEF Own
<1>1. PICK a \in Linked(p) : devices[a].child = x.child
  BY DEF Own
<1>2. a \in Attempts /\ owner[a] = p /\ devices[a] # NoDevice
  BY DEF Linked
<1>3. Holder(p, a)
  BY <1>2 DEF Holder, AgentInv, CloudInv, ClaimInv
<1>4. Holder(p, a)' /\ devices'[a] # NoDevice /\ devices'[a].child = devices[a].child
  BY <1>2, <1>3, HolderKept
<1>5. a \in Linked(p)'
  BY <1>4 DEF Holder, Linked
<1> QED BY <1>1, <1>4, <1>5

-----------------------------------------------------------------------------
\* Where the contents of a PC's slots come from in one step: from its own slots,
\* or new from the cloud on behalf of a device of its own.
Known(p) == {NoPolicy, tool[p].policy, sync[p].policy, mem[p], file[p]}

SlotsMove(p) ==
    /\ \/ tool'[p].pc = "idle"
       \/ tool[p].pc # "idle" /\ tool'[p].dev = tool[p].dev
       \/ Holder(p, tool[p].dev)'
    /\ \/ cred'[p] \notin Attempts
       \/ cred'[p] = cred[p]
       \/ tool[p].pc # "idle" /\ cred'[p] = tool[p].dev
    /\ \/ sync'[p].pc = "idle"
       \/ sync[p].pc # "idle" /\ sync'[p].dev = sync[p].dev
       \/ cred[p] \in Attempts /\ Active(cred[p]) /\ sync'[p].dev = cred[p]
    /\ tool'[p].policy \in Known(p) \/ Own(p, tool[p].policy)'
    /\ sync'[p].policy \in Known(p) \/ Own(p, sync[p].policy)'
    /\ mem'[p] \in Known(p) /\ file'[p] \in Known(p)

LEMMA SlotsStay ==
    ASSUME NEW p \in PCs,
           tool'[p] = tool[p] /\ cred'[p] = cred[p] /\ sync'[p] = sync[p]
              /\ mem'[p] = mem[p] /\ file'[p] = file[p]
    PROVE  SlotsMove(p)
BY DEF SlotsMove, Known

LEMMA SlotsKeepInv ==
    ASSUME AgentInv, [AgentNext]_vars, \A p \in PCs : SlotsMove(p)
    PROVE  HoldInv' /\ OwnInv'
<1> SUFFICES ASSUME NEW p \in PCs
             PROVE  /\ (tool[p].pc # "idle" => Holder(p, tool[p].dev))'
                    /\ (cred[p] \in Attempts => Holder(p, cred[p]))'
                    /\ (sync[p].pc # "idle" =>
                            Holder(p, sync[p].dev) /\ devices[sync[p].dev] # NoDevice)'
                    /\ (\A x \in {tool[p].policy, sync[p].policy, mem[p], file[p]} : Own(p, x))'
  BY DEF HoldInv, OwnInv
<1>1. /\ tool[p].pc # "idle" => Holder(p, tool[p].dev)
      /\ cred[p] \in Attempts => Holder(p, cred[p])
      /\ sync[p].pc # "idle" => Holder(p, sync[p].dev) /\ devices[sync[p].dev] # NoDevice
  BY DEF AgentInv, HoldInv
<1>2. \A x \in {tool[p].policy, sync[p].policy, mem[p], file[p]} : Own(p, x)
  BY DEF AgentInv, OwnInv
<1>3. ASSUME NEW a, Holder(p, a)
      PROVE  Holder(p, a)' /\ (devices[a] # NoDevice => devices'[a] # NoDevice)
  BY <1>3, HolderKept
<1>4. ASSUME NEW x, x \in Known(p) PROVE Own(p, x)'
  <2>1. Own(p, x)
    BY <1>2, <1>4 DEF Known, Own
  <2> QED BY <2>1, OwnKept
<1>5. (tool[p].pc # "idle" => Holder(p, tool[p].dev))'
  <2>1. CASE tool'[p].pc = "idle"
    BY <2>1
  <2>2. CASE tool[p].pc # "idle" /\ tool'[p].dev = tool[p].dev
    <3>1. PICK a : a = tool[p].dev
      OBVIOUS
    <3>2. Holder(p, a)'
      BY <1>1, <1>3, <2>2, <3>1
    <3> QED BY <2>2, <3>1, <3>2 DEF Holder
  <2>3. CASE Holder(p, tool[p].dev)'
    BY <2>3 DEF Holder
  <2> QED BY <2>1, <2>2, <2>3 DEF SlotsMove
<1>6. (cred[p] \in Attempts => Holder(p, cred[p]))'
  <2> SUFFICES ASSUME cred'[p] \in Attempts PROVE Holder(p, cred[p])'
    OBVIOUS
  <2>1. PICK a : a = cred'[p]
    OBVIOUS
  <2>2. Holder(p, a)
    BY <1>1, <2>1 DEF SlotsMove
  <2>3. Holder(p, a)'
    BY <1>3, <2>2
  <2> QED BY <2>1, <2>3 DEF Holder
<1>7. (sync[p].pc # "idle" => Holder(p, sync[p].dev) /\ devices[sync[p].dev] # NoDevice)'
  <2> SUFFICES ASSUME sync'[p].pc # "idle"
               PROVE  Holder(p, sync[p].dev)' /\ devices'[sync'[p].dev] # NoDevice
    OBVIOUS
  <2>1. PICK a : a = sync'[p].dev
    OBVIOUS
  <2>2. Holder(p, a) /\ devices[a] # NoDevice
    BY <1>1, <2>1 DEF SlotsMove, Active
  <2>3. Holder(p, a)' /\ devices'[a] # NoDevice
    BY <1>3, <2>2
  <2> QED BY <2>1, <2>3 DEF Holder
<1>8. (\A x \in {tool[p].policy, sync[p].policy, mem[p], file[p]} : Own(p, x))'
  <2> SUFFICES ASSUME NEW x, x \in {tool'[p].policy, sync'[p].policy, mem'[p], file'[p]}
               PROVE  Own(p, x)'
    BY DEF Own
  <2>1. x \in Known(p) \/ Own(p, x)'
    BY DEF SlotsMove, Own
  <2> QED BY <1>4, <2>1
<1> QED BY <1>5, <1>6, <1>7, <1>8

-----------------------------------------------------------------------------
\* The steps of SafeBrowse.Enroll
Moved == AgentTypeOK' /\ \A p \in PCs : SlotsMove(p)

LEMMA ToolKeeps ==
    ASSUME AgentInv, [AgentNext]_vars, NEW p \in PCs, ToolStep(p)
    PROVE  Moved
<1> USE AgentAssumption DEF AgentTypeOK, Slot, ToolPcs
<1>1. /\ AgentTypeOK /\ NoPolicy \in Policies \cup {NoPolicy}
      /\ ToolIdle \in Slot(ToolPcs) /\ ToolIdle.pc = "idle" /\ ToolIdle.policy = NoPolicy
      /\ SyncIdle \in Slot({"idle", "build", "save"}) /\ SyncIdle.pc = "idle"
      /\ SyncIdle.policy = NoPolicy
  BY DEF AgentInv, ToolIdle, SyncIdle
<1>2. ASSUME NEW a \in Attempts, NEW k \in Codes, ToolPost(p, a, k) PROVE Moved
  <2> DEFINE e == [pc |-> "waiting", dev |-> a, policy |-> NoPolicy]
  <2>1. /\ tool' = [tool EXCEPT ![p] = e]
        /\ owner' = [owner EXCEPT ![a] = p]
        /\ UNCHANGED <<version, cred, file, mem, running, loop, sync>>
    BY <1>2 DEF ToolPost
  <2>2. e \in Slot(ToolPcs) /\ e.dev = a /\ e.policy = NoPolicy
    OBVIOUS
  <2> HIDE DEF e
  <2>3. tool' \in [PCs -> Slot(ToolPcs)] /\ owner' \in [Attempts -> PCs \cup {None}]
    BY <1>1, <2>1, <2>2
  <2>4. AgentTypeOK'
    BY <1>1, <2>1, <2>3
  <2>5. Holder(p, a)'
    <3>1. attempt'[a].pc # "new"
      BY <1>2 DEF ToolPost, EnrollLookup, AgentInv, CloudInv, TypeOK
    <3> QED BY <1>1, <2>1, <3>1 DEF Holder
  <2>6. SlotsMove(p)
    BY <1>1, <2>1, <2>2, <2>5 DEF SlotsMove, Known, Holder
  <2>7. ASSUME NEW q \in PCs, q # p PROVE SlotsMove(q)
    BY <1>1, <2>1, <2>7, SlotsStay
  <2> QED BY <2>4, <2>6, <2>7 DEF Moved
<1>3. ASSUME ToolAnswered(p) PROVE Moved
  <2>0. PICK a : a = tool[p].dev
    OBVIOUS
  <2>00. PICK x : x = PolicyOf(attempt[a].child)
    OBVIOUS
  <2>1. /\ tool' = [tool EXCEPT ![p].pc = "openCredential", ![p].policy = x]
        /\ attempt[a].pc = "registered" /\ tool[p].pc = "waiting"
        /\ UNCHANGED <<devices, version, owner, cred, file, mem, running, loop, sync>>
    BY <1>3, <2>0, <2>00 DEF ToolAnswered, EnrollAnswer
  <2>2. Holder(p, a)
    BY <2>0, <2>1 DEF AgentInv, HoldInv
  <2>3. devices[a] \in DeviceRow /\ devices[a] # NoDevice /\ devices[a].child = attempt[a].child
    BY <2>1, <2>2 DEF AgentInv, CloudInv, RegisteredInv, TypeOK, Holder
  <2>4. x \in Policies /\ x.child = devices[a].child
    BY <1>1, <2>00, <2>3 DEF PolicyOf, Policies, DeviceRow
  <2>5. Own(p, x)'
    <3>1. Holder(p, a)' /\ devices'[a] = devices[a]
      BY <2>1, <2>2, HolderKept
    <3>2. a \in Linked(p)'
      BY <2>1, <2>3, <3>1 DEF Holder, Linked
    <3> QED BY <2>4, <3>1, <3>2 DEF Own
  <2>6. /\ tool'[p].policy = x /\ tool'[p].dev = tool[p].dev
        /\ tool' \in [PCs -> Slot(ToolPcs)]
        /\ \A q \in PCs \ {p} : tool'[q] = tool[q]
    <3> DEFINE e == [tool[p] EXCEPT !.pc = "openCredential", !.policy = x]
    <3>1. tool[p] \in Slot(ToolPcs)
      BY <1>1
    <3>2. e \in Slot(ToolPcs) /\ e.policy = x /\ e.dev = tool[p].dev
      BY <2>4, <3>1
    <3>3. tool' = [tool EXCEPT ![p] = e]
      BY <1>1, <2>1
    <3> HIDE DEF e
    <3> QED BY <1>1, <3>2, <3>3
  <2>7. AgentTypeOK'
    BY <1>1, <2>1, <2>6
  <2>8. SlotsMove(p)
    BY <2>1, <2>5, <2>6 DEF SlotsMove, Known, Own
  <2>9. ASSUME NEW q \in PCs, q # p PROVE SlotsMove(q)
    BY <2>1, <2>6, <2>9, SlotsStay
  <2> QED BY <2>7, <2>8, <2>9 DEF Moved
<1>4. ASSUME NEW from \in ToolPcs \ {"idle"}, NEW to \in ToolPcs \ {"idle"},
             ToolGoto(p, from, to),
             cred' \in [PCs -> Attempts \cup {NoCred, Torn}],
             file' \in [PCs -> Policies \cup {NoPolicy}],
             cred'[p] \in Attempts => cred'[p] = cred[p] \/ cred'[p] = tool[p].dev,
             file'[p] \in Known(p),
             \A q \in PCs \ {p} : cred'[q] = cred[q] /\ file'[q] = file[q]
      PROVE  Moved
  <2>1. /\ tool[p].pc # "idle" /\ tool' = [tool EXCEPT ![p].pc = to]
        /\ UNCHANGED <<version, owner, mem, running, loop, sync>>
    BY <1>4 DEF ToolGoto
  <2>2. /\ tool'[p].policy = tool[p].policy /\ tool'[p].dev = tool[p].dev
        /\ tool' \in [PCs -> Slot(ToolPcs)]
        /\ \A q \in PCs \ {p} : tool'[q] = tool[q]
    BY <1>1, <2>1
  <2>3. AgentTypeOK'
    BY <1>1, <1>4, <2>1, <2>2
  <2>4. SlotsMove(p)
    BY <1>4, <2>1, <2>2 DEF SlotsMove, Known
  <2>5. ASSUME NEW q \in PCs, q # p PROVE SlotsMove(q)
    BY <1>4, <2>1, <2>2, <2>5, SlotsStay
  <2> QED BY <2>3, <2>4, <2>5 DEF Moved
<1>5. /\ ToolOpenCredential(p) \/ ToolWriteCredential(p) => Moved
      /\ ToolOpenPolicy(p) \/ ToolWritePolicy(p) => Moved
      /\ ToolRestart(p) \/ ToolEnds(p) => Moved
  <2>0. tool[p].pc # "idle" => tool[p].dev \in Attempts
    BY DEF AgentInv, HoldInv, Holder
  <2>1. ToolOpenCredential(p) => Moved
    BY <1>1, <1>4 DEF ToolOpenCredential, Known, ToolGoto
  <2>2. ToolWriteCredential(p) => Moved
    BY <1>1, <1>4, <2>0 DEF ToolWriteCredential, Known, ToolGoto
  <2>3. ToolOpenPolicy(p) => Moved
    <3> SUFFICES ASSUME ToolOpenPolicy(p) PROVE Moved
      OBVIOUS
    <3>1. ToolGoto(p, "openPolicy", "writePolicy") /\ cred' = cred
          /\ file' = [file EXCEPT ![p] = NoPolicy]
      BY DEF ToolOpenPolicy
    <3>2. /\ file' \in [PCs -> Policies \cup {NoPolicy}] /\ file'[p] = NoPolicy
          /\ \A q \in PCs \ {p} : file'[q] = file[q]
      BY <1>1, <3>1
    <3> QED BY <1>1, <1>4, <3>1, <3>2 DEF Known
  <2>4. ToolWritePolicy(p) => Moved
    <3> SUFFICES ASSUME ToolWritePolicy(p) PROVE Moved
      OBVIOUS
    <3>1. ToolGoto(p, "writePolicy", "restart") /\ cred' = cred
          /\ file' = [file EXCEPT ![p] = tool[p].policy]
      BY DEF ToolWritePolicy
    <3>2. /\ file' \in [PCs -> Policies \cup {NoPolicy}] /\ file'[p] = tool[p].policy
          /\ \A q \in PCs \ {p} : file'[q] = file[q]
      BY <1>1, <3>1
    <3> QED BY <1>1, <1>4, <3>1, <3>2 DEF Known
  <2>5. ToolRestart(p) => Moved
    <3> SUFFICES ASSUME ToolRestart(p) PROVE Moved
      OBVIOUS
    <3>1. /\ tool' = [tool EXCEPT ![p] = ToolIdle]
          /\ UNCHANGED <<version, owner, cred, file>>
      BY DEF ToolRestart
    <3>2. PICK m \in {mem[p], file[p], NoPolicy}, s \in {sync[p], SyncIdle} :
             mem' = [mem EXCEPT ![p] = m] /\ sync' = [sync EXCEPT ![p] = s]
      BY <1>1 DEF ToolRestart, Start
    <3>3. running' \in [PCs -> BOOLEAN] /\ loop' \in [PCs -> BOOLEAN]
      BY <1>1 DEF ToolRestart, Start
    <3>4. m \in Policies \cup {NoPolicy} /\ s \in Slot({"idle", "build", "save"})
      BY <1>1
    <3>5. AgentTypeOK'
      BY <1>1, <3>1, <3>2, <3>3, <3>4
    <3>6. SlotsMove(p)
      <4>1. tool'[p] = ToolIdle /\ mem'[p] = m /\ sync'[p] = s
        BY <1>1, <3>1, <3>2
      <4>2. cred'[p] = cred[p] /\ file'[p] = file[p]
        BY <3>1
      <4>3. s.policy \in Known(p) /\ m \in Known(p) /\ ToolIdle.policy \in Known(p)
        BY <1>1 DEF Known
      <4>4. s.pc = "idle" \/ s = sync[p]
        BY <1>1
      <4> QED BY <1>1, <4>1, <4>2, <4>3, <4>4 DEF SlotsMove, Known
    <3>7. ASSUME NEW q \in PCs, q # p PROVE SlotsMove(q)
      BY <1>1, <3>1, <3>2, <3>7, SlotsStay
    <3> QED BY <3>5, <3>6, <3>7 DEF Moved
  <2>6. ToolEnds(p) => Moved
    <3> SUFFICES ASSUME ToolEnds(p) PROVE Moved
      OBVIOUS
    <3>1. /\ tool' = [tool EXCEPT ![p] = ToolIdle]
          /\ UNCHANGED <<version, owner, cred, file, mem, running, loop, sync>>
      BY DEF ToolEnds
    <3>2. AgentTypeOK'
      BY <1>1, <3>1
    <3>3. SlotsMove(p)
      <4>1. tool'[p] = ToolIdle
        BY <1>1, <3>1
      <4> QED BY <1>1, <3>1, <4>1 DEF SlotsMove, Known
    <3>4. ASSUME NEW q \in PCs, q # p PROVE SlotsMove(q)
      BY <1>1, <3>1, <3>4, SlotsStay
    <3> QED BY <3>2, <3>3, <3>4 DEF Moved
  <2> QED BY <2>1, <2>2, <2>3, <2>4, <2>5, <2>6
<1> QED BY <1>2, <1>3, <1>5 DEF ToolStep

\* The steps of the protection service
LEMMA ServiceKeeps ==
    ASSUME AgentInv, [AgentNext]_vars, NEW p \in PCs, ServiceStep(p)
    PROVE  Moved
<1> USE AgentAssumption DEF AgentTypeOK, Slot, ToolPcs
<1>1. /\ AgentTypeOK
      /\ ToolIdle \in Slot(ToolPcs) /\ ToolIdle.pc = "idle" /\ ToolIdle.policy = NoPolicy
      /\ SyncIdle \in Slot({"idle", "build", "save"}) /\ SyncIdle.pc = "idle"
      /\ SyncIdle.policy = NoPolicy
  BY DEF AgentInv, ToolIdle, SyncIdle
<1>2. ASSUME SyncReadTorn(p) PROVE Moved
  <2>1. /\ loop' = [loop EXCEPT ![p] = FALSE]
        /\ UNCHANGED <<version, owner, tool, cred, file, mem, running, sync>>
    BY <1>2 DEF SyncReadTorn
  <2>2. AgentTypeOK'
    BY <1>1, <2>1
  <2> QED BY <2>1, <2>2, SlotsStay DEF Moved
<1>3. ASSUME NEW s \in Slot({"idle", "build", "save"}), SyncGoto(p, s),
             mem' \in [PCs -> Policies \cup {NoPolicy}],
             file' \in [PCs -> Policies \cup {NoPolicy}],
             \A q \in PCs \ {p} : mem'[q] = mem[q] /\ file'[q] = file[q],
             mem'[p] \in Known(p), file'[p] \in Known(p),
             s.policy \in Known(p) \/ Own(p, s.policy)',
             \/ s.pc = "idle"
             \/ sync[p].pc # "idle" /\ s.dev = sync[p].dev
             \/ cred[p] \in Attempts /\ Active(cred[p]) /\ s.dev = cred[p]
      PROVE  Moved
  <2>1. /\ sync' = [sync EXCEPT ![p] = s]
        /\ UNCHANGED <<version, owner, tool, cred, running, loop>>
    BY <1>3 DEF SyncGoto
  <2>2. sync' \in [PCs -> Slot({"idle", "build", "save"})] /\ sync'[p] = s
        /\ \A q \in PCs \ {p} : sync'[q] = sync[q]
    BY <1>1, <2>1
  <2>3. AgentTypeOK'
    BY <1>1, <1>3, <2>1, <2>2
  <2>4. SlotsMove(p)
    BY <1>3, <2>1, <2>2 DEF SlotsMove, Known, Own
  <2>5. ASSUME NEW q \in PCs, q # p PROVE SlotsMove(q)
    BY <1>3, <2>1, <2>2, <2>5, SlotsStay
  <2> QED BY <2>3, <2>4, <2>5 DEF Moved
<1>4. ASSUME SyncAuth(p) PROVE Moved
  <2> DEFINE s == [pc |-> "build", dev |-> cred[p], policy |-> NoPolicy]
  <2>1. /\ cred[p] \in Attempts /\ Active(cred[p]) /\ SyncGoto(p, s)
        /\ UNCHANGED <<file, mem>>
    BY <1>4 DEF SyncAuth
  <2>2. s \in Slot({"idle", "build", "save"}) /\ s.dev = cred[p] /\ s.policy = NoPolicy
    BY <2>1
  <2> HIDE DEF s
  <2> QED BY <1>1, <1>3, <2>1, <2>2 DEF Known
<1>5. ASSUME SyncBuild(p), NotModified(p) PROVE Moved
  <2>1. SyncGoto(p, SyncIdle) /\ UNCHANGED <<file, mem>>
    BY <1>5 DEF SyncBuild
  <2> QED BY <1>1, <1>3, <2>1 DEF Known
<1>6. ASSUME SyncBuild(p), ~NotModified(p) PROVE Moved
  <2>1. PICK a : a = sync[p].dev
    OBVIOUS
  <2>2. PICK x : x = PolicyOf(devices[a].child)
    OBVIOUS
  <2>0. PICK s : s = [sync[p] EXCEPT !.pc = "save", !.policy = x]
    OBVIOUS
  <2>3. /\ sync[p].pc = "build" /\ SyncGoto(p, s) /\ UNCHANGED <<file, mem>>
    BY <1>6, <2>0, <2>1, <2>2 DEF SyncBuild
  <2>4. UNCHANGED <<cloudVars, owner>>
    BY <2>3 DEF SyncGoto
  <2>5. Holder(p, a) /\ devices[a] # NoDevice
    BY <2>1, <2>3 DEF AgentInv, HoldInv
  <2>6. x \in Policies /\ x.child = devices[a].child
    <3>1. devices[a] \in DeviceRow
      BY <2>5 DEF AgentInv, CloudInv, TypeOK, Holder
    <3> QED BY <1>1, <2>2, <3>1 DEF PolicyOf, Policies, DeviceRow
  <2>7. Own(p, x)'
    <3>1. a \in Linked(p)' /\ devices'[a].child = x.child
      BY <2>4, <2>5, <2>6 DEF Holder, Linked, cloudVars
    <3> QED BY <3>1 DEF Own
  <2>8. s \in Slot({"idle", "build", "save"}) /\ s.dev = sync[p].dev /\ s.policy = x
    BY <1>1, <2>0, <2>6
  <2>9. mem'[p] \in Known(p) /\ file'[p] \in Known(p)
    BY <2>3 DEF Known
  <2>10. Own(p, s.policy)'
    BY <2>7, <2>8 DEF Own
  <2> QED BY <1>1, <1>3, <2>3, <2>8, <2>9, <2>10
<1>7. ASSUME SyncSave(p) PROVE Moved
  <2>1. /\ file' = [file EXCEPT ![p] = sync[p].policy]
        /\ mem' = [mem EXCEPT ![p] = sync[p].policy]
        /\ SyncGoto(p, SyncIdle)
    BY <1>7 DEF SyncSave
  <2>2. sync[p].policy \in Policies \cup {NoPolicy}
    BY <1>1
  <2>3. /\ mem' \in [PCs -> Policies \cup {NoPolicy}] /\ mem'[p] = sync[p].policy
        /\ file' \in [PCs -> Policies \cup {NoPolicy}] /\ file'[p] = sync[p].policy
        /\ \A q \in PCs \ {p} : mem'[q] = mem[q] /\ file'[q] = file[q]
    BY <1>1, <2>1, <2>2
  <2> QED BY <1>1, <1>3, <2>1, <2>3 DEF Known
<1>8. ASSUME SyncFails(p) PROVE Moved
  <2>1. SyncGoto(p, SyncIdle) /\ UNCHANGED <<file, mem>>
    BY <1>8 DEF SyncFails
  <2> QED BY <1>1, <1>3, <2>1 DEF Known
<1>9. ASSUME Reboot(p) PROVE Moved
  <2>1. /\ tool' = [tool EXCEPT ![p] = ToolIdle]
        /\ sync' = [sync EXCEPT ![p] = SyncIdle]
        /\ mem' = [mem EXCEPT ![p] = file[p]]
        /\ running' = [running EXCEPT ![p] = TRUE]
        /\ loop' = [loop EXCEPT ![p] = TRUE]
        /\ UNCHANGED <<version, owner, cred, file>>
    BY <1>9 DEF Reboot, Start
  <2>2. AgentTypeOK'
    BY <1>1, <2>1
  <2>3. SlotsMove(p)
    <3>1. tool'[p] = ToolIdle /\ sync'[p] = SyncIdle /\ mem'[p] = file[p]
      BY <1>1, <2>1
    <3> QED BY <1>1, <2>1, <3>1 DEF SlotsMove, Known
  <2>4. ASSUME NEW q \in PCs, q # p PROVE SlotsMove(q)
    BY <1>1, <2>1, <2>4, SlotsStay
  <2> QED BY <2>2, <2>3, <2>4 DEF Moved
<1> QED BY <1>2, <1>4, <1>5, <1>6, <1>7, <1>8, <1>9 DEF ServiceStep

LEMMA AgentInvStep ==
    ASSUME AgentInv, [AgentNext]_vars
    PROVE  AgentInv'
<1>1. CloudInv'
  BY CloudSide, CloudInvStep DEF AgentInv
<1>2. ASSUME UNCHANGED <<tool, cred, file, mem, running, loop, sync, owner>>,
             version' \in [Children -> Nat]
      PROVE  Moved
  <2>1. AgentTypeOK'
    BY <1>2 DEF AgentInv, AgentTypeOK
  <2> QED BY <1>2, <2>1, SlotsStay DEF Moved
<1>3. AgentInv => version \in [Children -> Nat]
  BY DEF AgentInv, AgentTypeOK
<1>4. ASSUME UNCHANGED vars PROVE Moved
  BY <1>2, <1>3, <1>4 DEF vars, pcVars
<1>5. ASSUME ConsoleAction PROVE Moved
  BY <1>2, <1>3, <1>5 DEF ConsoleAction, pcVars
<1>6. ASSUME NEW a \in Attempts, WorkerStep(a) PROVE Moved
  BY <1>2, <1>3, <1>6 DEF WorkerStep, pcVars
<1>7. ASSUME NEW c \in Children, ChangePolicy(c) PROVE Moved
  <2>1. version' \in [Children -> Nat]
    BY <1>3, <1>7 DEF ChangePolicy
  <2> QED BY <1>2, <1>7, <2>1 DEF ChangePolicy, pcVars
<1>8. Moved
  <2>1. ASSUME NEW p \in PCs, ToolStep(p) \/ ServiceStep(p) PROVE Moved
    BY <2>1, ToolKeeps, ServiceKeeps
  <2> QED BY <1>4, <1>5, <1>6, <1>7, <2>1 DEF AgentNext
<1> QED BY <1>1, <1>8, SlotsKeepInv DEF Moved, AgentInv

THEOREM AgentInvariant == AgentSpec => []AgentInv
<1>1. AgentInit => AgentInv
  <2> SUFFICES ASSUME AgentInit PROVE AgentInv
    OBVIOUS
  <2>1. TypeOK
    BY EnrollmentAssumption DEF AgentInit, Init, TypeOK, Attempt, Pcs
  <2>2. ClaimInv
    BY EnrollmentAssumption DEF AgentInit, Init, ClaimInv, Claims
  <2>3. OneActiveDevice /\ RegisteredInv
    BY DEF AgentInit, Init, OneActiveDevice, Active, RegisteredInv
  <2>4. AgentTypeOK
    BY AgentAssumption DEF AgentInit, AgentTypeOK, Slot, ToolIdle, SyncIdle, ToolPcs
  <2>5. HoldInv /\ OwnInv
    BY AgentAssumption DEF AgentInit, HoldInv, OwnInv, Own, ToolIdle, SyncIdle
  <2> QED BY <2>1, <2>2, <2>3, <2>4, <2>5 DEF AgentInv, CloudInv
<1>2. AgentInv /\ [AgentNext]_vars => AgentInv'
  BY AgentInvStep
<1> QED BY <1>1, <1>2, PTL DEF AgentSpec

\* Tool, files and service keep their types beside the cloud.
THEOREM AgentTypeCorrect == AgentSpec => []AgentTypeOK
<1>1. AgentInv => AgentTypeOK
  BY DEF AgentInv
<1> QED BY <1>1, AgentInvariant, PTL

\* The composition behaves towards the cloud as Enrollment says: what is proved
\* of the cloud alone holds with the PCs beside it.
THEOREM CloudUnderPCs == AgentSpec => Spec
<1>1. AgentInit => Init
  BY DEF AgentInit
<1>2. AgentInv /\ [AgentNext]_vars => [Next]_cloudVars
  BY CloudSide
<1> QED BY <1>1, <1>2, AgentInvariant, PTL DEF AgentSpec, Spec

\* Linking a second PC to a child cuts the first one off: an attempt, and so its
\* credential, belongs to the PC that posted it, and one device is active.
THEOREM OnePCKeepsTheChild == AgentSpec => []OnePCPerChild
<1>1. AgentInv => OnePCPerChild
  <2> SUFFICES ASSUME AgentInv, NEW p \in PCs, NEW q \in PCs,
                      cred[p] \in Attempts, Active(cred[p]),
                      cred[q] \in Attempts, Active(cred[q]),
                      devices[cred[p]].child = devices[cred[q]].child
               PROVE  p = q
    BY DEF OnePCPerChild
  <2>1. cred[p] = cred[q]
    BY DEF AgentInv, CloudInv, OneActiveDevice
  <2>2. owner[cred[p]] = p /\ owner[cred[q]] = q
    BY DEF AgentInv, HoldInv, Holder
  <2> QED BY <2>1, <2>2
<1> QED BY <1>1, AgentInvariant, PTL

\* A policy a PC enforces or caches is of a child it was linked to, so that a PC
\* linked once has its own child's, through torn writes and failed restarts.
THEOREM OwnChildEnforced == AgentSpec => []LinkedOnceEnforcesOwnChild
<1>1. AgentInv => LinkedOnceEnforcesOwnChild
  BY DEF AgentInv, OwnInv, Own, LinkedOnceEnforcesOwnChild
<1> QED BY <1>1, AgentInvariant, PTL

\* A wrong 304 takes a PC that was moved to another child: while every device a
\* PC was ever linked as is of one child, however often it was linked again,
\* "not modified" means that the PC holds that child's policy.
OneChildEver(p) == \A a, b \in Linked(p) : devices[a].child = devices[b].child

UnmovedNotModified ==
    \A p \in PCs : OneChildEver(p) /\ sync[p].pc = "build" /\ NotModified(p) =>
        mem[p].child = devices[sync[p].dev].child

\* Only moved PCs are told 304 about a policy that is not theirs.
THEOREM OnlyMovedPCsMisled == AgentSpec => []UnmovedNotModified
<1>1. AgentInv => UnmovedNotModified
  <2> SUFFICES ASSUME AgentInv, NEW p \in PCs,
                      OneChildEver(p), sync[p].pc = "build", NotModified(p)
               PROVE  mem[p].child = devices[sync[p].dev].child
    BY DEF UnmovedNotModified
  <2>1. sync[p].dev \in Linked(p)
    BY DEF AgentInv, HoldInv, Holder, Linked
  <2>2. PICK a \in Linked(p) : devices[a].child = mem[p].child
    BY DEF AgentInv, OwnInv, Own, NotModified
  <2> QED BY <2>1, <2>2 DEF OneChildEver
<1> QED BY <1>1, AgentInvariant, PTL

\* What is proved of the cloud alone holds of the cloud that the PCs use: the
\* properties the run checks of the composition, for any number of PCs.
THEOREM CloudKeptUnderPCs ==
    AgentSpec => /\ []TypeOK /\ []OneActiveDevice /\ []ClaimInv /\ []CodeUsedOnce
                 /\ RevokedForGood
                 /\ ImplementsLinking
BY CloudUnderPCs, TypeCorrect, AtMostOneActiveDevice, OneClaimPerCode, CodeMakesOneDevice,
   RevocationIsFinal, EnrollmentLinks, PTL

=============================================================================
