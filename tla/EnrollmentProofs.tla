-------------------------- MODULE EnrollmentProofs --------------------------
(***************************************************************************)
(* Proofs about Enrollment, for any number of codes, attempts and children.*)
(***************************************************************************)
EXTENDS Enrollment, TLAPS

\* Every handler step keeps the type of every variable.
LEMMA EnrollTyped ==
    ASSUME TypeOK, [Next]_cloudVars
    PROVE  TypeOK'
<1> USE EnrollmentAssumption DEF CodeRow, DeviceRow, Attempt, Pcs
<1> USE DEF TypeOK
<1>1. ASSUME NEW k \in Codes, NEW c \in Children, MintCode(k, c) PROVE TypeOK'
  BY <1>1 DEF MintCode
<1>2. ASSUME NEW a \in Attempts, NEW k \in Codes, EnrollLookup(a, k) PROVE TypeOK'
  <2>1. Open(k) => codes[k] \in CodeRow
    BY DEF Open, Exists
  <2>2. CASE Open(k) /\ codes[k].expires > now
    <3>1. attempt' = [attempt EXCEPT ![a] =
                        [pc |-> "found", code |-> k, child |-> codes[k].child]]
      BY <1>2, <2>2 DEF EnrollLookup
    <3>2. codes[k].child \in Children
      BY <2>1, <2>2
    <3> QED BY <1>2, <3>1, <3>2 DEF EnrollLookup
  <2>3. CASE ~(Open(k) /\ codes[k].expires > now)
    <3>1. attempt' = [attempt EXCEPT ![a] =
                        [pc |-> "rejected", code |-> None, child |-> None]]
      BY <1>2, <2>3 DEF EnrollLookup
    <3> QED BY <1>2, <3>1 DEF EnrollLookup
  <2> QED BY <2>2, <2>3
<1>3. ASSUME NEW a \in Attempts, EnrollConsume(a) PROVE TypeOK'
  <2>1. CASE Open(attempt[a].code)
    <3>1. attempt[a].code \in Codes /\ codes[attempt[a].code] \in CodeRow
      BY <1>3, <2>1 DEF EnrollConsume, Open, Exists
    <3>2. codes' = [codes EXCEPT ![attempt[a].code].consumed = TRUE]
      BY <1>3, <2>1 DEF EnrollConsume
    <3>3. codes' \in [Codes -> CodeRow \cup {Unminted, Deleted}]
      BY <3>1, <3>2
    <3>4. /\ attempt' = [attempt EXCEPT ![a].pc = "consumed"]
          /\ attempt[a].pc = "found"
          /\ UNCHANGED <<devices, now>>
      BY <1>3, <2>1 DEF EnrollConsume, Goto
    <3> QED BY <3>3, <3>4
  <2>2. CASE ~Open(attempt[a].code)
    BY <1>3, <2>2 DEF EnrollConsume, Goto
  <2> QED BY <2>1, <2>2
<1>4. ASSUME NEW a \in Attempts, EnrollRegister(a) PROVE TypeOK'
  <2>1. attempt[a].child \in Children
    BY <1>4 DEF EnrollRegister
  <2>2. devices' \in [Attempts -> DeviceRow \cup {NoDevice}]
    BY <1>4, <2>1 DEF EnrollRegister, ActiveOf, Active
  <2> QED BY <1>4, <2>2 DEF EnrollRegister, Goto
<1>5. ASSUME NEW a \in Attempts, EnrollAnswer(a) PROVE TypeOK'
  BY <1>5 DEF EnrollAnswer, Goto
<1>6. ASSUME NEW a \in Attempts, EnrollDies(a) PROVE TypeOK'
  BY <1>6 DEF EnrollDies, Goto
<1>7. ASSUME NEW d \in Attempts, Revoke(d) PROVE TypeOK'
  BY <1>7 DEF Revoke
<1>8. CASE Retention
  BY <1>8 DEF Retention, Exists
<1>9. CASE Tick
  BY <1>9 DEF Tick
<1>10. CASE UNCHANGED cloudVars
  BY <1>10 DEF cloudVars
<1> QED
  BY <1>1, <1>2, <1>3, <1>4, <1>5, <1>6, <1>7, <1>8, <1>9, <1>10
  DEF Next, EnrollStep, ConsoleStep

\* Every variable keeps its type through every handler step.
THEOREM TypeCorrect == Spec => []TypeOK
<1>1. Init => TypeOK
  BY EnrollmentAssumption DEF Init, TypeOK, Attempt, Pcs
<1>2. TypeOK /\ [Next]_cloudVars => TypeOK'
  BY EnrollTyped
<1> QED BY <1>1, <1>2, PTL DEF Spec

-----------------------------------------------------------------------------
\* The batch inserts at most one active device next to none of the same child.
LEMMA OneActiveStep ==
    ASSUME TypeOK, OneActiveDevice, [Next]_cloudVars
    PROVE  OneActiveDevice'
<1> SUFFICES ASSUME NEW d \in Attempts, NEW e \in Attempts,
                    Active(d)', Active(e)', devices'[d].child = devices'[e].child
             PROVE  d = e
  BY DEF OneActiveDevice
<1> USE DEF TypeOK, Active
<1>1. CASE UNCHANGED devices
  BY <1>1 DEF OneActiveDevice
<1>2. ASSUME NEW a \in Attempts, EnrollRegister(a) PROVE d = e
  <2>1. ASSUME NEW x \in Attempts, x # a, Active(x)'
        PROVE  devices'[x] = devices[x] /\ Active(x) /\ devices[x].child # attempt[a].child
    BY <1>2, <2>1 DEF EnrollRegister, ActiveOf, DeviceRow
  <2>2. devices'[a].child = attempt[a].child
    BY <1>2 DEF EnrollRegister
  <2> QED BY <2>1, <2>2 DEF OneActiveDevice
<1>3. ASSUME NEW r \in Attempts, Revoke(r) PROVE d = e
  <2>1. ASSUME NEW x \in Attempts, Active(x)'
        PROVE  Active(x) /\ devices'[x].child = devices[x].child
    BY <1>3, <2>1 DEF Revoke, DeviceRow
  <2> QED BY <2>1 DEF OneActiveDevice
<1> QED
  BY <1>1, <1>2, <1>3 DEF Next, EnrollStep, ConsoleStep, cloudVars, EnrollLookup,
     EnrollConsume, EnrollAnswer, EnrollDies, MintCode, Retention, Tick

\* However enrollments and revocations of one child interleave, at most one of
\* its devices can authenticate.
THEOREM AtMostOneActiveDevice == Spec => []OneActiveDevice
<1>1. Init => OneActiveDevice
  BY DEF Init, OneActiveDevice, Active
<1>2. TypeOK /\ OneActiveDevice /\ [Next]_cloudVars => OneActiveDevice'
  BY OneActiveStep
<1> QED BY <1>1, <1>2, TypeCorrect, PTL DEF Spec

-----------------------------------------------------------------------------
\* A code that is not open stays so: it is consumed, or gone for good.
LEMMA ClosedStaysClosed ==
    ASSUME TypeOK, Next, NEW k \in Codes, codes[k] # Unminted, ~Open(k)
    PROVE  codes'[k] # Unminted /\ ~Open(k)'
<1> USE EnrollmentAssumption DEF TypeOK, Open, Exists, CodeRow
<1>1. ASSUME NEW j \in Codes, NEW c \in Children, MintCode(j, c)
      PROVE  codes'[k] = codes[k]
  BY <1>1 DEF MintCode
<1>2. ASSUME NEW a \in Attempts, EnrollConsume(a) PROVE codes'[k] = codes[k]
  BY <1>2 DEF EnrollConsume
<1>3. CASE Retention
  BY <1>3 DEF Retention
<1>4. CASE UNCHANGED codes
  BY <1>4
<1> QED
  BY <1>1, <1>2, <1>3, <1>4 DEF Next, EnrollStep, ConsoleStep, EnrollLookup,
     EnrollRegister, EnrollAnswer, EnrollDies, Revoke, Tick

\* Goto moves one program counter and nothing else of an attempt.
LEMMA GotoEffect ==
    ASSUME TypeOK, NEW a \in Attempts, NEW pc \in Pcs, Goto(a, pc)
    PROVE  /\ attempt'[a].pc = pc
           /\ \A x \in Attempts : x # a => attempt'[x] = attempt[x]
           /\ \A x \in Attempts : attempt'[x].code = attempt[x].code
BY DEF TypeOK, Goto, Attempt

\* Consuming an open code leaves its row, consumed.
LEMMA ConsumeEffect ==
    ASSUME TypeOK, NEW k \in Codes, Open(k),
           codes' = [codes EXCEPT ![k].consumed = TRUE]
    PROVE  codes'[k] # Unminted /\ ~Open(k)'
<1> USE EnrollmentAssumption DEF TypeOK, Open, Exists
<1>1. codes[k] \in CodeRow
  OBVIOUS
<1>2. codes'[k] = [codes[k] EXCEPT !.consumed = TRUE]
  OBVIOUS
<1>3. codes'[k] \in CodeRow /\ codes'[k].consumed
  BY <1>1, <1>2 DEF CodeRow
<1> QED BY <1>3

\* Revoking a row, alone or in the enroll batch, changes only its revoked_at.
LEMMA RevokedRow ==
    ASSUME NEW row \in DeviceRow
    PROVE  /\ [row EXCEPT !.revoked = TRUE] # NoDevice
           /\ [row EXCEPT !.revoked = TRUE].child = row.child
           /\ [row EXCEPT !.revoked = TRUE].revoked
BY EnrollmentAssumption DEF DeviceRow

\* An attempt's claim on its code appears only with the conditional UPDATE.
LEMMA ClaimInvStep ==
    ASSUME TypeOK, TypeOK', ClaimInv, [Next]_cloudVars
    PROVE  ClaimInv'
<1> USE EnrollmentAssumption DEF TypeOK
<1>1. ASSUME NEW a \in Attempts, NEW k \in Codes, EnrollLookup(a, k) PROVE ClaimInv'
  <2>1. UNCHANGED <<codes, devices>> /\ attempt[a].pc = "new" /\ devices[a] = NoDevice
    BY <1>1 DEF EnrollLookup, ClaimInv
  <2>2. \A x \in Attempts : x # a => attempt'[x] = attempt[x]
    BY <1>1 DEF EnrollLookup
  <2>3. attempt'[a].pc \in {"found", "rejected"}
    BY <1>1 DEF EnrollLookup
  <2>4. attempt'[a].pc = "found" => codes[attempt'[a].code] # Unminted
    BY <1>1 DEF EnrollLookup, Open, Exists
  <2>5. ~Claims(a)'
    BY <2>1, <2>3 DEF Claims
  <2>6. \A x \in Attempts : Claims(x)' => x # a /\ Claims(x)
    BY <2>1, <2>2, <2>5 DEF Claims
  <2> QED BY <2>1, <2>2, <2>3, <2>4, <2>6 DEF ClaimInv, Open, Exists
<1>2. ASSUME NEW a \in Attempts, EnrollConsume(a) PROVE ClaimInv'
  <2>0. PICK k \in Codes : k = attempt[a].code
    BY <1>2 DEF EnrollConsume, Attempt
  <2>1. attempt[a].pc = "found" /\ codes[k] # Unminted
    BY <1>2, <2>0 DEF EnrollConsume, ClaimInv
  <2>2. UNCHANGED devices /\ devices[a] = NoDevice
    BY <1>2, <2>1 DEF EnrollConsume, ClaimInv
  <2>3. \A x \in Attempts : x # a => attempt'[x] = attempt[x]
    BY <1>2, GotoEffect DEF EnrollConsume, Pcs
  <2>4. attempt'[a].code = k
    BY <1>2, <2>0, GotoEffect DEF EnrollConsume, Pcs
  <2>5. \A j \in Codes : codes[j] # Unminted /\ ~Open(j)
                             => codes'[j] # Unminted /\ ~Open(j)'
    BY <1>2, ClosedStaysClosed DEF Next, EnrollStep
  <2>6. \A j \in Codes : codes[j] # Unminted => codes'[j] # Unminted
    <3>1. CASE Open(k)
      <4>1. codes' = [codes EXCEPT ![k].consumed = TRUE]
        BY <1>2, <2>0, <3>1 DEF EnrollConsume
      <4> QED BY <2>1, <3>1, <4>1, ConsumeEffect
    <3>2. CASE ~Open(k)
      BY <1>2, <2>0, <3>2 DEF EnrollConsume
    <3> QED BY <3>1, <3>2
  <2>7. \A x \in Attempts : x # a => (Claims(x)' <=> Claims(x))
    BY <2>2, <2>3 DEF Claims
  <2>8. CASE Open(k)
    <3>1. attempt'[a].pc = "consumed"
      BY <1>2, <2>0, <2>8, GotoEffect DEF EnrollConsume, Pcs
    <3>2. codes'[k] # Unminted /\ ~Open(k)'
      <4>1. codes' = [codes EXCEPT ![k].consumed = TRUE]
        BY <1>2, <2>0, <2>8 DEF EnrollConsume
      <4> QED BY <2>1, <2>8, <4>1, ConsumeEffect
    <3>3. \A x \in Attempts : Claims(x) => attempt[x].code # k
      BY <2>8 DEF ClaimInv
    <3>4. \A x \in Attempts : Claims(x)' =>
              /\ attempt'[x].code # None
              /\ codes'[attempt'[x].code] # Unminted
              /\ ~Open(attempt[x].code)'
      <4>1. ASSUME NEW x \in Attempts, Claims(x)', x # a
            PROVE  /\ attempt'[x] = attempt[x] /\ attempt[x].code \in Codes
                   /\ attempt[x].code # None
                   /\ codes[attempt[x].code] # Unminted /\ ~Open(attempt[x].code)
        BY <2>3, <2>7, <4>1 DEF ClaimInv, Attempt
      <4>2. ASSUME NEW x \in Attempts, Claims(x)', x # a, NEW j \in Codes,
                   j = attempt[x].code
            PROVE  /\ attempt'[x].code = j
                   /\ codes'[j] # Unminted /\ ~Open(j)'
        BY <2>5, <4>1, <4>2
      <4> QED BY <2>4, <3>2, <4>1, <4>2 DEF Open, Exists
    <3>5. \A x, y \in Attempts :
              Claims(x)' /\ Claims(y)' /\ attempt'[x].code = attempt'[y].code => x = y
      BY <2>3, <2>4, <2>7, <3>3 DEF ClaimInv
    <3>6. \A x \in Attempts :
              /\ attempt'[x].pc \in {"new", "found", "consumed", "rejected"}
                    => devices'[x] = NoDevice
              /\ attempt'[x].pc = "found" => codes'[attempt'[x].code] # Unminted
      BY <2>2, <2>3, <2>6, <3>1 DEF ClaimInv, Attempt
    <3> QED BY <3>4, <3>5, <3>6 DEF ClaimInv
  <2>9. CASE ~Open(k)
    <3>1. attempt'[a].pc = "rejected" /\ UNCHANGED codes
      BY <1>2, <2>0, <2>9, GotoEffect DEF EnrollConsume, Pcs
    <3>2. ~Claims(a)'
      BY <2>2, <3>1 DEF Claims
    <3>3. \A x \in Attempts : Claims(x)' => Claims(x) /\ attempt'[x] = attempt[x]
      BY <2>3, <2>7, <3>2
    <3>4. \A x \in Attempts : attempt'[x].pc \in {"new", "found", "consumed", "rejected"}
                                 => devices'[x] = NoDevice
      BY <2>2, <2>3 DEF ClaimInv
    <3>5. \A x \in Attempts : attempt'[x].pc = "found" => codes'[attempt'[x].code] # Unminted
      BY <2>3, <3>1 DEF ClaimInv
    <3>6. \A x \in Attempts : Claims(x)' => /\ attempt'[x].code # None
                                           /\ codes'[attempt'[x].code] # Unminted
                                           /\ ~Open(attempt[x].code)'
      BY <3>1, <3>3 DEF ClaimInv, Open, Exists
    <3>7. \A x, y \in Attempts :
              Claims(x)' /\ Claims(y)' /\ attempt'[x].code = attempt'[y].code => x = y
      BY <3>3 DEF ClaimInv
    <3> QED BY <3>4, <3>5, <3>6, <3>7 DEF ClaimInv
  <2> QED BY <2>8, <2>9
<1>3. ASSUME NEW a \in Attempts, EnrollRegister(a) \/ EnrollAnswer(a) \/ EnrollDies(a)
      PROVE  ClaimInv'
  <2>1. UNCHANGED codes /\ attempt[a].pc \in {"found", "consumed", "registered"}
    BY <1>3 DEF EnrollRegister, EnrollAnswer, EnrollDies
  <2>0. Goto(a, "registered") \/ Goto(a, "answered") \/ Goto(a, "dead")
    BY <1>3 DEF EnrollRegister, EnrollAnswer, EnrollDies
  <2>2. attempt'[a].pc \in {"registered", "answered", "dead"}
    BY <2>0, GotoEffect DEF Pcs
  <2>3. \A x \in Attempts : attempt'[x].code = attempt[x].code
    BY <2>0, GotoEffect DEF Pcs
  <2>4. \A x \in Attempts : x # a => attempt'[x].pc = attempt[x].pc
    BY <2>0, GotoEffect DEF Pcs
  <2>5. \A x \in Attempts : x # a => (devices'[x] = NoDevice <=> devices[x] = NoDevice)
    <3>1. ASSUME NEW x \in Attempts, x # a
          PROVE  \/ devices'[x] = devices[x]
                 \/ /\ devices[x] # NoDevice
                    /\ devices'[x] = [devices[x] EXCEPT !.revoked = TRUE]
      BY <1>3, <3>1 DEF EnrollRegister, EnrollAnswer, EnrollDies, ActiveOf, Active
    <3> QED BY <3>1, RevokedRow
  <2>6. Claims(a)' => Claims(a)
    <3>1. CASE EnrollRegister(a) \/ EnrollAnswer(a)
      BY <3>1 DEF EnrollRegister, EnrollAnswer, Claims
    <3>2. CASE EnrollDies(a)
      <4>1. attempt'[a].pc = "dead" /\ UNCHANGED devices
        BY <3>2, GotoEffect DEF EnrollDies, Pcs
      <4> QED BY <4>1 DEF Claims
    <3> QED BY <1>3, <3>1, <3>2
  <2>7. \A x \in Attempts : Claims(x)' => Claims(x)
    BY <2>4, <2>5, <2>6 DEF Claims
  <2>8. \A x \in Attempts :
            /\ attempt'[x].pc \in {"new", "found", "consumed", "rejected"}
                  => devices'[x] = NoDevice
            /\ attempt'[x].pc = "found" => codes'[attempt'[x].code] # Unminted
    BY <2>1, <2>2, <2>3, <2>4, <2>5 DEF ClaimInv
  <2> QED BY <2>1, <2>3, <2>7, <2>8 DEF ClaimInv, Open, Exists
<1>4. CASE ConsoleStep
  <2>1. UNCHANGED attempt
    BY <1>4 DEF ConsoleStep, MintCode, Revoke, Retention, Tick
  <2>2. \A x \in Attempts : devices'[x] = NoDevice <=> devices[x] = NoDevice
    <3>1. ASSUME NEW r \in Attempts, Revoke(r), NEW x \in Attempts
          PROVE  \/ devices'[x] = devices[x]
                 \/ /\ devices[x] # NoDevice
                    /\ devices'[x] = [devices[x] EXCEPT !.revoked = TRUE]
      BY <3>1 DEF Revoke
    <3>2. CASE UNCHANGED devices
      BY <3>2
    <3> QED BY <1>4, <3>1, <3>2, RevokedRow
            DEF ConsoleStep, MintCode, Retention, Tick
  <2>3. \A j \in Codes : codes[j] # Unminted => codes'[j] # Unminted
    BY <1>4 DEF ConsoleStep, MintCode, Revoke, Retention, Tick, CodeRow
  <2>4. \A j \in Codes : codes[j] # Unminted /\ ~Open(j)
                             => codes'[j] # Unminted /\ ~Open(j)'
    BY <1>4, ClosedStaysClosed DEF Next
  <2>5. \A x \in Attempts : Claims(x)' <=> Claims(x)
    BY <2>1, <2>2 DEF Claims
  <2>6. \A x \in Attempts : attempt[x].pc = "found" => attempt[x].code \in Codes
    BY DEF Attempt
  <2>7. \A x \in Attempts : attempt[x].code # None => attempt[x].code \in Codes
    BY DEF Attempt
  <2> QED BY <2>1, <2>2, <2>3, <2>4, <2>5, <2>6, <2>7 DEF ClaimInv
<1>5. CASE UNCHANGED cloudVars
  BY <1>5 DEF cloudVars, ClaimInv, Claims, Open, Exists
<1> QED BY <1>1, <1>2, <1>3, <1>4, <1>5 DEF Next, EnrollStep

\* The inductive invariant: a claimed code is closed for good, and claimed once,
\* from the conditional UPDATE that made the claim to the end of its attempt.
THEOREM OneClaimPerCode == Spec => []ClaimInv
<1>1. Init => ClaimInv
  BY EnrollmentAssumption DEF Init, ClaimInv, Claims
<1>2. TypeOK /\ TypeOK' /\ ClaimInv /\ [Next]_cloudVars => ClaimInv'
  BY ClaimInvStep
<1> QED BY <1>1, <1>2, TypeCorrect, PTL DEF Spec

\* However attempts with one code interleave, with each other, with retention
\* and with dying invocations, at most one of them gets a device.
THEOREM CodeMakesOneDevice == Spec => []CodeUsedOnce
<1>1. ClaimInv => CodeUsedOnce
  BY DEF ClaimInv, CodeUsedOnce, Claims
<1> QED BY <1>1, OneClaimPerCode, PTL

\* A device row, once inserted, stays, with its child and its revocation.
LEMMA DeviceKept ==
    ASSUME TypeOK, ClaimInv, [Next]_cloudVars, NEW d \in Attempts, devices[d] # NoDevice
    PROVE  /\ devices'[d] # NoDevice
           /\ devices'[d].child = devices[d].child
           /\ devices[d].revoked => devices'[d].revoked
<1> USE EnrollmentAssumption DEF TypeOK
<1>0. devices[d] \in DeviceRow
  OBVIOUS
<1>1. ASSUME NEW a \in Attempts, EnrollRegister(a)
      PROVE  /\ devices'[d] # NoDevice
             /\ devices'[d].child = devices[d].child
             /\ devices[d].revoked => devices'[d].revoked
  <2>1. d # a
    BY <1>1 DEF EnrollRegister, ClaimInv
  <2>2. devices'[d] \in {devices[d], [devices[d] EXCEPT !.revoked = TRUE]}
    BY <1>1, <2>1 DEF EnrollRegister
  <2> QED BY <1>0, <2>2 DEF DeviceRow
<1>2. ASSUME NEW r \in Attempts, Revoke(r)
      PROVE  /\ devices'[d] # NoDevice
             /\ devices'[d].child = devices[d].child
             /\ devices[d].revoked => devices'[d].revoked
  <2>1. devices'[d] \in {devices[d], [devices[d] EXCEPT !.revoked = TRUE]}
    BY <1>2 DEF Revoke
  <2> QED BY <1>0, <2>1 DEF DeviceRow
<1>3. CASE UNCHANGED devices
  BY <1>3
<1> QED
  BY <1>1, <1>2, <1>3 DEF Next, EnrollStep, ConsoleStep, EnrollLookup,
     EnrollConsume, EnrollAnswer, EnrollDies, MintCode, Retention, Tick, cloudVars

\* Revocation is final and a device never changes child.
THEOREM RevocationIsFinal == Spec => RevokedForGood
<1>1. TypeOK /\ ClaimInv /\ [Next]_cloudVars
         => [\A d \in Attempts : devices[d] # NoDevice =>
               /\ devices'[d] # NoDevice
               /\ devices'[d].child = devices[d].child
               /\ devices[d].revoked => devices'[d].revoked]_cloudVars
  BY DeviceKept
<1> QED BY <1>1, OneClaimPerCode, TypeCorrect, PTL DEF Spec, RevokedForGood

-----------------------------------------------------------------------------
\* What the abstract specification sees of a step, when no row changes but the
\* codes of devices that exist stay what they are: nothing.
LEMMA SameLinks ==
    ASSUME UNCHANGED devices,
           \A d \in EverLinked : attempt'[d].code = attempt[d].code
    PROVE  UNCHANGED Links!linkVars
<1>1. EverLinked' = EverLinked
  BY DEF EverLinked
<1>2. {attempt[d].code : d \in EverLinked}' = {attempt[d].code : d \in EverLinked}
  BY <1>1
<1>3. {<<devices[d].child, d>> : d \in {e \in Attempts : Active(e)}}'
        = {<<devices[d].child, d>> : d \in {e \in Attempts : Active(e)}}
  BY DEF Active
<1> QED BY <1>1, <1>2, <1>3 DEF Links!linkVars

\* The batch of POST /enroll is the step that links a device.
LEMMA RegisterLinks ==
    ASSUME TypeOK, TypeOK', ClaimInv, NEW a \in Attempts, EnrollRegister(a)
    PROVE  Links!Link(a)
<1> USE EnrollmentAssumption DEF TypeOK
<1> DEFINE c == attempt[a].child
           k == attempt[a].code
<1>1. c \in Children /\ k \in Codes /\ devices[a] = NoDevice /\ Claims(a)
  BY DEF EnrollRegister, ClaimInv, Claims, Attempt
<1>2. \A d \in Attempts : attempt'[d].code = attempt[d].code
  BY GotoEffect DEF EnrollRegister, Pcs
<1>3. ASSUME NEW d \in Attempts, d # a
      PROVE  /\ devices'[d] # NoDevice <=> devices[d] # NoDevice
             /\ Active(d)' <=> Active(d) /\ devices[d].child # c
             /\ devices[d] # NoDevice => devices'[d].child = devices[d].child
  <2>1. CASE d \in ActiveOf(c)
    <3>1. devices[d] \in DeviceRow /\ devices[d].child = c
      BY <2>1 DEF ActiveOf, Active
    <3>2. devices'[d] = [devices[d] EXCEPT !.revoked = TRUE]
      BY <1>3, <2>1 DEF EnrollRegister
    <3> QED BY <3>1, <3>2, RevokedRow DEF Active
  <2>2. CASE d \notin ActiveOf(c)
    <3>1. devices'[d] = devices[d]
      BY <1>3, <2>2 DEF EnrollRegister
    <3>2. ~(Active(d) /\ devices[d].child = c)
      BY <2>2 DEF ActiveOf
    <3> QED BY <3>1, <3>2 DEF Active
  <2> QED BY <2>1, <2>2
<1>4. devices'[a] = [child |-> c, revoked |-> FALSE]
  BY DEF EnrollRegister
<1>5. devices'[a] # NoDevice /\ Active(a)' /\ devices'[a].child = c
  <2>1. devices'[a] \in DeviceRow
    BY <1>1, <1>4 DEF DeviceRow
  <2>2. devices'[a] # NoDevice
    BY <2>1
  <2>3. devices'[a].revoked = FALSE /\ devices'[a].child = c
    BY <1>4
  <2> QED BY <2>2, <2>3 DEF Active
<1>6. a \notin EverLinked /\ EverLinked' = EverLinked \cup {a}
  BY <1>1, <1>3, <1>5 DEF EverLinked
<1>7. /\ k \notin {attempt[d].code : d \in EverLinked}
      /\ {attempt[d].code : d \in EverLinked}'
            = {attempt[d].code : d \in EverLinked} \cup {k}
  <2>1. \A d \in EverLinked : attempt[d].code # k
    BY <1>1, <1>6 DEF EverLinked, ClaimInv, Claims
  <2>2. EverLinked \subseteq Attempts
    BY DEF EverLinked
  <2>3. {attempt[d].code : d \in EverLinked}' = {attempt'[d].code : d \in EverLinked \cup {a}}
    BY <1>6
  <2>4. {attempt'[d].code : d \in EverLinked \cup {a}}
          = {attempt[d].code : d \in EverLinked \cup {a}}
    BY <1>2, <2>2
  <2>5. {attempt[d].code : d \in EverLinked \cup {a}}
          = {attempt[d].code : d \in EverLinked} \cup {k}
    OBVIOUS
  <2>6. k \notin {attempt[d].code : d \in EverLinked}
    BY <2>1
  <2> QED BY <2>3, <2>4, <2>5, <2>6
<1>8. {<<devices[d].child, d>> : d \in {e \in Attempts : Active(e)}}'
        = Links!OfOthers(c) \cup {<<c, a>>}
  <2> DEFINE L == {<<devices[d].child, d>> : d \in {e \in Attempts : Active(e)}}
  <2>1. L' = {<<devices'[d].child, d>> : d \in {e \in Attempts : Active(e)'}}
    OBVIOUS
  <2>2. {e \in Attempts : Active(e)'}
          = {e \in Attempts : Active(e) /\ devices[e].child # c} \cup {a}
    BY <1>1, <1>3, <1>5 DEF Active
  <2>3. \A d \in Attempts : Active(d) => d # a /\ devices'[d].child = devices[d].child
    BY <1>1, <1>3 DEF Active
  <2>4. L' = {<<devices[d].child, d>> : d \in {e \in Attempts : Active(e) /\ devices[e].child # c}}
               \cup {<<c, a>>}
    BY <1>5, <2>1, <2>2, <2>3
  <2>5. Links!OfOthers(c) = {link \in L : link[1] # c}
    BY DEF Links!OfOthers
  <2>6. {link \in L : link[1] # c}
          = {<<devices[d].child, d>> : d \in {e \in Attempts : Active(e) /\ devices[e].child # c}}
    OBVIOUS
  <2> QED BY <2>4, <2>5, <2>6
<1> QED BY <1>1, <1>6, <1>7, <1>8 DEF Links!Link

\* Revoking the device of a child unlinks the child: no other device was linked.
LEMMA RevokeUnlinks ==
    ASSUME TypeOK, OneActiveDevice, NEW r \in Attempts, Revoke(r),
           NEW c \in Children, c = devices[r].child
    PROVE  UNCHANGED Links!linkVars \/ Links!Unlink(c)
<1> USE EnrollmentAssumption DEF TypeOK
<1> DEFINE L == {<<devices[d].child, d>> : d \in {e \in Attempts : Active(e)}}
<1>1. devices[r] \in DeviceRow
  BY DEF Revoke
<1>2. devices'[r] = [devices[r] EXCEPT !.revoked = TRUE]
  BY DEF Revoke
<1>3. \A d \in Attempts : d # r => devices'[d] = devices[d]
  BY DEF Revoke
<1>4. EverLinked' = EverLinked
  BY <1>1, <1>2, <1>3, RevokedRow DEF EverLinked, Revoke
<1>5. {attempt[d].code : d \in EverLinked}' = {attempt[d].code : d \in EverLinked}
  BY <1>4 DEF Revoke
<1>6. CASE Active(r)
  <2>1. \A d \in Attempts : Active(d)' <=> Active(d) /\ devices[d].child # c
    BY <1>1, <1>2, <1>3, <1>6, RevokedRow DEF Active, OneActiveDevice
  <2>2. \A d \in Attempts : Active(d)' => devices'[d].child = devices[d].child
    BY <1>1, <1>2, <1>3, RevokedRow
  <2>3. L' = {<<devices'[d].child, d>> : d \in {e \in Attempts : Active(e)'}}
    OBVIOUS
  <2>4. L' = {<<devices[d].child, d>> : d \in {e \in Attempts : Active(e) /\ devices[e].child # c}}
    BY <2>1, <2>2, <2>3
  <2>5. {link \in L : link[1] # c}
          = {<<devices[d].child, d>> : d \in {e \in Attempts : Active(e) /\ devices[e].child # c}}
    OBVIOUS
  <2>6. Links!OfOthers(c) = {link \in L : link[1] # c}
    BY DEF Links!OfOthers
  <2>7. Links!Unlink(c)
    BY <1>4, <1>5, <2>4, <2>5, <2>6 DEF Links!Unlink
  <2> QED BY <2>7
<1>7. CASE ~Active(r)
  <2>1. devices[r].revoked = TRUE
    BY <1>1, <1>7 DEF Active, Revoke, DeviceRow
  <2>2. devices' = devices
    BY <1>1, <1>2, <1>3, <2>1 DEF Revoke, DeviceRow
  <2> QED BY <2>2, SameLinks DEF Revoke
<1> QED BY <1>6, <1>7

\* POST /enroll implements the abstract linking, for any number of children,
\* codes and attempts: every step of the worker links one device, unlinks one
\* child, or changes nothing the abstract specification can see.
THEOREM EnrollmentLinks == Spec => ImplementsLinking
<1>1. Init => Links!LinkInit
  BY EnrollmentAssumption DEF Init, Links!LinkInit, EverLinked, Active
<1>2. TypeOK /\ TypeOK' /\ ClaimInv /\ OneActiveDevice /\ [Next]_cloudVars
         => [Links!LinkNext]_(Links!linkVars)
  <2> SUFFICES ASSUME TypeOK, TypeOK', ClaimInv, OneActiveDevice, [Next]_cloudVars
               PROVE  Links!LinkNext \/ UNCHANGED Links!linkVars
    OBVIOUS
  <2>1. ASSUME NEW a \in Attempts, NEW k \in Codes, EnrollLookup(a, k)
        PROVE  UNCHANGED Links!linkVars
    <3>1. devices[a] = NoDevice /\ UNCHANGED devices
      BY <2>1 DEF EnrollLookup, ClaimInv
    <3>2. \A d \in EverLinked : attempt'[d] = attempt[d]
      BY <2>1, <3>1 DEF EnrollLookup, EverLinked, TypeOK
    <3> QED BY <3>1, <3>2, SameLinks
  <2>2. ASSUME NEW a \in Attempts, EnrollConsume(a) \/ EnrollAnswer(a) \/ EnrollDies(a)
        PROVE  UNCHANGED Links!linkVars
    <3>1. \E pc \in Pcs : Goto(a, pc)
      BY <2>2 DEF EnrollConsume, EnrollAnswer, EnrollDies, Pcs
    <3>2. \A d \in Attempts : attempt'[d].code = attempt[d].code
      BY <3>1, GotoEffect
    <3>3. UNCHANGED devices
      BY <2>2 DEF EnrollConsume, EnrollAnswer, EnrollDies
    <3> QED BY <3>2, <3>3, SameLinks DEF EverLinked
  <2>3. ASSUME NEW a \in Attempts, EnrollRegister(a) PROVE Links!LinkNext
    BY <2>3, RegisterLinks DEF Links!LinkNext
  <2>4. ASSUME NEW r \in Attempts, Revoke(r)
        PROVE  Links!LinkNext \/ UNCHANGED Links!linkVars
    <3>1. PICK c \in Children : c = devices[r].child
      BY <2>4, EnrollmentAssumption DEF Revoke, TypeOK, DeviceRow
    <3> QED BY <2>4, <3>1, RevokeUnlinks DEF Links!LinkNext
  <2>5. CASE UNCHANGED <<devices, attempt>>
    BY <2>5, SameLinks
  <2> QED BY <2>1, <2>2, <2>3, <2>4, <2>5
          DEF Next, EnrollStep, ConsoleStep, MintCode, Retention, Tick, cloudVars
<1> QED BY <1>1, <1>2, TypeCorrect, OneClaimPerCode, AtMostOneActiveDevice, PTL
        DEF Spec, ImplementsLinking, Links!LinkSpec
=============================================================================
