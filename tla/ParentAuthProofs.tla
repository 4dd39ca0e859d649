-------------------------- MODULE ParentAuthProofs --------------------------
(***************************************************************************)
(* Proofs about ParentAuth, for any number of attempts and requests and    *)
(* any limits.                                                             *)
(***************************************************************************)
EXTENDS ParentAuth, TLAPS

USE DEF vars, Exists, Become, Read, Unissued

AttemptRow == [pc : AttemptPcs, pin : Secrets, at : Nat]

\* A handler that moves on, with a new time, stays well typed.
LEMMA MoveType ==
    ASSUME attempt \in [Attempts -> AttemptRow],
           NEW a \in Attempts, NEW pc \in AttemptPcs, NEW m \in Nat
    PROVE  [attempt EXCEPT ![a].pc = pc, ![a].at = m] \in [Attempts -> AttemptRow]
<1>1. [attempt[a] EXCEPT !.pc = pc, !.at = m] \in AttemptRow
  BY DEF AttemptRow
<1>2. [attempt EXCEPT ![a] = [attempt[a] EXCEPT !.pc = pc, !.at = m]] \in [Attempts -> AttemptRow]
  BY <1>1
<1>3. QED
  BY <1>2

\* A touch and a TOTP confirmation write one column each.
LEMMA EditedRow ==
    ASSUME NEW x \in Row, NEW y, NEW m \in Nat,
           y = [x EXCEPT !.used = m] \/ y = [x EXCEPT !.totp = TRUE]
    PROVE  /\ y \in Row /\ y # NoRow
           /\ y.token = x.token /\ y.key = x.key /\ y.expires = x.expires
           /\ y = [x EXCEPT !.used = m] => y.used = m
  BY NoRowAssumption DEF Row

\* Type correctness of the account: a handler past its lookup, and a touch or a
\* TOTP confirmation under way, find the row still there.
THEOREM TypeCorrect == Spec => []TypeOK
<1>0. None \in Secrets /\ Given \in Secrets /\ \A a \in Attempts : a \in Secrets
  BY DEF Secrets
<1>1. Init => TypeOK
  <2> SUFFICES ASSUME Init PROVE TypeOK
    OBVIOUS
  <2>1. row \in Row \cup {NoRow}
    <3>1. \A b \in BOOLEAN : [Blank EXCEPT !.pin = Given, !.legacy = TRUE, !.key = Given,
                                          !.totp = b, !.token = Given] \in Row
      BY <1>0 DEF Blank, Row
    <3>2. QED
      BY <3>1 DEF Init
  <2>2. QED
    BY <1>0, <2>1 DEF Init, TypeOK, Free, AttemptPcs
<1>2. TypeOK /\ [Next]_vars => TypeOK'
  <2> SUFFICES ASSUME TypeOK, [Next]_vars PROVE TypeOK'
    OBVIOUS
  <2> USE AuthAssumption, NoRowAssumption, <1>0 DEF TypeOK, AttemptPcs
  <2>1. Blank \in Row
    BY DEF Blank, Row
  <2>2. \A x \in Row, a \in Attempts : WithPin(x, a) \in Row
    BY DEF WithPin, Row
  <2>3. \A x \in Row, a \in Attempts, m \in Nat : WithSession(x, a, m) \in Row
    <3> SUFFICES ASSUME NEW x \in Row, NEW a \in Attempts, NEW m \in Nat
                 PROVE  WithSession(x, a, m) \in Row
      OBVIOUS
    <3>1. m + AbsoluteTTL \in Nat
      OBVIOUS
    <3>2. QED
      BY <3>1 DEF WithSession, Row
  <2>4. CASE Provision
    BY <2>1, <2>4 DEF Provision
  <2>5. ASSUME NEW a \in Attempts, AttemptStep(a) PROVE TypeOK'
    <3> DEFINE Stored(x, pc) ==
            \E m \in 0 .. now : Store(a, m, pc) /\ row' = WithSession(x, a, m)
    <3>1. ASSUME NEW x \in Row, NEW pc \in AttemptPcs, Stored(x, pc),
                 UNCHANGED <<request, now>>
          PROVE  TypeOK'
      <4>1. PICK m \in 0 .. now : Store(a, m, pc) /\ row' = WithSession(x, a, m)
        BY <3>1
      <4>2. row' \in Row
        BY <2>3, <4>1
      <4>3. /\ attempt' = [attempt EXCEPT ![a].pc = pc, ![a].at = m]
            /\ use' = [use EXCEPT ![a] = m]
            /\ m \in Nat
        BY <4>1 DEF Store
      <4>4. /\ attempt' \in [Attempts -> [pc : AttemptPcs, pin : Secrets, at : Nat]]
            /\ use' \in [Attempts -> Nat \cup {Unissued}]
        BY <4>3, MoveType DEF AttemptRow
      <4>5. Exists'
        BY <4>2
      <4>6. QED
        BY <3>1, <4>2, <4>4, <4>5
    <3>2. CASE SignupRead(a)
      <4>1. \/ Read(a, "insert") \/ Read(a, "refused")
            \/ Exists /\ Read(a, "attach")
        BY <3>2 DEF SignupRead
      <4>2. UNCHANGED <<row, request, use, now>>
        BY <3>2 DEF SignupRead
      <4>3. QED
        BY <4>1, <4>2
    <3>3. CASE SignupInsert(a)
      <4>1. [Blank EXCEPT !.pin = a, !.key = a] \in Row
        BY <1>0 DEF Blank, Row
      <4>2. CASE Exists
        BY <3>3, <4>2 DEF SignupInsert
      <4>3. CASE ~Exists
        <5>1. Stored([Blank EXCEPT !.pin = a, !.key = a], "done") /\ UNCHANGED <<request, now>>
          BY <3>3, <4>3 DEF SignupInsert
        <5>2. QED
          BY <3>1, <4>1, <5>1
      <4>4. QED
        BY <4>2, <4>3
    <3>4. CASE Attach(a)
      <4>1. [WithPin(row, a) EXCEPT !.key = a, !.totp = FALSE] \in Row
        BY <3>4 DEF Attach, WithPin, Row
      <4>2. Stored([WithPin(row, a) EXCEPT !.key = a, !.totp = FALSE], "done")
        BY <3>4 DEF Attach
      <4>3. QED
        BY <3>1, <3>4, <4>1, <4>2 DEF Attach
    <3>5. CASE SetupCount(a)
      BY <3>5 DEF SetupCount
    <3>6. CASE SetupProvision(a)
      <4>1. row' \in Row /\ Read(a, "attach") /\ UNCHANGED <<request, use, now>>
        BY <2>1, <3>6 DEF SetupProvision
      <4>2. Exists'
        BY <4>1
      <4>3. attempt' \in [Attempts -> [pc : AttemptPcs, pin : Secrets, at : Nat]]
        BY <4>1, MoveType DEF AttemptRow
      <4>4. QED
        BY <4>1, <4>2, <4>3
    <3>7. CASE LoginRead(a)
      <4>1. row.pin \in Secrets
        BY <3>7 DEF LoginRead, HasPin, Row
      <4>2. PICK pc \in {"rehash", "issue"} :
              attempt' = [attempt EXCEPT ![a] = [pc |-> pc, pin |-> row.pin, at |-> now]]
        BY <3>7 DEF LoginRead
      <4>3. QED
        BY <3>7, <4>1, <4>2 DEF LoginRead, HasPin
    <3>8. CASE LoginRehash(a)
      <4>1. row' \in Row
        BY <3>8 DEF LoginRehash, WithPin, Row
      <4>2. QED
        BY <3>8, <4>1 DEF LoginRehash
    <3>9. CASE LoginIssue(a)
      <4>1. row \in Row /\ Stored(row, "done") /\ UNCHANGED <<request, now>>
        BY <3>9 DEF LoginIssue
      <4>2. QED
        BY <3>1, <4>1
    <3>10. CASE RecoverRead(a)
      <4>1. attempt' \in [Attempts -> [pc : AttemptPcs, pin : Secrets, at : Nat]]
        BY <3>10, MoveType DEF RecoverRead, AttemptRow
      <4>2. QED
        BY <3>10, <4>1 DEF RecoverRead
    <3>11. CASE RecoverReplace(a)
      <4>1. [WithPin(row, a) EXCEPT !.key = a] \in Row
        BY <3>11 DEF RecoverReplace, WithPin, Row
      <4>2. Stored([WithPin(row, a) EXCEPT !.key = a], "done") /\ UNCHANGED <<request, now>>
        BY <3>11 DEF RecoverReplace
      <4>3. QED
        BY <3>1, <4>1, <4>2
    <3>12. CASE TotpRecoverRead(a)
      <4>1. attempt' \in [Attempts -> [pc : AttemptPcs, pin : Secrets, at : Nat]]
        BY <3>12, MoveType DEF TotpRecoverRead, AttemptRow
      <4>2. QED
        BY <3>12, <4>1 DEF TotpRecoverRead
    <3>13. CASE TotpRecoverIssue(a)
      <4>1. row \in Row /\ Stored(row, "totpPin") /\ UNCHANGED <<request, now>>
        BY <3>13 DEF TotpRecoverIssue
      <4>2. QED
        BY <3>1, <4>1
    <3>14. CASE TotpRecoverPin(a)
      <4>1. row' \in Row
        BY <2>2, <3>14 DEF TotpRecoverPin
      <4>2. QED
        BY <3>14, <4>1 DEF TotpRecoverPin
    <3>15. CASE AttemptDies(a)
      BY <3>15 DEF AttemptDies
    <3>16. QED
      BY <2>5, <3>2, <3>3, <3>4, <3>5, <3>6, <3>7, <3>8, <3>9, <3>10, <3>11,
         <3>12, <3>13, <3>14, <3>15 DEF AttemptStep
  <2>6. ASSUME NEW r \in Requests, RequestStep(r) PROVE TypeOK'
    <3> USE DEF Free
    <3>1. ASSUME NEW t \in Attempts, RequestAccepted(r, t) \/ ConfirmRead(r, t)
          PROVE  TypeOK'
      BY <3>1 DEF RequestAccepted, ConfirmRead, Presents, Hold, Accept
    <3>2. ASSUME NEW t \in Attempts \cup {Given}, RequestExpired(r, t) \/ Logout(r, t)
          PROVE  TypeOK'
      BY <3>2 DEF RequestExpired, Logout, Presents, Hold
    <3>3. CASE RequestTouch(r)
      BY <3>3 DEF RequestTouch, Row
    <3>4. CASE RequestClear(r)
      <4>1. row' \in Row \cup {NoRow} /\ (Exists => row' \in Row)
        BY <3>4 DEF RequestClear, Row
      <4>2. QED
        BY <3>4, <4>1 DEF RequestClear
    <3>5. CASE ConfirmWrite(r)
      BY <3>5 DEF ConfirmWrite, Row
    <3>6. CASE RequestDies(r)
      BY <3>6 DEF RequestDies
    <3>7. QED
      BY <2>6, <3>1, <3>2, <3>3, <3>4, <3>5, <3>6 DEF RequestStep
  <2>7. CASE Tick
    BY <2>7 DEF Tick
  <2>8. CASE UNCHANGED vars
    BY <2>8
  <2>9. QED
    BY <2>4, <2>5, <2>6, <2>7, <2>8 DEF Next
<1>3. QED
  BY <1>1, <1>2, PTL DEF Spec

-----------------------------------------------------------------------------
\* A step of an attempt that leaves the session of the row alone.
LEMMA MoveKeeps ==
    ASSUME TypeOK, SessionInv, NEW a \in Attempts, UNCHANGED <<request, use, now>>,
           Session' = Session,
           Session # None => row'.expires = row.expires /\ row'.used = row.used,
           \A b \in Attempts \ {a} : attempt'[b] = attempt[b],
           attempt'[a].pc \in BeforeStore => attempt[a].pc \in BeforeStore,
           \/ attempt'[a].at = attempt[a].at
           \/ attempt[a].pc \in BeforeStore /\ attempt'[a].at = now
    PROVE  SessionInv'
<1> USE AuthAssumption DEF SessionInv
<1>1. \A b \in Attempts : b # None
  OBVIOUS
<1>2. now <= now /\ use'= use /\ now' = now
  BY DEF TypeOK
<1>3. ASSUME NEW b \in Attempts
      PROVE  /\ attempt'[b].pc \in BeforeStore => use[b] = Unissued
             /\ attempt'[b].at <= now /\ use[b] <= now
  BY <1>2
<1>4. ASSUME NEW b \in Attempts, Session' = b
      PROVE  /\ use[b] # Unissued
             /\ row'.used <= use[b]
             /\ row'.expires = attempt'[b].at + AbsoluteTTL
  <2>1. attempt'[b].at = attempt[b].at
    BY <1>4
  <2>2. QED
    BY <1>1, <1>4, <2>1
<1>5. QED
  BY <1>2, <1>3, <1>4

\* The UPDATE or INSERT that puts a new session into the row.
LEMMA StoreKeeps ==
    ASSUME TypeOK, SessionInv, NEW a \in Attempts, NEW x \in Row, NEW m \in 0 .. now,
           NEW pc \in {"done", "totpPin"}, Store(a, m, pc), row' = WithSession(x, a, m),
           attempt[a].pc \in BeforeStore, UNCHANGED <<request, now>>
    PROVE  SessionInv'
<1> USE AuthAssumption, NoRowAssumption DEF SessionInv
<1>1. row'.token = a /\ row'.used = m /\ row'.expires = m + AbsoluteTTL
  BY DEF WithSession, Row
<1>2. row' # NoRow
  <2>1. m + AbsoluteTTL \in Nat /\ m \in Nat /\ a \in Secrets
    BY DEF TypeOK, Secrets
  <2>2. row' \in Row
    BY <2>1 DEF WithSession, Row
  <2>3. QED
    BY <2>2
<1>3. /\ use' = [use EXCEPT ![a] = m]
      /\ attempt' = [attempt EXCEPT ![a].pc = pc, ![a].at = m]
  BY DEF Store
<1>4. Session' = a
  BY <1>1, <1>2 DEF Session
<1>5. use[a] = Unissued /\ m # Unissued /\ m <= now /\ m <= m
  BY DEF TypeOK
<1>6. /\ \A b \in Attempts : use'[b] = IF b = a THEN m ELSE use[b]
      /\ \A b \in Attempts \ {a} : attempt'[b] = attempt[b]
      /\ attempt'[a].pc = pc /\ attempt'[a].at = m
  BY <1>3 DEF TypeOK
<1>7. ASSUME NEW b \in Attempts
      PROVE  /\ attempt'[b].pc \in BeforeStore => use'[b] = Unissued
             /\ attempt'[b].at <= now /\ use'[b] <= now
             /\ Session' = b => /\ use'[b] # Unissued
                                /\ row'.used <= use'[b]
                                /\ row'.expires = attempt'[b].at + AbsoluteTTL
  BY <1>1, <1>4, <1>5, <1>6 DEF BeforeStore
<1>8. ASSUME NEW r \in Requests, request[r].pc = "touch"
      PROVE  request[r].token \in Attempts /\ request[r].at <= use'[request[r].token]
  <2>1. request[r].token \in Attempts /\ request[r].at <= use[request[r].token]
    BY <1>8
  <2>2. request[r].at \in Nat
    BY DEF TypeOK
  <2>3. request[r].token # a
    BY <1>5, <2>1, <2>2
  <2>4. QED
    BY <1>6, <2>1, <2>3
<1>9. QED
  BY <1>7, <1>8

-----------------------------------------------------------------------------
\* No step of an attempt disturbs SessionInv.
LEMMA AttemptKeeps ==
    ASSUME TypeOK, SessionInv, NEW a \in Attempts, AttemptStep(a)
    PROVE  SessionInv'
<1> USE AuthAssumption, NoRowAssumption
<1>1. \A b \in Attempts : b \in Secrets
  BY DEF Secrets
<1>2. /\ attempt \in [Attempts -> [pc : AttemptPcs, pin : Secrets, at : Nat]]
      /\ row \in Row \cup {NoRow}
  BY DEF TypeOK
<1>3. ASSUME Exists, row' = WithPin(row, a) \/ row' = WithPin(row, attempt[a].pin)
      PROVE  row'.token = row.token /\ row'.expires = row.expires /\ row'.used = row.used
             /\ row' # NoRow
  <2>1. row \in Row /\ attempt[a].pin \in Secrets
    BY <1>2, <1>3
  <2>2. row' \in Row
    BY <1>1, <1>3, <2>1 DEF WithPin, Row
  <2>3. QED
    BY <1>3, <2>1, <2>2 DEF WithPin, Row
<1>4. CASE SignupRead(a)
  <2>1. /\ attempt[a].pc = "new" /\ UNCHANGED <<row, request, use, now>>
        /\ \E pc \in AttemptPcs : Read(a, pc)
    BY <1>4 DEF SignupRead, AttemptPcs
  <2>2. QED
    BY <1>2, <2>1, MoveKeeps DEF BeforeStore, Session
<1>5. CASE SignupInsert(a)
  <2>1. [Blank EXCEPT !.pin = a, !.key = a] \in Row
    BY <1>1 DEF Blank, Row, Secrets
  <2>2. CASE Exists
    BY <1>2, <1>5, <2>2, MoveKeeps DEF SignupInsert, BeforeStore, Session
  <2>3. CASE ~Exists
    BY <1>5, <2>1, <2>3, StoreKeeps DEF SignupInsert, BeforeStore
  <2>4. QED
    BY <2>2, <2>3
<1>6. CASE Attach(a)
  <2>1. [WithPin(row, a) EXCEPT !.key = a, !.totp = FALSE] \in Row
    BY <1>1, <1>2, <1>6 DEF TypeOK, Attach, WithPin, Row
  <2>2. QED
    BY <1>6, <2>1, StoreKeeps DEF Attach, BeforeStore
<1>7. CASE SetupCount(a)
  BY <1>2, <1>7, MoveKeeps DEF SetupCount, BeforeStore, Session
<1>8. CASE SetupProvision(a)
  <2>1. Session' = Session /\ (Session # None => row' = row)
    BY <1>8 DEF SetupProvision, Session, Blank, Row
  <2>2. QED
    BY <1>2, <1>8, <2>1, MoveKeeps DEF SetupProvision, BeforeStore
<1>9. CASE LoginRead(a)
  BY <1>2, <1>9, MoveKeeps DEF LoginRead, BeforeStore, Session
<1>10. CASE LoginRehash(a)
  <2>1. Exists
    BY <1>10 DEF LoginRehash, TypeOK
  <2>2. Session' = Session /\ row'.expires = row.expires /\ row'.used = row.used
    BY <1>2, <1>3, <1>10, <2>1 DEF LoginRehash, Session
  <2>3. QED
    BY <1>2, <1>10, <2>2, MoveKeeps DEF LoginRehash, BeforeStore
<1>11. CASE LoginIssue(a)
  <2>1. row \in Row
    BY <1>2, <1>11 DEF LoginIssue, TypeOK
  <2>2. QED
    BY <1>11, <2>1, StoreKeeps DEF LoginIssue, BeforeStore
<1>12. CASE RecoverRead(a)
  BY <1>2, <1>12, MoveKeeps DEF RecoverRead, BeforeStore, Session
<1>13. CASE RecoverReplace(a)
  <2>1. [WithPin(row, a) EXCEPT !.key = a] \in Row
    BY <1>1, <1>2, <1>13 DEF TypeOK, RecoverReplace, WithPin, Row
  <2>2. QED
    BY <1>13, <2>1, StoreKeeps DEF RecoverReplace, BeforeStore
<1>14. CASE TotpRecoverRead(a)
  BY <1>2, <1>14, MoveKeeps DEF TotpRecoverRead, BeforeStore, Session
<1>15. CASE TotpRecoverIssue(a)
  <2>1. row \in Row
    BY <1>2, <1>15 DEF TotpRecoverIssue, TypeOK
  <2>2. QED
    BY <1>15, <2>1, StoreKeeps DEF TotpRecoverIssue, BeforeStore
<1>16. CASE TotpRecoverPin(a)
  <2>1. Exists
    BY <1>16 DEF TotpRecoverPin, TypeOK
  <2>2. Session' = Session /\ row'.expires = row.expires /\ row'.used = row.used
    BY <1>2, <1>3, <1>16, <2>1 DEF TotpRecoverPin, Session
  <2>3. QED
    BY <1>2, <1>16, <2>2, MoveKeeps DEF TotpRecoverPin, BeforeStore
<1>17. CASE AttemptDies(a)
  BY <1>2, <1>17, MoveKeeps DEF AttemptDies, BeforeStore, Session
<1>18. QED
  BY <1>4, <1>5, <1>6, <1>7, <1>8, <1>9, <1>10, <1>11, <1>12, <1>13, <1>14, <1>15,
     <1>16, <1>17 DEF AttemptStep

\* No step of a request does either.
LEMMA RequestKeeps ==
    ASSUME TypeOK, SessionInv, NEW r \in Requests, RequestStep(r)
    PROVE  SessionInv'
<1> USE AuthAssumption, NoRowAssumption DEF TypeOK, SessionInv, Session
<1>1. ASSUME NEW t \in Attempts, RequestAccepted(r, t) \/ ConfirmRead(r, t)
      PROVE  SessionInv'
  <2>1. /\ Session = t /\ Exists /\ UNCHANGED <<row, attempt, now>>
        /\ use' = [use EXCEPT ![t] = now]
        /\ \/ UNCHANGED request
           \/ \E pc \in {"touch", "link"} :
                 request' = [request EXCEPT ![r] = [pc |-> pc, token |-> t, at |-> now]]
    BY <1>1 DEF RequestAccepted, ConfirmRead, Presents, Hold, Accept
  <2>2. \A b \in Attempts : use'[b] >= use[b] /\ use'[b] <= now
                            /\ (use[b] # Unissued => use'[b] # Unissued)
    BY <2>1
  <2>3. use[t] # Unissued /\ use'[t] = now
    BY <2>1
  <2>4. \A b \in Attempts : attempt[b].pc \in BeforeStore => use'[b] = Unissued
    BY <2>1, <2>3
  <2>5. ASSUME NEW b \in Attempts, Session' = b
        PROVE  /\ use'[b] # Unissued
               /\ row'.used <= use'[b]
               /\ row'.expires = attempt'[b].at + AbsoluteTTL
    <3>1. Session = b /\ row \in Row /\ row.used \in Nat
      BY <2>1, <2>5 DEF Row
    <3>2. QED
      BY <2>1, <2>2, <3>1
  <2>6. ASSUME NEW q \in Requests, request'[q].pc = "touch"
        PROVE  request'[q].token \in Attempts /\ request'[q].at <= use'[request'[q].token]
    <3>1. CASE request'[q] = request[q]
      <4>1. /\ request[q].token \in Attempts /\ request[q].at \in Nat
            /\ request[q].at <= use[request[q].token]
        BY <2>6, <3>1
      <4>2. use[request[q].token] \in Int /\ use'[request[q].token] \in Int
        BY <2>1, <4>1
      <4>3. QED
        BY <2>2, <3>1, <4>1, <4>2
    <3>2. CASE request'[q] # request[q]
      <4>1. PICK pc \in {"touch", "link"} :
              request' = [request EXCEPT ![r] = [pc |-> pc, token |-> t, at |-> now]]
        BY <2>1, <3>2
      <4>2. request'[q].token = t /\ request'[q].at = now
        BY <3>2, <4>1
      <4>3. QED
        BY <2>1, <2>3, <4>2
    <3>3. QED
      BY <3>1, <3>2
  <2>7. QED
    BY <2>1, <2>2, <2>4, <2>5, <2>6
<1>2. ASSUME NEW t \in Attempts \cup {Given}, RequestExpired(r, t) \/ Logout(r, t)
      PROVE  SessionInv'
  BY <1>2 DEF RequestExpired, Logout, Presents, Hold
<1>3. CASE RequestTouch(r)
  <2>1. row \in Row /\ request[r].token \in Attempts
    BY <1>3 DEF RequestTouch
  <2>2. /\ row'.token = row.token /\ row'.expires = row.expires
        /\ row' \in Row
        /\ \/ row'.used = row.used
           \/ row'.used = request[r].at /\ row.token = request[r].token
    <3>1. CASE row.token = request[r].token
      <4>1. row' = [row EXCEPT !.used = request[r].at] /\ request[r].at \in Nat
        BY <1>3, <3>1 DEF RequestTouch
      <4>2. row \in Row
        BY <2>1
      <4>3. QED
        BY <3>1, <4>1, <4>2, EditedRow
    <3>2. CASE row.token # request[r].token
      BY <1>3, <2>1, <3>2 DEF RequestTouch
    <3>3. QED
      BY <3>1, <3>2
  <2>3. Session' = Session /\ Session = row.token
    BY <2>1, <2>2
  <2>4. ASSUME NEW b \in Attempts, Session = b PROVE row'.used <= use[b]
    <3>1. row.used <= use[b] /\ row.token = b
      BY <2>3, <2>4
    <3>2. request[r].at <= use[request[r].token]
      BY <1>3 DEF RequestTouch
    <3>3. QED
      BY <2>2, <3>1, <3>2
  <2>5. UNCHANGED <<attempt, use, now>> /\ request' = [request EXCEPT ![r] = Free]
    BY <1>3 DEF RequestTouch
  <2>6. QED
    BY <2>1, <2>2, <2>3, <2>4, <2>5 DEF Free
<1>4. CASE RequestClear(r)
  <2>1. row' = row \/ Session' = None
    BY <1>4 DEF RequestClear, Row
  <2>2. UNCHANGED <<attempt, use, now>> /\ request' = [request EXCEPT ![r] = Free]
    BY <1>4 DEF RequestClear
  <2>3. QED
    BY <2>1, <2>2 DEF Free
<1>5. CASE ConfirmWrite(r)
  <2>1. row \in Row
    BY <1>5 DEF ConfirmWrite
  <2>2. /\ row'.token = row.token /\ row'.expires = row.expires /\ row'.used = row.used
        /\ row' \in Row
    BY <1>5, <2>1 DEF ConfirmWrite, Row
  <2>3. UNCHANGED <<attempt, use, now>> /\ request' = [request EXCEPT ![r] = Free]
    BY <1>5 DEF ConfirmWrite
  <2>4. QED
    BY <2>1, <2>2, <2>3 DEF Free
<1>6. CASE RequestDies(r)
  BY <1>6 DEF RequestDies, Free
<1>7. QED
  BY <1>1, <1>2, <1>3, <1>4, <1>5, <1>6 DEF RequestStep

\* The inductive invariant of the account: a stored session carries the limit of
\* its mint, and no stored or pending idle time is ahead of its last use.
THEOREM SessionInvariant == Spec => []SessionInv
<1>1. Init => SessionInv
  <2> SUFFICES ASSUME Init PROVE SessionInv
    OBVIOUS
  <2>1. \A b \in Attempts : Session # b
    <3>1. Session \in {None, Given}
      BY DEF Init, Session, Blank
    <3>2. QED
      BY <3>1, AuthAssumption
  <2>2. /\ attempt = [a \in Attempts |-> [pc |-> "new", pin |-> None, at |-> 0]]
        /\ request = [q \in Requests |-> Free] /\ Free.pc = "idle"
        /\ use = [a \in Attempts |-> Unissued] /\ now = 0
    BY DEF Init, Free
  <2>3. QED
    BY <2>1, <2>2 DEF SessionInv
<1>2. TypeOK /\ SessionInv /\ [Next]_vars => SessionInv'
  <2> SUFFICES ASSUME TypeOK, SessionInv, [Next]_vars PROVE SessionInv'
    OBVIOUS
  <2>1. CASE Provision
    BY <2>1, AuthAssumption, NoRowAssumption DEF Provision, SessionInv, Session, Blank, Row
  <2>2. CASE Tick
    BY <2>2 DEF Tick, TypeOK, SessionInv, Session
  <2>3. CASE UNCHANGED vars
    BY <2>3 DEF SessionInv, Session
  <2>4. QED
    BY <2>1, <2>2, <2>3, AttemptKeeps, RequestKeeps DEF Next
<1>3. QED
  BY <1>1, <1>2, TypeCorrect, PTL DEF Spec

-----------------------------------------------------------------------------
\* The two limits of session.ts: parentAuth and requireSession let no call in
\* with a session unused for IdleTTL or older than AbsoluteTTL.
THEOREM AcceptedWithinLimits == Spec => AcceptedInTime
<1>1. TypeOK /\ SessionInv /\ [Next]_vars
        => [\A t \in Attempts : use[t] # Unissued /\ use'[t] > use[t] =>
               /\ now - use[t] < IdleTTL
               /\ now < attempt[t].at + AbsoluteTTL]_vars
  <2> SUFFICES ASSUME TypeOK, SessionInv, Next,
                      NEW t \in Attempts, use[t] # Unissued, use'[t] > use[t]
               PROVE  now - use[t] < IdleTTL /\ now < attempt[t].at + AbsoluteTTL
    OBVIOUS
  <2> USE AuthAssumption DEF TypeOK
  <2>1. ASSUME NEW a \in Attempts, NEW m \in 0 .. now, NEW pc \in {"done", "totpPin"},
               Store(a, m, pc), attempt[a].pc \in BeforeStore
        PROVE  FALSE
    <3>1. use' = [use EXCEPT ![a] = m] /\ use[a] = Unissued
      BY <2>1 DEF Store, SessionInv
    <3>2. QED
      BY <3>1
  <2>2. ASSUME NEW a \in Attempts, AttemptStep(a) PROVE FALSE
    <3>1. \/ UNCHANGED use
          \/ /\ attempt[a].pc \in BeforeStore
             /\ \E m \in 0 .. now, pc \in {"done", "totpPin"} : Store(a, m, pc)
      BY <2>2 DEF AttemptStep, SignupRead, SignupInsert, Attach, SetupCount, SetupProvision,
                  LoginRead, LoginRehash, LoginIssue, RecoverRead, RecoverReplace,
                  TotpRecoverRead, TotpRecoverIssue, TotpRecoverPin, AttemptDies, BeforeStore
    <3>2. QED
      BY <2>1, <3>1
  <2>3. PICK r \in Requests, u \in Attempts : RequestAccepted(r, u) \/ ConfirmRead(r, u)
    BY <2>2 DEF Next, Provision, Tick, RequestStep, RequestExpired, Logout, RequestTouch,
                RequestClear, ConfirmWrite, RequestDies
  <2>4. Session = u /\ Live /\ use' = [use EXCEPT ![u] = now] /\ row \in Row
    BY <2>3 DEF RequestAccepted, ConfirmRead, Presents, Accept, Session
  <2>5. u = t
    BY <2>4
  <2>6. row.used <= use[t] /\ row.expires = attempt[t].at + AbsoluteTTL
    BY <2>4, <2>5 DEF SessionInv
  <2>7. row.used \in Nat /\ use[t] \in Int
    BY <2>4 DEF Row
  <2>8. QED
    BY <2>4, <2>6, <2>7 DEF Live
<1>2. QED
  BY <1>1, TypeCorrect, SessionInvariant, PTL DEF Spec, AcceptedInTime

\* A step of an attempt moves it on, and what it puts into the row is its own.
LEMMA AttemptAdds ==
    ASSUME TypeOK, NEW a \in Attempts, AttemptStep(a)
    PROVE  /\ attempt'[a].pc # attempt[a].pc
           /\ Session' \in {Session, a}
           /\ Key' \in {Key, a}
<1> USE AuthAssumption, NoRowAssumption DEF Session, Key
<1>1. row \in Row \cup {NoRow} /\ a \in Secrets
  BY DEF TypeOK, Secrets
<1>2. attempt \in [Attempts -> [pc : AttemptPcs, pin : Secrets, at : Nat]]
  BY DEF TypeOK
<1>3. attempt'[a].pc # attempt[a].pc
  BY <1>2 DEF AttemptStep, SignupRead, SignupInsert, Attach, SetupCount, SetupProvision, LoginRead,
              LoginRehash, LoginIssue, RecoverRead, RecoverReplace, TotpRecoverRead,
              TotpRecoverIssue, TotpRecoverPin, AttemptDies, Store
<1>4. ASSUME NEW x \in Row, x.key \in {Key, a}, NEW m \in 0 .. now, row' = WithSession(x, a, m)
      PROVE  Session' \in {Session, a} /\ Key' \in {Key, a}
  <2>1. m + AbsoluteTTL \in Nat /\ m \in Nat
    BY DEF TypeOK
  <2>2. row' \in Row
    BY <1>1, <1>4, <2>1 DEF WithSession, Row
  <2>3. row'.token = a /\ row'.key = x.key
    BY <1>4 DEF WithSession, Row
  <2>4. QED
    BY <1>4, <2>2, <2>3
<1>5. ASSUME Exists, NEW p \in Secrets
      PROVE  /\ WithPin(row, p) \in Row
             /\ WithPin(row, p).token = row.token /\ WithPin(row, p).key = row.key
  BY <1>1, <1>5 DEF WithPin, Row
<1>6. CASE UNCHANGED row
  BY <1>3, <1>6
<1>7. CASE SignupInsert(a) /\ ~Exists
  <2>1. [Blank EXCEPT !.pin = a, !.key = a] \in Row
    BY <1>1 DEF Blank, Row, Secrets
  <2>2. [Blank EXCEPT !.pin = a, !.key = a].key = a
    BY DEF Blank
  <2>3. QED
    BY <1>3, <1>4, <1>7, <2>1, <2>2 DEF SignupInsert
<1>8. CASE Attach(a)
  <2>1. [WithPin(row, a) EXCEPT !.key = a, !.totp = FALSE] \in Row
    BY <1>1, <1>8 DEF TypeOK, Attach, WithPin, Row
  <2>2. [WithPin(row, a) EXCEPT !.key = a, !.totp = FALSE].key = a
    BY <2>1 DEF WithPin, Row
  <2>3. QED
    BY <1>3, <1>4, <1>8, <2>1, <2>2 DEF Attach
<1>9. CASE SetupProvision(a)
  BY <1>1, <1>3, <1>9 DEF SetupProvision, Blank
<1>10. CASE LoginRehash(a) \/ TotpRecoverPin(a)
  <2>1. Exists /\ attempt[a].pin \in Secrets
    BY <1>2, <1>10 DEF LoginRehash, TotpRecoverPin, TypeOK
  <2>2. PICK p \in Secrets : row' = WithPin(row, p)
    BY <1>1, <1>10, <2>1 DEF LoginRehash, TotpRecoverPin
  <2>3. QED
    BY <1>3, <1>5, <2>1, <2>2
<1>11. CASE LoginIssue(a) \/ TotpRecoverIssue(a)
  <2>1. row \in Row /\ Exists
    BY <1>1, <1>11 DEF LoginIssue, TotpRecoverIssue, TypeOK
  <2>2. QED
    BY <1>3, <1>4, <1>11, <2>1 DEF LoginIssue, TotpRecoverIssue
<1>12. CASE RecoverReplace(a)
  <2>1. [WithPin(row, a) EXCEPT !.key = a] \in Row
    BY <1>1, <1>12 DEF TypeOK, RecoverReplace, WithPin, Row
  <2>2. [WithPin(row, a) EXCEPT !.key = a].key = a
    BY <2>1 DEF WithPin, Row
  <2>3. QED
    BY <1>3, <1>4, <1>12, <2>1, <2>2 DEF RecoverReplace
<1>13. QED
  BY <1>6, <1>7, <1>8, <1>9, <1>10, <1>11, <1>12
     DEF AttemptStep, SignupRead, SignupInsert, SetupCount, LoginRead, RecoverRead, TotpRecoverRead,
         AttemptDies

\* A step of a request puts neither a session nor a key into the row.
LEMMA RequestAddsNothing ==
    ASSUME TypeOK, NEW r \in Requests, RequestStep(r)
    PROVE  /\ UNCHANGED attempt
           /\ Session' = Session \/ (Session' = None /\ RequestClear(r))
           /\ Key' = Key
<1> USE AuthAssumption, NoRowAssumption DEF Session, Key
<1>1. row \in Row \cup {NoRow}
  BY DEF TypeOK
<1>2. CASE UNCHANGED <<row, attempt>>
  <2>1. Session' = Session /\ Key' = Key
    BY <1>2
  <2>2. QED
    BY <1>2, <2>1
<1>3. CASE RequestTouch(r) \/ ConfirmWrite(r)
  <2>1. row \in Row
    BY <1>1, <1>3 DEF TypeOK, RequestTouch, ConfirmWrite
  <2>2. row' # NoRow /\ row'.token = row.token /\ row'.key = row.key
    <3>1. request[r].at \in Nat
      BY DEF TypeOK
    <3>2. row' \in {row, [row EXCEPT !.used = request[r].at], [row EXCEPT !.totp = TRUE]}
      BY <1>3 DEF RequestTouch, ConfirmWrite
    <3>3. QED
      BY <2>1, <3>1, <3>2, EditedRow
  <2>3. QED
    BY <1>3, <2>1, <2>2 DEF RequestTouch, ConfirmWrite
<1>4. CASE RequestClear(r)
  <2>1. CASE Exists /\ row.token = request[r].token
    <3>1. row' = [row EXCEPT !.token = None, !.expires = 0, !.used = 0] /\ row \in Row
      BY <1>1, <1>4, <2>1 DEF RequestClear
    <3>2. row' \in Row
      BY <3>1 DEF Row, Secrets
    <3>3. row'.token = None /\ row'.key = row.key
      BY <3>1 DEF Row
    <3>4. QED
      BY <1>4, <2>1, <3>2, <3>3 DEF RequestClear
  <2>2. QED
    BY <1>4, <2>1 DEF RequestClear
<1>5. QED
  BY <1>2, <1>3, <1>4 DEF RequestStep, RequestAccepted, RequestExpired, Logout, ConfirmRead, RequestDies

\* clearSession matches by token: a session ends only by its successor or by a call
\* that presented it.
THEOREM HolderEndsSession == Spec => ClearedByItsHolder
<1>1. TypeOK /\ [Next]_vars
        => [Session # None /\ Session' = None =>
               \E r \in Requests : request[r].pc = "clear" /\ request[r].token = Session]_vars
  <2> SUFFICES ASSUME TypeOK, Next, Session # None, Session' = None
               PROVE  \E r \in Requests : request[r].pc = "clear" /\ request[r].token = Session
    OBVIOUS
  <2> USE AuthAssumption, NoRowAssumption
  <2>1. row # NoRow
    BY DEF Session
  <2>2. ~Provision /\ ~Tick
    BY <2>1 DEF Provision, Tick, Session
  <2>3. ASSUME NEW a \in Attempts PROVE ~AttemptStep(a)
    BY AttemptAdds
  <2>4. PICK r \in Requests : RequestStep(r)
    BY <2>2, <2>3 DEF Next
  <2>5. RequestClear(r)
    BY <2>4, RequestAddsNothing
  <2>6. QED
    BY <2>1, <2>5 DEF RequestClear, Session
<1>2. QED
  BY <1>1, TypeCorrect, PTL DEF Spec, ClearedByItsHolder

\* A session and a recovery key enter the row only in a step of the attempt that
\* made them, so none that was replaced, cleared or exchanged works again.
THEOREM EndedSessionsStayEnded == Spec => EndedForGood
<1>1. TypeOK /\ [Next]_vars
        => [\A a \in Attempts : attempt[a].pc = attempt'[a].pc =>
               /\ Session' = a => Session = a
               /\ Exists' /\ row'.key = a => Exists /\ row.key = a]_vars
  <2> SUFFICES ASSUME TypeOK, Next, NEW a \in Attempts, attempt[a].pc = attempt'[a].pc
               PROVE  /\ Session' = a => Session = a
                      /\ Exists' /\ row'.key = a => Exists /\ row.key = a
    OBVIOUS
  <2>1. Session' \in {Session, None} \cup (Attempts \ {a}) /\ Key' \in {Key, None} \cup (Attempts \ {a})
    <3>1. CASE Provision \/ Tick
      BY <3>1 DEF Provision, Tick, Session, Key, Blank
    <3>2. ASSUME NEW b \in Attempts, AttemptStep(b)
          PROVE  /\ Session' \in {Session, None} \cup (Attempts \ {a})
                 /\ Key' \in {Key, None} \cup (Attempts \ {a})
      BY <3>2, AttemptAdds
    <3>3. QED
      BY <3>1, <3>2, RequestAddsNothing DEF Next
  <2>2. QED
    BY <2>1, AuthAssumption DEF Key
<1>2. QED
  BY <1>1, TypeCorrect, PTL DEF Spec, EndedForGood

-----------------------------------------------------------------------------
Minted == [a \in Attempts |-> IF use[a] = Unissued THEN Unissued ELSE attempt[a].at]

\* Each step of an attempt stores its session, or shows neither in the row's
\* session and key nor in anybody's last use.
LEMMA AttemptOpens ==
    ASSUME TypeOK, SessionInv, NEW a \in Attempts, AttemptStep(a)
    PROVE  \/ /\ UNCHANGED <<use, now>>
              /\ Session' = Session /\ Key' = Key /\ Minted' = Minted
           \/ /\ now' = now /\ use[a] = Unissued
              /\ Session' = a /\ Key' \in {Key, a}
              /\ \E m \in 0 .. now, pc \in AttemptPcs : Store(a, m, pc)
<1> USE AuthAssumption, NoRowAssumption DEF Session, Key
<1>1. row \in Row \cup {NoRow} /\ a \in Secrets
  BY DEF TypeOK, Secrets
<1>2. attempt \in [Attempts -> [pc : AttemptPcs, pin : Secrets, at : Nat]]
  BY DEF TypeOK
<1>3. Key' \in {Key, a}
  BY AttemptAdds
<1>4. ASSUME UNCHANGED use, \A b \in Attempts \ {a} : attempt'[b] = attempt[b],
             attempt'[a].at = attempt[a].at \/ attempt[a].pc \in BeforeStore
      PROVE  Minted' = Minted
  BY <1>4 DEF SessionInv, Minted
<1>5. ASSUME Exists, NEW p \in Secrets
      PROVE  /\ WithPin(row, p) # NoRow
             /\ WithPin(row, p).token = row.token /\ WithPin(row, p).key = row.key
  BY <1>1, <1>5 DEF WithPin, Row
<1>6. CASE \/ SignupRead(a) \/ SetupCount(a) \/ LoginRead(a) \/ RecoverRead(a)
           \/ TotpRecoverRead(a) \/ AttemptDies(a) \/ (SignupInsert(a) /\ Exists)
  <2>1. UNCHANGED <<row, use, now>> /\ \A b \in Attempts \ {a} : attempt'[b] = attempt[b]
    BY <1>2, <1>6 DEF SignupRead, SetupCount, LoginRead, RecoverRead, TotpRecoverRead, AttemptDies,
                      SignupInsert
  <2>2. attempt'[a].at = attempt[a].at \/ attempt[a].pc \in BeforeStore
    BY <1>2, <1>6 DEF SignupRead, SetupCount, LoginRead, RecoverRead, TotpRecoverRead, AttemptDies,
                      SignupInsert, BeforeStore
  <2>3. QED
    BY <1>4, <2>1, <2>2
<1>7. CASE SetupProvision(a)
  <2>1. UNCHANGED <<use, now>> /\ \A b \in Attempts \ {a} : attempt'[b] = attempt[b]
    BY <1>2, <1>7 DEF SetupProvision
  <2>2. attempt[a].pc \in BeforeStore
    BY <1>7 DEF SetupProvision, BeforeStore
  <2>3. Session' = Session /\ Key' = Key
    BY <1>1, <1>7 DEF SetupProvision, Blank
  <2>4. QED
    BY <1>4, <2>1, <2>2, <2>3
<1>8. CASE LoginRehash(a) \/ TotpRecoverPin(a)
  <2>1. Exists /\ attempt[a].pin \in Secrets
    BY <1>2, <1>8 DEF LoginRehash, TotpRecoverPin, TypeOK
  <2>2. PICK p \in Secrets : row' = WithPin(row, p)
    BY <1>1, <1>8, <2>1 DEF LoginRehash, TotpRecoverPin
  <2>3. Session' = Session /\ Key' = Key
    BY <1>5, <2>1, <2>2
  <2>4. UNCHANGED <<use, now>> /\ \A b \in Attempts \ {a} : attempt'[b] = attempt[b]
    BY <1>2, <1>8 DEF LoginRehash, TotpRecoverPin
  <2>5. attempt'[a].at = attempt[a].at \/ attempt[a].pc \in BeforeStore
    BY <1>2, <1>8 DEF LoginRehash, TotpRecoverPin, BeforeStore
  <2>6. QED
    BY <1>4, <2>3, <2>4, <2>5
<1>9. ASSUME NEW x \in Row, NEW m \in 0 .. now, NEW pc \in AttemptPcs, Store(a, m, pc),
             row' = WithSession(x, a, m), attempt[a].pc \in BeforeStore, now' = now
      PROVE  /\ now' = now /\ use[a] = Unissued /\ Session' = a
             /\ \E n \in 0 .. now, c \in AttemptPcs : Store(a, n, c)
  <2>1. m + AbsoluteTTL \in Nat /\ m \in Nat
    BY DEF TypeOK
  <2>2. row' \in Row /\ row'.token = a
    BY <1>1, <1>9, <2>1 DEF WithSession, Row
  <2>3. QED
    BY <1>9, <2>2 DEF SessionInv
<1>10. CASE SignupInsert(a) /\ ~Exists
  <2>1. [Blank EXCEPT !.pin = a, !.key = a] \in Row
    BY <1>1 DEF Blank, Row, Secrets
  <2>2. QED
    BY <1>3, <1>9, <1>10, <2>1 DEF SignupInsert, BeforeStore, AttemptPcs
<1>11. CASE Attach(a) \/ RecoverReplace(a) \/ LoginIssue(a) \/ TotpRecoverIssue(a)
  <2>1. row \in Row /\ attempt[a].pc \in BeforeStore
    BY <1>1, <1>11 DEF Attach, RecoverReplace, LoginIssue, TotpRecoverIssue, TypeOK, BeforeStore
  <2>2. /\ [WithPin(row, a) EXCEPT !.key = a, !.totp = FALSE] \in Row
        /\ [WithPin(row, a) EXCEPT !.key = a] \in Row
    BY <1>1, <2>1 DEF WithPin, Row
  <2>3. now' = now
    BY <1>11 DEF Attach, RecoverReplace, LoginIssue, TotpRecoverIssue
  <2>4. PICK x \in Row, m \in 0 .. now, pc \in AttemptPcs :
           Store(a, m, pc) /\ row' = WithSession(x, a, m)
    BY <1>11, <2>1, <2>2
    DEF Attach, RecoverReplace, LoginIssue, TotpRecoverIssue, AttemptPcs
  <2>5. QED
    BY <1>3, <1>9, <2>1, <2>3, <2>4
<1>12. QED
  BY <1>6, <1>7, <1>8, <1>10, <1>11 DEF AttemptStep

\* The UPDATE or INSERT that stores a session opens it, at the time of its mint.
LEMMA StoreOpens ==
    ASSUME TypeOK, NEW a \in Attempts, NEW m \in 0 .. now, NEW pc \in AttemptPcs, Store(a, m, pc)
    PROVE  /\ use' = [use EXCEPT ![a] = m]
           /\ Minted' = [Minted EXCEPT ![a] = m]
<1>1. /\ use' = [use EXCEPT ![a] = m] /\ m # Unissued
      /\ attempt' = [attempt EXCEPT ![a].pc = pc, ![a].at = m]
  BY DEF Store, TypeOK
<1>2. /\ \A b \in Attempts : use'[b] = IF b = a THEN m ELSE use[b]
      /\ \A b \in Attempts : b # a => attempt'[b] = attempt[b]
      /\ attempt'[a].at = m
  BY <1>1 DEF TypeOK
<1>3. ASSUME NEW b \in Attempts
      PROVE  Minted'[b] = IF b = a THEN m ELSE Minted[b]
  <2>1. Minted'[b] = IF use'[b] = Unissued THEN Unissued ELSE attempt'[b].at
    BY DEF Minted
  <2>2. Minted[b] = IF use[b] = Unissued THEN Unissued ELSE attempt[b].at
    BY DEF Minted
  <2>3. CASE b = a
    BY <1>1, <1>2, <2>1, <2>3
  <2>4. CASE b # a
    <3>1. use'[b] = use[b] /\ attempt'[b] = attempt[b]
      BY <1>2, <2>4
    <3>2. QED
      BY <2>1, <2>2, <2>4, <3>1
  <2>5. QED
    BY <2>3, <2>4
<1>4. [Minted EXCEPT ![a] = m] = [b \in Attempts |-> IF b = a THEN m ELSE Minted[b]]
  BY DEF Minted
<1>5. Minted' = [b \in Attempts |-> Minted'[b]]
  BY DEF Minted
<1>6. QED
  BY <1>1, <1>3, <1>4, <1>5

\* A call that is accepted uses the account's session within both limits.
LEMMA AcceptedUses ==
    ASSUME TypeOK, SessionInv, NEW r \in Requests, NEW t \in Attempts,
           RequestAccepted(r, t) \/ ConfirmRead(r, t)
    PROVE  Kept!Use(t)
<1> USE AuthAssumption, NoRowAssumption
<1>1. Session = t /\ Live /\ row \in Row
  BY DEF RequestAccepted, ConfirmRead, Presents, Session, TypeOK
<1>2. use' = [use EXCEPT ![t] = now] /\ UNCHANGED <<row, attempt, now>>
  BY DEF RequestAccepted, ConfirmRead, Accept
<1>3. use[t] # Unissued /\ row.used <= use[t] /\ row.expires = attempt[t].at + AbsoluteTTL
  BY <1>1 DEF SessionInv
<1>4. now - use[t] < IdleTTL /\ now < attempt[t].at + AbsoluteTTL
  BY <1>1, <1>3 DEF Live, TypeOK, Row
<1>5. Minted[t] = attempt[t].at /\ Minted' = Minted
  <2>1. now # Unissued
    BY DEF TypeOK, Unissued
  <2>2. \A b \in Attempts : use'[b] = Unissued <=> use[b] = Unissued
    BY <1>2, <1>3, <2>1 DEF TypeOK
  <2>3. ASSUME NEW b \in Attempts
        PROVE  Minted'[b] = Minted[b]
    <3>1. Minted'[b] = IF use'[b] = Unissued THEN Unissued ELSE attempt'[b].at
      BY DEF Minted
    <3>2. Minted[b] = IF use[b] = Unissued THEN Unissued ELSE attempt[b].at
      BY DEF Minted
    <3>3. QED
      BY <1>2, <2>2, <3>1, <3>2
  <2>4. Minted' = [b \in Attempts |-> Minted'[b]] /\ Minted = [b \in Attempts |-> Minted[b]]
    BY DEF Minted
  <2>5. Minted' = Minted
    BY <2>3, <2>4
  <2>6. Minted[t] = IF use[t] = Unissued THEN Unissued ELSE attempt[t].at
    BY DEF Minted
  <2>7. QED
    BY <1>3, <2>5, <2>6
<1>6. QED
  BY <1>1, <1>2, <1>4, <1>5 DEF Kept!Use, Minted, Session, Key

\* The handlers of the worker, statement by statement, implement an account whose
\* sessions and keys are made, used and ended one call at a time, for any number
\* of overlapping sign-ins, calls and cleanups and any limits.
THEOREM HandlersKeepAccount == Spec => ImplementsAccount
<1>1. Init => Kept!AccountInit
  <2> SUFFICES ASSUME Init
               PROVE  Kept!AccountInit
    OBVIOUS
  <2>1. Session \in {None, Given} /\ Key = Session
    <3>1. CASE row = NoRow
      BY <3>1 DEF Session, Key, Exists
    <3>2. CASE row # NoRow
      <4>1. PICK b \in BOOLEAN : row = [Blank EXCEPT !.pin = Given, !.legacy = TRUE, !.key = Given,
                                                    !.totp = b, !.token = Given]
        BY <3>2 DEF Init
      <4>2. row.token = Given /\ row.key = Given
        BY <4>1 DEF Blank
      <4>3. QED
        BY <3>2, <4>2 DEF Session, Key, Exists
    <3>3. QED
      BY <3>1, <3>2
  <2>2. Minted = use /\ use = [a \in Attempts |-> Unissued] /\ now = 0
    BY DEF Init, Minted
  <2>3. QED
    BY <2>1, <2>2 DEF Kept!AccountInit, Kept!Unopened, Session, Key, Minted
<1>2. TypeOK /\ SessionInv /\ [Next]_vars => [Kept!AccountNext]_(Kept!accountVars)
  <2> SUFFICES ASSUME TypeOK, SessionInv, [Next]_vars
               PROVE  Kept!AccountNext \/ UNCHANGED Kept!accountVars
    OBVIOUS
  <2>1. ASSUME Session' = Session, Key' = Key, UNCHANGED <<use, now>>, Minted' = Minted
        PROVE  UNCHANGED Kept!accountVars
    BY <2>1 DEF Kept!accountVars, Minted
  <2>2. CASE Provision
    BY <2>1, <2>2, NoRowAssumption DEF Provision, Session, Key, Blank, Minted
  <2>3. CASE Tick
    BY <2>3 DEF Tick, Kept!AccountNext, Kept!ClockTick, Session, Key
  <2>4. ASSUME NEW a \in Attempts, AttemptStep(a)
        PROVE  Kept!AccountNext \/ UNCHANGED Kept!accountVars
    <3>1. CASE /\ UNCHANGED <<use, now>>
               /\ Session' = Session /\ Key' = Key /\ Minted' = Minted
      BY <2>1, <3>1
    <3>2. ASSUME now' = now, use[a] = Unissued, Session' = a, Key' \in {Key, a},
                 NEW m \in 0 .. now, NEW pc \in AttemptPcs, Store(a, m, pc)
          PROVE  Kept!Open(a)
      BY <3>2, StoreOpens DEF Kept!Open, Kept!Unopened, Minted
    <3>3. QED
      BY <2>4, <3>1, <3>2, AttemptOpens DEF Kept!AccountNext
  <2>5. ASSUME NEW r \in Requests, RequestStep(r)
        PROVE  Kept!AccountNext \/ UNCHANGED Kept!accountVars
    <3>1. CASE \E t \in Attempts : RequestAccepted(r, t) \/ ConfirmRead(r, t)
      BY <3>1, AcceptedUses DEF Kept!AccountNext
    <3>2. CASE ~ \E t \in Attempts : RequestAccepted(r, t) \/ ConfirmRead(r, t)
      <4>1. UNCHANGED <<use, now, attempt>>
        BY <2>5, <3>2 DEF RequestStep, RequestExpired, Logout, RequestTouch, RequestClear,
                          ConfirmWrite, RequestDies
      <4>2. Minted' = Minted
        BY <4>1 DEF Minted
      <4>3. Key' = Key /\ (Session' = Session \/ Session' = None)
        BY <2>5, RequestAddsNothing
      <4>4. CASE Session' = Session
        BY <2>1, <4>1, <4>2, <4>3, <4>4
      <4>5. CASE Session' = None
        BY <4>1, <4>2, <4>3, <4>5 DEF Kept!AccountNext, Kept!Close, Minted
      <4>6. QED
        BY <4>3, <4>4, <4>5
    <3>3. QED
      BY <3>1, <3>2
  <2>6. CASE UNCHANGED vars
    BY <2>1, <2>6 DEF Session, Key, Minted
  <2>7. QED
    BY <2>2, <2>3, <2>4, <2>5, <2>6 DEF Next
<1>3. QED
  BY <1>1, <1>2, TypeCorrect, SessionInvariant, PTL DEF Spec, ImplementsAccount, Kept!AccountSpec

=============================================================================
