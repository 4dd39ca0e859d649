----------------------------- MODULE Enrollment -----------------------------
(***************************************************************************)
(* Linking PCs to children: the enrollment codes and device rows in D1,    *)
(* and the enroll handler of the worker, statement by statement.           *)
(*                                                                         *)
(* An attempt is one POST /enroll.  The device id and the token it makes   *)
(* are fresh random values, so an attempt also names the device row it may *)
(* insert and the credential of that device.                               *)
(***************************************************************************)
EXTENDS Integers, FiniteSets

CONSTANTS
    Children,
    Codes,       \* random values an enrollment code may take
    Attempts,    \* POST /enroll invocations, and the devices they create
    Unminted,    \* a code value not handed out yet
    Deleted,     \* a code whose row retention removed
    NoDevice,    \* an attempt that has inserted no device row
    None,        \* no code or child: an attempt that has not started, or failed
    CodeTTL,     \* lifetime of a code, in clock units (24 hours)
    MaxTime      \* bound: clock values explored

CodeRow   == [child : Children, expires : Nat, consumed : BOOLEAN]
DeviceRow == [child : Children, revoked : BOOLEAN]

ASSUME EnrollmentAssumption ==
    /\ CodeTTL \in Nat /\ MaxTime \in Nat
    /\ Unminted \notin CodeRow /\ Deleted \notin CodeRow /\ Unminted # Deleted
    /\ NoDevice \notin DeviceRow
    /\ None \notin Codes /\ None \notin Children

VARIABLES
    codes,       \* Codes -> enrollment_codes row
    devices,     \* Attempts -> devices row
    attempt,     \* Attempts -> how far the handler is, with which code
    now          \* wall clock

cloudVars == <<codes, devices, attempt, now>>

Pcs == {"new", "found", "consumed", "registered", "answered", "rejected", "dead"}

Attempt == [pc : Pcs, code : Codes \cup {None}, child : Children \cup {None}]

Exists(k)  == codes[k] \notin {Unminted, Deleted}
Open(k)    == Exists(k) /\ ~codes[k].consumed
Active(d)  == devices[d] # NoDevice /\ ~devices[d].revoked
ActiveOf(c) == {d \in Attempts : Active(d) /\ devices[d].child = c}

Goto(a, pc) == attempt' = [attempt EXCEPT ![a].pc = pc]

-----------------------------------------------------------------------------
\* POST /children/:id/enrollment-code; a child may have several open codes
MintCode(k, c) ==
    /\ codes[k] = Unminted
    /\ codes' = [codes EXCEPT ![k] = [child |-> c, expires |-> now + CodeTTL,
                                      consumed |-> FALSE]]
    /\ UNCHANGED <<devices, attempt, now>>

\* Mutant of EnrollLookup: an unknown code does not end the handler.
EnrollLookupGoesOn(a, k) ==
    /\ attempt[a].pc = "new"
    /\ attempt' = [attempt EXCEPT ![a] =
          [pc |-> "found", code |-> k, child |-> IF Open(k) THEN codes[k].child ELSE None]]
    /\ UNCHANGED <<codes, devices, now>>

\* POST /enroll: the first statement selects an open, unexpired code.  (The
\* rate limit before it only turns attempts away, which never arrive here.)
EnrollLookup(a, k) ==
    /\ attempt[a].pc = "new"
    /\ attempt' = [attempt EXCEPT ![a] =
          IF Open(k) /\ codes[k].expires > now
          THEN [pc |-> "found", code |-> k, child |-> codes[k].child]
          ELSE [pc |-> "rejected", code |-> None, child |-> None]]
    /\ UNCHANGED <<codes, devices, now>>

\* Mutant of EnrollConsume: the number of changed rows is not looked at.
EnrollConsumeAlways(a) ==
    /\ attempt[a].pc = "found"
    /\ codes' = [k \in Codes |-> IF k = attempt[a].code /\ Open(k)
                                 THEN [codes[k] EXCEPT !.consumed = TRUE] ELSE codes[k]]
    /\ Goto(a, "consumed")
    /\ UNCHANGED <<devices, now>>

\* Mutant of EnrollConsume: the code is checked again and left open.
EnrollConsumeLeavesOpen(a) ==
    /\ attempt[a].pc = "found"
    /\ Goto(a, IF Open(attempt[a].code) THEN "consumed" ELSE "rejected")
    /\ UNCHANGED <<codes, devices, now>>

\* The conditional UPDATE that lets one of several attempts with a code win.
EnrollConsume(a) ==
    LET k == attempt[a].code IN
    /\ attempt[a].pc = "found"
    /\ IF Open(k) THEN /\ codes' = [codes EXCEPT ![k].consumed = TRUE]
                       /\ Goto(a, "consumed")
                  ELSE /\ UNCHANGED codes
                       /\ Goto(a, "rejected")
    /\ UNCHANGED <<devices, now>>

\* Mutant of EnrollRegister: the child's other devices stay active.
EnrollRegisterBeside(a) ==
    /\ attempt[a].pc = "consumed"
    /\ devices' = [devices EXCEPT ![a] = [child |-> attempt[a].child, revoked |-> FALSE]]
    /\ Goto(a, "registered")
    /\ UNCHANGED <<codes, now>>

\* The batch: every device of the code's child is revoked, the new one inserted.
EnrollRegister(a) ==
    LET c == attempt[a].child IN
    /\ attempt[a].pc = "consumed"
    /\ devices' = [d \in Attempts |->
          IF d = a THEN [child |-> c, revoked |-> FALSE]
          ELSE IF d \in ActiveOf(c) THEN [devices[d] EXCEPT !.revoked = TRUE]
          ELSE devices[d]]
    /\ Goto(a, "registered")
    /\ UNCHANGED <<codes, now>>

\* 201 with device id, token and policy
EnrollAnswer(a) ==
    /\ attempt[a].pc = "registered"
    /\ Goto(a, "answered")
    /\ UNCHANGED <<codes, devices, now>>

\* The invocation dies between two statements: nothing is rolled back.  (After
\* the batch there is only the answer left to lose, which is one never read.)
EnrollDies(a) ==
    /\ attempt[a].pc \in {"found", "consumed"}
    /\ Goto(a, "dead")
    /\ UNCHANGED <<codes, devices, now>>

\* Mutant of Revoke: the console's button toggles.
RevokeToggles(d) ==
    /\ devices[d] # NoDevice
    /\ devices' = [devices EXCEPT ![d].revoked = ~@]
    /\ UNCHANGED <<codes, attempt, now>>

\* POST /devices/:id/revoke
Revoke(d) ==
    /\ devices[d] # NoDevice
    /\ devices' = [devices EXCEPT ![d].revoked = TRUE]
    /\ UNCHANGED <<codes, attempt, now>>

\* Nightly retention deletes expired codes, consumed or not.
Retention ==
    /\ codes' = [k \in Codes |-> IF Exists(k) /\ codes[k].expires < now THEN Deleted
                                                                        ELSE codes[k]]
    /\ UNCHANGED <<devices, attempt, now>>

Tick ==
    /\ now < MaxTime
    /\ now' = now + 1
    /\ UNCHANGED <<codes, devices, attempt>>

-----------------------------------------------------------------------------
Init ==
    /\ codes = [k \in Codes |-> Unminted]
    /\ devices = [a \in Attempts |-> NoDevice]
    /\ attempt = [a \in Attempts |-> [pc |-> "new", code |-> None, child |-> None]]
    /\ now = 0

\* What the worker does on behalf of an attempt that has found its code
EnrollStep(a) ==
    \/ EnrollConsume(a)
    \/ EnrollRegister(a)
    \/ EnrollAnswer(a)
    \/ EnrollDies(a)

ConsoleStep ==
    \/ \E k \in Codes, c \in Children : MintCode(k, c)
    \/ \E d \in Attempts : Revoke(d)
    \/ Retention
    \/ Tick

Next ==
    \/ \E a \in Attempts, k \in Codes : EnrollLookup(a, k)
    \/ \E a \in Attempts : EnrollStep(a)
    \/ ConsoleStep

Spec == Init /\ [][Next]_cloudVars

-----------------------------------------------------------------------------
TypeOK ==
    /\ codes \in [Codes -> CodeRow \cup {Unminted, Deleted}]
    /\ devices \in [Attempts -> DeviceRow \cup {NoDevice}]
    /\ attempt \in [Attempts -> Attempt]
    /\ \A a \in Attempts : attempt[a].pc \in {"found", "consumed"} =>
          attempt[a].code # None /\ attempt[a].child # None
    /\ now \in Nat

\* However many codes and attempts a child has open at once, at most one of its
\* devices can authenticate: the console shows one device per child.
OneActiveDevice ==
    \A d, e \in Attempts :
        Active(d) /\ Active(e) /\ devices[d].child = devices[e].child => d = e

\* Two attempts that typed the same code never both get a device, even when
\* both found it open, and even when retention deletes it in between.
CodeUsedOnce ==
    \A a, b \in Attempts :
        /\ devices[a] # NoDevice /\ devices[b] # NoDevice
        /\ attempt[a].code = attempt[b].code
        => a = b

\* A revoked credential never authenticates again, and a device never moves to
\* another child: linking a PC again always makes a new device.
RevokedForGood ==
    [][\A d \in Attempts : devices[d] # NoDevice =>
          /\ devices'[d] # NoDevice
          /\ devices'[d].child = devices[d].child
          /\ devices[d].revoked => devices'[d].revoked]_cloudVars

\* The inductive form of CodeUsedOnce.  An attempt past its conditional UPDATE
\* has a claim on its code; a claimed code is closed for good and claimed once.
Claims(a) == attempt[a].pc \in {"consumed", "registered", "answered"} \/ devices[a] # NoDevice

ClaimInv ==
    /\ \A a \in Attempts :
          /\ attempt[a].pc \in {"new", "found", "consumed", "rejected"} => devices[a] = NoDevice
          /\ attempt[a].pc = "found" => codes[attempt[a].code] # Unminted
          /\ Claims(a) => /\ attempt[a].code # None
                          /\ codes[attempt[a].code] # Unminted
                          /\ ~Open(attempt[a].code)
    /\ \A a, b \in Attempts :
          Claims(a) /\ Claims(b) /\ attempt[a].code = attempt[b].code => a = b

\* The abstract specification this implements, with POST /enroll as one step.
EverLinked == {d \in Attempts : devices[d] # NoDevice}

Links == INSTANCE Linking WITH
    Devices <- Attempts,
    linked  <- {<<devices[d].child, d>> : d \in {e \in Attempts : Active(e)}},
    spent   <- {attempt[d].code : d \in EverLinked},
    past    <- EverLinked

\* The five statements of POST /enroll, of any number of attempts that overlap,
\* die or lose their answer, look like one atomic exchange of an unspent code
\* for the child's only device: the batch that inserts the device is that
\* exchange, and everything before and after it is invisible.
ImplementsLinking == Links!LinkSpec

=============================================================================
