----------------------------- MODULE ParentAuth -----------------------------
(***************************************************************************)
(* One parent's account: the row of parents that holds PIN, paper recovery *)
(* key, authenticator and the one session, and the route handlers that     *)
(* read it and write it back in statements of their own.                   *)
(*                                                                         *)
(* An attempt is one POST to signup, setup, login, recover or totp/recover.*)
(* PIN, recovery key and session token are fresh when they are set, so the *)
(* attempt also names the PIN, the key and the token it makes.  A request  *)
(* is one call with a session token: to the console, to the TOTP routes or *)
(* to logout.                                                              *)
(***************************************************************************)
EXTENDS Integers

CONSTANTS
    Attempts,    \* invocations that may establish a session
    Requests,    \* invocations that present one, reused
    Given,       \* PIN, key and token of an account older than migration 0006
    None,        \* a NULL column
    NoRow,       \* no parents row for the email
    IdleTTL,     \* SESSION_IDLE_MS
    AbsoluteTTL, \* SESSION_ABSOLUTE_MS
    TouchAfter,  \* SESSION_TOUCH_AFTER_MS
    MaxTime      \* bound: clock values explored

ASSUME AuthAssumption ==
    /\ IdleTTL \in Nat /\ AbsoluteTTL \in Nat /\ TouchAfter \in Nat /\ MaxTime \in Nat
    /\ Given \notin Attempts /\ None \notin Attempts /\ Given # None

Secrets == Attempts \cup {Given, None}

\* expires and used are 0 where the columns are NULL
Row == [pin : Secrets, legacy : BOOLEAN, key : Secrets, totp : BOOLEAN,
        token : Secrets, expires : Nat, used : Nat]

ASSUME NoRowAssumption == NoRow \notin Row

VARIABLES
    row,       \* the parents row of the email
    attempt,   \* Attempts -> where the handler is, the PIN it verified, and
               \* the time of its read, then the one its session was minted at
    request,   \* Requests -> where the handler is, its token and its time
    use,       \* history: Attempts -> last time its session was accepted or issued
    now        \* wall clock

vars == <<row, attempt, request, use, now>>

Unissued == -1

Exists == row # NoRow
HasPin == Exists /\ row.pin # None

\* isSessionLive
Live == now < row.expires /\ now - row.used < IdleTTL

Blank == [pin |-> None, legacy |-> FALSE, key |-> None, totp |-> FALSE,
          token |-> None, expires |-> 0, used |-> 0]

Become(a, pc) == attempt' = [attempt EXCEPT ![a].pc = pc]

\* What the handler read is as of now.
Read(a, pc) == attempt' = [attempt EXCEPT ![a].pc = pc, ![a].at = now]

\* The session is minted (createSession) at a time m after the read and before
\* the statement that stores it.
Store(a, m, pc) ==
    /\ m \in attempt[a].at .. now
    /\ attempt' = [attempt EXCEPT ![a].pc = pc, ![a].at = m]
    /\ use' = [use EXCEPT ![a] = m]

\* Mutant of WithSession: the absolute limit runs from the UPDATE, not from
\* createSession.
WithSessionFromNow(r, a, m) ==
    [r EXCEPT !.token = a, !.expires = now + AbsoluteTTL, !.used = m]

WithSession(r, a, m) == [r EXCEPT !.token = a, !.expires = m + AbsoluteTTL, !.used = m]

WithPin(r, p) == [r EXCEPT !.pin = p, !.legacy = FALSE]

-----------------------------------------------------------------------------
\* ensureParent, for a parent who comes through Cloudflare Access: a row
\* without a PIN
Provision ==
    /\ row = NoRow
    /\ row' = Blank
    /\ UNCHANGED <<attempt, request, use, now>>

\* provisionParentAccount: the account is looked up first ...
SignupRead(a) ==
    /\ attempt[a].pc = "new"
    /\ Read(a, IF ~Exists THEN "insert" ELSE IF row.pin = None THEN "attach" ELSE "refused")
    /\ UNCHANGED <<row, request, use, now>>

\* ... then inserted; the unique email fails the batch if it exists by now
SignupInsert(a) ==
    /\ attempt[a].pc = "insert"
    /\ IF Exists
       THEN Become(a, "refused") /\ UNCHANGED <<row, use>>
       ELSE \E m \in 0 .. now :
               /\ Store(a, m, "done")
               /\ row' = WithSession([Blank EXCEPT !.pin = a, !.key = a], a, m)
    /\ UNCHANGED <<request, now>>

\* ... or the row without a PIN gets PIN, key and session (also in setup)
Attach(a) ==
    /\ attempt[a].pc = "attach"
    /\ \E m \in 0 .. now :
          /\ Store(a, m, "done")
          /\ row' = WithSession([WithPin(row, a) EXCEPT !.key = a, !.totp = FALSE], a, m)
    /\ UNCHANGED <<request, now>>

\* POST /setup without an email, for parent@family.local, refused once any
\* account has a PIN
SetupCount(a) ==
    /\ attempt[a].pc = "new"
    /\ Become(a, IF HasPin THEN "refused" ELSE "provision")
    /\ UNCHANGED <<row, request, use, now>>

\* Mutant of SetupProvision: the row is taken to exist.
SetupProvisionAssumed(a) ==
    /\ attempt[a].pc = "provision"
    /\ Read(a, "attach")
    /\ UNCHANGED <<row, request, use, now>>

SetupProvision(a) ==
    /\ attempt[a].pc = "provision"
    /\ row' = IF Exists THEN row ELSE Blank
    /\ Read(a, "attach")
    /\ UNCHANGED <<request, use, now>>

\* POST /login with the PIN of the row; a hash in an old format is upgraded
LoginRead(a) ==
    /\ attempt[a].pc = "new"
    /\ HasPin
    /\ attempt' = [attempt EXCEPT ![a] =
          [pc |-> IF row.legacy THEN "rehash" ELSE "issue", pin |-> row.pin, at |-> now]]
    /\ UNCHANGED <<row, request, use, now>>

LoginRehash(a) ==
    /\ attempt[a].pc = "rehash"
    /\ row' = WithPin(row, attempt[a].pin)
    /\ Read(a, "issue")
    /\ UNCHANGED <<request, use, now>>

LoginIssue(a) ==
    /\ attempt[a].pc = "issue"
    /\ \E m \in 0 .. now : Store(a, m, "done") /\ row' = WithSession(row, a, m)
    /\ UNCHANGED <<request, now>>

\* POST /recover with the paper key of the row
RecoverRead(a) ==
    /\ attempt[a].pc = "new"
    /\ Exists /\ row.key # None
    /\ Read(a, "replace")
    /\ UNCHANGED <<row, request, use, now>>

RecoverReplace(a) ==
    /\ attempt[a].pc = "replace"
    /\ \E m \in 0 .. now :
          /\ Store(a, m, "done")
          /\ row' = WithSession([WithPin(row, a) EXCEPT !.key = a], a, m)
    /\ UNCHANGED <<request, now>>

\* POST /totp/recover with a valid code: session first, then the PIN
TotpRecoverRead(a) ==
    /\ attempt[a].pc = "new"
    /\ Exists /\ row.totp
    /\ Read(a, "totpIssue")
    /\ UNCHANGED <<row, request, use, now>>

TotpRecoverIssue(a) ==
    /\ attempt[a].pc = "totpIssue"
    /\ \E m \in 0 .. now : Store(a, m, "totpPin") /\ row' = WithSession(row, a, m)
    /\ UNCHANGED <<request, now>>

TotpRecoverPin(a) ==
    /\ attempt[a].pc = "totpPin"
    /\ row' = WithPin(row, a)
    /\ Become(a, "done")
    /\ UNCHANGED <<request, use, now>>

\* The invocation dies between two statements.
AttemptDies(a) ==
    /\ attempt[a].pc \notin {"new", "done", "refused", "dead"}
    /\ Become(a, "dead")
    /\ UNCHANGED <<row, request, use, now>>

-----------------------------------------------------------------------------
\* Calls with a session token.  A token that is not in the row changes nothing.

Free == [pc |-> "idle", token |-> None, at |-> 0]

Presents(r, t) == request[r].pc = "idle" /\ Exists /\ row.token = t /\ t # None

Hold(r, pc, t) == request' = [request EXCEPT ![r] = [pc |-> pc, token |-> t, at |-> now]]

Accept(t) == use' = [use EXCEPT ![t] = now]

\* parentAuth: a live session is accepted, and its last use written if the
\* stored one is stale enough; an expired one is cleared
RequestAccepted(r, t) ==
    /\ Presents(r, t)
    /\ Live
    /\ Accept(t)
    /\ IF now - row.used >= TouchAfter THEN Hold(r, "touch", t) ELSE UNCHANGED request
    /\ UNCHANGED <<row, attempt, now>>

RequestExpired(r, t) ==
    /\ Presents(r, t)
    /\ ~Live
    /\ Hold(r, "clear", t)
    /\ UNCHANGED <<row, attempt, use, now>>

\* Mutant of RequestTouch: the row is found by its id, not by the token.
RequestTouchParent(r) ==
    /\ request[r].pc = "touch"
    /\ row' = [row EXCEPT !.used = request[r].at]
    /\ request' = [request EXCEPT ![r] = Free]
    /\ UNCHANGED <<attempt, use, now>>

\* Mutant of RequestTouch: the row is saved as it was read, token included.
RequestTouchRow(r) ==
    /\ request[r].pc = "touch"
    /\ row' = [row EXCEPT !.used = request[r].at, !.token = request[r].token]
    /\ request' = [request EXCEPT ![r] = Free]
    /\ UNCHANGED <<attempt, use, now>>

\* touchSession: UPDATE ... WHERE session_token = the token presented
RequestTouch(r) ==
    /\ request[r].pc = "touch"
    /\ row' = IF row.token = request[r].token THEN [row EXCEPT !.used = request[r].at] ELSE row
    /\ request' = [request EXCEPT ![r] = Free]
    /\ UNCHANGED <<attempt, use, now>>

\* POST /logout: no look at the row before the UPDATE
Logout(r, t) ==
    /\ request[r].pc = "idle"
    /\ t \in {Given} \cup {a \in Attempts : use[a] # Unissued}
    /\ Hold(r, "clear", t)
    /\ UNCHANGED <<row, attempt, use, now>>

\* Mutant of RequestClear: the row is found by its id, not by the token.
RequestClearParent(r) ==
    /\ request[r].pc = "clear"
    /\ row' = IF Exists THEN [row EXCEPT !.token = None, !.expires = 0, !.used = 0] ELSE row
    /\ request' = [request EXCEPT ![r] = Free]
    /\ UNCHANGED <<attempt, use, now>>

\* clearSession, likewise by token
RequestClear(r) ==
    /\ request[r].pc = "clear"
    /\ row' = IF Exists /\ row.token = request[r].token
              THEN [row EXCEPT !.token = None, !.expires = 0, !.used = 0]
              ELSE row
    /\ request' = [request EXCEPT ![r] = Free]
    /\ UNCHANGED <<attempt, use, now>>

\* POST /totp/confirm: requireSession, then the secret is stored by parent id
ConfirmRead(r, t) ==
    /\ Presents(r, t)
    /\ Live
    /\ ~row.totp
    /\ Accept(t)
    /\ Hold(r, "link", t)
    /\ UNCHANGED <<row, attempt, now>>

ConfirmWrite(r) ==
    /\ request[r].pc = "link"
    /\ row' = [row EXCEPT !.totp = TRUE]
    /\ request' = [request EXCEPT ![r] = Free]
    /\ UNCHANGED <<attempt, use, now>>

RequestDies(r) ==
    /\ request[r].pc # "idle"
    /\ request' = [request EXCEPT ![r] = Free]
    /\ UNCHANGED <<row, attempt, use, now>>

Tick ==
    /\ now < MaxTime
    /\ now' = now + 1
    /\ UNCHANGED <<row, attempt, request, use>>

-----------------------------------------------------------------------------
\* No account yet, or one from before the PBKDF2 hashes and session expiry
Init ==
    /\ row \in {NoRow} \cup {[Blank EXCEPT !.pin = Given, !.legacy = TRUE, !.key = Given,
                                           !.totp = b, !.token = Given] : b \in BOOLEAN}
    /\ attempt = [a \in Attempts |-> [pc |-> "new", pin |-> None, at |-> 0]]
    /\ request = [r \in Requests |-> Free]
    /\ use = [a \in Attempts |-> Unissued]
    /\ now = 0

AttemptStep(a) ==
    \/ SignupRead(a) \/ SignupInsert(a) \/ Attach(a)
    \/ SetupCount(a) \/ SetupProvision(a)
    \/ LoginRead(a) \/ LoginRehash(a) \/ LoginIssue(a)
    \/ RecoverRead(a) \/ RecoverReplace(a)
    \/ TotpRecoverRead(a) \/ TotpRecoverIssue(a) \/ TotpRecoverPin(a)
    \/ AttemptDies(a)

RequestStep(r) ==
    \/ \E t \in Attempts : RequestAccepted(r, t) \/ ConfirmRead(r, t)
    \/ \E t \in Attempts \cup {Given} : RequestExpired(r, t) \/ Logout(r, t)
    \/ RequestTouch(r) \/ RequestClear(r) \/ ConfirmWrite(r)
    \/ RequestDies(r)

Next ==
    \/ Provision
    \/ \E a \in Attempts : AttemptStep(a)
    \/ \E r \in Requests : RequestStep(r)
    \/ Tick

Spec == Init /\ [][Next]_vars

-----------------------------------------------------------------------------
AttemptPcs == {"new", "insert", "attach", "provision", "rehash", "issue", "replace",
               "totpIssue", "totpPin", "done", "refused", "dead"}

TypeOK ==
    /\ row \in Row \cup {NoRow}
    /\ attempt \in [Attempts -> [pc : AttemptPcs, pin : Secrets, at : Nat]]
    /\ request \in [Requests -> [pc : {"idle", "touch", "clear", "link"},
                                 token : Secrets, at : Nat]]
    /\ use \in [Attempts -> Nat \cup {Unissued}]
    /\ now \in Nat
    /\ \A a \in Attempts :
          attempt[a].pc \notin {"new", "insert", "provision", "done", "refused", "dead"} => Exists
    /\ \A r \in Requests : request[r].pc \in {"touch", "link"} => Exists

Session == IF Exists THEN row.token ELSE None
Key     == IF Exists THEN row.key ELSE None

BeforeStore == {"new", "insert", "attach", "provision", "rehash", "issue", "replace",
                "totpIssue", "refused"}

\* What makes the two limits hold: a token enters the row once, with the limit of
\* the mint; the idle time stored, and every touch still under way, is never
\* ahead of the last use.
SessionInv ==
    /\ \A a \in Attempts :
          /\ attempt[a].pc \in BeforeStore => use[a] = Unissued
          /\ attempt[a].at <= now /\ use[a] <= now
          /\ Session = a => /\ use[a] # Unissued
                            /\ row.used <= use[a]
                            /\ row.expires = attempt[a].at + AbsoluteTTL
    /\ \A r \in Requests : request[r].pc = "touch" =>
          /\ request[r].token \in Attempts
          /\ request[r].at <= use[request[r].token]

\* Whatever logins, slow touches and cleanups overlap, no request gets in with a
\* session unused for IdleTTL or older than AbsoluteTTL.
AcceptedInTime ==
    [][\A t \in Attempts : use[t] # Unissued /\ use'[t] > use[t] =>
          /\ now - use[t] < IdleTTL
          /\ now < attempt[t].at + AbsoluteTTL]_vars

\* A session is ended only by a newer one or by a call that presented it: the
\* cleanup of an expired session, or a late logout, never signs out the parent
\* who has signed in again meanwhile.
ClearedByItsHolder ==
    [][Session # None /\ Session' = None =>
          \E r \in Requests : request[r].pc = "clear" /\ request[r].token = Session]_vars

\* A session that was replaced, cleared or signed out never comes back, and
\* neither does a paper key that was exchanged: both enter the row only in the
\* step of the attempt that made them.
EndedForGood ==
    [][\A a \in Attempts : attempt[a].pc = attempt'[a].pc =>
          /\ Session' = a => Session = a
          /\ Exists' /\ row'.key = a => Exists /\ row.key = a]_vars

Kept == INSTANCE Account WITH
    SignIns <- Attempts,
    session <- Session,
    key     <- Key,
    minted  <- [a \in Attempts |-> IF use[a] = Unissued THEN Unissued ELSE attempt[a].at],
    used    <- use,
    clock   <- now

\* Signups, logins and recoveries of several statements, with last uses written
\* late or not at all and cleanups that overlap new sign-ins, look like calls made
\* one at a time: the row's stale time stamps never admit a call the true ones
\* would not, and nothing that was replaced or ended is ever used again
\* (parentAuth, requireSession, touchSession, clearSession, routes/auth.ts).
ImplementsAccount == Kept!AccountSpec

=============================================================================
