------------------------------ MODULE Dashboard ------------------------------
(***************************************************************************)
(* The parent console in one browser tab (App.tsx, api.ts), next to the    *)
(* one session its worker keeps for the parent's account.                  *)
(*                                                                         *)
(* Whatever the tab does is a call whose answer comes when it comes: a     *)
(* status check, and the refresh of all panels that may follow it, a       *)
(* sign-in, a logout nobody waits for, the opening of a policy, a change.  *)
(* A call carries the token that localStorage held when it was made; what  *)
(* follows its answer finds the tab as others have left it.                *)
(*                                                                         *)
(* Sessions are numbered as they are minted, and 0 is none.  A reload      *)
(* forgets the calls of the page.                                          *)
(***************************************************************************)
EXTENDS Naturals

CONSTANTS
    Panels,     \* what one refresh loads: children, requests, events
    Calls,      \* checks, refreshes and changes that may be in flight at once
    Children,
    None,       \* no child
    MaxSessions \* bound: sessions minted

ASSUME DashboardAssumption == MaxSessions \in Nat /\ None \notin Children /\ Panels # {}

VARIABLES
    known,      \* the account has a PIN
    linked,     \* totp_secret is set
    row,        \* session_token
    live,       \* isSessionLive of the row
    minted,     \* sessions minted
    token,      \* localStorage sb_parent_token
    status,     \* authStatus: null, or the session's: none, one to link, linked
    shown,      \* authenticated
    panels,     \* Panels -> the session its data was read with
    gate,       \* MandatoryTotpGate
    form,       \* ParentAuthScreen
    drawer,     \* PolicyDrawer: the child, and the child whose settings are edited
    call,       \* Calls -> a check, refresh or change in flight, and who waits for it
    opening,    \* the children whose policy is being opened
    farewell,   \* logout requests not arrived (yet), by the session they carry
    locked,     \* history: sessions the parent locked
    overlapped, \* history: two policies were being opened at once
    crossed     \* history: a child was sent the settings of another

worker == <<known, linked, row, live, minted>>
page   == <<token, status, shown, panels>>
parts  == <<gate, form, drawer>>
bye    == <<farewell, locked>>
edit   == <<opening, overlapped, crossed>>
vars   == <<worker, page, parts, call, bye, edit>>

NoCall   == [pc |-> "idle", for |-> "nobody", token |-> 0, answer |-> "null",
             left |-> {}, refused |-> {}]
Ready    == [pc |-> "ready", key |-> FALSE, session |-> 0]
NoPolicy == [child |-> None, edited |-> None]

\* What App returns: the gate, the console, or the sign-in form.
Screen == IF token # 0 /\ status = "gate" THEN "gate"
          ELSE IF shown THEN "console" ELSE "form"

\* A component that is not on the screen any more loses its state, except for
\* what a sign-in under way will still do; a drawer that comes back starts from
\* the policy that was opened.
Render(f) ==
    /\ gate' = IF Screen' = "gate" THEN gate ELSE "loading"
    /\ form' = IF Screen' # "form" /\ f.pc \in {"key", "wizard", "done"} THEN Ready ELSE f
    /\ drawer' = IF Screen' = "console" THEN drawer
                                        ELSE [drawer EXCEPT !.edited = drawer.child]

\* The session is the one of the account and within its limits.
IsLive(s) == s # 0 /\ s = row /\ live

\* parentAuth lets the session in.
Serves(s) == IsLive(s) /\ linked

\* parentAuth drops an expired session from the row.
DropExpired(s) ==
    /\ row' = IF s # 0 /\ s = row /\ ~live THEN 0 ELSE row
    /\ UNCHANGED <<known, linked, live, minted>>

Init ==
    /\ known \in BOOLEAN /\ linked \in BOOLEAN /\ (linked => known)
    /\ row = 0 /\ live = FALSE /\ minted = 0
    /\ token = 0 /\ status = "null" /\ shown = FALSE
    /\ panels = [x \in Panels |-> 0]
    /\ gate = "loading" /\ form = Ready /\ drawer = NoPolicy
    /\ call = [c \in Calls |-> NoCall]
    /\ opening = {}
    /\ farewell = {} /\ locked = {}
    /\ overlapped = FALSE /\ crossed = FALSE

-----------------------------------------------------------------------------
\* The account

MintSession ==
    /\ minted < MaxSessions
    /\ minted' = minted + 1
    /\ row' = minted + 1
    /\ live' = TRUE

\* The parent signs in with another browser: the row has one session.
SignInElsewhere ==
    /\ known
    /\ MintSession
    /\ UNCHANGED <<known, linked, page, parts, call, bye, edit>>

\* The session passes its idle or absolute limit.
Expire ==
    /\ live
    /\ live' = FALSE
    /\ UNCHANGED <<known, linked, row, minted, page, parts, call, bye, edit>>

-----------------------------------------------------------------------------
\* checkAuth, and what its callers do with the answer

Check(who, t)   == [NoCall EXCEPT !.pc = "sent", !.for = who, !.token = t]
Refresh(who, t) == [NoCall EXCEPT !.pc = "loading", !.for = who, !.token = t, !.left = Panels]

Start(c, what) ==
    /\ call[c] = NoCall
    /\ call' = [call EXCEPT ![c] = what]

\* GET /auth/status: an expired session is reported as none, and stays in the row.
CheckServe(c) ==
    /\ call[c].pc = "sent"
    /\ call' = [call EXCEPT ![c] = [@ EXCEPT !.pc = "answered", !.token = 0,
                                  !.answer = IF ~IsLive(call[c].token) THEN "out"
                                             ELSE IF linked THEN "in" ELSE "gate"]]
    /\ UNCHANGED <<worker, page, parts, bye, edit>>

\* The call fails and checkAuth returns null.
CheckFails(c) ==
    /\ call[c].pc = "sent"
    /\ call' = [call EXCEPT ![c] = [@ EXCEPT !.pc = "answered", !.token = 0]]
    /\ UNCHANGED <<worker, page, parts, bye, edit>>

\* Who loads the console on which answer
Loads(who, answer) ==
    \/ who = "mount" /\ answer = "in" /\ token # 0
    \/ who = "form" /\ answer # "gate"
    \/ who = "gate" /\ answer \in {"in", "out"}

\* Mutant of FormAfter: the busy flag is reset on success only.
FormAfterSuccess(who) ==
    IF who = "form" /\ Screen' = "console" THEN Ready ELSE form

\* The sign-in that waited for a call is over with it.
FormAfter(who) == IF who = "form" THEN Ready ELSE form

\* A token the worker has no session for is dropped, whichever is stored by now.
CheckDone(c) ==
    LET who    == call[c].for
        answer == call[c].answer
    IN
    /\ call[c].pc = "answered"
    /\ token' = IF answer = "out" THEN 0 ELSE token
    /\ status' = IF answer = "null" THEN status ELSE answer
    /\ UNCHANGED <<shown, panels>>
    /\ IF Loads(who, answer)
       THEN /\ call' = [call EXCEPT ![c] =
                          Refresh(IF who = "form" THEN who ELSE "nobody", token')]
            /\ Render(form)
       ELSE call' = [call EXCEPT ![c] = NoCall] /\ Render(FormAfter(who))
    /\ UNCHANGED <<worker, bye, edit>>

-----------------------------------------------------------------------------
\* refresh: all panels with one token, all or nothing

\* A session past its limits, or without an authenticator, is refused with a
\* message the tab takes for an error; without any session it is signed out.
Refusal(s) == IF s # 0 /\ s = row THEN "error" ELSE "unauthorized"

Handled(c, x) ==
    LET s == call[c].token IN
    /\ x \in call[c].left
    /\ call' = [call EXCEPT ![c] = [@ EXCEPT !.left = call[c].left \ {x},
           !.refused = call[c].refused \cup (IF Serves(s) THEN {} ELSE {Refusal(s)})]]
    /\ DropExpired(s)

\* Mutant of RefreshServe: a panel is filled as soon as its data is there.
RefreshServePanel(c, x) ==
    /\ Handled(c, x)
    /\ panels' = IF Serves(call[c].token) THEN [panels EXCEPT ![x] = call[c].token] ELSE panels
    /\ UNCHANGED <<token, status, shown, parts, bye, edit>>

\* The worker handles the call for one of the panels.
RefreshServe(c, x) ==
    /\ Handled(c, x)
    /\ UNCHANGED <<page, parts, bye, edit>>

\* The network or the worker fails.
RefreshFails(c, x) ==
    /\ x \in call[c].left
    /\ call' = [call EXCEPT ![c] = [@ EXCEPT !.left = call[c].left \ {x},
                                             !.refused = call[c].refused \cup {"error"}]]
    /\ UNCHANGED <<worker, page, parts, bye, edit>>

\* Only all of them together fill the panels and show the console.
RefreshDone(c) ==
    /\ call[c].pc = "loading"
    /\ call[c].left = {} /\ call[c].refused = {}
    /\ call' = [call EXCEPT ![c] = NoCall]
    /\ panels' = [x \in Panels |-> call[c].token]
    /\ shown' = TRUE
    /\ UNCHANGED <<token, status>>
    /\ Render(FormAfter(call[c].for))
    /\ UNCHANGED <<worker, bye, edit>>

\* The first refusal to arrive rejects the refresh.
RefreshRejected(c) ==
    \E why \in call[c].refused :
        /\ call' = [call EXCEPT ![c] = NoCall]
        /\ shown' = (shown /\ why = "error")
        /\ UNCHANGED <<token, status, panels>>
        /\ Render(FormAfter(call[c].for))
        /\ UNCHANGED <<worker, bye, edit>>

-----------------------------------------------------------------------------
\* ParentAuthScreen

\* Login and forgotten PIN lead to the console; signup and the paper key lead to
\* a new recovery key first.
SignIn(key) ==
    /\ Screen = "form" /\ form = Ready
    /\ key \/ known
    /\ form' = [Ready EXCEPT !.pc = "posting", !.key = key]
    /\ UNCHANGED <<worker, page, gate, drawer, call, bye, edit>>

\* Mutant of SignInServe: the tab does not look at the status of the answer.
SignInServeUnchecked ==
    /\ form.pc = "posting"
    /\ \/ /\ MintSession /\ known' = TRUE /\ UNCHANGED linked
          /\ form' = [form EXCEPT !.pc = "answered", !.session = minted']
       \/ UNCHANGED worker /\ form' = [form EXCEPT !.pc = "answered"]
    /\ UNCHANGED <<page, gate, drawer, call, bye, edit>>

\* The account is there from now on; its session replaces any other.
SignInServe ==
    /\ form.pc = "posting"
    /\ MintSession
    /\ known' = TRUE
    /\ form' = [form EXCEPT !.pc = "answered", !.session = minted']
    /\ UNCHANGED <<linked, page, gate, drawer, call, bye, edit>>

\* Refused, or the answer is lost
SignInFails ==
    /\ form.pc \in {"posting", "answered"}
    /\ form' = Ready
    /\ UNCHANGED <<worker, page, gate, drawer, call, bye, edit>>

SignedIn ==
    /\ form.pc = "answered"
    /\ token' = form.session
    /\ UNCHANGED <<status, shown, panels>>
    /\ IF form.key
       THEN UNCHANGED call /\ Render([Ready EXCEPT !.pc = "key"])
       ELSE /\ \E c \in Calls : Start(c, Check("form", token'))
            /\ Render([Ready EXCEPT !.pc = "entering"])
    /\ UNCHANGED <<worker, bye, edit>>

\* GET /totp/setup is refused when an authenticator is linked already ...
GetsSecret == IsLive(token) /\ ~linked

\* ... and so is POST /totp/confirm, which links one for good.
LinkAuthenticator ==
    /\ IsLive(token) /\ ~linked
    /\ linked' = TRUE
    /\ UNCHANGED <<known, row, live, minted>>

\* The recovery key is on the screen until the setup has been fetched.
KeyNoted ==
    /\ Screen = "form" /\ form.pc = "key"
    /\ GetsSecret
    /\ form' = [form EXCEPT !.pc = "wizard"]
    /\ UNCHANGED <<worker, page, gate, drawer, call, bye, edit>>

\* When the answer to the confirmation is lost, the wizard stays.
FormConfirms ==
    /\ Screen = "form" /\ form.pc = "wizard"
    /\ LinkAuthenticator
    /\ form' \in {form, [form EXCEPT !.pc = "done"]}
    /\ UNCHANGED <<page, gate, drawer, call, bye, edit>>

\* The button behind the confirmed authenticator calls onAuthenticated too.
EnterDashboard ==
    /\ Screen = "form" /\ form.pc = "done"
    /\ form' = [Ready EXCEPT !.pc = "entering"]
    /\ \E c \in Calls : Start(c, Check("form", token))
    /\ UNCHANGED <<worker, page, gate, drawer, bye, edit>>

-----------------------------------------------------------------------------
\* MandatoryTotpGate

\* The gate fetches a secret when it appears; without one it only offers the lock.
GateSetup ==
    /\ Screen = "gate" /\ gate = "loading"
    /\ \/ gate' = "wizard" /\ GetsSecret
       \/ gate' = "error"
    /\ UNCHANGED <<worker, page, form, drawer, call, bye, edit>>

\* When the answer is lost, the wizard stays; otherwise onComplete checks again.
GateConfirms ==
    /\ Screen = "gate" /\ gate = "wizard"
    /\ LinkAuthenticator
    /\ \/ UNCHANGED call
       \/ \E c \in Calls : Start(c, Check("gate", token))
    /\ UNCHANGED <<page, parts, bye, edit>>

-----------------------------------------------------------------------------
\* Lock console, and the page as a whole

MayLock == Screen = "console" \/ (Screen = "gate" /\ gate = "error")

\* Mutant of Farewell: the token is removed before the header is made.
FarewellAfterRemoval ==
    /\ locked' = locked \cup ({token} \ {0})
    /\ farewell' = farewell

\* api.logout posts the token it removes, and does not wait.
Farewell ==
    /\ locked' = locked \cup ({token} \ {0})
    /\ farewell' = farewell \cup ({token} \ {0})

\* From the console, or from a gate that could not be set up
Lock ==
    /\ MayLock
    /\ Farewell
    /\ token' = 0 /\ shown' = FALSE
    /\ UNCHANGED <<status, panels>>
    /\ \E c \in Calls : Start(c, Check("nobody", 0))
    /\ Render(form)
    /\ UNCHANGED <<worker, edit>>

\* A request that is lost stays where it is.
LogoutServe(s) ==
    /\ s \in farewell
    /\ farewell' = farewell \ {s}
    /\ row' = IF row = s THEN 0 ELSE row
    /\ live' = (live /\ row # s)
    /\ UNCHANGED <<known, linked, minted, page, parts, call, locked, edit>>

\* The page is loaded (again): all state but localStorage is new.
Load ==
    /\ status' = "null" /\ shown' = FALSE
    /\ panels' = [x \in Panels |-> 0]
    /\ gate' = "loading" /\ form' = Ready /\ drawer' = NoPolicy
    /\ opening' = {}
    /\ \E c \in Calls :
          call' = [d \in Calls |-> IF d = c THEN Check("mount", token) ELSE NoCall]
    /\ UNCHANGED <<worker, token, bye, overlapped, crossed>>

-----------------------------------------------------------------------------
\* The console: every change is a call, and a refresh when it has succeeded.

Put(who, t) == [NoCall EXCEPT !.pc = "putting", !.for = who, !.token = t]

\* Adding a child, deciding a request
Change ==
    /\ Screen = "console"
    /\ \E c \in Calls : Start(c, Put("nobody", token))
    /\ UNCHANGED <<worker, page, parts, bye, edit>>

\* A refused change is an unhandled rejection: the tab stays as it is.
ChangeServe(c) ==
    /\ call[c].pc = "putting"
    /\ call' = [call EXCEPT ![c] = IF Serves(call[c].token) THEN [@ EXCEPT !.pc = "put"]
                                   ELSE NoCall]
    /\ DropExpired(call[c].token)
    /\ UNCHANGED <<page, parts, bye, edit>>

\* The network or the worker fails, before the change or after it.
ChangeFails(c) ==
    /\ call[c].pc \in {"putting", "put"}
    /\ call' = [call EXCEPT ![c] = NoCall]
    /\ UNCHANGED <<worker, page, parts, bye, edit>>

\* onSaved closes the drawer, whichever it is by now; then all is read again.
ChangeDone(c) ==
    /\ call[c].pc = "put"
    /\ drawer' = IF call[c].for = "drawer" THEN NoPolicy ELSE drawer
    /\ call' = [call EXCEPT ![c] = Refresh("nobody", token)]
    /\ UNCHANGED <<worker, page, gate, form, bye, edit>>

\* Until a policy is there, nothing covers the other children's buttons.
OpenPolicy(c) ==
    /\ Screen = "console" /\ drawer.child = None
    /\ c \notin opening
    /\ opening' = opening \cup {c}
    /\ overlapped' = (overlapped \/ opening # {})
    /\ UNCHANGED <<worker, page, parts, call, bye, crossed>>

\* A drawer that is there already gets another policy and keeps its edits.
PolicyOpened(c) ==
    /\ c \in opening
    /\ opening' = opening \ {c}
    /\ drawer' = [child  |-> c,
                  edited |-> IF Screen = "console" /\ drawer.edited # None
                             THEN drawer.edited ELSE c]
    /\ UNCHANGED <<worker, page, gate, form, call, bye, overlapped, crossed>>

OpenFails(c) ==
    /\ c \in opening
    /\ opening' = opening \ {c}
    /\ UNCHANGED <<worker, page, parts, call, bye, overlapped, crossed>>

\* Mutant of CloseDrawer: the drawer is hidden, not unmounted.
HideDrawer ==
    /\ Screen = "console" /\ drawer.child # None
    /\ drawer' = [NoPolicy EXCEPT !.edited = drawer.edited]
    /\ UNCHANGED <<worker, page, gate, form, call, bye, edit>>

CloseDrawer ==
    /\ Screen = "console" /\ drawer.child # None
    /\ drawer' = NoPolicy
    /\ UNCHANGED <<worker, page, gate, form, call, bye, edit>>

\* Save sends the whole policy.
Save ==
    /\ Screen = "console" /\ drawer.child # None
    /\ crossed' = (crossed \/ drawer.edited # drawer.child)
    /\ \E c \in Calls : Start(c, Put("drawer", token))
    /\ UNCHANGED <<worker, page, parts, bye, opening, overlapped>>

-----------------------------------------------------------------------------
Next ==
    \/ SignInElsewhere \/ Expire
    \/ \E c \in Calls :
          \/ CheckServe(c) \/ CheckFails(c) \/ CheckDone(c)
          \/ \E x \in Panels : RefreshServe(c, x) \/ RefreshFails(c, x)
          \/ RefreshDone(c) \/ RefreshRejected(c)
          \/ ChangeServe(c) \/ ChangeFails(c) \/ ChangeDone(c)
    \/ \E key \in BOOLEAN : SignIn(key)
    \/ SignInServe \/ SignInFails \/ SignedIn
    \/ KeyNoted \/ FormConfirms \/ EnterDashboard
    \/ GateSetup \/ GateConfirms
    \/ Lock \/ Load
    \/ \E s \in farewell : LogoutServe(s)
    \/ Change
    \/ \E c \in Children : OpenPolicy(c) \/ PolicyOpened(c) \/ OpenFails(c)
    \/ CloseDrawer \/ Save

Spec == Init /\ [][Next]_vars

-----------------------------------------------------------------------------
Session == 0..MaxSessions

CallState == [pc : {"idle", "sent", "answered", "loading", "putting", "put"},
              for : {"nobody", "mount", "form", "gate", "drawer"}, token : Session,
              answer : {"null", "out", "gate", "in"}, left : SUBSET Panels,
              refused : SUBSET {"error", "unauthorized"}]

FormState == [pc : {"ready", "posting", "answered", "entering", "key", "wizard", "done"},
              key : BOOLEAN, session : Session]

\* Type invariant.  No session is known anywhere before it is minted.
WorkerOK ==
    /\ known \in BOOLEAN /\ linked \in BOOLEAN /\ live \in BOOLEAN
    /\ minted \in Session /\ row \in 0..minted

PageOK ==
    /\ token \in 0..minted
    /\ status \in {"null", "out", "gate", "in"}
    /\ shown \in BOOLEAN
    /\ panels \in [Panels -> Session]

PartsOK ==
    /\ gate \in {"loading", "wizard", "error"}
    /\ form \in FormState /\ form.session <= minted
    /\ form.pc = "answered" => form.session # 0
    /\ drawer \in [child : Children \cup {None}, edited : Children \cup {None}]

HistoryOK ==
    /\ opening \subseteq Children
    /\ farewell \subseteq locked /\ locked \subseteq 1..minted
    /\ overlapped \in BOOLEAN /\ crossed \in BOOLEAN

TypeOK == WorkerOK /\ PageOK /\ PartsOK /\ call \in [Calls -> CallState] /\ HistoryOK

\* However late the answers of a refresh come, and whatever was locked, replaced
\* or refused meanwhile, a console on the screen shows panels that were all read
\* with one session, of an account whose authenticator is linked (refresh and its
\* Promise.all, parentAuth).
ConsoleIsServed ==
    shown => /\ linked
             /\ \E s \in 1..minted : \A x \in Panels : panels[x] = s

\* "Lock console" does not wait for its logout request, and the next sign-in may
\* overtake it; still, once that request has arrived, the session that was locked
\* is over, and it is never the account's again (api.logout, clearSession).
LockEndsSession == row \in locked => row \in farewell

\* The form is busy only as long as a call of its own sign-in is in flight: its
\* check, or the refresh behind it.  Whatever they answer, and whatever the tab
\* shows by then, the parent is never left with a form that waits for nothing
\* (handleSubmit, onAuthenticated).
BusyFormIsAwaited ==
    form.pc = "entering" => \E c \in Calls : call[c].for = "form"

\* A parent who opens one policy at a time never saves the settings of one child
\* to another, also across locks, late answers and saves without an answer
\* (openPolicy, PolicyDrawer).
SavesOwnPolicy == crossed => overlapped

=============================================================================
