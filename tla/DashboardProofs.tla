--------------------------- MODULE DashboardProofs ---------------------------
(***************************************************************************)
(* Proofs about Dashboard, for any number of calls in flight, panels,      *)
(* children and sessions.                                                  *)
(***************************************************************************)
EXTENDS Dashboard, TLAPS

\* What a component becomes when it may lose its place on the screen: itself, or
\* new; the tab never invents another state for it.
LEMMA RenderEffect ==
    ASSUME NEW f, Render(f)
    PROVE  /\ gate' \in {gate, "loading"}
           /\ form' \in {f, Ready}
           /\ drawer' \in {drawer, [drawer EXCEPT !.edited = drawer.child]}
BY DEF Render

\* The typed ones among those states.
LEMMA RenderTyped ==
    ASSUME PartsOK, minted' = minted, minted \in Session,
           NEW f \in FormState, f.session <= minted, f.pc = "answered" => f.session # 0,
           Render(f)
    PROVE  PartsOK'
<1> USE DashboardAssumption DEF PartsOK
<1>1. gate' \in {"loading", "wizard", "error"}
  BY RenderEffect
<1>2. Ready \in FormState /\ Ready.session <= minted /\ Ready.pc # "answered"
  BY DEF Ready, FormState, Session
<1>3. form' \in FormState /\ form'.session <= minted /\ (form'.pc = "answered" => form'.session # 0)
  BY <1>2, RenderEffect
<1>4. drawer' \in [child : Children \cup {None}, edited : Children \cup {None}]
  BY RenderEffect
<1> QED BY <1>1, <1>3, <1>4

\* A sign-in that is over leaves a typed form.
LEMMA FormAfterTyped ==
    ASSUME PartsOK, minted \in Session, NEW who
    PROVE  /\ FormAfter(who) \in FormState
           /\ FormAfter(who).session <= minted
           /\ FormAfter(who).pc = "answered" => FormAfter(who).session # 0
<1>1. FormAfter(who) \in {form, Ready}
  BY DEF FormAfter
<1>2. Ready \in FormState /\ Ready.session <= minted /\ Ready.pc # "answered"
  BY DashboardAssumption DEF Ready, FormState, Session
<1> QED BY <1>1, <1>2 DEF PartsOK

\* The records a call is started with.
LEMMA CallsTyped ==
    ASSUME NEW who \in {"nobody", "mount", "form", "gate", "drawer"}, NEW t \in Session
    PROVE  /\ NoCall \in CallState
           /\ Check(who, t) \in CallState /\ Refresh(who, t) \in CallState
           /\ Put(who, t) \in CallState
<1>1. 0 \in Session
  BY DashboardAssumption DEF Session
<1>2. NoCall \in CallState
  BY <1>1 DEF NoCall, CallState
<1>3. Check(who, t) \in CallState
  BY <1>1 DEF Check, NoCall, CallState
<1>4. Refresh(who, t) \in CallState
  BY <1>1 DEF Refresh, NoCall, CallState
<1>5. Put(who, t) \in CallState
  BY <1>1 DEF Put, NoCall, CallState
<1> QED BY <1>2, <1>3, <1>4, <1>5

\* Whatever is called or answered, a call keeps one of the known shapes.
LEMMA CallOK ==
    ASSUME TypeOK, [Next]_vars
    PROVE  call' \in [Calls -> CallState]
<1> USE DashboardAssumption DEF TypeOK
<1>0. 0 \in Session /\ token \in Session
  BY DEF Session, PageOK, WorkerOK
<1>1. ASSUME NEW c \in Calls, NEW r \in CallState, call' = [call EXCEPT ![c] = r]
      PROVE  call' \in [Calls -> CallState]
  BY <1>1
<1>2. ASSUME NEW c \in Calls, CheckServe(c) PROVE call' \in [Calls -> CallState]
  <2> DEFINE r == [call[c] EXCEPT !.pc = "answered", !.token = 0,
                                  !.answer = IF ~IsLive(call[c].token) THEN "out"
                                             ELSE IF linked THEN "in" ELSE "gate"]
  <2>1. r \in CallState
    BY <1>0 DEF CallState
  <2> QED BY <1>1, <1>2, <2>1 DEF CheckServe
<1>3. ASSUME NEW c \in Calls, CheckFails(c) PROVE call' \in [Calls -> CallState]
  <2>1. [call[c] EXCEPT !.pc = "answered", !.token = 0] \in CallState
    BY <1>0 DEF CallState
  <2> QED BY <1>1, <1>3, <2>1 DEF CheckFails
<1>4. ASSUME NEW c \in Calls, CheckDone(c) PROVE call' \in [Calls -> CallState]
  <2>1. token' \in Session
    BY <1>0, <1>4 DEF CheckDone
  <2>2. call[c].for \in {"nobody", "mount", "form", "gate", "drawer"}
    BY DEF CallState
  <2>3. \/ \E who \in {"nobody", "mount", "form", "gate", "drawer"} :
              call' = [call EXCEPT ![c] = Refresh(who, token')]
        \/ call' = [call EXCEPT ![c] = NoCall]
    BY <1>4, <2>2 DEF CheckDone
  <2> QED BY <1>0, <1>1, <2>1, <2>3, CallsTyped
<1>5. ASSUME NEW c \in Calls, NEW x \in Panels, RefreshServe(c, x) \/ RefreshFails(c, x)
      PROVE  call' \in [Calls -> CallState]
  <2> DEFINE r(why) == [call[c] EXCEPT !.left = @ \ {x}, !.refused = why]
  <2>1. \A why \in SUBSET {"error", "unauthorized"} : r(why) \in CallState
    BY DEF CallState
  <2>2. call[c].refused \in SUBSET {"error", "unauthorized"}
    BY DEF CallState
  <2>3. \E why \in SUBSET {"error", "unauthorized"} : call' = [call EXCEPT ![c] = r(why)]
    <3>1. CASE RefreshServe(c, x)
      <4> DEFINE why == call[c].refused \cup (IF Serves(call[c].token) THEN {}
                                              ELSE {Refusal(call[c].token)})
      <4>1. call' = [call EXCEPT ![c] = r(why)]
        BY <3>1 DEF RefreshServe, Handled
      <4>2. why \in SUBSET {"error", "unauthorized"}
        BY <2>2 DEF Refusal
      <4> QED BY <4>1, <4>2
    <3>2. CASE RefreshFails(c, x)
      <4>1. call' = [call EXCEPT ![c] = r(call[c].refused \cup {"error"})]
        BY <3>2 DEF RefreshFails
      <4> QED BY <2>2, <4>1
    <3> QED BY <1>5, <3>1, <3>2
  <2> QED BY <1>1, <2>1, <2>3
<1>6. ASSUME NEW c \in Calls, RefreshDone(c) \/ RefreshRejected(c)
      PROVE  call' \in [Calls -> CallState]
  <2>1. call' = [call EXCEPT ![c] = NoCall]
    BY <1>6 DEF RefreshDone, RefreshRejected
  <2> QED BY <1>0, <1>1, <2>1, CallsTyped
<1>7. ASSUME NEW c \in Calls, NEW who \in {"nobody", "mount", "form", "gate", "drawer"}, NEW t \in Session,
             Start(c, Check(who, t)) \/ Start(c, Put(who, t))
      PROVE  call' \in [Calls -> CallState]
  BY <1>1, <1>7, CallsTyped DEF Start
<1>8. CASE SignedIn
  <2>1. token' \in Session
    BY <1>8 DEF SignedIn, PartsOK, FormState
  <2> QED BY <1>7, <1>8, <2>1 DEF SignedIn
<1>9. CASE EnterDashboard \/ GateConfirms \/ Lock \/ Change \/ Save
  BY <1>0, <1>7, <1>9 DEF EnterDashboard, GateConfirms, Lock, Change, Save
<1>10. CASE Load
  <2>1. \E c \in Calls : call' = [d \in Calls |-> IF d = c THEN Check("mount", token) ELSE NoCall]
    BY <1>10 DEF Load
  <2> QED BY <1>0, <2>1, CallsTyped
<1>11. CASE UNCHANGED call
  BY <1>11
<1>12. ASSUME NEW c \in Calls, ChangeServe(c) PROVE call' \in [Calls -> CallState]
  <2>1. [call[c] EXCEPT !.pc = "put"] \in CallState
    BY DEF CallState
  <2>2. call' = [call EXCEPT ![c] = [call[c] EXCEPT !.pc = "put"]] \/ call' = [call EXCEPT ![c] = NoCall]
    BY <1>12 DEF ChangeServe
  <2> QED BY <1>0, <1>1, <2>1, <2>2, CallsTyped
<1>13. ASSUME NEW c \in Calls, ChangeFails(c) \/ ChangeDone(c) PROVE call' \in [Calls -> CallState]
  BY <1>0, <1>1, <1>13, CallsTyped DEF ChangeFails, ChangeDone
<1> QED
  BY <1>2, <1>3, <1>4, <1>5, <1>6, <1>8, <1>9, <1>10, <1>11, <1>12, <1>13
  DEF Next, vars, SignInElsewhere, Expire, SignIn, SignInServe, SignInFails, KeyNoted,
      FormConfirms, GateSetup, LogoutServe, OpenPolicy, PolicyOpened, OpenFails, CloseDrawer

\* No action forgets that sessions are numbered as they are minted.
LEMMA MintTyped ==
    ASSUME TypeOK, MintSession
    PROVE  /\ minted' \in Session /\ row' = minted' /\ live' = TRUE
           /\ \A s \in 0..minted : s \in 0..minted' /\ s # minted'
           /\ minted' # 0
BY DashboardAssumption DEF TypeOK, WorkerOK, MintSession, Session

\* The worker's row.
LEMMA WorkerStep ==
    ASSUME TypeOK, [Next]_vars
    PROVE  WorkerOK'
<1> USE DEF TypeOK, WorkerOK
<1>1. CASE SignInElsewhere \/ SignInServe
  <2>1. MintSession /\ known' \in BOOLEAN /\ UNCHANGED linked
    BY <1>1 DEF SignInElsewhere, SignInServe
  <2>2. minted' \in Session /\ row' = minted' /\ live' = TRUE
    BY <2>1, MintTyped
  <2> QED BY <2>1, <2>2, DashboardAssumption DEF Session
<1>2. CASE Expire
  BY <1>2 DEF Expire
<1>3. ASSUME NEW s, DropExpired(s) PROVE WorkerOK'
  BY <1>3, DashboardAssumption DEF DropExpired, Session
<1>4. CASE FormConfirms \/ GateConfirms
  BY <1>4 DEF FormConfirms, GateConfirms, LinkAuthenticator
<1>5. ASSUME NEW s \in farewell, LogoutServe(s) PROVE WorkerOK'
  BY <1>5, DashboardAssumption DEF LogoutServe, Session
<1>6. CASE UNCHANGED worker
  BY <1>6 DEF worker
<1>7. ASSUME NEW c \in Calls, NEW x \in Panels, RefreshServe(c, x) PROVE WorkerOK'
  BY <1>3, <1>7 DEF RefreshServe, Handled
<1>8. ASSUME NEW c \in Calls, ChangeServe(c) PROVE WorkerOK'
  BY <1>3, <1>8 DEF ChangeServe
<1> QED
  BY <1>1, <1>2, <1>4, <1>5, <1>6, <1>7, <1>8
  DEF Next, vars, CheckServe, CheckFails, CheckDone, RefreshFails, RefreshDone, RefreshRejected,
      SignIn, SignInFails, SignedIn, KeyNoted, EnterDashboard, GateSetup, Lock, Load, Change,
      OpenPolicy, PolicyOpened, OpenFails, CloseDrawer, Save, ChangeFails, ChangeDone

\* Sessions only become more.
LEMMA MintedGrows ==
    ASSUME TypeOK, [Next]_vars
    PROVE  minted' \in Session /\ (minted' = minted \/ minted' = minted + 1)
<1>1. CASE SignInElsewhere \/ SignInServe
  BY <1>1, MintTyped DEF SignInElsewhere, SignInServe, MintSession
<1>2. CASE UNCHANGED minted
  BY <1>2 DEF TypeOK, WorkerOK
<1> QED
  BY <1>1, <1>2
  DEF Next, vars, worker, CheckServe, CheckFails, CheckDone, RefreshFails, RefreshDone,
      RefreshRejected, SignIn, SignInFails, SignedIn, KeyNoted, EnterDashboard, GateSetup, Lock,
      Load, Change, OpenPolicy, PolicyOpened, OpenFails, CloseDrawer, Save, Expire,
      FormConfirms, GateConfirms, LinkAuthenticator, LogoutServe, RefreshServe, Handled,
      DropExpired, ChangeServe, ChangeFails, ChangeDone

\* What the tab holds besides its components.
LEMMA PageStep ==
    ASSUME TypeOK, [Next]_vars
    PROVE  PageOK'
<1> USE DashboardAssumption DEF TypeOK, PageOK, WorkerOK
<1>0. 0 \in 0..minted' /\ 0..minted \subseteq 0..minted'
  BY MintedGrows DEF Session
<1>1. CASE UNCHANGED page
  BY <1>0, <1>1 DEF page
<1>2. ASSUME NEW c \in Calls, CheckDone(c) PROVE PageOK'
  <2>1. call[c].answer \in {"null", "out", "gate", "in"}
    BY DEF CallState
  <2> QED BY <1>0, <1>2, <2>1 DEF CheckDone
<1>3. ASSUME NEW c \in Calls, RefreshDone(c) PROVE PageOK'
  <2>1. call[c].token \in Session
    BY DEF CallState
  <2>2. panels' \in [Panels -> Session] /\ shown' = TRUE /\ UNCHANGED <<token, status>>
    BY <1>3, <2>1 DEF RefreshDone
  <2> QED BY <1>0, <2>2
<1>4. ASSUME NEW c \in Calls, RefreshRejected(c) PROVE PageOK'
  BY <1>0, <1>4 DEF RefreshRejected
<1>5. CASE SignedIn
  BY <1>0, <1>5 DEF SignedIn, PartsOK, FormState, Session
<1>6. CASE Lock
  BY <1>0, <1>6 DEF Lock
<1>7. CASE Load
  <2>1. 0 \in Session
    BY DEF Session
  <2>2. panels' = [x \in Panels |-> 0] /\ shown' = FALSE /\ status' = "null" /\ token' = token
    BY <1>7 DEF Load
  <2> QED BY <1>0, <2>1, <2>2
<1> QED
  BY <1>1, <1>2, <1>3, <1>4, <1>5, <1>6, <1>7
  DEF Next, vars, SignInElsewhere, Expire, CheckServe, CheckFails, RefreshServe, RefreshFails,
      SignIn, SignInServe, SignInFails, KeyNoted, FormConfirms, EnterDashboard, GateSetup,
      GateConfirms, LogoutServe, Change, ChangeServe, ChangeFails, ChangeDone, OpenPolicy,
      PolicyOpened, OpenFails, CloseDrawer, Save

\* The components on the screen.
LEMMA PartsStep ==
    ASSUME TypeOK, [Next]_vars
    PROVE  PartsOK'
<1> USE DashboardAssumption DEF TypeOK, WorkerOK
<1>0. minted \in 0..minted' /\ minted' \in Session
  BY MintedGrows DEF Session
<1>1. CASE UNCHANGED parts
  BY <1>0, <1>1 DEF parts, PartsOK, FormState, Session
<1>2. Ready \in FormState /\ Ready.session = 0
  BY DEF Ready, FormState, Session
<1>3. ASSUME NEW f \in FormState, f.session <= minted, f.pc # "answered", Render(f),
             UNCHANGED minted
      PROVE  PartsOK'
  BY <1>3, RenderTyped
<1>4. ASSUME NEW c \in Calls, CheckDone(c) \/ RefreshDone(c) \/ RefreshRejected(c)
      PROVE  PartsOK'
  <2>1. UNCHANGED minted
    BY <1>4 DEF CheckDone, RefreshDone, RefreshRejected, worker
  <2>2. Render(form) \/ Render(FormAfter(call[c].for))
    BY <1>4 DEF CheckDone, RefreshDone, RefreshRejected
  <2>3. CASE Render(form)
    BY <2>1, <2>3, RenderTyped DEF PartsOK
  <2>4. CASE Render(FormAfter(call[c].for))
    BY <2>1, <2>4, RenderTyped, FormAfterTyped
  <2> QED BY <2>2, <2>3, <2>4
<1>5. ASSUME form' \in FormState, form'.session <= minted',
             form'.pc = "answered" => form'.session # 0, UNCHANGED <<gate, drawer>>
      PROVE  PartsOK'
  BY <1>5 DEF PartsOK
<1>6. CASE SignIn(TRUE) \/ SignIn(FALSE)
  <2>1. \E key \in BOOLEAN : form' = [Ready EXCEPT !.pc = "posting", !.key = key]
    BY <1>6 DEF SignIn
  <2>2. form' \in FormState /\ form'.pc = "posting" /\ form'.session = 0
    BY <1>2, <2>1 DEF FormState
  <2> QED BY <1>0, <1>5, <1>6, <2>2 DEF SignIn, Session
<1>7. CASE SignInServe
  <2>1. minted' # 0 /\ minted' \in Session
    BY <1>7, MintTyped DEF SignInServe
  <2>2. form' = [form EXCEPT !.pc = "answered", !.session = minted']
    BY <1>7 DEF SignInServe
  <2>3. form' \in FormState /\ form'.session = minted'
    BY <2>1, <2>2 DEF PartsOK, FormState
  <2> QED BY <1>5, <1>7, <2>1, <2>3 DEF SignInServe, Session
<1>8. CASE SignInFails
  BY <1>0, <1>2, <1>5, <1>8 DEF SignInFails, Ready, Session
<1>9. CASE SignedIn
  <2>1. \A pc \in {"key", "entering"} :
            /\ [Ready EXCEPT !.pc = pc] \in FormState
            /\ [Ready EXCEPT !.pc = pc].session <= minted
            /\ [Ready EXCEPT !.pc = pc].pc = pc
    BY <1>2 DEF FormState, Session
  <2>2. UNCHANGED minted
    BY <1>9 DEF SignedIn, worker
  <2>3. Render([Ready EXCEPT !.pc = "key"]) \/ Render([Ready EXCEPT !.pc = "entering"])
    BY <1>9 DEF SignedIn
  <2> QED BY <1>3, <2>1, <2>2, <2>3
<1>10. CASE KeyNoted \/ FormConfirms
  <2>1. form' \in {form, [form EXCEPT !.pc = "wizard"], [form EXCEPT !.pc = "done"]}
    BY <1>10 DEF KeyNoted, FormConfirms
  <2>2. /\ form' \in FormState /\ form'.session = form.session
        /\ form'.pc \in {form.pc, "wizard", "done"}
    BY <2>1 DEF PartsOK, FormState
  <2>3. UNCHANGED minted /\ UNCHANGED <<gate, drawer>>
    BY <1>10 DEF KeyNoted, FormConfirms, LinkAuthenticator, worker
  <2> QED BY <1>5, <2>2, <2>3 DEF PartsOK
<1>11. CASE EnterDashboard
  <2>1. form' \in FormState /\ form'.session = 0 /\ form'.pc = "entering"
    BY <1>2, <1>11 DEF EnterDashboard, FormState
  <2> QED BY <1>0, <1>5, <1>11, <2>1 DEF EnterDashboard, Session
<1>12. CASE GateSetup
  BY <1>12 DEF GateSetup, PartsOK, worker
<1>13. CASE Lock
  BY <1>13, RenderTyped DEF Lock, PartsOK, worker
<1>14. CASE Load
  BY <1>2, <1>14 DEF Load, PartsOK, worker, NoPolicy, Ready, Session
<1>15. ASSUME NEW c \in Children, PolicyOpened(c) PROVE PartsOK'
  <2>1. drawer' \in [child : Children \cup {None}, edited : Children \cup {None}]
    BY <1>15 DEF PolicyOpened, PartsOK
  <2> QED BY <1>15, <2>1 DEF PolicyOpened, PartsOK, worker
<1>16. CASE CloseDrawer \/ \E c \in Calls : ChangeDone(c)
  <2>1. drawer' \in {drawer, NoPolicy}
    BY <1>16 DEF CloseDrawer, ChangeDone
  <2> QED BY <1>16, <2>1 DEF CloseDrawer, ChangeDone, NoPolicy, PartsOK, worker
<1> QED
  BY <1>1, <1>4, <1>6, <1>7, <1>8, <1>9, <1>10, <1>11, <1>12, <1>13, <1>14, <1>15, <1>16
  DEF Next, vars, SignInElsewhere, Expire, CheckServe, CheckFails, RefreshServe, RefreshFails,
      GateConfirms, LogoutServe, Change, ChangeServe, ChangeFails, OpenPolicy, OpenFails, Save

\* What the tab has sent away and what the history remembers.
LEMMA HistoryStep ==
    ASSUME TypeOK, [Next]_vars
    PROVE  HistoryOK'
<1> USE DEF TypeOK, HistoryOK
<1>1. 1..minted \subseteq 1..minted'
  BY MintedGrows DEF WorkerOK, Session
<1>2. CASE Lock
  <2>1. {token} \ {0} \subseteq 1..minted
    BY DEF PageOK, WorkerOK, Session
  <2> QED BY <1>1, <1>2, <2>1 DEF Lock, Farewell, edit
<1>3. ASSUME NEW s \in farewell, LogoutServe(s) PROVE HistoryOK'
  BY <1>1, <1>3 DEF LogoutServe, edit
<1>4. CASE Load
  BY <1>1, <1>4 DEF Load, bye
<1>5. ASSUME NEW c \in Children, OpenPolicy(c) \/ PolicyOpened(c) \/ OpenFails(c)
      PROVE  HistoryOK'
  BY <1>1, <1>5 DEF OpenPolicy, PolicyOpened, OpenFails, bye
<1>6. CASE Save
  BY <1>1, <1>6 DEF Save, bye
<1>7. CASE UNCHANGED <<bye, edit>>
  BY <1>1, <1>7 DEF bye, edit
<1> QED
  BY <1>2, <1>3, <1>4, <1>5, <1>6, <1>7
  DEF Next, vars, SignInElsewhere, Expire, CheckServe, CheckFails, CheckDone, RefreshServe,
      RefreshFails, RefreshDone, RefreshRejected, SignIn, SignInServe, SignInFails, SignedIn,
      KeyNoted, FormConfirms, EnterDashboard, GateSetup, GateConfirms, Change, ChangeServe,
      ChangeFails, ChangeDone, CloseDrawer

\* Every variable keeps its type through every answer, however late, and no
\* session turns up in the tab before it was minted.
THEOREM TypeCorrect == Spec => []TypeOK
<1>1. Init => TypeOK
  <2> SUFFICES ASSUME Init PROVE TypeOK
    OBVIOUS
  <2>1. NoCall \in CallState /\ 0 \in Session
    BY DashboardAssumption, CallsTyped DEF Session
  <2>2. Ready \in FormState /\ Ready.session = 0 /\ Ready.pc = "ready"
    BY DashboardAssumption DEF Ready, FormState, Session
  <2>6. minted = 0 /\ 0 \in 0..0
    BY DEF Init
  <2>3. WorkerOK /\ HistoryOK
    BY <2>1, <2>6 DEF Init, WorkerOK, HistoryOK
  <2>5. PageOK
    <3>1. panels = [x \in Panels |-> 0] /\ token = 0 /\ status = "null" /\ shown = FALSE
      BY DEF Init
    <3> QED BY <2>1, <2>6, <3>1 DEF PageOK
  <2>4. PartsOK
    BY <2>2 DEF Init, PartsOK, NoPolicy
  <2> QED BY <2>1, <2>3, <2>4, <2>5 DEF Init, TypeOK
<1>2. TypeOK /\ [Next]_vars => TypeOK'
  BY CallOK, WorkerStep, PageStep, PartsStep, HistoryStep DEF TypeOK
<1> QED BY <1>1, <1>2, PTL DEF Spec

-----------------------------------------------------------------------------
\* A locked session ends when its logout request arrives, whichever sign-in, check
\* or expiry came first: nothing else puts a session number back into the row.
THEOREM LockIsFinal == Spec => []LockEndsSession
<1>1. Init => LockEndsSession
  BY DEF Init, LockEndsSession
<1>2. TypeOK /\ LockEndsSession /\ [Next]_vars => LockEndsSession'
  <2> SUFFICES ASSUME TypeOK, LockEndsSession, [Next]_vars PROVE LockEndsSession'
    OBVIOUS
  <2> USE DEF LockEndsSession
  <2>1. 0 \notin locked /\ \A s \in locked : s \in 0..minted
    BY DEF TypeOK, HistoryOK, WorkerOK, Session
  <2>2. CASE SignInElsewhere \/ SignInServe
    <3>1. MintSession /\ UNCHANGED bye
      BY <2>2 DEF SignInElsewhere, SignInServe
    <3> QED BY <2>1, <3>1, MintTyped DEF bye
  <2>3. ASSUME NEW s, DropExpired(s), UNCHANGED bye PROVE LockEndsSession'
    BY <2>1, <2>3 DEF DropExpired, bye
  <2>4. CASE Lock
    BY <2>4 DEF Lock, Farewell, worker
  <2>5. ASSUME NEW s \in farewell, LogoutServe(s) PROVE LockEndsSession'
    BY <2>1, <2>5 DEF LogoutServe
  <2>6. CASE UNCHANGED <<row, bye>>
    BY <2>6 DEF bye
  <2>7. ASSUME NEW c \in Calls, NEW x \in Panels, RefreshServe(c, x) PROVE LockEndsSession'
    BY <2>3, <2>7 DEF RefreshServe, Handled
  <2>8. ASSUME NEW c \in Calls, ChangeServe(c) PROVE LockEndsSession'
    BY <2>3, <2>8 DEF ChangeServe
  <2> QED
    BY <2>2, <2>4, <2>5, <2>6, <2>7, <2>8
    DEF Next, vars, worker, Expire, CheckServe, CheckFails, CheckDone, RefreshFails, RefreshDone,
        RefreshRejected, SignIn, SignInFails, SignedIn, KeyNoted, FormConfirms, EnterDashboard,
        GateSetup, GateConfirms, LinkAuthenticator, Load, Change, OpenPolicy, PolicyOpened,
        OpenFails, CloseDrawer, Save, ChangeFails, ChangeDone
<1> QED BY <1>1, <1>2, TypeCorrect, PTL DEF Spec

-----------------------------------------------------------------------------
\* What a refresh has been served so far, it was served with a minted session of
\* an account that is linked: so are all its panels when none was refused.
LoadsServed ==
    \A c \in Calls :
        call[c].pc = "loading" /\ call[c].refused = {} /\ call[c].left # Panels
        => linked /\ call[c].token \in 1..minted

\* An authenticator that is linked stays linked, a session that was minted counts.
LEMMA LinkedForGood ==
    ASSUME TypeOK, [Next]_vars
    PROVE  (linked => linked') /\ 1..minted \subseteq 1..minted'
<1>1. 1..minted \subseteq 1..minted'
  BY MintedGrows, DashboardAssumption DEF TypeOK, WorkerOK, Session
<1>2. linked => linked'
  BY DEF Next, vars, worker, SignInElsewhere, MintSession, SignInServe, Expire, CheckServe,
     CheckFails, CheckDone, RefreshServe, Handled, RefreshFails, RefreshDone, RefreshRejected,
     SignIn, SignInFails, SignedIn, KeyNoted, FormConfirms, EnterDashboard, GateSetup,
     GateConfirms, LinkAuthenticator, Lock, LogoutServe, Load, Change, ChangeServe,
     ChangeFails, ChangeDone, DropExpired, OpenPolicy, PolicyOpened, OpenFails, CloseDrawer, Save
<1> QED BY <1>1, <1>2

\* The calls that are new or have just been handled are the only ones to look at.
LEMMA LoadsStep ==
    ASSUME TypeOK, LoadsServed, [Next]_vars
    PROVE  LoadsServed'
<1> USE DEF TypeOK
<1>0. (linked => linked') /\ 1..minted \subseteq 1..minted'
  BY LinkedForGood
<1>1. ASSUME NEW c \in Calls, NEW r, call' = [call EXCEPT ![c] = r],
             \/ r.pc # "loading"
             \/ r.left = Panels
             \/ r.refused # {}
             \/ linked /\ r.token \in 1..minted
      PROVE  LoadsServed'
  BY <1>0, <1>1 DEF LoadsServed
<1>2. ASSUME NEW c \in Calls, CheckServe(c) \/ CheckFails(c) PROVE LoadsServed'
  <2>1. \E r : call' = [call EXCEPT ![c] = r] /\ r.pc = "answered"
    <3>1. CASE CheckServe(c)
      <4> DEFINE r == [call[c] EXCEPT !.pc = "answered", !.token = 0,
                                      !.answer = IF ~IsLive(call[c].token) THEN "out"
                                                 ELSE IF linked THEN "in" ELSE "gate"]
      <4>1. r.pc = "answered"
        BY DEF CallState
      <4> QED BY <3>1, <4>1 DEF CheckServe
    <3>2. CASE CheckFails(c)
      <4> DEFINE r == [call[c] EXCEPT !.pc = "answered", !.token = 0]
      <4>1. r.pc = "answered"
        BY DEF CallState
      <4> QED BY <3>2, <4>1 DEF CheckFails
    <3> QED BY <1>2, <3>1, <3>2
  <2> QED BY <1>1, <2>1
<1>3. \A who, t : /\ NoCall.pc = "idle" /\ Check(who, t).pc = "sent" /\ Put(who, t).pc = "putting"
                  /\ Refresh(who, t).left = Panels
  BY DEF NoCall, Check, Put, Refresh
<1>4. ASSUME NEW c \in Calls, \/ CheckDone(c) \/ RefreshDone(c) \/ RefreshRejected(c)
                             \/ ChangeFails(c) \/ ChangeDone(c)
      PROVE  LoadsServed'
  <2>1. \/ call' = [call EXCEPT ![c] = NoCall]
        \/ \E who, t : call' = [call EXCEPT ![c] = Refresh(who, t)]
    BY <1>4 DEF CheckDone, RefreshDone, RefreshRejected, ChangeFails, ChangeDone
  <2> QED BY <1>1, <1>3, <2>1
<1>5. ASSUME NEW c \in Calls, NEW x \in Panels, RefreshServe(c, x) PROVE LoadsServed'
  <2> DEFINE s == call[c].token
             r == [call[c] EXCEPT !.left = call[c].left \ {x},
                      !.refused = call[c].refused \cup (IF Serves(s) THEN {} ELSE {Refusal(s)})]
  <2>1. call' = [call EXCEPT ![c] = r]
    BY <1>5 DEF RefreshServe, Handled
  <2>2. r.refused = call[c].refused \cup (IF Serves(s) THEN {} ELSE {Refusal(s)})
        /\ r.token = call[c].token
    BY DEF CallState
  <2>3. Serves(s) => linked /\ s \in 1..minted
    BY DashboardAssumption DEF Serves, IsLive, WorkerOK, Session
  <2>4. r.refused # {} \/ (linked /\ r.token \in 1..minted)
    BY <2>2, <2>3
  <2> HIDE DEF r
  <2> QED BY <1>1, <2>1, <2>4
<1>6. ASSUME NEW c \in Calls, NEW x \in Panels, RefreshFails(c, x) PROVE LoadsServed'
  <2> DEFINE r == [call[c] EXCEPT !.left = call[c].left \ {x},
                                  !.refused = call[c].refused \cup {"error"}]
  <2>1. call' = [call EXCEPT ![c] = r]
    BY <1>6 DEF RefreshFails
  <2>2. r.refused # {}
    BY DEF CallState
  <2> HIDE DEF r
  <2> QED BY <1>1, <2>1, <2>2
<1>7. ASSUME NEW c \in Calls, NEW who, NEW t,
             Start(c, Check(who, t)) \/ Start(c, Put(who, t))
      PROVE  LoadsServed'
  BY <1>1, <1>3, <1>7 DEF Start
<1>8. CASE SignedIn \/ EnterDashboard \/ GateConfirms \/ Lock \/ Change \/ Save
  <2>1. \/ UNCHANGED call
        \/ \E c \in Calls : \E who, t : Start(c, Check(who, t)) \/ Start(c, Put(who, t))
    BY <1>8 DEF SignedIn, EnterDashboard, GateConfirms, Lock, Change, Save
  <2>2. CASE UNCHANGED call
    BY <1>0, <2>2 DEF LoadsServed
  <2> QED BY <1>7, <2>1, <2>2
<1>9. CASE Load
  <2>1. PICK c \in Calls : call' = [d \in Calls |-> IF d = c THEN Check("mount", token) ELSE NoCall]
    BY <1>9 DEF Load
  <2> QED BY <1>3, <2>1 DEF LoadsServed
<1>10. CASE UNCHANGED call
  BY <1>0, <1>10 DEF LoadsServed
<1>11. ASSUME NEW c \in Calls, ChangeServe(c) PROVE LoadsServed'
  <2>1. [call[c] EXCEPT !.pc = "put"].pc = "put"
    BY DEF CallState
  <2>2. call' = [call EXCEPT ![c] = [call[c] EXCEPT !.pc = "put"]] \/ call' = [call EXCEPT ![c] = NoCall]
    BY <1>11 DEF ChangeServe
  <2> QED BY <1>1, <1>3, <2>1, <2>2
<1> QED
  BY <1>2, <1>4, <1>5, <1>6, <1>8, <1>9, <1>10, <1>11
  DEF Next, vars, SignInElsewhere, Expire, SignIn, SignInServe, SignInFails, KeyNoted,
      FormConfirms, GateSetup, LogoutServe, OpenPolicy, PolicyOpened, OpenFails, CloseDrawer

\* The console is shown only with panels of one session that the worker served, and
\* nothing that happens later takes that back: an authenticator stays linked.
THEOREM ServedConsole == Spec => []ConsoleIsServed
<1>1. Init => LoadsServed /\ ConsoleIsServed
  BY DEF Init, LoadsServed, NoCall, ConsoleIsServed
<1>2. TypeOK /\ LoadsServed /\ ConsoleIsServed /\ [Next]_vars => LoadsServed' /\ ConsoleIsServed'
  <2> SUFFICES ASSUME TypeOK, LoadsServed, ConsoleIsServed, [Next]_vars
               PROVE  ConsoleIsServed'
    BY LoadsStep
  <2>1. (linked => linked') /\ 1..minted \subseteq 1..minted'
    BY LinkedForGood
  <2>2. ASSUME NEW c \in Calls, RefreshDone(c) PROVE ConsoleIsServed'
    <3>1. linked /\ call[c].token \in 1..minted
      BY <2>2, DashboardAssumption DEF RefreshDone, LoadsServed
    <3>2. panels' = [x \in Panels |-> call[c].token]
      BY <2>2 DEF RefreshDone
    <3> QED BY <2>1, <3>1, <3>2 DEF ConsoleIsServed
  <2>3. ASSUME NEW c \in Calls, RefreshRejected(c) PROVE ConsoleIsServed'
    BY <2>1, <2>3 DEF RefreshRejected, ConsoleIsServed
  <2>4. CASE UNCHANGED <<shown, panels>>
    BY <2>1, <2>4 DEF ConsoleIsServed
  <2>5. CASE Lock \/ Load
    BY <2>5 DEF Lock, Load, ConsoleIsServed
  <2> QED
    BY <2>2, <2>3, <2>4, <2>5
    DEF Next, vars, page, SignInElsewhere, Expire, CheckServe, CheckFails, CheckDone, RefreshServe,
        RefreshFails, SignIn, SignInServe, SignInFails, SignedIn, KeyNoted, FormConfirms,
        EnterDashboard, GateSetup, GateConfirms, LogoutServe, Change, ChangeServe, ChangeFails,
        ChangeDone, OpenPolicy, PolicyOpened, OpenFails, CloseDrawer, Save
<1> QED BY <1>1, <1>2, TypeCorrect, PTL DEF Spec

-----------------------------------------------------------------------------
\* No sign-in waits for a change: its call is a check or a refresh.
ChangesOwn == \A c \in Calls : call[c].pc \in {"putting", "put"} => call[c].for # "form"

\* A call becomes a change only when it is started as one.
LEMMA ChangesStep ==
    ASSUME TypeOK, ChangesOwn, [Next]_vars
    PROVE  ChangesOwn'
<1> USE DEF TypeOK
<1>1. ASSUME NEW c \in Calls, NEW r, call' = [call EXCEPT ![c] = r],
             \/ r.pc \notin {"putting", "put"}
             \/ r.for \in {"nobody", "drawer"}
             \/ r.for = call[c].for /\ call[c].pc \in {"putting", "put"}
             \/ r.for = call[c].for /\ r.pc = call[c].pc
      PROVE  ChangesOwn'
  BY <1>1 DEF ChangesOwn
<1>2. \A who, t : /\ NoCall.pc = "idle" /\ Check(who, t).pc = "sent"
                  /\ Refresh(who, t).pc = "loading" /\ Put(who, t).for = who
  BY DEF NoCall, Check, Put, Refresh
<1>3. ASSUME NEW c \in Calls, CheckServe(c) \/ CheckFails(c) PROVE ChangesOwn'
  <2>1. \E r : call' = [call EXCEPT ![c] = r] /\ r.pc = "answered"
    <3>1. CASE CheckServe(c)
      <4> DEFINE r == [call[c] EXCEPT !.pc = "answered", !.token = 0,
                                      !.answer = IF ~IsLive(call[c].token) THEN "out"
                                                 ELSE IF linked THEN "in" ELSE "gate"]
      <4>1. r.pc = "answered"
        BY DEF CallState
      <4> QED BY <3>1, <4>1 DEF CheckServe
    <3>2. CASE CheckFails(c)
      <4> DEFINE r == [call[c] EXCEPT !.pc = "answered", !.token = 0]
      <4>1. r.pc = "answered"
        BY DEF CallState
      <4> QED BY <3>2, <4>1 DEF CheckFails
    <3> QED BY <1>3, <3>1, <3>2
  <2> QED BY <1>1, <2>1
<1>4. ASSUME NEW c \in Calls, \/ CheckDone(c) \/ RefreshDone(c) \/ RefreshRejected(c)
                             \/ ChangeFails(c) \/ ChangeDone(c)
      PROVE  ChangesOwn'
  <2>1. \/ call' = [call EXCEPT ![c] = NoCall]
        \/ \E who, t : call' = [call EXCEPT ![c] = Refresh(who, t)]
    BY <1>4 DEF CheckDone, RefreshDone, RefreshRejected, ChangeFails, ChangeDone
  <2> QED BY <1>1, <1>2, <2>1
<1>5. ASSUME NEW c \in Calls, NEW x \in Panels, RefreshServe(c, x) \/ RefreshFails(c, x)
      PROVE  ChangesOwn'
  <2> DEFINE r(why) == [call[c] EXCEPT !.left = call[c].left \ {x}, !.refused = why]
  <2>1. \E why : call' = [call EXCEPT ![c] = r(why)]
    BY <1>5 DEF RefreshServe, RefreshFails, Handled
  <2>2. \A why : r(why).for = call[c].for /\ r(why).pc = call[c].pc
    BY DEF CallState
  <2> HIDE DEF r
  <2> QED BY <1>1, <2>1, <2>2
<1>6. ASSUME NEW c \in Calls, ChangeServe(c) PROVE ChangesOwn'
  <2>1. [call[c] EXCEPT !.pc = "put"].for = call[c].for /\ call[c].pc = "putting"
    BY <1>6 DEF ChangeServe, CallState
  <2>2. call' = [call EXCEPT ![c] = [call[c] EXCEPT !.pc = "put"]] \/ call' = [call EXCEPT ![c] = NoCall]
    BY <1>6 DEF ChangeServe
  <2> QED BY <1>1, <1>2, <2>1, <2>2
<1>7. ASSUME NEW c \in Calls, NEW t,
             \/ \E who : Start(c, Check(who, t))
             \/ \E who \in {"nobody", "drawer"} : Start(c, Put(who, t))
      PROVE  ChangesOwn'
  BY <1>1, <1>2, <1>7 DEF Start
<1>8. CASE SignedIn \/ EnterDashboard \/ GateConfirms \/ Lock \/ Change \/ Save
  <2>1. \/ UNCHANGED call
        \/ \E c \in Calls : \E t : \/ \E who : Start(c, Check(who, t))
                                   \/ \E who \in {"nobody", "drawer"} : Start(c, Put(who, t))
    BY <1>8 DEF SignedIn, EnterDashboard, GateConfirms, Lock, Change, Save
  <2>2. CASE UNCHANGED call
    BY <2>2 DEF ChangesOwn
  <2> QED BY <1>7, <2>1, <2>2
<1>9. CASE Load
  <2>1. PICK c \in Calls : call' = [d \in Calls |-> IF d = c THEN Check("mount", token) ELSE NoCall]
    BY <1>9 DEF Load
  <2> QED BY <1>2, <2>1 DEF ChangesOwn
<1>10. CASE UNCHANGED call
  BY <1>10 DEF ChangesOwn
<1> QED
  BY <1>3, <1>4, <1>5, <1>6, <1>8, <1>9, <1>10
  DEF Next, vars, SignInElsewhere, Expire, SignIn, SignInServe, SignInFails, KeyNoted,
      FormConfirms, GateSetup, LogoutServe, OpenPolicy, PolicyOpened, OpenFails, CloseDrawer

\* The call a busy form waits for is handed on from the check to the refresh, and
\* the form is set free by whatever ends it.
THEOREM BusyFormHasCall == Spec => []BusyFormIsAwaited
<1>1. Init => ChangesOwn /\ BusyFormIsAwaited
  BY DEF Init, ChangesOwn, BusyFormIsAwaited, NoCall, Ready
<1>2. TypeOK /\ ChangesOwn /\ BusyFormIsAwaited /\ [Next]_vars => ChangesOwn' /\ BusyFormIsAwaited'
  <2> SUFFICES ASSUME TypeOK, ChangesOwn, BusyFormIsAwaited, [Next]_vars
               PROVE  BusyFormIsAwaited'
    BY ChangesStep
  <2> USE DEF TypeOK
  <2>1. ASSUME form'.pc = "entering" => form' = form,
               \A c \in Calls : call[c].for = "form" => call'[c].for = "form"
        PROVE  BusyFormIsAwaited'
    BY <2>1 DEF BusyFormIsAwaited
  <2>2. CASE form'.pc # "entering"
    BY <2>2 DEF BusyFormIsAwaited
  <2>3. Ready.pc # "entering" /\ NoCall.for # "form"
    BY DEF Ready, NoCall
  <2>4. ASSUME NEW c \in Calls, CheckServe(c) \/ CheckFails(c) PROVE BusyFormIsAwaited'
    <3>1. call'[c].for = call[c].for
      <4>1. CASE CheckServe(c)
        BY <4>1 DEF CheckServe, CallState
      <4>2. CASE CheckFails(c)
        BY <4>2 DEF CheckFails, CallState
      <4> QED BY <2>4, <4>1, <4>2
    <3>2. UNCHANGED form /\ \A d \in Calls : d # c => call'[d] = call[d]
      BY <2>4 DEF CheckServe, CheckFails, parts
    <3> QED BY <2>1, <3>1, <3>2
  <2>5. ASSUME NEW c \in Calls, NEW x \in Panels, RefreshServe(c, x) \/ RefreshFails(c, x)
        PROVE  BusyFormIsAwaited'
    <3>1. call'[c].for = call[c].for
      <4>1. CASE RefreshServe(c, x)
        BY <4>1 DEF RefreshServe, Handled, CallState
      <4>2. CASE RefreshFails(c, x)
        BY <4>2 DEF RefreshFails, CallState
      <4> QED BY <2>5, <4>1, <4>2
    <3>2. UNCHANGED form /\ \A d \in Calls : d # c => call'[d] = call[d]
      BY <2>5 DEF RefreshServe, RefreshFails, Handled, parts
    <3> QED BY <2>1, <3>1, <3>2
  <2>6. ASSUME NEW c \in Calls, CheckDone(c) \/ RefreshDone(c) \/ RefreshRejected(c)
        PROVE  BusyFormIsAwaited'
    <3>1. \A d \in Calls : d # c => call'[d] = call[d]
      BY <2>6 DEF CheckDone, RefreshDone, RefreshRejected
    <3>2. \/ Render(FormAfter(call[c].for))
          \/ Render(form) /\ \E t : call'[c] = Refresh(IF call[c].for = "form" THEN "form" ELSE "nobody", t)
      BY <2>6 DEF CheckDone, RefreshDone, RefreshRejected
    <3>3. CASE Render(FormAfter(call[c].for))
      <4>1. form' \in {Ready, FormAfter(call[c].for)}
        BY <3>3, RenderEffect
      <4>2. CASE call[c].for = "form"
        BY <2>2, <2>3, <4>1, <4>2 DEF FormAfter
      <4>3. CASE call[c].for # "form"
        <5>1. form' \in {Ready, form}
          BY <4>1, <4>3 DEF FormAfter
        <5> QED BY <2>1, <2>3, <3>1, <4>3, <5>1
      <4> QED BY <4>2, <4>3
    <3>4. CASE Render(form) /\ \E t : call'[c] = Refresh(IF call[c].for = "form" THEN "form" ELSE "nobody", t)
      <4>1. form' \in {Ready, form}
        BY <3>4, RenderEffect
      <4>2. call[c].for = "form" => call'[c].for = "form"
        BY <3>4 DEF Refresh, NoCall
      <4> QED BY <2>1, <2>3, <3>1, <4>1, <4>2
    <3> QED BY <3>2, <3>3, <3>4
  <2>7. ASSUME NEW c \in Calls, NEW t, Start(c, Check("form", t)) PROVE BusyFormIsAwaited'
    <3>1. call'[c].for = "form"
      BY <2>7 DEF Start, Check, NoCall
    <3> QED BY <3>1 DEF BusyFormIsAwaited
  <2>8. ASSUME NEW c \in Calls, NEW r, Start(c, r), form' \in {Ready, form}
        PROVE  BusyFormIsAwaited'
    <3>1. \A d \in Calls : call[d].for = "form" => call'[d] = call[d]
      BY <2>3, <2>8 DEF Start
    <3> QED BY <2>1, <2>3, <2>8, <3>1
  <2>9. CASE SignedIn
    <3>1. CASE form.key
      <4>1. UNCHANGED call /\ Render([Ready EXCEPT !.pc = "key"])
        BY <2>9, <3>1 DEF SignedIn
      <4>2. form' \in {Ready, [Ready EXCEPT !.pc = "key"]}
        BY <4>1, RenderEffect
      <4>3. [Ready EXCEPT !.pc = "key"].pc # "entering"
        BY DEF Ready
      <4> QED BY <2>2, <2>3, <4>2, <4>3
    <3>2. CASE ~form.key
      BY <2>7, <2>9, <3>2 DEF SignedIn
    <3> QED BY <3>1, <3>2
  <2>10. CASE EnterDashboard
    BY <2>7, <2>10 DEF EnterDashboard
  <2>11. CASE GateConfirms \/ Change \/ Save
    <3>1. UNCHANGED form
      BY <2>11 DEF GateConfirms, Change, Save, parts
    <3>2. UNCHANGED call \/ \E c \in Calls : \E r : Start(c, r)
      BY <2>11 DEF GateConfirms, Change, Save
    <3> QED BY <2>1, <2>8, <3>1, <3>2
  <2>12. CASE Lock
    <3>1. form' \in {Ready, form}
      BY <2>12, RenderEffect DEF Lock
    <3> QED BY <2>8, <2>12, <3>1 DEF Lock
  <2>13. CASE Load
    BY <2>2, <2>3, <2>13 DEF Load
  <2>14. CASE UNCHANGED <<form, call>>
    BY <2>14 DEF BusyFormIsAwaited
  <2>15. ASSUME NEW key \in BOOLEAN, SignIn(key) PROVE BusyFormIsAwaited'
    <3>1. form'.pc = "posting"
      BY <2>15 DEF SignIn, Ready
    <3> QED BY <2>2, <3>1
  <2>16. CASE SignInServe \/ SignInFails
    <3>1. form'.pc # "entering"
      BY <2>3, <2>16 DEF SignInServe, SignInFails, PartsOK, FormState
    <3> QED BY <2>2, <3>1
  <2>17. CASE KeyNoted \/ FormConfirms
    <3>1. form'.pc # "entering"
      BY <2>17 DEF KeyNoted, FormConfirms, PartsOK, FormState
    <3> QED BY <2>2, <3>1
  <2>18. ASSUME NEW c \in Calls, ChangeServe(c) \/ ChangeFails(c) \/ ChangeDone(c)
         PROVE  BusyFormIsAwaited'
    <3>1. UNCHANGED form /\ \A d \in Calls : d # c => call'[d] = call[d]
      BY <2>18 DEF ChangeServe, ChangeFails, ChangeDone, parts
    <3>2. call[c].for # "form"
      BY <2>18 DEF ChangeServe, ChangeFails, ChangeDone, ChangesOwn
    <3> QED BY <2>1, <3>1, <3>2
  <2> QED
    BY <2>4, <2>5, <2>6, <2>9, <2>10, <2>11, <2>12, <2>13, <2>14, <2>15, <2>16, <2>17, <2>18
    DEF Next, vars, parts, SignInElsewhere, Expire, GateSetup, LogoutServe, OpenPolicy,
        PolicyOpened, OpenFails, CloseDrawer
<1> QED BY <1>1, <1>2, TypeCorrect, PTL DEF Spec

-----------------------------------------------------------------------------
\* As long as no two policies were being opened at once, a policy arrives only
\* where no drawer is, and a drawer edits the policy it was opened for.
OneDrawer ==
    ~overlapped => /\ ~crossed
                   /\ drawer.edited = drawer.child
                   /\ opening # {} => drawer.child = None
                   /\ \A c, d \in opening : c = d

\* The settings of one child reach another only when openings overlap.
THEOREM OwnPolicySaved == Spec => []SavesOwnPolicy
<1>1. Init => OneDrawer
  BY DEF Init, OneDrawer, NoPolicy
<1>2. TypeOK /\ OneDrawer /\ [Next]_vars => OneDrawer'
  <2> SUFFICES ASSUME TypeOK, OneDrawer, [Next]_vars PROVE OneDrawer'
    OBVIOUS
  <2> USE DEF TypeOK, PartsOK, OneDrawer
  <2>1. ASSUME UNCHANGED edit, drawer' \in {drawer, [drawer EXCEPT !.edited = drawer.child]}
        PROVE  OneDrawer'
    BY <2>1 DEF edit
  <2>2. ASSUME NEW f, Render(f), UNCHANGED edit PROVE OneDrawer'
    BY <2>1, <2>2, RenderEffect
  <2>3. ASSUME NEW c \in Calls, CheckDone(c) \/ RefreshDone(c) \/ RefreshRejected(c)
        PROVE  OneDrawer'
    BY <2>2, <2>3 DEF CheckDone, RefreshDone, RefreshRejected
  <2>4. CASE SignedIn \/ Lock
    BY <2>2, <2>4 DEF SignedIn, Lock
  <2>5. CASE Load
    BY <2>5 DEF Load, NoPolicy
  <2>6. ASSUME NEW c \in Children, OpenPolicy(c) PROVE OneDrawer'
    BY <2>6 DEF OpenPolicy, parts
  <2>7. ASSUME NEW c \in Children, PolicyOpened(c) PROVE OneDrawer'
    <3>1. ~overlapped => drawer.edited = None /\ opening' = {}
      BY <2>7 DEF PolicyOpened
    <3>2. ~overlapped => drawer'.edited = c /\ drawer'.child = c
      BY <2>7, <3>1 DEF PolicyOpened
    <3> QED BY <2>7, <3>1, <3>2 DEF PolicyOpened
  <2>8. ASSUME NEW c \in Children, OpenFails(c) PROVE OneDrawer'
    BY <2>8 DEF OpenFails, parts
  <2>9. CASE CloseDrawer \/ Save \/ \E c \in Calls : ChangeDone(c)
    <3>1. drawer' \in {drawer, NoPolicy} /\ UNCHANGED <<opening, overlapped>>
      BY <2>9 DEF CloseDrawer, Save, ChangeDone, edit, parts
    <3>2. ~overlapped => ~crossed'
      BY <2>9 DEF CloseDrawer, Save, ChangeDone, edit
    <3> QED BY <3>1, <3>2 DEF NoPolicy
  <2>10. CASE UNCHANGED <<drawer, edit>>
    BY <2>1, <2>10
  <2> QED
    BY <2>3, <2>4, <2>5, <2>6, <2>7, <2>8, <2>9, <2>10
    DEF Next, vars, parts, SignInElsewhere, Expire, CheckServe, CheckFails, RefreshServe,
        RefreshFails, SignIn, SignInServe, SignInFails, KeyNoted, FormConfirms, EnterDashboard,
        GateSetup, GateConfirms, LogoutServe, Change, ChangeServe, ChangeFails
<1>3. OneDrawer => SavesOwnPolicy
  BY DEF OneDrawer, SavesOwnPolicy
<1> QED BY <1>1, <1>2, <1>3, TypeCorrect, PTL DEF Spec
=============================================================================
