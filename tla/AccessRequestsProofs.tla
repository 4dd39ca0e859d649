------------------------ MODULE AccessRequestsProofs ------------------------
(***************************************************************************)
(* Proofs about AccessRequests, for any number of domains, requests and    *)
(* overlapping handlers, and for a queue and a table of any length.        *)
(***************************************************************************)
EXTENDS AccessRequests, SequenceTheorems, FiniteSetTheorems, TLAPS

PostState == [pc : {"idle", "check", "insert", "done"}, domain : Domains \cup {None}]
ResolveState == [pc : {"idle", "write"}, id : Nat, decision : Decisions]

\* Appending a row keeps the rows before it.
LEMMA RowAppended ==
  ASSUME NEW s \in Seq(Row), NEW r \in Row
  PROVE  /\ Append(s, r) \in Seq(Row)
         /\ DOMAIN Append(s, r) = DOMAIN s \cup {Len(s) + 1}
         /\ Len(s) + 1 \notin DOMAIN s
         /\ \A i \in DOMAIN s : Append(s, r)[i] = s[i]
         /\ Append(s, r)[Len(s) + 1] = r
<1>1. Len(s) \in Nat /\ DOMAIN s = 1..Len(s)
  BY LenProperties
<1>2. Append(s, r) \in Seq(Row) /\ Len(Append(s, r)) = Len(s) + 1
  OBVIOUS
<1>3. DOMAIN Append(s, r) = 1..(Len(s) + 1)
  BY <1>2, LenProperties
<1>4. 1..(Len(s) + 1) = 1..Len(s) \cup {Len(s) + 1}
  BY <1>1
<1>5. \A i \in 1..Len(s) : Append(s, r)[i] = s[i]
  BY <1>1
<1> QED BY <1>1, <1>2, <1>3, <1>4, <1>5

\* Setting the status of one row leaves its domain and the other rows alone.
LEMMA StatusSet ==
  ASSUME NEW s \in Seq(Row), NEW i \in DOMAIN s, NEW st \in Statuses
  PROVE  /\ [s EXCEPT ![i].status = st] \in Seq(Row)
         /\ DOMAIN [s EXCEPT ![i].status = st] = DOMAIN s
         /\ \A j \in DOMAIN s :
               /\ [s EXCEPT ![i].status = st][j].domain = s[j].domain
               /\ [s EXCEPT ![i].status = st][j].status = IF j = i THEN st ELSE s[j].status
<1>1. Len(s) \in Nat /\ DOMAIN s = 1..Len(s) /\ \A j \in DOMAIN s : s[j] \in Row
  BY LenProperties, ElementOfSeq
<1>2. [s[i] EXCEPT !.status = st] \in Row
  BY <1>1 DEF Row
<1>3. [s EXCEPT ![i].status = st] = [s EXCEPT ![i] = [s[i] EXCEPT !.status = st]]
  OBVIOUS
<1>4. [s EXCEPT ![i].status = st] \in Seq(Row)
  BY <1>1, <1>2, <1>3, ExceptSeq
<1> QED BY <1>1, <1>3, <1>4 DEF Row

\* What a sweep up to row n leaves: the same rows, the old ones deleted.
LEMMA RowsSwept ==
  ASSUME NEW s \in Seq(Row), NEW n \in DOMAIN s, NEW t,
         t = [i \in DOMAIN s |-> IF i <= n THEN [s[i] EXCEPT !.status = "deleted"] ELSE s[i]]
  PROVE  /\ t \in Seq(Row)
         /\ DOMAIN t = DOMAIN s
         /\ \A i \in DOMAIN s :
               /\ t[i].domain = s[i].domain
               /\ t[i].status \in {s[i].status, "deleted"}
<1>1. Len(s) \in Nat /\ DOMAIN s = 1..Len(s) /\ \A j \in DOMAIN s : s[j] \in Row
  BY LenProperties, ElementOfSeq
<1>2. ASSUME NEW i \in DOMAIN s
      PROVE  /\ t[i] \in Row
             /\ t[i].domain = s[i].domain
             /\ t[i].status \in {s[i].status, "deleted"}
  BY <1>1, <1>2 DEF Row, Statuses
<1>3. t \in [1..Len(s) -> Row]
  BY <1>1, <1>2
<1>4. t \in Seq(Row)
  BY <1>1, <1>3, SeqDef
<1> QED BY <1>2, <1>4

-----------------------------------------------------------------------------
\* No step removes a row or renames it.  A row keeps its status, is decided
\* while it is pending, or is deleted.
RowsKept ==
    \A i \in DOMAIN requests :
        /\ i \in DOMAIN requests'
        /\ requests'[i].domain = requests[i].domain
        /\ \/ requests'[i].status \in {requests[i].status, "deleted"}
           \/ requests[i].status = "pending"

\* Either the table keeps its domain or one pending row is added to it.
SameRows == DOMAIN requests' = DOMAIN requests

LEMMA WriteKeepsRows ==
  ASSUME TypeOK, NEW h \in Resolvers, ResolveWrite(h)
  PROVE  requests' \in Seq(Row) /\ SameRows /\ RowsKept
<1> DEFINE i == resolve[h].id
<1>1. i \in DOMAIN requests /\ resolve[h].decision \in Statuses
  BY DEF TypeOK, ResolveWrite, Decisions, Statuses
<1>2. CASE requests[i].status = "pending"
  <2>1. requests' = [requests EXCEPT ![i].status = resolve[h].decision]
    BY <1>2 DEF ResolveWrite
  <2> QED BY <1>1, <1>2, <2>1, StatusSet DEF TypeOK, RowsKept, SameRows
<1>3. CASE requests[i].status # "pending"
  BY <1>3 DEF ResolveWrite, TypeOK, RowsKept, SameRows
<1> QED BY <1>2, <1>3

LEMMA SweepKeepsRows ==
  ASSUME TypeOK, NEW n \in DOMAIN requests, Retention(n)
  PROVE  requests' \in Seq(Row) /\ SameRows /\ RowsKept
<1>1. requests \in Seq(Row)
  BY DEF TypeOK
<1>2. requests' = [i \in DOMAIN requests |->
          IF i <= n THEN [requests[i] EXCEPT !.status = "deleted"] ELSE requests[i]]
  BY DEF Retention
<1> HIDE DEF Retention
<1> QED BY <1>1, <1>2, RowsSwept DEF RowsKept, SameRows

LEMMA InsertKeepsRows ==
  ASSUME TypeOK, NEW p \in Posts, PostInsert(p)
  PROVE  /\ requests' \in Seq(Row)
         /\ DOMAIN requests' = DOMAIN requests \cup {Len(requests) + 1}
         /\ Len(requests) + 1 \notin DOMAIN requests
         /\ requests'[Len(requests) + 1] = [domain |-> post[p].domain, status |-> "pending"]
         /\ \A i \in DOMAIN requests : requests'[i] = requests[i]
<1>1. requests \in Seq(Row) /\ post[p].domain \in Domains
  BY DEF TypeOK, PostInsert
<1>2. [domain |-> post[p].domain, status |-> "pending"] \in Row
  BY <1>1 DEF Row, Statuses
<1>3. requests' = Append(requests, [domain |-> post[p].domain, status |-> "pending"])
  BY DEF PostInsert
<1> QED BY <1>1, <1>2, <1>3, RowAppended

-----------------------------------------------------------------------------
\* A change of one POST handler keeps their type.
LEMMA PostChanged ==
  ASSUME NEW f \in [Posts -> PostState], NEW p \in Posts, NEW e \in PostState,
         \A q \in Posts : f[q].pc # "idle" => f[q].domain # None,
         e.pc # "idle" => e.domain # None
  PROVE  /\ [f EXCEPT ![p] = e] \in [Posts -> PostState]
         /\ \A q \in Posts : [f EXCEPT ![p] = e][q].pc # "idle" =>
                             [f EXCEPT ![p] = e][q].domain # None
OBVIOUS

\* The type invariant and AwaitedIsHead hold together: the answer that removes
\* the head finds one only because an awaited POST is about it.
QueueInv == TypeOK /\ AwaitedIsHead

LEMMA AgentStep ==
  ASSUME QueueInv,
         \/ \E d \in Domains : Ask(d)
         \/ \E p \in Posts : Upload(p) \/ Answer(p)
         \/ UploadTimesOut
         \/ Restart
  PROVE  QueueInv'
<1> USE RequestAssumption DEF QueueInv, agent
<1>1. /\ queue \in Seq(Domains) /\ waiting \in Posts \cup {None}
      /\ post \in [Posts -> PostState]
      /\ \A p \in Posts : post[p].pc # "idle" => post[p].domain # None
  BY DEF TypeOK, PostState
<1>2. Free \in PostState /\ Free.pc = "idle"
  BY DEF Free, PostState
<1>3. ASSUME NEW d \in Domains, Ask(d) PROVE QueueInv'
  <2>1. queue' \in Seq(Domains) /\ queue' # <<>>
    BY <1>1, <1>3 DEF Ask
  <2>2. queue # <<>> => Head(queue') = Head(queue)
    <3>1. queue' = Append(queue, d) /\ Head(queue') = queue'[1] /\ Head(queue) = queue[1]
      BY <1>3 DEF Ask
    <3>2. queue # <<>> => Len(queue) \in Nat \ {0}
      BY <1>1, EmptySeq
    <3> QED BY <1>1, <3>1, <3>2
  <2>3. TypeOK'
    BY <1>3, <2>1 DEF TypeOK, Ask
  <2>4. AwaitedIsHead'
    BY <1>3, <2>1, <2>2 DEF AwaitedIsHead, Ask
  <2> QED BY <2>3, <2>4
<1>4. ASSUME NEW p \in Posts, Upload(p) PROVE QueueInv'
  <2>1. Head(queue) \in Domains
    BY <1>1, <1>4, HeadTailProperties DEF Upload
  <2> DEFINE e == [pc |-> "check", domain |-> Head(queue)]
  <2>2. e \in PostState /\ e.domain # None
    BY <2>1 DEF PostState
  <2>3. post' = [post EXCEPT ![p] = e]
    BY <1>4 DEF Upload
  <2>4. /\ post' \in [Posts -> PostState]
        /\ \A q \in Posts : post'[q].pc # "idle" => post'[q].domain # None
    <3> HIDE DEF e
    <3> QED BY <1>1, <2>2, <2>3, PostChanged
  <2>5. TypeOK'
    BY <1>4, <2>4 DEF TypeOK, Upload, PostState
  <2>6. AwaitedIsHead'
    BY <1>1, <1>2, <1>4, <2>3 DEF AwaitedIsHead, Upload
  <2> QED BY <2>5, <2>6
<1>5. ASSUME NEW p \in Posts, Answer(p) PROVE QueueInv'
  <2>1. /\ post' \in [Posts -> PostState]
        /\ \A q \in Posts : post'[q].pc # "idle" => post'[q].domain # None
    <3>1. post' = [post EXCEPT ![p] = Free]
      BY <1>5 DEF Answer
    <3> QED BY <1>1, <1>2, <3>1, PostChanged
  <2>2. CASE waiting = p
    <3>1. queue # <<>> /\ queue' = Tail(queue) /\ waiting' = None
      BY <1>5, <2>2 DEF Answer, AwaitedIsHead
    <3>2. queue' \in Seq(Domains)
      BY <1>1, <3>1, HeadTailProperties
    <3> QED BY <1>5, <2>1, <3>1, <3>2 DEF TypeOK, AwaitedIsHead, Answer, PostState
  <2>3. CASE waiting # p
    <3>1. queue' = queue /\ waiting' = waiting
      BY <1>5, <2>3 DEF Answer
    <3>2. waiting # None => post'[waiting] = post[waiting]
      BY <1>1, <1>5, <2>3 DEF Answer
    <3> QED BY <1>5, <2>1, <3>1, <3>2 DEF TypeOK, AwaitedIsHead, Answer, PostState
  <2> QED BY <2>2, <2>3
<1>6. UploadTimesOut => QueueInv'
  BY DEF UploadTimesOut, TypeOK, AwaitedIsHead
<1>7. Restart => QueueInv'
  BY DEF Restart, TypeOK, AwaitedIsHead
<1> QED BY <1>3, <1>4, <1>5, <1>6, <1>7

LEMMA CloudStep ==
  ASSUME QueueInv,
         \/ \E p \in Posts : PostCheck(p) \/ PostInsert(p) \/ PostFails(p)
         \/ \E h \in Resolvers :
               \/ \E i \in DOMAIN requests, decision \in Decisions : ResolveRead(h, i, decision)
               \/ ResolveWrite(h)
               \/ ResolveDies(h)
         \/ \E d \in Domains : WriteRule(d) \/ RuleExpires(d)
         \/ \E n \in DOMAIN requests : Retention(n)
  PROVE  QueueInv'
<1> USE RequestAssumption DEF QueueInv, agent
<1>1. /\ queue \in Seq(Domains) /\ waiting \in Posts \cup {None}
      /\ post \in [Posts -> PostState]
      /\ \A p \in Posts : post[p].pc # "idle" => post[p].domain # None
      /\ requests \in Seq(Row)
      /\ resolve \in [Resolvers -> ResolveState]
      /\ rules \in [Domains -> Rule \cup {NoRule}]
      /\ version \in Nat
      /\ DOMAIN requests \subseteq Nat
  BY LenProperties DEF TypeOK, PostState, ResolveState
<1>2. Free \in PostState /\ Free.pc = "idle" /\ Ready \in ResolveState /\ Ready.pc = "idle"
  BY DEF Free, PostState, Ready, ResolveState, Decisions
<1>3. ASSUME NEW p \in Posts, PostCheck(p) PROVE QueueInv'
  <2>1. PICK pc \in {"insert", "done"} : post' = [post EXCEPT ![p].pc = pc]
    BY <1>3 DEF PostCheck
  <2>2. post[p].pc # "idle"
    BY <1>3 DEF PostCheck
  <2>3. /\ post' \in [Posts -> PostState]
        /\ \A q \in Posts : post'[q].pc # "idle" => post'[q].domain # None
        /\ post'[p].pc # "idle"
        /\ \A q \in Posts : post'[q].domain = post[q].domain
        /\ \A q \in Posts \ {p} : post'[q] = post[q]
    BY <1>1, <2>1, <2>2 DEF PostState
  <2>4. TypeOK'
    BY <1>3, <2>3 DEF TypeOK, PostCheck, PostState
  <2>5. AwaitedIsHead'
    BY <1>1, <1>2, <1>3, <2>3 DEF AwaitedIsHead, PostCheck
  <2> QED BY <2>4, <2>5
<1>4. ASSUME NEW p \in Posts, PostInsert(p) PROVE QueueInv'
  <2>1. post' = [post EXCEPT ![p].pc = "done"] /\ post[p].pc # "idle"
    BY <1>4 DEF PostInsert
  <2>2. /\ post' \in [Posts -> PostState]
        /\ \A q \in Posts : post'[q].pc # "idle" => post'[q].domain # None
        /\ post'[p].pc # "idle"
        /\ \A q \in Posts : post'[q].domain = post[q].domain
        /\ \A q \in Posts \ {p} : post'[q] = post[q]
    BY <1>1, <2>1 DEF PostState
  <2>3. requests' \in Seq(Row) /\ DOMAIN requests \subseteq DOMAIN requests'
    BY <1>4, InsertKeepsRows
  <2>4. TypeOK'
    BY <1>4, <2>2, <2>3 DEF TypeOK, PostInsert, PostState
  <2>5. AwaitedIsHead'
    BY <1>1, <1>2, <1>4, <2>2 DEF AwaitedIsHead, PostInsert
  <2> QED BY <2>4, <2>5
<1>5. ASSUME NEW p \in Posts, PostFails(p) PROVE QueueInv'
  <2>1. post' = [post EXCEPT ![p] = Free]
    BY <1>5 DEF PostFails
  <2>2. /\ post' \in [Posts -> PostState]
        /\ \A q \in Posts : post'[q].pc # "idle" => post'[q].domain # None
    BY <1>1, <1>2, <2>1, PostChanged
  <2>3. waiting' = (IF waiting = p THEN None ELSE waiting) /\ queue' = queue
    BY <1>5 DEF PostFails
  <2>4. TypeOK'
    BY <1>5, <2>2, <2>3 DEF TypeOK, PostFails, PostState
  <2>5. waiting' # None => waiting' = waiting /\ waiting \in Posts \ {p}
    BY <1>1, <2>3
  <2>6. waiting' # None => post'[waiting] = post[waiting]
    BY <1>1, <2>1, <2>5
  <2>7. AwaitedIsHead'
    BY <2>3, <2>5, <2>6 DEF AwaitedIsHead
  <2> QED BY <2>4, <2>7
<1>6. ASSUME NEW h \in Resolvers, NEW i \in DOMAIN requests, NEW decision \in Decisions,
             ResolveRead(h, i, decision)
      PROVE QueueInv'
  <2> DEFINE e == [pc |-> "write", id |-> i, decision |-> decision]
  <2>1. e \in ResolveState /\ e.id \in DOMAIN requests
    BY <1>1 DEF ResolveState
  <2>2. resolve' = [resolve EXCEPT ![h] = e]
    BY <1>6 DEF ResolveRead
  <2>3. /\ resolve' \in [Resolvers -> ResolveState]
        /\ \A g \in Resolvers : resolve'[g].pc = "write" => resolve'[g].id \in DOMAIN requests
    <3> HIDE DEF e
    <3> QED BY <1>1, <2>1, <2>2 DEF TypeOK
  <2> QED BY <1>6, <2>3 DEF TypeOK, AwaitedIsHead, ResolveRead, ResolveState
<1>7. ASSUME NEW h \in Resolvers, ResolveWrite(h) \/ ResolveDies(h)
      PROVE /\ resolve' \in [Resolvers -> ResolveState]
            /\ \A g \in Resolvers : resolve'[g].pc = "write" =>
                   resolve'[g].id \in DOMAIN requests
  <2>1. resolve' = [resolve EXCEPT ![h] = Ready]
    BY <1>7 DEF ResolveWrite, ResolveDies
  <2> QED BY <1>1, <1>2, <2>1 DEF TypeOK
<1>8. ASSUME NEW h \in Resolvers, ResolveWrite(h) PROVE QueueInv'
  <2>1. requests' \in Seq(Row) /\ SameRows
    BY <1>8, WriteKeepsRows
  <2>2. rules' \in [Domains -> Rule \cup {NoRule}]
    BY <1>1, <1>8 DEF ResolveWrite, WriteDecision, Rule
  <2>3. version' \in Nat
    BY <1>1, <1>8 DEF ResolveWrite
  <2>4. TypeOK'
    BY <1>7, <1>8, <2>1, <2>2, <2>3 DEF TypeOK, ResolveWrite, ResolveState, SameRows
  <2> QED BY <1>8, <2>4 DEF AwaitedIsHead, ResolveWrite
<1>9. ASSUME NEW h \in Resolvers, ResolveDies(h) PROVE QueueInv'
  BY <1>7, <1>9 DEF TypeOK, AwaitedIsHead, ResolveDies, ResolveState
<1>10. ASSUME NEW d \in Domains, WriteRule(d) \/ RuleExpires(d) PROVE QueueInv'
  <2>1. rules' \in [Domains -> Rule \cup {NoRule}]
    BY <1>1, <1>10 DEF WriteRule, RuleExpires
  <2>2. version' \in Nat
    BY <1>1, <1>10 DEF WriteRule, RuleExpires
  <2> QED BY <1>10, <2>1, <2>2 DEF TypeOK, AwaitedIsHead, WriteRule, RuleExpires
<1>11. ASSUME NEW n \in DOMAIN requests, Retention(n) PROVE QueueInv'
  <2>1. requests' \in Seq(Row) /\ SameRows
    BY <1>11, SweepKeepsRows
  <2>2. UNCHANGED <<queue, waiting, post, resolve, rules, version>>
    BY <1>11 DEF Retention
  <2> QED BY <2>1, <2>2 DEF TypeOK, AwaitedIsHead, SameRows
<1> QED BY <1>3, <1>4, <1>5, <1>6, <1>8, <1>9, <1>10, <1>11

THEOREM QueueInvariant == Spec => []QueueInv
<1>1. Init => QueueInv
  <2> SUFFICES ASSUME Init PROVE QueueInv
    OBVIOUS
  <2>1. <<>> \in Seq(Domains) /\ <<>> \in Seq(Row)
    BY EmptySeq
  <2>2. TypeOK
    BY RequestAssumption, <2>1 DEF Init, TypeOK, Free, Ready, Decisions
  <2> QED BY <2>2 DEF Init, QueueInv, AwaitedIsHead
<1>2. QueueInv /\ [Next]_vars => QueueInv'
  <2> SUFFICES ASSUME QueueInv, [Next]_vars PROVE QueueInv'
    OBVIOUS
  <2>1. CASE UNCHANGED vars
    BY <2>1 DEF vars, agent, QueueInv, TypeOK, AwaitedIsHead
  <2>2. CASE Next
    BY <2>2, AgentStep, CloudStep DEF Next, PostStep
  <2> QED BY <2>1, <2>2
<1> QED BY <1>1, <1>2, PTL DEF Spec

\* Every variable keeps its type through every step of agent, worker and parents.
THEOREM TypeCorrect == Spec => []TypeOK
<1>1. QueueInv => TypeOK
  BY DEF QueueInv
<1> QED BY <1>1, QueueInvariant, PTL

\* The POST the agent waits for is about the head of its queue, so that no
\* answer removes a request that was not sent.
THEOREM AwaitedAnswersHead == Spec => []AwaitedIsHead
<1>1. QueueInv => AwaitedIsHead
  BY DEF QueueInv
<1> QED BY <1>1, QueueInvariant, PTL

-----------------------------------------------------------------------------
\* Every step but an insert, and so also a stutter, keeps the rows.
LEMMA StepKeepsRows ==
  ASSUME TypeOK, [Next]_vars
  PROVE  \/ requests' \in Seq(Row) /\ SameRows /\ RowsKept
         \/ \E p \in Posts : PostInsert(p)
<1> SUFFICES ASSUME ~\E p \in Posts : PostInsert(p)
             PROVE  requests' \in Seq(Row) /\ SameRows /\ RowsKept
  OBVIOUS
<1>1. requests' = requests => requests' \in Seq(Row) /\ SameRows /\ RowsKept
  BY DEF TypeOK, SameRows, RowsKept
<1>2. ASSUME NEW h \in Resolvers, ResolveWrite(h)
      PROVE  requests' \in Seq(Row) /\ SameRows /\ RowsKept
  BY <1>2, WriteKeepsRows
<1>3. ASSUME NEW n \in DOMAIN requests, Retention(n)
      PROVE  requests' \in Seq(Row) /\ SameRows /\ RowsKept
  BY <1>3, SweepKeepsRows
<1>4. CASE UNCHANGED vars
  BY <1>1, <1>4 DEF vars
<1>5. CASE Next
  <2>1. \/ requests' = requests
        \/ \E h \in Resolvers : ResolveWrite(h)
        \/ \E n \in DOMAIN requests : Retention(n)
    BY <1>5 DEF Next, PostStep, Ask, WriteRule, RuleExpires, Upload, PostCheck, Answer,
                PostFails, UploadTimesOut, Restart, ResolveRead, ResolveDies
  <2> QED BY <1>1, <1>2, <1>3, <2>1
<1> QED BY <1>4, <1>5

\* A decision, once made, is not turned round by a second one that also read the
\* request pending: the row keeps its status or retention deletes it.
THEOREM DecisionsStand == Spec => DecidedOnce
<1>1. TypeOK /\ [Next]_vars =>
        [\A i \in DOMAIN requests :
            /\ i \in DOMAIN requests'
            /\ requests[i].status \in Decisions =>
                  requests'[i].status \in {requests[i].status, "deleted"}]_vars
  <2> SUFFICES ASSUME TypeOK, [Next]_vars, NEW i \in DOMAIN requests
               PROVE  /\ i \in DOMAIN requests'
                      /\ requests[i].status \in Decisions =>
                            requests'[i].status \in {requests[i].status, "deleted"}
    OBVIOUS
  <2>1. "pending" \notin Decisions
    BY DEF Decisions
  <2>2. CASE RowsKept
    BY <2>1, <2>2 DEF RowsKept
  <2>3. ASSUME NEW p \in Posts, PostInsert(p)
        PROVE  i \in DOMAIN requests' /\ requests'[i] = requests[i]
    BY <2>3, InsertKeepsRows
  <2> QED BY <2>2, <2>3, StepKeepsRows
<1> QED BY <1>1, TypeCorrect, PTL DEF Spec, DecidedOnce

\* The step that approves a request also allows its domain and moves the policy
\* version: no request reads approved before the agent can learn of it.
THEOREM ApprovalsCount == Spec => ApprovalTakesEffect
<1>1. TypeOK /\ [Next]_vars =>
        [\A i \in DOMAIN requests :
            requests[i].status = "pending" /\ requests'[i].status = "approved" =>
                LET d == requests[i].domain IN
                /\ version' > version
                /\ rules'[d] = "allow"]_vars
  <2> SUFFICES ASSUME TypeOK, [Next]_vars, NEW i \in DOMAIN requests,
                      requests[i].status = "pending", requests'[i].status = "approved"
               PROVE  version' > version /\ rules'[requests[i].domain] = "allow"
    OBVIOUS
  <2>1. requests' # requests
    OBVIOUS
  <2>2. ASSUME NEW p \in Posts PROVE ~PostInsert(p)
    <3> SUFFICES ASSUME PostInsert(p) PROVE FALSE
      OBVIOUS
    <3>1. requests'[i] = requests[i]
      BY InsertKeepsRows
    <3> QED BY <3>1
  <2>3. ASSUME NEW n \in DOMAIN requests PROVE ~Retention(n)
    <3> SUFFICES ASSUME Retention(n) PROVE FALSE
      OBVIOUS
    <3>1. requests \in Seq(Row)
      BY DEF TypeOK
    <3>2. requests' = [j \in DOMAIN requests |->
              IF j <= n THEN [requests[j] EXCEPT !.status = "deleted"] ELSE requests[j]]
      BY DEF Retention
    <3>3. requests'[i].status \in {requests[i].status, "deleted"}
      BY <3>1, <3>2, RowsSwept
    <3> QED BY <3>3
  <2>4. PICK h \in Resolvers : ResolveWrite(h)
    <3>1. CASE UNCHANGED vars
      BY <2>1, <3>1 DEF vars
    <3>2. CASE Next
      BY <2>1, <2>2, <2>3, <3>2 DEF Next, PostStep, Ask, WriteRule, RuleExpires, Upload,
            PostCheck, Answer, PostFails, UploadTimesOut, Restart, ResolveRead, ResolveDies
    <3> QED BY <3>1, <3>2
  <2> DEFINE n == resolve[h].id
             decision == resolve[h].decision
  <2>5. n \in DOMAIN requests /\ decision \in Decisions /\ requests[n].domain \in Domains
    <3>1. n \in DOMAIN requests /\ decision \in Decisions /\ requests \in Seq(Row)
      BY <2>4 DEF TypeOK, ResolveWrite
    <3>2. requests[n] \in Row
      BY <3>1, LenProperties, ElementOfSeq
    <3> QED BY <3>1, <3>2 DEF Row
  <2>6. requests[n].status = "pending" /\ requests' = [requests EXCEPT ![n].status = decision]
    BY <2>1, <2>4 DEF ResolveWrite
  <2>7. n = i /\ decision = "approved"
    <3>1. decision \in Statuses /\ requests \in Seq(Row)
      BY <2>5 DEF Decisions, Statuses, TypeOK
    <3>2. requests'[i].status = IF i = n THEN decision ELSE requests[i].status
      BY <2>5, <2>6, <3>1, StatusSet
    <3> QED BY <3>2
  <2>8. rules' = [rules EXCEPT ![requests[n].domain] = "allow"]
    BY <2>4, <2>7 DEF ResolveWrite, WriteDecision
  <2>9. version' = version + 1 /\ version \in Nat /\ rules \in [Domains -> Rule \cup {NoRule}]
    BY <2>4 DEF ResolveWrite, TypeOK
  <2> QED BY <2>5, <2>7, <2>8, <2>9
<1> QED BY <1>1, TypeCorrect, PTL DEF Spec, ApprovalTakesEffect

-----------------------------------------------------------------------------
\* The two sets that PendingBounded counts are finite.
LEMMA FiniteCounts ==
  ASSUME TypeOK, NEW d \in Domains
  PROVE  /\ IsFiniteSet(Pending(d)) /\ Cardinality(Pending(d)) \in Nat
         /\ IsFiniteSet(Inserting(d)) /\ Cardinality(Inserting(d)) \in Nat
         /\ Cardinality(Inserting(d)) <= Cardinality(Posts)
         /\ Cardinality(Posts) \in Nat
<1>1. Len(requests) \in Nat /\ DOMAIN requests = 1..Len(requests)
  BY LenProperties DEF TypeOK
<1>2. IsFiniteSet(1..Len(requests))
  BY <1>1, FS_Interval
<1>3. Pending(d) \in SUBSET (1..Len(requests)) /\ Inserting(d) \in SUBSET Posts
  BY <1>1 DEF Pending, Inserting
<1>4. IsFiniteSet(Pending(d))
  BY <1>2, <1>3, FS_Subset
<1>5. IsFiniteSet(Inserting(d)) /\ Cardinality(Inserting(d)) <= Cardinality(Posts)
  BY <1>3, FS_Subset, RequestAssumption
<1> QED BY <1>4, <1>5, FS_CardinalityType, RequestAssumption

\* Fewer of each leaves the bound.
LEMMA FewerOfBoth ==
  ASSUME TypeOK, TypeOK', NEW d \in Domains,
         Pending(d)' \subseteq Pending(d), Inserting(d)' \subseteq Inserting(d),
         Cardinality(Pending(d)) + Cardinality(Inserting(d)) <= Cardinality(Posts)
  PROVE  (Cardinality(Pending(d)) + Cardinality(Inserting(d)))' <= Cardinality(Posts)
<1>1. /\ IsFiniteSet(Pending(d)) /\ Cardinality(Pending(d)) \in Nat
      /\ IsFiniteSet(Inserting(d)) /\ Cardinality(Inserting(d)) \in Nat
      /\ Cardinality(Posts) \in Nat
  BY FiniteCounts
<1>2. Cardinality(Pending(d)') <= Cardinality(Pending(d)) /\ Cardinality(Pending(d)') \in Nat
  BY <1>1, FS_Subset, FS_CardinalityType
<1>3. Cardinality(Inserting(d)') <= Cardinality(Inserting(d)) /\ Cardinality(Inserting(d)') \in Nat
  BY <1>1, FS_Subset, FS_CardinalityType
<1> DEFINE a == Cardinality(Pending(d))
           b == Cardinality(Inserting(d))
           x == Cardinality(Pending(d)')
           y == Cardinality(Inserting(d)')
           n == Cardinality(Posts)
<1>4. a \in Nat /\ b \in Nat /\ x \in Nat /\ y \in Nat /\ n \in Nat
  BY <1>1, <1>2, <1>3
<1>5. x <= a /\ y <= b /\ a + b <= n
  BY <1>2, <1>3
<1>6. x + y <= n
  <2> HIDE DEF a, b, x, y, n
  <2> QED BY <1>4, <1>5
<1> QED BY <1>6

\* An insert turns one POST about to insert into one pending request.
LEMMA InsertMovesOne ==
  ASSUME TypeOK, TypeOK', NEW p \in Posts, PostInsert(p), post[p].domain \in Domains,
         NEW d, d = post[p].domain
  PROVE  (Cardinality(Pending(d)) + Cardinality(Inserting(d)))'
            = Cardinality(Pending(d)) + Cardinality(Inserting(d))
<1> DEFINE k == Len(requests) + 1
<1>1. /\ DOMAIN requests' = DOMAIN requests \cup {k}
      /\ k \notin DOMAIN requests
      /\ requests'[k] = [domain |-> d, status |-> "pending"]
      /\ \A i \in DOMAIN requests : requests'[i] = requests[i]
  BY InsertKeepsRows
<1>2. Pending(d)' = Pending(d) \cup {k} /\ k \notin Pending(d)
  <2> HIDE DEF k
  <2> QED BY <1>1 DEF Pending
<1>3. Inserting(d)' = Inserting(d) \ {p} /\ p \in Inserting(d)
  BY DEF PostInsert, Inserting, TypeOK
<1>4. /\ IsFiniteSet(Pending(d)) /\ Cardinality(Pending(d)) \in Nat
      /\ IsFiniteSet(Inserting(d)) /\ Cardinality(Inserting(d)) \in Nat
  BY FiniteCounts
<1>5. Cardinality(Pending(d)') = Cardinality(Pending(d)) + 1
  <2> HIDE DEF k
  <2> QED BY <1>2, <1>4, FS_AddElement
<1>6. Cardinality(Inserting(d)') = Cardinality(Inserting(d)) - 1
  BY <1>3, <1>4, FS_RemoveElement
<1> QED BY <1>4, <1>5, <1>6

\* However often a child asks, and however its POSTs overlap, a domain has no
\* more pending requests than POSTs can be under way at once.
THEOREM PendingStaysBounded == Spec => []PendingBounded
<1>1. Init => PendingBounded
  <2> SUFFICES ASSUME Init, NEW d \in Domains
               PROVE  Cardinality(Pending(d)) + Cardinality(Inserting(d)) <= Cardinality(Posts)
    BY DEF PendingBounded
  <2>1. Pending(d) = {} /\ Inserting(d) = {}
    BY DEF Init, Pending, Inserting, Free
  <2>2. Cardinality({}) = 0 /\ Cardinality(Posts) \in Nat
    BY FS_EmptySet, FS_CardinalityType, RequestAssumption
  <2> QED BY <2>1, <2>2
<1>2. TypeOK /\ TypeOK' /\ PendingBounded /\ [Next]_vars => PendingBounded'
  <2> SUFFICES ASSUME TypeOK, TypeOK', PendingBounded, [Next]_vars, NEW d \in Domains
               PROVE  (Cardinality(Pending(d)) + Cardinality(Inserting(d)))' <= Cardinality(Posts)
    BY DEF PendingBounded
  <2>1. Cardinality(Pending(d)) + Cardinality(Inserting(d)) <= Cardinality(Posts)
    BY DEF PendingBounded
  <2>2. ASSUME NEW p \in Posts, PostInsert(p)
        PROVE  (Cardinality(Pending(d)) + Cardinality(Inserting(d)))' <= Cardinality(Posts)
    <3>1. post[p].domain \in Domains
      BY <2>2 DEF TypeOK, PostInsert
    <3>2. CASE d = post[p].domain
      <4>1. (Cardinality(Pending(d)) + Cardinality(Inserting(d)))'
               = Cardinality(Pending(d)) + Cardinality(Inserting(d))
        BY <2>2, <3>1, <3>2, InsertMovesOne
      <4> QED BY <2>1, <4>1
    <3>3. CASE d # post[p].domain
      <4> DEFINE k == Len(requests) + 1
      <4>1. /\ DOMAIN requests' = DOMAIN requests \cup {k}
            /\ requests'[k] = [domain |-> post[p].domain, status |-> "pending"]
            /\ \A i \in DOMAIN requests : requests'[i] = requests[i]
        BY <2>2, InsertKeepsRows
      <4>2. Pending(d)' \subseteq Pending(d)
        <5> HIDE DEF k
        <5> QED BY <3>3, <4>1 DEF Pending
      <4>3. Inserting(d)' \subseteq Inserting(d)
        BY <2>2 DEF PostInsert, Inserting, TypeOK
      <4> QED BY <2>1, <4>2, <4>3, FewerOfBoth
    <3> QED BY <3>2, <3>3
  <2>3. ASSUME SameRows, RowsKept
        PROVE  Pending(d)' \subseteq Pending(d)
    BY <2>3 DEF SameRows, RowsKept, Pending
  <2>4. ASSUME NEW p \in Posts, PostCheck(p)
        PROVE  (Cardinality(Pending(d)) + Cardinality(Inserting(d)))' <= Cardinality(Posts)
    <3>1. Pending(d)' = Pending(d)
      BY <2>4 DEF PostCheck, Pending
    <3>2. CASE Pending(d) = {}
      <4>1. Cardinality(Pending(d)') = 0
        BY <3>1, <3>2, FS_EmptySet
      <4>2. /\ Cardinality(Inserting(d)') <= Cardinality(Posts)
            /\ Cardinality(Inserting(d)') \in Nat
        <5>1. Inserting(d)' \in SUBSET Posts
          BY DEF Inserting
        <5> QED BY <5>1, FS_Subset, FS_CardinalityType, RequestAssumption
      <4> QED BY <4>1, <4>2
    <3>3. CASE Pending(d) # {}
      <4>1. Inserting(d)' \subseteq Inserting(d)
        BY <2>4, <3>3 DEF PostCheck, Inserting, TypeOK
      <4> QED BY <2>1, <3>1, <4>1, FewerOfBoth
    <3> QED BY <3>2, <3>3
  <2>5. ASSUME \A p \in Posts : ~PostInsert(p) /\ ~PostCheck(p)
        PROVE  Inserting(d)' \subseteq Inserting(d)
    <3>1. CASE post' = post
      BY <3>1 DEF Inserting
    <3>2. ASSUME NEW p \in Posts, NEW e, e.pc # "insert", post' = [post EXCEPT ![p] = e]
          PROVE  Inserting(d)' \subseteq Inserting(d)
      BY <3>2 DEF Inserting, TypeOK
    <3>3. Free.pc # "insert"
      BY DEF Free
    <3>4. ASSUME NEW p \in Posts, Answer(p) \/ PostFails(p)
          PROVE  Inserting(d)' \subseteq Inserting(d)
      <4>1. post' = [post EXCEPT ![p] = Free]
        BY <3>4 DEF Answer, PostFails
      <4> QED BY <3>2, <3>3, <4>1
    <3>5. ASSUME NEW p \in Posts, Upload(p)
          PROVE  Inserting(d)' \subseteq Inserting(d)
      <4> DEFINE e == [pc |-> "check", domain |-> Head(queue)]
      <4>1. e.pc # "insert" /\ post' = [post EXCEPT ![p] = e]
        BY <3>5 DEF Upload
      <4> HIDE DEF e
      <4> QED BY <3>2, <4>1
    <3>6. \/ post' = post
          \/ \E p \in Posts : Answer(p) \/ PostFails(p) \/ Upload(p)
      <4>1. CASE UNCHANGED vars
        BY <4>1 DEF vars
      <4>2. CASE Next
        BY <2>5, <4>2 DEF Next, PostStep, Ask, WriteRule, RuleExpires, UploadTimesOut, Restart,
                          ResolveRead, ResolveWrite, ResolveDies, Retention
      <4> QED BY <4>1, <4>2
    <3> QED BY <3>1, <3>4, <3>5, <3>6
  <2>6. CASE \A p \in Posts : ~PostInsert(p) /\ ~PostCheck(p)
    <3>1. SameRows /\ RowsKept
      BY <2>6, StepKeepsRows
    <3> QED BY <2>1, <2>3, <2>5, <2>6, <3>1, FewerOfBoth
  <2> QED BY <2>2, <2>4, <2>6
<1> QED BY <1>1, <1>2, TypeCorrect, PTL DEF Spec

-----------------------------------------------------------------------------
\* An insert finds room for its domain on the parents' list.
LEMMA RoomToInsert ==
  ASSUME TypeOK, PendingBounded, NEW p \in Posts, post[p].pc = "insert",
         NEW d \in Domains, d = post[p].domain
  PROVE  Cardinality(Pending(d)) < Cardinality(Posts)
<1>1. /\ Cardinality(Pending(d)) \in Nat /\ Cardinality(Inserting(d)) \in Nat
      /\ IsFiniteSet(Inserting(d)) /\ Cardinality(Posts) \in Nat
  BY FiniteCounts
<1>2. Cardinality(Inserting(d)) # 0
  BY <1>1, FS_EmptySet DEF Inserting
<1>3. Cardinality(Pending(d)) + Cardinality(Inserting(d)) <= Cardinality(Posts)
  BY DEF PendingBounded
<1> QED BY <1>1, <1>2, <1>3

\* What the agent and its POSTs do, the inbox can do.
LEMMA AgentInbox ==
  ASSUME QueueInv, PendingBounded,
         \/ \E d \in Domains : Ask(d)
         \/ \E p \in Posts : PostStep(p) \/ PostFails(p)
         \/ UploadTimesOut
         \/ Restart
  PROVE  Asked!InboxNext \/ UNCHANGED Asked!inboxVars
<1> USE RequestAssumption DEF agent
<1>0. /\ TypeOK /\ AwaitedIsHead
      /\ waiting \in Posts \cup {None}
      /\ post \in [Posts -> PostState]
      /\ Free.pc = "idle"
  BY DEF QueueInv, TypeOK, PostState, Free
<1>1. ASSUME NEW d \in Domains, Ask(d) PROVE Asked!InboxNext
  <2>1. Acknowledged' = Acknowledged
    BY <1>1 DEF Ask, Acknowledged
  <2> QED BY <1>1, <2>1 DEF Ask, Asked!InboxNext, Asked!AskFor
<1>2. ASSUME NEW p \in Posts, Upload(p) PROVE UNCHANGED Asked!inboxVars
  <2>1. ~Acknowledged /\ ~Acknowledged'
    BY <1>0, <1>2 DEF Upload, Acknowledged
  <2>2. Acknowledged' = Acknowledged
    BY <2>1 DEF Acknowledged
  <2> QED BY <1>2, <2>2 DEF Upload, Asked!inboxVars
<1>3. ASSUME NEW p \in Posts, PostCheck(p) PROVE Asked!InboxNext \/ UNCHANGED Asked!inboxVars
  <2>1. UNCHANGED <<queue, waiting, requests, rules, version>>
    BY <1>3 DEF PostCheck
  <2>2. CASE waiting = p /\ Pending(post[p].domain) # {}
    <3>1. Acknowledged' = TRUE
      BY <1>0, <1>3, <2>1, <2>2 DEF PostCheck, Acknowledged
    <3>2. queue # <<>> /\ post[p].domain = Head(queue)
      BY <1>0, <2>2 DEF AwaitedIsHead
    <3> QED BY <2>1, <2>2, <3>1, <3>2 DEF Asked!InboxNext, Asked!Note, Asked!Opened, Pending
  <2>3. CASE ~(waiting = p /\ Pending(post[p].domain) # {})
    <3>1. waiting # None => (post'[waiting].pc = "done" <=> post[waiting].pc = "done")
      BY <1>0, <1>3, <2>3 DEF PostCheck
    <3>2. Acknowledged' = Acknowledged
      BY <2>1, <3>1 DEF Acknowledged
    <3> QED BY <2>1, <3>2 DEF Asked!inboxVars
  <2> QED BY <2>2, <2>3
<1>4. ASSUME NEW p \in Posts, PostInsert(p) PROVE Asked!InboxNext
  <2>0. /\ Asked!Opened(post[p].domain) = Pending(post[p].domain)
        /\ Asked!Cardinality(Pending(post[p].domain)) = Cardinality(Pending(post[p].domain))
    BY DEF Asked!Opened, Pending, Asked!Cardinality, Cardinality
  <2>1. /\ UNCHANGED <<queue, waiting, rules, version>>
        /\ post[p].domain \in Domains
        /\ requests' = Append(requests, [domain |-> post[p].domain, status |-> "pending"])
    BY <1>0, <1>4 DEF PostInsert, TypeOK
  <2>2. Cardinality(Pending(post[p].domain)) < Cardinality(Posts)
    BY <1>0, <1>4, <2>1, RoomToInsert DEF PostInsert
  <2>3. CASE waiting = p
    <3>1. Acknowledged' = TRUE
      BY <1>0, <1>4, <2>1, <2>3 DEF PostInsert, Acknowledged
    <3>2. queue # <<>> /\ post[p].domain = Head(queue)
      BY <1>0, <2>3 DEF AwaitedIsHead
    <3>3. Asked!List(post[p].domain)
      BY <2>0, <2>1, <2>2, <3>1, <3>2 DEF Asked!List
    <3> QED BY <2>1, <3>3 DEF Asked!InboxNext
  <2>4. CASE waiting # p
    <3>1. waiting # None => post'[waiting] = post[waiting]
      BY <1>0, <1>4, <2>4 DEF PostInsert
    <3>2. Acknowledged' = Acknowledged
      BY <2>1, <3>1 DEF Acknowledged
    <3>3. Asked!List(post[p].domain)
      BY <2>0, <2>1, <2>2, <3>2 DEF Asked!List
    <3> QED BY <2>1, <3>3 DEF Asked!InboxNext
  <2> QED BY <2>3, <2>4
<1>5. ASSUME NEW p \in Posts, waiting' \in {None, waiting}, waiting = p => waiting' = None,
             post' = [post EXCEPT ![p] = Free]
      PROVE  /\ waiting = p => Acknowledged' = FALSE
             /\ waiting # p => Acknowledged' = Acknowledged \/ Acknowledged' = FALSE
  <2>1. waiting' # None => post'[waiting] = post[waiting] /\ waiting' = waiting
    BY <1>0, <1>5
  <2> QED BY <1>5, <2>1 DEF Acknowledged
<1>6. ASSUME NEW p \in Posts, Answer(p) PROVE Asked!InboxNext \/ UNCHANGED Asked!inboxVars
  <2>1. post' = [post EXCEPT ![p] = Free] /\ UNCHANGED <<requests, rules, version>>
    BY <1>6 DEF Answer
  <2>2. CASE waiting = p
    <3>1. Acknowledged /\ waiting' = None /\ queue' = Tail(queue)
      BY <1>0, <1>6, <2>2 DEF Answer, Acknowledged
    <3>2. Acknowledged' = FALSE
      BY <3>1 DEF Acknowledged
    <3> QED BY <2>1, <3>1, <3>2 DEF Asked!InboxNext, Asked!Settle
  <2>3. CASE waiting # p
    <3>1. queue' = queue /\ waiting' = waiting
      BY <1>6, <2>3 DEF Answer
    <3>2. Acknowledged' = Acknowledged \/ Acknowledged' = FALSE
      BY <1>5, <2>1, <2>3, <3>1
    <3> QED BY <2>1, <3>1, <3>2 DEF Asked!InboxNext, Asked!Doubt, Asked!inboxVars
  <2> QED BY <2>2, <2>3
<1>7. ASSUME NEW p \in Posts, PostFails(p) PROVE Asked!InboxNext \/ UNCHANGED Asked!inboxVars
  <2>1. /\ post' = [post EXCEPT ![p] = Free] /\ UNCHANGED <<queue, requests, rules, version>>
        /\ waiting' = IF waiting = p THEN None ELSE waiting
    BY <1>7 DEF PostFails
  <2>2. Acknowledged' = Acknowledged \/ Acknowledged' = FALSE
    BY <1>5, <2>1
  <2> QED BY <2>1, <2>2 DEF Asked!InboxNext, Asked!Doubt, Asked!inboxVars
<1>8. ASSUME UploadTimesOut PROVE Asked!InboxNext
  <2>1. Acknowledged' = FALSE /\ UNCHANGED <<queue, requests, rules, version>>
    BY <1>8 DEF UploadTimesOut, Acknowledged
  <2> QED BY <2>1 DEF Asked!InboxNext, Asked!Doubt
<1>9. ASSUME Restart PROVE Asked!InboxNext
  <2>1. Acknowledged' = FALSE
    BY <1>9 DEF Restart, Acknowledged
  <2> QED BY <1>9, <2>1 DEF Restart, Asked!InboxNext, Asked!Lose
<1> QED BY <1>1, <1>2, <1>3, <1>4, <1>6, <1>7, <1>8, <1>9 DEF PostStep

\* What the parents and retention do, the inbox can do.
LEMMA ParentInbox ==
  ASSUME QueueInv,
         \/ \E h \in Resolvers :
               \/ \E i \in DOMAIN requests, decision \in Decisions : ResolveRead(h, i, decision)
               \/ ResolveWrite(h)
               \/ ResolveDies(h)
         \/ \E d \in Domains : WriteRule(d) \/ RuleExpires(d)
         \/ \E n \in DOMAIN requests : Retention(n)
  PROVE  Asked!InboxNext \/ UNCHANGED Asked!inboxVars
<1> USE DEF agent
<1>1. Acknowledged' = Acknowledged /\ queue' = queue
  BY DEF ResolveRead, ResolveWrite, ResolveDies, WriteRule, RuleExpires, Retention, Acknowledged
<1>2. rules \in [Domains -> Rule \cup {NoRule}]
  BY DEF QueueInv, TypeOK
<1>3. ASSUME NEW h \in Resolvers, ResolveWrite(h) PROVE Asked!InboxNext
  <2> DEFINE i == resolve[h].id
             d == requests[i].domain
  <2>1. i \in DOMAIN requests /\ resolve[h].decision \in Decisions /\ d \in Domains
    <3>1. i \in DOMAIN requests /\ resolve[h].decision \in Decisions /\ requests \in Seq(Row)
      BY <1>3 DEF QueueInv, TypeOK, ResolveWrite
    <3>2. requests[i] \in Row
      BY <3>1, LenProperties, ElementOfSeq
    <3> QED BY <3>1, <3>2 DEF Row
  <2>2. CASE requests[i].status = "pending"
    <3>1. Asked!Decide(i, resolve[h].decision)
      BY <1>1, <1>3, <2>1, <2>2 DEF ResolveWrite, WriteDecision, Decisions, Asked!Decide
    <3> QED BY <2>1, <3>1 DEF Asked!InboxNext, Decisions
  <2>3. CASE requests[i].status # "pending"
    <3>1. requests' = requests /\ version' = version + 1
      BY <1>3, <2>3 DEF ResolveWrite
    <3>2. rules' = [rules EXCEPT ![d] = IF resolve[h].decision = "denied" THEN rules[d] ELSE "allow"]
      BY <1>2, <1>3, <2>1 DEF ResolveWrite, WriteDecision
    <3>3. Asked!Rewrite(d)
      BY <1>1, <1>2, <2>1, <3>1, <3>2 DEF Asked!Rewrite, Rule
    <3> QED BY <2>1, <3>3 DEF Asked!InboxNext
  <2> QED BY <2>2, <2>3
<1>4. ASSUME NEW h \in Resolvers,
             \/ \E i \in DOMAIN requests, decision \in Decisions : ResolveRead(h, i, decision)
             \/ ResolveDies(h)
      PROVE  UNCHANGED Asked!inboxVars
  BY <1>1, <1>4 DEF ResolveRead, ResolveDies, Asked!inboxVars
<1>5. ASSUME NEW d \in Domains, WriteRule(d) PROVE Asked!Rewrite(d)
  BY <1>1, <1>5 DEF WriteRule, Asked!Rewrite, Rule
<1>6. ASSUME NEW d \in Domains, RuleExpires(d) PROVE Asked!Lapse(d)
  BY <1>1, <1>6 DEF RuleExpires, Asked!Lapse
<1>7. ASSUME NEW n \in DOMAIN requests, Retention(n) PROVE Asked!Strike(n)
  BY <1>1, <1>7 DEF Retention, Asked!Strike
<1> QED BY <1>3, <1>4, <1>5, <1>6, <1>7 DEF Asked!InboxNext

\* Agent, worker and parents, message by message, implement the inbox, for any
\* number of domains, overlapping POSTs and resolvers and a table of any length.
THEOREM MessagesMakeInbox == Spec => ImplementsInbox
<1>1. Init => Asked!InboxInit
  BY DEF Init, Asked!InboxInit, Acknowledged
<1>2. QueueInv /\ PendingBounded /\ [Next]_vars => [Asked!InboxNext]_(Asked!inboxVars)
  <2> SUFFICES ASSUME QueueInv, PendingBounded, [Next]_vars
               PROVE  Asked!InboxNext \/ UNCHANGED Asked!inboxVars
    OBVIOUS
  <2>1. CASE UNCHANGED vars
    BY <2>1 DEF vars, agent, Asked!inboxVars, Acknowledged
  <2>2. CASE Next
    BY <2>2, AgentInbox, ParentInbox DEF Next
  <2> QED BY <2>1, <2>2
<1> QED
  BY <1>1, <1>2, QueueInvariant, PendingStaysBounded, PTL
  DEF Spec, ImplementsInbox, Asked!InboxSpec

-----------------------------------------------------------------------------
\* No two resolve handlers hold the same request between read and write.
NoRace ==
    \A g, h \in Resolvers :
        /\ resolve[g].pc = "write" /\ resolve[h].pc = "write"
        /\ resolve[g].id = resolve[h].id
        => g = h

\* What a handler read pending has not been decided when it writes.
ReadInv ==
    \A h \in Resolvers : resolve[h].pc = "write" =>
        requests[resolve[h].id].status \notin Decisions

LEMMA ReadInvStep ==
  ASSUME TypeOK, NoRace, ReadInv, [Next]_vars
  PROVE  ReadInv'
<1> USE DEF agent
<1>1. /\ requests \in Seq(Row) /\ DOMAIN requests \subseteq Nat
      /\ resolve \in [Resolvers -> ResolveState]
      /\ \A h \in Resolvers : resolve[h].pc = "write" => resolve[h].id \in DOMAIN requests
  BY LenProperties DEF TypeOK, ResolveState
<1>2. "pending" \notin Decisions /\ "deleted" \notin Decisions /\ Ready.pc = "idle"
  BY DEF Decisions, Ready
<1>3. ASSUME UNCHANGED resolve,
             \A i \in DOMAIN requests : requests'[i].status \in {requests[i].status, "deleted"}
      PROVE  ReadInv'
  BY <1>1, <1>2, <1>3 DEF ReadInv
<1>4. ASSUME NEW p \in Posts, PostInsert(p) PROVE ReadInv'
  <2>1. \A i \in DOMAIN requests : requests'[i] = requests[i]
    BY <1>4, InsertKeepsRows
  <2> QED BY <1>3, <1>4, <2>1 DEF PostInsert
<1>5. ASSUME NEW h \in Resolvers, NEW i \in DOMAIN requests, NEW decision \in Decisions,
             ResolveRead(h, i, decision)
      PROVE  ReadInv'
  <2>1. /\ requests' = requests /\ requests[i].status = "pending"
        /\ \A g \in Resolvers \ {h} : resolve'[g] = resolve[g]
        /\ resolve'[h].id = i
    BY <1>1, <1>5 DEF ResolveRead
  <2>2. ASSUME NEW g \in Resolvers, resolve'[g].pc = "write"
        PROVE  requests'[resolve'[g].id].status \notin Decisions
    BY <1>2, <2>1, <2>2 DEF ReadInv
  <2> QED BY <2>2 DEF ReadInv
<1>6. ASSUME NEW h \in Resolvers, ResolveWrite(h) PROVE ReadInv'
  <2> DEFINE i == resolve[h].id
  <2>1. /\ i \in DOMAIN requests /\ resolve[h].decision \in Statuses /\ resolve[h].pc = "write"
        /\ resolve'[h].pc = "idle"
        /\ \A g \in Resolvers \ {h} : resolve'[g] = resolve[g]
    BY <1>1, <1>2, <1>6 DEF ResolveWrite, ResolveState, Decisions, Statuses
  <2>2. \A j \in DOMAIN requests : j # i => requests'[j].status = requests[j].status
    <3>1. CASE requests[i].status = "pending"
      <4>1. requests' = [requests EXCEPT ![i].status = resolve[h].decision]
        BY <1>6, <3>1 DEF ResolveWrite
      <4> QED BY <1>1, <2>1, <4>1, StatusSet
    <3>2. CASE requests[i].status # "pending"
      BY <1>6, <3>2 DEF ResolveWrite
    <3> QED BY <3>1, <3>2
  <2>3. ASSUME NEW g \in Resolvers, resolve'[g].pc = "write"
        PROVE  requests'[resolve'[g].id].status \notin Decisions
    <3>1. g # h /\ resolve'[g] = resolve[g] /\ resolve[g].pc = "write"
      BY <2>1, <2>3
    <3>2. resolve[g].id # i
      BY <2>1, <3>1 DEF NoRace
    <3> QED BY <1>1, <2>2, <3>1, <3>2 DEF ReadInv
  <2> QED BY <2>3 DEF ReadInv
<1>7. ASSUME NEW h \in Resolvers, ResolveDies(h) PROVE ReadInv'
  <2>1. /\ requests' = requests /\ resolve'[h].pc = "idle"
        /\ \A g \in Resolvers \ {h} : resolve'[g] = resolve[g]
    BY <1>1, <1>2, <1>7 DEF ResolveDies
  <2> QED BY <2>1 DEF ReadInv
<1>8. ASSUME NEW n \in DOMAIN requests, Retention(n) PROVE ReadInv'
  <2>1. requests' = [j \in DOMAIN requests |->
            IF j <= n THEN [requests[j] EXCEPT !.status = "deleted"] ELSE requests[j]]
    BY <1>8 DEF Retention
  <2>2. \A j \in DOMAIN requests : requests'[j].status \in {requests[j].status, "deleted"}
    BY <1>1, <2>1, RowsSwept
  <2> QED BY <1>3, <1>8, <2>2 DEF Retention
<1>9. CASE UNCHANGED <<requests, resolve>>
  BY <1>3, <1>9
<1>10. CASE UNCHANGED vars
  BY <1>9, <1>10 DEF vars
<1>11. CASE Next
  BY <1>4, <1>5, <1>6, <1>7, <1>8, <1>9, <1>11
  DEF Next, PostStep, Ask, WriteRule, RuleExpires, Upload, PostCheck, Answer, PostFails,
      UploadTimesOut, Restart
<1> QED BY <1>10, <1>11

\* Only a race lets a denied domain be allowed behind the parents' backs: as long
\* as no two handlers hold one request between their read and their batch, what
\* the 409 of parent.ts promises holds, with retention and everything else beside.
THEOREM OnlyRacesOverruleDenials == Spec /\ []NoRace => DenialLeavesRuleAlone
<1>1. Init => ReadInv
  BY DEF Init, ReadInv, Ready
<1>2. TypeOK /\ NoRace /\ ReadInv /\ [Next]_vars => ReadInv'
  BY ReadInvStep
<1>3. ReadInv /\ [Next]_vars =>
        [\A d \in Domains, h \in Resolvers :
            resolve[h].pc = "write" /\ resolve'[h].pc = "idle" /\ rules'[d] # rules[d] =>
                requests[resolve[h].id].status # "denied"]_vars
  BY DEF ReadInv, Decisions
<1> QED BY <1>1, <1>2, <1>3, TypeCorrect, PTL DEF Spec, DenialLeavesRuleAlone

=============================================================================
