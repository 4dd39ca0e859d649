--------------------------- MODULE AccessRequests ---------------------------
(***************************************************************************)
(* One child asks for blocked sites, a parent decides.                     *)
(*                                                                         *)
(* The agent queues what the child asks and uploads it one by one during a *)
(* sync; an upload that times out is tried again while the first POST may  *)
(* still be running in the worker.  The worker looks for a pending request *)
(* and inserts one in two statements; a resolve handler reads the request, *)
(* then writes status, allow rule and policy version in one batch.         *)
(***************************************************************************)
EXTENDS Integers, Sequences, FiniteSets

CONSTANTS
    Domains,
    Posts,       \* POST /access-requests invocations that may overlap
    Resolvers,   \* POST /requests/:id/resolve invocations that may overlap
    None,        \* no POST awaited, no domain, no request
    NoRule,      \* no domain_rules row, or an expired one
    MaxAsks,     \* bound: requests asked in one run of the service
    MaxRequests, \* bound: rows inserted
    MaxVersion   \* bound: policy versions

ASSUME RequestAssumption ==
    /\ {MaxAsks, MaxRequests, MaxVersion} \subseteq Nat
    /\ None \notin Posts /\ None \notin Domains
    /\ IsFiniteSet(Posts)
    /\ NoRule \notin {"allow", "block"}

Statuses  == {"pending", "approved", "denied", "deleted"}
Decisions == {"approved", "denied"}
Row       == [domain : Domains, status : Statuses]
Rule      == {"allow", "block"}

VARIABLES
    queue,     \* AccessRequestQueue: the domains asked for, oldest first
    waiting,   \* the POST the upload loop awaits
    post,      \* Posts -> handler of POST /access-requests
    requests,  \* access_requests, in order of insertion
    resolve,   \* Resolvers -> handler of POST /requests/:id/resolve
    rules,     \* Domains -> action of the live domain_rules row
    version    \* policy_version

agent == <<queue, waiting>>
vars  == <<agent, post, requests, resolve, rules, version>>

Free  == [pc |-> "idle", domain |-> None]
Ready == [pc |-> "idle", id |-> 0, decision |-> "denied"]

Pending(d) == {i \in DOMAIN requests : requests[i].domain = d /\ requests[i].status = "pending"}

-----------------------------------------------------------------------------
\* The agent

\* "request" on the named pipe
Ask(d) ==
    /\ Len(queue) < MaxAsks
    /\ queue' = Append(queue, d)
    /\ UNCHANGED <<waiting, post, requests, resolve, rules, version>>

\* Mutant of Upload: the body lacks the domain.
UploadEmpty(p) ==
    /\ waiting = None
    /\ queue # <<>>
    /\ post[p] = Free
    /\ post' = [post EXCEPT ![p].pc = "check"]
    /\ waiting' = p
    /\ UNCHANGED <<queue, requests, resolve, rules, version>>

\* UploadAccessRequests posts the head of the queue and leaves it there.
Upload(p) ==
    /\ waiting = None
    /\ queue # <<>>
    /\ post[p] = Free
    /\ post' = [post EXCEPT ![p] = [pc |-> "check", domain |-> Head(queue)]]
    /\ waiting' = p
    /\ UNCHANGED <<queue, requests, resolve, rules, version>>

\* Mutant of Answer: any answer removes the head, awaited or late.
AnswerToAny(p) ==
    /\ post[p].pc = "done"
    /\ post' = [post EXCEPT ![p] = Free]
    /\ queue' = IF queue = <<>> THEN queue ELSE Tail(queue)
    /\ waiting' = IF waiting = p THEN None ELSE waiting
    /\ UNCHANGED <<requests, resolve, rules, version>>

\* The answer (also a duplicate) removes the head if it is still awaited.
Answer(p) ==
    /\ post[p].pc = "done"
    /\ post' = [post EXCEPT ![p] = Free]
    /\ IF waiting = p THEN queue' = Tail(queue) /\ waiting' = None
                      ELSE UNCHANGED agent
    /\ UNCHANGED <<requests, resolve, rules, version>>

\* The client gives up after 15 s on a handler that goes on running.
UploadTimesOut ==
    /\ waiting # None
    /\ waiting' = None
    /\ UNCHANGED <<queue, post, requests, resolve, rules, version>>

\* The queue is in memory only.
Restart ==
    /\ queue' = <<>>
    /\ waiting' = None
    /\ UNCHANGED <<post, requests, resolve, rules, version>>

-----------------------------------------------------------------------------
\* POST /access-requests

\* Mutant of PostCheck: no look at the pending requests.
PostCheckNothing(p) ==
    /\ post[p].pc = "check"
    /\ post' = [post EXCEPT ![p].pc = "insert"]
    /\ UNCHANGED <<agent, requests, resolve, rules, version>>

PostCheck(p) ==
    /\ post[p].pc = "check"
    /\ post' = [post EXCEPT ![p].pc = IF Pending(post[p].domain) # {} THEN "done" ELSE "insert"]
    /\ UNCHANGED <<agent, requests, resolve, rules, version>>

PostInsert(p) ==
    /\ post[p].pc = "insert"
    /\ Len(requests) < MaxRequests
    /\ requests' = Append(requests, [domain |-> post[p].domain, status |-> "pending"])
    /\ post' = [post EXCEPT ![p].pc = "done"]
    /\ UNCHANGED <<agent, resolve, rules, version>>

\* An error status, or the invocation dies: an agent that waits stops waiting.
PostFails(p) ==
    /\ post[p] # Free
    /\ post' = [post EXCEPT ![p] = Free]
    /\ waiting' = IF waiting = p THEN None ELSE waiting
    /\ UNCHANGED <<queue, requests, resolve, rules, version>>

-----------------------------------------------------------------------------
\* POST /requests/:id/resolve

ResolveRead(h, i, decision) ==
    /\ resolve[h].pc = "idle"
    /\ i \in DOMAIN requests
    /\ requests[i].status = "pending"
    /\ resolve' = [resolve EXCEPT ![h] = [pc |-> "write", id |-> i, decision |-> decision]]
    /\ UNCHANGED <<agent, post, requests, rules, version>>

\* What an approval stores for a domain, and a denial leaves alone.
WriteDecision(d, decision) ==
    rules' = IF decision = "denied" THEN rules ELSE [rules EXCEPT ![d] = "allow"]

\* Mutant of ResolveWrite: the UPDATE is not conditional on the status.
ResolveWriteAlways(h) ==
    LET i == resolve[h].id IN
    /\ resolve[h].pc = "write"
    /\ version < MaxVersion
    /\ requests' = [requests EXCEPT ![i].status = resolve[h].decision]
    /\ WriteDecision(requests[i].domain, resolve[h].decision)
    /\ version' = version + 1
    /\ resolve' = [resolve EXCEPT ![h] = Ready]
    /\ UNCHANGED <<agent, post>>

\* Mutant of ResolveWrite: the policy version stays.
ResolveWriteSilently(h) ==
    LET i == resolve[h].id IN
    /\ resolve[h].pc = "write"
    /\ requests' = IF requests[i].status = "pending"
                   THEN [requests EXCEPT ![i].status = resolve[h].decision]
                   ELSE requests
    /\ WriteDecision(requests[i].domain, resolve[h].decision)
    /\ resolve' = [resolve EXCEPT ![h] = Ready]
    /\ UNCHANGED <<agent, post, version>>

\* The batch: only the first statement is conditional on the status.
ResolveWrite(h) ==
    LET i == resolve[h].id IN
    /\ resolve[h].pc = "write"
    /\ version < MaxVersion
    /\ requests' = IF requests[i].status = "pending"
                   THEN [requests EXCEPT ![i].status = resolve[h].decision]
                   ELSE requests
    /\ WriteDecision(requests[i].domain, resolve[h].decision)
    /\ version' = version + 1
    /\ resolve' = [resolve EXCEPT ![h] = Ready]
    /\ UNCHANGED <<agent, post>>

ResolveDies(h) ==
    /\ resolve[h].pc = "write"
    /\ resolve' = [resolve EXCEPT ![h] = Ready]
    /\ UNCHANGED <<agent, post, requests, rules, version>>

-----------------------------------------------------------------------------
\* POST and DELETE of rules by the parent.  (PolicySync has the version bump as
\* the statement of its own that it is.)
WriteRule(d) ==
    /\ version < MaxVersion
    /\ \E r \in Rule \cup {NoRule} : rules' = [rules EXCEPT ![d] = r]
    /\ version' = version + 1
    /\ UNCHANGED <<agent, post, requests, resolve>>

\* A temporary rule (an hour, until the end of the day) ceases to count.
RuleExpires(d) ==
    /\ rules[d] # NoRule
    /\ rules' = [rules EXCEPT ![d] = NoRule]
    /\ UNCHANGED <<agent, post, requests, resolve, version>>

\* Retention deletes the requests older than 30 days, decided or not.
Retention(n) ==
    /\ n \in DOMAIN requests
    /\ requests[n].status # "deleted"
    /\ requests' = [i \in DOMAIN requests |->
          IF i <= n THEN [requests[i] EXCEPT !.status = "deleted"] ELSE requests[i]]
    /\ UNCHANGED <<agent, post, resolve, rules, version>>

-----------------------------------------------------------------------------
Init ==
    /\ queue = <<>>
    /\ waiting = None
    /\ post = [p \in Posts |-> Free]
    /\ requests = <<>>
    /\ resolve = [h \in Resolvers |-> Ready]
    /\ rules = [d \in Domains |-> NoRule]
    /\ version = 1

PostStep(p) == Upload(p) \/ PostCheck(p) \/ PostInsert(p) \/ Answer(p)

Next ==
    \/ \E d \in Domains : Ask(d) \/ WriteRule(d) \/ RuleExpires(d)
    \/ \E p \in Posts : PostStep(p) \/ PostFails(p)
    \/ UploadTimesOut
    \/ Restart
    \/ \E h \in Resolvers :
          \/ \E i \in DOMAIN requests, decision \in Decisions : ResolveRead(h, i, decision)
          \/ ResolveWrite(h)
          \/ ResolveDies(h)
    \/ \E n \in DOMAIN requests : Retention(n)

Spec == Init /\ [][Next]_vars

-----------------------------------------------------------------------------
TypeOK ==
    /\ queue \in Seq(Domains)
    /\ waiting \in Posts \cup {None}
    /\ post \in [Posts -> [pc : {"idle", "check", "insert", "done"}, domain : Domains \cup {None}]]
    /\ \A p \in Posts : post[p].pc # "idle" => post[p].domain # None
    /\ requests \in Seq(Row)
    /\ resolve \in [Resolvers -> [pc : {"idle", "write"}, id : Nat, decision : Decisions]]
    /\ \A h \in Resolvers : resolve[h].pc = "write" => resolve[h].id \in DOMAIN requests
    /\ rules \in [Domains -> Rule \cup {NoRule}]
    /\ version \in Nat

\* A request is decided once: of two parents (or two tabs) that both read it
\* pending, the second cannot turn the recorded decision round.
DecidedOnce ==
    [][\A i \in DOMAIN requests :
          /\ i \in DOMAIN requests'
          /\ requests[i].status \in Decisions =>
                requests'[i].status \in {requests[i].status, "deleted"}]_vars

\* A request is never shown as approved before the agent can learn of it: the
\* step that approves it also leaves an allow rule and moves the version.
ApprovalTakesEffect ==
    [][\A i \in DOMAIN requests :
          requests[i].status = "pending" /\ requests'[i].status = "approved" =>
              LET d == requests[i].domain IN
              /\ version' > version
              /\ rules'[d] = "allow"]_vars

\* While the agent waits for a POST, that POST is about the head of its queue:
\* an answer, however late, never removes a request that was not sent.
AwaitedIsHead ==
    waiting # None => /\ queue # <<>>
                      /\ post[waiting] # Free
                      /\ post[waiting].domain = Head(queue)

Inserting(d) == {p \in Posts : post[p].pc = "insert" /\ post[p].domain = d}

\* However often the child asks, a domain has no more pending requests than POSTs
\* were under way at once (one, if none overlapped): the check for a pending
\* request and the insert are two statements, and overlapping POSTs all pass it.
PendingBounded ==
    \A d \in Domains :
        Cardinality(Pending(d)) + Cardinality(Inserting(d)) <= Cardinality(Posts)

\* parent.ts answers 409 already_resolved to a decision on a request that is no
\* longer pending: no rule for the domain of a denied request is written by it.
DenialLeavesRuleAlone ==
    [][\A d \in Domains, h \in Resolvers :
          resolve[h].pc = "write" /\ resolve'[h].pc = "idle" /\ rules'[d] # rules[d] =>
              requests[resolve[h].id].status # "denied"]_vars

-----------------------------------------------------------------------------
\* The answer of the POST that the agent awaits is under way.
Acknowledged == IF waiting = None THEN FALSE ELSE post[waiting].pc = "done"

\* The inbox these messages make up.
Asked == INSTANCE Inbox WITH
    Sites    <- Domains,
    Copies   <- Cardinality(Posts),
    asked    <- queue,
    noted    <- Acknowledged,
    list     <- requests,
    rule     <- rules,
    revision <- version

\* Through uploads that time out while their handler runs on, late and duplicate
\* answers and two-statement handlers that overlap, a question leaves the queue
\* only after a parent could see it open while it was the oldest, and is decided
\* once, with the rule and the version that tell the agent (UploadAccessRequests,
\* POST /access-requests, POST /requests/:id/resolve).
ImplementsInbox == Asked!InboxSpec

=============================================================================
