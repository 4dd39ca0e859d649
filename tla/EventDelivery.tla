--------------------------- MODULE EventDelivery ---------------------------
(***************************************************************************)
(* What an enrolled PC reports: the events it has seen and that it is      *)
(* alive.                                                                  *)
(*                                                                         *)
(* EventQueue is a FIFO in memory that drops its head above a limit.  Once *)
(* per sync the loop peeks a batch, posts it under a fresh idempotency key,*)
(* removes as many events as it has sent when the answer is a success, and *)
(* then sends a heartbeat.  The cron of the worker looks for devices that  *)
(* have been silent too long, marks them offline and mails the parent;     *)
(* nothing keeps one of its runs from starting before the last is through. *)
(* The device is one that nobody revokes meanwhile, in a household of one  *)
(* parent.                                                                 *)
(***************************************************************************)
EXTENDS Integers, FiniteSets

CONSTANTS
    Adders,       \* threads that may be inside EventQueue.Add
    Posts,        \* POST /events invocations that may run at once
    None,         \* no POST awaited
    Limit,        \* events the queue holds (50,000)
    Batch,        \* events peeked for one upload (100)
    Refused,      \* events that eventBatchSchema does not accept
    OfflineAfter, \* clock units without a heartbeat before the alert (15 min)
    Overlap,      \* bound: scans of the cron that are under way at once
    MaxEvents     \* bound: events recorded

ASSUME DeliveryAssumption ==
    /\ Limit \in Nat /\ Batch \in Nat \ {0}
    /\ OfflineAfter \in Nat /\ Overlap \in Nat \ {0} /\ MaxEvents \in Nat
    /\ None \notin Posts
    /\ IsFiniteSet(Adders)

VARIABLES
    first, last,  \* EventQueue: events are numbered as they come, it holds first..last
    adder,        \* Adders -> where a thread is in Add
    loop,         \* the upload loop: where it is, the POST awaited, events sent
    post,         \* Posts -> handler of POST /events: where it is, its key and events
    keys,         \* idempotency_keys, each named by the POST it was made for
    stored,       \* events
    taken,        \* history: events that left the queue since the service started
    trimmed,      \* history: how many of them Add dropped
    beat,         \* a heartbeat is on its way
    silence,      \* time since last_seen_at, as far as the scan can tell
    alerted,      \* offline_alerted_at is set
    offline,      \* status is offline
    scans,        \* scans of the cron that have found the PC and not yet updated it
    alerts        \* history: alerts raised since the last heartbeat

queue == <<first, last, taken, trimmed>>
cloud == <<post, keys, stored>>
watch == <<beat, silence, alerted, offline, scans, alerts>>
vars  == <<queue, adder, loop, cloud, watch>>

Smaller(x, y) == IF x < y THEN x ELSE y
Held == last - first + 1

Resting == [pc |-> "rest", post |-> None, sent |-> 0]
Free    == [pc |-> "idle", key |-> None, events |-> {}]

Init ==
    /\ first = 1 /\ last = 0
    /\ adder = [a \in Adders |-> "idle"]
    /\ loop = Resting
    /\ post = [p \in Posts |-> Free]
    /\ keys = {} /\ stored = {}
    /\ taken = {} /\ trimmed = 0
    /\ beat = FALSE /\ silence = 0
    /\ alerted = FALSE /\ offline = FALSE
    /\ scans = 0 /\ alerts = 0

-----------------------------------------------------------------------------
\* EventQueue

\* Mutant of Dequeue: removes past the end.
DequeueBlindly(n) ==
    /\ first' = first + n
    /\ taken' = taken \cup (first..(first + n - 1))

\* TryDequeue n times; an empty queue stays empty.
Dequeue(n) ==
    LET k == Smaller(n, Held) IN
    /\ first' = first + k
    /\ taken' = taken \cup (first..(first + k - 1))

\* Navigation, Blocked: Add enqueues ...
Enqueue(a) ==
    /\ adder[a] = "idle"
    /\ last < MaxEvents
    /\ last' = last + 1
    /\ adder' = [adder EXCEPT ![a] = "count"]
    /\ UNCHANGED <<first, taken, trimmed, loop, cloud, watch>>

\* Mutant of Count: one event too many is let through.
CountOffByOne(a) ==
    /\ adder[a] = "count"
    /\ adder' = [adder EXCEPT ![a] = IF Held > Limit + 1 THEN "trim" ELSE "idle"]
    /\ UNCHANGED <<queue, loop, cloud, watch>>

\* ... then compares the count with the limit ...
Count(a) ==
    /\ adder[a] = "count"
    /\ adder' = [adder EXCEPT ![a] = IF Held > Limit THEN "trim" ELSE "idle"]
    /\ UNCHANGED <<queue, loop, cloud, watch>>

\* ... and drops the head, which another thread may have done meanwhile.
Trim(a) ==
    /\ adder[a] = "trim"
    /\ Dequeue(1)
    /\ trimmed' = trimmed + Smaller(1, Held)
    /\ adder' = [adder EXCEPT ![a] = "count"]
    /\ UNCHANGED <<last, loop, cloud, watch>>

\* The queue is in memory only, and its threads are gone with the process.
Restart ==
    /\ first' = last + 1
    /\ adder' = [a \in Adders |-> "idle"]
    /\ loop' = Resting
    /\ taken' = {} /\ trimmed' = 0
    /\ UNCHANGED <<last, cloud, watch>>

-----------------------------------------------------------------------------
\* UploadEvents, and the heartbeat after it

\* An empty queue is not uploaded.
UploadNothing ==
    /\ loop.pc = "rest"
    /\ Held = 0
    /\ loop' = [loop EXCEPT !.pc = "beat"]
    /\ UNCHANGED <<queue, adder, cloud, watch>>

\* A batch is posted under a key of its own; every retry makes a new key.
Upload(p) ==
    LET n == Smaller(Batch, Held) IN
    /\ loop.pc = "rest"
    /\ n > 0
    /\ \A q \in Posts : post[q].key # p
    /\ post[p] = Free
    /\ loop' = [pc |-> "await", post |-> p, sent |-> n]
    /\ post' = [post EXCEPT ![p] =
                  [pc |-> "look", key |-> p, events |-> first..(first + n - 1)]]
    /\ keys' = keys \ {p}
    /\ UNCHANGED <<queue, adder, stored, watch>>

\* Mutant of UploadAnswered: any answer empties the batch.
UploadAnsweredAnyhow(p) ==
    /\ post[p].pc \in {"accepted", "failed"}
    /\ post' = [post EXCEPT ![p] = Free]
    /\ IF loop.post = post[p].key
       THEN loop' = [Resting EXCEPT !.pc = "beat"] /\ Dequeue(loop.sent)
       ELSE UNCHANGED <<loop, first, taken>>
    /\ UNCHANGED <<last, trimmed, adder, keys, stored, watch>>

\* The first answer that reaches the loop counts: a success removes as many
\* events from the head as were sent, any other status removes none.
UploadAnswered(p) ==
    /\ post[p].pc \in {"accepted", "failed"}
    /\ post' = [post EXCEPT ![p] = Free]
    /\ loop' = IF loop.post = post[p].key THEN [Resting EXCEPT !.pc = "beat"] ELSE loop
    /\ IF loop.post = post[p].key /\ post[p].pc = "accepted"
       THEN Dequeue(loop.sent)
       ELSE UNCHANGED <<first, taken>>
    /\ UNCHANGED <<last, trimmed, adder, keys, stored, watch>>

\* The client gives up (15 s) or loses the connection, here or while it uploads
\* access requests: the sync is abandoned, heartbeat included, and the handler, if
\* it was reached, runs on.
UploadTimesOut ==
    /\ loop.pc # "rest"
    /\ loop' = Resting
    /\ UNCHANGED <<queue, adder, cloud, watch>>

SendHeartbeat ==
    /\ loop.pc = "beat"
    /\ loop' = Resting
    /\ beat' = TRUE
    /\ UNCHANGED <<queue, adder, cloud, silence, alerted, offline, scans, alerts>>

-----------------------------------------------------------------------------
\* POST /events

\* The request reaches the worker a second time, with the same key.
Retransmit(p, q) ==
    /\ loop.pc = "await" /\ loop.post = p
    /\ post[p].key = p
    /\ post[q] = Free
    /\ post' = [post EXCEPT ![q] = [post[p] EXCEPT !.pc = "look"]]
    /\ UNCHANGED <<queue, adder, loop, keys, stored, watch>>

\* A known key is answered "duplicate", which is a success too.
PostLook(p) ==
    /\ post[p].pc = "look"
    /\ post[p].events \cap Refused = {}
    /\ post' = [post EXCEPT ![p].pc = IF post[p].key \in keys THEN "accepted" ELSE "write"]
    /\ UNCHANGED <<queue, adder, loop, keys, stored, watch>>

\* Events (INSERT OR IGNORE on their ids) and key go in with one batch; a key
\* that another copy has recorded meanwhile fails all of it.
PostWrite(p) ==
    /\ post[p].pc = "write"
    /\ post[p].key \notin keys
    /\ stored' = stored \cup post[p].events
    /\ keys' = keys \cup {post[p].key}
    /\ post' = [post EXCEPT ![p].pc = "accepted"]
    /\ UNCHANGED <<queue, adder, loop, watch>>

\* Refused by the schema (400), failed by the primary key, or any other fault
PostFails(p) ==
    /\ post[p].pc \in {"look", "write"}
    /\ post' = [post EXCEPT ![p].pc = "failed"]
    /\ UNCHANGED <<queue, adder, loop, keys, stored, watch>>

-----------------------------------------------------------------------------
\* POST /heartbeat, and the offline scan of the cron

\* Mutant of HeartbeatArrives: the alert of the former silence stays set.
HeartbeatKeepsAlert ==
    /\ beat
    /\ beat' = FALSE
    /\ silence' = 0 /\ offline' = FALSE /\ alerts' = 0
    /\ UNCHANGED <<queue, adder, loop, cloud, alerted, scans>>

HeartbeatArrives ==
    /\ beat
    /\ beat' = FALSE
    /\ silence' = 0 /\ offline' = FALSE /\ alerted' = FALSE /\ alerts' = 0
    /\ UNCHANGED <<queue, adder, loop, cloud, scans>>

HeartbeatLost ==
    /\ beat
    /\ beat' = FALSE
    /\ UNCHANGED <<queue, adder, loop, cloud, silence, alerted, offline, scans, alerts>>

Tick ==
    /\ silence <= OfflineAfter
    /\ silence' = silence + 1
    /\ UNCHANGED <<queue, adder, loop, cloud, beat, alerted, offline, scans, alerts>>

\* A run of the cron SELECTs the PC: silent too long, and no alert set.
ScanSelect ==
    /\ scans < Overlap
    /\ silence > OfflineAfter
    /\ ~alerted
    /\ scans' = scans + 1
    /\ UNCHANGED <<queue, adder, loop, cloud, beat, silence, alerted, offline, alerts>>

\* Mutant of ScanUpdate: only the status is written.
ScanUpdateStatusOnly ==
    /\ scans > 0
    /\ scans' = scans - 1
    /\ offline' = (offline \/ ~alerted)
    /\ alerts' = alerts + 1
    /\ UNCHANGED <<queue, adder, loop, cloud, beat, silence, alerted>>

\* The UPDATE guards itself on the alert; the mail goes out in any case, whatever
\* another scan or a heartbeat has written since the SELECT.
ScanUpdate ==
    /\ scans > 0
    /\ scans' = scans - 1
    /\ offline' = (offline \/ ~alerted)
    /\ alerted' = TRUE
    /\ alerts' = alerts + 1
    /\ UNCHANGED <<queue, adder, loop, cloud, beat, silence>>

\* The scheduled invocation ends between the two statements.
ScanDies ==
    /\ scans > 0
    /\ scans' = scans - 1
    /\ UNCHANGED <<queue, adder, loop, cloud, beat, silence, alerted, offline, alerts>>

-----------------------------------------------------------------------------
Next ==
    \/ \E a \in Adders : Enqueue(a) \/ Count(a) \/ Trim(a)
    \/ Restart
    \/ UploadNothing \/ UploadTimesOut \/ SendHeartbeat
    \/ \E p \in Posts :
          \/ Upload(p) \/ UploadAnswered(p)
          \/ PostLook(p) \/ PostWrite(p) \/ PostFails(p)
          \/ \E q \in Posts : Retransmit(p, q)
    \/ HeartbeatArrives \/ HeartbeatLost \/ Tick
    \/ ScanSelect \/ ScanUpdate \/ ScanDies

\* The cron fires every five minutes and not every one of its runs dies.
ScanFairness == WF_vars(ScanSelect) /\ SF_vars(ScanUpdate)

Spec == Init /\ [][Next]_vars /\ ScanFairness

-----------------------------------------------------------------------------
\* A handler has a key and events that were recorded.
PostOK ==
    /\ post \in [Posts -> [pc : {"idle", "look", "write", "accepted", "failed"},
                           key : Posts \cup {None}, events : SUBSET (1..last)]]
    /\ \A p \in Posts : post[p].pc # "idle" => post[p].key # None

\* Type invariant
TypeOK ==
    /\ first \in 1..(MaxEvents + 1)
    /\ last \in 0..MaxEvents
    /\ Held >= 0
    /\ adder \in [Adders -> {"idle", "count", "trim"}]
    /\ loop \in [pc : {"rest", "await", "beat"}, post : Posts \cup {None}, sent : 0..Batch]
    /\ PostOK
    /\ keys \subseteq Posts
    /\ stored \subseteq 1..last
    /\ taken \subseteq 1..(first - 1)
    /\ trimmed \in Nat
    /\ beat \in BOOLEAN
    /\ silence \in 0..(OfflineAfter + 1)
    /\ alerted \in BOOLEAN /\ offline \in BOOLEAN
    /\ scans \in 0..Overlap
    /\ alerts \in Nat

\* Remove(n) takes n events from whatever the head is by then.  Nevertheless,
\* with trims, lost answers, copies and failures, no more events leave the queue
\* without being stored than the overflow has dropped: a queue that stays below
\* its limit loses nothing but to a restart (EventQueue.Remove, UploadEvents,
\* POST /events).
OverflowCost == Cardinality(taken \ stored) <= trimmed

\* Count and TryDequeue are separate calls of every adding thread; still the queue
\* is over its limit by no more than the threads that have yet to finish Add.
QueueBounded == Held <= Limit + Cardinality({a \in Adders : adder[a] # "idle"})

\* One silence of a PC raises no more alerts than scans overlap, whatever heartbeat
\* they raced: a scan that SELECTs after an UPDATE finds nothing, but each that was
\* under way sends its mail (runScheduled, POST /heartbeat).
AlertsBounded == alerts <= Overlap

\* A PC that has gone silent is shown as offline unless it reports again, also
\* after false alarms and after runs of the cron that died (runScheduled, POST
\* /heartbeat).
SilenceShown == (silence > OfflineAfter) ~> (offline \/ silence = 0)

=============================================================================
