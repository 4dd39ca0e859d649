------------------------- MODULE EventDeliveryProofs -------------------------
(***************************************************************************)
(* Proofs about EventDelivery, for any limit, batch and number of threads, *)
(* overlapping uploads and events.                                         *)
(***************************************************************************)
EXTENDS EventDelivery, FiniteSetTheorems, TLAPS

LEMMA SmallerFacts ==
    ASSUME NEW x \in Int, NEW y \in Int
    PROVE  /\ Smaller(x, y) \in {x, y}
           /\ Smaller(x, y) <= x /\ Smaller(x, y) <= y
BY DEF Smaller

\* Facts of arithmetic
LEMMA ShorterRange ==
    ASSUME NEW l \in Int, NEW f \in Int, NEW g \in Int, f <= g
    PROVE  l - g + 1 <= l - f + 1
OBVIOUS

LEMMA MoreBy ==
    ASSUME NEW u \in Nat, NEW i \in Int, NEW v \in Nat, NEW j \in Int, NEW t \in Nat,
           NEW f \in Int, NEW g \in Int, u + i <= t, v + j <= u + i + (g - f)
    PROVE  v + j <= t + (g - f)
OBVIOUS

LEMMA LessLeft ==
    ASSUME NEW u \in Nat, NEW v \in Nat, NEW i \in Int, NEW t \in Nat, u + i <= t, v <= u
    PROVE  v + i <= t
OBVIOUS

LEMMA RangeWithin ==
    ASSUME NEW f \in Nat, NEW g \in Nat, NEW n \in Nat, f <= g, g <= f + n
    PROVE  (IF f > g - 1 THEN 0 ELSE (g - 1) - f + 1) <= n
OBVIOUS

LEMMA RangeBeyond ==
    ASSUME NEW f \in Nat, NEW g \in Nat, NEW n \in Nat, NEW b \in Nat, b <= f, g <= f + n
    PROVE  (IF b + n > g - 1 THEN 0 ELSE (g - 1) - (b + n) + 1) <= f - b
OBVIOUS

LEMMA BeyondBatch ==
    ASSUME NEW f \in Nat, NEW g \in Nat, NEW n \in Nat, NEW b \in Nat, b <= f,
           NEW e \in f..(g - 1), e \notin b..(b + n - 1)
    PROVE  e \in (IF f >= b + n THEN f ELSE b + n)..(g - 1)
OBVIOUS

\* Dequeue takes no more than is there, and keeps the history in step.
LEMMA DequeueTyped ==
    ASSUME TypeOK, NEW n \in Nat, Dequeue(n), last' = last
    PROVE  /\ first' \in 1..(MaxEvents + 1)
           /\ first <= first' /\ first' <= last + 1 /\ first' <= first + n
           /\ taken' = taken \cup (first..(first' - 1))
           /\ taken' \subseteq 1..(first' - 1)
<1> USE DeliveryAssumption DEF TypeOK
<1>1. Held \in Nat
  BY DEF Held
<1>2. PICK k \in Nat : k = Smaller(n, Held) /\ k <= n /\ k <= Held
  BY <1>1, SmallerFacts
<1>3. first' = first + k /\ taken' = taken \cup (first..(first + k - 1))
  BY <1>2 DEF Dequeue
<1>4. /\ first' \in 1..(MaxEvents + 1)
      /\ first <= first' /\ first' <= last + 1 /\ first' <= first + n
  BY <1>2, <1>3 DEF Held
<1>5. taken' = taken \cup (first..(first' - 1))
  BY <1>2, <1>3
<1>6. taken' \subseteq 1..(first' - 1)
  <2> SUFFICES ASSUME NEW x \in taken' PROVE x \in 1..(first' - 1)
    OBVIOUS
  <2>1. x \in 1..(first - 1) \/ x \in first..(first' - 1)
    BY <1>5
  <2> QED BY <1>4, <2>1
<1> QED BY <1>4, <1>5, <1>6

\* A handler that moves on keeps its key and its events.
LEMMA PostTyped ==
    ASSUME TypeOK, NEW p \in Posts, post[p].pc # "idle",
           NEW pc \in {"look", "write", "accepted", "failed"},
           post' = [post EXCEPT ![p].pc = pc], last' = last
    PROVE  /\ PostOK'
           /\ post'[p].pc = pc
           /\ \A q \in Posts : post'[q].key = post[q].key /\ post'[q].events = post[q].events
           /\ \A q \in Posts : q # p => post'[q] = post[q]
BY DEF TypeOK, PostOK

\* A handler is replaced by one that is free or has a key and events.
LEMMA PostReplaced ==
    ASSUME TypeOK, NEW p \in Posts, last' = last,
           NEW r \in [pc : {"idle", "look", "write", "accepted", "failed"},
                      key : Posts \cup {None}, events : SUBSET (1..last)],
           r.pc # "idle" => r.key # None, post' = [post EXCEPT ![p] = r]
    PROVE  PostOK'
BY DEF TypeOK, PostOK

LEMMA FreeTyped ==
    /\ Free \in [pc : {"idle", "look", "write", "accepted", "failed"},
                 key : Posts \cup {None}, events : SUBSET (1..last)]
    /\ Free.pc = "idle" /\ Free.key = None
BY DEF Free

LEMMA RestingTyped ==
    /\ \A pc \in {"rest", "beat"} :
          /\ [Resting EXCEPT !.pc = pc] \in
                [pc : {"rest", "await", "beat"}, post : Posts \cup {None}, sent : 0..Batch]
          /\ [Resting EXCEPT !.pc = pc].post = None
          /\ [Resting EXCEPT !.pc = pc].pc = pc
    /\ Resting \in [pc : {"rest", "await", "beat"}, post : Posts \cup {None}, sent : 0..Batch]
    /\ Resting.post = None /\ Resting.pc = "rest"
<1>1. /\ Resting \in [pc : {"rest", "await", "beat"}, post : Posts \cup {None}, sent : 0..Batch]
      /\ Resting.post = None /\ Resting.pc = "rest"
  BY DeliveryAssumption DEF Resting
<1> QED BY <1>1

\* Every variable keeps its type; nothing is counted as stored or taken that was
\* not recorded or not removed.
THEOREM TypeCorrect == Spec => []TypeOK
<1> USE DeliveryAssumption
<1>1. Init => TypeOK
  <2> SUFFICES ASSUME Init PROVE TypeOK
    OBVIOUS
  <2>1. PostOK
    BY FreeTyped DEF Init, PostOK
  <2>2. loop \in [pc : {"rest", "await", "beat"}, post : Posts \cup {None}, sent : 0..Batch]
    BY RestingTyped DEF Init
  <2>3. first = 1 /\ last = 0 /\ taken = {} /\ stored = {} /\ keys = {} /\ trimmed = 0
    BY DEF Init
  <2>4. adder \in [Adders -> {"idle", "count", "trim"}]
    BY DEF Init
  <2>5. /\ beat = FALSE /\ silence = 0 /\ alerted = FALSE /\ offline = FALSE
        /\ scans = 0 /\ alerts = 0
    BY DEF Init
  <2>7. /\ first \in 1..(MaxEvents + 1) /\ last \in 0..MaxEvents /\ Held >= 0
        /\ stored \subseteq 1..last /\ taken \subseteq 1..(first - 1)
    BY <2>3 DEF Held
  <2>8. silence \in 0..(OfflineAfter + 1) /\ scans \in 0..Overlap /\ alerts \in Nat
    BY <2>5
  <2>10. beat \in BOOLEAN /\ alerted \in BOOLEAN /\ offline \in BOOLEAN
    BY <2>5, Zenon
  <2>9. keys \subseteq Posts /\ trimmed \in Nat
    BY <2>3
  <2> QED BY <2>1, <2>2, <2>4, <2>7, <2>8, <2>9, <2>10 DEF TypeOK
<1>2. TypeOK /\ [Next]_vars => TypeOK'
  <2> SUFFICES ASSUME TypeOK, [Next]_vars PROVE TypeOK'
    OBVIOUS
  <2> USE DEF TypeOK
  <2>1. ASSUME NEW a \in Adders, Enqueue(a) PROVE TypeOK'
    <3>1. last' = last + 1 /\ last' \in 0..MaxEvents /\ UNCHANGED <<first, taken, trimmed>>
      BY <2>1 DEF Enqueue
    <3>2. 1..last \subseteq 1..last'
      BY <3>1
    <3>3. PostOK'
      BY <2>1, <3>2 DEF Enqueue, cloud, PostOK
    <3>4. adder' \in [Adders -> {"idle", "count", "trim"}]
      BY <2>1 DEF Enqueue
    <3>5. stored' \subseteq 1..last' /\ keys' = keys /\ loop' = loop
      BY <2>1, <3>2 DEF Enqueue, cloud
    <3>6. UNCHANGED watch
      BY <2>1 DEF Enqueue
    <3> QED BY <3>1, <3>3, <3>4, <3>5, <3>6 DEF Held, watch
  <2>2. ASSUME NEW a \in Adders, Count(a) PROVE TypeOK'
    BY <2>2 DEF Count, queue, cloud, PostOK, watch, Held
  <2>3. ASSUME NEW a \in Adders, Trim(a) PROVE TypeOK'
    <3>1. adder' \in [Adders -> {"idle", "count", "trim"}]
          /\ UNCHANGED <<last, loop, cloud, watch>>
      BY <2>3 DEF Trim
    <3>2. Dequeue(1)
      BY <2>3 DEF Trim
    <3>3. trimmed' \in Nat
      <4>1. Held \in Nat
        BY DEF Held
      <4>2. Smaller(1, Held) \in Nat
        BY <4>1, SmallerFacts
      <4> QED BY <2>3, <4>2 DEF Trim
    <3> QED BY <3>1, <3>2, <3>3, DequeueTyped DEF cloud, watch, Held, PostOK
  <2>4. CASE Restart
    BY <2>4, RestingTyped DEF Restart, cloud, PostOK, watch, Held
  <2>5. CASE UploadNothing
    BY <2>5 DEF UploadNothing, queue, cloud, PostOK, watch, Held
  <2>6. ASSUME NEW p \in Posts, Upload(p) PROVE TypeOK'
    <3>1. PICK n \in 0..Batch : n = Smaller(Batch, Held) /\ n <= Held
      BY SmallerFacts DEF Held
    <3>2. first..(first + n - 1) \subseteq 1..last
      BY <3>1 DEF Held
    <3>3. loop' = [pc |-> "await", post |-> p, sent |-> n]
      BY <2>6, <3>1 DEF Upload
    <3>4. post' = [post EXCEPT ![p] = [pc |-> "look", key |-> p, events |-> first..(first + n - 1)]]
      BY <2>6, <3>1 DEF Upload
    <3>5. UNCHANGED <<queue, adder, stored, watch>> /\ keys' \subseteq Posts
      BY <2>6 DEF Upload
    <3>6. PostOK'
      BY <3>2, <3>4, <3>5, PostReplaced DEF queue
    <3>7. loop' \in [pc : {"rest", "await", "beat"}, post : Posts \cup {None}, sent : 0..Batch]
      BY <3>3
    <3> QED BY <3>5, <3>6, <3>7 DEF queue, watch, Held
  <2>7. ASSUME NEW p \in Posts, UploadAnswered(p) PROVE TypeOK'
    <3>1. PostOK'
      BY <2>7, FreeTyped, PostReplaced DEF UploadAnswered
    <3>2. loop' \in [pc : {"rest", "await", "beat"}, post : Posts \cup {None}, sent : 0..Batch]
      BY <2>7, RestingTyped DEF UploadAnswered
    <3>3. UNCHANGED <<last, trimmed, adder, keys, stored, watch>>
      BY <2>7 DEF UploadAnswered
    <3>4. CASE Dequeue(loop.sent)
      BY <3>1, <3>2, <3>3, <3>4, DequeueTyped DEF watch, Held
    <3>5. CASE UNCHANGED <<first, taken>>
      BY <3>1, <3>2, <3>3, <3>5 DEF watch, Held
    <3> QED BY <2>7, <3>4, <3>5 DEF UploadAnswered
  <2>8. CASE UploadTimesOut
    BY <2>8, RestingTyped DEF UploadTimesOut, queue, cloud, PostOK, watch, Held
  <2>9. CASE SendHeartbeat
    BY <2>9, RestingTyped DEF SendHeartbeat, queue, cloud, PostOK, Held
  <2>10. ASSUME NEW p \in Posts, NEW q \in Posts, Retransmit(p, q) PROVE TypeOK'
    <3>1. post' = [post EXCEPT ![q] = [post[p] EXCEPT !.pc = "look"]] /\ post[p].key = p
          /\ UNCHANGED <<queue, adder, loop, keys, stored, watch>>
      BY <2>10 DEF Retransmit
    <3>2. PostOK'
      <4>1. [post[p] EXCEPT !.pc = "look"] \in
               [pc : {"idle", "look", "write", "accepted", "failed"},
                key : Posts \cup {None}, events : SUBSET (1..last)]
            /\ [post[p] EXCEPT !.pc = "look"].key = post[p].key
        BY DEF PostOK
      <4> QED BY <3>1, <4>1, PostReplaced DEF queue
    <3> QED BY <3>1, <3>2 DEF queue, watch, Held
  <2>11. ASSUME NEW p \in Posts, PostLook(p) PROVE TypeOK'
    <3>1. CASE post[p].key \in keys
      BY <2>11, <3>1, PostTyped DEF PostLook, queue, watch, Held
    <3>2. CASE post[p].key \notin keys
      BY <2>11, <3>2, PostTyped DEF PostLook, queue, watch, Held
    <3> QED BY <3>1, <3>2
  <2>12. ASSUME NEW p \in Posts, PostWrite(p) PROVE TypeOK'
    <3>1. stored' = stored \cup post[p].events /\ keys' = keys \cup {post[p].key}
          /\ post[p].key \notin keys /\ UNCHANGED <<queue, adder, loop, watch>>
      BY <2>12 DEF PostWrite
    <3>2. post[p].events \subseteq 1..last /\ post[p].key \in Posts
      BY <2>12 DEF PostWrite, PostOK
    <3> QED BY <2>12, <3>1, <3>2, PostTyped DEF PostWrite, queue, watch, Held
  <2>13. ASSUME NEW p \in Posts, PostFails(p) PROVE TypeOK'
    BY <2>13, PostTyped DEF PostFails, queue, watch, Held
  <2>14. CASE HeartbeatArrives \/ HeartbeatLost \/ Tick \/ ScanSelect \/ ScanUpdate \/ ScanDies
    <3>1. UNCHANGED <<queue, adder, loop, cloud>>
      BY <2>14 DEF HeartbeatArrives, HeartbeatLost, Tick, ScanSelect, ScanUpdate, ScanDies
    <3>2. silence' \in 0..(OfflineAfter + 1) /\ alerts' \in Nat
      BY <2>14 DEF HeartbeatArrives, HeartbeatLost, Tick, ScanSelect, ScanUpdate, ScanDies
    <3>3. beat' \in BOOLEAN /\ alerted' \in BOOLEAN /\ offline' \in BOOLEAN
      BY <2>14 DEF HeartbeatArrives, HeartbeatLost, Tick, ScanSelect, ScanUpdate, ScanDies
    <3>4. scans' \in 0..Overlap
      BY <2>14 DEF HeartbeatArrives, HeartbeatLost, Tick, ScanSelect, ScanUpdate, ScanDies
    <3> QED BY <3>1, <3>2, <3>3, <3>4 DEF queue, cloud, PostOK, Held
  <2>15. CASE UNCHANGED vars
    BY <2>15 DEF vars, queue, cloud, PostOK, watch, Held
  <2> QED
    BY <2>1, <2>2, <2>3, <2>4, <2>5, <2>6, <2>7, <2>8, <2>9, <2>10, <2>11, <2>12, <2>13,
       <2>14, <2>15 DEF Next
<1> QED BY <1>1, <1>2, PTL DEF Spec

-----------------------------------------------------------------------------
\* An alert was sent by a scan that was under way when the first of them set
\* offline_alerted_at: later ones find nothing.
AlertInv ==
    /\ scans \in 0..Overlap /\ alerts \in Nat
    /\ alerts + scans <= Overlap
    /\ ~alerted => alerts = 0

\* However scans and heartbeats interleave, one silence raises no more alerts than
\* there are scans under way at once.
THEOREM AlertsStayBounded == Spec => []AlertsBounded
<1>1. Init => AlertInv
  BY DeliveryAssumption DEF Init, AlertInv
<1>2. AlertInv /\ [Next]_vars => AlertInv'
  <2> SUFFICES ASSUME AlertInv, [Next]_vars PROVE AlertInv'
    OBVIOUS
  <2> USE DeliveryAssumption DEF AlertInv
  <2>1. CASE HeartbeatArrives
    BY <2>1 DEF HeartbeatArrives
  <2>2. CASE ScanSelect
    BY <2>2 DEF ScanSelect
  <2>3. CASE ScanUpdate
    BY <2>3 DEF ScanUpdate
  <2>4. CASE ScanDies
    BY <2>4 DEF ScanDies
  <2>5. CASE UNCHANGED <<alerted, scans, alerts>>
    BY <2>5
  <2> QED
    BY <2>1, <2>2, <2>3, <2>4, <2>5
    DEF Next, vars, watch, Enqueue, Count, Trim, Restart, UploadNothing, UploadTimesOut,
        SendHeartbeat, Upload, UploadAnswered, PostLook, PostWrite, PostFails, Retransmit,
        HeartbeatLost, Tick
<1>3. AlertInv => AlertsBounded
  BY DeliveryAssumption DEF AlertInv, AlertsBounded
<1> QED BY <1>1, <1>2, <1>3, PTL DEF Spec

ScansAlone == scans <= 1
OneAlertPerSilence == alerts <= 1

\* A scan that has found a PC silent, like one that is yet to find it, has the
\* alert of this silence still before it.
AloneInv ==
    /\ scans \in Nat
    /\ OneAlertPerSilence
    /\ scans > 0 \/ ~alerted => alerts = 0

\* Only scans that overlap mail one silence twice: as long as each is through with
\* a PC before the next one starts, a silence raises one alert, in every race of
\* the scan with a heartbeat and after every scan that died.
THEOREM OnlyOverlapsRepeatAlerts == Spec /\ []ScansAlone => []OneAlertPerSilence
<1>1. Init => AloneInv
  BY DEF Init, AloneInv, OneAlertPerSilence
<1>2. ScansAlone /\ AloneInv /\ [Next]_vars => AloneInv'
  <2> SUFFICES ASSUME ScansAlone, AloneInv, [Next]_vars PROVE AloneInv'
    OBVIOUS
  <2> USE DEF ScansAlone, AloneInv, OneAlertPerSilence
  <2>1. CASE HeartbeatArrives
    BY <2>1 DEF HeartbeatArrives
  <2>2. CASE ScanSelect
    BY <2>2 DEF ScanSelect
  <2>3. CASE ScanUpdate
    BY <2>3 DEF ScanUpdate
  <2>4. CASE ScanDies
    BY <2>4 DEF ScanDies
  <2>5. CASE UNCHANGED <<alerted, scans, alerts>>
    BY <2>5
  <2> QED
    BY <2>1, <2>2, <2>3, <2>4, <2>5
    DEF Next, vars, watch, Enqueue, Count, Trim, Restart, UploadNothing, UploadTimesOut,
        SendHeartbeat, Upload, UploadAnswered, PostLook, PostWrite, PostFails, Retransmit,
        HeartbeatLost, Tick
<1>3. AloneInv => OneAlertPerSilence
  BY DEF AloneInv
<1> QED BY <1>1, <1>2, <1>3, PTL DEF Spec

-----------------------------------------------------------------------------
Adding == {a \in Adders : adder[a] # "idle"}

LEMMA AddingFinite ==
    IsFiniteSet(Adding) /\ Cardinality(Adding) \in Nat
BY DeliveryAssumption, FS_Subset, FS_CardinalityType DEF Adding

\* Every event above the limit has a thread inside Add that will come to see it.
THEOREM QueueStaysBounded == Spec => []QueueBounded
<1> USE DeliveryAssumption
<1>1. Init => QueueBounded
  <2> SUFFICES ASSUME Init PROVE QueueBounded
    OBVIOUS
  <2>1. Held = 0
    BY DEF Init, Held
  <2> QED BY <2>1, AddingFinite DEF QueueBounded, Adding
<1>2. TypeOK /\ TypeOK' /\ QueueBounded /\ [Next]_vars => QueueBounded'
  <2> SUFFICES ASSUME TypeOK, TypeOK', QueueBounded, [Next]_vars PROVE QueueBounded'
    OBVIOUS
  <2>0. /\ Held <= Limit + Cardinality(Adding)
        /\ Held' <= Limit + Cardinality(Adding)' => QueueBounded'
        /\ Held \in Nat /\ Held' \in Nat
    <3>1. first \in Int /\ last \in Int /\ first' \in Int /\ last' \in Int
      BY DEF TypeOK
    <3>2. Held \in Int /\ Held' \in Int
      BY <3>1 DEF Held
    <3>3. Held >= 0 /\ Held' >= 0
      BY DEF TypeOK
    <3>4. /\ Held <= Limit + Cardinality(Adding)
          /\ Held' <= Limit + Cardinality(Adding)' => QueueBounded'
      BY DEF QueueBounded, Adding
    <3> QED BY <3>2, <3>3, <3>4
  <2>1. IsFiniteSet(Adding) /\ Cardinality(Adding) \in Nat /\ Cardinality(Adding)' \in Nat
    <3>1. IsFiniteSet(Adding) /\ IsFiniteSet(Adding')
      BY FS_Subset DEF Adding
    <3> QED BY <3>1, FS_CardinalityType
  <2>2. ASSUME NEW a \in Adders, Enqueue(a) PROVE QueueBounded'
    <3>1. a \notin Adding /\ Adding' = Adding \cup {a}
      BY <2>2 DEF Enqueue, Adding, TypeOK
    <3>2. Cardinality(Adding)' = Cardinality(Adding) + 1
      BY <2>1, <3>1, FS_AddElement
    <3>3. Held' = Held + 1
      BY <2>2 DEF Enqueue, Held, TypeOK
    <3> QED BY <2>0, <2>1, <3>2, <3>3
  <2>3. ASSUME NEW a \in Adders, Count(a) PROVE QueueBounded'
    <3>1. UNCHANGED <<first, last>>
      BY <2>3 DEF Count, queue
    <3>2. CASE Held > Limit
      <4>1. Adding' = Adding
        BY <2>3, <3>2 DEF Count, Adding, TypeOK
      <4> QED BY <2>0, <3>1, <4>1 DEF Held
    <3>3. CASE ~(Held > Limit)
      BY <2>0, <2>1, <3>1, <3>3 DEF Held
    <3> QED BY <3>2, <3>3
  <2>4. ASSUME Held' <= Held, Adding' = Adding PROVE QueueBounded'
    BY <2>0, <2>1, <2>4
  <2>5. ASSUME NEW n \in Nat, Dequeue(n), UNCHANGED last PROVE Held' <= Held
    <3>1. first <= first' /\ last' = last
      BY <2>5, DequeueTyped
    <3>2. first \in Int /\ first' \in Int /\ last \in Int
      BY DEF TypeOK
    <3>3. last - first' + 1 <= last - first + 1
      BY <3>1, <3>2, ShorterRange
    <3> QED BY <3>1, <3>3 DEF Held
  <2>6. ASSUME NEW a \in Adders, Trim(a) PROVE QueueBounded'
    <3>1. Adding' = Adding
      BY <2>6 DEF Trim, Adding, TypeOK
    <3> QED BY <2>4, <2>5, <2>6, <3>1 DEF Trim
  <2>7. CASE Restart
    <3>1. Held' = 0
      BY <2>7 DEF Restart, Held, TypeOK
    <3> QED BY <2>0, <2>1, <3>1
  <2>8. ASSUME NEW p \in Posts, UploadAnswered(p) PROVE QueueBounded'
    <3>1. Adding' = Adding
      BY <2>8 DEF UploadAnswered, Adding
    <3>2. loop.sent \in Nat /\ UNCHANGED last
      BY <2>8 DEF UploadAnswered, TypeOK
    <3>3. Dequeue(loop.sent) \/ UNCHANGED <<first, last>>
      BY <2>8 DEF UploadAnswered
    <3>4. Held' <= Held
      BY <2>0, <2>5, <3>2, <3>3 DEF Held
    <3> QED BY <2>4, <3>1, <3>4
  <2>9. CASE UNCHANGED <<queue, adder>>
    <3>1. Adding' = Adding /\ Held' = Held
      BY <2>9 DEF queue, Adding, Held
    <3> QED BY <2>0, <2>4, <3>1
  <2> QED
    BY <2>2, <2>3, <2>6, <2>7, <2>8, <2>9
    DEF Next, vars, UploadNothing, UploadTimesOut, SendHeartbeat, Upload, PostLook, PostWrite,
        PostFails, Retransmit, HeartbeatArrives, HeartbeatLost, Tick, ScanSelect, ScanUpdate,
        ScanDies
<1> QED BY <1>1, <1>2, TypeCorrect, PTL DEF Spec

-----------------------------------------------------------------------------
\* Events that left the queue without being stored.
Unsent == taken \ stored

LEMMA UnsentFinite ==
    ASSUME TypeOK
    PROVE  /\ IsFiniteSet(taken) /\ IsFiniteSet(Unsent)
           /\ \A S \in SUBSET taken : IsFiniteSet(S) /\ Cardinality(S) \in Nat
<1>1. IsFiniteSet(1..(first - 1))
  BY FS_Interval DEF TypeOK
<1>2. IsFiniteSet(taken)
  BY <1>1, FS_Subset DEF TypeOK
<1> QED BY <1>2, FS_Subset, FS_CardinalityType DEF Unsent

\* A part of a set is no larger than it.
LEMMA SmallerSet ==
    ASSUME NEW S, IsFiniteSet(S), NEW T \in SUBSET S
    PROVE  /\ IsFiniteSet(T) /\ Cardinality(T) \in Nat /\ Cardinality(S) \in Nat
           /\ Cardinality(T) <= Cardinality(S)
BY FS_Subset, FS_CardinalityType

\* The batch under way starts at b: of its events, those that Add has trimmed since
\* are not unsent once the batch is stored, but count as trimmed.
Events(b) == b..(b + loop.sent - 1)

BatchFrom(b) ==
    /\ b <= first
    /\ \A p \in Posts : post[p].key = loop.post => post[p].events = Events(b)
    /\ loop.post \in keys => Events(b) \subseteq stored
    /\ Cardinality(Unsent \ Events(b)) + Smaller(loop.sent, first - b) <= trimmed

\* A post that was accepted has its key recorded, and the loop awaits one post.
KeysInv ==
    /\ \A p \in Posts : post[p].pc = "accepted" => post[p].key \in keys
    /\ loop.pc = "await" <=> loop.post # None

DeliveryInv ==
    /\ KeysInv
    /\ OverflowCost
    /\ loop.pc = "await" => \E b \in Nat : BatchFrom(b)

\* Dropping the head costs one event, and within the batch under way none.
LEMMA TrimCost ==
    ASSUME TypeOK, TypeOK', Dequeue(1), trimmed' = trimmed + Smaller(1, Held),
           UNCHANGED <<last, stored, loop>>
    PROVE  /\ OverflowCost => OverflowCost'
           /\ \A b \in Nat :
                 /\ b <= first
                 /\ Cardinality(Unsent \ Events(b)) + Smaller(loop.sent, first - b) <= trimmed
                 => /\ b <= first'
                    /\ Cardinality(Unsent' \ Events(b)) + Smaller(loop.sent, first' - b) <= trimmed'
<1>1. /\ first \in Nat /\ first' \in {first, first + 1}
      /\ taken' = taken \cup (first..(first' - 1))
      /\ trimmed \in Nat /\ loop.sent \in Nat
      /\ trimmed' = trimmed + (first' - first)
  <2>1. /\ first' \in 1..(MaxEvents + 1) /\ first <= first' /\ first' <= first + 1
        /\ taken' = taken \cup (first..(first' - 1))
    BY DequeueTyped
  <2>2. first \in Nat /\ trimmed \in Nat /\ loop.sent \in Nat /\ MaxEvents \in Nat
    BY DeliveryAssumption DEF TypeOK
  <2>3. Smaller(1, Held) \in Int /\ first' = first + Smaller(1, Held)
    <3>1. Held \in Int
      BY DEF TypeOK, Held
    <3> QED BY <3>1, SmallerFacts DEF Dequeue
  <2> QED BY <2>1, <2>2, <2>3
<1>2. taken' \subseteq taken \cup {first}
  BY <1>1
<1>3. ASSUME NEW S
      PROVE  /\ Cardinality(taken \ S) \in Nat /\ Cardinality(taken' \ S) \in Nat
             /\ Cardinality(taken' \ S) <= Cardinality(taken \ S) + 1
             /\ first \in S => Cardinality(taken' \ S) <= Cardinality(taken \ S)
             /\ first' = first => Cardinality(taken' \ S) <= Cardinality(taken \ S)
  <2>1. IsFiniteSet(taken \ S) /\ Cardinality(taken \ S) \in Nat
    BY UnsentFinite
  <2>2. /\ IsFiniteSet((taken \ S) \cup {first})
        /\ Cardinality((taken \ S) \cup {first}) \in Nat
        /\ Cardinality((taken \ S) \cup {first}) <= Cardinality(taken \ S) + 1
    <3>1. /\ IsFiniteSet((taken \ S) \cup {first})
          /\ Cardinality((taken \ S) \cup {first})
                = IF first \in taken \ S THEN Cardinality(taken \ S) ELSE Cardinality(taken \ S) + 1
      BY <2>1, FS_AddElement
    <3> QED BY <2>1, <3>1
  <2>3. taken' \ S \in SUBSET ((taken \ S) \cup {first})
    BY <1>2
  <2>4. /\ Cardinality(taken' \ S) \in Nat
        /\ Cardinality(taken' \ S) <= Cardinality((taken \ S) \cup {first})
    BY <2>2, <2>3, SmallerSet
  <2>5. first \in S \/ first' = first => taken' \ S \in SUBSET (taken \ S)
    BY <1>1, <1>2
  <2>6. first \in S \/ first' = first => Cardinality(taken' \ S) <= Cardinality(taken \ S)
    BY <2>1, <2>5, SmallerSet
  <2> QED BY <2>1, <2>2, <2>4, <2>6
<1>4. OverflowCost => OverflowCost'
  <2>1. /\ Cardinality(taken' \ stored) <= Cardinality(taken \ stored) + 1
        /\ first' = first => Cardinality(taken' \ stored) <= Cardinality(taken \ stored)
        /\ Cardinality(taken' \ stored) \in Nat /\ Cardinality(taken \ stored) \in Nat
    BY <1>3
  <2>2. Cardinality(taken' \ stored) <= Cardinality(taken \ stored) + (first' - first)
    <3>1. CASE first' = first
      BY <1>1, <2>1, <3>1
    <3>2. CASE first' = first + 1
      BY <1>1, <2>1, <3>2
    <3> QED BY <1>1, <3>1, <3>2
  <2>3. Cardinality(taken \ stored) <= trimmed => Cardinality(taken' \ stored) <= trimmed'
    BY ONLY <1>1, <2>1, <2>2
  <2>4. OverflowCost' <=> Cardinality(taken' \ stored) <= trimmed'
    BY DEF OverflowCost
  <2> QED BY <2>3, <2>4 DEF OverflowCost
<1>5. ASSUME NEW b \in Nat, b <= first,
             Cardinality(Unsent \ Events(b)) + Smaller(loop.sent, first - b) <= trimmed
      PROVE  /\ b <= first'
             /\ Cardinality(Unsent' \ Events(b)) + Smaller(loop.sent, first' - b) <= trimmed'
  <2> DEFINE S == stored \cup Events(b)
  <2>1. Unsent \ Events(b) = taken \ S /\ Unsent' \ Events(b) = taken' \ S
    BY DEF Unsent
  <2>2. first \in S \/ first >= b + loop.sent
    BY <1>1, <1>5 DEF Events
  <2>3. /\ Cardinality(taken \ S) \in Nat /\ Cardinality(taken' \ S) \in Nat
        /\ Cardinality(taken' \ S) <= Cardinality(taken \ S) + 1
        /\ first \in S => Cardinality(taken' \ S) <= Cardinality(taken \ S)
        /\ first' = first => Cardinality(taken' \ S) <= Cardinality(taken \ S)
    BY <1>3
  <2>4. Smaller(loop.sent, first' - b) <= Smaller(loop.sent, first - b) + 1
    BY <1>1 DEF Smaller
  <2>5. first >= b + loop.sent => Smaller(loop.sent, first' - b) = Smaller(loop.sent, first - b)
    BY <1>1 DEF Smaller
  <2>6. Smaller(loop.sent, first' - b) \in Int /\ Smaller(loop.sent, first - b) \in Int
    BY <1>1 DEF Smaller
  <2>7. first' = first => Smaller(loop.sent, first' - b) = Smaller(loop.sent, first - b)
    OBVIOUS
  <2>8. b <= first'
    BY <1>1, <1>5
  <2>9. Cardinality(taken' \ S) + Smaller(loop.sent, first' - b)
           <= Cardinality(taken \ S) + Smaller(loop.sent, first - b) + (first' - first)
    <3> HIDE DEF S
    <3>1. CASE first' = first
      BY <1>1, <2>3, <2>6, <2>7, <3>1
    <3>2. CASE first' = first + 1
      BY <1>1, <2>2, <2>3, <2>4, <2>5, <2>6, <3>2
    <3> QED BY <1>1, <3>1, <3>2
  <2>10. Cardinality(taken \ S) + Smaller(loop.sent, first - b) <= trimmed
    BY <1>5, <2>1
  <2>11. Cardinality(taken' \ S) + Smaller(loop.sent, first' - b) <= trimmed'
    <3> HIDE DEF S
    <3>1. /\ trimmed \in Nat /\ first \in Int /\ first' \in Int
          /\ trimmed' = trimmed + (first' - first)
      BY ONLY <1>1
    <3>2. PICK u \in Nat, v \in Nat, i \in Int, j \in Int :
             /\ u = Cardinality(taken \ S) /\ v = Cardinality(taken' \ S)
             /\ i = Smaller(loop.sent, first - b) /\ j = Smaller(loop.sent, first' - b)
      BY <2>3, <2>6
    <3>3. u + i <= trimmed /\ v + j <= u + i + (first' - first)
      BY <3>2, <2>9, <2>10
    <3>4. v + j <= trimmed'
      BY ONLY <3>1, <3>3, MoreBy
    <3> QED BY <3>2, <3>4
  <2> QED BY <2>1, <2>8, <2>11
<1> QED BY <1>4, <1>5

\* Storing more, and recording a key with its events, makes nothing worse.
LEMMA StoringHelps ==
    ASSUME TypeOK, DeliveryInv, UNCHANGED <<first, taken, trimmed, loop>>,
           stored \subseteq stored', KeysInv',
           \A b \in Nat : BatchFrom(b) =>
              /\ \A p \in Posts : post'[p].key = loop.post => post'[p].events = Events(b)
              /\ loop.post \in keys' => Events(b) \subseteq stored'
    PROVE  DeliveryInv'
<1> USE DEF DeliveryInv
<1>1. ASSUME NEW S
      PROVE  /\ Cardinality(taken \ (stored \cup S)) \in Nat
             /\ Cardinality(taken \ (stored' \cup S)) \in Nat
             /\ Cardinality(taken \ (stored' \cup S)) <= Cardinality(taken \ (stored \cup S))
  <2>1. IsFiniteSet(taken \ (stored \cup S))
    BY UnsentFinite
  <2>2. taken \ (stored' \cup S) \in SUBSET (taken \ (stored \cup S))
    OBVIOUS
  <2> QED BY <2>1, <2>2, SmallerSet
<1>2. OverflowCost'
  <2>1. taken \ (stored \cup {}) = taken \ stored /\ taken \ (stored' \cup {}) = taken \ stored'
    OBVIOUS
  <2>2. Cardinality(taken \ stored') <= Cardinality(taken \ stored)
        /\ Cardinality(taken \ stored') \in Nat /\ Cardinality(taken \ stored) \in Nat
    BY <1>1, <2>1
  <2>3. trimmed \in Nat
    BY DEF TypeOK
  <2> QED BY <2>2, <2>3 DEF OverflowCost
<1>3. ASSUME NEW b \in Nat, BatchFrom(b) PROVE BatchFrom(b)'
  <2>1. Events(b)' = Events(b)
    BY DEF Events
  <2>2. Unsent \ Events(b) = taken \ (stored \cup Events(b))
        /\ Unsent' \ Events(b) = taken \ (stored' \cup Events(b))
    BY DEF Unsent
  <2>3. /\ Cardinality(Unsent' \ Events(b)) <= Cardinality(Unsent \ Events(b))
        /\ Cardinality(Unsent' \ Events(b)) \in Nat /\ Cardinality(Unsent \ Events(b)) \in Nat
    BY <1>1, <2>2
  <2>4. first - b \in Int /\ loop.sent \in Int /\ trimmed \in Nat
    BY DEF TypeOK
  <2>5. Smaller(loop.sent, first - b) \in Int
    BY <2>4, SmallerFacts
  <2>6. Cardinality(Unsent' \ Events(b)) + Smaller(loop.sent, first - b) <= trimmed
    BY <1>3, <2>3, <2>4, <2>5, LessLeft DEF BatchFrom
  <2> QED BY <1>3, <2>1, <2>6 DEF BatchFrom
<1> QED BY <1>2, <1>3

\* After a success the events taken beyond the batch are as many as Add has trimmed
\* from it meanwhile.
LEMMA AnsweredCost ==
    ASSUME TypeOK, NEW b \in Nat, BatchFrom(b), Events(b) \subseteq stored, Dequeue(loop.sent),
           UNCHANGED <<last, stored, trimmed>>
    PROVE  OverflowCost'
<1> DEFINE n == loop.sent
           Old == Unsent \ Events(b)
           New == (IF first >= b + n THEN first ELSE b + n)..(first' - 1)
<1>1. /\ first \in Nat /\ first' \in Nat /\ n \in Nat /\ trimmed \in Nat
      /\ first <= first' /\ first' <= first + n
      /\ taken' = taken \cup (first..(first' - 1))
  <2>1. first \in Nat /\ n \in Nat /\ trimmed \in Nat
    BY DeliveryAssumption DEF TypeOK
  <2>2. /\ first' \in 1..(MaxEvents + 1) /\ first <= first' /\ first' <= first + n
        /\ taken' = taken \cup (first..(first' - 1))
    BY <2>1, DequeueTyped
  <2> QED BY <2>1, <2>2
<1>2. b <= first /\ Cardinality(Old) + Smaller(n, first - b) <= trimmed
  BY DEF BatchFrom
<1>3. taken' \ stored \in SUBSET (Old \cup New)
  <2> SUFFICES ASSUME NEW e \in taken', e \notin stored PROVE e \in Old \cup New
    OBVIOUS
  <2>1. e \notin Events(b)
    OBVIOUS
  <2>2. CASE e \in taken
    BY <2>1, <2>2 DEF Unsent
  <2>3. CASE e \in first..(first' - 1)
    BY <1>1, <1>2, <2>1, <2>3, BeyondBatch DEF Events
  <2> QED BY <1>1, <2>2, <2>3
<1>4. /\ IsFiniteSet(New) /\ Cardinality(New) \in Nat
      /\ Cardinality(New) <= Smaller(n, first - b)
  <2>1. (IF first >= b + n THEN first ELSE b + n) \in Int /\ first' - 1 \in Int
    BY <1>1
  <2>2. /\ IsFiniteSet(New)
        /\ Cardinality(New) = IF (IF first >= b + n THEN first ELSE b + n) > first' - 1 THEN 0
                    ELSE (first' - 1) - (IF first >= b + n THEN first ELSE b + n) + 1
    BY <2>1, FS_Interval
  <2>3. CASE first >= b + n
    <3>1. Smaller(n, first - b) = n
      BY <1>1, <1>2, <2>3 DEF Smaller
    <3>2. Cardinality(New) = IF first > first' - 1 THEN 0 ELSE (first' - 1) - first + 1
      BY <2>2, <2>3
    <3>3. Cardinality(New) <= n
      BY <1>1, <3>2, RangeWithin
    <3> QED BY <2>2, <3>1, <3>3, FS_CardinalityType
  <2>4. CASE ~(first >= b + n)
    <3>1. Smaller(n, first - b) = first - b
      BY <1>1, <1>2, <2>4 DEF Smaller
    <3>2. Cardinality(New) = IF b + n > first' - 1 THEN 0 ELSE (first' - 1) - (b + n) + 1
      BY <2>2, <2>4
    <3>3. Cardinality(New) <= first - b
      BY <1>1, <1>2, <3>2, RangeBeyond
    <3> QED BY <2>2, <3>1, <3>3, FS_CardinalityType
  <2> QED BY <2>3, <2>4
<1>5. IsFiniteSet(Old) /\ Cardinality(Old) \in Nat
  BY UnsentFinite DEF Unsent
<1>6. /\ IsFiniteSet(Old \cup New)
      /\ Cardinality(Old \cup New) <= Cardinality(Old) + Cardinality(New)
      /\ Cardinality(Old \cup New) \in Nat
  <2> HIDE DEF Old, New
  <2>1. /\ IsFiniteSet(Old \cup New)
        /\ Cardinality(Old \cup New) = Cardinality(Old) + Cardinality(New) - Cardinality(Old \cap New)
    BY <1>4, <1>5, FS_Union
  <2>2. Cardinality(Old \cap New) \in Nat
    BY <1>5, FS_Subset, FS_CardinalityType
  <2> QED BY <1>4, <1>5, <2>1, <2>2, FS_CardinalityType
<1>7. Cardinality(taken' \ stored) \in Nat
      /\ Cardinality(taken' \ stored) <= Cardinality(Old \cup New)
  BY <1>3, <1>6, SmallerSet
<1>8. Smaller(n, first - b) \in Int
  BY <1>1, SmallerFacts
<1>9. Cardinality(taken' \ stored) <= trimmed
  <2> HIDE DEF Old, New, n
  <2> QED BY <1>1, <1>2, <1>4, <1>5, <1>6, <1>7, <1>8
<1> QED BY <1>9 DEF OverflowCost

\* Every step keeps the account of the batch under way.
LEMMA DeliveryStep ==
    ASSUME TypeOK, TypeOK', DeliveryInv, [Next]_vars
    PROVE  DeliveryInv'
<1> USE DeliveryAssumption
<1>1. ASSUME UNCHANGED <<first, taken, trimmed, loop, cloud>> PROVE DeliveryInv'
  <2>1. KeysInv' /\ OverflowCost'
    BY <1>1 DEF DeliveryInv, KeysInv, OverflowCost, cloud
  <2>2. \A b \in Nat : BatchFrom(b) => BatchFrom(b)'
    BY <1>1 DEF BatchFrom, Events, Unsent, cloud
  <2> QED BY <1>1, <2>1, <2>2 DEF DeliveryInv
<1>2. ASSUME NEW a \in Adders, Trim(a) PROVE DeliveryInv'
  <2>1. Dequeue(1) /\ trimmed' = trimmed + Smaller(1, Held) /\ UNCHANGED <<last, loop, cloud>>
    BY <1>2 DEF Trim
  <2>2. KeysInv' /\ OverflowCost'
    BY <2>1, TrimCost DEF DeliveryInv, KeysInv, cloud
  <2>3. ASSUME NEW b \in Nat, BatchFrom(b) PROVE BatchFrom(b)'
    <3>1. /\ b <= first'
          /\ Cardinality(Unsent' \ Events(b)) + Smaller(loop.sent, first' - b) <= trimmed'
      BY <2>1, <2>3, TrimCost DEF BatchFrom, cloud
    <3>2. Events(b)' = Events(b) /\ loop' = loop /\ post' = post /\ keys' = keys /\ stored' = stored
      BY <2>1 DEF Events, cloud
    <3> QED BY <2>3, <3>1, <3>2 DEF BatchFrom
  <2> QED BY <2>1, <2>2, <2>3 DEF DeliveryInv
<1>3. ASSUME UNCHANGED <<taken, trimmed, cloud>>, loop'.pc # "await", loop'.post = None
      PROVE  DeliveryInv'
  BY <1>3 DEF DeliveryInv, KeysInv, OverflowCost, cloud
<1>4. CASE Restart
  <2>1. loop' = Resting /\ UNCHANGED cloud /\ taken' = {} /\ trimmed' = 0
    BY <1>4 DEF Restart
  <2>2. KeysInv'
    BY <2>1, RestingTyped DEF DeliveryInv, KeysInv, cloud
  <2>3. OverflowCost'
    <3>1. (taken \ stored)' = {}
      BY <2>1
    <3> QED BY <2>1, <3>1, FS_EmptySet DEF OverflowCost
  <2> QED BY <2>1, <2>2, <2>3, RestingTyped DEF DeliveryInv
<1>12. CASE UploadTimesOut
  BY <1>3, <1>12, RestingTyped DEF UploadTimesOut, queue
<1>5. CASE UploadNothing
  <2>1. loop'.pc = "beat" /\ loop'.post = loop.post /\ loop.pc = "rest"
    BY <1>5 DEF UploadNothing, TypeOK
  <2> QED BY <1>3, <1>5, <2>1 DEF UploadNothing, queue, DeliveryInv, KeysInv
<1>6. CASE SendHeartbeat
  BY <1>3, <1>6, RestingTyped DEF SendHeartbeat, queue
<1>7. ASSUME NEW p \in Posts, Upload(p) PROVE DeliveryInv'
  <2>1. PICK n \in Nat : n = Smaller(Batch, Held) /\ n > 0
    BY <1>7, SmallerFacts DEF Upload, TypeOK, Held
  <2>2. /\ loop' = [pc |-> "await", post |-> p, sent |-> n]
        /\ post' = [post EXCEPT ![p] = [pc |-> "look", key |-> p, events |-> first..(first + n - 1)]]
        /\ keys' = keys \ {p} /\ \A q \in Posts : post[q].key # p
        /\ UNCHANGED <<first, last, taken, trimmed, stored>>
    BY <1>7, <2>1 DEF Upload, queue
  <2>3. Events(first)' = first..(first + n - 1)
    BY <2>2 DEF Events
  <2>4. \A q \in Posts : /\ q # p => post'[q] = post[q]
                         /\ post'[p].pc = "look" /\ post'[p].key = p
                         /\ post'[p].events = first..(first + n - 1)
    BY <2>2 DEF TypeOK, PostOK
  <2>5. KeysInv'
    BY <2>2, <2>4 DEF DeliveryInv, KeysInv
  <2>6. OverflowCost'
    BY <2>2 DEF DeliveryInv, OverflowCost
  <2>7. first \in Nat /\ trimmed \in Nat
    BY DEF TypeOK
  <2>8. Cardinality(Unsent' \ Events(first)') + Smaller(n, first - first) <= trimmed
    <3>1. Unsent' \ Events(first)' \in SUBSET Unsent
      BY <2>2 DEF Unsent
    <3>2. /\ Cardinality(Unsent' \ Events(first)') \in Nat /\ Cardinality(Unsent) \in Nat
          /\ Cardinality(Unsent' \ Events(first)') <= Cardinality(Unsent)
      BY <3>1, UnsentFinite, SmallerSet
    <3>3. Smaller(n, first - first) = 0
      BY <2>1, <2>7 DEF Smaller
    <3>4. Cardinality(Unsent) <= trimmed
      BY DEF DeliveryInv, OverflowCost, Unsent
    <3> QED BY <2>7, <3>2, <3>3, <3>4
  <2>9. BatchFrom(first)'
    <3>1. loop'.post = p /\ loop'.sent = n
      BY <2>2
    <3>2. \A q \in Posts : post'[q].key = p => post'[q].events = Events(first)'
      BY <2>2, <2>3, <2>4
    <3> QED BY <2>2, <2>7, <2>8, <3>1, <3>2 DEF BatchFrom
  <2>10. \E b \in Nat : BatchFrom(b)'
    BY <2>2, <2>7, <2>9
  <2> QED BY <2>5, <2>6, <2>10 DEF DeliveryInv
<1>8. ASSUME NEW p \in Posts, UploadAnswered(p) PROVE DeliveryInv'
  <2>1. /\ post' = [post EXCEPT ![p] = Free] /\ post[p].pc \in {"accepted", "failed"}
        /\ UNCHANGED <<last, trimmed, keys, stored>>
    BY <1>8 DEF UploadAnswered
  <2>2. \A q \in Posts : /\ q # p => post'[q] = post[q]
                         /\ post'[p].pc = "idle" /\ post'[p].key = None
    BY <2>1, FreeTyped DEF TypeOK, PostOK
  <2>3. post[p].key # None
    BY <2>1 DEF TypeOK, PostOK
  <2>4. CASE loop.post # post[p].key
    <3>1. UNCHANGED <<loop, first, taken>>
      BY <1>8, <2>4 DEF UploadAnswered
    <3>2. KeysInv'
      BY <2>1, <2>2, <3>1 DEF DeliveryInv, KeysInv
    <3>3. \A b \in Nat : BatchFrom(b) /\ loop.post # None =>
             /\ \A q \in Posts : post'[q].key = loop.post => post'[q].events = Events(b)
             /\ loop.post \in keys' => Events(b) \subseteq stored'
      BY <2>1, <2>2 DEF BatchFrom
    <3>4. CASE loop.post # None
      BY <2>1, <3>1, <3>2, <3>3, <3>4, StoringHelps
    <3>5. CASE loop.post = None
      BY <2>1, <3>1, <3>2, <3>5 DEF DeliveryInv, KeysInv, OverflowCost
    <3> QED BY <3>4, <3>5
  <2>5. CASE loop.post = post[p].key
    <3>1. loop' = [Resting EXCEPT !.pc = "beat"]
      BY <1>8, <2>5 DEF UploadAnswered
    <3>2. KeysInv' /\ loop'.pc # "await"
      BY <2>1, <2>2, <3>1, RestingTyped DEF DeliveryInv, KeysInv
    <3>3. CASE post[p].pc = "accepted"
      <4>1. PICK b \in Nat : BatchFrom(b)
        BY <2>3, <2>5 DEF DeliveryInv, KeysInv
      <4>2. Events(b) \subseteq stored
        BY <2>5, <3>3, <4>1 DEF DeliveryInv, KeysInv, BatchFrom
      <4>3. Dequeue(loop.sent)
        BY <1>8, <2>5, <3>3 DEF UploadAnswered
      <4>4. OverflowCost'
        BY <2>1, <4>1, <4>2, <4>3, AnsweredCost
      <4> QED BY <3>2, <4>4 DEF DeliveryInv
    <3>4. CASE post[p].pc # "accepted"
      <4>1. UNCHANGED <<first, taken>>
        BY <1>8, <3>4 DEF UploadAnswered
      <4> QED BY <2>1, <3>2, <4>1 DEF DeliveryInv, OverflowCost
    <3> QED BY <3>3, <3>4
  <2> QED BY <2>4, <2>5
<1>9. ASSUME NEW p \in Posts, NEW q \in Posts, Retransmit(p, q) PROVE DeliveryInv'
  <2>1. /\ post' = [post EXCEPT ![q] = [post[p] EXCEPT !.pc = "look"]]
        /\ UNCHANGED <<first, taken, trimmed, loop, keys, stored>>
    BY <1>9 DEF Retransmit, queue
  <2>2. /\ post'[q].pc = "look" /\ post'[q].key = post[p].key /\ post'[q].events = post[p].events
        /\ \A r \in Posts : r # q => post'[r] = post[r]
    BY <2>1 DEF TypeOK, PostOK
  <2>3. KeysInv'
    BY <2>1, <2>2 DEF DeliveryInv, KeysInv
  <2>4. \A b \in Nat : BatchFrom(b) =>
           /\ \A r \in Posts : post'[r].key = loop.post => post'[r].events = Events(b)
           /\ loop.post \in keys' => Events(b) \subseteq stored'
    BY <2>1, <2>2 DEF BatchFrom
  <2> QED BY <2>1, <2>3, <2>4, StoringHelps
<1>10. ASSUME NEW p \in Posts, PostLook(p) \/ PostFails(p) PROVE DeliveryInv'
  <2>1. /\ UNCHANGED <<first, last, taken, trimmed, loop, keys, stored>> /\ post[p].pc # "idle"
        /\ \E pc \in {"write", "accepted", "failed"} :
              /\ post' = [post EXCEPT ![p].pc = pc]
              /\ pc = "accepted" => post[p].key \in keys
    <3>1. CASE PostLook(p)
      BY <3>1 DEF PostLook, queue
    <3>2. CASE PostFails(p)
      BY <3>2 DEF PostFails, queue
    <3> QED BY <1>10, <3>1, <3>2
  <2>2. /\ \A r \in Posts : post'[r].key = post[r].key /\ post'[r].events = post[r].events
        /\ \A r \in Posts : r # p => post'[r] = post[r]
        /\ post'[p].pc = "accepted" => post[p].key \in keys
    BY <2>1, PostTyped
  <2>3. KeysInv'
    BY <2>1, <2>2 DEF DeliveryInv, KeysInv
  <2>4. \A b \in Nat : BatchFrom(b) =>
           /\ \A r \in Posts : post'[r].key = loop.post => post'[r].events = Events(b)
           /\ loop.post \in keys' => Events(b) \subseteq stored'
    BY <2>1, <2>2 DEF BatchFrom
  <2> QED BY <2>1, <2>3, <2>4, StoringHelps
<1>11. ASSUME NEW p \in Posts, PostWrite(p) PROVE DeliveryInv'
  <2>1. /\ UNCHANGED <<first, last, taken, trimmed, loop>> /\ post[p].pc # "idle"
        /\ post' = [post EXCEPT ![p].pc = "accepted"]
        /\ stored' = stored \cup post[p].events /\ keys' = keys \cup {post[p].key}
    BY <1>11 DEF PostWrite, queue
  <2>2. /\ \A r \in Posts : post'[r].key = post[r].key /\ post'[r].events = post[r].events
        /\ \A r \in Posts : r # p => post'[r] = post[r]
    BY <2>1, PostTyped
  <2>3. KeysInv'
    BY <2>1, <2>2 DEF DeliveryInv, KeysInv
  <2>4. \A b \in Nat : BatchFrom(b) =>
           /\ \A r \in Posts : post'[r].key = loop.post => post'[r].events = Events(b)
           /\ loop.post \in keys' => Events(b) \subseteq stored'
    BY <2>1, <2>2 DEF BatchFrom
  <2> QED BY <2>1, <2>3, <2>4, StoringHelps
<1> QED
  BY <1>1, <1>2, <1>4, <1>5, <1>6, <1>7, <1>8, <1>9, <1>10, <1>11, <1>12
  DEF Next, vars, queue, Enqueue, Count, HeartbeatArrives, HeartbeatLost, Tick, ScanSelect,
      ScanUpdate, ScanDies

\* A queue that stays below its limit loses nothing but to a restart, whatever
\* number of lost answers, copies, refusals and trims falls between a batch and
\* its removal.
THEOREM OnlyOverflowCosts == Spec => []OverflowCost
<1>1. Init => DeliveryInv
  <2> SUFFICES ASSUME Init PROVE DeliveryInv
    OBVIOUS
  <2>1. KeysInv
    BY FreeTyped, RestingTyped DEF Init, KeysInv
  <2>2. OverflowCost
    <3>1. taken \ stored = {} /\ trimmed = 0
      BY DEF Init
    <3> QED BY <3>1, FS_EmptySet DEF OverflowCost
  <2>3. loop.pc # "await"
    BY RestingTyped DEF Init
  <2> QED BY <2>1, <2>2, <2>3 DEF DeliveryInv
<1>2. TypeOK /\ TypeOK' /\ DeliveryInv /\ [Next]_vars => DeliveryInv'
  BY DeliveryStep
<1>3. DeliveryInv => OverflowCost
  BY DEF DeliveryInv
<1> QED BY <1>1, <1>2, <1>3, TypeCorrect, PTL DEF Spec

-----------------------------------------------------------------------------
BelowLimit == Held <= Limit
Lossless == taken \subseteq stored

\* No thread has had anything to trim.
NoTrimInv ==
    /\ trimmed = 0
    /\ \A a \in Adders : adder[a] # "trim"

\* A queue that never exceeds its limit delivers everything that leaves it while
\* the service runs: each event removed after an upload, however late and of
\* whatever retry, is in the cloud by then.
THEOREM UnfilledQueueLosesNothing == Spec /\ []BelowLimit => []Lossless
<1>1. Init => NoTrimInv
  BY DEF Init, NoTrimInv
<1>2. TypeOK /\ BelowLimit /\ NoTrimInv /\ [Next]_vars => NoTrimInv'
  <2> SUFFICES ASSUME TypeOK, BelowLimit, NoTrimInv, [Next]_vars PROVE NoTrimInv'
    OBVIOUS
  <2>1. adder \in [Adders -> {"idle", "count", "trim"}]
    BY DEF TypeOK
  <2>2. ASSUME NEW a \in Adders, Enqueue(a) PROVE NoTrimInv'
    BY <2>1, <2>2 DEF Enqueue, NoTrimInv
  <2>3. ASSUME NEW a \in Adders, Count(a) PROVE NoTrimInv'
    <3>1. ~(Held > Limit)
      BY DeliveryAssumption DEF BelowLimit, Held, TypeOK
    <3>2. adder' = [adder EXCEPT ![a] = "idle"]
      BY <2>3, <3>1 DEF Count
    <3> QED
      BY <2>1, <2>3, <3>2 DEF Count, queue, NoTrimInv
  <2>4. ASSUME NEW a \in Adders PROVE ~Trim(a)
    BY DEF Trim, NoTrimInv
  <2>5. CASE Restart
    BY <2>5 DEF Restart, NoTrimInv
  <2>6. CASE UNCHANGED <<trimmed, adder>>
    BY <2>6 DEF NoTrimInv
  <2> QED
    BY <2>2, <2>3, <2>4, <2>5, <2>6
    DEF Next, vars, queue, watch, UploadNothing, UploadTimesOut, SendHeartbeat, Upload,
        UploadAnswered, PostLook, PostWrite, PostFails, Retransmit, HeartbeatArrives,
        HeartbeatLost, Tick, ScanSelect, ScanUpdate, ScanDies
<1>3. TypeOK /\ OverflowCost /\ NoTrimInv => Lossless
  <2> SUFFICES ASSUME TypeOK, OverflowCost, NoTrimInv PROVE taken \ stored = {}
    BY DEF Lossless
  <2>1. IsFiniteSet(taken \ stored)
    BY UnsentFinite DEF Unsent
  <2>2. Cardinality(taken \ stored) = 0
    BY <2>1, FS_CardinalityType DEF OverflowCost, NoTrimInv
  <2> QED
    BY <2>1, <2>2, FS_EmptySet
<1> QED BY <1>1, <1>2, <1>3, TypeCorrect, OnlyOverflowCosts, PTL DEF Spec

\* The scan passes over a device it has alerted about: that is one the dashboard
\* shows as offline, in every race of the scan with a heartbeat.
AlertedShown == alerted <=> offline

\* The two columns that scan and heartbeat write never disagree.
THEOREM ScanPassesOnlyShown == Spec => []AlertedShown
<1>1. Init => AlertedShown
  BY DEF Init, AlertedShown
<1>2. AlertedShown /\ [Next]_vars => AlertedShown'
  <2> SUFFICES ASSUME AlertedShown, [Next]_vars PROVE AlertedShown'
    OBVIOUS
  <2>1. CASE HeartbeatArrives \/ ScanUpdate
    BY <2>1 DEF HeartbeatArrives, ScanUpdate, AlertedShown
  <2>2. CASE UNCHANGED <<alerted, offline>>
    BY <2>2 DEF AlertedShown
  <2> QED
    BY <2>1, <2>2
    DEF Next, vars, watch, Enqueue, Count, Trim, Restart, UploadNothing, UploadTimesOut,
        SendHeartbeat, Upload, UploadAnswered, PostLook, PostWrite, PostFails, Retransmit,
        HeartbeatLost, Tick, ScanSelect, ScanDies
<1> QED BY <1>1, <1>2, PTL DEF Spec

=============================================================================
