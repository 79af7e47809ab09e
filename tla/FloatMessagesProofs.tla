-------------------------- MODULE FloatMessagesProofs --------------------------
(***************************************************************************)
(* What TLAPS proves of FloatMessages, for any number of messages, any     *)
(* page size and limits, crashes and faults.                               *)
(***************************************************************************)
EXTENDS FloatMessages, FiniteSetTheorems, NaturalsInduction, TLAPS

\* The places of a thread that has a receipt under way, and those where the
\* request may be on the server.
Busy    == {"ack", "answer", "settled", "unsettled"}
Waiting == {"ack", "answer"}

-----------------------------------------------------------------------------
(* The steps, by what they may change. *)

\* Steps that leave the record, the cards on record and the receipts alone.
Quiet ==
    /\ UNCHANGED <<delivered, record, state, inflight>>
    /\ DOMAIN pc' = DOMAIN pc /\ DOMAIN cur' = DOMAIN cur
    /\ \A t \in Thread : pc'[t] \in Busy => pc'[t] = pc[t] /\ cur'[t] = cur[t]
    /\ queue' \in Seq(Msg)

Types ==
    /\ sent \in 0..MaxMsg /\ frames \subseteq Msg
    /\ disk.last \in Nat /\ disk.seen \in Seq(Msg) /\ disk.pending \subseteq Msg
    /\ last \in Nat /\ seen \in Seq(Msg)
    /\ pending \subseteq Msg /\ unpersisted \subseteq Msg
    /\ queue \in Seq(Msg)
    /\ DOMAIN pc = Thread /\ DOMAIN cur = Thread

LEMMA MsgIsNat == Msg \subseteq Nat
BY FloatAssumption DEF FloatAssumption, Msg

LEMMA InOrderIsSeq ==
    ASSUME Types, NEW after, NEW q \in InOrder(Undelivered(after))
    PROVE  q \in Seq(Msg)
<1> DEFINE S == Undelivered(after)
<1>1. sent \in Nat /\ 1..sent \subseteq Msg /\ S \subseteq 1..sent
    BY FloatAssumption DEF FloatAssumption, Types, Msg, Undelivered
<1>2. IsFiniteSet(1..sent)
    BY <1>1, FS_Interval
<1>3. IsFiniteSet(S)
    BY <1>1, <1>2, FS_Subset
<1>4. Cardinality(S) \in Nat
    BY <1>3, FS_CardinalityType
<1>5. q \in [1..Cardinality(S) -> S]
    BY DEF InOrder
<1>6. q \in [1..Cardinality(S) -> Msg]
    BY <1>1, <1>5
<1> QED BY <1>4, <1>6

\* Every step is quiet or one of those that handle a render or a receipt.
LEMMA Cases ==
    ASSUME Types, [Next]_vars
    PROVE  \/ Quiet /\ sent' \in 0..MaxMsg /\ frames' \subseteq Msg
           \/ Render \/ Crash
           \/ \E t \in Thread : Persist(t) \/ TryAck(t) \/ ServerAck(t) \/ AckFail(t)
                                \/ AckOk(t) \/ EndAck(t)
<1> DEFINE Goal == Quiet /\ sent' \in 0..MaxMsg /\ frames' \subseteq Msg
<1> USE DEF Types, Quiet, Busy, Goto, Return, server, record, state, task, EndFetch
<1>1. CASE UNCHANGED vars
    BY <1>1 DEF vars
<1>2. CASE SendMessage
  <2>1. sent + 1 \in Msg /\ sent + 1 \in 0..MaxMsg
      BY <1>2, FloatAssumption DEF SendMessage, FloatAssumption, Msg
  <2> QED BY <1>2, <2>1 DEF SendMessage
<1>3. CASE Disconnect
    BY <1>3 DEF Disconnect
<1>4. CASE Connect
    BY <1>4 DEF Connect
<1>5. CASE Catchup
  <2>1. queue' \in Seq(Msg)
    <3>1. CASE queue' = queue
        BY <3>1
    <3>2. CASE \E rows \in InOrder(Undelivered(pass.after)) : queue' = queue \o rows
      <4>1. PICK rows \in InOrder(Undelivered(pass.after)) : queue' = queue \o rows
          BY <3>2
      <4>2. rows \in Seq(Msg)
          BY InOrderIsSeq
      <4> QED BY <4>1, <4>2
    <3> QED BY <1>5, <3>1, <3>2 DEF Catchup
  <2> QED BY <1>5, <2>1 DEF Catchup
<1>6. CASE TakeFrame
    BY <1>6 DEF TakeFrame
<1>7. CASE BeginFetch
    BY <1>7 DEF BeginFetch
<1>8. CASE ScanNext
    BY <1>8 DEF ScanNext
<1>9. CASE UnpersistedEnd \/ GetFail \/ MissingEnd
    BY <1>9 DEF UnpersistedEnd, GetFail, MissingEnd
<1>10. CASE GetPage
    BY <1>10 DEF GetPage, BeginMissing
<1>11. CASE PageEnd
    BY <1>11 DEF PageEnd, BeginMissing
<1>12. CASE WakeRetry \/ RetryPass
    BY <1>12 DEF WakeRetry, RetryPass
<1>13. CASE HandleKnown
    BY <1>13 DEF HandleKnown
<1>14. CASE RenderFail
    BY <1>14 DEF RenderFail
<1>15. ASSUME NEW t \in Thread, PersistFail(t) PROVE Goal
    BY <1>15 DEF PersistFail, NotDone
<1> QED
    BY <1>1, <1>2, <1>3, <1>4, <1>5, <1>6, <1>7, <1>8, <1>9, <1>10, <1>11, <1>12, <1>13, <1>14, <1>15
    DEF Next, Ui, Ws, Receipt, Thread
-----------------------------------------------------------------------------
(* The state file. *)

LEMMA LeastIsLeast ==
    ASSUME Types, unpersisted # {}
    PROVE  Least(unpersisted) \in unpersisted /\ \A m \in unpersisted : Least(unpersisted) <= m
<1>1. unpersisted \subseteq Nat
    BY FloatAssumption DEF FloatAssumption, Types, Msg
<1>2. \E m \in unpersisted : \A k \in unpersisted : m <= k
  <2>1. PICK m \in unpersisted : \A k \in unpersisted : <<k, m>> \notin OpToRel(<, Nat)
      BY <1>1, NatLessThanWellFounded, WFMin, Zenon
  <2>2. \A k \in unpersisted : ~(k < m)
      BY <1>1, <2>1 DEF OpToRel
  <2> QED BY <1>1, <2>2
<1> QED BY <1>2 DEF Least

\* The cursor that is saved stays before every render that is not on record.
LEMMA SnapshotBehind ==
    ASSUME Types, NEW l \in Nat, NEW s, NEW p
    PROVE  /\ Snapshot(l, s, p).last \in Nat /\ Snapshot(l, s, p).last <= l
           /\ \A m \in unpersisted : Snapshot(l, s, p).last < m
           /\ Snapshot(l, s, p).seen = s /\ Snapshot(l, s, p).pending = p
<1>1. unpersisted \subseteq Nat \ {0}
    BY FloatAssumption DEF FloatAssumption, Types, Msg
<1>2. CASE unpersisted = {}
    BY <1>2 DEF Snapshot
<1>3. CASE unpersisted # {}
  <2>1. /\ Least(unpersisted) \in Nat \ {0}
        /\ \A m \in unpersisted : Least(unpersisted) <= m
      BY <1>1, <1>3, LeastIsLeast
  <2> HIDE DEF Least
  <2>2. CASE l < Least(unpersisted)
      BY <1>1, <2>1, <2>2 DEF Snapshot
  <2>3. CASE ~(l < Least(unpersisted))
      BY <1>1, <1>3, <2>1, <2>3 DEF Snapshot
  <2> QED BY <2>2, <2>3
<1> QED BY <1>2, <1>3

\* The dedup window takes in one id, and may forget others.
LEMMA RememberFew ==
    ASSUME Types, NEW m \in Msg
    PROVE  /\ Remember(m) \in Seq(Msg)
           /\ \A k : Contains(Remember(m), k) => k = m \/ Contains(seen, k)
<1> DEFINE order == IF Contains(seen, m) THEN seen ELSE Append(seen, m)
<1>1. seen \in Seq(Msg) /\ order \in Seq(Msg)
    BY DEF Types
<1>2. \A k : Contains(order, k) => k = m \/ Contains(seen, k)
    BY <1>1 DEF Contains
<1>3. CASE Len(order) > SeenKept
  <2>1. order # <<>> /\ Remember(m) = Tail(order)
      BY <1>1, <1>3, FloatAssumption DEF FloatAssumption, Remember
  <2> HIDE DEF order
  <2>2. \A i \in 1..Len(Tail(order)) : i + 1 \in 1..Len(order) /\ Tail(order)[i] = order[i + 1]
      BY <1>1, <2>1
  <2>3. \A k : Contains(Tail(order), k) => Contains(order, k)
      BY <2>2 DEF Contains
  <2> QED BY <1>1, <1>2, <2>1, <2>3
<1>4. CASE ~(Len(order) > SeenKept)
  <2>1. Remember(m) = order
      BY <1>4 DEF Remember
  <2> QED BY <1>1, <1>2, <2>1
<1> QED BY <1>3, <1>4

-----------------------------------------------------------------------------
(* The inductive invariant. *)

\* Memory and disk agree on the receipts and on the dedup window, and the cursor
\* on disk is not ahead; a process that could not read the record has none
\* until it saves its own.
OnDisk == /\ ~unread => disk.pending = pending /\ disk.seen = seen /\ disk.last <= last
          /\ unread => pending = {}

Behind == unread \/ \A m \in unpersisted : disk.last < m

\* An id of a dedup window, the one in memory or the one on disk, is still to be
\* confirmed or is confirmed.
Forgotten ==
    /\ \A m \in Msg : Contains(seen, m) => m \in pending \cup delivered
    /\ \A m \in Msg : Contains(disk.seen, m) => m \in disk.pending \cup delivered

\* A receipt under way is claimed, by one thread only.
Claimed ==
    /\ \A t \in Thread : pc[t] \in Busy => cur[t] \in inflight
    /\ \A t, u \in Thread :
          t # u /\ pc[t] \in Busy /\ pc[u] \in Busy => cur[t] # cur[u]

\* While a request is under way its receipt is pending; an answer means that
\* the server has it.
Asked ==
    \A t \in Thread :
        /\ pc[t] \in Waiting => cur[t] \in pending
        /\ pc[t] = "answer" => cur[t] \in delivered

Receipts == Types /\ OnDisk /\ Behind /\ Forgotten /\ Claimed /\ Asked

LEMMA ReceiptsInit == Init => Receipts
<1> SUFFICES ASSUME Init PROVE Receipts
    OBVIOUS
<1>1. /\ seen = <<>> /\ disk = [last |-> 0, seen |-> <<>>, pending |-> {}] /\ last = 0
      /\ pending = {} /\ unread = FALSE
    BY DEF Init
<1>2. seen \in Seq(Msg)
    BY <1>1
<1>3. queue \in Seq(Msg)
  <2>1. queue = <<>>
      BY DEF Init
  <2> QED BY <2>1
<1>4. Types
    BY <1>1, <1>2, <1>3, FloatAssumption DEF FloatAssumption, Types, Init
<1>5. \A m : ~Contains(seen, m) /\ ~Contains(disk.seen, m)
    BY <1>1 DEF Contains
<1>6. OnDisk /\ Behind /\ Forgotten
    BY <1>1, <1>5 DEF OnDisk, Behind, Forgotten, Init
<1>7. Claimed /\ Asked
    BY DEF Claimed, Asked, Busy, Waiting, Init
<1> QED BY <1>4, <1>6, <1>7 DEF Receipts

\* A thread stays where it is, or is at no receipt any more.
LEMMA QuietStep ==
    ASSUME Receipts, Quiet, sent' \in 0..MaxMsg, frames' \subseteq Msg
    PROVE  Receipts'
<1>1. Types'
    BY DEF Receipts, Types, Quiet, record, state
<1>2. OnDisk' /\ Behind' /\ Forgotten'
    BY DEF Receipts, OnDisk, Behind, Forgotten, Quiet, record, state
<1>3. \A t \in Thread : pc'[t] \in Busy => pc'[t] = pc[t] /\ cur'[t] = cur[t]
    BY DEF Quiet
<1>4. Claimed'
    BY <1>3 DEF Receipts, Claimed, Quiet
<1>5. Asked'
    BY <1>3 DEF Receipts, Asked, Quiet, Waiting, Busy, record, state
<1> QED BY <1>1, <1>2, <1>4, <1>5 DEF Receipts

LEMMA RenderStep == Receipts /\ Render => Receipts'
<1> SUFFICES ASSUME Receipts, Render PROVE Receipts'
    OBVIOUS
<1> DEFINE m == Head(queue)
<1>a. queue \in Seq(Msg) /\ queue # <<>>
    BY DEF Render, Receipts, Types
<1>b. Head(queue) \in Msg
    BY <1>a
<1>c. Tail(queue) \in Seq(Msg)
    BY <1>a
<1>1. m \in Msg /\ m \in Nat /\ Tail(queue) \in Seq(Msg)
    BY <1>b, <1>c, MsgIsNat
<1>2. /\ m > last /\ unpersisted' = unpersisted \cup {m}
      /\ UNCHANGED <<sent, frames, disk, unread, last, seen, pending, delivered, inflight>>
      /\ queue' = Tail(queue)
      /\ pc["ui"] = "idle" /\ pc' = [pc EXCEPT !["ui"] = "persist"]
      /\ cur' = [cur EXCEPT !["ui"] = m]
    BY DEF Render, server, record, Goto
<1> HIDE DEF m
<1>3. Types'
    BY <1>1, <1>2 DEF Receipts, Types
<1>4. OnDisk' /\ Forgotten'
    BY <1>2 DEF Receipts, OnDisk, Forgotten
<1>5. Behind'
    BY <1>1, <1>2 DEF Receipts, OnDisk, Behind, Types
<1>6. \A t \in Thread : pc'[t] \in Busy => pc'[t] = pc[t] /\ cur'[t] = cur[t]
    BY <1>2 DEF Receipts, Types, Busy
<1>7. Claimed' /\ Asked'
    BY <1>2, <1>6 DEF Receipts, Claimed, Asked, Busy, Waiting
<1> QED BY <1>3, <1>4, <1>5, <1>7 DEF Receipts

LEMMA CrashStep == Receipts /\ Crash => Receipts'
<1> SUFFICES ASSUME Receipts, Crash PROVE Receipts'
    OBVIOUS
<1>1. /\ unpersisted' = {} /\ UNCHANGED <<sent, delivered, disk>> /\ frames' = {} /\ queue' = <<>>
      /\ pc' = [t \in Thread |-> "idle"] /\ cur' = [t \in Thread |-> 0]
    BY DEF Crash
<1>2. queue' \in Seq(Msg)
    BY <1>1
<1> DEFINE Goal == Types' /\ OnDisk' /\ Behind' /\ Forgotten'
<1>3. ASSUME last' = disk.last, seen' = disk.seen, pending' = disk.pending, unread' = FALSE
      PROVE  Goal
  <2>1. Types'
      BY <1>1, <1>2, <1>3 DEF Receipts, Types
  <2>2. OnDisk'
      BY <1>1, <1>3 DEF Receipts, Types, OnDisk
  <2>3. Behind' /\ Forgotten'
      BY <1>1, <1>3 DEF Receipts, Behind, Forgotten
  <2> QED BY <2>1, <2>2, <2>3
<1>4. ASSUME last' = 0, seen' = <<>>, pending' = {}, unread' = TRUE
      PROVE  Goal
  <2>1. seen' \in Seq(Msg) /\ \A m : ~Contains(seen', m)
      BY <1>4 DEF Contains
  <2>2. Types'
      BY <1>1, <1>2, <1>4, <2>1 DEF Receipts, Types
  <2>3. OnDisk' /\ Behind'
      BY <1>1, <1>4 DEF OnDisk, Behind
  <2>4. Forgotten'
      BY <1>1, <1>4, <2>1 DEF Receipts, Forgotten
  <2> QED BY <2>2, <2>3, <2>4
<1>5. Types' /\ OnDisk' /\ Behind' /\ Forgotten'
    BY <1>3, <1>4 DEF Crash
<1>6. Claimed' /\ Asked'
    BY <1>1 DEF Claimed, Asked, Busy, Waiting
<1> QED BY <1>5, <1>6 DEF Receipts

LEMMA PersistStep ==
    ASSUME Receipts, NEW t \in Thread, Persist(t)
    PROVE  Receipts'
<1> DEFINE m == cur[t]
           l == IF m > last THEN m ELSE last
           s == Snapshot(l, Remember(m), pending \cup {m})
<1>1. /\ pc[t] = "persist" /\ pc' = [pc EXCEPT ![t] = "tryack"] /\ cur' = cur
      /\ UNCHANGED <<sent, frames, delivered, inflight, queue>>
    BY DEF Persist, Goto, server
<1>2. \A u \in Thread : pc'[u] \in Busy => pc'[u] = pc[u] /\ cur'[u] = cur[u]
    BY <1>1 DEF Receipts, Types, Busy
<1>3. Claimed'
    BY <1>1, <1>2 DEF Receipts, Claimed
<1>4. CASE m \in unpersisted
  <2>1. /\ seen' = Remember(m) /\ last' = l /\ pending' = pending \cup {m}
        /\ unpersisted' = unpersisted \ {m} /\ disk' = s /\ unread' = FALSE
      BY <1>4 DEF Persist
  <2>a. Types /\ m \in Msg /\ m \in Nat /\ last \in Nat
      BY <1>4, MsgIsNat DEF Receipts, Types
  <2>2. l \in Nat
      BY <2>a
  <2>3. /\ Remember(m) \in Seq(Msg)
        /\ \A k : Contains(Remember(m), k) => k = m \/ Contains(seen, k)
      BY <2>a, RememberFew
  <2> HIDE DEF m, l
  <2>4. /\ s.last \in Nat /\ s.last <= l /\ \A k \in unpersisted : s.last < k
        /\ s.seen = Remember(m) /\ s.pending = pending \cup {m}
      BY <2>a, <2>2, SnapshotBehind
  <2> HIDE DEF s
  <2>5. Types'
      BY <1>1, <2>a, <2>1, <2>2, <2>3, <2>4 DEF Types
  <2>6. OnDisk' /\ Behind'
      BY <2>1, <2>4 DEF OnDisk, Behind
  <2>7. Forgotten'
      BY <1>1, <2>1, <2>3, <2>4 DEF Receipts, Forgotten
  <2>8. Asked'
      BY <1>1, <1>2, <2>1 DEF Receipts, Asked, Waiting, Busy
  <2> QED BY <1>3, <2>5, <2>6, <2>7, <2>8 DEF Receipts
<1>5. CASE m \notin unpersisted
  <2>1. UNCHANGED <<state, record>>
      BY <1>5 DEF Persist
  <2>2. Types'
      BY <1>1, <2>1 DEF Receipts, Types, record, state
  <2>3. OnDisk' /\ Behind' /\ Forgotten'
      BY <1>1, <2>1 DEF Receipts, OnDisk, Behind, Forgotten, record, state
  <2>4. Asked'
      BY <1>1, <1>2, <2>1 DEF Receipts, Asked, Waiting, Busy, record, state
  <2> QED BY <1>3, <2>2, <2>3, <2>4 DEF Receipts
<1> QED BY <1>4, <1>5

\* Where a step that is not done leads to no receipt.
LEMMA NotDoneLeaves ==
    ASSUME Types, NEW t \in Thread, NotDone(t)
    PROVE  /\ DOMAIN pc' = Thread /\ DOMAIN cur' = Thread /\ pc'[t] \notin Busy
           /\ \A u \in Thread : u # t => pc'[u] = pc[u] /\ cur'[u] = cur[u]
BY DEF Types, NotDone, EndFetch, Return, Goto, Busy, Thread

LEMMA TryAckStep ==
    ASSUME Receipts, NEW t \in Thread, TryAck(t)
    PROVE  Receipts'
<1>1. UNCHANGED <<sent, frames, delivered, disk, unread, last, seen, pending, unpersisted, queue>>
    BY DEF TryAck, server, record, state
<1>2. OnDisk' /\ Behind' /\ Forgotten'
    BY <1>1 DEF Receipts, OnDisk, Behind, Forgotten
<1>3. CASE cur[t] \in pending \ inflight
  <2>1. /\ inflight' = inflight \cup {cur[t]} /\ cur' = cur
        /\ pc' = [pc EXCEPT ![t] = "ack"] /\ pc[t] = "tryack"
      BY <1>3 DEF TryAck, Goto
  <2>2. Types'
      BY <1>1, <2>1 DEF Receipts, Types
  <2>3. pc'[t] = "ack" /\ \A u \in Thread : u # t => pc'[u] = pc[u]
      BY <2>1 DEF Receipts, Types
  <2>4. Claimed'
      BY <1>3, <2>1, <2>3 DEF Receipts, Claimed
  <2>5. Asked'
      BY <1>1, <1>3, <2>1, <2>3 DEF Receipts, Asked
  <2> QED BY <1>2, <2>2, <2>4, <2>5 DEF Receipts
<1>4. CASE cur[t] \notin pending \ inflight
  <2>1. NotDone(t) /\ inflight' = inflight
      BY <1>4 DEF TryAck
  <2>2. /\ DOMAIN pc' = Thread /\ DOMAIN cur' = Thread /\ pc'[t] \notin Busy
        /\ \A u \in Thread : u # t => pc'[u] = pc[u] /\ cur'[u] = cur[u]
      BY <2>1, NotDoneLeaves DEF Receipts
  <2>3. Types'
      BY <1>1, <2>2 DEF Receipts, Types
  <2>4. Claimed' /\ Asked'
      BY <1>1, <2>1, <2>2 DEF Receipts, Claimed, Asked, Busy, Waiting
  <2> QED BY <1>2, <2>3, <2>4 DEF Receipts
<1> QED BY <1>3, <1>4

LEMMA AnswerStep ==
    ASSUME Receipts, NEW t \in Thread, ServerAck(t) \/ AckFail(t)
    PROVE  Receipts'
<1>1. /\ UNCHANGED <<sent, frames, disk, unread, last, seen, pending, unpersisted, queue, inflight, cur>>
      /\ \/ pc[t] = "ack" /\ delivered' = delivered \cup {cur[t]} /\ pc' = [pc EXCEPT ![t] = "answer"]
         \/ /\ pc[t] \in {"ack", "answer"} /\ delivered' = delivered
            /\ pc' = [pc EXCEPT ![t] = "unsettled"]
    BY DEF ServerAck, AckFail, server, record, state, Goto
<1>2. Types'
    BY <1>1 DEF Receipts, Types
<1>3. OnDisk' /\ Behind' /\ Forgotten'
    BY <1>1 DEF Receipts, OnDisk, Behind, Forgotten
<1>4. /\ pc[t] \in Waiting /\ pc'[t] \in {"answer", "unsettled"}
      /\ pc'[t] = "answer" => cur[t] \in delivered'
      /\ delivered \subseteq delivered'
      /\ \A u \in Thread : u # t => pc'[u] = pc[u]
    BY <1>1 DEF Receipts, Types, Waiting
<1>5. Claimed'
    BY <1>1, <1>4 DEF Receipts, Claimed, Waiting, Busy
<1>6. Asked'
    BY <1>1, <1>4 DEF Receipts, Asked, Waiting
<1> QED BY <1>2, <1>3, <1>5, <1>6 DEF Receipts

\* A receipt that is settled is no longer pending; it is nobody else's.
LEMMA AckOkStep ==
    ASSUME Receipts, NEW t \in Thread, AckOk(t)
    PROVE  Receipts'
<1> DEFINE s == Snapshot(last, seen, pending \ {cur[t]})
<1>1. /\ UNCHANGED <<sent, frames, delivered, last, seen, unpersisted, queue, inflight, cur>>
      /\ pc[t] = "answer" /\ pc' = [pc EXCEPT ![t] = "settled"]
      /\ \/ pending' = pending \ {cur[t]} /\ disk' = s /\ unread' = FALSE
         \/ UNCHANGED <<pending, record>>
    BY DEF AckOk, server, Goto
<1>2. Types /\ last \in Nat
    BY DEF Receipts, Types
<1>3. /\ s.last \in Nat /\ s.last <= last /\ \A m \in unpersisted : s.last < m
      /\ s.seen = seen /\ s.pending = pending \ {cur[t]}
    BY <1>2, SnapshotBehind
<1> HIDE DEF s
<1>4. pc'[t] = "settled" /\ \A u \in Thread : u # t => pc'[u] = pc[u]
    BY <1>1, <1>2 DEF Types
<1>5. Types'
    BY <1>1, <1>2, <1>3 DEF Types, record
<1>6. OnDisk' /\ Behind'
    BY <1>1, <1>3 DEF Receipts, OnDisk, Behind, record
<1>7. cur[t] \in delivered
    BY <1>1 DEF Receipts, Asked
<1>8. Forgotten'
    BY <1>1, <1>3, <1>7 DEF Receipts, Forgotten, record
<1>9. Claimed'
    BY <1>1, <1>4 DEF Receipts, Claimed, Busy
<1>10. \A u \in Thread : u # t /\ pc[u] \in Waiting => cur[u] # cur[t]
    BY <1>1 DEF Receipts, Claimed, Busy, Waiting
<1>11. Asked'
    BY <1>1, <1>4, <1>10 DEF Receipts, Asked, Waiting
<1> QED BY <1>5, <1>6, <1>8, <1>9, <1>11 DEF Receipts

LEMMA EndAckStep ==
    ASSUME Receipts, NEW t \in Thread, EndAck(t)
    PROVE  Receipts'
<1>1. /\ UNCHANGED <<sent, frames, delivered, disk, unread, last, seen, pending, unpersisted, queue>>
      /\ inflight' = inflight \ {cur[t]} /\ pc[t] \in Busy
    BY DEF EndAck, server, record, state, Busy
<1>2. Types
    BY DEF Receipts
<1>3. /\ DOMAIN pc' = Thread /\ DOMAIN cur' = Thread /\ pc'[t] \notin Busy
      /\ \A u \in Thread : u # t => pc'[u] = pc[u] /\ cur'[u] = cur[u]
  <2>1. CASE NotDone(t)
      BY <1>2, <2>1, NotDoneLeaves
  <2>2. CASE Done(t)
      BY <1>2, <2>2 DEF Done, Return, Goto, Types, Busy
  <2> QED BY <2>1, <2>2 DEF EndAck
<1>4. Types'
    BY <1>1, <1>2, <1>3 DEF Types
<1>5. OnDisk' /\ Behind' /\ Forgotten'
    BY <1>1 DEF Receipts, OnDisk, Behind, Forgotten
<1>6. Claimed' /\ Asked'
    BY <1>1, <1>3 DEF Receipts, Claimed, Asked, Busy, Waiting
<1> QED BY <1>4, <1>5, <1>6 DEF Receipts

LEMMA ReceiptsStep == Receipts /\ [Next]_vars => Receipts'
<1> SUFFICES ASSUME Receipts, [Next]_vars PROVE Receipts'
    OBVIOUS
<1>1. Types
    BY DEF Receipts
<1> QED
    BY <1>1, Cases, QuietStep, RenderStep, CrashStep, PersistStep, TryAckStep, AnswerStep,
       AckOkStep, EndAckStep

LEMMA ReceiptsHold == Spec => []Receipts
BY ReceiptsInit, ReceiptsStep, PTL DEF Spec

-----------------------------------------------------------------------------

\* _ack_mentor_message, called by two threads: a receipt is only sent for a
\* message whose render is in the state file, so that a crash at any point
\* leaves a record from which it is repeated.
THEOREM ReceiptsAreRecorded == Spec => []AckOnlyRecorded
<1>1. Receipts => AckOnlyRecorded
    BY DEF Receipts, OnDisk, Asked, Waiting, AckOnlyRecorded
<1> QED BY <1>1, ReceiptsHold, PTL

\* _save_mentor_message_state, by whichever thread: the cursor on disk stays
\* before every render that is not on record, unless it is still the cursor of an
\* earlier process that this one could not read; and an id of the dedup window on
\* disk is there to be confirmed or is confirmed.
THEOREM RendersAreRemembered == Spec => []NothingForgotten
<1>1. Receipts => NothingForgotten
    BY DEF Receipts, OnDisk, Behind, Forgotten, NothingForgotten
<1> QED BY <1>1, ReceiptsHold, PTL

-----------------------------------------------------------------------------
(* Types. *)

\* A scan counts its pages from the first one on.
Pages ==
    /\ pc["ws"] = "get" => pass.step = "page" /\ pass.pages < MaxPages
    /\ pc["ws"] \in {"idle", "catchup", "fetch"} \/ pass.step = "unpersisted" => pass.pages = 0

Control ==
    /\ {wake, retry} \subseteq BOOLEAN
    /\ pc \in [Thread -> PC] /\ cur \in [Thread -> 0..MaxMsg] /\ pass \in Pass
    /\ Pages

\* What the server and the window keep; the dedup window on disk is one that
\* was in memory.
Data ==
    /\ sent \in 0..MaxMsg /\ delivered \subseteq Msg
    /\ link \in {"down", "up", "dropped"} /\ frames \subseteq Msg
    /\ disk \in [last : 0..MaxMsg, seen : Seq(Msg), pending : SUBSET Msg]
    /\ unread \in BOOLEAN /\ Len(disk.seen) <= SeenKept
    /\ last \in 0..MaxMsg /\ seen \in Seq(Msg) /\ Len(seen) <= SeenKept
    /\ pending \subseteq Msg /\ unpersisted \subseteq Msg /\ inflight \subseteq Msg
    /\ cursor \in 0..MaxMsg /\ cards \subseteq Msg
    /\ queue \in Seq(Msg) /\ Len(queue) <= MaxQueue
    /\ shown \subseteq Msg /\ missed \subseteq Msg /\ crashes \in 0..MaxCrashes

LEMMA TypesAre == TypeOK /\ Pages /\ Len(disk.seen) <= SeenKept <=> Control /\ Data
BY DEF TypeOK, Control, Data

LEMMA NoPassIsPass == NoPass \in Pass
BY FloatAssumption DEF FloatAssumption, NoPass, Pass

LEMMA EndTyped ==
    ASSUME Control, NEW r \in BOOLEAN, EndFetch(r)
    PROVE  Control'
<1>1. pass' = NoPass /\ pass' \in Pass /\ pass'.pages = 0 /\ pass'.step = "none"
    BY NoPassIsPass DEF EndFetch, NoPass
<1>2. {wake', retry'} \subseteq BOOLEAN
    BY DEF EndFetch, Control
<1>3. pc' = [pc EXCEPT !["ws"] = "idle"] /\ cur' = [cur EXCEPT !["ws"] = 0]
    BY DEF EndFetch, Return, Goto
<1>4. pc' \in [Thread -> PC] /\ cur' \in [Thread -> 0..MaxMsg] /\ pc'["ws"] = "idle"
    BY <1>3, FloatAssumption DEF FloatAssumption, Control, Thread, PC
<1> QED BY <1>1, <1>2, <1>4 DEF Control, Pages

\* A thread goes on and the scan stays what it is.
LEMMA GotoTyped ==
    ASSUME Control, NEW t \in Thread, NEW p \in PC,
           pc' = [pc EXCEPT ![t] = p], cur' \in [Thread -> 0..MaxMsg], pass' = pass,
           {wake', retry'} \subseteq BOOLEAN,
           t = "ui" \/ p \notin {"idle", "catchup", "fetch", "get"}
                    \/ (pc["ws"] = "idle" /\ p = "fetch") \/ (pc["ws"] = "catchup" /\ p = "fetch")
    PROVE  Control'
<1>1. pc' \in [Thread -> PC] /\ \A u \in Thread : pc'[u] = IF u = t THEN p ELSE pc[u]
    BY DEF Control
<1> QED BY <1>1 DEF Control, Pages, Thread

LEMMA NotDoneTyped ==
    ASSUME Control, NEW t \in Thread, NotDone(t)
    PROVE  Control'
<1>1. CASE t = "ui" /\ Return(t, "idle") /\ wake' = TRUE /\ UNCHANGED <<retry, pass>>
  <2>1. pc' = [pc EXCEPT ![t] = "idle"] /\ cur' = [cur EXCEPT ![t] = 0]
      BY <1>1 DEF Return, Goto
  <2>2. cur' \in [Thread -> 0..MaxMsg]
      BY <2>1, FloatAssumption DEF FloatAssumption, Control
  <2> QED BY <1>1, <2>1, <2>2, GotoTyped DEF Control, PC
<1>2. CASE EndFetch(TRUE)
    BY <1>2, EndTyped
<1>3. CASE t = "ws" /\ Return(t, "scan") /\ UNCHANGED <<task, pass>>
  <2>1. pc' = [pc EXCEPT ![t] = "scan"] /\ cur' = [cur EXCEPT ![t] = 0]
      BY <1>3 DEF Return, Goto
  <2>2. cur' \in [Thread -> 0..MaxMsg]
      BY <2>1, FloatAssumption DEF FloatAssumption, Control
  <2> QED BY <1>3, <2>1, <2>2, GotoTyped DEF Control, PC, task
<1> QED BY <1>1, <1>2, <1>3 DEF NotDone

LEMMA PagesAreRows ==
    ASSUME Data, NEW a
    PROVE  Undelivered(a) \subseteq Msg /\ PageAfter(a) \subseteq Msg /\ Msg \subseteq 0..MaxMsg
BY FloatAssumption DEF FloatAssumption, Data, Undelivered, PageAfter, Msg

LEMMA ScanTyped ==
    ASSUME Control, Data,
           \/ BeginFetch \/ ScanNext \/ UnpersistedEnd \/ GetFail \/ GetPage \/ PageEnd \/ MissingEnd
    PROVE  Control' /\ cursor' \in 0..MaxMsg
<1> USE DEF Goto
<1>1. /\ pass \in Pass /\ pc \in [Thread -> PC] /\ cur \in [Thread -> 0..MaxMsg] /\ Pages
      /\ {wake, retry} \subseteq BOOLEAN /\ "ws" \in Thread
      /\ cursor \in 0..MaxMsg /\ pending \subseteq Msg /\ unpersisted \subseteq Msg
      /\ HasPending \in BOOLEAN /\ MaxPages \in Nat \ {0} /\ MaxMsg \in Nat
    BY FloatAssumption DEF FloatAssumption, Control, Data, Thread, HasPending
<1>2. CASE BeginFetch
  <2>1. CASE EndFetch(FALSE)
      BY <1>1, <1>2, <2>1, EndTyped DEF BeginFetch
  <2>2. CASE pass' = [pass EXCEPT !.step = "unpersisted", !.todo = Limited(unpersisted)]
    <3>1. pass' \in Pass /\ pass'.pages = pass.pages /\ pass.pages = 0
        BY <1>1, <1>2, <2>2 DEF Pass, Limited, BeginFetch, Pages
    <3>2. /\ pc' = [pc EXCEPT !["ws"] = "scan"] /\ UNCHANGED <<cur, wake, retry, cursor>>
        BY <1>2, <2>2 DEF BeginFetch, task, EndFetch, NoPass
    <3>3. pc' \in [Thread -> PC] /\ pc'["ws"] = "scan"
        BY <1>1, <3>2 DEF PC
    <3> QED BY <1>1, <3>1, <3>2, <3>3 DEF Control, Pages
  <2> QED BY <1>2, <2>1, <2>2 DEF BeginFetch
<1>3. CASE ScanNext
  <2>1. PICK m \in pass.todo :
           /\ \/ /\ pass.step = "page" /\ pass' = [pass EXCEPT !.todo = @ \ {m}]
                 /\ UNCHANGED <<pc, cur>>
              \/ /\ pass' = [pass EXCEPT !.todo = @ \ {m},
                                         !.observed = IF pass.step = "page" THEN @ \cup {m} ELSE @]
                 /\ cur' = [cur EXCEPT !["ws"] = m]
                 /\ pc' = [pc EXCEPT !["ws"] = IF pass.step = "unpersisted" THEN "persist" ELSE "tryack"]
      BY <1>3 DEF ScanNext
  <2>2. m \in Msg /\ m \in 0..MaxMsg
      BY <1>1 DEF Pass, Msg
  <2>3. pass' \in Pass /\ pass'.pages = pass.pages /\ pass'.step = pass.step
    <3>1. CASE pass' = [pass EXCEPT !.todo = @ \ {m}]
        BY <1>1, <3>1 DEF Pass
    <3>2. CASE pass' = [pass EXCEPT !.todo = @ \ {m},
                                    !.observed = IF pass.step = "page" THEN @ \cup {m} ELSE @]
      <4>1. (IF pass.step = "page" THEN pass.observed \cup {m} ELSE pass.observed) \in SUBSET Msg
          BY <1>1, <2>2 DEF Pass
      <4> QED BY <1>1, <3>2, <4>1 DEF Pass
    <3> QED BY <2>1, <3>1, <3>2
  <2>4. /\ pc' \in [Thread -> PC] /\ cur' \in [Thread -> 0..MaxMsg]
        /\ pc'["ws"] = pc["ws"] \/ pc'["ws"] \in {"persist", "tryack"}
      BY <1>1, <2>1, <2>2 DEF PC
  <2>5. UNCHANGED <<wake, retry, cursor>> /\ pc["ws"] = "scan"
      BY <1>3 DEF ScanNext, task
  <2> QED BY <1>1, <2>3, <2>4, <2>5 DEF Control, Pages
<1>4. CASE UnpersistedEnd
  <2>1. CASE EndFetch(unpersisted # {})
      BY <1>1, <1>4, <2>1, EndTyped DEF UnpersistedEnd
  <2>2. CASE pass' = [pass EXCEPT !.step = "page", !.after = cursor] /\ Goto("ws", "get") /\ UNCHANGED task
    <3>1. pass' \in Pass /\ pass'.pages = 0 /\ pass'.step = "page"
        BY <1>1, <1>4, <2>2 DEF Pass, UnpersistedEnd, Pages
    <3>2. UNCHANGED <<cur, wake, retry, cursor>>
        BY <1>4, <2>2 DEF UnpersistedEnd, task
    <3>3. pc' \in [Thread -> PC] /\ pc'["ws"] = "get"
        BY <1>1, <2>2 DEF PC
    <3> QED BY <1>1, <3>1, <3>2, <3>3 DEF Control, Pages
  <2> QED BY <1>4, <2>1, <2>2 DEF UnpersistedEnd
<1>5. CASE GetFail \/ MissingEnd
    BY <1>1, <1>5, EndTyped DEF GetFail, MissingEnd
<1>6. ASSUME BeginMissing, UNCHANGED <<cur, wake, retry>> PROVE Control'
  <2>1. /\ pass' = [pass EXCEPT !.step = "missing", !.todo = Limited(pending \ pass.observed)]
        /\ pc' = [pc EXCEPT !["ws"] = "scan"]
      BY <1>6 DEF BeginMissing
  <2>2. pass' \in Pass /\ pass'.step = "missing"
      BY <1>1, <2>1 DEF Pass, Limited
  <2>3. pc' \in [Thread -> PC] /\ pc'["ws"] = "scan"
      BY <1>1, <2>1 DEF PC
  <2> QED BY <1>1, <1>6, <2>2, <2>3 DEF Control, Pages
<1>7. CASE GetPage
  <2>1. UNCHANGED <<cur, wake, retry>> /\ pc["ws"] = "get"
      BY <1>7 DEF GetPage, task
  <2>2. CASE cursor' = 0 /\ BeginMissing
      BY <1>1, <1>6, <2>1, <2>2
  <2>3. CASE \E newest \in PageAfter(pass.after) :
               /\ pass' = [pass EXCEPT !.todo = PageAfter(pass.after), !.after = newest, !.pages = @ + 1,
                                       !.full = Cardinality(PageAfter(pass.after)) >= PageSize]
               /\ Goto("ws", "scan") /\ cursor' = cursor
    <3>1. PICK newest \in PageAfter(pass.after) :
             /\ pass' = [pass EXCEPT !.todo = PageAfter(pass.after), !.after = newest, !.pages = @ + 1,
                                     !.full = Cardinality(PageAfter(pass.after)) >= PageSize]
             /\ Goto("ws", "scan") /\ cursor' = cursor
        BY <2>3
    <3>2. newest \in 0..MaxMsg /\ PageAfter(pass.after) \subseteq Msg
        BY PagesAreRows
    <3>3. pass.pages + 1 \in 0..MaxPages
        BY <1>1, <2>1 DEF Pages, Pass
    <3>4. (Cardinality(PageAfter(pass.after)) >= PageSize) \in BOOLEAN
        OBVIOUS
    <3>5. pass' \in Pass /\ pass'.step = pass.step
        BY <1>1, <3>1, <3>2, <3>3, <3>4 DEF Pass
    <3>6. pc' \in [Thread -> PC] /\ pc'["ws"] = "scan"
        BY <1>1, <3>1 DEF PC
    <3> QED BY <1>1, <1>7, <2>1, <3>1, <3>5, <3>6 DEF Control, Pages, GetPage
  <2> QED BY <1>7, <2>2, <2>3 DEF GetPage
<1>8. CASE PageEnd
  <2>1. CASE cursor' = 0 /\ BeginMissing /\ UNCHANGED task
      BY <1>1, <1>6, <1>8, <2>1 DEF PageEnd, task, BeginMissing, EndFetch, NoPass
  <2>2. CASE cursor' = pass.after /\ pass.pages < MaxPages /\ Goto("ws", "get") /\ UNCHANGED <<task, pass>>
    <3>1. pc' \in [Thread -> PC] /\ pc'["ws"] = "get" /\ pass.after \in 0..MaxMsg
        BY <1>1, <2>2 DEF PC, Pass
    <3> QED BY <1>1, <1>8, <2>2, <3>1 DEF Control, Pages, PageEnd, task
  <2>3. CASE cursor' = pass.after /\ EndFetch(HasPending)
      BY <1>1, <2>3, EndTyped DEF Pass
  <2> QED BY <1>8, <2>1, <2>2, <2>3 DEF PageEnd
<1>9. (BeginFetch \/ ScanNext \/ UnpersistedEnd \/ GetFail \/ MissingEnd) => cursor' = cursor
    BY DEF BeginFetch, ScanNext, UnpersistedEnd, GetFail, MissingEnd
<1> QED BY <1>1, <1>2, <1>3, <1>4, <1>5, <1>7, <1>8, <1>9

LEMMA WindowIsBounded ==
    ASSUME Data, NEW m \in Msg
    PROVE  Len(Remember(m)) <= SeenKept
<1> DEFINE order == IF Contains(seen, m) THEN seen ELSE Append(seen, m)
<1>1. seen \in Seq(Msg) /\ Len(seen) <= SeenKept /\ SeenKept \in Nat \ {0}
    BY FloatAssumption DEF FloatAssumption, Data
<1>2. order \in Seq(Msg) /\ Len(order) <= SeenKept + 1
    BY <1>1
<1>3. Remember(m) = IF Len(order) > SeenKept THEN Tail(order) ELSE order
    BY DEF Remember
<1> HIDE DEF order
<1>4. CASE Len(order) > SeenKept
  <2>1. order # <<>>
      BY <1>1, <1>2, <1>4
  <2>2. Len(Tail(order)) = Len(order) - 1
      BY <1>2, <2>1
  <2> QED BY <1>1, <1>2, <1>3, <1>4, <2>2
<1> QED BY <1>1, <1>2, <1>3, <1>4

\* What a thread does about a render or a receipt.
LEMMA ReceiptTyped ==
    ASSUME Receipts, Control, Data, NEW t \in Thread, Receipt(t)
    PROVE  Control' /\ Data'
<1>1. /\ pc \in [Thread -> PC] /\ cur \in [Thread -> 0..MaxMsg] /\ pass \in Pass
      /\ {wake, retry} \subseteq BOOLEAN /\ MaxMsg \in Nat
      /\ pending \subseteq Msg /\ Msg \subseteq 0..MaxMsg /\ Msg \subseteq Nat
    BY MsgIsNat, FloatAssumption DEF FloatAssumption, Control, Data, Msg
<1>2. CASE PersistFail(t)
  <2>1. Data'
      BY <1>2 DEF PersistFail, Data, server, record, state
  <2> QED BY <1>2, <2>1, NotDoneTyped DEF PersistFail
<1>3. CASE Persist(t)
  <2>1. /\ pc' = [pc EXCEPT ![t] = "tryack"] /\ cur' = cur /\ UNCHANGED <<task, pass>>
        /\ UNCHANGED <<server, inflight, cursor, cards, queue, shown, missed, crashes>>
      BY <1>3 DEF Persist, Goto
  <2>2. Control'
      BY <1>1, <2>1, GotoTyped DEF PC, task
  <2>3. CASE UNCHANGED <<state, record>>
      BY <2>1, <2>2, <2>3 DEF Data, server, record, state
  <2>4. CASE cur[t] \in unpersisted
    <3> DEFINE m == cur[t]
               l == IF m > last THEN m ELSE last
               s == Snapshot(l, Remember(m), pending \cup {m})
    <3>1. m \in Msg /\ last \in 0..MaxMsg /\ l \in 0..MaxMsg /\ l \in Nat /\ Types
        BY <1>1, <2>4 DEF Data, Receipts
    <3>2. /\ seen' = Remember(m) /\ last' = l /\ pending' = pending \cup {m}
          /\ unpersisted' = unpersisted \ {m} /\ disk' = s /\ unread' = FALSE
        BY <1>3, <2>4 DEF Persist
    <3>3. Remember(m) \in Seq(Msg) /\ Len(Remember(m)) <= SeenKept
        BY <3>1, RememberFew, WindowIsBounded
    <3> HIDE DEF m, l
    <3>4. s.last \in Nat /\ s.last <= l /\ s.seen = Remember(m) /\ s.pending = pending \cup {m}
        BY <3>1, SnapshotBehind
    <3>5. s = [last |-> s.last, seen |-> s.seen, pending |-> s.pending]
        BY DEF Snapshot
    <3> HIDE DEF s
    <3>6. s.last \in 0..MaxMsg
        BY <1>1, <3>1, <3>4
    <3>7. disk' \in [last : 0..MaxMsg, seen : Seq(Msg), pending : SUBSET Msg]
        BY <1>1, <3>1, <3>2, <3>3, <3>4, <3>5, <3>6
    <3>8. Len(disk'.seen) <= SeenKept
        BY <3>2, <3>3, <3>4
    <3>9. Data'
        BY <1>1, <2>1, <3>1, <3>2, <3>3, <3>7, <3>8 DEF Data, server
    <3> QED BY <2>2, <3>9
  <2> QED BY <1>3, <2>2, <2>3, <2>4 DEF Persist
<1>4. CASE TryAck(t)
  <2>1. CASE NotDone(t) /\ inflight' = inflight
    <3>1. Data'
        BY <1>4, <2>1 DEF TryAck, Data, server, record, state
    <3> QED BY <2>1, <3>1, NotDoneTyped
  <2>2. CASE /\ cur[t] \in pending \ inflight /\ inflight' = inflight \cup {cur[t]}
             /\ Goto(t, "ack") /\ UNCHANGED <<task, pass, cur>>
    <3>1. Data'
        BY <1>1, <1>4, <2>2 DEF TryAck, Data, server, record, state
    <3>2. pc' = [pc EXCEPT ![t] = "ack"] /\ cur' = cur /\ UNCHANGED <<task, pass>>
        BY <2>2 DEF Goto
    <3> QED BY <1>1, <3>1, <3>2, GotoTyped DEF PC, task
  <2> QED BY <1>4, <2>1, <2>2 DEF TryAck
<1>5. CASE ServerAck(t)
  <2>1. cur[t] \in Msg
      BY <1>1, <1>5 DEF ServerAck, Receipts, Asked, Waiting
  <2>2. Data'
      BY <1>5, <2>1 DEF ServerAck, Data, record, state
  <2>3. pc' = [pc EXCEPT ![t] = "answer"] /\ cur' = cur /\ UNCHANGED <<task, pass>>
      BY <1>5 DEF ServerAck, Goto
  <2> QED BY <1>1, <2>2, <2>3, GotoTyped DEF PC, task
<1>6. CASE AckFail(t)
  <2>1. Data'
      BY <1>6 DEF AckFail, Data, server, record, state
  <2>2. pc' = [pc EXCEPT ![t] = "unsettled"] /\ cur' = cur /\ UNCHANGED <<task, pass>>
      BY <1>6 DEF AckFail, Goto
  <2> QED BY <1>1, <2>1, <2>2, GotoTyped DEF PC, task
<1>7. CASE AckOk(t)
  <2> DEFINE s == Snapshot(last, seen, pending \ {cur[t]})
  <2>1. /\ \/ pending' = pending \ {cur[t]} /\ disk' = s /\ unread' = FALSE
           \/ UNCHANGED <<pending, record>>
        /\ UNCHANGED <<server, last, seen, unpersisted, inflight, cursor, cards, queue, shown, missed, crashes>>
        /\ pc' = [pc EXCEPT ![t] = "settled"] /\ cur' = cur /\ UNCHANGED <<task, pass>>
      BY <1>7 DEF AckOk, Goto
  <2>2. last \in Nat /\ last \in 0..MaxMsg /\ Types /\ seen \in Seq(Msg)
      BY DEF Receipts, Types, Data
  <2>3. s.last \in Nat /\ s.last <= last /\ s.seen = seen /\ s.pending = pending \ {cur[t]}
      BY <2>2, SnapshotBehind
  <2>4. s = [last |-> s.last, seen |-> s.seen, pending |-> s.pending]
      BY DEF Snapshot
  <2> HIDE DEF s
  <2>5. s \in [last : 0..MaxMsg, seen : Seq(Msg), pending : SUBSET Msg]
      BY <1>1, <2>2, <2>3, <2>4
  <2>6. Data'
      BY <1>1, <2>1, <2>3, <2>5 DEF Data, server, record
  <2> QED BY <1>1, <2>1, <2>6, GotoTyped DEF PC, task
<1>8. CASE EndAck(t)
  <2>1. Data'
      BY <1>8 DEF EndAck, Data, server, record, state
  <2>2. CASE NotDone(t)
      BY <2>1, <2>2, NotDoneTyped
  <2>3. CASE Done(t) /\ UNCHANGED <<task, pass>>
    <3>1. /\ pc' = [pc EXCEPT ![t] = IF t = "ui" THEN "idle" ELSE "scan"]
          /\ cur' = [cur EXCEPT ![t] = 0]
        BY <2>3 DEF Done, Return, Goto
    <3>2. cur' \in [Thread -> 0..MaxMsg] /\ {wake', retry'} \subseteq BOOLEAN /\ pass' = pass
        BY <1>1, <2>3, <3>1 DEF task
    <3>3. CASE t = "ui"
      <4>1. pc' = [pc EXCEPT ![t] = "idle"] /\ "idle" \in PC
          BY <3>1, <3>3 DEF PC
      <4> QED BY <2>1, <3>2, <3>3, <4>1, GotoTyped
    <3>4. CASE t # "ui"
      <4>1. pc' = [pc EXCEPT ![t] = "scan"] /\ "scan" \in PC
          BY <3>1, <3>4 DEF PC
      <4> QED BY <2>1, <3>2, <4>1, GotoTyped
    <3> QED BY <3>3, <3>4
  <2> QED BY <1>8, <2>2, <2>3 DEF EndAck
<1> QED BY <1>2, <1>3, <1>4, <1>5, <1>6, <1>7, <1>8 DEF Receipt

LEMMA FloatInit == Init => Control /\ Data
<1> SUFFICES ASSUME Init PROVE Control /\ Data
    OBVIOUS
<1>1. pass \in Pass /\ pass.pages = 0 /\ pass.step = "none"
    BY NoPassIsPass DEF Init, NoPass
<1>2. /\ seen = <<>> /\ queue = <<>> /\ disk = [last |-> 0, seen |-> <<>>, pending |-> {}]
      /\ unread = FALSE
    BY DEF Init
<1>3. seen \in Seq(Msg) /\ queue \in Seq(Msg) /\ Len(seen) = 0 /\ Len(queue) = 0
    BY <1>2
<1>4. disk \in [last : 0..MaxMsg, seen : Seq(Msg), pending : SUBSET Msg]
    BY <1>2, <1>3, FloatAssumption DEF FloatAssumption
<1>5. Control
  <2>1. pc \in [Thread -> PC] /\ pc["ws"] = "idle" /\ cur \in [Thread -> 0..MaxMsg]
      BY FloatAssumption DEF FloatAssumption, Init, PC, Thread
  <2>2. {wake, retry} \subseteq BOOLEAN
      BY DEF Init
  <2> QED BY <1>1, <2>1, <2>2 DEF Control, Pages
<1>6. Data
  <2>1. unread \in BOOLEAN
      BY <1>2
  <2>2. disk.seen = seen /\ SeenKept \in Nat
      BY <1>2, FloatAssumption DEF FloatAssumption
  <2>3. Len(disk.seen) <= SeenKept
      BY <1>3, <2>2
  <2> QED BY <1>3, <1>4, <2>1, <2>3, FloatAssumption DEF FloatAssumption, Data, Init
<1> QED BY <1>5, <1>6

LEMMA FloatTyped ==
    ASSUME Receipts, Control, Data, [Next]_vars
    PROVE  Control' /\ Data'
<1>1. /\ pc \in [Thread -> PC] /\ cur \in [Thread -> 0..MaxMsg] /\ pass \in Pass
      /\ {wake, retry} \subseteq BOOLEAN /\ MaxMsg \in Nat /\ MaxQueue \in Nat /\ MaxCrashes \in Nat
      /\ Msg \subseteq 0..MaxMsg /\ sent \in 0..MaxMsg
      /\ queue \in Seq(Msg) /\ Len(queue) <= MaxQueue
      /\ "ui" \in Thread /\ "ws" \in Thread
  <2>1. pc \in [Thread -> PC] /\ cur \in [Thread -> 0..MaxMsg] /\ pass \in Pass
        /\ {wake, retry} \subseteq BOOLEAN
      BY DEF Control
  <2>2. sent \in 0..MaxMsg /\ queue \in Seq(Msg) /\ Len(queue) <= MaxQueue
      BY DEF Data
  <2>3. MaxMsg \in Nat /\ MaxQueue \in Nat /\ MaxCrashes \in Nat
      BY FloatAssumption DEF FloatAssumption
  <2>4. Msg \subseteq 0..MaxMsg
      BY <2>3 DEF Msg
  <2>5. "ui" \in Thread /\ "ws" \in Thread
      BY DEF Thread
  <2> QED BY <2>1, <2>2, <2>3, <2>4, <2>5
<1>2. CASE UNCHANGED vars
    BY <1>2 DEF vars, server, record, state, task, Control, Data, Pages
<1>3. CASE SendMessage
  <2>1. sent + 1 \in Msg /\ sent + 1 \in 0..MaxMsg
      BY <1>1, <1>3 DEF SendMessage, Msg
  <2>2. Data'
      BY <1>3, <2>1 DEF SendMessage, Data, record, state
  <2> QED BY <1>3, <2>2 DEF SendMessage, Control, Pages, task
<1>4. CASE Disconnect
    BY <1>4 DEF Disconnect, Control, Pages, Data, record, state, task
<1>5. CASE Connect
  <2>1. /\ pass' = [NoPass EXCEPT !.caller = "connect", !.after = last]
        /\ pc' = [pc EXCEPT !["ws"] = "catchup"] /\ UNCHANGED <<cur, wake, retry>>
      BY <1>5 DEF Connect, Goto, task
  <2>2. pass' \in Pass /\ pass'.pages = 0
      BY <2>1, NoPassIsPass DEF NoPass, Pass, Data
  <2>3. pc' \in [Thread -> PC] /\ pc'["ws"] = "catchup"
      BY <1>1, <2>1 DEF PC
  <2>4. Data'
      BY <1>5 DEF Connect, Data, record, state
  <2> QED BY <1>1, <2>1, <2>2, <2>3, <2>4 DEF Control, Pages
<1>6. CASE Catchup
  <2>1. queue' \in Seq(Msg) /\ Len(queue') <= MaxQueue
    <3>1. CASE queue' = queue
        BY <1>1, <3>1
    <3>2. CASE /\ Len(queue) + Cardinality(Undelivered(pass.after)) <= MaxQueue
               /\ \E rows \in InOrder(Undelivered(pass.after)) : queue' = queue \o rows
      <4>1. PICK rows \in InOrder(Undelivered(pass.after)) : queue' = queue \o rows
          BY <3>2
      <4>2. rows \in Seq(Msg)
          BY InOrderIsSeq DEF Receipts
      <4>3. rows \in [1..Cardinality(Undelivered(pass.after)) -> Undelivered(pass.after)]
          BY DEF InOrder
      <4>4. Cardinality(Undelivered(pass.after)) \in Nat
        <5>1. Undelivered(pass.after) \subseteq 1..sent /\ sent \in Nat
            BY <1>1 DEF Undelivered
        <5>2. IsFiniteSet(1..sent)
            BY <5>1, FS_Interval
        <5>3. IsFiniteSet(Undelivered(pass.after))
            BY <5>1, <5>2, FS_Subset
        <5> QED BY <5>3, FS_CardinalityType
      <4>5. Len(rows) = Cardinality(Undelivered(pass.after))
          BY <4>2, <4>3, <4>4
      <4>6. Len(queue') = Len(queue) + Len(rows) /\ queue' \in Seq(Msg)
          BY <1>1, <4>1, <4>2
      <4> QED BY <3>2, <4>5, <4>6
    <3> QED BY <1>6, <3>1, <3>2 DEF Catchup
  <2>2. missed' \subseteq Msg
      BY <1>6, PagesAreRows DEF Catchup, Data
  <2>3. Data'
      BY <1>6, <2>1, <2>2 DEF Catchup, Data, server, record, state
  <2>4. pc' = [pc EXCEPT !["ws"] = "fetch"] /\ cur' = cur /\ pass' = pass /\ UNCHANGED task
        /\ pc["ws"] = "catchup"
      BY <1>6 DEF Catchup, Goto
  <2> QED BY <1>1, <2>3, <2>4, GotoTyped DEF PC, task
<1>7. CASE TakeFrame
  <2>1. PICK m \in frames : frames' = frames \ {m} /\ queue' = Append(queue, m)
      BY <1>7 DEF TakeFrame
  <2>2. m \in Msg /\ frames' \subseteq Msg
      BY <2>1 DEF Data
  <2>3. queue' \in Seq(Msg) /\ Len(queue') <= MaxQueue
      BY <1>1, <1>7, <2>1, <2>2 DEF TakeFrame
  <2>4. Data'
      BY <1>7, <2>2, <2>3 DEF TakeFrame, Data, record, state
  <2> QED BY <1>7, <2>4 DEF TakeFrame, Control, Pages, task
<1>8. CASE \/ BeginFetch \/ ScanNext \/ UnpersistedEnd \/ GetFail \/ GetPage \/ PageEnd \/ MissingEnd
  <2>1. Control' /\ cursor' \in 0..MaxMsg
      BY <1>8, ScanTyped
  <2>2. UNCHANGED <<server, record, state, inflight, cards, queue, shown, missed, crashes>>
      BY <1>8 DEF BeginFetch, ScanNext, UnpersistedEnd, GetFail, GetPage, PageEnd, MissingEnd
  <2> QED BY <2>1, <2>2 DEF Data, server, record, state
<1>9. CASE WakeRetry \/ RetryPass
  <2>1. /\ {wake', retry'} \subseteq BOOLEAN /\ cur' = cur /\ pass' = pass
        /\ pc["ws"] = "idle" /\ (pc' = pc \/ pc' = [pc EXCEPT !["ws"] = "fetch"])
      BY <1>1, <1>9 DEF WakeRetry, RetryPass, Goto
  <2>2. Data'
      BY <1>9 DEF WakeRetry, RetryPass, Data, server, record, state
  <2>3. CASE pc' = pc
      BY <2>1, <2>2, <2>3 DEF Control, Pages
  <2>4. CASE pc' = [pc EXCEPT !["ws"] = "fetch"]
      BY <1>1, <2>1, <2>2, <2>4, GotoTyped DEF PC
  <2> QED BY <2>1, <2>3, <2>4
<1>10. ASSUME pc["ui"] = "idle", queue # <<>>
       PROVE  /\ Head(queue) \in Msg /\ Tail(queue) \in Seq(Msg) /\ Len(Tail(queue)) <= MaxQueue
              /\ [cur EXCEPT !["ui"] = Head(queue)] \in [Thread -> 0..MaxMsg]
  <2>1. Head(queue) \in Msg /\ Tail(queue) \in Seq(Msg) /\ Len(Tail(queue)) = Len(queue) - 1
      BY <1>1, <1>10
  <2>2. Head(queue) \in 0..MaxMsg
      BY <1>1, <2>1
  <2>3. Len(Tail(queue)) <= MaxQueue
      BY <1>1, <2>1
  <2> QED BY <1>1, <2>1, <2>2, <2>3
<1>11. CASE HandleKnown
  <2>1. /\ pc["ui"] = "idle" /\ queue # <<>> /\ queue' = Tail(queue) /\ UNCHANGED <<task, pass>>
        /\ \/ UNCHANGED <<pc, cur>>
           \/ \E p \in {"persist", "tryack"} :
                 pc' = [pc EXCEPT !["ui"] = p] /\ cur' = [cur EXCEPT !["ui"] = Head(queue)]
      BY <1>11 DEF HandleKnown, Goto
  <2>2. Data'
      BY <1>10, <1>11, <2>1 DEF HandleKnown, Data, server, record, state
  <2>3. CASE UNCHANGED <<pc, cur>>
      BY <2>1, <2>2, <2>3 DEF Control, Pages, task
  <2>4. ASSUME NEW p \in {"persist", "tryack"}, pc' = [pc EXCEPT !["ui"] = p],
               cur' = [cur EXCEPT !["ui"] = Head(queue)]
        PROVE  Control'
      BY <1>1, <1>10, <2>1, <2>4, GotoTyped DEF PC, task
  <2> QED BY <2>1, <2>2, <2>3, <2>4
<1>12. CASE Render
  <2>1. /\ pc["ui"] = "idle" /\ queue # <<>> /\ queue' = Tail(queue) /\ UNCHANGED <<task, pass>>
        /\ pc' = [pc EXCEPT !["ui"] = "persist"] /\ cur' = [cur EXCEPT !["ui"] = Head(queue)]
        /\ cards' = cards \cup {Head(queue)} /\ shown' = shown \cup cards'
        /\ unpersisted' = unpersisted \cup {Head(queue)}
      BY <1>12 DEF Render, Goto
  <2>2. Data'
      BY <1>10, <1>12, <2>1 DEF Render, Data, server, record
  <2> QED BY <1>1, <1>10, <2>1, <2>2, GotoTyped DEF PC, task
<1>13. CASE RenderFail
  <2>1. pc["ui"] = "idle" /\ queue # <<>> /\ queue' = Tail(queue) /\ cards' = cards \cup {Head(queue)}
      BY <1>13 DEF RenderFail
  <2>2. Data'
      BY <1>10, <1>13, <2>1 DEF RenderFail, Data, server, record, state
  <2> QED BY <1>13, <2>2 DEF RenderFail, Control, Pages, task
<1>14. CASE Crash
  <2>1. /\ pc' = [u \in Thread |-> "idle"] /\ cur' = [u \in Thread |-> 0] /\ pass' = NoPass
        /\ wake' = FALSE /\ retry' = FALSE
      BY <1>14 DEF Crash
  <2>2. Control'
    <3>1. pc' \in [Thread -> PC] /\ pc'["ws"] = "idle" /\ cur' \in [Thread -> 0..MaxMsg]
        BY <1>1, <2>1 DEF PC
    <3>2. pass' \in Pass /\ pass'.pages = 0 /\ pass'.step = "none"
        BY <2>1, NoPassIsPass DEF NoPass
    <3> QED BY <2>1, <3>1, <3>2 DEF Control, Pages
  <2>3. /\ disk' = disk /\ unread' \in BOOLEAN /\ last' \in 0..MaxMsg
        /\ seen' \in Seq(Msg) /\ Len(seen') <= SeenKept /\ pending' \subseteq Msg
    <3>1. CASE last' = disk.last /\ seen' = disk.seen /\ pending' = disk.pending /\ unread' = FALSE
        BY <1>14, <3>1 DEF Crash, Data
    <3>2. CASE last' = 0 /\ seen' = <<>> /\ pending' = {} /\ unread' = TRUE
      <4>1. seen' \in Seq(Msg) /\ Len(seen') = 0 /\ SeenKept \in Nat
          BY <3>2, FloatAssumption DEF FloatAssumption
      <4> QED BY <1>1, <1>14, <3>2, <4>1 DEF Crash
    <3> QED BY <1>14, <3>1, <3>2 DEF Crash
  <2>4. queue' \in Seq(Msg) /\ Len(queue') = 0
      BY <1>14 DEF Crash
  <2>5. crashes' \in 0..MaxCrashes
      BY <1>1, <1>14 DEF Crash, Data
  <2>6. Data'
      BY <1>1, <1>14, <2>3, <2>4, <2>5 DEF Crash, Data
  <2> QED BY <2>2, <2>6
<1>15. CASE \E t \in Thread : Receipt(t)
    BY <1>15, ReceiptTyped
<1> QED
    BY <1>1, <1>2, <1>3, <1>4, <1>5, <1>6, <1>7, <1>8, <1>9, <1>11, <1>12, <1>13, <1>14, <1>15
    DEF Next, Ui, Ws

\* The receipts on record and the types of the window together.
FloatInv == Receipts /\ Control /\ Data

LEMMA FloatInvHolds == Spec => []FloatInv
<1>1. Init => FloatInv
    BY ReceiptsInit, FloatInit DEF FloatInv
<1>2. FloatInv /\ [Next]_vars => FloatInv'
    BY ReceiptsStep, FloatTyped DEF FloatInv
<1> QED BY <1>1, <1>2, PTL DEF Spec

\* Every variable of the window keeps its type; the queue, the dedup window
\* and the pages of a scan stay within their limits.
THEOREM WindowTypeCorrect == Spec => []TypeOK
<1>1. FloatInv => TypeOK
    BY TypesAre DEF FloatInv, Control
<1> QED BY <1>1, FloatInvHolds, PTL

-----------------------------------------------------------------------------
(* What is passed over. *)

\* A message that was shown, that a failed catch-up would have brought, or
\* that has a card of which the next render shows everything.
Reached(k) == k \in shown \cup missed \cup cards
Waits(k)   == \E j \in DOMAIN queue : queue[j] = k

\* What is on record, in memory, on disk or on the server, was shown.
Shown == /\ pending \cup unpersisted \cup delivered \cup disk.pending \subseteq shown
         /\ \A k \in Msg : Contains(seen, k) \/ Contains(disk.seen, k) => k \in shown

\* The cursor, in memory and on disk, and every render have passed only what
\* was shown or missed.
Passed == /\ \A k \in 1..last : k \in shown \cup missed
          /\ \A k \in 1..disk.last : k \in shown \cup missed
          /\ \A u \in unpersisted : \A k \in 1..u : k \in shown \cup missed

\* No message waits before an earlier one.
Ordered == \A i \in DOMAIN queue : \A k \in 1..(queue[i] - 1) :
              Reached(k) \/ \E j \in 1..(i - 1) : queue[j] = k

\* Live frames: an earlier message is in flight too, or was dispatched; and a
\* connection that is registered has been sent, or caught up, everything.
Arriving == pc["ws"] # "catchup" =>
    /\ \A f \in frames : \A k \in 1..(f - 1) : Reached(k) \/ Waits(k) \/ k \in frames
    /\ link = "up" => \A k \in 1..sent : Reached(k) \/ Waits(k) \/ k \in frames

\* A catch-up asks for everything that the cursor has not passed.
Asking == /\ pc["ws"] = "catchup" => pass.after <= last
          /\ frames \subseteq 1..sent

SkipInv == Shown /\ Passed /\ Ordered /\ Arriving /\ Asking

\* Steps that leave alone what arrives and what is shown.
Still ==
    /\ UNCHANGED <<shown, missed, cards, queue, frames, sent, link>>
    /\ pc'["ws"] = "catchup" <=> pc["ws"] = "catchup"
    /\ pc["ws"] = "catchup" => pass' = pass
    /\ pending' \cup unpersisted' \cup delivered' \cup disk'.pending
          \subseteq pending \cup unpersisted \cup delivered \cup disk.pending
    /\ unpersisted' \subseteq unpersisted
    /\ \A k \in Msg : Contains(seen', k) \/ Contains(disk'.seen, k)
                        => Contains(seen, k) \/ Contains(disk.seen, k) \/ k \in unpersisted
    /\ disk'.last = disk.last \/ (disk'.last \in Nat /\ disk'.last <= last')
    /\ last' = last \/ (last' \in unpersisted /\ last <= last')

LEMMA StillStep == FloatInv /\ SkipInv /\ Still => SkipInv'
<1> SUFFICES ASSUME FloatInv, SkipInv, Still PROVE SkipInv'
    OBVIOUS
<1>1. Shown'
    BY DEF SkipInv, Shown, Still
<1>2. Passed'
  <2>1. last \in Nat /\ unpersisted \subseteq Nat /\ Passed
      BY MsgIsNat DEF FloatInv, Receipts, Types, SkipInv
  <2>2. /\ \A k \in 1..last' : k \in shown \cup missed
        /\ \A u \in unpersisted' : \A k \in 1..u : k \in shown \cup missed
        /\ last' \in Nat
      BY <2>1 DEF Passed, Still
  <2>3. \A k \in 1..disk'.last : k \in shown \cup missed
    <3>1. CASE disk'.last = disk.last
        BY <2>1, <3>1 DEF Passed
    <3>2. CASE disk'.last \in Nat /\ disk'.last <= last'
        BY <2>2, <3>2
    <3> QED BY <3>1, <3>2 DEF Still
  <2> QED BY <2>2, <2>3 DEF Passed, Still
<1>3. Ordered'
    BY DEF SkipInv, Ordered, Still, Reached
<1>4. Arriving'
    BY DEF SkipInv, Arriving, Still, Reached, Waits
<1>5. Asking'
  <2>1. last \in 0..MaxMsg /\ MaxMsg \in Nat /\ unpersisted \subseteq Nat /\ pass \in Pass
      BY MsgIsNat, FloatAssumption DEF FloatAssumption, FloatInv, Data, Control
  <2>2. last \in Nat /\ last' \in Nat /\ last <= last'
    <3>1. last' = last \/ (last' \in unpersisted /\ last <= last')
        BY DEF Still
    <3>2. last \in Nat
        BY <2>1
    <3>3. CASE last' = last
        BY <3>2, <3>3
    <3>4. CASE last' \in unpersisted /\ last <= last'
        BY <2>1, <3>2, <3>4
    <3> QED BY <3>1, <3>3, <3>4
  <2>3. pass.after \in 0..MaxMsg
      BY <2>1 DEF Pass
  <2> QED BY <2>1, <2>2, <2>3 DEF SkipInv, Asking, Still
<1> QED BY <1>1, <1>2, <1>3, <1>4, <1>5 DEF SkipInv

\* What does not arrive, dispatch or render is still.
LEMMA StillSteps ==
    ASSUME FloatInv,
           \/ UNCHANGED vars
           \/ BeginFetch \/ ScanNext \/ UnpersistedEnd \/ GetFail \/ GetPage \/ PageEnd \/ MissingEnd
           \/ WakeRetry \/ RetryPass
           \/ \E t \in Thread : Receipt(t)
    PROVE  Still
<1>1. pc \in [Thread -> PC] /\ "ws" \in Thread /\ Types
    BY DEF FloatInv, Control, Thread, Receipts
<1> DEFINE Alone == /\ UNCHANGED <<shown, missed, cards, queue, frames, sent, link, delivered, record, state>>
<1>2. CASE UNCHANGED vars
    BY <1>2 DEF vars, server, record, state, Still
<1>3. CASE \/ BeginFetch \/ ScanNext \/ UnpersistedEnd \/ GetFail \/ GetPage \/ PageEnd \/ MissingEnd
           \/ WakeRetry \/ RetryPass
  <2>1. Alone
      BY <1>3 DEF BeginFetch, ScanNext, UnpersistedEnd, GetFail, GetPage, PageEnd, MissingEnd,
                  WakeRetry, RetryPass, server, record, state
  <2>2. pc["ws"] # "catchup" /\ pc'["ws"] # "catchup"
    <3>1. CASE BeginFetch
        BY <1>1, <3>1 DEF BeginFetch, EndFetch, Return, Goto
    <3>2. CASE ScanNext
        BY <1>1, <3>2 DEF ScanNext, Goto
    <3>3. CASE UnpersistedEnd \/ GetFail \/ MissingEnd
        BY <1>1, <3>3 DEF UnpersistedEnd, GetFail, MissingEnd, EndFetch, Return, Goto
    <3>4. CASE GetPage
        BY <1>1, <3>4 DEF GetPage, BeginMissing, Goto
    <3>5. CASE PageEnd
        BY <1>1, <3>5 DEF PageEnd, BeginMissing, EndFetch, Return, Goto
    <3>6. CASE WakeRetry \/ RetryPass
        BY <1>1, <3>6 DEF WakeRetry, RetryPass, Goto
    <3> QED BY <1>3, <3>1, <3>2, <3>3, <3>4, <3>5, <3>6
  <2> QED BY <2>1, <2>2 DEF Still, record, state
<1>4. ASSUME NEW t \in Thread, Receipt(t) PROVE Still
  <2>1. pc[t] \notin {"catchup", "idle"}
      BY <1>4 DEF Receipt, Persist, PersistFail, TryAck, ServerAck, AckFail, AckOk, EndAck
  <2>2. UNCHANGED <<shown, missed, cards, queue, frames, sent, link>>
      BY <1>4 DEF Receipt, Persist, PersistFail, TryAck, ServerAck, AckFail, AckOk, EndAck, server
  <2>3. ASSUME NotDone(t) PROVE pc'[t] # "catchup" /\ (t = "ui" => pass' = pass)
                                /\ \A u \in Thread : u # t => pc'[u] = pc[u]
      BY <1>1, <2>3 DEF NotDone, EndFetch, Return, Goto, Thread
  <2>4. /\ \A u \in Thread : u # t => pc'[u] = pc[u]
        /\ pc'[t] # "catchup" /\ (t = "ui" => pass' = pass)
    <3>1. CASE NotDone(t)
        BY <2>3, <3>1
    <3>2. CASE Done(t) /\ UNCHANGED <<task, pass>>
        BY <1>1, <3>2 DEF Done, Return, Goto
    <3>3. CASE (\E p \in {"tryack", "ack", "answer", "unsettled", "settled"} : Goto(t, p)) /\ pass' = pass
        BY <1>1, <3>3 DEF Goto
    <3> QED
        BY <1>4, <3>1, <3>2, <3>3
        DEF Receipt, Persist, PersistFail, TryAck, ServerAck, AckFail, AckOk, EndAck
  <2>5. /\ pc'["ws"] = "catchup" <=> pc["ws"] = "catchup"
        /\ pc["ws"] = "catchup" => pass' = pass
      BY <2>1, <2>4 DEF Thread
  <2>6. CASE Persist(t) /\ cur[t] \in unpersisted
    <3>1. /\ seen' = Remember(cur[t]) /\ last' = (IF cur[t] > last THEN cur[t] ELSE last)
          /\ pending' = pending \cup {cur[t]} /\ unpersisted' = unpersisted \ {cur[t]}
          /\ delivered' = delivered /\ disk' = Snapshot(last', seen', pending')
        BY <2>6 DEF Persist, server
    <3>2. cur[t] \in Msg /\ cur[t] \in Nat /\ last \in Nat
        BY <1>1, <2>6, MsgIsNat DEF Types
    <3>3. \A k : Contains(seen', k) => k = cur[t] \/ Contains(seen, k)
        BY <1>1, <3>1, <3>2, RememberFew
    <3>4. last' \in Nat /\ (last' = last \/ (last' \in unpersisted /\ last <= last'))
        BY <2>6, <3>1, <3>2
    <3>5. /\ disk'.last \in Nat /\ disk'.last <= last'
          /\ disk'.seen = seen' /\ disk'.pending = pending'
      <4> PICK l, s, q : l = last' /\ s = seen' /\ q = pending'
          OBVIOUS
      <4>1. /\ Snapshot(l, s, q).last \in Nat /\ Snapshot(l, s, q).last <= l
            /\ Snapshot(l, s, q).seen = s /\ Snapshot(l, s, q).pending = q
          BY <1>1, <3>4, SnapshotBehind
      <4>2. disk' = Snapshot(l, s, q)
          BY <3>1 DEF Snapshot
      <4> QED BY <4>1, <4>2
    <3>6. /\ pending' \cup unpersisted' \cup delivered' \cup disk'.pending
                \subseteq pending \cup unpersisted \cup delivered \cup disk.pending
          /\ unpersisted' \subseteq unpersisted
        BY <2>6, <3>1, <3>5
    <3>7. \A k \in Msg : Contains(seen', k) \/ Contains(disk'.seen, k)
                            => Contains(seen, k) \/ Contains(disk.seen, k) \/ k \in unpersisted
        BY <2>6, <3>3, <3>5
    <3> QED BY <2>2, <2>5, <3>4, <3>5, <3>6, <3>7 DEF Still
  <2>7. CASE ~(Persist(t) /\ cur[t] \in unpersisted)
    <3>1. UNCHANGED <<last, seen, unpersisted>> /\ pending' \subseteq pending
        BY <1>4, <2>7 DEF Receipt, Persist, PersistFail, TryAck, ServerAck, AckFail, AckOk, EndAck,
                          record, state
    <3>2. delivered' = delivered \/ (delivered' = delivered \cup {cur[t]} /\ cur[t] \in pending)
        BY <1>4 DEF Receipt, Persist, PersistFail, TryAck, ServerAck, AckFail, AckOk, EndAck,
                    server, FloatInv, Receipts, Asked, Waiting
    <3>3. disk' = disk \/ disk' = Snapshot(last, seen, pending \ {cur[t]})
        BY <1>4, <2>7 DEF Receipt, Persist, PersistFail, TryAck, ServerAck, AckFail, AckOk, EndAck,
                          record
    <3>4. /\ disk'.last = disk.last \/ (disk'.last \in Nat /\ disk'.last <= last)
          /\ disk'.seen = disk.seen \/ disk'.seen = seen
          /\ disk'.pending \subseteq disk.pending \cup pending
      <4>1. CASE disk' = disk
          BY <4>1
      <4>2. CASE disk' = Snapshot(last, seen, pending \ {cur[t]})
        <5> PICK q : q = pending \ {cur[t]}
            OBVIOUS
        <5>1. /\ Snapshot(last, seen, q).last \in Nat /\ Snapshot(last, seen, q).last <= last
              /\ Snapshot(last, seen, q).seen = seen /\ Snapshot(last, seen, q).pending = q
            BY <1>1, SnapshotBehind DEF Types
        <5> QED BY <4>2, <5>1
      <4> QED BY <3>3, <4>1, <4>2
    <3>5. /\ pending' \cup unpersisted' \cup delivered' \cup disk'.pending
                \subseteq pending \cup unpersisted \cup delivered \cup disk.pending
          /\ \A k \in Msg : Contains(seen', k) \/ Contains(disk'.seen, k)
                               => Contains(seen, k) \/ Contains(disk.seen, k) \/ k \in unpersisted
        BY <3>1, <3>2, <3>4
    <3> QED BY <2>2, <2>5, <3>1, <3>4, <3>5 DEF Still
  <2> QED BY <2>6, <2>7
<1> QED BY <1>2, <1>3, <1>4

\* The rows of a catch-up: every one of them, in order.
LEMMA RowsInOrder ==
    ASSUME sent \in Nat, NEW a, NEW q \in InOrder(Undelivered(a))
    PROVE  LET n == Cardinality(Undelivered(a)) IN
           /\ n \in Nat /\ q \in [1..n -> Undelivered(a)] /\ q \in Seq(Undelivered(a)) /\ Len(q) = n
           /\ \A k \in Undelivered(a) : \E j \in 1..n : q[j] = k
           /\ \A i, j \in 1..n : q[j] < q[i] => j < i
<1> DEFINE S == Undelivered(a)
           n == Cardinality(S)
<1>1. S \subseteq 1..sent
    BY DEF Undelivered
<1>2. IsFiniteSet(1..sent)
    BY FS_Interval
<1>3. IsFiniteSet(S)
    BY <1>1, <1>2, FS_Subset
<1>4. n \in Nat
    BY <1>3, FS_CardinalityType
<1>5. q \in [1..n -> S] /\ \A i, j \in 1..n : i < j => q[i] < q[j]
    BY DEF InOrder
<1>6. \A i \in 1..n : q[i] \in Nat
    BY <1>1, <1>5
<1> HIDE DEF S, n
<1>7. \A i, j \in 1..n : q[j] < q[i] => j < i
  <2> SUFFICES ASSUME NEW i \in 1..n, NEW j \in 1..n, q[j] < q[i] PROVE j < i
      OBVIOUS
  <2>1. i # j /\ ~(i < j)
      BY <1>5, <1>6
  <2> QED BY <1>4, <2>1
<1>8. q \in Injection(1..n, S)
  <2>1. \A i, j \in 1..n : q[i] = q[j] => i = j
    <3> SUFFICES ASSUME NEW i \in 1..n, NEW j \in 1..n, q[i] = q[j] PROVE i = j
        OBVIOUS
    <3>1. ~(i < j) /\ ~(j < i)
        BY <1>5, <1>6
    <3> QED BY <1>4, <3>1
  <2> QED BY <1>5, <2>1 DEF Injection, IsInjective
<1>9. Cardinality(1..n) = n
    BY <1>4, FS_Interval
<1>10. q \in Surjection(1..n, S)
    BY <1>3, <1>8, <1>9, FS_Injection DEF n
<1>11. \A k \in S : \E j \in 1..n : q[j] = k
    BY <1>10 DEF Surjection
<1>12. q \in Seq(S) /\ Len(q) = n
    BY <1>4, <1>5
<1> QED BY <1>4, <1>5, <1>7, <1>11, <1>12 DEF S, n

\* After a catch-up, successful or not, nothing that was sent is passed over.
LEMMA CatchupStep == FloatInv /\ SkipInv /\ Catchup => SkipInv'
<1> SUFFICES ASSUME FloatInv, SkipInv, Catchup PROVE SkipInv'
    OBVIOUS
<1> DEFINE S == Undelivered(pass.after)
<1>1. /\ UNCHANGED <<shown, cards, frames, sent, link, disk, last, unpersisted, pending, seen, delivered>>
      /\ pc["ws"] = "catchup" /\ pc'["ws"] = "fetch" /\ missed \subseteq missed'
    BY DEF Catchup, server, record, state, Goto, FloatInv, Control, Thread
<1>2. /\ sent \in Nat /\ queue \in Seq(Msg) /\ last \in Nat /\ pass.after \in Nat /\ pass.after <= last
      /\ frames \subseteq 1..sent /\ Msg \subseteq Nat
    BY <1>1, MsgIsNat, FloatAssumption
    DEF FloatAssumption, FloatInv, Data, Control, Pass, SkipInv, Asking
<1>3. Shown' /\ Passed' /\ Asking'
    BY <1>1 DEF SkipInv, Shown, Passed, Asking
<1>4. \A k \in 1..sent : Reached(k) \/ k \in S
  <2> TAKE k \in 1..sent
  <2>1. CASE k <= pass.after
    <3>1. k \in 1..last
        BY <1>2, <2>1
    <3> QED BY <3>1 DEF SkipInv, Passed, Reached
  <2>2. CASE k \in delivered
      BY <2>2 DEF SkipInv, Shown, Reached
  <2>3. CASE k > pass.after /\ k \notin delivered
      BY <2>3 DEF Undelivered
  <2> QED BY <1>2, <2>1, <2>2, <2>3
<1>5. \A k : Reached(k) => Reached(k)'
    BY <1>1 DEF Reached
<1>6. CASE queue' = queue /\ missed' = missed \cup S
  <2>1. \A k \in 1..sent : Reached(k)'
      BY <1>1, <1>4, <1>6 DEF Reached
  <2>2. Ordered'
      BY <1>5, <1>6 DEF SkipInv, Ordered
  <2>3. \A f \in frames' : \A k \in 1..(f - 1) : k \in 1..sent
      BY <1>1, <1>2
  <2>4. Arriving'
      BY <1>1, <2>1, <2>3 DEF Arriving
  <2> QED BY <1>3, <2>2, <2>4 DEF SkipInv
<1>7. ASSUME NEW rows \in InOrder(S), queue' = queue \o rows PROVE SkipInv'
  <2> DEFINE n == Cardinality(S)
  <2>1. /\ n \in Nat /\ rows \in [1..n -> S] /\ rows \in Seq(S) /\ Len(rows) = n
        /\ \A k \in S : \E j \in 1..n : rows[j] = k
        /\ \A i, j \in 1..n : rows[j] < rows[i] => j < i
      BY <1>2, RowsInOrder
  <2>2. S \subseteq 1..sent /\ S \subseteq Msg
      BY PagesAreRows DEF FloatInv, Undelivered
  <2> HIDE DEF S, n
  <2>3. /\ DOMAIN queue' = 1..(Len(queue) + n) /\ Len(queue) \in Nat /\ DOMAIN queue = 1..Len(queue)
        /\ \A i \in 1..Len(queue) : queue'[i] = queue[i]
        /\ \A j \in 1..n : queue'[Len(queue) + j] = rows[j]
    <3>1. rows \in Seq(Msg) /\ queue \in Seq(Msg)
      <4>1. rows \in [1..n -> Msg]
          BY <2>1, <2>2
      <4> QED BY <1>2, <2>1, <4>1
    <3>2. queue \o rows \in Seq(Msg) /\ Len(queue \o rows) = Len(queue) + Len(rows)
        BY <3>1
    <3>3. \A i \in 1..(Len(queue) + Len(rows)) :
             (queue \o rows)[i] = IF i <= Len(queue) THEN queue[i] ELSE rows[i - Len(queue)]
        BY <3>1
    <3>4. \A j \in 1..n : Len(queue) + j \in 1..(Len(queue) + n) /\ ~(Len(queue) + j <= Len(queue))
                          /\ (Len(queue) + j) - Len(queue) = j
        BY <2>1, <3>1
    <3>5. \A i \in 1..Len(queue) : i \in 1..(Len(queue) + n) /\ i <= Len(queue)
        BY <2>1, <3>1
    <3> QED BY <1>7, <2>1, <3>1, <3>2, <3>3, <3>4, <3>5
  <2>4. \A k \in S : Waits(k)'
    <3> TAKE k \in S
    <3>1. PICK j \in 1..n : rows[j] = k
        BY <2>1
    <3>2. Len(queue) + j \in DOMAIN queue' /\ queue'[Len(queue) + j] = k
        BY <2>1, <2>3, <3>1
    <3> QED BY <3>2 DEF Waits
  <2>5. ASSUME NEW i \in DOMAIN queue', NEW k \in 1..(queue'[i] - 1)
        PROVE  Reached(k)' \/ \E j \in 1..(i - 1) : queue'[j] = k
    <3>1. CASE i <= Len(queue)
      <4>1. i \in DOMAIN queue /\ k \in 1..(queue[i] - 1)
          BY <2>3, <3>1
      <4>2. Reached(k) \/ \E j \in 1..(i - 1) : queue[j] = k
          BY <4>1 DEF SkipInv, Ordered
      <4>3. \A j \in 1..(i - 1) : queue'[j] = queue[j]
          BY <2>3, <4>1
      <4> QED BY <1>5, <4>2, <4>3
    <3>2. CASE ~(i <= Len(queue))
      <4>1. PICK l \in 1..n : i = Len(queue) + l
        <5>1. i - Len(queue) \in 1..n /\ i = Len(queue) + (i - Len(queue))
            BY <2>1, <2>3, <3>2
        <5> QED BY <5>1
      <4>2. queue'[i] = rows[l] /\ rows[l] \in 1..sent
          BY <2>1, <2>2, <2>3, <4>1
      <4>3. k \in 1..sent /\ k < rows[l]
          BY <1>2, <4>2
      <4>4. CASE k \in S
        <5>1. PICK j \in 1..n : rows[j] = k
            BY <2>1, <4>4
        <5>2. j < l
            BY <2>1, <4>3, <5>1
        <5>3. Len(queue) + j \in 1..(i - 1) /\ queue'[Len(queue) + j] = k
            BY <2>1, <2>3, <4>1, <5>1, <5>2
        <5> QED BY <5>3
      <4> QED BY <1>4, <1>5, <4>3, <4>4
    <3> QED BY <3>1, <3>2
  <2>6. \A k \in 1..sent : Reached(k)' \/ Waits(k)'
      BY <1>4, <1>5, <2>4
  <2>7. \A f \in frames' : \A k \in 1..(f - 1) : k \in 1..sent
      BY <1>1, <1>2
  <2>8. Arriving'
      BY <1>1, <2>6, <2>7 DEF Arriving
  <2>9. Ordered'
      BY <2>5 DEF Ordered
  <2> QED BY <1>3, <2>8, <2>9 DEF SkipInv
<1> QED BY <1>6, <1>7 DEF Catchup

LEMMA ArrivalStep ==
    FloatInv /\ SkipInv /\ (SendMessage \/ Disconnect \/ Connect \/ TakeFrame) => SkipInv'
<1> SUFFICES ASSUME FloatInv, SkipInv, SendMessage \/ Disconnect \/ Connect \/ TakeFrame
             PROVE  SkipInv'
    OBVIOUS
<1>1. /\ UNCHANGED <<shown, missed, cards, disk, last, unpersisted, pending, seen, delivered>>
    BY DEF SendMessage, Disconnect, Connect, TakeFrame, server, record, state
<1>2. /\ sent \in Nat /\ queue \in Seq(Msg) /\ last \in Nat /\ frames \subseteq 1..sent
      /\ Msg \subseteq Nat /\ pc \in [Thread -> PC] /\ "ws" \in Thread
    BY MsgIsNat, FloatAssumption
    DEF FloatAssumption, FloatInv, Data, Control, SkipInv, Asking, Thread
<1>3. Shown' /\ Passed' /\ \A k : Reached(k)' <=> Reached(k)
    BY <1>1 DEF SkipInv, Shown, Passed, Reached
<1>4. CASE SendMessage
  <2>1. /\ sent' = sent + 1 /\ UNCHANGED <<queue, pc, pass>>
        /\ \/ link = "up" /\ link' = "up" /\ frames' = frames \cup {sent + 1}
           \/ link' # "up" /\ frames' = frames
      BY <1>4 DEF SendMessage
  <2>2. Asking' /\ Ordered'
    <3>1. Ordered'
        BY <1>3, <2>1 DEF SkipInv, Ordered
    <3>2. frames' \subseteq 1..(sent + 1)
      <4>1. 1..sent \subseteq 1..(sent + 1) /\ sent + 1 \in 1..(sent + 1) /\ frames \subseteq 1..sent
          BY <1>2
      <4>2. frames' = frames \/ frames' = frames \cup {sent + 1}
          BY <2>1
      <4> QED BY <4>1, <4>2
    <3> QED BY <1>1, <2>1, <3>1, <3>2 DEF SkipInv, Asking
  <2>3. 1..sent' = 1..sent \cup {sent + 1} /\ (sent + 1) - 1 = sent
      BY <1>2, <2>1
  <2>4. Arriving'
      BY <1>3, <2>1, <2>3 DEF SkipInv, Arriving, Waits
  <2> QED BY <1>3, <2>2, <2>4 DEF SkipInv
<1>5. CASE Disconnect
  <2>1. link' = "down" /\ frames' = {} /\ UNCHANGED <<sent, queue, pc, pass>>
      BY <1>5 DEF Disconnect
  <2> QED BY <1>1, <1>3, <2>1 DEF SkipInv, Asking, Ordered, Arriving
<1>6. CASE Connect
  <2>1. /\ pass' = [NoPass EXCEPT !.caller = "connect", !.after = last]
        /\ pc'["ws"] = "catchup" /\ UNCHANGED <<sent, frames, queue>>
      BY <1>2, <1>6 DEF Connect, Goto
  <2>2. pass'.after = last
      BY <2>1 DEF NoPass
  <2> QED BY <1>1, <1>2, <1>3, <2>1, <2>2 DEF SkipInv, Asking, Ordered, Arriving
<1>7. CASE TakeFrame
  <2>1. PICK m \in frames : /\ \A k \in frames : m <= k
                            /\ frames' = frames \ {m} /\ queue' = Append(queue, m)
      BY <1>7 DEF TakeFrame
  <2>2. pc["ws"] = "idle" /\ UNCHANGED <<sent, link, pc, pass>>
      BY <1>7 DEF TakeFrame
  <2>3. m \in Nat /\ Len(queue) \in Nat /\ DOMAIN queue = 1..Len(queue)
        /\ DOMAIN queue' = 1..(Len(queue) + 1) /\ queue'[Len(queue) + 1] = m
        /\ \A i \in 1..Len(queue) : queue'[i] = queue[i]
      BY <1>2, <2>1
  <2>4. (\A k : Waits(k) => Waits(k)') /\ Waits(m)'
      BY <2>3 DEF Waits
  <2>5. \A k \in 1..(m - 1) : Reached(k) \/ Waits(k)
    <3> TAKE k \in 1..(m - 1)
    <3>1. k \notin frames
        BY <2>1, <2>3
    <3> QED BY <2>2, <3>1 DEF SkipInv, Arriving
  <2>6. ASSUME NEW i \in DOMAIN queue', NEW k \in 1..(queue'[i] - 1)
        PROVE  Reached(k)' \/ \E j \in 1..(i - 1) : queue'[j] = k
    <3>1. CASE i \in 1..Len(queue)
      <4>1. i \in DOMAIN queue /\ k \in 1..(queue[i] - 1)
          BY <2>3, <3>1
      <4>2. Reached(k) \/ \E j \in 1..(i - 1) : queue[j] = k
          BY <4>1 DEF SkipInv, Ordered
      <4>3. \A j \in 1..(i - 1) : queue'[j] = queue[j]
          BY <2>3, <4>1
      <4> QED BY <1>3, <4>2, <4>3
    <3>2. CASE i = Len(queue) + 1
      <4>1. (i - 1) = Len(queue) /\ k \in 1..(m - 1)
          BY <2>3, <3>2
      <4>2. Reached(k) \/ \E j \in 1..Len(queue) : queue[j] = k
          BY <2>3, <2>5, <4>1 DEF Waits
      <4> QED BY <1>3, <2>3, <4>1, <4>2
    <3> QED BY <2>3, <3>1, <3>2
  <2>7. Ordered'
      BY <2>6 DEF Ordered
  <2>8. Arriving'
      BY <1>3, <2>1, <2>2, <2>4 DEF SkipInv, Arriving
  <2> QED BY <1>1, <1>3, <2>1, <2>2, <2>7, <2>8 DEF SkipInv, Asking
<1> QED BY <1>4, <1>5, <1>6, <1>7

\* The UI thread takes the first message, once everything before it is reached.
LEMMA UiStep ==
    FloatInv /\ SkipInv /\ (HandleKnown \/ Render \/ RenderFail) => SkipInv'
<1> SUFFICES ASSUME FloatInv, SkipInv, HandleKnown \/ Render \/ RenderFail PROVE SkipInv'
    OBVIOUS
<1> PICK m : m = Head(queue)
    OBVIOUS
<1>1. /\ UNCHANGED <<sent, link, frames, disk, last, pending, seen, delivered, pass, missed>>
      /\ queue # <<>> /\ queue' = Tail(queue) /\ shown \subseteq shown' /\ cards \subseteq cards'
    BY DEF HandleKnown, Render, RenderFail, server, record, state
<1>2. /\ queue \in Seq(Msg) /\ Msg \subseteq Nat \ {0} /\ last \in Nat /\ pc \in [Thread -> PC]
      /\ Msg \subseteq Nat /\ unpersisted \cup pending \subseteq Msg
  <2>1. Data /\ Control
      BY DEF FloatInv
  <2>2. Msg \subseteq Nat \ {0} /\ MaxMsg \in Nat
      BY FloatAssumption DEF FloatAssumption, Msg
  <2>3. queue \in Seq(Msg) /\ last \in Nat /\ unpersisted \cup pending \subseteq Msg
      BY <2>1, <2>2 DEF Data
  <2>4. pc \in [Thread -> PC]
      BY <2>1 DEF Control
  <2> QED BY <2>2, <2>3, <2>4
<1>3. /\ m = queue[1] /\ m \in Msg /\ Len(queue) \in Nat /\ 1 \in DOMAIN queue
      /\ DOMAIN queue = 1..Len(queue) /\ DOMAIN queue' = 1..(Len(queue) - 1)
      /\ \A i \in 1..(Len(queue) - 1) : queue'[i] = queue[i + 1]
    BY <1>1, <1>2
<1>4. pc'["ws"] = pc["ws"]
    BY <1>2 DEF HandleKnown, Render, RenderFail, Goto, Thread
<1>5. \A k \in 1..(m - 1) : Reached(k)
  <2> TAKE k \in 1..(m - 1)
  <2>1. k \in 1..(queue[1] - 1)
      BY <1>3
  <2>2. Reached(k) \/ \E j \in 1..(1 - 1) : queue[j] = k
      BY <1>3, <2>1 DEF SkipInv, Ordered
  <2> QED BY <2>2
<1>6. \A k : Reached(k) => Reached(k)'
    BY <1>1 DEF Reached
<1>7. Reached(m)'
  <2>1. CASE HandleKnown
    <3>1. m \in unpersisted \/ Contains(seen, m) \/ m \in pending \/ m <= last
        BY <2>1 DEF HandleKnown, Known
    <3>2. m <= last => m \in 1..last
        BY <1>2, <1>3
    <3>3. m \in shown \cup missed
        BY <1>3, <3>1, <3>2 DEF SkipInv, Shown, Passed
    <3> QED BY <1>6, <3>3 DEF Reached
  <2>2. CASE Render \/ RenderFail
    <3>1. cards' = cards \cup {m}
        BY <2>2 DEF Render, RenderFail
    <3> QED BY <3>1 DEF Reached
  <2> QED BY <2>1, <2>2
<1>8. \A k : Waits(k) => Waits(k)' \/ Reached(k)'
  <2> SUFFICES ASSUME NEW k, Waits(k) PROVE Waits(k)' \/ Reached(k)'
      OBVIOUS
  <2>1. PICK j \in 1..Len(queue) : queue[j] = k
      BY <1>3 DEF Waits
  <2>2. CASE j = 1
      BY <1>3, <1>7, <2>1, <2>2
  <2>3. CASE j # 1
    <3>1. j - 1 \in DOMAIN queue' /\ queue'[j - 1] = k
        BY <1>3, <2>1, <2>3
    <3> QED BY <3>1 DEF Waits
  <2> QED BY <2>2, <2>3
<1>9. Ordered'
  <2> SUFFICES ASSUME NEW i \in DOMAIN queue', NEW k \in 1..(queue'[i] - 1)
               PROVE  Reached(k)' \/ \E j \in 1..(i - 1) : queue'[j] = k
      BY DEF Ordered
  <2>1. i + 1 \in DOMAIN queue /\ queue'[i] = queue[i + 1] /\ i \in Nat
      BY <1>3
  <2>2. Reached(k) \/ \E j \in 1..((i + 1) - 1) : queue[j] = k
      BY <2>1 DEF SkipInv, Ordered
  <2>3. ASSUME NEW j \in 1..((i + 1) - 1), queue[j] = k
        PROVE  Reached(k)' \/ \E l \in 1..(i - 1) : queue'[l] = k
    <3>1. CASE j = 1
        BY <1>3, <1>7, <2>3, <3>1
    <3>2. CASE j # 1
      <4>1. j - 1 \in 1..(i - 1) /\ (j - 1) + 1 = j /\ j - 1 \in 1..(Len(queue) - 1)
          BY <1>3, <2>1, <3>2
      <4>2. queue'[j - 1] = k
          BY <1>3, <2>3, <4>1
      <4> QED BY <4>1, <4>2
    <3> QED BY <3>1, <3>2
  <2> QED BY <1>6, <2>2, <2>3
<1>10. Arriving'
    BY <1>1, <1>4, <1>6, <1>8 DEF SkipInv, Arriving
<1>11. Asking'
    BY <1>1, <1>4 DEF SkipInv, Asking
<1>12. Shown' /\ Passed'
  <2>1. CASE HandleKnown \/ RenderFail
    <3>1. UNCHANGED <<unpersisted, shown>>
        BY <2>1 DEF HandleKnown, RenderFail, record, state
    <3> QED BY <1>1, <3>1 DEF SkipInv, Shown, Passed
  <2>2. CASE Render
    <3>1. unpersisted' = unpersisted \cup {m} /\ cards' = cards \cup {m} /\ shown' = shown \cup cards'
        BY <2>2 DEF Render
    <3>2. Shown'
        BY <1>1, <3>1 DEF SkipInv, Shown
    <3>3. \A k \in 1..m : k \in shown' \cup missed'
      <4> TAKE k \in 1..m
      <4>1. k = m \/ k \in 1..(m - 1)
          BY <1>2, <1>3
      <4> QED BY <1>1, <1>5, <3>1, <4>1 DEF Reached
    <3>4. Passed'
        BY <1>1, <3>1, <3>3 DEF SkipInv, Passed
    <3> QED BY <3>2, <3>4
  <2> QED BY <2>1, <2>2
<1> QED BY <1>9, <1>10, <1>11, <1>12 DEF SkipInv

\* A restart goes back to the record on disk, or to nothing.
LEMMA RestartStep == FloatInv /\ SkipInv /\ Crash => SkipInv'
<1> SUFFICES ASSUME FloatInv, SkipInv, Crash PROVE SkipInv'
    OBVIOUS
<1>1. /\ unpersisted' = {} /\ queue' = <<>> /\ link' = "down" /\ frames' = {}
      /\ UNCHANGED <<sent, delivered, disk, shown, missed>>
      /\ pc' = [u \in Thread |-> "idle"]
    BY DEF Crash
<1>2. ASSUME last' = disk.last, seen' = disk.seen, pending' = disk.pending
      PROVE  Shown' /\ Passed'
  <2>1. Shown'
      BY <1>1, <1>2 DEF SkipInv, Shown
  <2>2. Passed'
      BY <1>1, <1>2 DEF SkipInv, Passed
  <2> QED BY <2>1, <2>2
<1>3. ASSUME last' = 0, seen' = <<>>, pending' = {}
      PROVE  Shown' /\ Passed'
  <2>1. \A k : ~Contains(seen', k)
      BY <1>3 DEF Contains
  <2>2. Shown'
      BY <1>1, <1>3, <2>1 DEF SkipInv, Shown
  <2>3. Passed'
      BY <1>1, <1>3 DEF SkipInv, Passed
  <2> QED BY <2>2, <2>3
<1>4. Shown' /\ Passed'
    BY <1>2, <1>3 DEF Crash
<1>5. DOMAIN queue' = {}
    BY <1>1
<1>6. Ordered' /\ Arriving' /\ Asking'
    BY <1>1, <1>5 DEF Ordered, Arriving, Asking, Thread
<1> QED BY <1>4, <1>6 DEF SkipInv

LEMMA SkipInit == Init => SkipInv
<1> SUFFICES ASSUME Init PROVE SkipInv
    OBVIOUS
<1>1. \A k : ~Contains(seen, k) /\ ~Contains(disk.seen, k)
    BY DEF Init, Contains
<1>2. queue = <<>> /\ DOMAIN queue = {}
    BY DEF Init
<1>3. Ordered
    BY <1>2 DEF Ordered
<1> QED BY <1>1, <1>3 DEF Init, SkipInv, Shown, Passed, Arriving, Asking, Thread

LEMMA SkipStep == FloatInv /\ SkipInv /\ [Next]_vars => SkipInv'
<1> SUFFICES ASSUME FloatInv, SkipInv, [Next]_vars PROVE SkipInv'
    OBVIOUS
<1>1. \/ UNCHANGED vars
      \/ BeginFetch \/ ScanNext \/ UnpersistedEnd \/ GetFail \/ GetPage \/ PageEnd \/ MissingEnd
      \/ WakeRetry \/ RetryPass
      \/ (\E t \in Thread : Receipt(t))
      \/ SendMessage \/ Disconnect \/ Connect \/ TakeFrame
      \/ Catchup \/ Crash \/ HandleKnown \/ Render \/ RenderFail
    BY DEF Next, Ui, Ws, Thread
<1> QED BY <1>1, StillStep, StillSteps, ArrivalStep, UiStep, CatchupStep, RestartStep

\* At-least-once delivery, up to failed catch-ups: the cursor has passed a
\* message only if the student was shown it or a catch-up that would have
\* brought it failed, whatever live frames, restarts and renders came between.
THEOREM NothingIsSkipped == Spec => []SkippedOnlyIfMissed
<1>1. Init => SkipInv
    BY SkipInit
<1>2. FloatInv /\ SkipInv /\ [Next]_vars => SkipInv'
    BY SkipStep
<1>3. SkipInv => SkippedOnlyIfMissed
    BY DEF SkipInv, Passed, SkippedOnlyIfMissed
<1> QED BY <1>1, <1>2, <1>3, FloatInvHolds, PTL DEF Spec

-----------------------------------------------------------------------------
(* Rendering once. *)

\* A card of the process is on record, or waits to be.
OnceInv == \A k \in cards : k \in unpersisted \/ k <= last

LEMMA OnceStep == ~RenderFaults /\ FloatInv /\ OnceInv /\ [Next]_vars => OnceInv'
<1> SUFFICES ASSUME ~RenderFaults, FloatInv, OnceInv, [Next]_vars PROVE OnceInv'
    OBVIOUS
<1>1. last \in Nat /\ cards \subseteq Nat /\ Types /\ Msg \subseteq Nat
    BY MsgIsNat, FloatAssumption DEF FloatAssumption, FloatInv, Data, Receipts, Types
<1>2. CASE UNCHANGED <<cards, unpersisted, last>>
    BY <1>2 DEF OnceInv
<1>3. CASE Render
    BY <1>3 DEF OnceInv, Render
<1>4. CASE Crash
    BY <1>4 DEF OnceInv, Crash
<1>5. ASSUME NEW t \in Thread, Persist(t), cur[t] \in unpersisted PROVE OnceInv'
  <2>1. /\ cards' = cards /\ unpersisted' = unpersisted \ {cur[t]}
        /\ last' = (IF cur[t] > last THEN cur[t] ELSE last) /\ cur[t] \in Nat
      BY <1>1, <1>5 DEF Persist, Types
  <2> QED BY <1>1, <2>1 DEF OnceInv
<1>6. \/ UNCHANGED <<cards, unpersisted, last>>
      \/ Render \/ RenderFail \/ Crash
      \/ \E t \in Thread : Persist(t) /\ cur[t] \in unpersisted
    BY DEF vars, record, state, Next, Ui, Ws, Receipt, Thread, SendMessage, Disconnect, Connect, Catchup,
           TakeFrame, BeginFetch, ScanNext, UnpersistedEnd, GetFail, GetPage, PageEnd, MissingEnd,
           WakeRetry, RetryPass, HandleKnown, Persist, PersistFail, TryAck, ServerAck, AckFail,
           AckOk, EndAck
<1>7. ~RenderFail
    BY DEF RenderFail
<1> QED BY <1>2, <1>3, <1>4, <1>5, <1>6, <1>7

LEMMA OnlyRenderAdds ==
    ASSUME Types, [Next]_vars
    PROVE  unpersisted' \subseteq unpersisted \/ Render
<1>1. \A t \in Thread : Persist(t) => unpersisted' \subseteq unpersisted
    BY DEF Persist, record, state
<1>2. Crash => unpersisted' = {}
    BY DEF Crash
<1>3. Quiet => unpersisted' = unpersisted
    BY DEF Quiet, record, state
<1>4. \A t \in Thread : TryAck(t) \/ ServerAck(t) \/ AckFail(t) \/ AckOk(t) \/ EndAck(t)
                           => unpersisted' = unpersisted
    BY DEF TryAck, ServerAck, AckFail, AckOk, EndAck, record, state
<1> QED BY <1>1, <1>2, <1>3, <1>4, Cases

LEMMA RendersOnce ==
    ASSUME FloatInv, OnceInv, Render
    PROVE  \A m \in unpersisted' \ unpersisted :
              m \notin cards /\ (unread \/ (m \notin disk.pending /\ m > disk.last))
<1> SUFFICES ASSUME NEW m \in unpersisted' \ unpersisted
             PROVE  m \notin cards /\ (unread \/ (m \notin disk.pending /\ m > disk.last))
    OBVIOUS
<1>1. m = Head(queue) /\ ~Known(m) /\ m > last
    BY DEF Render
<1>2. /\ queue \in Seq(Msg) /\ queue # <<>>
      /\ ~unread => disk.last <= last /\ disk.pending = pending
      /\ disk.last \in Nat /\ last \in Nat
    BY DEF Render, FloatInv, Receipts, Types, OnDisk
<1>3. Head(queue) \in Msg
    BY <1>2
<1>4. m \in Nat
    BY <1>1, <1>3, MsgIsNat
<1> QED BY <1>1, <1>2, <1>4 DEF OnceInv, Known

\* _handle_mentor_message: where no card fails to be built, a message is
\* rendered at most once in the life of the process, although the dedup window
\* forgets ids; and never while its render is on disk or the cursor there has
\* passed it, unless that is the record of an earlier process which this one could
\* not read and has not replaced.
THEOREM NothingIsRenderedTwice == ASSUME ~RenderFaults PROVE Spec => RenderedOnce
<1>1. Init => OnceInv
    BY DEF Init, OnceInv
<1>2. FloatInv /\ OnceInv /\ [Next]_vars => OnceInv'
    BY OnceStep
<1>3. FloatInv /\ OnceInv /\ [Next]_vars
        => [\A m \in unpersisted' \ unpersisted :
               m \notin cards /\ (unread \/ (m \notin disk.pending /\ m > disk.last))]_vars
  <2>1. FloatInv => Types
      BY DEF FloatInv, Receipts
  <2> QED BY <2>1, OnlyRenderAdds, RendersOnce
<1> QED BY <1>1, <1>2, <1>3, FloatInvHolds, PTL DEF Spec, RenderedOnce

=============================================================================
