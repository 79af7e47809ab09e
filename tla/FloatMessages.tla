---------------------------- MODULE FloatMessages ----------------------------
(***************************************************************************)
(* The native float window as a receiver of mentor messages.  Two threads  *)
(* share its state under one lock: the UI thread, which renders what is    *)
(* dispatched to it, and the WebSocket thread, whose event loop connects,  *)
(* catches up, receives frames and runs the receipt retry task.  Every     *)
(* action is one critical section or one HTTP exchange; the UI thread      *)
(* blocks in its own requests.  A message is its row id.                   *)
(***************************************************************************)
EXTENDS Naturals, FiniteSets, Sequences, SequencesExt

CONSTANTS
    MaxMsg,      \* bound: messages the mentor sends
    PageSize,    \* PENDING_RECEIPT_PAGE_LIMIT
    MaxPages,    \* MAX_PENDING_RECEIPT_PAGES_PER_SYNC
    DirectLimit, \* PENDING_RECEIPT_DIRECT_ACK_LIMIT
    SeenKept,    \* MAX_PERSISTED_SEEN_MENTOR_MESSAGE_IDS
    MaxQueue,    \* bound: dispatched messages that wait for the UI thread
    MaxCrashes,  \* bound: restarts of the float window
    RenderFaults, SaveFaults \* may rendering, or both attempts to save, fail?

ASSUME FloatAssumption ==
    /\ {MaxMsg, MaxQueue, MaxCrashes} \subseteq Nat
    /\ {PageSize, MaxPages, DirectLimit, SeenKept} \subseteq Nat \ {0}
    /\ {RenderFaults, SaveFaults} \subseteq BOOLEAN

Msg    == 1..MaxMsg
Thread == {"ui", "ws"}

VARIABLES
    sent, delivered,  \* the server's rows, and those with delivered_at
    link,             \* "down", "up", or "dropped": open but not registered
    frames,           \* live frames in flight
    disk,             \* the state file
    unread,           \* it could not be read at the start, nor was it saved since
    last,             \* _last_seen_mentor_message_id
    seen,             \* _seen_mentor_message_order, oldest first
    pending,          \* _pending_receipt_message_ids
    unpersisted,      \* _unpersisted_rendered_message_ids
    inflight,         \* _receipt_ack_inflight_ids
    cursor,           \* _pending_receipt_after_id
    cards,            \* _mentor_items
    queue,            \* messages dispatched to the UI thread
    wake, retry,      \* a wake-up is queued; the retry task is alive
    pc, cur,          \* where the threads are, and with which message
    pass,             \* the WebSocket thread's scan of pending receipts
    shown,            \* messages the student has seen on a card
    missed,           \* history: messages that a failed catch-up would have brought
    crashes

server == <<sent, delivered, link, frames>>
record == <<disk, unread>>
state  == <<last, seen, pending, unpersisted>>
task   == <<wake, retry>>
vars   == <<server, record, state, inflight, cursor, cards, queue, task, pc, cur, pass, shown, missed, crashes>>

\* step: which loop of the scan an acknowledgement belongs to; caller: the
\* connect sequence or the retry task.
Pass == [step : {"none", "unpersisted", "page", "missing"}, caller : {"connect", "task"},
         todo : SUBSET Msg, observed : SUBSET Msg, after : 0..MaxMsg, full : BOOLEAN,
         pages : 0..MaxPages]

NoPass == [step |-> "none", caller |-> "task", todo |-> {}, observed |-> {}, after |-> 0,
           full |-> FALSE, pages |-> 0]

PC == {"idle", "persist", "tryack", "ack", "answer", "settled", "unsettled",
       "catchup", "fetch", "get", "scan"}

TypeOK ==
    /\ sent \in 0..MaxMsg /\ delivered \subseteq Msg
    /\ link \in {"down", "up", "dropped"} /\ frames \subseteq Msg
    /\ disk \in [last : 0..MaxMsg, seen : Seq(Msg), pending : SUBSET Msg]
    /\ unread \in BOOLEAN
    /\ last \in 0..MaxMsg /\ seen \in Seq(Msg) /\ Len(seen) <= SeenKept
    /\ pending \subseteq Msg /\ unpersisted \subseteq Msg /\ inflight \subseteq Msg
    /\ cursor \in 0..MaxMsg /\ cards \subseteq Msg
    /\ queue \in Seq(Msg) /\ Len(queue) <= MaxQueue
    /\ {wake, retry} \subseteq BOOLEAN
    /\ pc \in [Thread -> PC] /\ cur \in [Thread -> 0..MaxMsg]
    /\ pass \in Pass
    /\ shown \subseteq Msg /\ missed \subseteq Msg /\ crashes \in 0..MaxCrashes

Init ==
    /\ sent = 0 /\ delivered = {} /\ link = "down" /\ frames = {}
    /\ disk = [last |-> 0, seen |-> <<>>, pending |-> {}] /\ unread = FALSE
    /\ last = 0 /\ seen = <<>> /\ pending = {} /\ unpersisted = {} /\ inflight = {}
    /\ cursor = 0 /\ cards = {} /\ queue = <<>> /\ wake = FALSE /\ retry = FALSE
    /\ pc = [t \in Thread |-> "idle"] /\ cur = [t \in Thread |-> 0]
    /\ pass = NoPass /\ shown = {} /\ missed = {} /\ crashes = 0

-----------------------------------------------------------------------------
(* The server and the connection. *)

Undelivered(after) == {m \in 1..sent : m \notin delivered /\ m > after}

\* MessageService.send: commit, then one attempt to transmit.
SendMessage ==
    /\ sent < MaxMsg
    /\ sent' = sent + 1
    /\ \/ link = "up" /\ frames' = frames \cup {sent + 1} /\ link' = link
       \/ link = "up" /\ link' = "dropped" /\ frames' = frames
       \/ link # "up" /\ UNCHANGED <<link, frames>>
    /\ UNCHANGED <<delivered, record, state, inflight, cursor, cards, queue, task, pc, cur, pass, shown, missed, crashes>>

Disconnect ==
    /\ link # "down"
    /\ link' = "down" /\ frames' = {}
    /\ UNCHANGED <<sent, delivered, record, state, inflight, cursor, cards, queue, task, pc, cur, pass, shown, missed, crashes>>

Goto(t, where) == pc' = [pc EXCEPT ![t] = where]

\* The work on the message of thread t ends.
Return(t, where) == Goto(t, where) /\ cur' = [cur EXCEPT ![t] = 0]

\* _ws_loop: connected; the catch-up asks for what is after the cursor.
Connect ==
    /\ link = "down" /\ pc["ws"] = "idle"
    /\ link' = "up"
    /\ Goto("ws", "catchup")
    /\ pass' = [NoPass EXCEPT !.caller = "connect", !.after = last]
    /\ UNCHANGED <<sent, delivered, frames, record, state, inflight, cursor, cards, queue, task, cur, shown, missed, crashes>>

\* The rows in the order of their ids.
InOrder(S) ==
    {q \in [1..Cardinality(S) -> S] : \A i, j \in 1..Cardinality(S) : i < j => q[i] < q[j]}

\* _fetch_mentor_catchup; an error is logged and the loop goes on.
Catchup ==
    /\ pc["ws"] = "catchup"
    /\ \/ /\ Len(queue) + Cardinality(Undelivered(pass.after)) <= MaxQueue
          /\ \E rows \in InOrder(Undelivered(pass.after)) : queue' = queue \o rows
          /\ UNCHANGED missed
       \/ queue' = queue /\ missed' = missed \cup Undelivered(pass.after)
    /\ Goto("ws", "fetch")
    /\ UNCHANGED <<server, record, state, inflight, cursor, cards, task, cur, pass, shown, crashes>>

\* A live frame is dispatched to the UI thread.
TakeFrame ==
    /\ pc["ws"] = "idle" /\ link # "down" /\ Len(queue) < MaxQueue
    /\ \E m \in frames :
          /\ \A k \in frames : m <= k
          /\ frames' = frames \ {m}
          /\ queue' = Append(queue, m)
    /\ UNCHANGED <<sent, delivered, link, record, state, inflight, cursor, cards, task, pc, cur, pass, shown, missed, crashes>>

-----------------------------------------------------------------------------
(* The state file. *)

Least(S) == CHOOSE m \in S : \A k \in S : m <= k

\* Mutant: renders that are not on disk do not hold the cursor back.
SnapshotKeepsCursor(l, s, p) == [last |-> l, seen |-> s, pending |-> p]

\* _save_mentor_message_state: the cursor stays before every render that is
\* not on record.
Snapshot(l, s, p) ==
    [last |-> IF unpersisted = {} \/ l < Least(unpersisted) THEN l ELSE Least(unpersisted) - 1,
     seen |-> s, pending |-> p]

\* Mutant: no id is ever evicted.
RememberAll(m) == IF Contains(seen, m) THEN seen ELSE Append(seen, m)

\* _remember_seen_mentor_message_id: the newest SeenKept ids.
Remember(m) ==
    LET order == IF Contains(seen, m) THEN seen ELSE Append(seen, m)
    IN  IF Len(order) > SeenKept THEN Tail(order) ELSE order

-----------------------------------------------------------------------------
(* The end of an operation of a thread, and where its caller continues. *)

HasPending == pending # {} \/ unpersisted # {}

\* _fetch_pending_mentor_receipts returns: the connect sequence starts the
\* retry task on TRUE, the task ends on FALSE.
EndFetch(result) ==
    /\ retry' = IF pass.caller = "connect" THEN retry \/ result ELSE result
    /\ Return("ws", "idle")
    /\ pass' = NoPass
    /\ wake' = wake

\* A persist or an acknowledgement did not succeed: the UI thread wakes the
\* retry task, the scan of unpersisted renders ends, the others go on.
NotDone(t) ==
    \/ /\ t = "ui"
       /\ Return(t, "idle")
       /\ wake' = TRUE
       /\ UNCHANGED <<retry, pass>>
    \/ /\ t = "ws" /\ pass.step = "unpersisted"
       /\ EndFetch(TRUE)
    \/ /\ t = "ws" /\ pass.step # "unpersisted"
       /\ Return(t, "scan")
       /\ UNCHANGED <<task, pass>>

Done(t) == Return(t, IF t = "ui" THEN "idle" ELSE "scan")

-----------------------------------------------------------------------------
(* Persisting a render, _persist_unpersisted_rendered_message. *)

\* Two attempts to save failed: memory is restored.
PersistFail(t) ==
    /\ pc[t] = "persist"
    /\ cur[t] \in unpersisted
    /\ SaveFaults
    /\ NotDone(t)
    /\ UNCHANGED <<server, record, state, inflight, cursor, cards, queue, shown, missed, crashes>>

Persist(t) ==
    LET m == cur[t]
        l == IF m > last THEN m ELSE last
    IN  /\ pc[t] = "persist"
        /\ \/ /\ m \in unpersisted
              /\ seen' = Remember(m) /\ last' = l
              /\ pending' = pending \cup {m}
              /\ unpersisted' = unpersisted \ {m}
              /\ disk' = Snapshot(l, Remember(m), pending \cup {m})
              /\ unread' = FALSE
           \/ /\ m \notin unpersisted
              /\ UNCHANGED <<state, record>>
        /\ Goto(t, "tryack")
        /\ UNCHANGED <<server, inflight, cursor, cards, queue, task, cur, pass, shown, missed, crashes>>

-----------------------------------------------------------------------------
(* _ack_mentor_message. *)

\* Mutant: any message may be acknowledged.
TryAckUnguarded(t) ==
    /\ pc[t] = "tryack"
    /\ inflight' = inflight \cup {cur[t]}
    /\ Goto(t, "ack")
    /\ UNCHANGED <<server, record, state, cursor, cards, queue, task, cur, pass, shown, missed, crashes>>

TryAck(t) ==
    /\ pc[t] = "tryack"
    /\ \/ /\ cur[t] \in pending \ inflight
          /\ inflight' = inflight \cup {cur[t]}
          /\ Goto(t, "ack")
          /\ UNCHANGED <<task, pass, cur>>
       \/ /\ cur[t] \notin pending \ inflight
          /\ NotDone(t)
          /\ inflight' = inflight
    /\ UNCHANGED <<server, record, state, cursor, cards, queue, shown, missed, crashes>>

\* MessageService.ack on the server.
ServerAck(t) ==
    /\ pc[t] = "ack"
    /\ delivered' = delivered \cup {cur[t]}
    /\ Goto(t, "answer")
    /\ UNCHANGED <<sent, link, frames, record, state, inflight, cursor, cards, queue, task, cur, pass, shown, missed, crashes>>

\* The request or the answer is lost.
AckFail(t) ==
    /\ pc[t] \in {"ack", "answer"}
    /\ Goto(t, "unsettled")
    /\ UNCHANGED <<server, record, state, inflight, cursor, cards, queue, task, cur, pass, shown, missed, crashes>>

\* The answer: the receipt is no longer pending, if that can be saved.
AckOk(t) ==
    /\ pc[t] = "answer"
    /\ \/ /\ pending' = pending \ {cur[t]}
          /\ disk' = Snapshot(last, seen, pending \ {cur[t]})
          /\ unread' = FALSE
       \/ SaveFaults /\ UNCHANGED <<pending, record>>
    /\ Goto(t, "settled")
    /\ UNCHANGED <<server, last, seen, unpersisted, inflight, cursor, cards, queue, task, cur, pass, shown, missed, crashes>>

EndAck(t) ==
    /\ pc[t] \in {"settled", "unsettled"}
    /\ inflight' = inflight \ {cur[t]}
    /\ \/ pc[t] = "settled" /\ Done(t) /\ UNCHANGED <<task, pass>>
       \/ pc[t] = "unsettled" /\ NotDone(t)
    /\ UNCHANGED <<server, record, state, cursor, cards, queue, shown, missed, crashes>>

-----------------------------------------------------------------------------
(* The UI thread, _handle_mentor_message.  Only this thread renders. *)

Known(m) == m \in unpersisted \/ Contains(seen, m) \/ m \in pending

\* A repeated message is persisted or acknowledged, or ignored.
HandleKnown ==
    /\ pc["ui"] = "idle" /\ queue # <<>>
    /\ LET m == Head(queue) IN
       /\ Known(m) \/ m <= last
       /\ \/ /\ m \in unpersisted \cup pending
             /\ cur' = [cur EXCEPT !["ui"] = m]
             /\ Goto("ui", IF m \in unpersisted THEN "persist" ELSE "tryack")
          \/ m \notin unpersisted \cup pending /\ UNCHANGED <<pc, cur>>
    /\ queue' = Tail(queue)
    /\ UNCHANGED <<server, record, state, inflight, cursor, cards, task, pass, shown, missed, crashes>>

\* Mutant: the cursor is not consulted.
RenderIgnoresCursor ==
    /\ pc["ui"] = "idle" /\ queue # <<>>
    /\ LET m == Head(queue) IN
       /\ ~Known(m)
       /\ cards' = cards \cup {m}
       /\ shown' = shown \cup cards'
       /\ unpersisted' = unpersisted \cup {m}
       /\ cur' = [cur EXCEPT !["ui"] = m]
    /\ Goto("ui", "persist")
    /\ queue' = Tail(queue)
    /\ UNCHANGED <<server, record, last, seen, pending, inflight, cursor, task, pass, missed, crashes>>

\* Mutant: a message counts as rendered whether or not its card was built.
RenderUnchecked ==
    /\ pc["ui"] = "idle" /\ queue # <<>>
    /\ LET m == Head(queue) IN
       /\ ~Known(m) /\ m > last
       /\ cards' = cards \cup {m}
       /\ shown' \in {shown, shown \cup cards'}
       /\ unpersisted' = unpersisted \cup {m}
       /\ cur' = [cur EXCEPT !["ui"] = m]
    /\ Goto("ui", "persist")
    /\ queue' = Tail(queue)
    /\ UNCHANGED <<server, record, last, seen, pending, inflight, cursor, task, pass, missed, crashes>>

\* A new message: all cards are rebuilt.
Render ==
    /\ pc["ui"] = "idle" /\ queue # <<>>
    /\ LET m == Head(queue) IN
       /\ ~Known(m) /\ m > last
       /\ cards' = cards \cup {m}
       /\ shown' = shown \cup cards'
       /\ unpersisted' = unpersisted \cup {m}
       /\ cur' = [cur EXCEPT !["ui"] = m]
    /\ Goto("ui", "persist")
    /\ queue' = Tail(queue)
    /\ UNCHANGED <<server, record, last, seen, pending, inflight, cursor, task, pass, missed, crashes>>

RenderFail ==
    /\ RenderFaults
    /\ pc["ui"] = "idle" /\ queue # <<>>
    /\ ~Known(Head(queue)) /\ Head(queue) > last
    /\ cards' = cards \cup {Head(queue)}
    /\ queue' = Tail(queue)
    /\ UNCHANGED <<server, record, state, inflight, cursor, task, pc, cur, pass, shown, missed, crashes>>

-----------------------------------------------------------------------------
(* The scan of the WebSocket thread, _fetch_pending_mentor_receipts. *)

\* The DirectLimit first of them; ids are taken in row order.
Limited(S) == {m \in S : Cardinality({k \in S : k < m}) < DirectLimit}

BeginFetch ==
    /\ pc["ws"] = "fetch"
    /\ \/ ~HasPending /\ EndFetch(FALSE)
       \/ /\ HasPending
          /\ pass' = [pass EXCEPT !.step = "unpersisted", !.todo = Limited(unpersisted)]
          /\ Goto("ws", "scan")
          /\ UNCHANGED task
    /\ UNCHANGED <<server, record, state, inflight, cursor, cards, queue, cur, shown, missed, crashes>>

\* The next message of the current loop.
ScanNext ==
    /\ pc["ws"] = "scan"
    /\ \E m \in pass.todo :
          /\ \A k \in pass.todo : m <= k
          /\ \/ /\ pass.step = "page" /\ m \notin pending
                /\ pass' = [pass EXCEPT !.todo = @ \ {m}]
                /\ UNCHANGED <<pc, cur>>
             \/ /\ pass.step # "page" \/ m \in pending
                /\ pass' = [pass EXCEPT !.todo = @ \ {m},
                                        !.observed = IF pass.step = "page" THEN @ \cup {m} ELSE @]
                /\ cur' = [cur EXCEPT !["ws"] = m]
                /\ Goto("ws", IF pass.step = "unpersisted" THEN "persist" ELSE "tryack")
    /\ UNCHANGED <<server, record, state, inflight, cursor, cards, queue, task, shown, missed, crashes>>

\* All earlier renders are on record: scan the server's pages.
UnpersistedEnd ==
    /\ pc["ws"] = "scan" /\ pass.step = "unpersisted" /\ pass.todo = {}
    /\ \/ /\ unpersisted # {} \/ pending = {}
          /\ EndFetch(unpersisted # {})
       \/ /\ unpersisted = {} /\ pending # {}
          /\ pass' = [pass EXCEPT !.step = "page", !.after = cursor]
          /\ Goto("ws", "get")
          /\ UNCHANGED task
    /\ UNCHANGED <<server, record, state, inflight, cursor, cards, queue, cur, shown, missed, crashes>>

GetFail ==
    /\ pc["ws"] = "get"
    /\ EndFetch(HasPending)
    /\ UNCHANGED <<server, record, state, inflight, cursor, cards, queue, cur, shown, missed, crashes>>

\* _retry_missing_pending_receipts: what a full scan did not list.
BeginMissing ==
    /\ pass' = [pass EXCEPT !.step = "missing", !.todo = Limited(pending \ pass.observed)]
    /\ Goto("ws", "scan")

PageAfter(a) ==
    {m \in Undelivered(a) : Cardinality({k \in Undelivered(a) : k < m}) < PageSize}

GetPage ==
    LET page == PageAfter(pass.after) IN
    /\ pc["ws"] = "get"
    /\ \/ page = {} /\ cursor' = 0 /\ BeginMissing
       \/ \E newest \in page :
             /\ \A m \in page : m <= newest
             /\ pass' = [pass EXCEPT !.todo = page, !.after = newest, !.pages = @ + 1,
                                     !.full = Cardinality(page) >= PageSize]
             /\ Goto("ws", "scan")
             /\ cursor' = cursor
    /\ UNCHANGED <<server, record, state, inflight, cards, queue, task, cur, shown, missed, crashes>>

\* A short page ends the scan; after MaxPages it resumes from the cursor later.
PageEnd ==
    /\ pc["ws"] = "scan" /\ pass.step = "page" /\ pass.todo = {}
    /\ \/ ~pass.full /\ cursor' = 0 /\ BeginMissing /\ UNCHANGED task
       \/ /\ pass.full
          /\ cursor' = pass.after
          /\ \/ pass.pages < MaxPages /\ Goto("ws", "get") /\ UNCHANGED <<task, pass>>
             \/ pass.pages = MaxPages /\ EndFetch(HasPending)
    /\ UNCHANGED <<server, record, state, inflight, cards, queue, cur, shown, missed, crashes>>

MissingEnd ==
    /\ pc["ws"] = "scan" /\ pass.step = "missing" /\ pass.todo = {}
    /\ EndFetch(HasPending)
    /\ UNCHANGED <<server, record, state, inflight, cursor, cards, queue, cur, shown, missed, crashes>>

\* Mutant: a wake-up is dropped.
WakeIgnored ==
    /\ pc["ws"] = "idle" /\ wake
    /\ wake' = FALSE /\ retry' = retry
    /\ UNCHANGED <<server, record, state, inflight, cursor, cards, queue, pc, cur, pass, shown, missed, crashes>>

\* _start_pending_receipt_retry_task, called on the loop.
WakeRetry ==
    /\ pc["ws"] = "idle" /\ wake
    /\ wake' = FALSE /\ retry' = TRUE
    /\ UNCHANGED <<server, record, state, inflight, cursor, cards, queue, pc, cur, pass, shown, missed, crashes>>

\* _retry_pending_receipts_until_settled, after its delay.
RetryPass ==
    /\ pc["ws"] = "idle" /\ retry
    /\ \/ HasPending /\ Goto("ws", "fetch") /\ retry' = retry
       \/ ~HasPending /\ pc' = pc /\ retry' = FALSE
    /\ UNCHANGED <<server, record, state, inflight, cursor, cards, queue, wake, cur, pass, shown, missed, crashes>>

-----------------------------------------------------------------------------

\* The window quits or dies; it starts again from the state file, or with
\* nothing, if that cannot be read: the next save then replaces the record.
Crash ==
    /\ crashes < MaxCrashes
    /\ crashes' = crashes + 1
    /\ \/ /\ last' = disk.last /\ seen' = disk.seen /\ pending' = disk.pending
          /\ unread' = FALSE
       \/ /\ last' = 0 /\ seen' = <<>> /\ pending' = {}
          /\ unread' = TRUE
    /\ disk' = disk
    /\ unpersisted' = {} /\ inflight' = {} /\ cursor' = 0 /\ cards' = {} /\ queue' = <<>>
    /\ wake' = FALSE /\ retry' = FALSE
    /\ pc' = [t \in Thread |-> "idle"] /\ cur' = [t \in Thread |-> 0] /\ pass' = NoPass
    /\ link' = "down" /\ frames' = {}
    /\ UNCHANGED <<sent, delivered, shown, missed>>

Receipt(t) ==
    Persist(t) \/ PersistFail(t) \/ TryAck(t) \/ ServerAck(t) \/ AckFail(t) \/ AckOk(t) \/ EndAck(t)

Ui == HandleKnown \/ Render \/ RenderFail \/ Receipt("ui")

Ws ==
    \/ Catchup \/ TakeFrame
    \/ BeginFetch \/ ScanNext \/ UnpersistedEnd \/ GetFail \/ GetPage \/ PageEnd \/ MissingEnd
    \/ WakeRetry \/ RetryPass
    \/ Receipt("ws")

Next == SendMessage \/ Disconnect \/ Connect \/ Ui \/ Ws \/ Crash

Spec == Init /\ [][Next]_vars

\* Both threads run (WF), and what is repeated for ever succeeds in the end
\* (SF): connecting, saving a render, fetching a page, the server getting a
\* receipt.
Fairness ==
    /\ WF_vars(Ui) /\ WF_vars(Ws)
    /\ SF_vars(Connect) /\ SF_vars(WakeRetry) /\ SF_vars(RetryPass)
    /\ SF_vars(GetPage)
    /\ \A m \in Msg :
          /\ SF_vars(cur["ws"] = m /\ Persist("ws"))
          /\ \A t \in Thread : SF_vars(cur[t] = m /\ ServerAck(t))

FairSpec == Spec /\ Fairness

-----------------------------------------------------------------------------
(* Properties. *)

\* A receipt is only ever sent for a message whose render is on disk: then a
\* crash at any point leaves a record from which the receipt is repeated.
AckOnlyRecorded ==
    \A t \in Thread : pc[t] \in {"ack", "answer"} => cur[t] \in disk.pending

\* A render that could not be recorded is caught up again after a restart: the
\* cursor on disk stays before it, whichever thread saves whatever else (unless
\* the cursor there is still that of an earlier process, which this one could
\* not read); and what is on disk as seen is there as pending too, or the server
\* has the receipt.
NothingForgotten ==
    /\ unread \/ \A m \in unpersisted : disk.last < m
    /\ \A m \in Msg : Contains(disk.seen, m) => m \in disk.pending \cup delivered

\* A message is rendered at most once in the life of the process, although the
\* dedup window forgets ids; and a later process that could read the record, or
\* has saved its own, does not render it again while it is on disk as
\* unconfirmed or the cursor on disk has passed it.
RenderedOnce ==
    [][\A m \in unpersisted' \ unpersisted :
          m \notin cards /\ (unread \/ (m \notin disk.pending /\ m > disk.last))]_vars

\* Every render is confirmed to the server in the end, wherever the page
\* cursor stands, whatever answers and saves failed: no wake-up is lost.  Only
\* a restart may forget a render: one that was never recorded, or one whose
\* record could not be read and was replaced.
ReceiptsSettle ==
    \A m \in Msg :
       m \in unpersisted \cup disk.pending
          ~> m \in delivered \/ m \notin unpersisted \cup disk.pending \/ unread

\* At-least-once delivery, up to failed catch-ups: the cursor (what it has
\* passed is never caught up again) passes a message that was not shown only
\* if a catch-up that would have brought it failed.
SkippedOnlyIfMissed == \A m \in 1..last : m \in shown \cup missed

=============================================================================
