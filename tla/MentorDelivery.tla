--------------------------- MODULE MentorDelivery ---------------------------
(***************************************************************************)
(* Delivery of mentor messages to one student: the Center Server's         *)
(* mentor_messages table and its two receipt endpoints, the live WebSocket *)
(* frame, and the resident student agent, whose two asyncio tasks share    *)
(* one StudentCoordinator.                                                 *)
(*                                                                         *)
(*   "spool"  polls the backlog once per cycle (StudentAgent._spool_loop)  *)
(*   "ws"     pulls the backlog on every (re)connect and then handles live *)
(*            frames (StudentAgent._ws_loop)                               *)
(*                                                                         *)
(* A task gives up control only where the code awaits: the backlog         *)
(* request, the message handler and the receipt request.  A message is its *)
(* autoincrement row id.                                                   *)
(***************************************************************************)
EXTENDS Naturals, FiniteSets

CONSTANTS
    MaxMsg,       \* bound: messages the mentor sends
    PageSize,     \* MAX_PENDING_MESSAGES_PER_PULL, also the retry limit
    MaxPages,     \* MAX_PENDING_MESSAGE_PAGES_PER_PULL
    AckedKept,    \* ReceiptLedger._MAX_ACKED_PER_STUDENT
    MaxCrashes,   \* bound: restarts of the agent process
    HasHandler,   \* is a message_handler injected into the coordinator?
    HasWS,        \* does the transport offer open_ws?
    WriteFaults,  \* may a write of the receipt ledger fail?
    ReadFaults    \* may a read of the receipt ledger fail?

ASSUME BoundsAssumption ==
    /\ MaxMsg \in Nat
    /\ PageSize \in Nat \ {0}
    /\ MaxPages \in Nat \ {0}
    /\ AckedKept \in Nat \ {0}
    /\ MaxCrashes \in Nat

ASSUME SwitchAssumption ==
    {HasHandler, HasWS, WriteFaults, ReadFaults} \subseteq BOOLEAN

Msg  == 1..MaxMsg
Task == {"spool", "ws"}

VARIABLES
    \* the server: durable rows, and what was published to mentors
    sent,        \* rows 1..sent were persisted
    gone,        \* rows removed by delete_student
    delivered,   \* rows whose delivered_at was set
    announced,   \* number of message_delivered events published, per row
    \* the WebSocket
    link,        \* "down", "up", or "dropped": open but no longer registered
    frames,      \* live frames in flight to the agent, oldest first by id
    \* the agent's durable receipt ledger
    ledger,      \* "none" (no row), "rendered" or "acked"
    rank,        \* recency order of updated_at_ns (larger is more recent)
    \* the coordinator's memory
    seen, rendered, inflight,
    cursor,      \* _pending_message_after_id
    \* the tasks
    pc, cur, ctx, todo, after, full, pages,
    \* bookkeeping of the model
    shown,       \* messages the handler has put in front of the student
    crashes

server  == <<sent, gone, delivered, announced>>
wire    == <<link, frames>>
durable == <<ledger, rank>>
memory  == <<seen, rendered, inflight, cursor>>
locals  == <<cur, ctx, todo, after, full, pages>>
ghost   == <<shown, crashes>>
vars    == <<server, wire, durable, memory, pc, locals, ghost>>

PC  == {"idle", "fetch", "page", "render", "record", "receipt", "confirmed", "retry"}
Ctx == {"frame", "page", "retry"}

TypeOK ==
    /\ sent \in 0..MaxMsg
    /\ gone \subseteq Msg
    /\ delivered \subseteq Msg
    /\ announced \in [Msg -> Nat]
    /\ link \in {"down", "up", "dropped"}
    /\ frames \subseteq Msg
    /\ ledger \in [Msg -> {"none", "rendered", "acked"}]
    /\ rank \in [Msg -> Nat]
    /\ seen \subseteq Msg
    /\ rendered \subseteq Msg
    /\ inflight \subseteq Msg
    /\ cursor \in 0..MaxMsg
    /\ pc \in [Task -> PC]
    /\ cur \in [Task -> 0..MaxMsg]
    /\ ctx \in [Task -> Ctx]
    /\ todo \in [Task -> SUBSET Msg]
    /\ after \in [Task -> 0..MaxMsg]
    /\ full \in [Task -> BOOLEAN]
    /\ pages \in [Task -> Nat]
    /\ shown \subseteq Msg
    /\ crashes \in Nat

Init ==
    /\ sent = 0 /\ gone = {} /\ delivered = {}
    /\ announced = [m \in Msg |-> 0]
    /\ link = "down" /\ frames = {}
    /\ ledger = [m \in Msg |-> "none"]
    /\ rank = [m \in Msg |-> m]
    /\ seen = {} /\ rendered = {} /\ inflight = {} /\ cursor = 0
    /\ pc = [t \in Task |-> "idle"]
    /\ cur = [t \in Task |-> 0]
    /\ ctx = [t \in Task |-> "page"]
    /\ todo = [t \in Task |-> {}]
    /\ after = [t \in Task |-> 0]
    /\ full = [t \in Task |-> FALSE]
    /\ pages = [t \in Task |-> 0]
    /\ shown = {} /\ crashes = 0

-----------------------------------------------------------------------------
(* The server's tables. *)

\* Rows with delivered_at NULL, what list_pending_message_receipts selects.
Pending == {m \in 1..sent : m \notin gone /\ m \notin delivered}

\* One page: the PageSize oldest pending rows after the cursor.
PageAfter(a) ==
    {m \in Pending : /\ m > a
                     /\ Cardinality({k \in Pending : a < k /\ k <= m}) <= PageSize}

\* WSRegistry: a frame goes to every registered socket.  A failed send drops
\* the socket from the registry without closing it.
Transmit(m) ==
    \/ /\ link = "up"
       /\ frames' = frames \cup {m}
       /\ link' = link
    \/ /\ link = "up"
       /\ link' = "dropped"
       /\ frames' = frames
    \/ /\ link # "up"
       /\ UNCHANGED wire

\* MessageService.send: the row is committed before it is transmitted.
SendMessage ==
    /\ sent < MaxMsg
    /\ sent' = sent + 1
    /\ Transmit(sent + 1)
    /\ UNCHANGED <<gone, delivered, announced, durable, memory, pc, locals, ghost>>

\* Store.delete_student; ids are never reused (AUTOINCREMENT).
DeleteStudent ==
    /\ gone # 1..sent
    /\ gone' = 1..sent
    /\ UNCHANGED <<sent, delivered, announced, wire, durable, memory, pc, locals, ghost>>

-----------------------------------------------------------------------------
(* The receipt ledger. *)

\* updated_at_ns becomes the newest; only the order of the rows matters.
Touch(m) ==
    rank' = [k \in Msg |-> IF k = m THEN MaxMsg
                           ELSE IF rank[k] > rank[m] THEN rank[k] - 1 ELSE rank[k]]

\* ReceiptLedger._mark "rendered": never downgrades an acked row.
MarkRendered(m) ==
    /\ ledger' = [ledger EXCEPT ![m] = IF @ = "acked" THEN "acked" ELSE "rendered"]
    /\ Touch(m)

\* ReceiptLedger._mark "acked": then only the AckedKept newest acked rows stay.
MarkAcked(m) ==
    LET others == {k \in Msg \ {m} : ledger[k] = "acked"}
        stale  == {k \in others : Cardinality({j \in others : rank[j] > rank[k]}) + 1 >= AckedKept}
    IN  /\ ledger' = [k \in Msg |-> IF k = m THEN "acked"
                                    ELSE IF k \in stale THEN "none" ELSE ledger[k]]
        /\ Touch(m)

\* Mutant: the query selects the confirmed rows.
OldestAcked == {m \in Msg : ledger[m] = "acked"}

\* ReceiptLedger.rendered_message_ids: the PageSize oldest unconfirmed rows.
OldestRendered ==
    LET rows == {m \in Msg : ledger[m] = "rendered"}
    IN  {m \in rows : Cardinality({k \in rows : rank[k] < rank[m]}) < PageSize}

\* What the retry pass is given: a read that raises counts as "no rows".
RetryLists == {OldestRendered} \cup (IF ReadFaults THEN {{}} ELSE {})

-----------------------------------------------------------------------------
(* StudentCoordinator.pull_pending_messages. *)

BeginPull(t) ==
    /\ pc' = [pc EXCEPT ![t] = "fetch"]
    /\ after' = [after EXCEPT ![t] = cursor]

\* The locals of a pull whose loop has ended.
EndPull(t) ==
    /\ after' = [after EXCEPT ![t] = 0]
    /\ full' = [full EXCEPT ![t] = FALSE]
    /\ pages' = [pages EXCEPT ![t] = 0]

\* The end of the backlog: the cursor is reset and the durable unconfirmed
\* receipts are retried.
EndBacklog(t) ==
    /\ cursor' = 0
    /\ \E list \in RetryLists : todo' = [todo EXCEPT ![t] = list]
    /\ pc' = [pc EXCEPT ![t] = "retry"]
    /\ EndPull(t)

\* StudentAgent.one_cycle, after the spool was flushed.
PollPull ==
    /\ pc["spool"] = "idle"
    /\ BeginPull("spool")
    /\ UNCHANGED <<server, wire, durable, memory, cur, ctx, todo, full, pages, ghost>>

\* The socket is accepted and registered, and the ws task pulls first.
Connect ==
    /\ HasWS
    /\ link = "down"
    /\ pc["ws"] = "idle"
    /\ link' = "up"
    /\ BeginPull("ws")
    /\ UNCHANGED <<server, frames, durable, memory, cur, ctx, todo, full, pages, ghost>>

\* The connection breaks (or the server restarts): frames in flight are lost.
Disconnect ==
    /\ link # "down"
    /\ link' = "down"
    /\ frames' = {}
    /\ UNCHANGED <<server, durable, memory, pc, locals, ghost>>

\* Mutant: the cursor is not reset at the end of the backlog.
FetchEmptyKeepsCursor(t) ==
    /\ pc[t] = "fetch"
    /\ PageAfter(after[t]) = {}
    /\ \E list \in RetryLists : todo' = [todo EXCEPT ![t] = list]
    /\ pc' = [pc EXCEPT ![t] = "retry"]
    /\ EndPull(t)
    /\ UNCHANGED <<server, wire, durable, memory, cur, ctx, ghost>>

\* An empty answer ends the pull.
FetchEmpty(t) ==
    /\ pc[t] = "fetch"
    /\ PageAfter(after[t]) = {}
    /\ EndBacklog(t)
    /\ UNCHANGED <<server, wire, durable, seen, rendered, inflight, cur, ctx, ghost>>

FetchPage(t) ==
    LET page == PageAfter(after[t]) IN
    /\ pc[t] = "fetch"
    /\ \E last \in page :
          /\ \A m \in page : m <= last
          /\ after' = [after EXCEPT ![t] = last]
    /\ todo' = [todo EXCEPT ![t] = page]
    /\ full' = [full EXCEPT ![t] = Cardinality(page) >= PageSize]
    /\ pages' = [pages EXCEPT ![t] = @ + 1]
    /\ pc' = [pc EXCEPT ![t] = "page"]
    /\ UNCHANGED <<server, wire, durable, memory, cur, ctx, ghost>>

\* A transport error ends the pull; the cursor stays where it is.
FetchFail(t) ==
    /\ pc[t] = "fetch"
    /\ pc' = [pc EXCEPT ![t] = "idle"]
    /\ EndPull(t)
    /\ UNCHANGED <<server, wire, durable, memory, cur, ctx, todo, ghost>>

\* After the last row of a page: stop at a short page or at MaxPages, else
\* ask for the next page.
EndPage(t) ==
    /\ pc[t] = "page"
    /\ todo[t] = {}
    /\ \/ ~full[t] /\ EndBacklog(t)
       \/ /\ full[t]
          /\ cursor' = after[t]
          /\ \/ /\ pages[t] < MaxPages
                /\ pc' = [pc EXCEPT ![t] = "fetch"]
                /\ UNCHANGED <<after, full, pages>>
             \/ /\ pages[t] >= MaxPages
                /\ pc' = [pc EXCEPT ![t] = "idle"]
                /\ EndPull(t)
          /\ todo' = todo
    /\ UNCHANGED <<server, wire, durable, seen, rendered, inflight, cur, ctx, ghost>>

-----------------------------------------------------------------------------
(* StudentCoordinator.handle_message. *)

\* What ledger.status returns; a read that raises counts as "no row".
Status(m) == IF ReadFaults THEN {ledger[m], "none"} ELSE {ledger[m]}

\* Mutant: the receipt is sent before the handler has run.
BeginHandleAckFirst(t, m, context, return) ==
    /\ m \notin seen \cup inflight
    /\ inflight' = inflight \cup {m}
    /\ cur' = [cur EXCEPT ![t] = m]
    /\ ctx' = [ctx EXCEPT ![t] = context]
    /\ pc' = [pc EXCEPT ![t] = "receipt"]
    /\ UNCHANGED <<seen, rendered>>

\* Mutant: an earlier render that is only on record is not looked up.
BeginHandleForgetsRender(t, m, context, return) ==
    \/ /\ m \in seen \cup inflight
       /\ pc' = [pc EXCEPT ![t] = return]
       /\ UNCHANGED <<seen, rendered, inflight, cur, ctx>>
    \/ /\ m \notin seen \cup inflight
       /\ inflight' = inflight \cup {m}
       /\ cur' = [cur EXCEPT ![t] = m]
       /\ ctx' = [ctx EXCEPT ![t] = context]
       /\ pc' = [pc EXCEPT ![t] = IF m \in rendered THEN "receipt" ELSE "render"]
       /\ UNCHANGED <<seen, rendered>>

\* Everything up to the first await: skip a message that is confirmed or in
\* flight, else enter at the handler, or at the receipt of a known render.
BeginHandle(t, m, context, return) ==
    \E known \in Status(m) :
       LET seenNow     == IF known = "acked" THEN seen \cup {m} ELSE seen
           renderedNow == IF known = "rendered" THEN rendered \cup {m} ELSE rendered
       IN  /\ seen' = seenNow
           /\ rendered' = renderedNow
           /\ \/ /\ m \in seenNow \cup inflight
                 /\ pc' = [pc EXCEPT ![t] = return]
                 /\ UNCHANGED <<inflight, cur, ctx>>
              \/ /\ m \notin seenNow \cup inflight
                 /\ inflight' = inflight \cup {m}
                 /\ cur' = [cur EXCEPT ![t] = m]
                 /\ ctx' = [ctx EXCEPT ![t] = context]
                 /\ pc' = [pc EXCEPT ![t] = IF m \in renderedNow THEN "receipt"
                                            ELSE IF HasHandler THEN "render" ELSE "record"]

\* The next row of the page, in id order.
TakeRow(t) ==
    /\ pc[t] = "page"
    /\ \E m \in todo[t] :
          /\ \A k \in todo[t] : m <= k
          /\ todo' = [todo EXCEPT ![t] = @ \ {m}]
          /\ BeginHandle(t, m, "page", "page")
    /\ UNCHANGED <<server, wire, durable, cursor, after, full, pages, ghost>>

\* The ws task receives the next live frame.
TakeFrame ==
    /\ pc["ws"] = "idle"
    /\ link # "down"
    /\ \E m \in frames :
          /\ \A k \in frames : m <= k
          /\ frames' = frames \ {m}
          /\ BeginHandle("ws", m, "frame", "idle")
    /\ UNCHANGED <<server, link, durable, cursor, todo, after, full, pages, ghost>>

\* The awaited handler puts the message in front of the student ...
Show(t) ==
    /\ pc[t] = "render"
    /\ shown' = shown \cup {cur[t]}
    /\ pc' = [pc EXCEPT ![t] = "record"]
    /\ UNCHANGED <<server, wire, durable, memory, locals, crashes>>

\* Mutant: the message stays in flight when its handling fails.
LeaveKeepsInflight(t) ==
    /\ pc' = [pc EXCEPT ![t] = IF ctx[t] = "frame" THEN "idle" ELSE ctx[t]]
    /\ cur' = [cur EXCEPT ![t] = 0]
    /\ ctx' = [ctx EXCEPT ![t] = "page"]
    /\ inflight' = inflight

\* Mutant: the ws task does not return to its receive loop after a frame.
LeaveIgnoresCaller(t) ==
    /\ pc' = [pc EXCEPT ![t] = ctx[t]]
    /\ cur' = [cur EXCEPT ![t] = 0]
    /\ ctx' = [ctx EXCEPT ![t] = "page"]
    /\ inflight' = inflight \ {cur[t]}

\* The "finally" of handle_message, and where its caller continues.
Leave(t) ==
    /\ pc' = [pc EXCEPT ![t] = IF ctx[t] = "frame" THEN "idle" ELSE ctx[t]]
    /\ cur' = [cur EXCEPT ![t] = 0]
    /\ ctx' = [ctx EXCEPT ![t] = "page"]
    /\ inflight' = IF ctx[t] = "retry" THEN inflight ELSE inflight \ {cur[t]}

\* ... and raises before or after doing so,
HandlerFail(t) ==
    /\ \/ pc[t] = "render"
       \/ pc[t] = "record" /\ HasHandler
    /\ Leave(t)
    /\ UNCHANGED <<server, wire, durable, seen, rendered, cursor, todo, after, full, pages, ghost>>

\* Mutant: the render is remembered, but not written to the ledger.
RecordRenderInMemory(t) ==
    /\ pc[t] = "record"
    /\ rendered' = rendered \cup {cur[t]}
    /\ pc' = [pc EXCEPT ![t] = "receipt"]
    /\ UNCHANGED <<server, wire, durable, seen, inflight, cursor, locals, ghost>>

\* or returns, and the render is recorded before the receipt is sent.
RecordRender(t) ==
    /\ pc[t] = "record"
    /\ MarkRendered(cur[t])
    /\ rendered' = rendered \cup {cur[t]}
    /\ pc' = [pc EXCEPT ![t] = "receipt"]
    /\ UNCHANGED <<server, wire, seen, inflight, cursor, locals, ghost>>

RecordRenderFails(t) ==
    /\ WriteFaults
    /\ pc[t] = "record"
    /\ Leave(t)
    /\ UNCHANGED <<server, wire, durable, seen, rendered, cursor, todo, after, full, pages, ghost>>

-----------------------------------------------------------------------------
(* Receipts: _send_message_receipt and MessageService.ack. *)

Row(m) == m \in 1..sent /\ m \notin gone

\* MessageService.ack up to the commit, which it reaches without an await.
CommitReceipt(m) == delivered' = delivered \cup {m}

\* Mutant: every receipt is published.
ServerAckAlwaysPublishes(t) ==
    /\ pc[t] = "receipt"
    /\ Row(cur[t])
    /\ CommitReceipt(cur[t])
    /\ announced' = [announced EXCEPT ![cur[t]] = @ + 1]
    /\ pc' = [pc EXCEPT ![t] = "confirmed"]
    /\ UNCHANGED <<sent, gone, wire, durable, memory, locals, ghost>>

\* The row exists: it is marked, and the first receipt is published.
ServerAck(t) ==
    /\ pc[t] = "receipt"
    /\ Row(cur[t])
    /\ CommitReceipt(cur[t])
    /\ announced' = IF cur[t] \in delivered THEN announced
                    ELSE [announced EXCEPT ![cur[t]] = @ + 1]
    /\ pc' = [pc EXCEPT ![t] = "confirmed"]
    /\ UNCHANGED <<sent, gone, wire, durable, memory, locals, ghost>>

\* The server dies between the commit and the publication.
ServerAckCrash(t) ==
    /\ pc[t] = "receipt"
    /\ Row(cur[t])
    /\ CommitReceipt(cur[t])
    /\ link' = "down"
    /\ frames' = {}
    /\ Leave(t)
    /\ UNCHANGED <<sent, gone, announced, durable, seen, rendered, cursor, todo, after, full, pages, ghost>>

\* Mutant: a message counts as confirmed although its receipt failed.
ReceiptFailRemembers(t) ==
    /\ pc[t] \in {"receipt", "confirmed"}
    /\ Leave(t)
    /\ seen' = seen \cup {cur[t]}
    /\ UNCHANGED <<server, wire, durable, rendered, cursor, todo, after, full, pages, ghost>>

\* The request or the answer is lost, or the row does not exist (404).
ReceiptFail(t) ==
    /\ pc[t] \in {"receipt", "confirmed"}
    /\ Leave(t)
    /\ UNCHANGED <<server, wire, durable, seen, rendered, cursor, todo, after, full, pages, ghost>>

\* The answer arrives: the ledger is updated if it can be written.
ReceiptOk(t) ==
    /\ pc[t] = "confirmed"
    /\ \/ MarkAcked(cur[t])
       \/ WriteFaults /\ UNCHANGED durable
    /\ seen' = seen \cup {cur[t]}
    /\ Leave(t)
    /\ UNCHANGED <<server, wire, rendered, cursor, todo, after, full, pages, ghost>>

\* _retry_durable_rendered_receipts: any order stands for oldest first.
TakeRetry(t) ==
    /\ pc[t] = "retry"
    /\ \E m \in todo[t] :
          /\ todo' = [todo EXCEPT ![t] = @ \ {m}]
          /\ cur' = [cur EXCEPT ![t] = m]
    /\ ctx' = [ctx EXCEPT ![t] = "retry"]
    /\ pc' = [pc EXCEPT ![t] = "receipt"]
    /\ UNCHANGED <<server, wire, durable, memory, after, full, pages, ghost>>

EndRetry(t) ==
    /\ pc[t] = "retry"
    /\ todo[t] = {}
    /\ pc' = [pc EXCEPT ![t] = "idle"]
    /\ UNCHANGED <<server, wire, durable, memory, locals, ghost>>

-----------------------------------------------------------------------------

\* The agent process dies and is started again with an empty memory.
Crash ==
    /\ crashes < MaxCrashes
    /\ crashes' = crashes + 1
    /\ seen' = {} /\ rendered' = {} /\ inflight' = {} /\ cursor' = 0
    /\ pc' = [t \in Task |-> "idle"]
    /\ cur' = [t \in Task |-> 0]
    /\ ctx' = [t \in Task |-> "page"]
    /\ todo' = [t \in Task |-> {}]
    /\ after' = [t \in Task |-> 0]
    /\ full' = [t \in Task |-> FALSE]
    /\ pages' = [t \in Task |-> 0]
    /\ link' = "down" /\ frames' = {}
    /\ UNCHANGED <<server, durable, shown>>

Pull(t) == FetchEmpty(t) \/ FetchPage(t) \/ FetchFail(t) \/ EndPage(t) \/ TakeRow(t)

Handle(t) == Show(t) \/ HandlerFail(t) \/ RecordRender(t) \/ RecordRenderFails(t)

Receipt(t) ==
    \/ ServerAck(t) \/ ServerAckCrash(t) \/ ReceiptFail(t) \/ ReceiptOk(t)
    \/ TakeRetry(t) \/ EndRetry(t)

Next ==
    \/ SendMessage \/ DeleteStudent
    \/ PollPull \/ Connect \/ Disconnect \/ TakeFrame
    \/ \E t \in Task : Pull(t) \/ Handle(t) \/ Receipt(t)
    \/ Crash

Spec == Init /\ [][Next]_vars

\* Without open_ws the ws task returns at once.
RunningTasks == IF HasWS THEN Task ELSE {"spool"}

\* The agent keeps cycling (WF), and an operation that is retried for ever
\* succeeds in the end: the network, the handler and the ledger do not fail
\* for ever (SF).
Fairness ==
    /\ WF_vars(PollPull)
    /\ \A t \in RunningTasks :
          /\ WF_vars(Pull(t) \/ Handle(t) \/ Receipt(t))
          /\ SF_vars(FetchEmpty(t) \/ FetchPage(t))
          /\ SF_vars(EndBacklog(t) /\ (FetchEmpty(t) \/ EndPage(t)) /\ todo'[t] = OldestRendered)
          /\ SF_vars(Show(t))
          /\ SF_vars(RecordRender(t))
          /\ SF_vars(ServerAck(t))
          /\ SF_vars(ReceiptOk(t))

FairSpec == Spec /\ Fairness

-----------------------------------------------------------------------------
(* Safety. *)

\* The server never counts a message as delivered that the student's handler
\* did not show: the receipt is sent only after handler and ledger succeeded.
DeliveredWasShown == delivered \subseteq shown

\* The client never believes more than the server committed: a message in the
\* dedup cache or acked in the ledger has its delivered_at set, so dropping
\* it on the client cannot lose it, whatever answers were lost.
ConfirmedByServer ==
    \A m \in Msg : m \in seen \/ ledger[m] = "acked" => m \in delivered

\* A message whose render is on record, or whose receipt the server holds, is
\* never put in front of the student again, by either task, after any
\* restart and even after its ledger row was pruned.
NeverShownAgain ==
    \A t \in Task :
       pc[t] = "render" => ledger[cur[t]] = "none" /\ cur[t] \notin delivered

\* The in-flight set is exactly what the tasks are working on, and no two
\* tasks work on the same message: handle_message excludes itself and always
\* releases what it took.
Working(t) == ctx[t] # "retry" /\ pc[t] \in {"render", "record", "receipt", "confirmed"}
InflightExact ==
    /\ inflight = {cur[t] : t \in {u \in Task : Working(u)}}
    /\ \A t, u \in Task : t # u /\ Working(t) /\ Working(u) => cur[t] # cur[u]

\* Mentors are told about a delivery at most once, and never before it is
\* committed, however often the receipt is retried.
AnnouncedOnce ==
    \A m \in Msg : announced[m] <= (IF m \in delivered THEN 1 ELSE 0)

-----------------------------------------------------------------------------
(* What the mentor and the student may rely on: DeliveryContract. *)

ContractStatus ==
    [m \in Msg |-> IF m \in delivered THEN "confirmed"
                   ELSE IF m \in gone THEN "withdrawn"
                   ELSE IF ledger[m] # "none" THEN "rendered"
                   ELSE IF m <= sent THEN "sent" ELSE "unsent"]

Contract == INSTANCE DeliveryContract WITH status <- ContractStatus

\* The agent, the server and the network implement the contract: no restart,
\* lost answer or failed write takes a message back or confirms it unrendered.
ImplementsContract == Contract!ContractSpec

\* Every message that is sent is confirmed in the end, or withdrawn: the
\* backlog scan reaches it whatever page it is on and whatever was lost.
EveryMessageSettles ==
    \A m \in Msg : m <= sent ~> m \in delivered \cup gone

\* A render whose receipt answer was lost is confirmed to the ledger in the
\* end although the server no longer lists the message (unless the rows were
\* deleted: then the server answers 404 for ever).
ReceiptsSettle ==
    \A m \in Msg : ledger[m] = "rendered" ~> ledger[m] # "rendered" \/ gone # {}

=============================================================================
