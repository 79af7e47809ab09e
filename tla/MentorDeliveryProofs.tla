------------------------ MODULE MentorDeliveryProofs ------------------------
(***************************************************************************)
(* What TLAPS proves of MentorDelivery, for any number of messages, any    *)
(* page and ledger sizes, any number of restarts, and with or without      *)
(* ledger faults: its invariants, that it implements DeliveryContract, and *)
(* that a message is shown once.                                           *)
(***************************************************************************)
EXTENDS MentorDelivery, TLAPS

-----------------------------------------------------------------------------
(* Type correctness.  TypeOK is not inductive: the recency ranks of the     *)
(* ledger are only known to be numbers if a task that is about to write a   *)
(* row knows which one.                                                     *)

Busy == {"render", "record", "receipt", "confirmed"}

CurIsMsg == \A t \in Task : pc[t] \in Busy => cur[t] \in Msg

TypeInv == TypeOK /\ CurIsMsg

\* A page, the oldest renders and the rows of the server are messages.
LEMMA SetsOfMessages ==
    ASSUME sent \in 0..MaxMsg
    PROVE  /\ Pending \subseteq Msg
           /\ \A a : PageAfter(a) \subseteq Msg
           /\ \A list \in RetryLists : list \subseteq Msg
<1>1. Pending \subseteq Msg /\ (\A a : PageAfter(a) \subseteq Msg)
    BY BoundsAssumption DEF Pending, PageAfter, Msg
<1>2. OldestRendered \subseteq Msg
    BY DEF OldestRendered
<1>3. \A list \in RetryLists : list = OldestRendered \/ list = {}
    BY DEF RetryLists
<1> QED BY <1>1, <1>2, <1>3

\* Ranks stay natural numbers: only a rank above another one is decreased.
LEMMA TouchTyped ==
    ASSUME NEW m \in Msg, rank \in [Msg -> Nat], Touch(m)
    PROVE  rank' \in [Msg -> Nat]
BY BoundsAssumption DEF Touch

\* Leaving handle_message keeps the types of what it writes.
LEMMA LeaveTyped ==
    ASSUME TypeInv, NEW t \in Task, Leave(t)
    PROVE  /\ pc' \in [Task -> PC]
           /\ cur' \in [Task -> 0..MaxMsg]
           /\ ctx' \in [Task -> Ctx]
           /\ inflight' \subseteq Msg
           /\ CurIsMsg'
<1> USE DEF TypeInv, TypeOK
<1>1. /\ ctx[t] \in Ctx
      /\ pc' = [pc EXCEPT ![t] = IF ctx[t] = "frame" THEN "idle" ELSE ctx[t]]
    BY DEF Leave
<1>2. pc' \in [Task -> PC] /\ pc'[t] \notin Busy
    BY <1>1 DEF PC, Ctx, Busy
<1>3. cur' \in [Task -> 0..MaxMsg] /\ (\A u \in Task \ {t} : cur'[u] = cur[u])
    BY BoundsAssumption DEF Leave
<1>4. ctx' \in [Task -> Ctx] /\ inflight' \subseteq Msg
    BY DEF Leave, Ctx
<1>5. CurIsMsg'
    BY <1>1, <1>2, <1>3 DEF CurIsMsg
<1> QED BY <1>2, <1>3, <1>4, <1>5

\* So does entering it.
LEMMA BeginHandleTyped ==
    ASSUME TypeInv, NEW t \in Task, NEW m \in Msg, NEW c \in {"frame", "page"},
           NEW r \in {"page", "idle"}, BeginHandle(t, m, c, r)
    PROVE  /\ pc' \in [Task -> PC]
           /\ cur' \in [Task -> 0..MaxMsg]
           /\ ctx' \in [Task -> Ctx]
           /\ seen' \subseteq Msg
           /\ rendered' \subseteq Msg
           /\ inflight' \subseteq Msg
           /\ CurIsMsg'
<1> USE DEF TypeInv, TypeOK
<1>1. seen' \subseteq Msg /\ rendered' \subseteq Msg /\ inflight' \subseteq Msg
    BY DEF BeginHandle
<1>2. m \in 0..MaxMsg
    BY BoundsAssumption DEF Msg
<1>3. CASE pc' = [pc EXCEPT ![t] = r] /\ UNCHANGED <<inflight, cur, ctx>>
    BY <1>1, <1>3 DEF CurIsMsg, PC, Busy
<1>4. CASE /\ cur' = [cur EXCEPT ![t] = m]
           /\ ctx' = [ctx EXCEPT ![t] = c]
           /\ \E p \in {"receipt", "render", "record"} : pc' = [pc EXCEPT ![t] = p]
  <2>1. pc' \in [Task -> PC] /\ cur' \in [Task -> 0..MaxMsg] /\ ctx' \in [Task -> Ctx]
      BY <1>2, <1>4 DEF PC, Ctx
  <2>2. CurIsMsg'
      BY <1>4 DEF CurIsMsg
  <2> QED BY <1>1, <2>1, <2>2
<1> QED BY <1>3, <1>4 DEF BeginHandle

LEMMA TypeInit == Init => TypeInv
BY BoundsAssumption DEF Init, TypeInv, TypeOK, CurIsMsg, PC, Ctx, Busy, Msg

LEMMA TypeStep == TypeInv /\ [Next]_vars => TypeInv'
<1> SUFFICES ASSUME TypeInv, [Next]_vars PROVE TypeInv'
    OBVIOUS
<1> USE BoundsAssumption DEF TypeInv, TypeOK
<1>1. CASE SendMessage
  <2>1. sent' \in 0..MaxMsg /\ sent' \in Msg
      BY <1>1 DEF SendMessage, Msg
  <2>2. frames' \subseteq Msg /\ link' \in {"down", "up", "dropped"}
      BY <1>1, <2>1 DEF SendMessage, Transmit, wire
  <2> QED BY <1>1, <2>1, <2>2 DEF SendMessage, durable, memory, locals, ghost, CurIsMsg
<1>2. CASE DeleteStudent
  <2>1. 1..sent \subseteq Msg
      BY DEF Msg
  <2> QED BY <1>2, <2>1 DEF DeleteStudent, wire, durable, memory, locals, ghost, CurIsMsg
<1>3. CASE PollPull
    BY <1>3 DEF PollPull, BeginPull, server, wire, durable, memory, ghost, CurIsMsg, PC, Busy, Task
<1>4. CASE Connect
    BY <1>4 DEF Connect, BeginPull, server, durable, memory, ghost, CurIsMsg, PC, Busy, Task
<1>5. CASE Disconnect
    BY <1>5 DEF Disconnect, server, durable, memory, locals, ghost, CurIsMsg
<1>6. CASE TakeFrame
  <2>1. PICK m \in frames : /\ frames' = frames \ {m}
                            /\ BeginHandle("ws", m, "frame", "idle")
      BY <1>6 DEF TakeFrame
  <2>2. /\ pc' \in [Task -> PC] /\ cur' \in [Task -> 0..MaxMsg] /\ ctx' \in [Task -> Ctx]
        /\ seen' \subseteq Msg /\ rendered' \subseteq Msg /\ inflight' \subseteq Msg
        /\ CurIsMsg'
      BY <2>1, BeginHandleTyped DEF Task
  <2> QED BY <1>6, <2>1, <2>2 DEF TakeFrame, server, durable, ghost
<1>7. CASE Crash
    BY <1>7 DEF Crash, server, durable, CurIsMsg, PC, Ctx, Busy
<1>8. ASSUME NEW t \in Task, Pull(t) PROVE TypeInv'
  <2>1. CASE FetchEmpty(t)
      BY <2>1, SetsOfMessages DEF FetchEmpty, EndBacklog, EndPull, server, wire, durable, ghost, CurIsMsg, PC, Busy
  <2>2. CASE FetchPage(t)
    <3>1. PageAfter(after[t]) \subseteq Msg
        BY SetsOfMessages
    <3>2. PICK last \in PageAfter(after[t]) : after' = [after EXCEPT ![t] = last]
        BY <2>2 DEF FetchPage
    <3>3. after' \in [Task -> 0..MaxMsg] /\ todo' \in [Task -> SUBSET Msg]
        BY <2>2, <3>1, <3>2 DEF FetchPage, Msg
    <3>4. full' \in [Task -> BOOLEAN]
        BY <2>2 DEF FetchPage
    <3> QED BY <2>2, <3>3, <3>4 DEF FetchPage, server, wire, durable, memory, ghost, CurIsMsg, PC, Busy
  <2>3. CASE FetchFail(t)
      BY <2>3 DEF FetchFail, EndPull, server, wire, durable, memory, ghost, CurIsMsg, PC, Busy
  <2>4. CASE EndPage(t)
    <3>1. cursor' \in 0..MaxMsg
        BY <2>4 DEF EndPage, EndBacklog
    <3>2. todo' \in [Task -> SUBSET Msg]
        BY <2>4, SetsOfMessages DEF EndPage, EndBacklog
    <3>3. /\ after' \in [Task -> 0..MaxMsg]
          /\ full' \in [Task -> BOOLEAN]
          /\ pages' \in [Task -> Nat]
      <4>1. EndPull(t) \/ UNCHANGED <<after, full, pages>>
          BY <2>4 DEF EndPage, EndBacklog
      <4>2. CASE EndPull(t)
          BY <4>2 DEF EndPull
      <4> QED BY <4>1, <4>2
    <3>4. pc' \in [Task -> PC] /\ pc'[t] \notin Busy /\ (\A u \in Task \ {t} : pc'[u] = pc[u])
        BY <2>4 DEF EndPage, EndBacklog, PC, Busy
    <3>5. UNCHANGED <<cur, ctx, server, wire, durable, seen, rendered, inflight, ghost>>
        BY <2>4 DEF EndPage, EndBacklog
    <3>6. CurIsMsg'
        BY <3>4, <3>5 DEF CurIsMsg
    <3> QED BY <3>1, <3>2, <3>3, <3>4, <3>5, <3>6 DEF server, wire, durable, ghost
  <2>5. CASE TakeRow(t)
    <3>1. PICK m \in todo[t] : /\ todo' = [todo EXCEPT ![t] = @ \ {m}]
                               /\ BeginHandle(t, m, "page", "page")
        BY <2>5 DEF TakeRow
    <3>2. /\ pc' \in [Task -> PC] /\ cur' \in [Task -> 0..MaxMsg] /\ ctx' \in [Task -> Ctx]
          /\ seen' \subseteq Msg /\ rendered' \subseteq Msg /\ inflight' \subseteq Msg
          /\ CurIsMsg'
        BY <3>1, BeginHandleTyped
    <3> QED BY <2>5, <3>1, <3>2 DEF TakeRow, server, wire, durable, ghost
  <2> QED BY <1>8, <2>1, <2>2, <2>3, <2>4, <2>5 DEF Pull
<1>9. ASSUME NEW t \in Task, Handle(t) PROVE TypeInv'
  <2>1. CASE Show(t)
      BY <2>1 DEF Show, server, wire, durable, memory, locals, CurIsMsg, PC, Busy
  <2>2. CASE HandlerFail(t)
      BY <2>2, LeaveTyped DEF HandlerFail, server, wire, durable, ghost
  <2>3. CASE RecordRender(t)
    <3>1. cur[t] \in Msg
        BY <2>3 DEF RecordRender, CurIsMsg, Busy
    <3>2. rank' \in [Msg -> Nat]
        BY <2>3, <3>1, TouchTyped DEF RecordRender, MarkRendered
    <3> QED BY <2>3, <3>1, <3>2 DEF RecordRender, MarkRendered, server, wire, locals, ghost, CurIsMsg, PC, Busy
  <2>4. CASE RecordRenderFails(t)
      BY <2>4, LeaveTyped DEF RecordRenderFails, server, wire, durable, ghost
  <2> QED BY <1>9, <2>1, <2>2, <2>3, <2>4 DEF Handle
<1>10. ASSUME NEW t \in Task, Receipt(t) PROVE TypeInv'
  <2>1. CASE ServerAck(t)
    <3>1. cur[t] \in Msg
        BY <2>1 DEF ServerAck, CurIsMsg, Busy
    <3>2. delivered' \subseteq Msg /\ announced' \in [Msg -> Nat]
        BY <2>1, <3>1 DEF ServerAck, CommitReceipt
    <3> QED BY <2>1, <3>1, <3>2 DEF ServerAck, wire, durable, memory, locals, ghost, CurIsMsg, PC, Busy
  <2>2. CASE ServerAckCrash(t)
    <3>1. delivered' \subseteq Msg
        BY <2>2 DEF ServerAckCrash, CommitReceipt, CurIsMsg, Busy
    <3> QED BY <2>2, <3>1, LeaveTyped DEF ServerAckCrash, durable, ghost
  <2>3. CASE ReceiptFail(t)
      BY <2>3, LeaveTyped DEF ReceiptFail, server, wire, durable, ghost
  <2>4. CASE ReceiptOk(t)
    <3>1. cur[t] \in Msg
        BY <2>4 DEF ReceiptOk, CurIsMsg, Busy
    <3>2. rank' \in [Msg -> Nat] /\ ledger' \in [Msg -> {"none", "rendered", "acked"}]
        BY <2>4, <3>1, TouchTyped DEF ReceiptOk, MarkAcked, durable
    <3> QED BY <2>4, <3>1, <3>2, LeaveTyped DEF ReceiptOk, server, wire, ghost
  <2>5. CASE TakeRetry(t)
    <3>1. PICK m \in todo[t] : /\ todo' = [todo EXCEPT ![t] = @ \ {m}]
                               /\ cur' = [cur EXCEPT ![t] = m]
        BY <2>5 DEF TakeRetry
    <3>2. m \in Msg /\ m \in 0..MaxMsg
        BY DEF Msg
    <3>3. todo' \in [Task -> SUBSET Msg] /\ cur' \in [Task -> 0..MaxMsg]
        BY <3>1, <3>2
    <3>4. CurIsMsg'
        BY <2>5, <3>1, <3>2 DEF TakeRetry, CurIsMsg
    <3> QED BY <2>5, <3>3, <3>4 DEF TakeRetry, server, wire, durable, memory, ghost, PC, Ctx
  <2>6. CASE EndRetry(t)
      BY <2>6 DEF EndRetry, server, wire, durable, memory, locals, ghost, CurIsMsg, PC, Busy
  <2> QED BY <1>10, <2>1, <2>2, <2>3, <2>4, <2>5, <2>6 DEF Receipt
<1>11. CASE UNCHANGED vars
    BY <1>11 DEF vars, server, wire, durable, memory, locals, ghost, CurIsMsg
<1> QED
    BY <1>1, <1>2, <1>3, <1>4, <1>5, <1>6, <1>7, <1>8, <1>9, <1>10, <1>11 DEF Next

\* Every reachable state is well typed: the server's tables, the ledger and
\* the locals of both tasks only ever hold rows that exist.
THEOREM TypeCorrect == Spec => []TypeOK
<1>1. TypeInv => TypeOK
    BY DEF TypeInv
<1> QED BY <1>1, TypeInit, TypeStep, PTL DEF Spec

-----------------------------------------------------------------------------
(* Frames: who may change what. *)

\* Only a receipt that reaches the server changes what it holds as delivered.
LEMMA OnlyReceiptsDeliver ==
    ASSUME [Next]_vars
    PROVE  \/ \E t \in Task : ServerAck(t) \/ ServerAckCrash(t)
           \/ UNCHANGED <<delivered, announced>>
<1>1. ASSUME NEW t \in Task, Pull(t) PROVE UNCHANGED <<delivered, announced>>
    BY <1>1 DEF Pull, FetchEmpty, FetchPage, FetchFail, EndPage, TakeRow, server
<1>2. ASSUME NEW t \in Task, Handle(t) PROVE UNCHANGED <<delivered, announced>>
    BY <1>2 DEF Handle, Show, HandlerFail, RecordRender, RecordRenderFails, server
<1>3. ASSUME NEW t \in Task, Receipt(t)
      PROVE  ServerAck(t) \/ ServerAckCrash(t) \/ UNCHANGED <<delivered, announced>>
    BY <1>3 DEF Receipt, ReceiptFail, ReceiptOk, TakeRetry, EndRetry, server
<1>4. CASE SendMessage \/ DeleteStudent \/ PollPull \/ Connect \/ Disconnect \/ TakeFrame \/ Crash
    BY <1>4 DEF SendMessage, DeleteStudent, PollPull, Connect, Disconnect, TakeFrame, Crash, server
<1>5. CASE UNCHANGED vars
    BY <1>5 DEF vars, server
<1> QED BY <1>1, <1>2, <1>3, <1>4, <1>5 DEF Next

\* The server never takes a delivery back.
LEMMA DeliveredGrows ==
    ASSUME [Next]_vars PROVE delivered \subseteq delivered'
BY OnlyReceiptsDeliver DEF ServerAck, ServerAckCrash, CommitReceipt

\* A task that leaves handle_message is no longer busy; the other one is not
\* disturbed.
LEMMA LeaveFrame ==
    ASSUME TypeInv, NEW t \in Task, Leave(t)
    PROVE  /\ pc'[t] \in {"idle", "page", "retry"}
           /\ pc'[t] = "retry" => ctx[t] = "retry"
           /\ ctx'[t] = "page"
           /\ \A u \in Task \ {t} : pc'[u] = pc[u] /\ cur'[u] = cur[u] /\ ctx'[u] = ctx[u]
BY DEF TypeInv, TypeOK, Leave, Ctx

-----------------------------------------------------------------------------
(* AnnouncedOnce is inductive. *)

\* Mentors hear of a delivery at most once, and only after its commit: only
\* the first receipt of a row is published (MessageService.ack).
THEOREM AnnouncedAtMostOnce == Spec => []AnnouncedOnce
<1>1. Init => AnnouncedOnce
    BY DEF Init, AnnouncedOnce
<1>2. TypeInv /\ AnnouncedOnce /\ [Next]_vars => AnnouncedOnce'
  <2> SUFFICES ASSUME TypeInv, AnnouncedOnce, [Next]_vars PROVE AnnouncedOnce'
      OBVIOUS
  <2> USE DEF TypeInv, TypeOK, AnnouncedOnce
  <2>1. ASSUME NEW t \in Task, ServerAck(t) PROVE AnnouncedOnce'
      BY <2>1 DEF ServerAck, CommitReceipt
  <2>2. ASSUME NEW t \in Task, ServerAckCrash(t) PROVE AnnouncedOnce'
      BY <2>2 DEF ServerAckCrash, CommitReceipt
  <2>3. CASE UNCHANGED <<delivered, announced>>
      BY <2>3
  <2> QED BY <2>1, <2>2, <2>3, OnlyReceiptsDeliver
<1> QED BY <1>1, <1>2, TypeInit, TypeStep, PTL DEF Spec

-----------------------------------------------------------------------------
(* ConfirmedByServer: it needs to know that a task that holds a receipt's    *)
(* answer holds one of a committed row.                                      *)

ConfirmedInv ==
    /\ seen \subseteq delivered
    /\ \A m \in Msg : ledger[m] = "acked" => m \in delivered
    /\ \A t \in Task : pc[t] = "confirmed" => cur[t] \in delivered

\* handle_message adds to the dedup cache only what the ledger holds as acked,
\* and never enters as if the receipt had been answered.
LEMMA BeginHandleConfirmed ==
    ASSUME TypeInv, ConfirmedInv, NEW t \in Task, NEW m \in Msg,
           NEW c \in {"frame", "page"}, NEW r \in {"page", "idle"},
           BeginHandle(t, m, c, r)
    PROVE  /\ seen' \subseteq delivered
           /\ \A u \in Task : pc'[u] = "confirmed" => cur'[u] \in delivered
<1> USE DEF TypeInv, TypeOK, ConfirmedInv
<1>1. seen' \subseteq delivered
    BY DEF BeginHandle, Status
<1>2. \E p \in {"receipt", "render", "record"} \cup {r} :
         /\ pc' = [pc EXCEPT ![t] = p]
         /\ cur' = cur \/ cur' = [cur EXCEPT ![t] = m]
    BY DEF BeginHandle
<1>3. \A u \in Task : pc'[u] = "confirmed" => pc[u] = "confirmed" /\ u # t /\ cur'[u] = cur[u]
    BY <1>2
<1> QED BY <1>1, <1>3

LEMMA ConfirmedStep == TypeInv /\ ConfirmedInv /\ [Next]_vars => ConfirmedInv'
<1> SUFFICES ASSUME TypeInv, ConfirmedInv, [Next]_vars PROVE ConfirmedInv'
    OBVIOUS
<1> USE DEF TypeInv, TypeOK, ConfirmedInv
<1>1. delivered \subseteq delivered'
    BY DeliveredGrows
<1>2. ASSUME UNCHANGED <<seen, ledger>>,
             \A u \in Task : pc'[u] = "confirmed" => pc[u] = "confirmed" /\ cur'[u] = cur[u]
      PROVE  ConfirmedInv'
    BY <1>1, <1>2
<1>3. ASSUME NEW t \in Task, Leave(t), UNCHANGED <<seen, ledger>> PROVE ConfirmedInv'
    BY <1>2, <1>3, LeaveFrame
<1>4. CASE SendMessage \/ DeleteStudent \/ Disconnect \/ PollPull \/ Connect
    BY <1>2, <1>4 DEF SendMessage, DeleteStudent, Disconnect, PollPull, Connect, BeginPull,
                      durable, memory, locals
<1>5. CASE TakeFrame
  <2>1. PICK m \in frames : BeginHandle("ws", m, "frame", "idle")
      BY <1>5 DEF TakeFrame
  <2>2. /\ seen' \subseteq delivered
        /\ \A u \in Task : pc'[u] = "confirmed" => cur'[u] \in delivered
      BY <2>1, BeginHandleConfirmed DEF Task
  <2> QED BY <1>1, <1>5, <2>2 DEF TakeFrame, durable
<1>6. CASE Crash
    BY <1>1, <1>6 DEF Crash, durable
<1>7. ASSUME NEW t \in Task, Pull(t) PROVE ConfirmedInv'
  <2>1. CASE TakeRow(t)
    <3>1. PICK m \in todo[t] : BeginHandle(t, m, "page", "page")
        BY <2>1 DEF TakeRow
    <3>2. /\ seen' \subseteq delivered
          /\ \A u \in Task : pc'[u] = "confirmed" => cur'[u] \in delivered
        BY <3>1, BeginHandleConfirmed
    <3> QED BY <1>1, <2>1, <3>2 DEF TakeRow, durable
  <2>2. CASE FetchEmpty(t) \/ FetchPage(t) \/ FetchFail(t)
      BY <1>2, <2>2 DEF FetchEmpty, EndBacklog, FetchPage, FetchFail, durable, memory
  <2>3. CASE EndPage(t)
      BY <1>2, <2>3 DEF EndPage, EndBacklog, durable
  <2> QED BY <1>7, <2>1, <2>2, <2>3 DEF Pull
<1>8. ASSUME NEW t \in Task, Handle(t) PROVE ConfirmedInv'
  <2>1. CASE Show(t)
      BY <1>2, <2>1 DEF Show, durable, memory, locals
  <2>2. CASE HandlerFail(t) \/ RecordRenderFails(t)
      BY <1>3, <2>2 DEF HandlerFail, RecordRenderFails, durable
  <2>3. CASE RecordRender(t)
      BY <1>1, <2>3 DEF RecordRender, MarkRendered, locals
  <2> QED BY <1>8, <2>1, <2>2, <2>3 DEF Handle
<1>9. ASSUME NEW t \in Task, Receipt(t) PROVE ConfirmedInv'
  <2>1. CASE ServerAck(t)
      BY <1>1, <2>1 DEF ServerAck, CommitReceipt, durable, memory, locals
  <2>2. CASE ServerAckCrash(t) \/ ReceiptFail(t)
      BY <1>3, <2>2 DEF ServerAckCrash, ReceiptFail, durable
  <2>3. CASE ReceiptOk(t)
    <3>1. cur[t] \in delivered
        BY <2>3 DEF ReceiptOk
    <3>2. \A m \in Msg : ledger'[m] = "acked" => m = cur[t] \/ ledger[m] = "acked"
        BY <2>3 DEF ReceiptOk, MarkAcked, durable
    <3>3. \A u \in Task : pc'[u] = "confirmed" => pc[u] = "confirmed" /\ cur'[u] = cur[u]
        BY <2>3, LeaveFrame DEF ReceiptOk
    <3> QED BY <1>1, <2>3, <3>1, <3>2, <3>3 DEF ReceiptOk
  <2>4. CASE TakeRetry(t) \/ EndRetry(t)
      BY <1>2, <2>4 DEF TakeRetry, EndRetry, durable, memory, locals
  <2> QED BY <1>9, <2>1, <2>2, <2>3, <2>4 DEF Receipt
<1>10. CASE UNCHANGED vars
    BY <1>2, <1>10 DEF vars, durable, memory, locals
<1> QED
    BY <1>4, <1>5, <1>6, <1>7, <1>8, <1>9, <1>10 DEF Next

\* The student's side never believes in a confirmation the server did not
\* commit: neither the dedup cache nor the ledger can make it drop a message
\* that the mentor still sees as undelivered.
THEOREM ConfirmationsAreCommitted == Spec => []ConfirmedByServer
<1>1. Init => ConfirmedInv
    BY DEF Init, ConfirmedInv
<1>2. ConfirmedInv => ConfirmedByServer
    BY DEF ConfirmedInv, ConfirmedByServer
<1> QED BY <1>1, <1>2, TypeInit, TypeStep, ConfirmedStep, PTL DEF Spec

-----------------------------------------------------------------------------
(* DeliveredWasShown: a receipt is only on its way for a message that the    *)
(* handler showed, whether it comes from this render, from the coordinator's *)
(* memory of an earlier one or from the ledger of an earlier process.        *)

Retrying(t) == pc[t] = "retry" \/ ctx[t] = "retry"

ShownInv ==
    /\ delivered \subseteq shown
    /\ \A m \in Msg : ledger[m] # "none" => m \in shown
    /\ rendered \subseteq shown
    /\ \A t \in Task : ctx[t] = "retry" => pc[t] \in {"receipt", "confirmed"}
    /\ \A t \in Task : Retrying(t) => todo[t] \subseteq shown
    /\ \A t \in Task : pc[t] \in {"record", "receipt", "confirmed"} => cur[t] \in shown

\* What a task is about to confirm: the last three conjuncts, for one task.
TaskShown(t) ==
    /\ ctx[t] = "retry" => pc[t] \in {"receipt", "confirmed"}
    /\ Retrying(t) => todo[t] \subseteq shown
    /\ pc[t] \in {"record", "receipt", "confirmed"} => cur[t] \in shown

\* handle_message enters at the receipt only with a known render, and with a
\* handler it never enters behind it.
LEMMA BeginHandleShown ==
    ASSUME HasHandler, TypeInv, ShownInv, NEW t \in Task, NEW m \in Msg,
           NEW c \in {"frame", "page"}, NEW r \in {"page", "idle"},
           BeginHandle(t, m, c, r), ~Retrying(t), shown' = shown
    PROVE  /\ rendered' \subseteq shown
           /\ TaskShown(t)'
           /\ \A u \in Task \ {t} : pc'[u] = pc[u] /\ cur'[u] = cur[u] /\ ctx'[u] = ctx[u]
<1> USE DEF TypeInv, TypeOK, ShownInv, Retrying
<1>1. rendered' \subseteq shown
    BY DEF BeginHandle, Status
<1>2. CASE pc' = [pc EXCEPT ![t] = r] /\ UNCHANGED <<inflight, cur, ctx>>
    BY <1>1, <1>2 DEF TaskShown
<1>3. CASE /\ cur' = [cur EXCEPT ![t] = m]
           /\ ctx' = [ctx EXCEPT ![t] = c]
           /\ pc' = [pc EXCEPT ![t] = IF m \in rendered' THEN "receipt" ELSE "render"]
    BY <1>1, <1>3 DEF TaskShown
<1> QED BY <1>2, <1>3, <1>1 DEF BeginHandle

LEMMA ShownStep ==
    ASSUME HasHandler PROVE TypeInv /\ ShownInv /\ [Next]_vars => ShownInv'
<1> SUFFICES ASSUME TypeInv, ShownInv, [Next]_vars PROVE ShownInv'
    OBVIOUS
<1> USE DEF TypeInv, TypeOK, ShownInv
\* A step of one task that leaves what was shown and recorded alone.
<1>1. ASSUME NEW t \in Task, TaskShown(t)',
             \A u \in Task \ {t} : /\ pc'[u] = pc[u] /\ cur'[u] = cur[u]
                                   /\ ctx'[u] = ctx[u] /\ todo'[u] = todo[u],
             delivered' \subseteq shown', rendered' \subseteq shown',
             shown \subseteq shown',
             \A m \in Msg : ledger'[m] # "none" => m \in shown'
      PROVE  ShownInv'
    BY <1>1 DEF TaskShown, Retrying
<1>2. ASSUME NEW t \in Task, Leave(t), UNCHANGED <<todo, shown>>
      PROVE  /\ TaskShown(t)'
             /\ \A u \in Task \ {t} : /\ pc'[u] = pc[u] /\ cur'[u] = cur[u]
                                      /\ ctx'[u] = ctx[u] /\ todo'[u] = todo[u]
    BY <1>2, LeaveFrame DEF TaskShown, Retrying
<1>3. CASE SendMessage \/ DeleteStudent \/ Disconnect
    BY <1>3 DEF SendMessage, DeleteStudent, Disconnect, server, durable, memory, locals, ghost, Retrying
<1>4. CASE PollPull \/ Connect
    BY <1>4 DEF PollPull, Connect, BeginPull, server, durable, memory, ghost, Retrying
<1>5. CASE TakeFrame
  <2>1. PICK m \in frames : BeginHandle("ws", m, "frame", "idle")
      BY <1>5 DEF TakeFrame
  <2>2. shown' = shown /\ ~Retrying("ws")
      BY <1>5 DEF TakeFrame, ghost, Task, Retrying
  <2>3. /\ rendered' \subseteq shown
        /\ TaskShown("ws")'
        /\ \A u \in Task \ {"ws"} : pc'[u] = pc[u] /\ cur'[u] = cur[u] /\ ctx'[u] = ctx[u]
      BY <2>1, <2>2, BeginHandleShown DEF Task
  <2> QED BY <1>1, <1>5, <2>2, <2>3 DEF TakeFrame, server, durable, Task
<1>6. CASE Crash
    BY <1>6 DEF Crash, server, durable, Retrying
<1>7. ASSUME NEW t \in Task, Pull(t) PROVE ShownInv'
  <2>1. CASE FetchEmpty(t)
    <3>1. \A list \in RetryLists : list \subseteq shown
        BY DEF RetryLists, OldestRendered
    <3>2. TaskShown(t)'
        BY <2>1, <3>1 DEF FetchEmpty, EndBacklog, TaskShown, ghost
    <3> QED BY <1>1, <2>1, <3>2 DEF FetchEmpty, EndBacklog, server, durable, ghost
  <2>2. CASE FetchPage(t) \/ FetchFail(t)
    <3>1. TaskShown(t)'
        BY <2>2 DEF FetchPage, FetchFail, TaskShown, Retrying, ghost
    <3> QED BY <1>1, <2>2, <3>1 DEF FetchPage, FetchFail, server, durable, memory, ghost
  <2>3. CASE EndPage(t)
    <3>1. \A list \in RetryLists : list \subseteq shown
        BY DEF RetryLists, OldestRendered
    <3>2. TaskShown(t)'
        BY <2>3, <3>1 DEF EndPage, EndBacklog, TaskShown, Retrying, ghost
    <3>3. \A u \in Task \ {t} : pc'[u] = pc[u] /\ todo'[u] = todo[u]
        BY <2>3 DEF EndPage, EndBacklog
    <3> QED BY <1>1, <2>3, <3>2, <3>3 DEF EndPage, EndBacklog, server, durable, ghost
  <2>4. CASE TakeRow(t)
    <3>1. PICK m \in todo[t] : /\ todo' = [todo EXCEPT ![t] = @ \ {m}]
                               /\ BeginHandle(t, m, "page", "page")
        BY <2>4 DEF TakeRow
    <3>2. shown' = shown /\ ~Retrying(t)
        BY <2>4 DEF TakeRow, ghost, Retrying
    <3>3. /\ rendered' \subseteq shown
          /\ TaskShown(t)'
          /\ \A u \in Task \ {t} : pc'[u] = pc[u] /\ cur'[u] = cur[u] /\ ctx'[u] = ctx[u]
        BY <3>1, <3>2, BeginHandleShown
    <3> QED BY <1>1, <2>4, <3>1, <3>2, <3>3 DEF TakeRow, server, durable
  <2> QED BY <1>7, <2>1, <2>2, <2>3, <2>4 DEF Pull
<1>8. ASSUME NEW t \in Task, Handle(t) PROVE ShownInv'
  <2>1. CASE Show(t)
    <3>1. TaskShown(t)'
        BY <2>1 DEF Show, locals, TaskShown, Retrying
    <3> QED BY <1>1, <2>1, <3>1 DEF Show, server, durable, memory, locals
  <2>2. CASE HandlerFail(t) \/ RecordRenderFails(t)
      BY <1>1, <1>2, <2>2 DEF HandlerFail, RecordRenderFails, server, durable, ghost
  <2>3. CASE RecordRender(t)
    <3>1. TaskShown(t)'
        BY <2>3 DEF RecordRender, locals, ghost, TaskShown, Retrying
    <3>2. \A m \in Msg : ledger'[m] # "none" => m = cur[t] \/ ledger[m] # "none"
        BY <2>3 DEF RecordRender, MarkRendered
    <3>3. cur[t] \in shown
        BY <2>3 DEF RecordRender
    <3> QED BY <1>1, <2>3, <3>1, <3>2, <3>3 DEF RecordRender, server, locals, ghost
  <2> QED BY <1>8, <2>1, <2>2, <2>3 DEF Handle
<1>9. ASSUME NEW t \in Task, Receipt(t) PROVE ShownInv'
  <2>1. CASE ServerAck(t)
    <3>1. TaskShown(t)'
        BY <2>1 DEF ServerAck, locals, ghost, TaskShown, Retrying
    <3> QED BY <1>1, <2>1, <3>1 DEF ServerAck, CommitReceipt, durable, memory, locals, ghost
  <2>2. CASE ServerAckCrash(t)
      BY <1>1, <1>2, <2>2 DEF ServerAckCrash, CommitReceipt, durable, ghost
  <2>3. CASE ReceiptFail(t)
      BY <1>1, <1>2, <2>3 DEF ReceiptFail, server, durable, ghost
  <2>4. CASE ReceiptOk(t)
    <3>1. cur[t] \in shown
        BY <2>4 DEF ReceiptOk
    <3>2. \A m \in Msg : ledger'[m] # "none" => m = cur[t] \/ ledger[m] # "none"
        BY <2>4 DEF ReceiptOk, MarkAcked, durable
    <3> QED BY <1>1, <1>2, <2>4, <3>1, <3>2 DEF ReceiptOk, server, ghost
  <2>5. CASE TakeRetry(t)
    <3>1. todo[t] \subseteq shown
        BY <2>5 DEF TakeRetry, Retrying
    <3>2. TaskShown(t)'
        BY <2>5, <3>1 DEF TakeRetry, ghost, TaskShown, Retrying
    <3> QED BY <1>1, <2>5, <3>2 DEF TakeRetry, server, durable, memory, ghost
  <2>6. CASE EndRetry(t)
    <3>1. TaskShown(t)'
        BY <2>6 DEF EndRetry, locals, ghost, TaskShown, Retrying
    <3> QED BY <1>1, <2>6, <3>1 DEF EndRetry, server, durable, memory, locals, ghost
  <2> QED BY <1>9, <2>1, <2>2, <2>3, <2>4, <2>5, <2>6 DEF Receipt
<1>10. CASE UNCHANGED vars
    BY <1>10 DEF vars, server, durable, memory, locals, ghost, Retrying
<1> QED
    BY <1>3, <1>4, <1>5, <1>6, <1>7, <1>8, <1>9, <1>10 DEF Next

\* With a message handler installed, the server counts a message as delivered
\* only if the handler put it in front of the student: no retry of a receipt,
\* restart or replayed ledger row confirms what was not shown.
THEOREM DeliveriesWereShown ==
    ASSUME HasHandler PROVE Spec => []DeliveredWasShown
<1>1. Init => ShownInv
    BY DEF Init, ShownInv, Retrying
<1>2. ShownInv => DeliveredWasShown
    BY DEF ShownInv, DeliveredWasShown
<1>3. TypeInv /\ ShownInv /\ [Next]_vars => ShownInv'
    BY ShownStep
<1> QED BY <1>1, <1>2, <1>3, TypeInit, TypeStep, PTL DEF Spec

-----------------------------------------------------------------------------
(* InflightExact is inductive together with the types. *)

\* A step of one task that does not enter or leave handle_message.
LEMMA SameWork ==
    ASSUME TypeInv, InflightExact, inflight' = inflight,
           \A t \in Task : /\ Working(t)' <=> Working(t)
                           /\ Working(t) => cur'[t] = cur[t]
    PROVE  InflightExact'
BY DEF InflightExact

\* Leaving it gives back exactly what the task had taken.
LEMMA LeaveReleases ==
    ASSUME TypeInv, InflightExact, NEW t \in Task, Leave(t), pc[t] \in Busy
    PROVE  InflightExact'
<1> USE DEF TypeInv, TypeOK
<1>1. ~Working(t)' /\ (\A u \in Task \ {t} : (Working(u)' <=> Working(u)) /\ cur'[u] = cur[u])
    BY LeaveFrame DEF Working
<1>2. CASE ctx[t] = "retry"
    BY <1>1, <1>2 DEF InflightExact, Leave, Working
<1>3. CASE ctx[t] # "retry"
  <2>1. Working(t)
      BY <1>3 DEF Working, Busy
  <2>2. inflight' = inflight \ {cur[t]}
      BY <1>3 DEF Leave
  <2> QED BY <1>1, <2>1, <2>2 DEF InflightExact
<1> QED BY <1>2, <1>3

\* Entering it takes a message that no task has.
LEMMA BeginHandleTakes ==
    ASSUME TypeInv, InflightExact, NEW t \in Task, NEW m \in Msg,
           NEW c \in {"frame", "page"}, NEW r \in {"page", "idle"},
           BeginHandle(t, m, c, r), pc[t] \in {"idle", "page"}
    PROVE  InflightExact'
<1> USE DEF TypeInv, TypeOK
<1>1. ~Working(t)
    BY DEF Working
<1>2. CASE pc' = [pc EXCEPT ![t] = r] /\ UNCHANGED <<inflight, cur, ctx>>
    BY <1>1, <1>2, SameWork DEF Working
<1>3. CASE /\ m \notin inflight
           /\ inflight' = inflight \cup {m}
           /\ cur' = [cur EXCEPT ![t] = m]
           /\ ctx' = [ctx EXCEPT ![t] = c]
           /\ \E p \in {"receipt", "render", "record"} : pc' = [pc EXCEPT ![t] = p]
  <2>1. Working(t)' /\ cur'[t] = m
      BY <1>3 DEF Working
  <2>2. \A u \in Task \ {t} : (Working(u)' <=> Working(u)) /\ cur'[u] = cur[u]
      BY <1>3 DEF Working
  <2> QED BY <1>1, <1>3, <2>1, <2>2 DEF InflightExact
<1> QED BY <1>2, <1>3 DEF BeginHandle

LEMMA InflightStep == TypeInv /\ InflightExact /\ [Next]_vars => InflightExact'
<1> SUFFICES ASSUME TypeInv, InflightExact, [Next]_vars PROVE InflightExact'
    OBVIOUS
<1> USE DEF TypeInv, TypeOK
<1>1. CASE SendMessage \/ DeleteStudent \/ Disconnect \/ PollPull \/ Connect
  <2>1. inflight' = inflight /\ cur' = cur
      BY <1>1 DEF SendMessage, DeleteStudent, Disconnect, PollPull, Connect, memory, locals
  <2>2. \A t \in Task : Working(t)' <=> Working(t)
      BY <1>1 DEF SendMessage, DeleteStudent, Disconnect, PollPull, Connect, BeginPull, locals, Working
  <2> QED BY <2>1, <2>2, SameWork
<1>2. CASE TakeFrame
    BY <1>2, BeginHandleTakes DEF TakeFrame, Task
<1>3. CASE Crash
    BY <1>3 DEF Crash, InflightExact, Working
<1>4. ASSUME NEW t \in Task, Pull(t) PROVE InflightExact'
  <2>1. CASE TakeRow(t)
      BY <2>1, BeginHandleTakes DEF TakeRow
  <2>2. CASE FetchEmpty(t) \/ FetchPage(t) \/ FetchFail(t) \/ EndPage(t)
    <3>1. UNCHANGED <<inflight, cur, ctx>>
        BY <2>2 DEF FetchEmpty, FetchPage, FetchFail, EndPage, memory
    <3>2. /\ pc[t] \in {"fetch", "page"}
          /\ \E p \in {"idle", "fetch", "page", "retry"} : pc' = [pc EXCEPT ![t] = p]
        BY <2>2 DEF FetchEmpty, EndBacklog, FetchPage, FetchFail, EndPage
    <3> QED BY <3>1, <3>2, SameWork DEF Working
  <2> QED BY <1>4, <2>1, <2>2 DEF Pull
<1>5. ASSUME NEW t \in Task, Handle(t) PROVE InflightExact'
  <2>1. CASE Show(t) \/ RecordRender(t)
    <3>1. UNCHANGED <<inflight, cur, ctx>>
        BY <2>1 DEF Show, RecordRender, memory, locals
    <3>2. /\ pc[t] \in {"render", "record"}
          /\ \E p \in {"record", "receipt"} : pc' = [pc EXCEPT ![t] = p]
        BY <2>1 DEF Show, RecordRender
    <3> QED BY <3>1, <3>2, SameWork DEF Working
  <2>2. CASE HandlerFail(t) \/ RecordRenderFails(t)
      BY <2>2, LeaveReleases DEF HandlerFail, RecordRenderFails, Busy
  <2> QED BY <1>5, <2>1, <2>2 DEF Handle
<1>6. ASSUME NEW t \in Task, Receipt(t) PROVE InflightExact'
  <2>1. CASE ServerAck(t)
    <3>1. UNCHANGED <<inflight, cur, ctx>> /\ pc[t] = "receipt" /\ pc' = [pc EXCEPT ![t] = "confirmed"]
        BY <2>1 DEF ServerAck, memory, locals
    <3> QED BY <3>1, SameWork DEF Working
  <2>2. CASE ServerAckCrash(t) \/ ReceiptFail(t) \/ ReceiptOk(t)
      BY <2>2, LeaveReleases DEF ServerAckCrash, ReceiptFail, ReceiptOk, Busy
  <2>3. CASE TakeRetry(t)
    <3>1. /\ inflight' = inflight
          /\ pc[t] = "retry"
          /\ ctx' = [ctx EXCEPT ![t] = "retry"]
          /\ pc' = [pc EXCEPT ![t] = "receipt"]
          /\ \A u \in Task \ {t} : cur'[u] = cur[u]
        BY <2>3 DEF TakeRetry, memory
    <3> QED BY <3>1, SameWork DEF Working
  <2>4. CASE EndRetry(t)
    <3>1. UNCHANGED <<inflight, cur, ctx>> /\ pc[t] = "retry" /\ pc' = [pc EXCEPT ![t] = "idle"]
        BY <2>4 DEF EndRetry, memory, locals
    <3> QED BY <3>1, SameWork DEF Working
  <2> QED BY <1>6, <2>1, <2>2, <2>3, <2>4 DEF Receipt
<1>7. CASE UNCHANGED vars
    BY <1>7, SameWork DEF vars, memory, locals, Working
<1> QED BY <1>1, <1>2, <1>3, <1>4, <1>5, <1>6, <1>7 DEF Next

\* handle_message excludes itself: the two tasks never work on one message,
\* and nothing stays marked as in flight when no task works on it.
THEOREM HandlingIsExclusive == Spec => []InflightExact
<1>1. Init => InflightExact
    BY DEF Init, InflightExact, Working
<1> QED BY <1>1, TypeInit, TypeStep, InflightStep, PTL DEF Spec

-----------------------------------------------------------------------------
(* What the client holds are rows of the server, and what it sends a receipt  *)
(* for is on record or confirmed.                                            *)

Rows == 1..sent

OnRecord(m) == ledger[m] # "none" \/ m \in delivered

\* One task: a retry is at the receipt of a recorded render.
TaskRecorded(t) ==
    /\ ctx[t] = "retry" => pc[t] \in {"receipt", "confirmed"}
    /\ todo[t] \subseteq Rows
    /\ pc[t] \in Busy => cur[t] \in Rows
    /\ Retrying(t) => \A m \in todo[t] : OnRecord(m)
    /\ pc[t] \in {"receipt", "confirmed"} => OnRecord(cur[t])

RowsOnly ==
    /\ gone \subseteq Rows /\ delivered \subseteq Rows /\ frames \subseteq Rows
    /\ \A m \in Msg : ledger[m] # "none" => m \in Rows

Recorded ==
    /\ RowsOnly
    /\ rendered \subseteq Msg /\ \A m \in rendered : OnRecord(m)
    /\ \A t \in Task : TaskRecorded(t)

\* The invariant of the refinement.
ContractInv == TypeInv /\ ConfirmedInv /\ Recorded

\* The rows of the ledger and of the server stay, whatever a step does.
RecordsStay ==
    /\ sent <= sent'
    /\ \A m \in Msg : OnRecord(m) => OnRecord(m)'

LEMMA RowsAreMessages ==
    ASSUME TypeInv PROVE sent \in Nat /\ MaxMsg \in Nat /\ Rows \subseteq Msg
<1>1. sent \in 0..MaxMsg /\ MaxMsg \in Nat
    BY BoundsAssumption DEF TypeInv, TypeOK
<1> QED BY <1>1 DEF Rows, Msg

\* A task that a step leaves alone.
LEMMA TaskKept ==
    ASSUME ContractInv, RecordsStay, sent' \in 0..MaxMsg, NEW u \in Task,
           pc'[u] = pc[u] /\ cur'[u] = cur[u] /\ ctx'[u] = ctx[u] /\ todo'[u] = todo[u]
    PROVE  TaskRecorded(u)'
<1>1. TaskRecorded(u)
    BY DEF ContractInv, Recorded
<1>2. Rows \subseteq Rows' /\ Rows \subseteq Msg
    BY RowsAreMessages DEF ContractInv, RecordsStay, Rows
<1>3. \A m \in Rows : OnRecord(m) => OnRecord(m)'
    BY <1>2 DEF RecordsStay
<1>4. Retrying(u)' <=> Retrying(u)
    BY DEF Retrying
<1> HIDE DEF Rows
<1> QED BY <1>1, <1>2, <1>3, <1>4 DEF TaskRecorded, Busy

\* A step of one task.
LEMMA TaskStep ==
    ASSUME ContractInv, RowsOnly', RecordsStay, sent' \in 0..MaxMsg, NEW t \in Task, TaskRecorded(t)',
           \A u \in Task \ {t} : /\ pc'[u] = pc[u] /\ cur'[u] = cur[u]
                                 /\ ctx'[u] = ctx[u] /\ todo'[u] = todo[u],
           rendered' \subseteq Msg, \A m \in rendered' : OnRecord(m)'
    PROVE  Recorded'
BY TaskKept DEF Recorded

\* What a task does on leaving handle_message.
LEMMA LeaveRecorded ==
    ASSUME ContractInv, NEW t \in Task, Leave(t), UNCHANGED todo, RecordsStay, sent' = sent
    PROVE  /\ TaskRecorded(t)'
           /\ \A u \in Task \ {t} : /\ pc'[u] = pc[u] /\ cur'[u] = cur[u]
                                    /\ ctx'[u] = ctx[u] /\ todo'[u] = todo[u]
<1>1. /\ pc'[t] \in {"idle", "page", "retry"}
      /\ pc'[t] = "retry" => ctx[t] = "retry"
      /\ ctx'[t] = "page"
      /\ \A u \in Task \ {t} : pc'[u] = pc[u] /\ cur'[u] = cur[u] /\ ctx'[u] = ctx[u]
    BY LeaveFrame DEF ContractInv
<1>2. TaskRecorded(t) /\ Rows' = Rows /\ Rows \subseteq Msg
    BY RowsAreMessages DEF ContractInv, Recorded, Rows
<1>3. Retrying(t)' => Retrying(t)
    BY <1>1 DEF Retrying
<1> HIDE DEF Rows
<1>4. \A m \in todo[t] : OnRecord(m) => OnRecord(m)'
    BY <1>2 DEF RecordsStay, TaskRecorded
<1>5. TaskRecorded(t)'
    BY <1>1, <1>2, <1>3, <1>4 DEF TaskRecorded, Busy
<1> QED BY <1>1, <1>5

\* On entering it, a known render is one on record.
LEMMA BeginHandleRecorded ==
    ASSUME ContractInv, NEW t \in Task, NEW m \in Rows, NEW c \in {"frame", "page"},
           NEW r \in {"page", "idle"}, BeginHandle(t, m, c, r), ~Retrying(t),
           UNCHANGED <<sent, delivered, ledger>>, todo'[t] \subseteq todo[t]
    PROVE  /\ rendered' \subseteq Msg
           /\ \A k \in rendered' : OnRecord(k)'
           /\ TaskRecorded(t)'
           /\ \A u \in Task \ {t} : pc'[u] = pc[u] /\ cur'[u] = cur[u] /\ ctx'[u] = ctx[u]
<1>1. m \in Msg /\ TypeOK
    BY RowsAreMessages DEF ContractInv, TypeInv
<1>2. TaskRecorded(t) /\ rendered \subseteq Msg /\ \A k \in rendered : OnRecord(k)
    BY DEF ContractInv, Recorded
<1>3. rendered' \subseteq rendered \cup {m} /\ (m \in rendered' => m \in rendered \/ ledger[m] = "rendered")
    BY DEF BeginHandle, Status
<1>4. \A k \in Msg : OnRecord(k)' <=> OnRecord(k)
    BY DEF OnRecord
<1>5. \A k \in rendered' : OnRecord(k)'
    BY <1>1, <1>2, <1>3, <1>4 DEF OnRecord
<1>6. todo'[t] \subseteq Rows' /\ Rows' = Rows
    BY <1>2 DEF TaskRecorded, Rows
<1> HIDE DEF Rows
<1>7. CASE pc' = [pc EXCEPT ![t] = r] /\ UNCHANGED <<inflight, cur, ctx>>
  <2>1. pc'[t] = r /\ r \notin Busy /\ ~Retrying(t)' /\ ctx'[t] # "retry"
      BY <1>1, <1>7 DEF TypeOK, Busy, Retrying
  <2>2. \A u \in Task \ {t} : pc'[u] = pc[u] /\ cur'[u] = cur[u] /\ ctx'[u] = ctx[u]
      BY <1>1, <1>7 DEF TypeOK
  <2> QED BY <1>1, <1>2, <1>3, <1>5, <1>6, <2>1, <2>2 DEF TaskRecorded, Busy
<1>8. CASE /\ cur' = [cur EXCEPT ![t] = m]
           /\ ctx' = [ctx EXCEPT ![t] = c]
           /\ pc' = [pc EXCEPT ![t] = IF m \in rendered' THEN "receipt"
                                      ELSE IF HasHandler THEN "render" ELSE "record"]
  <2>1. /\ cur'[t] = m /\ ctx'[t] = c /\ c # "retry"
        /\ pc'[t] \in {"receipt", "render", "record"}
        /\ pc'[t] = "receipt" => m \in rendered'
      BY <1>1, <1>8 DEF TypeOK
  <2>2. \A u \in Task \ {t} : pc'[u] = pc[u] /\ cur'[u] = cur[u] /\ ctx'[u] = ctx[u]
      BY <1>1, <1>8 DEF TypeOK
  <2>3. ~Retrying(t)'
      BY <2>1 DEF Retrying
  <2> QED BY <1>1, <1>2, <1>3, <1>5, <1>6, <2>1, <2>2, <2>3 DEF TaskRecorded
<1> QED BY <1>7, <1>8 DEF BeginHandle

\* Steps that change neither the ledger nor what is delivered.
LEMMA QuietRecords ==
    ASSUME UNCHANGED <<sent, delivered, ledger>>, TypeInv
    PROVE  RecordsStay
BY RowsAreMessages DEF RecordsStay, OnRecord

LEMMA PullRecorded ==
    ASSUME ContractInv, NEW t \in Task, Pull(t) PROVE Recorded'
<1>1. /\ UNCHANGED <<sent, gone, delivered, frames, ledger>>
      /\ \A u \in Task \ {t} : todo'[u] = todo[u]
    BY DEF Pull, FetchEmpty, FetchPage, FetchFail, EndPage, EndBacklog, TakeRow, server, wire, durable,
           ContractInv, TypeInv, TypeOK
<1>2. TypeOK /\ TaskRecorded(t) /\ RecordsStay /\ RowsOnly' /\ sent' \in 0..MaxMsg
    BY <1>1, QuietRecords DEF ContractInv, TypeInv, TypeOK, Recorded, RowsOnly, Rows
<1>3. rendered \subseteq Msg /\ \A m \in rendered : OnRecord(m)'
    BY <1>2 DEF ContractInv, Recorded, RecordsStay
<1>4. \A list \in RetryLists : list \subseteq Rows /\ \A m \in list : OnRecord(m)'
    BY <1>1 DEF RetryLists, OldestRendered, OnRecord, ContractInv, Recorded, RowsOnly
<1>5. Rows' = Rows
    BY <1>1 DEF Rows
<1>6. PageAfter(after[t]) \subseteq Rows
    BY DEF PageAfter, Pending, Rows
<1> HIDE DEF Rows
<1>7. CASE TakeRow(t)
  <2>1. PICK m \in todo[t] : /\ todo' = [todo EXCEPT ![t] = @ \ {m}]
                             /\ BeginHandle(t, m, "page", "page")
      BY <1>7 DEF TakeRow
  <2>2. ~Retrying(t) /\ m \in Rows /\ todo'[t] \subseteq todo[t]
      BY <1>2, <1>7, <2>1 DEF TakeRow, TaskRecorded, Retrying, TypeOK
  <2>3. /\ rendered' \subseteq Msg
        /\ \A k \in rendered' : OnRecord(k)'
        /\ TaskRecorded(t)'
        /\ \A u \in Task \ {t} : pc'[u] = pc[u] /\ cur'[u] = cur[u] /\ ctx'[u] = ctx[u]
      BY <1>1, <2>1, <2>2, BeginHandleRecorded
  <2> QED BY <1>1, <1>2, <2>3, TaskStep
<1>8. CASE FetchEmpty(t) \/ FetchPage(t) \/ FetchFail(t) \/ EndPage(t)
  <2>1. /\ UNCHANGED <<cur, ctx, rendered>>
        /\ pc[t] \in {"fetch", "page"}
        /\ \E p \in {"idle", "fetch", "page", "retry"} : pc' = [pc EXCEPT ![t] = p]
      BY <1>8 DEF FetchEmpty, EndBacklog, FetchPage, FetchFail, EndPage, memory
  <2>2. /\ pc'[t] \notin Busy
        /\ \A u \in Task \ {t} : pc'[u] = pc[u]
        /\ ctx'[t] # "retry"
      BY <1>2, <2>1 DEF TaskRecorded, TypeOK, Busy
  <2>3. /\ todo'[t] \subseteq Rows
        /\ pc'[t] = "retry" => \A m \in todo'[t] : OnRecord(m)'
      BY <1>2, <1>4, <1>6, <1>8 DEF FetchEmpty, EndBacklog, FetchPage, FetchFail, EndPage, TypeOK, TaskRecorded
  <2>4. TaskRecorded(t)'
      BY <1>5, <2>2, <2>3 DEF TaskRecorded, Busy, Retrying
  <2> QED BY <1>1, <1>2, <1>3, <2>1, <2>2, <2>4, TaskStep
<1> QED BY <1>7, <1>8 DEF Pull

LEMMA HandleRecorded ==
    ASSUME ContractInv, NEW t \in Task, Handle(t) PROVE Recorded'
<1>1. UNCHANGED <<sent, gone, delivered, frames, todo>>
    BY DEF Handle, Show, HandlerFail, RecordRender, RecordRenderFails, server, wire, locals
<1>2. TypeOK /\ TaskRecorded(t) /\ RowsOnly /\ sent' \in 0..MaxMsg
    BY <1>1 DEF ContractInv, TypeInv, TypeOK, Recorded
<1>3. \A m \in rendered : OnRecord(m) /\ m \in Msg
    BY DEF ContractInv, Recorded
<1>4. Rows' = Rows
    BY <1>1 DEF Rows
<1>5. CASE Show(t)
  <2>1. UNCHANGED <<cur, ctx, rendered, ledger>> /\ pc[t] = "render" /\ pc' = [pc EXCEPT ![t] = "record"]
      BY <1>5 DEF Show, memory, locals, durable
  <2>2. RecordsStay /\ RowsOnly'
      BY <1>1, <1>2, <2>1, QuietRecords DEF ContractInv, RowsOnly, Rows
  <2>3. TaskRecorded(t)'
      BY <1>1, <1>2, <1>4, <2>1 DEF TaskRecorded, TypeOK, Busy, Retrying
  <2> QED BY <1>1, <1>2, <1>3, <2>1, <2>2, <2>3, TaskStep DEF TypeOK, OnRecord
<1>6. CASE HandlerFail(t) \/ RecordRenderFails(t)
  <2>1. UNCHANGED <<rendered, ledger>> /\ Leave(t)
      BY <1>6 DEF HandlerFail, RecordRenderFails, durable
  <2>2. RecordsStay /\ RowsOnly'
      BY <1>1, <1>2, <2>1, QuietRecords DEF ContractInv, RowsOnly, Rows
  <2> QED BY <1>1, <1>2, <1>3, <2>1, <2>2, LeaveRecorded, TaskStep DEF OnRecord
<1>7. CASE RecordRender(t)
  <2>1. /\ UNCHANGED <<cur, ctx>> /\ rendered' = rendered \cup {cur[t]}
        /\ pc[t] = "record" /\ pc' = [pc EXCEPT ![t] = "receipt"]
        /\ cur[t] \in Rows /\ cur[t] \in Msg
      BY <1>2, <1>7, RowsAreMessages DEF RecordRender, locals, TaskRecorded, Busy, ContractInv
  <2>2. \A m \in Msg : IF m = cur[t] THEN ledger'[m] # "none" ELSE ledger'[m] = ledger[m]
      BY <1>2, <1>7, <2>1 DEF RecordRender, MarkRendered, TypeOK
  <2>3. RecordsStay /\ RowsOnly'
      BY <1>1, <1>2, <1>4, <2>1, <2>2, RowsAreMessages DEF RecordsStay, OnRecord, RowsOnly, ContractInv
  <2>4. TaskRecorded(t)'
      BY <1>1, <1>2, <1>4, <2>1, <2>2 DEF TaskRecorded, TypeOK, Busy, Retrying, OnRecord
  <2>5. \A m \in rendered' : OnRecord(m)' /\ m \in Msg
      BY <1>3, <2>1, <2>2, <2>3 DEF RecordsStay, OnRecord
  <2> QED BY <1>1, <1>2, <2>1, <2>3, <2>4, <2>5, TaskStep DEF TypeOK
<1> QED BY <1>5, <1>6, <1>7 DEF Handle

\* A confirmed row that is pruned is one that the server has as delivered.
LEMMA AckedRecords ==
    ASSUME ContractInv, NEW m \in Msg, m \in delivered, MarkAcked(m), UNCHANGED <<sent, delivered>>
    PROVE  /\ RecordsStay
           /\ \A k \in Msg : ledger'[k] # "none" => k = m \/ ledger[k] # "none"
<1>1. \A k \in Msg : ledger'[k] = ledger[k] \/ k \in delivered
    BY DEF MarkAcked, ContractInv, ConfirmedInv
<1>2. \A k \in Msg : ledger'[k] # "none" => k = m \/ ledger[k] # "none"
    BY DEF MarkAcked
<1> QED BY <1>1, <1>2, RowsAreMessages DEF RecordsStay, OnRecord, ContractInv

LEMMA ReceiptRecorded ==
    ASSUME ContractInv, NEW t \in Task, Receipt(t) PROVE Recorded'
<1>1. UNCHANGED <<sent, gone, rendered>> /\ frames' \subseteq frames
    BY DEF Receipt, ServerAck, ServerAckCrash, ReceiptFail, ReceiptOk, TakeRetry, EndRetry, server, wire, memory
<1>2. TypeOK /\ TaskRecorded(t) /\ RowsOnly /\ sent' \in 0..MaxMsg /\ sent \in Nat
    BY <1>1, RowsAreMessages DEF ContractInv, TypeInv, TypeOK, Recorded
<1>3. \A m \in rendered' : OnRecord(m) /\ m \in Msg
    BY <1>1 DEF ContractInv, Recorded
<1>4. Rows' = Rows /\ Rows \subseteq Msg
    BY <1>1, RowsAreMessages DEF Rows, ContractInv
<1>5. CASE ServerAck(t) \/ ServerAckCrash(t)
  <2>1. /\ delivered' = delivered \cup {cur[t]} /\ cur[t] \in Rows
        /\ UNCHANGED <<ledger, todo>>
      BY <1>5 DEF ServerAck, ServerAckCrash, CommitReceipt, Row, Rows, locals, durable
  <2>2. RecordsStay /\ RowsOnly'
      BY <1>1, <1>2, <1>4, <2>1 DEF RecordsStay, OnRecord, RowsOnly
  <2>3. CASE ServerAck(t)
    <3>1. UNCHANGED <<cur, ctx>> /\ pc[t] = "receipt" /\ pc' = [pc EXCEPT ![t] = "confirmed"]
        BY <2>3 DEF ServerAck, locals
    <3>2. TaskRecorded(t)'
        BY <1>2, <1>4, <2>1, <2>2, <3>1 DEF TaskRecorded, TypeOK, Busy, Retrying, OnRecord
    <3> QED BY <1>2, <1>3, <1>4, <2>1, <2>2, <3>1, <3>2, TaskStep DEF TypeOK, RecordsStay
  <2>4. CASE ServerAckCrash(t)
    <3>1. Leave(t)
        BY <2>4 DEF ServerAckCrash
    <3> QED BY <1>1, <1>2, <1>3, <2>1, <2>2, <3>1, LeaveRecorded, TaskStep DEF RecordsStay
  <2> QED BY <1>5, <2>3, <2>4
<1>6. CASE ReceiptFail(t) \/ ReceiptOk(t)
  <2>1. Leave(t) /\ UNCHANGED <<delivered, todo, frames>>
      BY <1>6 DEF ReceiptFail, ReceiptOk, server, wire
  <2>2. RecordsStay /\ RowsOnly'
    <3>1. CASE UNCHANGED ledger
        BY <1>1, <1>2, <2>1, <3>1, QuietRecords DEF ContractInv, RowsOnly, Rows
    <3>2. CASE pc[t] = "confirmed" /\ MarkAcked(cur[t])
      <4>1. cur[t] \in delivered /\ cur[t] \in Rows /\ cur[t] \in Msg
          BY <1>2, <1>4, <3>2 DEF ContractInv, ConfirmedInv, TaskRecorded, Busy
      <4>2. /\ RecordsStay
            /\ \A k \in Msg : ledger'[k] # "none" => k = cur[t] \/ ledger[k] # "none"
          BY <1>1, <2>1, <3>2, <4>1, AckedRecords
      <4> QED BY <1>1, <1>2, <1>4, <2>1, <4>1, <4>2 DEF RowsOnly
    <3> QED BY <1>6, <3>1, <3>2 DEF ReceiptFail, ReceiptOk, durable
  <2> QED BY <1>1, <1>2, <1>3, <2>1, <2>2, LeaveRecorded, TaskStep DEF RecordsStay
<1>7. CASE TakeRetry(t)
  <2>1. PICK m \in todo[t] : /\ todo' = [todo EXCEPT ![t] = @ \ {m}]
                             /\ cur' = [cur EXCEPT ![t] = m]
                             /\ ctx' = [ctx EXCEPT ![t] = "retry"]
                             /\ pc' = [pc EXCEPT ![t] = "receipt"]
                             /\ pc[t] = "retry"
      BY <1>7 DEF TakeRetry
  <2>2. RecordsStay /\ RowsOnly'
      BY <1>1, <1>2, <1>7, QuietRecords DEF TakeRetry, server, wire, durable, ContractInv, RowsOnly, Rows
  <2>3. m \in Rows /\ m \in Msg /\ OnRecord(m)'
      BY <1>2, <1>4, <2>1, <2>2 DEF TaskRecorded, Retrying, RecordsStay
  <2>4. /\ todo'[t] \subseteq todo[t] /\ cur'[t] = m /\ ctx'[t] = "retry" /\ pc'[t] = "receipt"
        /\ \A u \in Task \ {t} : /\ pc'[u] = pc[u] /\ cur'[u] = cur[u]
                                 /\ ctx'[u] = ctx[u] /\ todo'[u] = todo[u]
      BY <1>2, <2>1 DEF TypeOK
  <2>5. \A k \in todo[t] : OnRecord(k)'
      BY <1>2, <1>4, <2>1, <2>2 DEF TaskRecorded, Retrying, RecordsStay
  <2>6. TaskRecorded(t)'
      BY <1>2, <1>4, <2>3, <2>4, <2>5 DEF TaskRecorded
  <2> QED BY <1>2, <1>3, <2>2, <2>4, <2>6, TaskStep DEF RecordsStay
<1>8. CASE EndRetry(t)
  <2>1. UNCHANGED <<cur, ctx, todo>> /\ todo[t] = {} /\ pc[t] = "retry" /\ pc' = [pc EXCEPT ![t] = "idle"]
      BY <1>8 DEF EndRetry, locals
  <2>2. RecordsStay /\ RowsOnly'
      BY <1>1, <1>2, <1>8, QuietRecords DEF EndRetry, server, wire, durable, ContractInv, RowsOnly, Rows
  <2>3. TaskRecorded(t)'
      BY <1>2, <2>1 DEF TaskRecorded, TypeOK, Busy
  <2> QED BY <1>2, <1>3, <2>1, <2>2, <2>3, TaskStep DEF TypeOK, RecordsStay
<1> QED BY <1>5, <1>6, <1>7, <1>8 DEF Receipt

LEMMA RecordedStep ==
    ASSUME ContractInv, [Next]_vars PROVE Recorded'
<1>1. TypeOK /\ RowsOnly /\ sent \in Nat /\ MaxMsg \in Nat /\ Rows \subseteq Msg
    BY RowsAreMessages DEF ContractInv, TypeInv, Recorded
<1>2. rendered \subseteq Msg /\ \A m \in rendered : OnRecord(m)
    BY DEF ContractInv, Recorded
<1>3. ASSUME UNCHANGED <<rendered, pc, cur, ctx, todo>>, RecordsStay, RowsOnly', sent' \in 0..MaxMsg
      PROVE  Recorded'
    BY <1>2, <1>3, TaskKept DEF Recorded, RecordsStay
<1>4. CASE SendMessage
  <2>1. /\ UNCHANGED <<rendered, pc, cur, ctx, todo, ledger, delivered, gone>>
        /\ sent' = sent + 1 /\ sent < MaxMsg /\ frames' \subseteq frames \cup {sent + 1}
      BY <1>4 DEF SendMessage, Transmit, wire, memory, locals, durable
  <2>2. sent' \in 0..MaxMsg /\ Rows' = Rows \cup {sent + 1}
      BY <1>1, <2>1 DEF Rows
  <2>3. RecordsStay /\ RowsOnly'
      BY <1>1, <2>1, <2>2 DEF RecordsStay, OnRecord, RowsOnly
  <2> QED BY <1>3, <2>1, <2>2, <2>3
<1>5. CASE DeleteStudent \/ Disconnect \/ UNCHANGED vars
  <2>1. /\ UNCHANGED <<rendered, pc, cur, ctx, todo, ledger, delivered, sent>>
        /\ frames' \subseteq frames /\ gone' \in {gone, Rows}
      BY <1>5 DEF DeleteStudent, Disconnect, vars, server, wire, memory, locals, durable, Rows
  <2>2. RecordsStay /\ RowsOnly' /\ sent' \in 0..MaxMsg
      BY <1>1, <2>1, QuietRecords DEF ContractInv, TypeOK, RowsOnly, Rows
  <2> QED BY <1>3, <2>1, <2>2
<1>6. ASSUME NEW t \in Task, pc[t] = "idle", pc' = [pc EXCEPT ![t] = "fetch"],
             UNCHANGED <<rendered, cur, ctx, todo, ledger, delivered, gone, sent, frames>>
      PROVE  Recorded'
  <2>1. RecordsStay /\ RowsOnly' /\ sent' \in 0..MaxMsg /\ Rows' = Rows
      BY <1>1, <1>6, QuietRecords DEF ContractInv, TypeOK, RowsOnly, Rows
  <2>2. pc'[t] = "fetch" /\ \A u \in Task \ {t} : pc'[u] = pc[u]
      BY <1>1, <1>6 DEF TypeOK
  <2>3. TaskRecorded(t)'
      BY <1>6, <2>1, <2>2 DEF ContractInv, Recorded, TaskRecorded, Busy, Retrying
  <2> QED BY <1>2, <1>6, <2>1, <2>2, <2>3, TaskStep DEF RecordsStay
<1>7. CASE TakeFrame
  <2>1. PICK m \in frames : frames' = frames \ {m} /\ BeginHandle("ws", m, "frame", "idle")
      BY <1>7 DEF TakeFrame
  <2>2. /\ pc["ws"] = "idle" /\ UNCHANGED <<sent, gone, delivered, ledger, todo>> /\ "ws" \in Task
        /\ m \in Rows
      BY <1>1, <1>7, <2>1 DEF TakeFrame, server, durable, Task, RowsOnly
  <2>3. ~Retrying("ws")
      BY <2>2 DEF ContractInv, Recorded, TaskRecorded, Retrying
  <2>4. RecordsStay /\ RowsOnly' /\ sent' \in 0..MaxMsg
      BY <1>1, <2>1, <2>2, QuietRecords DEF ContractInv, TypeOK, RowsOnly, Rows
  <2>5. /\ rendered' \subseteq Msg
        /\ \A k \in rendered' : OnRecord(k)'
        /\ TaskRecorded("ws")'
        /\ \A u \in Task \ {"ws"} : pc'[u] = pc[u] /\ cur'[u] = cur[u] /\ ctx'[u] = ctx[u]
    <3> HIDE DEF Rows
    <3> QED BY <2>1, <2>2, <2>3, BeginHandleRecorded
  <2> QED BY <2>2, <2>4, <2>5, TaskStep
<1>8. CASE Crash
  <2>1. /\ UNCHANGED <<sent, gone, delivered, ledger>> /\ rendered' = {} /\ frames' = {}
        /\ \A t \in Task : pc'[t] = "idle" /\ ctx'[t] = "page" /\ todo'[t] = {}
      BY <1>8 DEF Crash, server, durable
  <2>2. RowsOnly'
      BY <1>1, <2>1 DEF RowsOnly, Rows
  <2>3. \A t \in Task : TaskRecorded(t)'
      BY <2>1 DEF TaskRecorded, Busy
  <2> QED BY <2>1, <2>2, <2>3 DEF Recorded
<1>9. ASSUME NEW t \in Task, Pull(t) \/ Handle(t) \/ Receipt(t) PROVE Recorded'
    BY <1>9, PullRecorded, HandleRecorded, ReceiptRecorded
<1>10. "spool" \in Task /\ "ws" \in Task
    BY DEF Task
<1>11. CASE PollPull
    BY <1>6, <1>10, <1>11 DEF PollPull, BeginPull, server, wire, durable, memory
<1>12. CASE Connect
    BY <1>6, <1>10, <1>12 DEF Connect, BeginPull, server, durable, memory
<1> QED BY <1>4, <1>5, <1>7, <1>8, <1>9, <1>11, <1>12 DEF Next

LEMMA ContractInit == Init => ContractInv
<1> SUFFICES ASSUME Init PROVE ContractInv
    OBVIOUS
<1>1. RowsOnly
    BY DEF Init, RowsOnly
<1>2. \A t \in Task : TaskRecorded(t)
    BY DEF Init, TaskRecorded, Busy, Retrying
<1>3. Recorded
    BY <1>1, <1>2 DEF Init, Recorded
<1>4. ConfirmedInv
    BY DEF Init, ConfirmedInv
<1> QED BY <1>3, <1>4, TypeInit DEF ContractInv

LEMMA ContractInvariant == Spec => []ContractInv
<1>1. ContractInv /\ [Next]_vars => ContractInv'
    BY RecordedStep, TypeStep, ConfirmedStep DEF ContractInv
<1> QED BY <1>1, ContractInit, PTL DEF Spec

-----------------------------------------------------------------------------
(* The refinement: where a message stands in the life that DeliveryContract  *)
(* describes, and that each step takes it one step further, or nowhere.      *)

Standing(m) ==
    IF m \in delivered THEN "confirmed"
    ELSE IF m \in gone THEN "withdrawn"
    ELSE IF ledger[m] # "none" THEN "rendered"
    ELSE IF m <= sent THEN "sent" ELSE "unsent"

LEMMA StatusIsStanding ==
    /\ ContractStatus = [m \in Msg |-> Standing(m)]
    /\ ContractStatus' = [m \in Msg |-> Standing(m)']
BY DEF ContractStatus, Standing

\* No message moves: a step that stutters.
LEMMA Stutter ==
    ASSUME \A m \in Msg : Standing(m)' = Standing(m)
    PROVE  ContractStatus' = ContractStatus
BY StatusIsStanding

\* One message moves.
LEMMA Moves ==
    ASSUME NEW m \in Msg, \A k \in Msg : k # m => Standing(k)' = Standing(k),
           \/ Standing(m) = "unsent" /\ Standing(m)' = "sent"
           \/ Standing(m) = "sent" /\ Standing(m)' = "rendered"
           \/ Standing(m) = "rendered" /\ Standing(m)' = "confirmed"
           \/ Standing(m)' = Standing(m)
    PROVE  [Contract!ContractNext]_ContractStatus
<1> DEFINE S == ContractStatus
           T == ContractStatus'
<1>1. S = [k \in Msg |-> Standing(k)] /\ T = [k \in Msg |-> Standing(k)']
    BY StatusIsStanding
<1>2. T = [S EXCEPT ![m] = Standing(m)'] /\ S[m] = Standing(m)
    BY <1>1
<1>3. CASE Standing(m)' = Standing(m)
    BY <1>1, <1>3
<1>4. CASE Standing(m) = "unsent" /\ Standing(m)' = "sent"
  <2>1. Contract!Advance(m, "unsent", "sent")
      BY <1>2, <1>4 DEF Contract!Advance
  <2> QED BY <2>1 DEF Contract!ContractNext
<1>5. CASE Standing(m) = "sent" /\ Standing(m)' = "rendered"
  <2>1. Contract!Advance(m, "sent", "rendered")
      BY <1>2, <1>5 DEF Contract!Advance
  <2> QED BY <2>1 DEF Contract!ContractNext
<1>6. CASE Standing(m) = "rendered" /\ Standing(m)' = "confirmed"
  <2>1. Contract!Advance(m, "rendered", "confirmed")
      BY <1>2, <1>6 DEF Contract!Advance
  <2> QED BY <2>1 DEF Contract!ContractNext
<1> QED BY <1>3, <1>4, <1>5, <1>6

\* Standing depends on the server's tables and on whether the ledger has a row.
LEMMA SameStanding ==
    ASSUME UNCHANGED <<sent, gone, delivered>>, NEW m \in Msg,
           m \in delivered \/ (ledger'[m] = "none" <=> ledger[m] = "none")
    PROVE  Standing(m)' = Standing(m)
BY DEF Standing

LEMMA SendContract ==
    ASSUME ContractInv, SendMessage PROVE [Contract!ContractNext]_ContractStatus
<1>1. /\ UNCHANGED <<ledger, delivered, gone>> /\ sent' = sent + 1 /\ sent < MaxMsg
      /\ sent \in Nat /\ MaxMsg \in Nat
    BY RowsAreMessages DEF SendMessage, durable, ContractInv
<1>2. PICK m \in Msg : m = sent + 1 /\ m \notin Rows
    BY <1>1 DEF Msg, Rows
<1>3. ledger[m] = "none" /\ m \notin delivered /\ m \notin gone
    BY <1>2 DEF ContractInv, Recorded, RowsOnly
<1>4. Standing(m) = "unsent" /\ Standing(m)' = "sent"
    BY <1>1, <1>2, <1>3 DEF Standing
<1>5. \A k \in Msg : k # m => Standing(k)' = Standing(k)
    BY <1>1, <1>2 DEF Standing, Msg
<1> QED BY <1>2, <1>4, <1>5, Moves

LEMMA DeleteContract ==
    ASSUME ContractInv, DeleteStudent PROVE [Contract!ContractNext]_ContractStatus
<1>1. UNCHANGED <<ledger, delivered, sent>> /\ gone' = Rows
    BY DEF DeleteStudent, durable, Rows
<1>2. gone \subseteq Rows /\ \A m \in Msg : ledger[m] # "none" => m \in Rows
    BY DEF ContractInv, Recorded, RowsOnly
<1>3. \A m \in Msg : m \in Rows <=> m <= sent
    BY RowsAreMessages DEF ContractInv, Rows, Msg
<1>4. \A m \in Msg : Standing(m)' = IF Standing(m) \in {"sent", "rendered"} THEN "withdrawn"
                                    ELSE Standing(m)
    BY <1>1, <1>2, <1>3 DEF Standing
<1>5. Contract!Withdraw
    BY <1>4, StatusIsStanding DEF Contract!Withdraw
<1> QED BY <1>5 DEF Contract!ContractNext

LEMMA RenderContract ==
    ASSUME ContractInv, NEW t \in Task, RecordRender(t)
    PROVE  [Contract!ContractNext]_ContractStatus
<1>0. PICK m \in Msg : m = cur[t] /\ m \in Rows
    BY RowsAreMessages DEF RecordRender, ContractInv, Recorded, TaskRecorded, Busy
<1>1. /\ UNCHANGED <<sent, gone, delivered>>
      /\ ledger \in [Msg -> {"none", "rendered", "acked"}]
      /\ ledger' = [ledger EXCEPT ![m] = IF @ = "acked" THEN "acked" ELSE "rendered"]
    BY <1>0 DEF RecordRender, MarkRendered, server, ContractInv, TypeInv, TypeOK
<1>2. m <= sent /\ ledger'[m] # "none" /\ \A k \in Msg : k # m => ledger'[k] = ledger[k]
    BY <1>0, <1>1 DEF Rows
<1>3. \A k \in Msg : k # m => Standing(k)' = Standing(k)
    BY <1>1, <1>2, SameStanding
<1>4. Standing(m)' = Standing(m) \/ (Standing(m) = "sent" /\ Standing(m)' = "rendered")
    BY <1>1, <1>2 DEF Standing
<1> QED BY <1>3, <1>4, Moves

LEMMA AckContract ==
    ASSUME ContractInv, NEW t \in Task, ServerAck(t) \/ ServerAckCrash(t)
    PROVE  [Contract!ContractNext]_ContractStatus
<1>0. PICK m \in Msg : m = cur[t] /\ OnRecord(m)
    BY RowsAreMessages DEF ServerAck, ServerAckCrash, ContractInv, Recorded, TaskRecorded, Busy
<1>1. /\ UNCHANGED <<sent, gone, ledger>> /\ delivered' = delivered \cup {m}
      /\ m \in Rows /\ m \notin gone
    BY <1>0 DEF ServerAck, ServerAckCrash, CommitReceipt, Row, Rows, durable
<1>3. \A k \in Msg : k # m => Standing(k)' = Standing(k)
    BY <1>1 DEF Standing
<1>4. Standing(m)' = Standing(m) \/ (Standing(m) = "rendered" /\ Standing(m)' = "confirmed")
    BY <1>0, <1>1 DEF Standing, OnRecord
<1> QED BY <1>3, <1>4, Moves

LEMMA ContractStep ==
    ASSUME ContractInv, [Next]_vars PROVE [Contract!ContractNext]_ContractStatus
<1>1. ASSUME UNCHANGED <<sent, gone, delivered, ledger>>
      PROVE  [Contract!ContractNext]_ContractStatus
    BY <1>1, SameStanding, Stutter
<1>2. CASE PollPull \/ Connect \/ Disconnect \/ TakeFrame \/ Crash \/ UNCHANGED vars
    BY <1>1, <1>2 DEF PollPull, Connect, Disconnect, TakeFrame, Crash, vars, server, durable
<1>3. ASSUME NEW t \in Task, Pull(t) PROVE [Contract!ContractNext]_ContractStatus
    BY <1>1, <1>3 DEF Pull, FetchEmpty, FetchPage, FetchFail, EndPage, TakeRow, server, durable
<1>4. ASSUME NEW t \in Task, Handle(t) PROVE [Contract!ContractNext]_ContractStatus
  <2>1. CASE Show(t) \/ HandlerFail(t) \/ RecordRenderFails(t)
      BY <1>1, <2>1 DEF Show, HandlerFail, RecordRenderFails, server, durable
  <2> QED BY <1>4, <2>1, RenderContract DEF Handle
<1>5. ASSUME NEW t \in Task, Receipt(t) PROVE [Contract!ContractNext]_ContractStatus
  <2>1. CASE ReceiptFail(t) \/ TakeRetry(t) \/ EndRetry(t)
      BY <1>1, <2>1 DEF ReceiptFail, TakeRetry, EndRetry, server, durable
  <2>2. CASE ReceiptOk(t)
    <3>1. UNCHANGED <<sent, gone, delivered>> /\ pc[t] = "confirmed"
          /\ (UNCHANGED ledger \/ MarkAcked(cur[t]))
        BY <2>2 DEF ReceiptOk, server, durable
    <3>2. ASSUME NEW k \in Msg PROVE k \in delivered \/ ledger'[k] = ledger[k]
        BY <3>1 DEF MarkAcked, ContractInv, ConfirmedInv
    <3>3. \A k \in Msg : Standing(k)' = Standing(k)
        BY <3>1, <3>2, SameStanding
    <3> QED BY <3>3, Stutter
  <2> QED BY <1>5, <2>1, <2>2, AckContract DEF Receipt
<1> QED BY <1>2, <1>3, <1>4, <1>5, SendContract, DeleteContract DEF Next

\* The agent, the server and the network implement the delivery contract: no
\* interleaving of the two tasks, lost answer, failed write, pruning or restart
\* takes a message back, or confirms one whose render is not on record
\* (StudentCoordinator.handle_message, MessageService.ack).
THEOREM DeliveryImplementsContract == Spec => ImplementsContract
<1>1. Init => Contract!ContractInit
  <2> SUFFICES ASSUME Init PROVE Contract!ContractInit
      OBVIOUS
  <2>1. \A m \in Msg : Standing(m) = "unsent"
      BY BoundsAssumption DEF Init, Standing, Msg
  <2> QED BY <2>1, StatusIsStanding DEF Contract!ContractInit
<1>2. ContractInv /\ [Next]_vars => [Contract!ContractNext]_ContractStatus
    BY ContractStep
<1> QED BY <1>1, <1>2, ContractInvariant, PTL DEF Spec, ImplementsContract, Contract!ContractSpec

-----------------------------------------------------------------------------
(* NeverShownAgain: whatever is delivered and still on the client is one     *)
(* whose render the client knows of; what it is about to show is new.        *)

\* handle_message would not show the message.
Safe(m) == m \in seen \cup rendered \/ ledger[m] = "rendered"

Fresh(m) == ~Safe(m) /\ ledger[m] = "none" /\ m \notin delivered

TaskSafe(t) ==
    /\ \A m \in todo[t] : m \in delivered \/ Retrying(t) => Safe(m)
    /\ pc[t] \in {"receipt", "confirmed"} => Safe(cur[t])
    /\ pc[t] = "render" => Fresh(cur[t])

ShowInv ==
    /\ \A m \in frames : m \in delivered => Safe(m)
    /\ \A t \in Task : TaskSafe(t)

OnceInv == ContractInv /\ InflightExact /\ ShowInv

\* Within one run of the agent a render is not forgotten, and only what is
\* known to be rendered becomes delivered.
SafeStays ==
    \A m \in Msg : /\ Safe(m) => Safe(m)'
                   /\ m \in delivered' => m \in delivered \/ Safe(m)'

\* What another task is about to show stays new.
FreshStays(t) ==
    \A u \in Task \ {t} : pc[u] = "render" => Fresh(cur[u])'

\* A step that touches no message but m, except for pruning confirmed rows.
Only(m) ==
    \A k \in Msg \ {m} :
       /\ k \in seen' <=> k \in seen
       /\ k \in rendered' <=> k \in rendered
       /\ k \in delivered' <=> k \in delivered
       /\ ledger'[k] = ledger[k] \/ ledger[k] = "acked"

OthersStay(t) ==
    \A u \in Task \ {t} : pc'[u] = pc[u] /\ cur'[u] = cur[u] /\ ctx'[u] = ctx[u] /\ todo'[u] = todo[u]

\* What the messages that tasks hold are.
LEMMA HeldAreMessages ==
    ASSUME OnceInv
    PROVE  /\ TypeOK /\ delivered \subseteq Msg /\ frames \subseteq Msg
           /\ \A t \in Task : todo[t] \subseteq Msg /\ (pc[t] \in Busy => cur[t] \in Msg)
BY DEF OnceInv, ContractInv, TypeInv, TypeOK, CurIsMsg

LEMMA OnceStep ==
    ASSUME OnceInv, NEW t \in Task, SafeStays, FreshStays(t), OthersStay(t), TaskSafe(t)',
           frames' \subseteq frames
    PROVE  ShowInv'
<1>1. \A m \in frames' : m \in delivered' => Safe(m)'
    BY HeldAreMessages DEF SafeStays, OnceInv, ShowInv
<1>2. ASSUME NEW u \in Task \ {t} PROVE TaskSafe(u)'
  <2>1. TaskSafe(u) /\ todo[u] \subseteq Msg /\ (pc[u] \in Busy => cur[u] \in Msg)
      BY <1>2, HeldAreMessages DEF OnceInv, ShowInv
  <2>2. pc'[u] = pc[u] /\ cur'[u] = cur[u] /\ ctx'[u] = ctx[u] /\ todo'[u] = todo[u]
      BY <1>2 DEF OthersStay
  <2>3. Retrying(u)' <=> Retrying(u)
      BY <2>2 DEF Retrying
  <2>4. \A m \in todo'[u] : m \in delivered' \/ Retrying(u)' => Safe(m)'
      BY <2>1, <2>2, <2>3 DEF SafeStays, TaskSafe
  <2>5. pc'[u] \in {"receipt", "confirmed"} => Safe(cur[u])'
      BY <2>1, <2>2 DEF SafeStays, TaskSafe, Busy
  <2>6. pc'[u] = "render" => Fresh(cur[u])'
      BY <1>2, <2>2 DEF FreshStays
  <2> QED BY <2>4, <2>5, <2>6 DEF TaskSafe
<1> QED BY <1>1, <1>2 DEF ShowInv

\* A step on message m that no other task is about to show, or that leaves it new.
LEMMA OnlyStays ==
    ASSUME OnceInv, NEW t \in Task, NEW m \in Msg, Only(m), OthersStay(t),
           Safe(m) => Safe(m)', m \in delivered' => m \in delivered \/ Safe(m)',
           \A u \in Task \ {t} : pc[u] = "render" => cur[u] # m \/ Fresh(m)'
    PROVE  SafeStays /\ FreshStays(t)
<1>1. \A k \in Msg : Safe(k) => Safe(k)'
    BY DEF Only, Safe
<1>2. \A k \in Msg : k \in delivered' => k \in delivered \/ Safe(k)'
    BY DEF Only
<1>3. ASSUME NEW u \in Task \ {t}, pc[u] = "render" PROVE Fresh(cur[u])'
  <2>1. PICK k \in Msg : k = cur[u]
      BY <1>3, HeldAreMessages DEF Busy
  <2>2. Fresh(k)
      BY <1>3, <2>1 DEF OnceInv, ShowInv, TaskSafe
  <2>3. Fresh(k)'
      BY <1>3, <2>1, <2>2 DEF Only, Fresh, Safe
  <2>4. k = cur'[u]
      BY <2>1 DEF OthersStay
  <2> QED BY <2>3, <2>4
<1> QED BY <1>1, <1>2, <1>3 DEF SafeStays, FreshStays

\* A task that is about to show a message is alone with it, unless the other
\* one retries a receipt; but then the message is no longer new.
LEMMA ShowsAlone ==
    ASSUME OnceInv, NEW t \in Task, NEW u \in Task \ {t}, pc[u] = "render", pc[t] \in Busy
    PROVE  cur[u] # cur[t]
<1>1. ctx[u] # "retry" /\ Working(u) /\ Fresh(cur[u])
    BY DEF OnceInv, ContractInv, Recorded, TaskRecorded, ShowInv, TaskSafe, Working
<1>2. CASE ctx[t] = "retry"
  <2>1. Safe(cur[t])
      BY <1>2 DEF OnceInv, ContractInv, Recorded, TaskRecorded, ShowInv, TaskSafe
  <2> QED BY <1>1, <2>1 DEF Fresh
<1>3. CASE ctx[t] # "retry"
  <2>1. Working(t)
      BY <1>3 DEF Working, Busy
  <2> QED BY <1>1, <2>1 DEF OnceInv, InflightExact
<1> QED BY <1>2, <1>3

\* Steps that leave what is known of the messages alone.
LEMMA QuietStays ==
    ASSUME OnceInv, NEW t \in Task, UNCHANGED <<seen, rendered, ledger, delivered>>, OthersStay(t)
    PROVE  SafeStays /\ FreshStays(t)
<1>1. \A k \in Msg : (Safe(k)' <=> Safe(k)) /\ (Fresh(k)' <=> Fresh(k))
    BY DEF Safe, Fresh
<1>2. SafeStays
    BY <1>1 DEF SafeStays
<1>3. ASSUME NEW u \in Task \ {t}, pc[u] = "render" PROVE Fresh(cur[u])'
  <2>1. PICK k \in Msg : k = cur[u]
      BY <1>3, HeldAreMessages DEF Busy
  <2>2. Fresh(k)'
      BY <1>1, <1>3, <2>1 DEF OnceInv, ShowInv, TaskSafe
  <2>3. k = cur'[u]
      BY <2>1 DEF OthersStay
  <2> QED BY <2>2, <2>3
<1> QED BY <1>2, <1>3 DEF FreshStays

\* A task that leaves handle_message keeps what it had to do.
LEMMA LeaveSafe ==
    ASSUME OnceInv, NEW t \in Task, Leave(t), UNCHANGED todo, SafeStays, delivered' = delivered
    PROVE  OthersStay(t) /\ TaskSafe(t)'
<1>1. /\ pc'[t] \in {"idle", "page", "retry"}
      /\ pc'[t] = "retry" => ctx[t] = "retry"
      /\ ctx'[t] = "page"
      /\ \A u \in Task \ {t} : pc'[u] = pc[u] /\ cur'[u] = cur[u] /\ ctx'[u] = ctx[u]
    BY LeaveFrame DEF OnceInv, ContractInv
<1>2. Retrying(t)' => Retrying(t)
    BY <1>1 DEF Retrying
<1>3. \A m \in todo[t] : m \in delivered \/ Retrying(t) => Safe(m)'
    BY HeldAreMessages DEF SafeStays, OnceInv, ShowInv, TaskSafe
<1>4. \A m \in todo'[t] : m \in delivered' \/ Retrying(t)' => Safe(m)'
    BY <1>2, <1>3
<1>5. TaskSafe(t)'
    BY <1>1, <1>4 DEF TaskSafe
<1> QED BY <1>1, <1>5 DEF OthersStay

\* handle_message shows only what is new, and no other task loses sight of a
\* render by it.
LEMMA BeginHandleFresh ==
    ASSUME ~ReadFaults, OnceInv, NEW t \in Task, NEW m \in Msg, NEW c \in {"frame", "page"},
           NEW r \in {"page", "idle"}, BeginHandle(t, m, c, r), ~Retrying(t),
           m \in delivered => Safe(m),
           UNCHANGED <<delivered, ledger>>, todo'[t] \subseteq todo[t],
           \A u \in Task \ {t} : todo'[u] = todo[u]
    PROVE  SafeStays /\ FreshStays(t) /\ OthersStay(t) /\ TaskSafe(t)'
<1>1. TypeOK
    BY HeldAreMessages
<1>2. /\ seen' = IF ledger[m] = "acked" THEN seen \cup {m} ELSE seen
      /\ rendered' = IF ledger[m] = "rendered" THEN rendered \cup {m} ELSE rendered
    BY DEF BeginHandle, Status
<1>3. /\ pc' = [pc EXCEPT ![t] = r] /\ UNCHANGED <<cur, ctx>>
      \/ /\ m \notin seen' /\ cur' = [cur EXCEPT ![t] = m] /\ ctx' = [ctx EXCEPT ![t] = c]
         /\ pc' = [pc EXCEPT ![t] = IF m \in rendered' THEN "receipt"
                                    ELSE IF HasHandler THEN "render" ELSE "record"]
    BY <1>2 DEF BeginHandle, Status
<1>4. OthersStay(t)
    BY <1>1, <1>3 DEF OthersStay, TypeOK
<1>5. Only(m)
    BY <1>2 DEF Only
<1>6. (Safe(m) => Safe(m)') /\ (Fresh(m) => Fresh(m)') /\ (m \in rendered' => Safe(m)')
    BY <1>2 DEF Safe, Fresh
<1>7. \A u \in Task \ {t} : pc[u] = "render" => cur[u] # m \/ Fresh(m)'
    BY <1>6 DEF OnceInv, ShowInv, TaskSafe
<1>8. SafeStays /\ FreshStays(t)
    BY <1>4, <1>5, <1>6, <1>7, OnlyStays
<1>9. \A k \in todo'[t] : k \in delivered' => Safe(k)'
    BY <1>8, HeldAreMessages DEF SafeStays, OnceInv, ShowInv, TaskSafe
<1>10. ctx[t] # "retry"
    BY DEF Retrying
<1>11. CASE pc' = [pc EXCEPT ![t] = r] /\ UNCHANGED <<cur, ctx>>
  <2>1. pc'[t] = r /\ ~Retrying(t)'
      BY <1>1, <1>10, <1>11 DEF TypeOK, Retrying
  <2> QED BY <1>4, <1>8, <1>9, <2>1 DEF TaskSafe
<1>12. CASE /\ m \notin seen' /\ cur' = [cur EXCEPT ![t] = m] /\ ctx' = [ctx EXCEPT ![t] = c]
            /\ pc' = [pc EXCEPT ![t] = IF m \in rendered' THEN "receipt"
                                       ELSE IF HasHandler THEN "render" ELSE "record"]
  <2>1. /\ cur'[t] = m /\ ~Retrying(t)'
        /\ pc'[t] \in {"receipt", "render", "record"}
        /\ pc'[t] = "receipt" => m \in rendered'
        /\ pc'[t] = "render" => m \notin rendered'
      BY <1>1, <1>12 DEF TypeOK, Retrying
  <2>2. m \notin rendered' => Fresh(m)'
      BY <1>1, <1>2, <1>12 DEF Fresh, Safe, TypeOK
  <2> QED BY <1>4, <1>6, <1>8, <1>9, <2>1, <2>2 DEF TaskSafe
<1> QED BY <1>3, <1>11, <1>12

LEMMA PullOnce ==
    ASSUME ~ReadFaults, OnceInv, NEW t \in Task, Pull(t) PROVE ShowInv'
<1>1. /\ UNCHANGED <<sent, gone, delivered, frames, ledger>>
      /\ \A u \in Task \ {t} : todo'[u] = todo[u]
      /\ pc[t] \in {"fetch", "page"}
    BY HeldAreMessages DEF Pull, FetchEmpty, FetchPage, FetchFail, EndPage, EndBacklog, TakeRow,
                           server, wire, durable, TypeOK
<1>2. TypeOK /\ TaskSafe(t) /\ ~Retrying(t)
    BY <1>1, HeldAreMessages DEF OnceInv, ShowInv, ContractInv, Recorded, TaskRecorded, Retrying
<1>3. CASE TakeRow(t)
  <2>1. PICK m \in todo[t] : /\ todo' = [todo EXCEPT ![t] = @ \ {m}]
                             /\ BeginHandle(t, m, "page", "page")
      BY <1>3 DEF TakeRow
  <2>2. m \in Msg /\ todo'[t] \subseteq todo[t] /\ (m \in delivered => Safe(m))
      BY <1>2, <2>1 DEF TypeOK, TaskSafe
  <2>3. SafeStays /\ FreshStays(t) /\ OthersStay(t) /\ TaskSafe(t)'
      BY <1>1, <1>2, <2>1, <2>2, BeginHandleFresh
  <2> QED BY <1>1, <2>3, OnceStep
<1>4. CASE FetchEmpty(t) \/ FetchPage(t) \/ FetchFail(t) \/ EndPage(t)
  <2>1. /\ UNCHANGED <<cur, ctx, seen, rendered>>
        /\ \E p \in {"idle", "fetch", "page", "retry"} : pc' = [pc EXCEPT ![t] = p]
      BY <1>4 DEF FetchEmpty, EndBacklog, FetchPage, FetchFail, EndPage, memory
  <2>2. /\ pc'[t] \in {"idle", "fetch", "page", "retry"} /\ OthersStay(t)
        /\ ctx'[t] # "retry"
      BY <1>1, <1>2, <2>1 DEF TypeOK, Retrying, OthersStay
  <2>3. SafeStays /\ FreshStays(t)
      BY <1>1, <2>1, <2>2, QuietStays
  <2>4. \A m \in Pending : m \notin delivered
      BY DEF Pending
  <2>5. \A m \in OldestRendered : Safe(m)'
      BY <1>1 DEF OldestRendered, Safe
  <2>6. \/ todo'[t] = OldestRendered
        \/ pc'[t] # "retry" /\ todo'[t] \subseteq todo[t] \cup Pending
    <3>1. CASE EndBacklog(t)
        BY <1>2, <3>1 DEF EndBacklog, RetryLists, TypeOK
    <3>2. CASE FetchPage(t)
      <4>1. todo'[t] = PageAfter(after[t]) /\ pc'[t] = "page"
          BY <1>2, <3>2 DEF FetchPage, TypeOK
      <4> QED BY <4>1 DEF PageAfter
    <3>3. CASE FetchFail(t) \/ (EndPage(t) /\ ~EndBacklog(t))
        BY <1>2, <3>3 DEF FetchFail, EndPage, TypeOK
    <3> QED BY <1>4, <3>1, <3>2, <3>3 DEF FetchEmpty
  <2>7. \A m \in todo[t] : m \in delivered => Safe(m)'
      BY <1>2, <2>3 DEF TaskSafe, SafeStays, TypeOK
  <2>8. \A m \in todo'[t] : m \in delivered' \/ Retrying(t)' => Safe(m)'
      BY <1>1, <2>2, <2>4, <2>5, <2>6, <2>7 DEF Retrying
  <2>9. TaskSafe(t)'
      BY <2>2, <2>8 DEF TaskSafe
  <2> QED BY <1>1, <2>2, <2>3, <2>9, OnceStep
<1> QED BY <1>3, <1>4 DEF Pull

LEMMA HandleOnce ==
    ASSUME OnceInv, NEW t \in Task, Handle(t) PROVE ShowInv'
<1>1. UNCHANGED <<seen, delivered, frames, todo>> /\ pc[t] \in {"render", "record"}
    BY DEF Handle, Show, HandlerFail, RecordRender, RecordRenderFails, server, wire, locals, memory
<1>2. TypeOK /\ TaskSafe(t) /\ ~Retrying(t) /\ cur[t] \in Msg
    BY <1>1, HeldAreMessages DEF OnceInv, ShowInv, ContractInv, Recorded, TaskRecorded, Retrying, Busy
<1>3. CASE Show(t)
  <2>1. UNCHANGED <<cur, ctx, rendered, ledger>> /\ pc' = [pc EXCEPT ![t] = "record"]
      BY <1>3 DEF Show, memory, locals, durable
  <2>2. OthersStay(t) /\ pc'[t] = "record" /\ ~Retrying(t)'
      BY <1>1, <1>2, <2>1 DEF OthersStay, TypeOK, Retrying
  <2>3. SafeStays /\ FreshStays(t)
      BY <1>1, <2>1, <2>2, QuietStays
  <2>4. \A m \in todo'[t] : m \in delivered' => Safe(m)'
      BY <1>1, <1>2, <2>3 DEF TaskSafe, SafeStays, TypeOK
  <2> QED BY <1>1, <2>2, <2>3, <2>4, OnceStep DEF TaskSafe
<1>4. CASE HandlerFail(t) \/ RecordRenderFails(t)
  <2>1. UNCHANGED <<rendered, ledger>> /\ Leave(t)
      BY <1>4 DEF HandlerFail, RecordRenderFails, durable
  <2>2. \A k \in Msg : Safe(k)' <=> Safe(k)
      BY <1>1, <2>1 DEF Safe
  <2>3. SafeStays
      BY <1>1, <2>2 DEF SafeStays
  <2>4. OthersStay(t) /\ TaskSafe(t)'
      BY <1>1, <2>1, <2>3, LeaveSafe
  <2>5. FreshStays(t)
      BY <1>1, <2>1, <2>4, QuietStays
  <2> QED BY <1>1, <2>3, <2>4, <2>5, OnceStep
<1>5. CASE RecordRender(t)
  <2>1. PICK m \in Msg : m = cur[t]
      BY <1>2
  <2>2. /\ UNCHANGED <<cur, ctx>> /\ rendered' = rendered \cup {m}
        /\ pc' = [pc EXCEPT ![t] = "receipt"]
        /\ ledger' = [ledger EXCEPT ![m] = IF @ = "acked" THEN "acked" ELSE "rendered"]
      BY <1>5, <2>1 DEF RecordRender, MarkRendered, locals
  <2>3. OthersStay(t) /\ pc'[t] = "receipt" /\ cur'[t] = m /\ ~Retrying(t)'
      BY <1>1, <1>2, <2>1, <2>2 DEF OthersStay, TypeOK, Retrying
  <2>4. Only(m)
      BY <1>1, <1>2, <2>2 DEF Only, TypeOK
  <2>5. Safe(m)'
      BY <2>2 DEF Safe
  <2>6. \A u \in Task \ {t} : pc[u] = "render" => cur[u] # m
      BY <1>1, <2>1, ShowsAlone DEF Busy
  <2>7. SafeStays /\ FreshStays(t)
      BY <2>3, <2>4, <2>5, <2>6, OnlyStays
  <2>8. \A k \in todo'[t] : k \in delivered' => Safe(k)'
      BY <1>1, <1>2, <2>7 DEF TaskSafe, SafeStays, TypeOK
  <2>9. TaskSafe(t)'
      BY <2>3, <2>5, <2>8 DEF TaskSafe
  <2> QED BY <1>1, <2>3, <2>7, <2>9, OnceStep
<1> QED BY <1>3, <1>4, <1>5 DEF Handle

LEMMA ReceiptOnce ==
    ASSUME OnceInv, NEW t \in Task, Receipt(t) PROVE ShowInv'
<1>1. UNCHANGED rendered /\ frames' \subseteq frames
    BY DEF Receipt, ServerAck, ServerAckCrash, ReceiptFail, ReceiptOk, TakeRetry, EndRetry, wire, memory
<1>2. TypeOK /\ TaskSafe(t)
    BY HeldAreMessages DEF OnceInv, ShowInv
<1>3. CASE ServerAck(t) \/ ServerAckCrash(t)
  <2>1. PICK m \in Msg : m = cur[t]
      BY <1>3, HeldAreMessages DEF ServerAck, ServerAckCrash, Busy
  <2>2. /\ delivered' = delivered \cup {m} /\ UNCHANGED <<seen, ledger, todo>>
        /\ pc[t] = "receipt" /\ Safe(m)
      BY <1>2, <1>3, <2>1 DEF ServerAck, ServerAckCrash, CommitReceipt, memory, locals, durable, TaskSafe
  <2>3. Only(m) /\ Safe(m)'
      BY <1>1, <2>2 DEF Only, Safe
  <2>4. \A u \in Task \ {t} : pc[u] = "render" => cur[u] # m
      BY <2>1, <2>2, ShowsAlone DEF Busy
  <2>5. OthersStay(t) /\ (pc'[t] \in {"receipt", "confirmed"} => pc'[t] = "confirmed" /\ cur'[t] = m)
        /\ pc'[t] # "render" /\ (Retrying(t)' => Retrying(t))
    <3>1. CASE ServerAck(t)
        BY <1>2, <2>1, <2>2, <3>1 DEF ServerAck, locals, OthersStay, TypeOK, Retrying
    <3>2. CASE ServerAckCrash(t)
      <4>1. Leave(t)
          BY <3>2 DEF ServerAckCrash
      <4> QED BY <2>2, <4>1, LeaveFrame DEF OnceInv, ContractInv, OthersStay, Retrying
    <3> QED BY <1>3, <3>1, <3>2
  <2>6. SafeStays /\ FreshStays(t)
      BY <2>3, <2>4, <2>5, OnlyStays
  <2>7. \A k \in todo'[t] : k \in delivered' \/ Retrying(t)' => Safe(k)'
    <3>1. \A k \in todo[t] : k \in delivered \/ Retrying(t) => Safe(k)'
        BY <1>2, <2>6 DEF TaskSafe, SafeStays, TypeOK
    <3> QED BY <2>2, <2>3, <2>5, <3>1
  <2>8. TaskSafe(t)'
      BY <2>3, <2>5, <2>7 DEF TaskSafe
  <2> QED BY <1>1, <2>5, <2>6, <2>8, OnceStep
<1>4. CASE ReceiptFail(t) \/ ReceiptOk(t)
  <2>1. PICK m \in Msg : m = cur[t]
      BY <1>4, HeldAreMessages DEF ReceiptFail, ReceiptOk, Busy
  <2>2. /\ Leave(t) /\ UNCHANGED <<delivered, todo>> /\ pc[t] \in {"receipt", "confirmed"} /\ Safe(m)
      BY <1>2, <1>4, <2>1 DEF ReceiptFail, ReceiptOk, server, TaskSafe
  <2>3. Only(m) /\ Safe(m)'
    <3>1. CASE ReceiptFail(t)
        BY <1>1, <2>2, <3>1 DEF ReceiptFail, durable, Only, Safe
    <3>2. CASE ReceiptOk(t)
      <4>1. seen' = seen \cup {m} /\ (UNCHANGED ledger \/ MarkAcked(m))
          BY <2>1, <3>2 DEF ReceiptOk, durable
      <4>2. \A k \in Msg \ {m} : ledger'[k] = ledger[k] \/ ledger[k] = "acked"
          BY <4>1 DEF MarkAcked
      <4> QED BY <1>1, <2>2, <4>1, <4>2 DEF Only, Safe
    <3> QED BY <1>4, <3>1, <3>2
  <2>4. \A u \in Task \ {t} : pc[u] = "render" => cur[u] # m
      BY <2>1, <2>2, ShowsAlone DEF Busy
  <2>5. OthersStay(t)
      BY <2>2, LeaveFrame DEF OnceInv, ContractInv, OthersStay
  <2>6. SafeStays /\ FreshStays(t)
      BY <2>2, <2>3, <2>4, <2>5, OnlyStays
  <2>7. TaskSafe(t)'
      BY <2>2, <2>6, LeaveSafe
  <2> QED BY <1>1, <2>5, <2>6, <2>7, OnceStep
<1>5. CASE TakeRetry(t)
  <2>1. PICK m \in todo[t] : /\ todo' = [todo EXCEPT ![t] = @ \ {m}]
                             /\ cur' = [cur EXCEPT ![t] = m]
                             /\ ctx' = [ctx EXCEPT ![t] = "retry"]
                             /\ pc' = [pc EXCEPT ![t] = "receipt"]
                             /\ Retrying(t)
      BY <1>5 DEF TakeRetry, Retrying
  <2>2. UNCHANGED <<seen, ledger, delivered>>
      BY <1>5 DEF TakeRetry, server, durable, memory
  <2>3. /\ OthersStay(t) /\ todo'[t] \subseteq todo[t] /\ cur'[t] = m /\ pc'[t] = "receipt"
        /\ m \in Msg
      BY <1>2, <2>1 DEF OthersStay, TypeOK
  <2>4. SafeStays /\ FreshStays(t)
      BY <1>1, <2>2, <2>3, QuietStays
  <2>5. \A k \in todo[t] : Safe(k)'
      BY <1>2, <2>1, <2>4 DEF TaskSafe, SafeStays, TypeOK
  <2>6. TaskSafe(t)'
      BY <2>1, <2>3, <2>5 DEF TaskSafe
  <2> QED BY <1>1, <2>3, <2>4, <2>6, OnceStep
<1>6. CASE EndRetry(t)
  <2>1. /\ UNCHANGED <<seen, ledger, delivered, cur, ctx, todo>> /\ todo[t] = {}
        /\ pc' = [pc EXCEPT ![t] = "idle"]
      BY <1>6 DEF EndRetry, server, durable, memory, locals
  <2>2. OthersStay(t) /\ pc'[t] = "idle"
      BY <1>2, <2>1 DEF OthersStay, TypeOK
  <2>3. TaskSafe(t)'
      BY <2>1, <2>2 DEF TaskSafe
  <2> QED BY <1>1, <2>1, <2>2, <2>3, QuietStays, OnceStep
<1> QED BY <1>3, <1>4, <1>5, <1>6 DEF Receipt

LEMMA OnceInvStep ==
    ASSUME ~ReadFaults, OnceInv, [Next]_vars PROVE ShowInv'
<1>1. TypeOK /\ "ws" \in Task /\ "spool" \in Task
    BY HeldAreMessages DEF Task
<1>2. ASSUME UNCHANGED <<seen, rendered, ledger, delivered, pc, cur, ctx, todo>>,
             \A m \in frames' : m \in frames \/ m \notin delivered
      PROVE  ShowInv'
  <2>1. \A k : (Safe(k)' <=> Safe(k)) /\ (Fresh(k)' <=> Fresh(k))
      BY <1>2 DEF Safe, Fresh
  <2>2. ASSUME NEW t \in Task PROVE TaskSafe(t)'
    <3>1. TaskSafe(t)
        BY DEF OnceInv, ShowInv
    <3> QED BY <1>2, <3>1 DEF TaskSafe, Retrying, Safe, Fresh
  <2> QED BY <1>2, <2>1, <2>2 DEF OnceInv, ShowInv
<1>3. CASE SendMessage
  <2>1. sent + 1 \notin delivered
      BY <1>1, BoundsAssumption DEF OnceInv, ContractInv, Recorded, RowsOnly, Rows, TypeOK
  <2> QED BY <1>2, <1>3, <2>1 DEF SendMessage, Transmit, wire, memory, locals, durable
<1>4. CASE DeleteStudent \/ Disconnect \/ UNCHANGED vars
    BY <1>2, <1>4 DEF DeleteStudent, Disconnect, vars, server, wire, memory, locals, durable
<1>5. ASSUME NEW t \in Task, pc[t] = "idle", pc' = [pc EXCEPT ![t] = "fetch"],
             UNCHANGED <<seen, rendered, ledger, delivered, cur, ctx, todo, frames>>
      PROVE  ShowInv'
  <2>1. OthersStay(t) /\ pc'[t] = "fetch"
      BY <1>1, <1>5 DEF OthersStay, TypeOK
  <2>2. SafeStays /\ FreshStays(t)
      BY <1>5, <2>1, QuietStays
  <2>3. ~Retrying(t)'
      BY <1>5, <2>1 DEF Retrying, OnceInv, ContractInv, Recorded, TaskRecorded
  <2>4. \A k \in todo'[t] : k \in delivered' => Safe(k)'
      BY <1>1, <1>5, <2>2 DEF OnceInv, ShowInv, TaskSafe, SafeStays, TypeOK
  <2> QED BY <1>5, <2>1, <2>2, <2>3, <2>4, OnceStep DEF TaskSafe
<1>6. CASE PollPull
    BY <1>1, <1>5, <1>6 DEF PollPull, BeginPull, server, wire, durable, memory
<1>7. CASE Connect
    BY <1>1, <1>5, <1>7 DEF Connect, BeginPull, server, durable, memory
<1>8. CASE TakeFrame
  <2>1. PICK m \in frames : frames' = frames \ {m} /\ BeginHandle("ws", m, "frame", "idle")
      BY <1>8 DEF TakeFrame
  <2>2. pc["ws"] = "idle" /\ UNCHANGED <<delivered, ledger, todo>>
      BY <1>8 DEF TakeFrame, server, durable
  <2>3. ~Retrying("ws") /\ m \in Msg /\ (m \in delivered => Safe(m))
      BY <1>1, <2>1, <2>2 DEF Retrying, OnceInv, ContractInv, Recorded, TaskRecorded, ShowInv, TypeOK
  <2>4. SafeStays /\ FreshStays("ws") /\ OthersStay("ws") /\ TaskSafe("ws")'
      BY <1>1, <2>1, <2>2, <2>3, BeginHandleFresh
  <2> QED BY <1>1, <2>1, <2>4, OnceStep
<1>9. CASE Crash
  <2>1. frames' = {} /\ \A t \in Task : pc'[t] = "idle" /\ ctx'[t] = "page" /\ todo'[t] = {}
      BY <1>9 DEF Crash
  <2> QED BY <2>1 DEF ShowInv, TaskSafe
<1>10. CASE \E t \in Task : Pull(t) \/ Handle(t) \/ Receipt(t)
    BY <1>10, PullOnce, HandleOnce, ReceiptOnce
<1> QED BY <1>3, <1>4, <1>6, <1>7, <1>8, <1>9, <1>10 DEF Next

\* As long as the receipt ledger can be read, a message whose render is on
\* record or whose receipt the server holds is never put in front of the
\* student again, by either task, after any restart and even after its ledger
\* row was pruned (StudentCoordinator.handle_message).
THEOREM ShownOnlyOnce == ASSUME ~ReadFaults PROVE Spec => []NeverShownAgain
<1>1. OnceInv => NeverShownAgain
    BY DEF OnceInv, ShowInv, TaskSafe, Fresh, NeverShownAgain
<1>2. Init => OnceInv
  <2> SUFFICES ASSUME Init PROVE OnceInv
      OBVIOUS
  <2>1. ContractInv
      BY ContractInit
  <2>2. InflightExact
      BY DEF Init, InflightExact, Working
  <2>3. ShowInv
      BY DEF Init, ShowInv, TaskSafe
  <2> QED BY <2>1, <2>2, <2>3 DEF OnceInv
<1>3. OnceInv /\ [Next]_vars => OnceInv'
    BY OnceInvStep, RecordedStep, TypeStep, ConfirmedStep, InflightStep DEF OnceInv, ContractInv
<1> QED BY <1>1, <1>2, <1>3, PTL DEF Spec

=============================================================================
