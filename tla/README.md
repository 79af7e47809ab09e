# Verification of WorkBuddy Copilot

WorkBuddy Copilot watches how students work with the WorkBuddy assistant and
lets mentors answer. A *Center Server* (one FastAPI process over one SQLite
file) receives reports and transcripts, has an LLM analyse them and relays
messages. On every student machine a *hook* writes events into a spool
directory, a *student agent* empties it, receives mentor messages and executes
upload commands, and a *native float window* shows messages and analyses.

This directory holds TLA+ models of the parts whose correctness depends on
order: what happens between two awaits, two threads, two processes, a commit
and its answer, or a crash and a restart. `tlc -config X.cfg M` checks a run,
`tlapm M.tla` checks a proof module; `PROJECT.json` lists runs, mutants, the
source lines of every definition, hazards, findings and theorems.

## 1. Inventory

| Part | Source (under `src/copilot/`) | State it keeps | Operations |
| --- | --- | --- | --- |
| Message service | `services.py` MessageService, `store.py`, `service.py` | `mentor_messages` rows with `delivered_at` | send, catch-up, pending-receipts page, ack, delete_student |
| WebSocket registry | `connections.py` | sockets per student and of mentors | register, send to a student, forward events, drop on a failed send |
| Student agent and coordinator | `student_core/agent.py`, `coordinator.py`, `transport.py` | in-memory dedup cache, renders, in-flight set, page cursor; the receipt ledger (SQLite) | poll, pull backlog, handle a message, send and retry receipts |
| Hook spool | `student_core/spool.py`, `hook.py` | one JSON file per event, claim files, quarantine | write, enqueue, list, claim, take over, post, ack, quarantine |
| Native float | `floating_native.py` | cursor, dedup window, pending and unrecorded receipts, in-flight set, the state file | catch up, render, persist, ack, scan pending receipts, retry |
| Upload requests | `upload_service.py`, `service.py`, `store.py` | request (transfer and analysis axis), a child row per session, the bulk transcript row | create, report transfer, upload transcript, analyse, retry, recover |
| Stop reports | `services.py` AnalysisService, `service.py`, `store.py` | reports, prompts, raw transcripts, summaries, analyses, the pending flag | accept, analyse in the background, recover at start-up |
| Upload commands | `student_core/coordinator.py` | the claim file of a request, the SQLite completion ledger and its write lock | claim, take over, upload, complete, release |
| Session upload client | `wb_upload.py`, `floating_native.py`, `student_platform/workbuddy.py` | the manifest of an upload, the transcript index, requests in flight | hear of a request, report, list, index, post or skip each session |
| Session history | `transcript.py`, `store.py`, `mentor/routes.py` | `prompts`, `ai_summaries`, `messages` | number and insert a prompt, replace the messages, window of a reply, timeline, reply text |
| Re-summarising | `resummarize.py` | what it read at its start | match a round to a prompt, summarise, write |
| Analysis panel and ask box | `floating_native.py`, `service.py` | current session, refresh generation, unread marks, question generation, `student_asks` | refresh, poll, toggle, select, follow a frame, ask, sync then ask, ask without context |
| Worker lock | `app_context.py` | a lock file | acquire, release |
| Rest | `llm.py`, `student_core/diagnostics.py`, `student_platform/windows.py` and `macos.py`, older front ends | none of their own, or read-only | conversions, queries, drawing |

How they interact. The mentor's HTTP request makes the server commit a message
and push one frame to the sockets it has registered for the student. The agent
and the float read the rows that have no `delivered_at` (a page after a cursor)
on every connect, the agent on every poll too, and confirm with
`POST /api/student/messages/ack`. The hook and the agents share only the spool
directory; the agents and the server only HTTP requests whose answers may be
lost. Inside the server, handlers and background tasks are coroutines of one
event loop over one database: code between two awaits is atomic with respect to
other tasks, but each `with self._conn()` commits on its own, so that a crash
can fall between two of them.

What is hard, and what makes each part correct:

* *Messages.* Two asyncio tasks (agent) or two threads (float) handle the same
  row; a receipt's answer is lost; the process dies between showing, recording
  and confirming; pages, dedup windows and ledgers are bounded. Correct means:
  nothing is confirmed that was not shown, nothing recorded as shown is shown
  again, and every message reaches its receipt.
* *Spool.* Processes without a common lock race for claims and read files that
  are being written. Correct means: an event stays until the server accepted it,
  and is accepted in the end.
* *Uploads and reports.* An answer arrives for a version that was replaced;
  tasks are lost with the process. Correct means: what is shown as done was
  analysed in that version, and nothing stays running or pending without
  somebody who works on it.
* *Upload commands.* Two agents and a crashed one share claims. Correct means:
  one uploads at a time, what is complete is not done again, and what failed can
  be tried again.
* *Upload client.* A manifest is older than the posts it decides about, a file
  is read while it is written, a report is lost. Correct means: a request that
  is shown as done is uploaded, as new as when it was asked for, and one that the
  window heard of comes to an end.
* *History.* Two numberings of one conversation (hook events and transcript)
  meet a job that computes for minutes and uploads that replace the rows under
  it. Correct means: what a mentor reads under a prompt belongs to that prompt.
* *Panel.* Every network call is a thread whose result reaches the main thread
  late. Correct means: the panel at rest shows what it was told of, and an answer
  was computed from the material that its question allows.

## 2. Modules

| Module | Models | Checked by |
| --- | --- | --- |
| `MentorDelivery` | server, socket and agent for the messages of one student | `delivery`, `delivery_live` |
| `DeliveryContract` | abstract life of a message: sent, rendered, confirmed or withdrawn | property `ImplementsContract` of `delivery` |
| `MentorDeliveryProofs` | theorems about `MentorDelivery`, and that it implements `DeliveryContract` | TLAPS |
| `EventSpool` | hooks, enqueue and agents over the spool directory | `spool` |
| `HookEventProofs` | theorems about `EventSpool`, which delivers the hook's events, and `SessionHistory`, which files them | TLAPS |
| `Uploads` | one upload request on the server, its sessions and the tasks that analyse them | `uploads` |
| `UploadsProofs` | theorems about `Uploads` | TLAPS |
| `UploadClient` | the student's side of upload requests, and the server's storing of posts | `client`, `client_erased` |
| `UploadClientProofs` | theorems about `UploadClient` | TLAPS |
| `UploadCommands` | the claim of an upload command among agent processes | `commands` |
| `UploadCommandsProofs` | theorems about `UploadCommands` | TLAPS |
| `FloatMessages` | the two threads of the native float and its state file | `float`, `float_live` |
| `FloatMessagesProofs` | theorems about `FloatMessages` | TLAPS |
| `FloatPanel`, `MCFloatPanel` | the analysis panel, its refreshes and the ask box | `panel` |
| `FloatPanelProofs` | theorems about `FloatPanel` | TLAPS |
| `StopReports` | acceptance, analysis and recovery of the Stop reports of a session | `stop_reports` |
| `StopReportsProofs` | theorems about `StopReports` | TLAPS |
| `SessionHistory` | prompts, rounds and summaries of a session, the summary job, the mentor's timeline | `history` |

A definition that begins with "Mutant:" in its comment is a plausible bug in
the definition below it and is not part of the specification; `PROJECT.json`
names the property that each one breaks.

### MentorDelivery

A message is its row id; content plays no part in a delivery decision.
`sent`, `gone`, `delivered` are the table; `ledger` and `rank` the receipt
ledger with its recency order (needed because pruning removes the least recent
acked rows); `seen`, `rendered`, `inflight`, `cursor` the coordinator's fields;
`pc`, `cur`, `ctx`, `todo`, `after`, `full`, `pages` the locals of the two
tasks `spool` and `ws`. A task yields only where the code awaits: the page
request, the handler, the receipt request. `BeginHandle` is `handle_message` up
to its first await and contains all its early returns; `RecordRender` is
everything from the handler's return to the request; `ReceiptOk` everything
after the answer. `Crash` keeps the ledger and drops the memory. `DeliveryContract`
is related to it by the mapping in `ImplementsContract`: a message is
*confirmed* when `delivered_at` is set, *rendered* when the client has a record
of it, and *withdrawn* when its row was deleted before.

### EventSpool

Every file-system call is a step, because the processes hold no common lock:
listing, reading, creating the claim with O_EXCL, writing the pid, testing the
owner, unlinking by name. `file` distinguishes the empty placeholder of
`enqueue` from a complete file. An agent is one process; a restart is another
agent. A dead agent keeps its claim file, with or without its pid, and
`PidTaken` gives that pid to some other process, which `Active` cannot tell from
the owner. `faults` records which call failed for which event: a read (which
`Read` answers like a broken file), the write of a pid, the move to quarantine,
or another call, whose exception ends the cycle where it is (`CallFails`).

### Uploads

`TRANSFER` and `ANALYSIS` are the edge tables of `upload_service.py`, `Allowed`
is `_transition`. A coroutine is one HTTP request with its background work;
`known` and `knownDone` are what the upload handler read before its first
await. A version of a transcript stands for its SHA. `Refresh` aggregates the
children into the parent inside the same step as the child: nothing is awaited
between the two, so that no other task sees the one without the other. The store
commits each of them by itself (`upload_service.py:128`, `:185`), and a crash
between the commits is left out: `recover_interrupted_analysis`, which `Restart`
runs after it loses the coroutines, makes both axes failed wherever they were
active. Left out of `RetryAnalysis` is the claim for a failed request without any
row of a session (`store.py:1207`), which only a database from before
`upload_request_sessions` has.

### FloatMessages

`last`, `seen`, `pending`, `unpersisted`, `inflight`, `cursor`, `cards` are the
fields of `CopilotNativeApp`, `disk` the JSON state file. A step is one
critical section of the state lock, or one HTTP exchange, during which the
other thread runs. `Snapshot` is what `_save_mentor_message_state` writes: a
cursor held back before every render that is not on record. `Crash` reads it
back, or fails to and starts with nothing; `unread` says that the process has
neither read the record nor replaced it by its own. `pass` is the scan
of the WebSocket thread with its three loops (unrecorded renders, the server's
pages, receipts no page listed). `wake` is the `call_soon_threadsafe` call on
its way, `retry` the retry task.

### UploadClient

A version of a transcript stands for its filtered content and for that content's
SHA; version 0 is the empty content. `Create`, `Connect`, `Fetch` are the two
ways a window hears of a request (a frame, or the list of pending requests at
each connect); `HandleCommand` starts at most one thread per request. A thread
is `Claim` (report running), `List` (sessions and manifest), `UploadSession` per
session and `Finish` or `GiveUp`. `Scan` and `Parses` say what the transcript
index does with a half-written line in *any* file. The server is this one, whose
manifest tells the state of each analysis; the state `unknown` that the client
gives to the entries of an older server (`wb_upload.py:139`) is left out. `Register` and `Store` are the
two atomic parts of `upload_session_transcript` on either side of its await.
`overlap` is a history variable: the sessions that two uploads worked on at
once. `hurt` names the requests whose reports failed or whose thread died.

### UploadCommands

The steps are the calls: take the ledger's write lock, `open(O_EXCL)`, write the
pid, read and judge an old claim, rename it away, upload, write the completion,
unlink. The lock is not held while the claim is unlinked, and a reused pid can
belong to another coordinator. `Inspectable` is false where the system cannot say
whether a pid lives; the code then judges by age, and exclusion is not promised.

### FloatPanel

A generation number is only ever compared with the latest one, so that a request
carries the flag `latest` instead. `refresh` is the request in flight and
whether another is pending; `Settle` applies, drops or restarts. `AnalysisFrame`
has the three branches of `_handle_ws_message`. The panel is opened by the icon,
with a request for cards (`AskForCards`), or by a mentor's message, without one
(`MentorMessageOpens`). `asks` and `handlers` are the
server's side of a question: `Context` computes what the LLM is given when the
handler starts, `StoreAsk` stores when it has answered. `heard`, `owed` and `behind` are
history variables; `behind` says that no cards were asked for since the start, or
since a hidden panel followed a frame.

### SessionHistory

A line of the transcript is its position; the lines of `Repeated` have the same
text, which is all that `SameText` asks. `Messages`
and `Turn` are `parse_text` and `parse_turns`, `Reply` is the SQL window over
(seq, created_at), `Anchor` the number-then-index fallback of
`_get_prompt_reply_with_conn`, `Matching` the job's rule. Row ids of `messages`
change with every replacement: the field `gen` tells the rows of one replacement
from those of another. The server reads and writes between two awaits; the
summary job is another process, and every SELECT of it is a step: the prompts
(`StartJob`), their cards (`ReadCards`), the rows (`ListRounds`), and of each reply
the first row (`ReadAnchor`), the next prompt (`ReadNext`, `ReadUsers`) and the
answers between the two (`ReadReplies`). `torn` marks a reply whose window was read
before the upload that its answers come from. What the job has read and not yet
written ends in any order, as its semaphore allows. A Stop's answer without a summary
empties the card (`StopAnswered`), as the upsert does. The upsert of a card is one
step: that two processes could both find no row and insert two (`store.py:1847`) is
left out.

### StopReports

`Accept` is `POST /report` for a Stop; `AcceptCrash` the same cut after one of
its commits. `Complete` is everything `handle_stop` does after the LLM's
answer, `CompleteCrash` its prefixes, `CompleteGone` its failure on a foreign
key. `Recover` and `End` are the start-up's loop over pending reports. Raw
transcripts are ordered by `created_at`, and a bulk upload overwrites the
newest one, as `replace_session_messages` does.

## 3. Runs

| Run | Question | Bounds and why they are enough |
| --- | --- | --- |
| `delivery` | Are receipts honest and handling exclusive, and is the contract implemented? | 2 messages, page size 1, one page per pull, 1 acked row kept, 1 restart: paging, pruning and a cursor past an unfinished row all happen; both tasks can hold both messages. |
| `delivery_live` | Does every message and every recorded render settle? | As above, no socket (the harder case: only the poll delivers), unreadable ledger reads. |
| `spool` | Is an event ever lost, and is it accepted in the end? | 1 hook event, 1 enqueued event, 2 agents, 1 death, 1 failing call: each race is between two processes and one event, the second event provides the unrelated work; a dead agent's pid is reused and given back any number of times. |
| `uploads` | Is done really done, does every active row have a worker, and does the analysis axis come to rest? | 2 sessions, 2 versions, 2 coroutines at a time, 4 requests, 1 restart: two uploads of one session in different versions can overlap a restart or the mentor's retry. |
| `client` | Is done really uploaded; does a request that was heard of end? | 2 sessions of which one grows, 1 request, 1 upload of the ask box, 1 fault (lost call, lost report, broken socket or crash): overlap of two uploads with a growing file needs no more. |
| `client_erased` | Finding: can the content of a version be stored as empty? | 2 requests, 1 session, 1 upload of the ask box, no faults. |
| `commands` | Is the upload exclusive, final and repeatable? | 3 processes, 4 pids, 3 crashes: a stale claim, the process that judges it and a third that comes in between; one spare pid, so that pids are reused and are not. |
| `float` | Are receipts sent only for recorded renders, are unrecorded ones refetched, and what can be skipped? | 2 messages, page size 2, 1 direct retry, a dedup window of 1 (so that ids are evicted), 2 queued callbacks, failing saves, 1 restart that reads the state file or cannot. |
| `float_live` | Is any wake-up lost? | 1 message and page size 1, so that full and empty pages follow; failing renders and saves. |
| `panel` | Does the panel at rest show what it heard of; do answers fit their questions? | 2 symmetric sessions, 2 analyses, 1 question with one earlier question, one refresh in flight and one pending (the code allows no more); a mentor's message may open the panel whenever it is hidden. |
| `stop_reports` | Is an answered report lost, analysed twice or from another's transcript; does the server serve again? | 2 reports, 1 upload, 1 LLM slot, 2 crashes: the second crash can hit the recovery of the first. |
| `history` | Do summaries and details stay under the prompt they belong to? | 3 lines of users and assistants, of which 2 have the same text, 2 prompt events, 2 uploads in any order, 2 runs of the job: two rounds whose numbering can differ from the prompts', or the same prompt twice, replaced between any two reads of the job or while it computes, and summarised again. |

`CHECK_DEADLOCK FALSE` is said where every bounded input (requests, messages,
crashes) can be used up and nothing is left to do.

Fairness. Safety runs have none, except where one cfg also checks a liveness
property. The asyncio loop and both threads of the float run every ready step
(weak fairness of a task). Requests that the code repeats for ever on a timer
succeed in the end (strong fairness of the fetch, of a ledger read, of the
handler, of the server getting a receipt, of a save, of a post): no conclusion
is possible without it, because the code has no other escape. `client` assumes that the main thread, the
server's handlers and the upload threads go on; lost calls are bounded and have
timeouts. Nothing obliges mentors, students, crashes,
disconnects or the LLM to do anything; the LLM call has a timeout, so a call
ends, well or badly.

`UploadCommands`, `FloatPanel` and `SessionHistory` are checked for safety
only: the code promises no progress there that a fairness assumption would not
merely restate.

## 4. Findings

One run expects a violation.

`client_erased`: for a request, a session whose SHA the manifest has is posted
with its SHA and an empty content (`wb_upload.py:275`). The server decides by the
SHA it has when the post arrives (`service.py:1065`); if another upload changed it after the
manifest was read, the empty content is stored under the SHA of the real one. From
then on every manifest matches, so that the content does not come again as long as
the local file stays that version (for a finished conversation, for good). This contradicts
`docs/target-architecture.md:171` (uploaded content is not lost).
`ErasedOnlyByOverlap` of the run `client` shows that two uploads of one session at
once are the only way to get there.

Other behaviour that the models reach and that a maintainer may want to know.
Properties name it as an exception where they would otherwise be false:

* An agent without a message handler (`start_student_agent.py:42`) confirms
  messages nobody saw; `DeliveredWasShown` is about injected handlers.
* A stale-claim decision is followed by an unlink by name (`spool.py:249`), which
  may remove the claim another agent has just created: two agents can post one
  event. Nothing is lost by it.
* A complete event that cannot be read for a moment goes to quarantine
  (`spool.py:225`), where nothing looks for it again, although the docstring at
  `spool.py:289` wants a transient failure to leave it (named in `NoEventLost`
  and `EveryEventAccepted`).
* An agent that dies or fails before its pid is written leaves a claim nobody takes
  over, and so does a dead one whose pid another process has (`Abandoned` in
  `EveryEventAccepted`). When the unlink of `ack` fails, an accepted event stays
  and is posted again after its agent's end.
* A state file of the float that cannot be read at the start counts as empty
  (`floating_native.py:2774`): recorded messages are rendered again, and the first
  save replaces the record with what was pending in it (`unread` in
  `NothingForgotten`, `RenderedOnce` and `ReceiptsSettle`). If the file is corrupt
  rather than unreadable for a moment, the save, which reads it first, fails too.
* A mentor's message opens the hidden panel with the cards it has
  (`floating_native.py:2186`), which may be another session's after it followed an
  analysis (`behind` in `NothingMissed`).
* An unchanged transcript posted again after a failed analysis is told that the
  analysis is scheduled (`service.py:1070`), but there is no edge from failed to
  running and the task stops before the LLM.
* A transcript that arrives for a completed request leaves a pending child row
  (exception in `NoOrphanAnalysis`).
* A failed catch-up of the float followed by a live frame moves the cursor past
  what it missed (`SkippedOnlyIfMissed` shows that this is the only way).
* A bulk upload can replace the transcript a pending report is recovered from
  (exception in `OwnTranscript`); a student deleted between an answered report
  and its background task gets a prompt row again.
* A prompt's number and its round's number can drift apart (lost events, events
  of the spool that are posted in the order of their random names, two answers to
  one prompt); the details of a prompt are then those of another.
  `DetailsOfTheCard`, and `CardOfItsPrompt` for the job, are conditioned on `Aligned`.
* A prompt that repeats another word for word can get that one's summary when its
  own number has no round (`resummarize.py:45`), and a reply that the job read while an
  upload was stored can run into the answers to the next prompt, against the docstring
  at `store.py:1966`. `CardOfItsPrompt` names both.
* A request whose last report is lost stays running: only pending requests are
  listed again (`hurt` in `HeardIsSettled`). A request for a session this machine
  does not have is reported as done with nothing uploaded.
* A completion that cannot be written because another process holds the ledger's
  lock (`coordinator.py:471`) lets the command run again; `NotAgain` starts at
  the committed row. A claim whose dead owner's pid was reused is kept.
* An upload notice takes the place of the text of a running question, and the
  text of a question whose session was left stays as it was.

## 5. Proofs

`MentorDeliveryProofs` holds for every number of messages, page size, ledger
limit and number of restarts, with and without faults, from
`BoundsAssumption` and `SwitchAssumption` alone.

* `TypeCorrect` (`TypeOK`). Not inductive alone: a receipt puts `cur[t]` into a
  set of messages, so `TypeInv` adds that a task in the middle of a message has
  one (`CurIsMsg`).
* `AnnouncedAtMostOnce` (`AnnouncedOnce`). Only `ServerAck` and its crash change
  `delivered`; the event is published by the step that sets it.
* `ConfirmationsAreCommitted` (`ConfirmedByServer`). `ConfirmedInv` adds that a
  task that has its answer holds a message the server has committed: a lost
  answer goes to another program counter.
* `DeliveriesWereShown` (`DeliveredWasShown`), when a handler is injected.
  `ShownInv` follows the evidence backwards: what is confirmed comes from a task
  at `receipt`, which came from the handler, from memory or from the ledger, and
  each of these only holds messages that were shown; the retry list is read from
  the ledger and keeps that property while it is worked off.
* `HandlingIsExclusive` (`InflightExact`). The in-flight set is the union of what
  the tasks work on and no two tasks share a message; three lemmas say that a
  step inside keeps the set, leaving releases one's own message, and entering
  takes one that is free.
* `DeliveryImplementsContract` (`ImplementsContract`). `ContractInv` adds to
  `ConfirmedInv` that what the client holds are rows of the server, and that what a
  receipt is sent for is on record or already confirmed: the ledger only prunes rows
  that the server has as delivered, so a record never gets lost on the way. With it
  `SendMessage`, `RecordRender` and a receipt that reaches the server each move one
  message one step (`Moves`), `DeleteStudent` is `Withdraw`, and all else stutters.
* `ShownOnlyOnce` (`NeverShownAgain`), where the ledger can be read. `OnceInv` says of
  everything the client still holds, a frame or a row of a page, that if the server
  has it as delivered then the client knows of its render (`Safe`), and of a message
  about to be shown that it is new (`Fresh`). The in-flight exclusion keeps the other
  task from confirming it meanwhile, except a receipt retry, which is only on its way
  for a known render (`ShowsAlone`). A restart forgets what is held with what is known.

`UploadCommandsProofs` holds for any number of processes, pids and crashes, from
`CommandsAssumption` alone.

* `TypeCorrect` (`TypeOK`).
* `UploadIsExclusive` (`ExclusiveUpload`). Exclusion is not inductive: it needs
  who holds the ledger's lock at which step (`Mutex`), and that the claim file is
  the one that the process at work made, with its pid in it (`Owned`), that a
  writer's file is still empty (`Written`), and that nobody is at work while a
  stale file is replaced (`Free`). A look at a claim then finds the owner alive,
  and a removal by name removes one's own file.
* `CompletedIsFinal` (`NotAgain`). Between the look into the ledger and the upload
  a process holds the lock; the completion needs the same lock, so that after it
  nobody is on the way to an upload (`Finished`).
* `ClaimsAreReleased` (`NothingLeft`), from the same invariant.

`HookEventProofs` covers the two models that a hook event passes through. Its first
part, about `EventSpool`, holds for any hook and enqueued events and any agents,
from `SpoolAssumption`.

* `TypeCorrect` (`TypeOK`).
* `NothingIsLost` (`NoEventLost`). The file-system calls are single steps of
  processes without a lock, so that the argument is about what an agent knew when
  it looked: it unlinks an event only with its acceptance in hand (`Acked`), it
  only holds events that were produced (`Seen`), the file of a hook event appears
  complete and once (`Whole`), and therefore an agent that is about to move one to
  quarantine finds it gone, or has failed to read it (`Gone`), so that no other one
  is ever there (`Unmoved`).

Its second part, about `SessionHistory` (whose `HistoryInit`, `HistoryNext` and
`HistorySpec` are named apart for it), holds for any number of lines, prompts,
uploads and jobs, from `HistoryAssumption`.

* `HistoryTypeCorrect` (`HistoryTypeOK`), from `HistoryInv`.
* `ReadsAreUnderTheirPrompts` (`ReadUnderItsPrompt`). The lemmas about the
  operators carry it: the rows that `Reply` takes for a round are answers to its
  question (`FollowerIsNext`, `WindowIsAnswers`, `ReplyIsAnswers`), a longer transcript keeps rounds and answers as they
  were (`TurnsGrow`), and the prompt that `Anchor` falls back to is the one that was asked
  for where the numberings agree (`AnchorIsThePrompt`). `HistoryInv` adds to the types
  that a stored summary is one of its own round (`Summarised`), that what an analysis or
  the job has read still belongs to where it will be written (`Analysed`, `Jobs`: by
  stages, its round, its prompt, its window, and its reply unless that is torn), and
  that a mentor's old reference names a row of its own replacement (`Opened`).
* `CardsFitTheirPrompts` (`CardOfItsPrompt`), an action property: only a Stop's
  analysis and the job write cards (`Writers`), `Matching` finds the round's
  prompt or one with the same words where the numberings agree
  (`MatchingIsThePrompt`), and the end of a window is the next prompt until another
  upload is stored (`WindowOk`), so that a reply answers its prompt or is torn (`ReplyOk`).

`UploadsProofs` holds for any sessions, versions, concurrent HTTP requests and
restarts, with and without an LLM, from `UploadsAssumption`.

* `TypeCorrect` (`TypeOK`).
* `SessionStatusIsTrue` (`StatusIsTrue`). That an active row has a task with its
  version is not inductive: a task that has the version *under way* may end and
  leave a row that a retry has made pending again. `Covers` asks for more: a
  pending row is still *ahead* of some task. A task with an older item under way
  then cannot take it away, because the edge from pending to done does not exist.
  `Works` leaves out a task that has yet to answer its request and will find nothing
  to analyse. `RawDone` and `Shape` carry the evidence from the LLM's
  commit to the child row; `RowsHaveSha` gives the retry its versions.
* `RequestDoneMeansAllDone` (`DoneMeansAllDone`). Each action is shown to keep the
  invariant and to be such a step in one lemma (`Good`); only `Refresh` writes
  done, and it has seen every child.

`FloatMessagesProofs` holds for any number of messages, page size, dedup window,
queue length and crashes, from `FloatAssumption`.

* `ReceiptsAreRecorded` (`AckOnlyRecorded`) and `RendersAreRemembered`
  (`NothingForgotten`) from one invariant: the pending receipts and the window in
  memory are those on disk (`OnDisk`), the cursor on disk is before every unrecorded
  render (`Behind`), both unless the record could not be read (`unread`; what it then
  says is no longer related to the memory), the window on disk is pending there or
  confirmed (`Forgotten`), the threads never claim the same receipt (`Claimed`), and what
  a thread asks about is pending until the answer (`Asked`).
* `WindowTypeCorrect` (`TypeOK`). The bound on the pages of a scan is not inductive: a
  scan that asks for a page must be below the bound, and one that has not begun has
  counted none (`Pages`).
* `NothingIsSkipped` (`SkippedOnlyIfMissed`). The cursor jumps to whatever was rendered, so
  that the argument is about order: the messages before a queued one were shown,
  missed or are queued before it (`Ordered`), those before a live frame too, or are on
  their way (`Arriving`), and a connection that is registered has been sent, or has
  caught up, everything up to now. Then whatever is rendered has nothing unseen before
  it (`Passed`).
* `NothingIsRenderedTwice` (`RenderedOnce`), where no card fails to be built
  (`~RenderFaults`, the same as in the run): a card of the process is on record or was
  passed by the cursor (`OnceInv`), so that the queue's check finds it although the
  window has forgotten its id. The condition is needed: a message whose
  cards could not be rebuilt is among the cards and not on record, and is rendered
  when it comes again; TLC shows it.

`StopReportsProofs` holds for any number of reports, uploads, crashes and LLM
slots, from `StopAssumption`.

* `AnalysedOnceOnItsOwn` (`AnalysedOnItsOwn`). A report that is pending or queued for
  recovery has a transcript that the recovery's query finds, and the first one
  that is not older is its own or a bulk upload (`Recoverable`, `RawsAreOld`); nobody
  analyses a report that is still queued (`Once`), which needs that requests are
  served only after the queue is empty (`Serves`).
* `AnsweredIsKept` (`NotForgotten`), from the same invariant.
* `ReportsTypeCorrect` (`TypeOK`). The bound on summaries is the interesting part: a report
  without a prompt gets one more at every try. `Attempts` counts the tries by the
  crashes, one less while another try may come (`Unfinished`); a deleted report is
  never tried again (`GoneIsGone`), which needs that a deletion, like every request,
  comes only after the recovery.

`FloatPanelProofs` holds for any finite set of sessions and any bounds on analyses
and questions, from `PanelAssumption`.

* `NothingIsMissed` (`NothingMissed`). What the window heard of is stored (`Told`); a
  refresh that still counts is for the current session and has read all the
  window has heard of, and one that does not count is followed by another
  (`UnderWay`), from the first request for cards after a frame was followed
  (`Panel`); the unread mark goes by what the refresh has read (`Owed`).
* `AnswersFit` (`AnswerFitsQuestion`). `ContextFits` says what `Context` puts together for
  each button; `Suits` follows it from the handler to the text: the session of a sync is on
  the server before the question is sent, and a handler that was left behind by an
  earlier question does not pass for the one in flight.
* `PanelTypeCorrect` (`TypeOK`). Bounds are counted: a session cannot have more analyses
  than all of them together (`FullSession`), what the window holds is no more than what is
  stored (`Told`), and every question is stored once or will be (`Counted`).

`UploadClientProofs` holds for any number of sessions, requests, versions, asks,
lost calls and crashes, from `ClientAssumption`.

* `TypeCorrect` (`TypeOK`) needs one more part: a half written transcript is below
  the last version, because the write that completes it raises the version (`TornInv`).
* `ErasureNeedsOverlap` (`ErasedOnlyByOverlap`). As long as the server never has two
  posts of a session under way, at most one thread or post works on
  it (`Alone`), a thread waits only for its own post (`WaitInv`), and a post
  without content is for the version of the row that the server still has (`Fits`).
* `DoneMeansUploaded` (`DoneIsUploaded`). Every session of a request that a thread
  took is still to do, in its post, uploaded in a version that is recent
  enough (`Done`), or the thread knows of a failure (`Covered`); what a post
  carries is as new as its request (`Recent`), and a request that was not made
  yet has no thread, command or post (`NotYet`).

Only model-checked: the liveness properties (`EveryMessageSettles`, `ReceiptsSettle`,
`EveryEventAccepted`, `AnalysisSettles`, `HeardIsSettled`, `ServesAgain`), which
need ENABLED and fairness, beyond this prover. Every invariant and every action
property that a passing run checks is also a theorem.

## 6. Plan

Done, in this order: `MentorDelivery` and `DeliveryContract` (the central promise
of the product), `MentorDeliveryProofs`, `EventSpool`, `Uploads`, `FloatMessages`,
`StopReports`, `UploadCommands` with `UploadCommandsProofs`, `UploadClient`,
`FloatPanel`, `SessionHistory`, the proofs about `EventSpool`, `FloatPanel`,
`FloatMessages`, `StopReports`, `Uploads` and `UploadClient`, and those of the
remaining invariants and action properties, `SessionHistory`'s among them.

Left: abstract specifications for the spool and for the upload commands, with
refinement proofs in the manner of `DeliveryImplementsContract`.

## 7. Not modelled, and why

* Texts: what a transcript line or a prompt says, the LLM prompts, the diagnostic
  bundle with its redaction and limits, the list pages and statistics. They are
  conversions or read-only queries over tables the models already have.
* Authentication and request size limits: no delivery decision depends on them.
* The LLM and the OS dialogs: external; they answer, fail or time out.
* Mentor read marks and reply contexts: written once, read for display.
* `floating.py`, `menubar.py`, `legacy/`: superseded front ends
  (`docs/reuse-map.md:83`) without receipts or claims.
* The worker lock: one `flock` for the life of the server, which the kernel
  frees with the process. The models have one server process because of it.
* `wb_sync.py`: one idempotent post of session titles.
* The descriptor-level checks of the transcript directory, OS dialogs, drawing.
* In `FloatMessages`, deletion of a student, and the panel; in `StopReports`,
  events a mentor page can miss, because every page reads the tables.
* In `Uploads`, the client: its posts may come at any time and in any order. In
  `UploadClient`, the analysis of what is uploaded: it may refuse a post.
* In `FloatPanel`, the cards' contents.
* In `UploadCommands`, commands of other kinds (ignored by `handle_command`)
  and the in-memory in-flight set, which one process cannot enter twice because
  its step is one.
