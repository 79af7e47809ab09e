------------------------------- MODULE Uploads -------------------------------
(***************************************************************************)
(* One upload request of a mentor, as the Center Server keeps it: the      *)
(* transfer axis the student's client reports, the analysis axis           *)
(* aggregated from one child row per session, the bulk transcript of each  *)
(* session, and the background tasks that analyse transcripts.             *)
(*                                                                         *)
(* The server is one asyncio process: a task is the coroutine of one HTTP  *)
(* request, its background work included, and other tasks run only while   *)
(* it awaits: publishing to mentor sockets, or the LLM.  A restart loses   *)
(* the tasks and keeps the tables.                                         *)
(***************************************************************************)
EXTENDS Naturals, FiniteSets

CONSTANTS
    Sessions,     \* sessions of the student
    MaxVer,       \* bound: versions of a transcript, each its content sha
    Tasks,        \* bound: HTTP requests in progress at a time
    MaxRequests,  \* bound: HTTP requests
    MaxRestarts,  \* bound: restarts of the server
    LlmEnabled    \* _bulk_upload_llm_enabled(config)

ASSUME UploadsAssumption ==
    /\ MaxVer \in Nat \ {0}
    /\ MaxRequests \in Nat
    /\ MaxRestarts \in Nat
    /\ LlmEnabled \in BOOLEAN

VARIABLES
    transfer,   \* upload_requests.transfer_status
    parent,     \* upload_requests.analysis_status
    child,      \* upload_request_sessions.analysis_status, "none" without a row
    childSha,   \* upload_request_sessions.sha
    raw,        \* raw_transcripts.content_sha256 of the bulk row, 0 without one
    rawStatus,  \* raw_transcripts.analysis_status
    analysed,   \* <<session, sha>> whose analysis was committed
    task,       \* the coroutines
    requests, restarts

tables == <<transfer, parent, child, childSha, raw, rawStatus, analysed>>
vars   == <<tables, task, requests, restarts>>

Ver   == 1..MaxVer
Items == Sessions \X Ver

\* The edges of the two state machines.
TRANSFER ==
    [pending |-> {"running", "failed"}, running |-> {"stored", "failed"},
     failed |-> {"running"}, stored |-> {}]

ANALYSIS ==
    [not_requested |-> {"pending"}, pending |-> {"running", "failed"},
     running |-> {"done", "failed"}, failed |-> {"pending"}, done |-> {}]

\* _transition: repeating a state is idempotent, else an edge must exist.
Allowed(edges, old, new) == new = old \/ new \in edges[old]

Active == {"pending", "running"}

\* A coroutine: where it is suspended, what it analyses, what it has still to
\* analyse, and what it read before its first await.  "tracked" says that it
\* reports to the request's child rows.
Coroutine ==
    [pc : {"idle", "registered", "reported", "next", "marked", "llm", "committed"},
     kind : {"none", "upload", "retry", "status"},
     tracked : BOOLEAN, rest : SUBSET Items, item : SUBSET Items,
     known : BOOLEAN, knownDone : BOOLEAN]

Idle == [pc |-> "idle", kind |-> "none", tracked |-> FALSE, rest |-> {}, item |-> {},
         known |-> FALSE, knownDone |-> FALSE]

TypeOK ==
    /\ transfer \in DOMAIN TRANSFER
    /\ parent \in DOMAIN ANALYSIS
    /\ child \in [Sessions -> DOMAIN ANALYSIS \cup {"none"}]
    /\ childSha \in [Sessions -> 0..MaxVer]
    /\ raw \in [Sessions -> 0..MaxVer]
    /\ rawStatus \in [Sessions -> {"", "pending", "running", "done", "failed", "skipped"}]
    /\ analysed \subseteq Items
    /\ task \in [Tasks -> Coroutine]
    /\ requests \in 0..MaxRequests
    /\ restarts \in 0..MaxRestarts

\* The request exists (request_student_upload); nothing was uploaded yet.
Init ==
    /\ transfer = "pending" /\ parent = "not_requested"
    /\ child = [s \in Sessions |-> "none"]
    /\ childSha = [s \in Sessions |-> 0]
    /\ raw = [s \in Sessions |-> 0]
    /\ rawStatus = [s \in Sessions |-> ""]
    /\ analysed = {}
    /\ task = [t \in Tasks |-> Idle]
    /\ requests = 0 /\ restarts = 0

-----------------------------------------------------------------------------
(* The service: aggregation of the children into the parent. *)

\* Mutant: sessions that are still pending do not count.
DesiredIgnoresPending(ch, p) ==
    LET some(S) == \E s \in Sessions : ch[s] \in S
    IN  IF ~some(Active \cup {"done", "failed"}) THEN p
        ELSE IF transfer # "stored" THEN "running"
        ELSE IF some({"failed"}) THEN "failed"
        ELSE IF some({"running"}) THEN "running"
        ELSE "done"

\* What refresh_parent_analysis wants the parent to be.
Desired(ch, p) ==
    LET some(S) == \E s \in Sessions : ch[s] \in S
    IN  IF ~some(Active \cup {"done", "failed"}) THEN p
        ELSE IF transfer # "stored"
             THEN IF some({"running", "done", "failed"}) \/ p = "running"
                  THEN "running" ELSE "pending"
        ELSE IF some({"failed"}) THEN "failed"
        ELSE IF some({"running"}) THEN "running"
        ELSE IF some({"pending"}) THEN (IF p = "running" THEN "running" ELSE "pending")
        ELSE "done"

\* _advance_parent_analysis walks the edges of ANALYSIS up to the desired
\* state; it raises, having changed nothing, when none leads there.
Raises(p, d) == p # d /\ (p = "done" \/ (p = "running" /\ d = "pending"))

Refresh(ch, p) == LET d == Desired(ch, p) IN IF Raises(p, d) THEN p ELSE d

\* Mutant: the child's sha is not compared.
MarkAnySha(ch, p, s, v, status) ==
    LET marked == [ch EXCEPT ![s] = status]
    IN  IF ~Allowed(ANALYSIS, ch[s], status)
        THEN [child |-> ch, parent |-> p, ok |-> FALSE]
        ELSE [child |-> marked, parent |-> Refresh(marked, p),
              ok |-> ~Raises(p, Desired(marked, p))]

\* mark_session_analysis: ignores a child that moved on to another sha, raises
\* on an edge that does not exist, else updates the child and the parent.
Mark(ch, p, s, v, status) ==
    LET marked == [ch EXCEPT ![s] = status]
    IN  IF childSha[s] # v THEN [child |-> ch, parent |-> p, ok |-> TRUE]
        ELSE IF ~Allowed(ANALYSIS, ch[s], status)
             THEN [child |-> ch, parent |-> p, ok |-> FALSE]
        ELSE [child |-> marked, parent |-> Refresh(marked, p),
              ok |-> ~Raises(p, Desired(marked, p))]

\* The compare-and-set updates of a child row and of the parent row.
SetChildAndParent(m) == child' = m.child /\ parent' = m.parent

\* set_raw_transcript_analysis_status, for the row that still has this sha.
SetRawStatus(s, v, status) ==
    rawStatus' = IF raw[s] = v THEN [rawStatus EXCEPT ![s] = status] ELSE rawStatus

-----------------------------------------------------------------------------
(* Requests of the student's client. *)

\* An HTTP request arrives.
Begin(t) ==
    /\ task[t].pc = "idle"
    /\ requests < MaxRequests
    /\ requests' = requests + 1
    /\ restarts' = restarts

Become(t, c) == task' = [task EXCEPT ![t] = c]

\* The background task that a stored transcript schedules.
Analysis(s, v, tracked) ==
    [Idle EXCEPT !.pc = "next", !.kind = "upload", !.tracked = tracked, !.rest = {<<s, v>>}]

\* replace_session_messages: the new content takes the place of the old row.
ReplaceTranscript(s, v) ==
    /\ raw' = [raw EXCEPT ![s] = v]
    /\ rawStatus' = [rawStatus EXCEPT ![s] = IF LlmEnabled THEN "pending" ELSE "skipped"]

\* The rest of upload_session_transcript, from what it read on entry.
StoreTranscript(t, s, v, tracked, known, knownDone) ==
    \/ /\ known /\ (knownDone \/ ~LlmEnabled)
       /\ Become(t, Idle)
       /\ UNCHANGED <<raw, rawStatus>>
    \/ /\ known /\ ~knownDone /\ LlmEnabled
       /\ SetRawStatus(s, v, "pending")
       /\ Become(t, Analysis(s, v, tracked))
       /\ raw' = raw
    \/ /\ ~known
       /\ ReplaceTranscript(s, v)
       /\ Become(t, IF LlmEnabled THEN Analysis(s, v, tracked) ELSE Idle)

\* A transcript outside of any request (the menu's bulk upload): no await.
PostTranscript(t, s, v) ==
    /\ Begin(t)
    /\ StoreTranscript(t, s, v, FALSE, raw[s] = v, rawStatus[s] = "done")
    /\ UNCHANGED <<transfer, parent, child, childSha, analysed>>

\* upsert_upload_request_session: a row is reset only by another sha.
Registered(s, v, status) ==
    IF childSha[s] = v THEN child ELSE [child EXCEPT ![s] = status]

\* A transcript for the request, in whatever state its transfer is: the child
\* row is registered first.
PostForRequest(t, s, v) ==
    LET knownDone == raw[s] = v /\ rawStatus[s] = "done"
        status    == IF ~LlmEnabled THEN "not_requested"
                     ELSE IF knownDone THEN "done" ELSE "pending"
        ch        == Registered(s, v, status)
    IN  /\ Begin(t)
        /\ child' = ch
        /\ childSha' = [childSha EXCEPT ![s] = v]
        /\ parent' = Refresh(ch, parent)
        /\ \/ /\ Raises(parent, Desired(ch, parent))     \* 409
              /\ UNCHANGED <<raw, rawStatus, task>>
           \/ /\ Desired(ch, parent) = parent
              /\ StoreTranscript(t, s, v, TRUE, raw[s] = v, knownDone)
           \/ /\ ~Raises(parent, Desired(ch, parent))
              /\ Desired(ch, parent) # parent
              /\ Become(t, [Analysis(s, v, TRUE) EXCEPT
                              !.pc = "registered", !.known = raw[s] = v,
                              !.knownDone = knownDone])
              /\ UNCHANGED <<raw, rawStatus>>
        /\ UNCHANGED <<transfer, analysed>>

\* ... and it goes on once the parent's new state is published.
PostResumes(t) ==
    /\ task[t].pc = "registered"
    /\ \E i \in task[t].rest :
          StoreTranscript(t, i[1], i[2], TRUE, task[t].known, task[t].knownDone)
    /\ UNCHANGED <<transfer, parent, child, childSha, analysed, requests, restarts>>

\* Mutant: the parent is not refreshed after the report.
ReportTransferOnly(t, status) ==
    /\ Begin(t)
    /\ Allowed(TRANSFER, transfer, status)
    /\ transfer' = status
    /\ UNCHANGED <<parent, child, childSha, raw, rawStatus, analysed, task>>

\* update_student_upload_request_status: the transfer axis, a publication,
\* and then the parent's refresh.
ReportTransfer(t, status) ==
    /\ Begin(t)
    /\ Allowed(TRANSFER, transfer, status)
    /\ transfer' = status
    /\ Become(t, [Idle EXCEPT !.pc = "reported", !.kind = "status"])
    /\ UNCHANGED <<parent, child, childSha, raw, rawStatus, analysed>>

ReportResumes(t) ==
    /\ task[t].pc = "reported"
    /\ parent' = Refresh(child, parent)
    /\ Become(t, Idle)
    /\ UNCHANGED <<transfer, child, childSha, raw, rawStatus, analysed, requests, restarts>>

-----------------------------------------------------------------------------
(* The mentor's retry: claim_upload_analysis_retry, one transaction. *)

\* The failed rows are claimed.  A request for one session has rows of that
\* session only.  Left out: a failed request of an older version that has no
\* row at all, for which the claim inserts one.
RetryAnalysis(t) ==
    LET failed == {s \in Sessions : child[s] = "failed"} IN
    /\ Begin(t)
    /\ transfer = "stored" /\ parent = "failed"
    /\ failed # {}
    /\ \A s \in failed : raw[s] = childSha[s]
    /\ parent' = "pending"
    /\ child' = [s \in Sessions |-> IF s \in failed THEN "pending" ELSE child[s]]
    /\ Become(t, [Idle EXCEPT !.pc = "next", !.kind = "retry", !.tracked = TRUE,
                              !.rest = {<<s, childSha[s]>> : s \in failed}])
    /\ UNCHANGED <<transfer, childSha, raw, rawStatus, analysed>>

-----------------------------------------------------------------------------
(* Background analysis.  A request's background tasks run one by one. *)

EndItem(t, rest) ==
    Become(t, IF rest = {} THEN Idle
              ELSE [task[t] EXCEPT !.pc = "next", !.item = {}, !.rest = rest])

\* The child is marked only by a task that belongs to the request.
MarkItem(t, i, status) ==
    IF task[t].tracked THEN Mark(child, parent, i[1], i[2], status)
    ELSE [child |-> child, parent |-> parent, ok |-> TRUE]

\* The except clause of _analyze_uploaded_session_background; a second
\* exception from marking the child ends the task too.
Fail(t, s, v, ch, p) ==
    /\ SetRawStatus(s, v, "failed")
    /\ IF task[t].tracked THEN SetChildAndParent(Mark(ch, p, s, v, "failed"))
       ELSE UNCHANGED <<child, parent>>

\* The next transcript: mark its child running and, when the parent's new
\* state is published, mark the raw row running and wait for the LLM.
StartItem(t) ==
    \E i \in task[t].rest :
       LET s == i[1]
           v == i[2]
           m == MarkItem(t, i, "running")
           waiting(pc) == [task[t] EXCEPT !.pc = pc, !.rest = @ \ {i}, !.item = {i}]
       IN  /\ task[t].pc = "next"
           /\ \/ /\ m.ok /\ m.parent # parent
                 /\ SetChildAndParent(m)
                 /\ Become(t, waiting("marked"))
                 /\ UNCHANGED rawStatus
              \/ /\ m.ok /\ m.parent = parent
                 /\ SetChildAndParent(m)
                 /\ SetRawStatus(s, v, "running")
                 /\ Become(t, waiting("llm"))
              \/ /\ ~m.ok /\ task[t].kind = "upload"
                 /\ Fail(t, s, v, m.child, m.parent)
                 /\ EndItem(t, task[t].rest \ {i})
              \/ /\ ~m.ok /\ task[t].kind = "retry"
                 /\ SetChildAndParent(m)
                 /\ EndItem(t, task[t].rest \ {i})
                 /\ UNCHANGED rawStatus
           /\ UNCHANGED <<transfer, childSha, raw, analysed, requests, restarts>>

CallLlm(t) ==
    /\ task[t].pc = "marked"
    /\ \E i \in task[t].item : SetRawStatus(i[1], i[2], "running")
    /\ task' = [task EXCEPT ![t].pc = "llm"]
    /\ UNCHANGED <<transfer, parent, child, childSha, raw, analysed, requests, restarts>>

\* The LLM answers and commit_bulk_analysis_if_current finds the sha current.
Commit(t) ==
    /\ task[t].pc = "llm"
    /\ \E i \in task[t].item :
          /\ raw[i[1]] = i[2]
          /\ analysed' = analysed \cup {i}
          /\ SetRawStatus(i[1], i[2], "done")
    /\ task' = [task EXCEPT ![t].pc = "committed"]
    /\ UNCHANGED <<transfer, parent, child, childSha, raw, requests, restarts>>

\* The LLM fails, or the sha is stale.
NoAnalysis(t) ==
    /\ task[t].pc = "llm"
    /\ \E i \in task[t].item : Fail(t, i[1], i[2], child, parent)
    /\ EndItem(t, task[t].rest)
    /\ UNCHANGED <<transfer, childSha, raw, analysed, requests, restarts>>

\* After the analysis is published the child is marked done.
FinishItem(t) ==
    \E i \in task[t].item :
       LET m == MarkItem(t, i, "done") IN
       /\ task[t].pc = "committed"
       /\ \/ /\ m.ok \/ task[t].kind = "retry"
             /\ SetChildAndParent(m)
             /\ UNCHANGED rawStatus
          \/ /\ ~m.ok /\ task[t].kind = "upload"
             /\ Fail(t, i[1], i[2], m.child, m.parent)
       /\ EndItem(t, task[t].rest)
       /\ UNCHANGED <<transfer, childSha, raw, analysed, requests, restarts>>

-----------------------------------------------------------------------------

\* Mutant: only the parent is recovered.
RestartKeepsChildren ==
    /\ restarts < MaxRestarts
    /\ restarts' = restarts + 1
    /\ task' = [t \in Tasks |-> Idle]
    /\ parent' = IF parent \in Active THEN "failed" ELSE parent
    /\ UNCHANGED <<transfer, child, childSha, raw, rawStatus, analysed, requests>>

\* Mutant: recovery writes a status the state machine does not know.
RestartInterrupts ==
    /\ restarts < MaxRestarts
    /\ restarts' = restarts + 1
    /\ task' = [t \in Tasks |-> Idle]
    /\ child' = [s \in Sessions |-> IF child[s] \in Active THEN "interrupted" ELSE child[s]]
    /\ parent' = IF parent \in Active THEN "failed" ELSE parent
    /\ UNCHANGED <<transfer, childSha, raw, rawStatus, analysed, requests>>

\* The server stops, and its lifespan runs recover_interrupted_analysis.
Restart ==
    /\ restarts < MaxRestarts
    /\ restarts' = restarts + 1
    /\ task' = [t \in Tasks |-> Idle]
    /\ child' = [s \in Sessions |-> IF child[s] \in Active THEN "failed" ELSE child[s]]
    /\ parent' = IF parent \in Active THEN "failed" ELSE parent
    /\ UNCHANGED <<transfer, childSha, raw, rawStatus, analysed, requests>>

Progress(t) ==
    \/ PostResumes(t) \/ ReportResumes(t)
    \/ StartItem(t) \/ CallLlm(t) \/ Commit(t) \/ NoAnalysis(t) \/ FinishItem(t)

Next ==
    \/ \E t \in Tasks :
          \/ \E s \in Sessions, v \in Ver : PostTranscript(t, s, v) \/ PostForRequest(t, s, v)
          \/ \E status \in DOMAIN TRANSFER \ {"pending"} : ReportTransfer(t, status)
          \/ RetryAnalysis(t)
          \/ Progress(t)
    \/ Restart

Spec == Init /\ [][Next]_vars

\* The event loop resumes every coroutine in the end (the LLM call has a
\* timeout).  No request is ever bound to come.
FairSpec == Spec /\ \A t \in Tasks : WF_vars(Progress(t))

-----------------------------------------------------------------------------
(* Properties. *)

\* A session that the request shows as done was analysed in exactly the
\* version the request registered, whatever uploads, retries and restarts
\* came between registration, LLM answer and report.
DoneWasAnalysed ==
    \A s \in Sessions : child[s] = "done" => <<s, childSha[s]>> \in analysed

\* Who will still report on the child row of a session.
Worker(s) ==
    {t \in Tasks : /\ task[t].tracked
                   /\ <<s, childSha[s]>> \in task[t].rest \cup task[t].item}

\* No session hangs: a child shown as pending or running has a live task that
\* will report on it.  The one exception is a transcript that arrives after
\* the request was completed: it is refused with 409 but its row stays.
NoOrphanAnalysis ==
    \A s \in Sessions : child[s] \in Active => Worker(s) # {} \/ parent = "done"

\* What the request's page says of a session (GET of the request's sessions)
\* is true: done was analysed, and pending or running is being worked on.
StatusIsTrue == DoneWasAnalysed /\ NoOrphanAnalysis

\* The mentor is told that a request is done only when the transfer is stored
\* and every registered session is analysed, in one step from neither.
DoneMeansAllDone ==
    [][parent # "done" /\ parent' = "done" =>
         /\ transfer' = "stored"
         /\ \A s \in Sessions : child'[s] \in {"none", "not_requested", "done"}]_vars

\* Once the transfer is stored the analysis comes to an end: the mentor is
\* never left with a request that stays pending or running.
AnalysisSettles ==
    transfer = "stored" /\ parent \in Active ~> parent \notin Active

=============================================================================
