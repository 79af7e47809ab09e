------------------------------ MODULE UploadClient ------------------------------
(***************************************************************************)
(* The student's side of an upload request: the float window hears of the  *)
(* request (a frame, or the list it fetches whenever its socket connects), *)
(* a thread per request reports the transfer and posts the transcripts one *)
(* by one, while the ask box may upload a session of its own, and          *)
(* WorkBuddy goes on writing the transcript files.                         *)
(*                                                                         *)
(* A version of a transcript stands for its filtered content and for the   *)
(* sha of that content; version 0 is the empty content.  The analysis of   *)
(* what is uploaded, and the refusals it causes, are module Uploads.       *)
(***************************************************************************)
EXTENDS Naturals, FiniteSets

CONSTANTS
    Sessions,    \* sessions in WorkBuddy's database
    Growing,     \* bound: sessions that WorkBuddy still writes to
    Requests,    \* bound: upload requests of the mentor
    Ask,         \* the sync-then-ask thread, which has no request
    MaxVer,      \* bound: versions of a transcript
    MaxAsks,     \* bound: uploads of the ask box
    MaxFaults    \* bound: lost calls and crashes

ASSUME ClientAssumption ==
    /\ Growing \subseteq Sessions /\ Ask \notin Requests
    /\ MaxVer \in Nat \ {0} /\ MaxAsks \in Nat /\ MaxFaults \in Nat

VARIABLES
    local, torn,  \* the files: their version; those that end in half a line
    status,       \* upload_requests.transfer_status, "none" before the request
    child,        \* upload_request_sessions.sha of each request
    raw,          \* raw_transcripts: the sha and the content of the bulk row
    post,         \* transcript posts on the wire or in a handler of the server
    online, fetching,
    commands,     \* commands handed to the main thread
    job,          \* the threads
    asks, faults,
    scope, due,   \* history: sessions of a request, and their version at that time
    overlap,      \* history: sessions that two uploads handled at once
    hurt          \* history: requests whose reports were lost, or whose thread died

files   == <<local, torn>>
server  == <<status, child, raw>>
window  == <<online, fetching, commands>>
bounds  == <<asks, faults>>
history == <<scope, due, overlap, hurt>>
vars    == <<files, server, post, window, job, bounds, history>>

Ver     == 0..MaxVer
Threads == Requests \cup {Ask}
Scopes  == {Sessions} \cup {{s} : s \in Sessions}

TRANSFER ==
    [pending |-> {"running", "failed"}, running |-> {"stored", "failed"},
     failed |-> {"running"}, stored |-> {}]

\* _transition: repeating a state is idempotent, else an edge must exist.
Allowed(old, new) == new = old \/ new \in TRANSFER[old]

\* A thread; todo: the sessions left; known: the shas of the manifest that need
\* no upload; index: of the transcripts; bad: a session failed.
Job == [step : {"idle", "claim", "list", "upload", "wait", "giveup"},
        todo : SUBSET Sessions, known : [Sessions -> Ver],
        index : {"none", "ok", "failed"}, bad : BOOLEAN]

\* A post; waited: its thread still waits for the answer.
Post == [by : Threads, of : Sessions, sha : Ver, body : Ver, waited : BOOLEAN,
         stage : {"new", "registered"}, seen : BOOLEAN]

Nothing == [s \in Sessions |-> 0]
Idle    == [step |-> "idle", todo |-> {}, known |-> Nothing, index |-> "none", bad |-> FALSE]

TypeOK ==
    /\ local \in [Sessions -> Ver] /\ torn \subseteq Sessions
    /\ status \in [Requests -> DOMAIN TRANSFER \cup {"none"}]
    /\ child \in [Requests -> [Sessions -> Ver]]
    /\ raw \in [Sessions -> [sha : Ver, body : Ver]]
    /\ post \subseteq Post
    /\ online \in BOOLEAN /\ fetching \in BOOLEAN
    /\ commands \subseteq Requests \X {"frame", "list"}
    /\ job \in [Threads -> Job]
    /\ asks \in 0..MaxAsks /\ faults \in 0..MaxFaults
    /\ scope \in [Requests -> SUBSET Sessions] /\ due \in [Requests -> [Sessions -> Ver]]
    /\ overlap \subseteq Sessions /\ hurt \subseteq Requests

Init ==
    /\ local = [s \in Sessions |-> 1] /\ torn = {}
    /\ status = [r \in Requests |-> "none"]
    /\ child = [r \in Requests |-> Nothing]
    /\ raw = [s \in Sessions |-> [sha |-> 0, body |-> 0]]
    /\ post = {}
    /\ online = FALSE /\ fetching = FALSE /\ commands = {}
    /\ job = [j \in Threads |-> Idle]
    /\ asks = 0 /\ faults = 0
    /\ scope = [r \in Requests |-> {}] /\ due = [r \in Requests |-> Nothing]
    /\ overlap = {} /\ hurt = {}

Set(j, changed) == job' = [job EXCEPT ![j] = changed]

\* A call is lost, or its answer is.
Fault == faults < MaxFaults /\ faults' = faults + 1 /\ asks' = asks

-----------------------------------------------------------------------------
(* WorkBuddy appends to a transcript; a reader may see half of the line. *)

HalfWrite(s) ==
    /\ s \in Growing \ torn /\ local[s] < MaxVer
    /\ torn' = torn \cup {s}
    /\ UNCHANGED <<local, server, post, window, job, bounds, history>>

EndLine(s) ==
    /\ s \in torn
    /\ torn' = torn \ {s} /\ local' = [local EXCEPT ![s] = @ + 1]
    /\ UNCHANGED <<server, post, window, job, bounds, history>>

-----------------------------------------------------------------------------
(* How the window hears of a request. *)

\* The mentor's request is stored and then pushed to the student's socket,
\* which may lose the frame.
Create(r, S) ==
    /\ status[r] = "none"
    /\ status' = [status EXCEPT ![r] = "pending"]
    /\ scope' = [scope EXCEPT ![r] = S]
    /\ due' = [due EXCEPT ![r] = local]
    /\ \/ online /\ commands' = commands \cup {<<r, "frame">>} /\ UNCHANGED bounds
       \/ ~online /\ UNCHANGED <<commands, bounds>>
       \/ online /\ Fault /\ commands' = commands
    /\ UNCHANGED <<files, child, raw, post, online, fetching, job, overlap, hurt>>

\* The socket opens and the list is fetched, once per connection.
Connect ==
    /\ ~online /\ online' = TRUE /\ fetching' = TRUE
    /\ UNCHANGED <<files, server, post, commands, job, bounds, history>>

Pending == {r \in Requests : status[r] = "pending"}

\* _fetch_upload_requests: the server lists the pending requests only.
Fetch ==
    /\ fetching /\ fetching' = FALSE
    /\ \/ commands' = commands \cup (Pending \X {"list"}) /\ UNCHANGED bounds
       \/ Fault /\ commands' = commands
    /\ UNCHANGED <<files, server, post, online, job, history>>

\* The socket breaks.
Disconnect ==
    /\ online /\ Fault
    /\ online' = FALSE /\ fetching' = FALSE
    /\ UNCHANGED <<files, server, post, commands, job, history>>

\* The client dies with its threads; what it posted may still arrive.
Crash ==
    /\ Fault
    /\ online' = FALSE /\ fetching' = FALSE /\ commands' = {}
    /\ job' = [j \in Threads |-> Idle]
    /\ post' = {[p EXCEPT !.waited = FALSE] : p \in post}
    /\ hurt' = hurt \cup {r \in Requests : job[r].step # "idle" \/ \E c \in commands : c[1] = r}
    /\ UNCHANGED <<files, server, scope, due, overlap>>

\* Mutant: what the request names is taken for one session.
HandleAsSession(c) ==
    /\ c \in commands /\ commands' = commands \ {c}
    /\ IF job[c[1]].step # "idle" THEN job' = job
       ELSE Set(c[1], [Idle EXCEPT !.step = "claim", !.todo = {scope[c[1]]}])
    /\ UNCHANGED <<files, server, post, online, fetching, bounds, history>>

\* _handle_mentor_command_upload: a request in flight is not started twice.
HandleCommand(c) ==
    /\ c \in commands /\ commands' = commands \ {c}
    /\ IF job[c[1]].step # "idle" THEN job' = job
       ELSE Set(c[1], [Idle EXCEPT !.step = "claim", !.todo = scope[c[1]]])
    /\ UNCHANGED <<files, server, post, online, fetching, bounds, history>>

\* _sync_then_send_student_ask_worker: one session, no request.
AskUpload(s) ==
    /\ job[Ask].step = "idle" /\ asks < MaxAsks
    /\ asks' = asks + 1 /\ faults' = faults
    /\ Set(Ask, [Idle EXCEPT !.step = "list", !.todo = {s}])
    /\ UNCHANGED <<files, server, post, window, history>>

-----------------------------------------------------------------------------
(* _upload_conversations_worker: the reports. *)

\* _post_upload_request_status, and whether the client knows that it worked.
Report(r, new, ok) ==
    \/ /\ ok /\ Allowed(status[r], new)
       /\ status' = [status EXCEPT ![r] = new] /\ UNCHANGED <<bounds, hurt>>
    \/ /\ ~ok /\ ~Allowed(status[r], new)
       /\ UNCHANGED <<status, bounds, hurt>>
    \/ /\ ~ok /\ Fault /\ hurt' = hurt \cup {r}
       /\ status' \in {status} \cup
            {[status EXCEPT ![r] = n] : n \in {m \in {new} : Allowed(status[r], m)}}

Claim(r) ==
    /\ job[r].step = "claim"
    /\ \/ Report(r, "running", TRUE) /\ Set(r, [job[r] EXCEPT !.step = "list"])
       \/ Report(r, "running", FALSE) /\ Set(r, [job[r] EXCEPT !.step = "giveup"])
    /\ UNCHANGED <<files, child, raw, post, window, scope, due, overlap>>

\* Mutant: the thread's exception is logged and not reported.
GiveUpSilently(r) ==
    /\ job[r].step = "giveup"
    /\ Set(r, Idle)
    /\ UNCHANGED <<files, server, post, window, bounds, history>>

\* An exception of the thread is reported; a lost report is only logged.
GiveUp(r) ==
    /\ job[r].step = "giveup"
    /\ \E ok \in BOOLEAN : Report(r, "failed", ok)
    /\ Set(r, Idle)
    /\ UNCHANGED <<files, child, raw, post, window, scope, due, overlap>>

\* Mutant: failures of single sessions do not count.
FinishDone(r) ==
    /\ job[r].step = "upload" /\ job[r].todo = {}
    /\ \E ok \in BOOLEAN : Report(r, "stored", ok)
    /\ Set(r, Idle)
    /\ UNCHANGED <<files, child, raw, post, window, scope, due, overlap>>

\* The last report: done only if no session failed.
Finish(r) ==
    /\ job[r].step = "upload" /\ job[r].todo = {}
    /\ \E ok \in BOOLEAN : Report(r, IF job[r].bad THEN "failed" ELSE "stored", ok)
    /\ Set(r, Idle)
    /\ UNCHANGED <<files, child, raw, post, window, scope, due, overlap>>

EndAsk ==
    /\ job[Ask].step = "giveup" \/ (job[Ask].step = "upload" /\ job[Ask].todo = {})
    /\ Set(Ask, Idle)
    /\ UNCHANGED <<files, server, post, window, bounds, history>>

-----------------------------------------------------------------------------
(* upload_conversations. *)

\* Sessions that an upload is at work on.
Busy == {p.of : p \in post}
          \cup (UNION {job[j].todo : j \in {k \in Threads : job[k].step \in {"upload", "wait"}}})

\* should_upload, for what the manifest says: a sha whose analysis failed is
\* uploaded again.  An unavailable manifest is an empty one.
Manifests(S) ==
    {[s \in Sessions |-> IF s \in fine THEN raw[s].sha ELSE 0] : fine \in SUBSET S}

\* The sessions of the database, then the manifest.
List(j) ==
    /\ job[j].step = "list"
    /\ \/ /\ \E known \in Manifests(job[j].todo) :
                Set(j, [job[j] EXCEPT !.step = "upload", !.known = known])
          /\ overlap' = overlap \cup (job[j].todo \cap Busy)
       \/ Set(j, [job[j] EXCEPT !.step = "giveup"]) /\ overlap' = overlap
    /\ UNCHANGED <<files, server, post, window, bounds, scope, due, hurt>>

\* _session_ids_from_jsonl wants every line whole.
Parses(s) == s \notin torn

\* _scan_index_directory reads every file of the projects directory, and the
\* first that cannot be parsed ends the scan.
Scan == IF \A s \in Sessions : Parses(s) THEN "ok" ELSE "failed"

\* _ensure_transcript_index scans once per upload, a failure is remembered.
Index(j) == IF job[j].index # "none" THEN job[j].index ELSE Scan

\* read_transcript reads the session's own file again.
Readable(j, s) == Index(j) = "ok" /\ Parses(s)

Unreadable(j, s) ==
    /\ ~Readable(j, s)
    /\ Set(j, [job[j] EXCEPT !.todo = @ \ {s}, !.known[s] = 0, !.index = Index(j), !.bad = TRUE])
    /\ post' = post

\* Without a request the manifest's sha is enough.  (Left out: the status
\* "unknown" of the manifests of older servers.)
Skip(j, s) ==
    /\ Readable(j, s) /\ j = Ask /\ job[j].known[s] = local[s]
    /\ Set(j, [job[j] EXCEPT !.todo = @ \ {s}, !.known[s] = 0, !.index = Index(j)])
    /\ post' = post

\* Mutant: a session of the manifest is posted without its content.
BodyOfKnown(j, s) == IF job[j].known[s] # 0 THEN 0 ELSE local[s]

\* The content is left out if the manifest has its sha.
Body(j, s) == IF job[j].known[s] = local[s] THEN 0 ELSE local[s]

PostTranscript(j, s) ==
    /\ Readable(j, s) /\ ~(j = Ask /\ job[j].known[s] = local[s])
    /\ Set(j, [job[j] EXCEPT !.todo = @ \ {s}, !.known[s] = 0, !.index = Index(j), !.step = "wait"])
    /\ post' = post \cup
         {[by |-> j, of |-> s, sha |-> local[s], body |-> Body(j, s), waited |-> TRUE,
           stage |-> "new", seen |-> FALSE]}

UploadSession(j, s) ==
    /\ job[j].step = "upload" /\ s \in job[j].todo
    /\ Unreadable(j, s) \/ Skip(j, s) \/ PostTranscript(j, s)
    /\ UNCHANGED <<files, server, window, bounds, history>>

\* The thread goes on, after an answer, an error or the timeout of its post.
Answered(p, ok) ==
    IF p.waited
    THEN Set(p.by, [job[p.by] EXCEPT !.step = "upload", !.bad = @ \/ ~ok])
    ELSE job' = job

\* The call fails for the client, while it may still reach the server.
LosePost(p) ==
    /\ p \in post /\ p.waited /\ Fault
    /\ Answered(p, FALSE)
    /\ post' \in {post \ {p}, (post \ {p}) \cup {[p EXCEPT !.waited = FALSE]}}
    /\ UNCHANGED <<files, server, window, history>>

-----------------------------------------------------------------------------
(* upload_session_transcript on the server. *)

\* The child row is registered, and the known sha is the one read before the
\* parent is published; the state of the analysis may refuse the post.
Register(p) ==
    /\ p \in post /\ p.stage = "new" /\ p.by # Ask
    /\ child' = [child EXCEPT ![p.by][p.of] = p.sha]
    /\ \/ /\ post' = (post \ {p}) \cup
                {[p EXCEPT !.stage = "registered", !.seen = raw[p.of].sha = p.sha]}
          /\ job' = job
       \/ /\ post' = post \ {p}
          /\ Answered(p, FALSE)
    /\ UNCHANGED <<files, status, raw, window, bounds, history>>

\* A known sha keeps the row, any other replaces it.
Store(p) ==
    LET known == IF p.by = Ask THEN raw[p.of].sha = p.sha ELSE p.seen IN
    /\ p \in post /\ (p.stage = "registered" \/ p.by = Ask)
    /\ raw' = IF known THEN raw ELSE [raw EXCEPT ![p.of] = [sha |-> p.sha, body |-> p.body]]
    /\ post' = post \ {p}
    /\ Answered(p, TRUE)
    /\ UNCHANGED <<files, status, child, window, bounds, history>>

-----------------------------------------------------------------------------

Thread(j) ==
    \/ List(j)
    \/ \E s \in Sessions : UploadSession(j, s)
    \/ j # Ask /\ (Claim(j) \/ GiveUp(j) \/ Finish(j))
    \/ j = Ask /\ EndAsk

Handler(p) == Register(p) \/ Store(p)

Handling == (\E c \in commands : HandleCommand(c)) \/ (\E p \in post : Handler(p))

Next ==
    \/ \E s \in Sessions : HalfWrite(s) \/ EndLine(s) \/ AskUpload(s)
    \/ \E r \in Requests, S \in Scopes : Create(r, S)
    \/ Connect \/ Fetch \/ Disconnect \/ Crash
    \/ \E j \in Threads : Thread(j)
    \/ \E p \in post : LosePost(p)
    \/ Handling

Spec == Init /\ [][Next]_vars

\* The main thread, the server and the threads go on; calls have timeouts.
FairSpec == Spec /\ WF_vars(Handling) /\ \A j \in Threads : WF_vars(Thread(j))

-----------------------------------------------------------------------------
(* Properties. *)

\* A request that is reported as done has uploaded every session it names, as
\* new as when the mentor asked; and the server still has it, unless another
\* upload of the session got in between.
DoneIsUploaded ==
    \A r \in Requests : status[r] = "stored" =>
        \A s \in scope[r] :
            /\ child[r][s] >= due[r][s]
            /\ s \in overlap \/ raw[s].sha >= due[r][s]

\* Only two uploads of a session at once can store a content that is not the
\* one of its sha.
ErasedOnlyByOverlap ==
    \A s \in Sessions \ overlap : raw[s].body = raw[s].sha

\* "Uploaded content is not lost": the stored content is the one of its sha.
ContentKept == \A s \in Sessions : raw[s].body = raw[s].sha

\* A request the window hears of ends as done or failed, unless a report of it
\* was lost or the client died.
HeardIsSettled ==
    \A r \in Requests :
        (\E c \in commands : c[1] = r) ~> (status[r] \in {"stored", "failed"} \/ r \in hurt)

=============================================================================
