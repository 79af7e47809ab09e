----------------------------- MODULE UploadsProofs -----------------------------
(***************************************************************************)
(* What TLAPS proves of Uploads, for any sessions, versions, requests in   *)
(* progress, and restarts.                                                 *)
(***************************************************************************)
EXTENDS Uploads, TLAPS

Parent == DOMAIN ANALYSIS
Child  == DOMAIN ANALYSIS \cup {"none"}

-----------------------------------------------------------------------------
(* The two state machines. *)

LEMMA Domains ==
    /\ DOMAIN ANALYSIS = {"not_requested", "pending", "running", "failed", "done"}
    /\ DOMAIN TRANSFER = {"pending", "running", "failed", "stored"}
BY DEF ANALYSIS, TRANSFER

\* A session that is being worked on can always be reported as failed; one
\* that is not finished can be started, and one that was started be done.
LEMMA Edges ==
    /\ \A old \in Active : Allowed(ANALYSIS, old, "failed") /\ Allowed(ANALYSIS, old, "running")
    /\ Allowed(ANALYSIS, "running", "done")
BY DEF Allowed, ANALYSIS, Active

\* Only a request that is done keeps a state that its children do not have.
LEMMA RaisesWhenDone ==
    ASSUME NEW ch, NEW p, Raises(p, Desired(ch, p))
    PROVE  p = "done"
BY DEF Raises, Desired

LEMMA RefreshEffect ==
    ASSUME NEW ch, NEW p \in Parent
    PROVE  /\ Refresh(ch, p) \in Parent
           /\ p = "done" => Refresh(ch, p) = "done"
           /\ p # "done" /\ Refresh(ch, p) = "done" =>
                 /\ transfer = "stored"
                 /\ \A s \in Sessions : ch[s] \notin {"pending", "running", "failed"}
<1>1. Desired(ch, p) \in {p, "running", "pending", "failed", "done"}
    BY DEF Desired
<1>2. Refresh(ch, p) \in Parent
    BY <1>1, Domains DEF Refresh, Parent
<1>3. p = "done" => Refresh(ch, p) = "done"
    BY DEF Refresh, Raises
<1>4. p # "done" /\ Refresh(ch, p) = "done" => Desired(ch, p) = "done"
    BY DEF Refresh
<1>5. p # "done" /\ Desired(ch, p) = "done" =>
          /\ transfer = "stored"
          /\ \A s \in Sessions : ch[s] \notin {"pending", "running", "failed"}
    BY DEF Desired, Active
<1> QED BY <1>2, <1>3, <1>4, <1>5

\* mark_session_analysis.
LEMMA MarkEffect ==
    ASSUME NEW ch \in [Sessions -> Child], NEW p \in Parent, NEW s \in Sessions, NEW v,
           NEW status \in {"running", "done", "failed"}
    PROVE  LET m == Mark(ch, p, s, v, status) IN
           /\ m.child \in [Sessions -> Child] /\ m.parent \in Parent
           /\ \A k \in Sessions : k # s => m.child[k] = ch[k]
           /\ childSha[s] # v => m.child = ch /\ m.ok
           /\ childSha[s] = v /\ Allowed(ANALYSIS, ch[s], status) => m.child[s] = status
           /\ ~Allowed(ANALYSIS, ch[s], status) => m.child = ch
           /\ m.ok /\ childSha[s] = v => m.child[s] = status
           /\ ~m.ok => /\ m.parent = p
                       /\ p = "done" \/ ~Allowed(ANALYSIS, ch[s], status)
           /\ p = "done" => m.parent = "done"
           /\ p # "done" /\ m.parent = "done" =>
                 /\ transfer = "stored"
                 /\ \A k \in Sessions : m.child[k] \notin {"pending", "running", "failed"}
<1> DEFINE m == Mark(ch, p, s, v, status)
           marked == [ch EXCEPT ![s] = status]
<1>1. marked \in [Sessions -> Child] /\ marked[s] = status
    BY Domains DEF Child
<1>2. \A k \in Sessions : k # s => marked[k] = ch[k]
    OBVIOUS
<1>3. CASE childSha[s] # v
  <2>1. m = [child |-> ch, parent |-> p, ok |-> TRUE]
      BY <1>3 DEF Mark
  <2> QED BY <1>3, <2>1
<1>4. CASE childSha[s] = v /\ ~Allowed(ANALYSIS, ch[s], status)
  <2>1. m = [child |-> ch, parent |-> p, ok |-> FALSE]
      BY <1>4 DEF Mark
  <2> QED BY <1>4, <2>1
<1>5. CASE childSha[s] = v /\ Allowed(ANALYSIS, ch[s], status)
  <2>1. m = [child |-> marked, parent |-> Refresh(marked, p), ok |-> ~Raises(p, Desired(marked, p))]
      BY <1>5 DEF Mark
  <2> HIDE DEF marked
  <2>2. m.child = marked /\ m.parent = Refresh(marked, p) /\ m.ok = ~Raises(p, Desired(marked, p))
      BY <2>1
  <2>3. /\ m.parent \in Parent
        /\ p = "done" => m.parent = "done"
        /\ p # "done" /\ m.parent = "done" =>
              /\ transfer = "stored"
              /\ \A k \in Sessions : m.child[k] \notin {"pending", "running", "failed"}
      BY <2>2, RefreshEffect
  <2>4. ~m.ok => p = "done" /\ m.parent = p
      BY <2>2, RaisesWhenDone DEF Refresh
  <2> HIDE DEF m
  <2> QED BY <1>1, <1>2, <1>5, <2>2, <2>3, <2>4 DEF m
<1> QED BY <1>3, <1>4, <1>5

-----------------------------------------------------------------------------
(* The inductive invariant. *)

\* What a coroutine can hold where it is.
Shape(c) ==
    /\ c.pc \in {"idle", "reported"} => c.rest = {} /\ c.item = {}
    /\ c.pc \in {"registered", "next"} => c.item = {}
    /\ c.pc = "registered" => \A i, j \in c.rest : i = j
    /\ \A i, j \in c.item : i = j
    /\ c.pc = "committed" => c.item \subseteq analysed

\* The tables do not call a transcript analysed that was not.
RawDone == \A s \in Sessions : rawStatus[s] = "done" => <<s, raw[s]>> \in analysed

\* upload_session_transcript ends without a background task.
NothingToDo(known, knownDone) == ~LlmEnabled \/ (known /\ knownDone)

\* A row of upload_request_sessions has the sha it was registered with.
RowsHaveSha == \A s \in Sessions : child[s] # "none" => childSha[s] \in Ver

\* Task t will report on the child row of session s.  A task that has still to
\* answer its request, and will find nothing to analyse, will not.
Works(t, s) ==
    /\ task[t].tracked
    /\ <<s, childSha[s]>> \in task[t].rest \cup task[t].item
    /\ task[t].pc = "registered" => ~NothingToDo(task[t].known, task[t].knownDone)

\* A pending session is even ahead of it: an older task, which has the session
\* under way in the same version, cannot report a pending row as done.
Covers(t, s) ==
    /\ Works(t, s)
    /\ child[s] = "pending" => <<s, childSha[s]>> \in task[t].rest

Worked(s) == child[s] \in Active /\ parent # "done" => \E t \in Tasks : Covers(t, s)

UploadInv ==
    /\ TypeOK
    /\ \A t \in Tasks : Shape(task[t])
    /\ RawDone /\ DoneWasAnalysed /\ RowsHaveSha
    /\ \A s \in Sessions : Worked(s)

\* The step property DoneMeansAllDone.
DoneStep ==
    parent # "done" /\ parent' = "done" =>
        /\ transfer' = "stored"
        /\ \A s \in Sessions : child'[s] \in {"none", "not_requested", "done"}

Good == UploadInv' /\ DoneStep

-----------------------------------------------------------------------------
(* Effects shared by several steps. *)

LEMMA TaskFields ==
    ASSUME TypeOK, NEW t \in Tasks
    PROVE  /\ task[t] \in Coroutine
           /\ task[t].rest \subseteq Items /\ task[t].item \subseteq Items
           /\ \A i \in task[t].rest \cup task[t].item :
                 i[1] \in Sessions /\ i[2] \in Ver /\ i = <<i[1], i[2]>>
<1>1. task[t] \in Coroutine
    BY DEF TypeOK
<1>2. task[t].rest \subseteq Items /\ task[t].item \subseteq Items
    BY <1>1 DEF Coroutine
<1> QED BY <1>1, <1>2 DEF Items

LEMMA IdleFields ==
    /\ Idle \in Coroutine /\ Idle.rest = {} /\ Idle.item = {} /\ Idle.pc = "idle" /\ ~Idle.tracked
    /\ Shape(Idle)'
BY DEF Idle, Coroutine, Shape

LEMMA BecomeEffect ==
    ASSUME TypeOK, NEW t \in Tasks, NEW c \in Coroutine, Become(t, c)
    PROVE  /\ task' \in [Tasks -> Coroutine] /\ task'[t] = c
           /\ \A u \in Tasks : u # t => task'[u] = task[u]
BY DEF Become, TypeOK

LEMMA AnalysisFields ==
    ASSUME NEW s \in Sessions, NEW v \in Ver, NEW tracked \in BOOLEAN
    PROVE  LET c == Analysis(s, v, tracked) IN
           /\ c \in Coroutine /\ c.pc = "next" /\ c.rest = {<<s, v>>} /\ c.item = {}
           /\ c.tracked = tracked
<1>1. Idle \in Coroutine /\ Idle.item = {}
    BY IdleFields
<1>2. {<<s, v>>} \in SUBSET Items
    BY DEF Items
<1> QED BY <1>1, <1>2 DEF Analysis, Coroutine

LEMMA RawStatusEffect ==
    ASSUME TypeOK, NEW s \in Sessions, NEW v, SetRawStatus(s, v, "pending")
           \/ SetRawStatus(s, v, "running") \/ SetRawStatus(s, v, "failed")
    PROVE  /\ rawStatus' \in [Sessions -> {"", "pending", "running", "done", "failed", "skipped"}]
           /\ \A k \in Sessions : rawStatus'[k] = "done" => rawStatus[k] = "done"
BY DEF SetRawStatus, TypeOK

\* The other tasks go on; what t covered before it must still cover.
LEMMA Carry ==
    ASSUME NEW t \in Tasks, NEW k \in Sessions, Worked(k),
           \A u \in Tasks : u # t => task'[u] = task[u],
           parent = "done" => parent' = "done",
           child'[k] = child[k], childSha'[k] = childSha[k],
           Covers(t, k) => Covers(t, k)'
    PROVE  Worked(k)'
<1> SUFFICES ASSUME child'[k] \in Active, parent' # "done" PROVE \E u \in Tasks : Covers(u, k)'
    BY DEF Worked, Active
<1>1. PICK u \in Tasks : Covers(u, k)
    BY DEF Worked
<1>2. CASE u = t
    BY <1>1, <1>2
<1>3. CASE u # t
  <2>1. task'[u] = task[u]
      BY <1>3
  <2> QED BY <1>1, <2>1 DEF Covers, Works
<1> QED BY <1>2, <1>3

\* The task goes to the next transcript, or ends.
LEMMA EndItemEffect ==
    ASSUME UploadInv, NEW t \in Tasks, NEW rest \in SUBSET Items, EndItem(t, rest)
    PROVE  /\ task' \in [Tasks -> Coroutine]
           /\ \A u \in Tasks : u # t => task'[u] = task[u]
           /\ Shape(task[t])'
           /\ task'[t].rest = rest /\ task'[t].item = {} /\ task'[t].pc # "registered"
           /\ task'[t].tracked = task[t].tracked \/ rest = {}
<1>1. TypeOK /\ task[t] \in Coroutine
    BY TaskFields DEF UploadInv
<1>2. CASE rest = {}
  <2>1. Become(t, Idle)
      BY <1>2 DEF EndItem
  <2>2. task' \in [Tasks -> Coroutine] /\ task'[t] = Idle /\ \A u \in Tasks : u # t => task'[u] = task[u]
      BY <1>1, <2>1, IdleFields, BecomeEffect
  <2> QED BY <1>2, <2>2, IdleFields DEF Shape
<1>3. CASE rest # {}
  <2> DEFINE c == [task[t] EXCEPT !.pc = "next", !.item = {}, !.rest = rest]
  <2>1. Become(t, c)
      BY <1>3 DEF EndItem
  <2>2. /\ c \in Coroutine /\ c.pc = "next" /\ c.item = {} /\ c.rest = rest
        /\ c.tracked = task[t].tracked
      BY <1>1 DEF Coroutine
  <2> HIDE DEF c
  <2>3. task' \in [Tasks -> Coroutine] /\ task'[t] = c /\ \A u \in Tasks : u # t => task'[u] = task[u]
      BY <1>1, <2>1, <2>2, BecomeEffect
  <2> QED BY <2>2, <2>3 DEF Shape
<1> QED BY <1>2, <1>3

\* Shapes of the tasks that a step leaves alone.
LEMMA ShapesKept ==
    ASSUME UploadInv, NEW t \in Tasks, analysed \subseteq analysed',
           \A u \in Tasks : u # t => task'[u] = task[u],
           Shape(task[t])'
    PROVE  \A u \in Tasks : Shape(task[u])'
<1> SUFFICES ASSUME NEW u \in Tasks, u # t PROVE Shape(task[u])'
    OBVIOUS
<1>1. task'[u] = task[u] /\ Shape(task[u])
    BY DEF UploadInv
<1> QED BY <1>1 DEF Shape

\* What a task reports on the children, and how the parent follows.
LEMMA MarkItemEffect ==
    ASSUME TypeOK, NEW t \in Tasks, NEW s \in Sessions, NEW v,
           NEW status \in {"running", "done", "failed"}
    PROVE  LET m == MarkItem(t, <<s, v>>, status) IN
           /\ ~task[t].tracked => m.child = child /\ m.parent = parent /\ m.ok
           /\ task[t].tracked => m = Mark(child, parent, s, v, status)
BY DEF MarkItem

\* A task that holds nothing covers nothing.
LEMMA FreeCoversNothing ==
    ASSUME UploadInv, NEW t \in Tasks, task[t].pc \in {"idle", "reported"}, NEW k \in Sessions
    PROVE  ~Covers(t, k)
BY DEF UploadInv, Shape, Covers, Works

\* The end of upload_session_transcript: what it does to the tables ...
LEMMA StoreEffect ==
    ASSUME UploadInv, NEW t \in Tasks, NEW s \in Sessions, NEW v \in Ver, NEW tracked,
           NEW known, NEW knownDone, StoreTranscript(t, s, v, tracked, known, knownDone),
           analysed' = analysed
    PROVE  /\ raw' \in [Sessions -> 0..MaxVer]
           /\ rawStatus' \in [Sessions -> {"", "pending", "running", "done", "failed", "skipped"}]
           /\ RawDone'
<1>1. TypeOK /\ RawDone
    BY DEF UploadInv
<1>2. CASE UNCHANGED <<raw, rawStatus>>
    BY <1>1, <1>2 DEF TypeOK, RawDone
<1>3. CASE SetRawStatus(s, v, "pending") /\ raw' = raw
  <2>1. /\ rawStatus' \in [Sessions -> {"", "pending", "running", "done", "failed", "skipped"}]
        /\ \A k \in Sessions : rawStatus'[k] = "done" => rawStatus[k] = "done"
      BY <1>1, <1>3, RawStatusEffect
  <2> QED BY <1>1, <1>3, <2>1 DEF TypeOK, RawDone
<1>4. CASE ReplaceTranscript(s, v)
  <2>1. /\ raw' = [raw EXCEPT ![s] = v]
        /\ rawStatus' = [rawStatus EXCEPT ![s] = IF LlmEnabled THEN "pending" ELSE "skipped"]
      BY <1>4 DEF ReplaceTranscript
  <2>2. v \in 0..MaxVer
      BY UploadsAssumption DEF UploadsAssumption, Ver
  <2>3. raw' \in [Sessions -> 0..MaxVer]
      BY <1>1, <2>1, <2>2 DEF TypeOK
  <2>4. rawStatus' \in [Sessions -> {"", "pending", "running", "done", "failed", "skipped"}]
      BY <1>1, <2>1 DEF TypeOK
  <2>5. \A k \in Sessions : rawStatus'[k] = "done" => rawStatus[k] = "done" /\ raw'[k] = raw[k]
      BY <1>1, <2>1 DEF TypeOK
  <2> QED BY <1>1, <2>3, <2>4, <2>5 DEF RawDone
<1> QED BY <1>2, <1>3, <1>4 DEF StoreTranscript

\* ... and to the task.
LEMMA AnalysisEffect ==
    ASSUME UploadInv, NEW t \in Tasks, NEW s \in Sessions, NEW v \in Ver, NEW tracked \in BOOLEAN,
           Become(t, Idle) \/ Become(t, Analysis(s, v, tracked))
    PROVE  /\ task' \in [Tasks -> Coroutine]
           /\ \A u \in Tasks : u # t => task'[u] = task[u]
           /\ Shape(task[t])'
           /\ Become(t, Analysis(s, v, tracked)) =>
                 /\ task'[t].rest = {<<s, v>>} /\ task'[t].item = {}
                 /\ task'[t].tracked = tracked /\ task'[t].pc = "next"
<1> DEFINE c == Analysis(s, v, tracked)
<1>1. TypeOK
    BY DEF UploadInv
<1>2. /\ c \in Coroutine /\ c.pc = "next" /\ c.rest = {<<s, v>>} /\ c.item = {}
      /\ c.tracked = tracked
    BY AnalysisFields
<1> HIDE DEF c
<1>3. CASE Become(t, Idle) /\ ~Become(t, c)
  <2>1. task' \in [Tasks -> Coroutine] /\ task'[t] = Idle /\ \A u \in Tasks : u # t => task'[u] = task[u]
      BY <1>1, <1>3, IdleFields, BecomeEffect
  <2> QED BY <1>3, <2>1, IdleFields DEF Shape, c
<1>4. CASE Become(t, c)
  <2>1. task' \in [Tasks -> Coroutine] /\ task'[t] = c /\ \A u \in Tasks : u # t => task'[u] = task[u]
      BY <1>1, <1>2, <1>4, BecomeEffect
  <2> QED BY <1>2, <2>1 DEF Shape
<1> QED BY <1>3, <1>4 DEF c

-----------------------------------------------------------------------------
(* One lemma per step. *)

LEMMA BeginTyped ==
    ASSUME TypeOK, NEW t \in Tasks, Begin(t)
    PROVE  requests' \in 0..MaxRequests /\ restarts' \in 0..MaxRestarts /\ task[t].pc = "idle"
<1>1. requests \in 0..MaxRequests /\ requests < MaxRequests /\ MaxRequests \in Nat
    BY UploadsAssumption DEF UploadsAssumption, TypeOK, Begin
<1>2. requests + 1 \in 0..MaxRequests
    BY <1>1
<1> QED BY <1>2 DEF TypeOK, Begin

LEMMA PostStep ==
    ASSUME UploadInv, NEW t \in Tasks, NEW s \in Sessions, NEW v \in Ver, PostTranscript(t, s, v)
    PROVE  Good
<1>1. /\ Begin(t)
      /\ StoreTranscript(t, s, v, FALSE, raw[s] = v, rawStatus[s] = "done")
      /\ UNCHANGED <<transfer, parent, child, childSha, analysed>>
    BY DEF PostTranscript
<1>2. /\ raw' \in [Sessions -> 0..MaxVer]
      /\ rawStatus' \in [Sessions -> {"", "pending", "running", "done", "failed", "skipped"}]
      /\ RawDone'
    BY <1>1, StoreEffect
<1>3. Become(t, Idle) \/ Become(t, Analysis(s, v, FALSE))
    BY <1>1 DEF StoreTranscript
<1>4. /\ task' \in [Tasks -> Coroutine]
      /\ \A u \in Tasks : u # t => task'[u] = task[u]
      /\ Shape(task[t])'
    BY <1>3, AnalysisEffect
<1>5. TypeOK /\ requests' \in 0..MaxRequests /\ restarts' \in 0..MaxRestarts /\ task[t].pc = "idle"
    BY <1>1, BeginTyped DEF UploadInv
<1>6. TypeOK'
    BY <1>1, <1>2, <1>4, <1>5 DEF TypeOK
<1>7. \A u \in Tasks : Shape(task[u])'
    BY <1>1, <1>4, ShapesKept
<1>8. DoneWasAnalysed' /\ RowsHaveSha'
    BY <1>1 DEF UploadInv, DoneWasAnalysed, RowsHaveSha
<1>9. ASSUME NEW k \in Sessions PROVE Worked(k)'
    BY <1>1, <1>4, <1>5, FreeCoversNothing, Carry DEF UploadInv
<1>10. DoneStep
    BY <1>1 DEF DoneStep
<1> QED BY <1>2, <1>6, <1>7, <1>8, <1>9, <1>10 DEF Good, UploadInv

LEMMA PostResumesStep ==
    ASSUME UploadInv, NEW t \in Tasks, PostResumes(t)
    PROVE  Good
<1>1. PICK s \in Sessions, v \in Ver :
          /\ <<s, v>> \in task[t].rest
          /\ StoreTranscript(t, s, v, TRUE, task[t].known, task[t].knownDone)
  <2>1. PICK i \in task[t].rest :
            StoreTranscript(t, i[1], i[2], TRUE, task[t].known, task[t].knownDone)
      BY DEF PostResumes
  <2>2. i[1] \in Sessions /\ i[2] \in Ver /\ i = <<i[1], i[2]>>
      BY TaskFields DEF UploadInv
  <2> QED BY <2>1, <2>2
<1>2. /\ task[t].pc = "registered"
      /\ UNCHANGED <<transfer, parent, child, childSha, analysed, requests, restarts>>
    BY DEF PostResumes
<1>3. /\ raw' \in [Sessions -> 0..MaxVer]
      /\ rawStatus' \in [Sessions -> {"", "pending", "running", "done", "failed", "skipped"}]
      /\ RawDone'
    BY <1>1, <1>2, StoreEffect
<1>4. /\ Become(t, Idle) \/ Become(t, Analysis(s, v, TRUE))
      /\ ~NothingToDo(task[t].known, task[t].knownDone) => Become(t, Analysis(s, v, TRUE))
    BY <1>1 DEF StoreTranscript, NothingToDo
<1>5. /\ task' \in [Tasks -> Coroutine]
      /\ \A u \in Tasks : u # t => task'[u] = task[u]
      /\ Shape(task[t])'
      /\ Become(t, Analysis(s, v, TRUE)) =>
            task'[t].rest = {<<s, v>>} /\ task'[t].tracked /\ task'[t].pc = "next"
    BY <1>4, AnalysisEffect
<1>6. TypeOK /\ TypeOK'
    BY <1>2, <1>3, <1>5 DEF UploadInv, TypeOK
<1>7. \A u \in Tasks : Shape(task[u])'
    BY <1>2, <1>5, ShapesKept
<1>8. DoneWasAnalysed' /\ RowsHaveSha'
    BY <1>2 DEF UploadInv, DoneWasAnalysed, RowsHaveSha
<1>9. ASSUME NEW k \in Sessions PROVE Worked(k)'
  <2>1. Covers(t, k) => Covers(t, k)'
    <3> SUFFICES ASSUME Covers(t, k) PROVE Covers(t, k)'
        OBVIOUS
    <3>1. ~NothingToDo(task[t].known, task[t].knownDone)
        BY <1>2 DEF Covers, Works
    <3>2. task[t].item = {} /\ \A j \in task[t].rest : j = <<s, v>>
        BY <1>1, <1>2 DEF UploadInv, Shape
    <3>3. <<k, childSha[k]>> = <<s, v>>
        BY <3>2 DEF Covers, Works
    <3> QED BY <1>2, <1>4, <1>5, <3>1, <3>3 DEF Covers, Works
  <2> QED BY <1>2, <1>5, <2>1, Carry DEF UploadInv
<1>10. DoneStep
    BY <1>2 DEF DoneStep
<1> QED BY <1>3, <1>6, <1>7, <1>8, <1>9, <1>10 DEF Good, UploadInv

\* A transcript that is registered for the request.
RegisteredCoroutine(s, v, known, knownDone) ==
    [Analysis(s, v, TRUE) EXCEPT !.pc = "registered", !.known = known, !.knownDone = knownDone]

LEMMA RegisteredEffect ==
    ASSUME UploadInv, NEW t \in Tasks, NEW s \in Sessions, NEW v \in Ver,
           NEW known \in BOOLEAN, NEW knownDone \in BOOLEAN,
           Become(t, RegisteredCoroutine(s, v, known, knownDone))
    PROVE  /\ task' \in [Tasks -> Coroutine]
           /\ \A u \in Tasks : u # t => task'[u] = task[u]
           /\ Shape(task[t])'
           /\ task'[t].rest = {<<s, v>>} /\ task'[t].tracked
           /\ task'[t].known = known /\ task'[t].knownDone = knownDone
<1> DEFINE a == Analysis(s, v, TRUE)
           c == RegisteredCoroutine(s, v, known, knownDone)
<1>1. TypeOK
    BY DEF UploadInv
<1>2. a \in Coroutine /\ a.rest = {<<s, v>>} /\ a.item = {} /\ a.tracked = TRUE
    BY AnalysisFields
<1>3. c = [a EXCEPT !.pc = "registered", !.known = known, !.knownDone = knownDone]
    BY DEF RegisteredCoroutine
<1> HIDE DEF a, c
<1>4. /\ c \in Coroutine /\ c.pc = "registered" /\ c.rest = {<<s, v>>} /\ c.item = {}
      /\ c.tracked = TRUE /\ c.known = known /\ c.knownDone = knownDone
    BY <1>2, <1>3 DEF Coroutine
<1>5. task' \in [Tasks -> Coroutine] /\ task'[t] = c /\ \A u \in Tasks : u # t => task'[u] = task[u]
    BY <1>1, <1>4, BecomeEffect DEF c
<1> QED BY <1>4, <1>5 DEF Shape

LEMMA PostForRequestStep ==
    ASSUME UploadInv, NEW t \in Tasks, NEW s \in Sessions, NEW v \in Ver, PostForRequest(t, s, v)
    PROVE  Good
<1> DEFINE known     == raw[s] = v
           knownDone == raw[s] = v /\ rawStatus[s] = "done"
           status    == IF ~LlmEnabled THEN "not_requested"
                        ELSE IF knownDone THEN "done" ELSE "pending"
           ch        == Registered(s, v, status)
           store     == StoreTranscript(t, s, v, TRUE, known, knownDone)
           register  == Become(t, RegisteredCoroutine(s, v, known, knownDone))
                            /\ UNCHANGED <<raw, rawStatus>>
           refuse    == Raises(parent, Desired(ch, parent)) /\ UNCHANGED <<raw, rawStatus, task>>
<1>1. /\ Begin(t) /\ child' = ch /\ childSha' = [childSha EXCEPT ![s] = v]
      /\ parent' = Refresh(ch, parent) /\ UNCHANGED <<transfer, analysed>>
      /\ store \/ register \/ refuse
    BY DEF PostForRequest, RegisteredCoroutine
<1>2. TypeOK /\ RawDone /\ DoneWasAnalysed
    BY DEF UploadInv
<1>3. requests' \in 0..MaxRequests /\ restarts' \in 0..MaxRestarts /\ task[t].pc = "idle"
    BY <1>1, <1>2, BeginTyped
<1>4. /\ child' \in [Sessions -> Child]
      /\ \A k \in Sessions : k # s => child'[k] = child[k] /\ childSha'[k] = childSha[k]
      /\ childSha'[s] = v
      /\ childSha[s] = v => child'[s] = child[s]
      /\ childSha[s] # v => child'[s] = status
  <2>1. child \in [Sessions -> Child] /\ childSha \in [Sessions -> 0..MaxVer]
      BY <1>2 DEF TypeOK, Child
  <2>2. status \in Child
      BY Domains DEF Child
  <2> HIDE DEF status
  <2>3. /\ childSha[s] = v => child' = child
        /\ childSha[s] # v => child' = [child EXCEPT ![s] = status]
      BY <1>1 DEF Registered
  <2> QED BY <1>1, <2>1, <2>2, <2>3
<1>5. /\ parent \in Parent /\ parent' \in Parent
      /\ parent = "done" => parent' = "done"
      /\ parent # "done" /\ parent' = "done" =>
            /\ transfer = "stored"
            /\ \A k \in Sessions : child'[k] \notin {"pending", "running", "failed"}
  <2>1. parent \in Parent
      BY <1>2 DEF TypeOK, Parent
  <2> HIDE DEF ch
  <2> QED BY <1>1, <2>1, RefreshEffect
<1>6. DoneStep
    BY <1>1, <1>4, <1>5, Domains DEF DoneStep, Child
<1>7. DoneWasAnalysed'
  <2> SUFFICES ASSUME NEW k \in Sessions, child'[k] = "done"
               PROVE  <<k, childSha'[k]>> \in analysed
      BY <1>1 DEF DoneWasAnalysed
  <2>1. CASE k # s \/ childSha[s] = v
      BY <1>2, <1>4, <2>1 DEF DoneWasAnalysed
  <2>2. CASE k = s /\ childSha[s] # v
    <3>1. knownDone
        BY <1>4, <2>2
    <3> QED BY <1>2, <1>4, <2>2, <3>1 DEF RawDone
  <2> QED BY <2>1, <2>2
<1>8. refuse => parent' = "done"
    BY <1>1, <1>5, RaisesWhenDone
<1>9. known \in BOOLEAN /\ knownDone \in BOOLEAN
    OBVIOUS
<1>10. child'[s] \in Active /\ childSha[s] # v => ~NothingToDo(known, knownDone)
    BY <1>4 DEF Active, NothingToDo
<1>11. v \in 0..MaxVer
    BY UploadsAssumption DEF UploadsAssumption, Ver
<1>12. childSha' \in [Sessions -> 0..MaxVer]
    BY <1>1, <1>2, <1>11 DEF TypeOK
<1>13. ASSUME store
       PROVE  /\ raw' \in [Sessions -> 0..MaxVer]
              /\ rawStatus' \in [Sessions -> {"", "pending", "running", "done", "failed", "skipped"}]
              /\ RawDone'
    BY <1>1, <1>13, StoreEffect
<1>14. ASSUME store
       PROVE  /\ Become(t, Idle) \/ Become(t, Analysis(s, v, TRUE))
              /\ ~NothingToDo(known, knownDone) => Become(t, Analysis(s, v, TRUE))
    BY <1>14 DEF StoreTranscript, NothingToDo
<1>15. /\ raw' \in [Sessions -> 0..MaxVer]
       /\ rawStatus' \in [Sessions -> {"", "pending", "running", "done", "failed", "skipped"}]
       /\ RawDone'
  <2>1. ASSUME UNCHANGED <<raw, rawStatus>>
        PROVE  /\ raw' \in [Sessions -> 0..MaxVer]
               /\ rawStatus' \in [Sessions -> {"", "pending", "running", "done", "failed", "skipped"}]
               /\ RawDone'
      BY <1>1, <1>2, <2>1 DEF TypeOK, RawDone
  <2> QED BY <1>1, <1>13, <2>1
<1> HIDE DEF known, knownDone, status, ch, store
<1>16. /\ task' \in [Tasks -> Coroutine]
       /\ \A u \in Tasks : u # t => task'[u] = task[u]
       /\ Shape(task[t])'
       /\ child'[s] \in Active /\ childSha[s] # v /\ parent' # "done" => Covers(t, s)'
  <2>1. CASE store
    <3>1. /\ task' \in [Tasks -> Coroutine]
          /\ \A u \in Tasks : u # t => task'[u] = task[u]
          /\ Shape(task[t])'
          /\ Become(t, Analysis(s, v, TRUE)) =>
                task'[t].rest = {<<s, v>>} /\ task'[t].tracked /\ task'[t].pc = "next"
        BY <1>14, <2>1, AnalysisEffect
    <3>2. child'[s] \in Active /\ childSha[s] # v => Become(t, Analysis(s, v, TRUE))
        BY <1>10, <1>14, <2>1
    <3> QED BY <1>4, <3>1, <3>2 DEF Covers, Works
  <2>2. CASE register
    <3>1. /\ task' \in [Tasks -> Coroutine]
          /\ \A u \in Tasks : u # t => task'[u] = task[u]
          /\ Shape(task[t])'
          /\ task'[t].rest = {<<s, v>>} /\ task'[t].tracked
          /\ task'[t].known = known /\ task'[t].knownDone = knownDone
        BY <1>9, <2>2, RegisteredEffect
    <3> QED BY <1>4, <1>10, <3>1 DEF Covers, Works
  <2>3. CASE refuse
    <3>1. task' = task /\ analysed' = analysed /\ parent' = "done"
        BY <1>1, <1>8, <2>3
    <3>2. Shape(task[t])
        BY DEF UploadInv
    <3>3. Shape(task[t])'
        BY <3>1, <3>2 DEF Shape
    <3>4. task \in [Tasks -> Coroutine]
        BY <1>2 DEF TypeOK
    <3> QED BY <3>1, <3>3, <3>4
  <2> QED BY <1>1, <2>1, <2>2, <2>3
<1>17. TypeOK'
    BY <1>1, <1>2, <1>3, <1>4, <1>5, <1>12, <1>15, <1>16 DEF TypeOK, Child, Parent
<1>18. \A u \in Tasks : Shape(task[u])'
    BY <1>1, <1>16, ShapesKept
<1>19. ASSUME NEW k \in Sessions PROVE Worked(k)'
  <2>1. CASE k # s \/ childSha[s] = v
    <3>1. child'[k] = child[k] /\ childSha'[k] = childSha[k]
        BY <1>4, <2>1
    <3> QED BY <1>3, <1>5, <1>16, <3>1, FreeCoversNothing, Carry DEF UploadInv
  <2>2. CASE k = s /\ childSha[s] # v
      BY <1>16, <2>2 DEF Worked, Active
  <2> QED BY <2>1, <2>2
<1>20. RowsHaveSha'
    BY <1>4 DEF UploadInv, RowsHaveSha
<1> QED BY <1>6, <1>7, <1>15, <1>17, <1>18, <1>19, <1>20 DEF Good, UploadInv

LEMMA ReportTransferStep ==
    ASSUME UploadInv, NEW t \in Tasks, NEW status \in DOMAIN TRANSFER, ReportTransfer(t, status)
    PROVE  Good
<1> DEFINE c == [Idle EXCEPT !.pc = "reported", !.kind = "status"]
<1>1. /\ Begin(t) /\ transfer' = status /\ Become(t, c)
      /\ UNCHANGED <<parent, child, childSha, raw, rawStatus, analysed>>
    BY DEF ReportTransfer
<1>2. TypeOK /\ requests' \in 0..MaxRequests /\ restarts' \in 0..MaxRestarts /\ task[t].pc = "idle"
    BY <1>1, BeginTyped DEF UploadInv
<1>3. c \in Coroutine /\ c.rest = {} /\ c.item = {} /\ c.pc = "reported"
    BY DEF Idle, Coroutine
<1> HIDE DEF c
<1>4. task' \in [Tasks -> Coroutine] /\ task'[t] = c /\ \A u \in Tasks : u # t => task'[u] = task[u]
    BY <1>1, <1>2, <1>3, BecomeEffect
<1>5. TypeOK'
    BY <1>1, <1>2, <1>4 DEF TypeOK
<1>6. Shape(task[t])'
    BY <1>3, <1>4 DEF Shape
<1>7. \A u \in Tasks : Shape(task[u])'
    BY <1>1, <1>4, <1>6, ShapesKept
<1>8. DoneWasAnalysed' /\ RowsHaveSha' /\ RawDone'
    BY <1>1 DEF UploadInv, DoneWasAnalysed, RowsHaveSha, RawDone
<1>9. ASSUME NEW k \in Sessions PROVE Worked(k)'
    BY <1>1, <1>2, <1>4, FreeCoversNothing, Carry DEF UploadInv
<1>10. DoneStep
    BY <1>1 DEF DoneStep
<1> QED BY <1>5, <1>7, <1>8, <1>9, <1>10 DEF Good, UploadInv

LEMMA ReportResumesStep ==
    ASSUME UploadInv, NEW t \in Tasks, ReportResumes(t)
    PROVE  Good
<1>1. /\ task[t].pc = "reported" /\ parent' = Refresh(child, parent) /\ Become(t, Idle)
      /\ UNCHANGED <<transfer, child, childSha, raw, rawStatus, analysed, requests, restarts>>
    BY DEF ReportResumes
<1>2. TypeOK /\ parent \in Parent
    BY DEF UploadInv, TypeOK, Parent
<1>3. /\ parent' \in Parent
      /\ parent = "done" => parent' = "done"
      /\ parent # "done" /\ parent' = "done" =>
            /\ transfer = "stored"
            /\ \A k \in Sessions : child[k] \notin {"pending", "running", "failed"}
    BY <1>1, <1>2, RefreshEffect
<1>4. task' \in [Tasks -> Coroutine] /\ task'[t] = Idle /\ \A u \in Tasks : u # t => task'[u] = task[u]
    BY <1>1, <1>2, IdleFields, BecomeEffect
<1>5. TypeOK'
    BY <1>1, <1>2, <1>3, <1>4 DEF TypeOK, Parent
<1>6. Shape(task[t])'
    BY <1>4, IdleFields DEF Shape
<1>7. \A u \in Tasks : Shape(task[u])'
    BY <1>1, <1>4, <1>6, ShapesKept
<1>8. DoneWasAnalysed' /\ RowsHaveSha' /\ RawDone'
    BY <1>1 DEF UploadInv, DoneWasAnalysed, RowsHaveSha, RawDone
<1>9. ASSUME NEW k \in Sessions PROVE Worked(k)'
    BY <1>1, <1>3, <1>4, FreeCoversNothing, Carry DEF UploadInv
<1>10. DoneStep
    BY <1>1, <1>2, <1>3, Domains DEF DoneStep, TypeOK
<1> QED BY <1>5, <1>7, <1>8, <1>9, <1>10 DEF Good, UploadInv

LEMMA RetryStep ==
    ASSUME UploadInv, NEW t \in Tasks, RetryAnalysis(t)
    PROVE  Good
<1> DEFINE failed == {s \in Sessions : child[s] = "failed"}
           rest   == {<<s, childSha[s]>> : s \in failed}
           c == [Idle EXCEPT !.pc = "next", !.kind = "retry", !.tracked = TRUE, !.rest = rest]
<1>1. /\ Begin(t) /\ parent' = "pending" /\ parent = "failed"
      /\ child' = [s \in Sessions |-> IF s \in failed THEN "pending" ELSE child[s]]
      /\ Become(t, c)
      /\ UNCHANGED <<transfer, childSha, raw, rawStatus, analysed>>
    BY DEF RetryAnalysis
<1>2. TypeOK /\ requests' \in 0..MaxRequests /\ restarts' \in 0..MaxRestarts /\ task[t].pc = "idle"
    BY <1>1, BeginTyped DEF UploadInv
<1>3. rest \in SUBSET Items
    BY DEF UploadInv, RowsHaveSha, Items
<1>4. child \in [Sessions -> Child] /\ child' \in [Sessions -> Child]
    BY <1>1, <1>2, Domains DEF TypeOK, Child
<1>5. \A k \in Sessions : IF child[k] = "failed"
                          THEN child'[k] = "pending" /\ <<k, childSha[k]>> \in rest
                          ELSE child'[k] = child[k]
    BY <1>1
<1> HIDE DEF rest
<1>6. /\ c \in Coroutine /\ c.rest = rest /\ c.item = {} /\ c.pc = "next" /\ c.tracked
    BY <1>3 DEF Idle, Coroutine
<1> HIDE DEF c, failed
<1>7. task' \in [Tasks -> Coroutine] /\ task'[t] = c /\ \A u \in Tasks : u # t => task'[u] = task[u]
    BY <1>1, <1>2, <1>6, BecomeEffect
<1>8. TypeOK'
    BY <1>1, <1>2, <1>4, <1>7, Domains DEF TypeOK, Child
<1>9. Shape(task[t])'
    BY <1>6, <1>7 DEF Shape
<1>10. \A u \in Tasks : Shape(task[u])'
    BY <1>1, <1>7, <1>9, ShapesKept
<1>11. RowsHaveSha'
    BY <1>1, <1>5 DEF UploadInv, RowsHaveSha
<1>12. DoneWasAnalysed' /\ RawDone'
    BY <1>1, <1>5 DEF UploadInv, DoneWasAnalysed, RawDone
<1>13. ASSUME NEW k \in Sessions PROVE Worked(k)'
  <2>1. CASE child[k] = "failed"
    <3>1. Covers(t, k)'
        BY <1>1, <1>5, <1>6, <1>7, <2>1 DEF Covers, Works
    <3> QED BY <3>1 DEF Worked
  <2>2. CASE child[k] # "failed"
      BY <1>1, <1>2, <1>5, <1>7, <2>2, FreeCoversNothing, Carry DEF UploadInv
  <2> QED BY <2>1, <2>2
<1>14. DoneStep
    BY <1>1 DEF DoneStep
<1> QED BY <1>8, <1>10, <1>11, <1>12, <1>13, <1>14 DEF Good, UploadInv

\* Steps of a background task change rawStatus, the children and the parent at
\* most, and add to the analyses; what remains to show of them.
LEMMA BackgroundStep ==
    ASSUME UploadInv, NEW t \in Tasks,
           UNCHANGED <<transfer, childSha, raw, requests, restarts>>,
           analysed \subseteq analysed', analysed' \subseteq Items,
           rawStatus' \in [Sessions -> {"", "pending", "running", "done", "failed", "skipped"}],
           RawDone',
           task' \in [Tasks -> Coroutine], \A u \in Tasks : u # t => task'[u] = task[u],
           Shape(task[t])',
           child' \in [Sessions -> Child],
           \A k \in Sessions : child'[k] = child[k] \/ childSha[k] \in Ver,
           \A k \in Sessions : child'[k] = "done" =>
               child[k] = "done" \/ <<k, childSha[k]>> \in analysed',
           parent' \in Parent, parent = "done" => parent' = "done",
           parent # "done" /\ parent' = "done" =>
               /\ transfer = "stored"
               /\ \A k \in Sessions : child'[k] \notin {"pending", "running", "failed"},
           \A k \in Sessions : child'[k] \in Active =>
               \/ child'[k] = child[k] /\ (Covers(t, k) => Covers(t, k)')
               \/ Covers(t, k)'
               \/ parent' = "done"
    PROVE  Good
<1>1. TypeOK'
    BY DEF UploadInv, TypeOK, Child, Parent
<1>2. \A u \in Tasks : Shape(task[u])'
    BY ShapesKept
<1>3. DoneWasAnalysed' /\ RowsHaveSha'
    BY DEF UploadInv, DoneWasAnalysed, RowsHaveSha
<1>4. ASSUME NEW k \in Sessions PROVE Worked(k)'
  <2>1. CASE child'[k] = child[k] /\ (Covers(t, k) => Covers(t, k)')
      BY <2>1, Carry DEF UploadInv
  <2>2. CASE Covers(t, k)' \/ parent' = "done" \/ child'[k] \notin Active
      BY <2>2 DEF Worked, Active
  <2> QED BY <2>1, <2>2
<1>5. DoneStep
    BY Domains DEF DoneStep, Child
<1> QED BY <1>1, <1>2, <1>3, <1>4, <1>5 DEF Good, UploadInv

\* The one transcript under way.
LEMMA ItemOf ==
    ASSUME UploadInv, NEW t \in Tasks, NEW i \in task[t].rest \cup task[t].item
    PROVE  \E s \in Sessions, v \in Ver :
              /\ i = <<s, v>> /\ i[1] = s /\ i[2] = v
              /\ i \in task[t].item => task[t].item = {<<s, v>>}
<1>1. i[1] \in Sessions /\ i[2] \in Ver /\ i = <<i[1], i[2]>>
    BY TaskFields DEF UploadInv
<1>2. i \in task[t].item => task[t].item = {i}
    BY DEF UploadInv, Shape
<1> QED BY <1>1, <1>2

\* What the invariant says of the tables a task reports on.
LEMMA Unreported ==
    ASSUME UploadInv
    PROVE  /\ child \in [Sessions -> Child] /\ parent \in Parent
           /\ \A k \in Sessions : child[k] = "done" => <<k, childSha[k]>> \in analysed
           /\ analysed \subseteq Items
BY DEF UploadInv, TypeOK, Child, Parent, DoneWasAnalysed

\* The task goes on with the transcript it has under way.
LEMMA PcStep ==
    ASSUME UploadInv, NEW t \in Tasks, NEW pc \in {"llm", "committed"},
           task' = [task EXCEPT ![t].pc = pc], task[t].pc \in {"marked", "llm"}
    PROVE  /\ task' \in [Tasks -> Coroutine]
           /\ \A u \in Tasks : u # t => task'[u] = task[u]
           /\ task'[t].pc = pc /\ task'[t].rest = task[t].rest /\ task'[t].item = task[t].item
           /\ UNCHANGED <<child, childSha>> => \A k \in Sessions : Covers(t, k) => Covers(t, k)'
<1> DEFINE c == [task[t] EXCEPT !.pc = pc]
<1>1. task \in [Tasks -> Coroutine] /\ task[t] \in Coroutine
    BY TaskFields DEF UploadInv, TypeOK
<1>2. /\ c \in Coroutine /\ c.pc = pc /\ c.rest = task[t].rest /\ c.item = task[t].item
      /\ c.tracked = task[t].tracked
    BY <1>1 DEF Coroutine
<1>3. task' = [task EXCEPT ![t] = c]
    OBVIOUS
<1> HIDE DEF c
<1>4. task' \in [Tasks -> Coroutine] /\ task'[t] = c /\ \A u \in Tasks : u # t => task'[u] = task[u]
    BY <1>1, <1>2, <1>3
<1> QED BY <1>2, <1>4 DEF Covers, Works

LEMMA CallLlmStep ==
    ASSUME UploadInv, NEW t \in Tasks, CallLlm(t)
    PROVE  Good
<1>1. PICK s \in Sessions, v \in Ver : SetRawStatus(s, v, "running")
    BY ItemOf DEF CallLlm
<1>2. /\ task[t].pc = "marked" /\ task' = [task EXCEPT ![t].pc = "llm"]
      /\ UNCHANGED <<transfer, parent, child, childSha, raw, analysed, requests, restarts>>
    BY DEF CallLlm
<1>3. /\ rawStatus' \in [Sessions -> {"", "pending", "running", "done", "failed", "skipped"}]
      /\ \A k \in Sessions : rawStatus'[k] = "done" => rawStatus[k] = "done"
    BY <1>1, RawStatusEffect DEF UploadInv
<1>4. RawDone'
    BY <1>2, <1>3 DEF UploadInv, RawDone
<1>5. /\ task' \in [Tasks -> Coroutine]
      /\ \A u \in Tasks : u # t => task'[u] = task[u]
      /\ task'[t].pc = "llm" /\ task'[t].rest = task[t].rest /\ task'[t].item = task[t].item
      /\ \A k \in Sessions : Covers(t, k) => Covers(t, k)'
    BY <1>2, PcStep
<1>6. Shape(task[t])'
    BY <1>2, <1>5 DEF UploadInv, Shape
<1> QED BY <1>2, <1>3, <1>4, <1>5, <1>6, Unreported, BackgroundStep

LEMMA CommitStep ==
    ASSUME UploadInv, NEW t \in Tasks, Commit(t)
    PROVE  Good
<1>1. PICK s \in Sessions, v \in Ver :
          /\ task[t].item = {<<s, v>>} /\ <<s, v>> \in Items
          /\ raw[s] = v /\ analysed' = analysed \cup {<<s, v>>} /\ SetRawStatus(s, v, "done")
    BY ItemOf DEF Commit, Items
<1>2. /\ task[t].pc = "llm" /\ task' = [task EXCEPT ![t].pc = "committed"]
      /\ UNCHANGED <<transfer, parent, child, childSha, raw, requests, restarts>>
    BY DEF Commit
<1>3. rawStatus' = [rawStatus EXCEPT ![s] = "done"]
    BY <1>1 DEF SetRawStatus
<1>4. /\ rawStatus' \in [Sessions -> {"", "pending", "running", "done", "failed", "skipped"}]
      /\ \A k \in Sessions : k # s => rawStatus'[k] = rawStatus[k]
    BY <1>3 DEF UploadInv, TypeOK
<1>5. RawDone'
    BY <1>1, <1>2, <1>4 DEF UploadInv, RawDone
<1>6. /\ task' \in [Tasks -> Coroutine]
      /\ \A u \in Tasks : u # t => task'[u] = task[u]
      /\ task'[t].pc = "committed" /\ task'[t].rest = task[t].rest /\ task'[t].item = task[t].item
      /\ \A k \in Sessions : Covers(t, k) => Covers(t, k)'
    BY <1>2, PcStep
<1>7. Shape(task[t])'
    BY <1>1, <1>6 DEF Shape
<1>8. analysed \subseteq analysed' /\ analysed' \subseteq Items
    BY <1>1, Unreported
<1> QED BY <1>2, <1>4, <1>5, <1>6, <1>7, <1>8, Unreported, BackgroundStep

\* A report on session s leaves the rows of the others, and the task goes on
\* with all it had but <<s, v>>.
LEMMA EndKeeps ==
    ASSUME UploadInv, NEW t \in Tasks, NEW s \in Sessions, NEW v,
           NEW rest \in SUBSET Items, EndItem(t, rest),
           task[t].rest \cup task[t].item \subseteq rest \cup {<<s, v>>},
           task[t].pc # "registered", childSha' = childSha,
           NEW k \in Sessions, child'[k] = child[k],
           <<k, childSha[k]>> \in rest \/ <<k, childSha[k]>> # <<s, v>>,
           Covers(t, k)
    PROVE  Covers(t, k)'
<1>1. <<k, childSha[k]>> \in rest /\ task[t].tracked
    BY DEF Covers, Works
<1>2. task'[t].rest = rest /\ task'[t].pc # "registered" /\ task'[t].tracked
    BY <1>1, EndItemEffect
<1> QED BY <1>1, <1>2 DEF Covers, Works

\* What Fail does to the tables.
FailFacts(t, s, v, ch, p) ==
    /\ rawStatus' \in [Sessions -> {"", "pending", "running", "done", "failed", "skipped"}]
    /\ RawDone'
    /\ child' \in [Sessions -> Child] /\ parent' \in Parent
    /\ ~task[t].tracked => child' = child /\ parent' = parent
    /\ \A k \in Sessions : k # s => child'[k] = ch[k]
    /\ childSha[s] # v => child' = ch
    /\ task[t].tracked /\ childSha[s] = v /\ ch[s] \in Active => child'[s] = "failed"
    /\ child'[s] = "failed" \/ child'[s] = ch[s]
    /\ p = "done" => parent' = "done"
    /\ task[t].tracked /\ p # "done" /\ parent' = "done" =>
          /\ transfer = "stored"
          /\ \A k \in Sessions : child'[k] \notin {"pending", "running", "failed"}

\* The child of a task that reports on the request may have been marked before.
LEMMA FailEffect ==
    ASSUME UploadInv, NEW t \in Tasks, NEW s \in Sessions, NEW v,
           NEW ch \in [Sessions -> Child], NEW p \in Parent, Fail(t, s, v, ch, p),
           ~task[t].tracked => ch = child /\ p = parent,
           UNCHANGED <<raw, analysed>>
    PROVE  FailFacts(t, s, v, ch, p)
<1> DEFINE m == Mark(ch, p, s, v, "failed")
<1>1. SetRawStatus(s, v, "failed")
    BY DEF Fail
<1>2. /\ rawStatus' \in [Sessions -> {"", "pending", "running", "done", "failed", "skipped"}]
      /\ \A k \in Sessions : rawStatus'[k] = "done" => rawStatus[k] = "done"
    BY <1>1, RawStatusEffect DEF UploadInv
<1>3. RawDone'
    BY <1>2 DEF UploadInv, RawDone
<1>4. CASE ~task[t].tracked
    BY <1>2, <1>3, <1>4 DEF Fail, FailFacts
<1>5. CASE task[t].tracked
  <2>1. child' = m.child /\ parent' = m.parent
      BY <1>5 DEF Fail, SetChildAndParent
  <2>2. /\ m.child \in [Sessions -> Child] /\ m.parent \in Parent
        /\ \A k \in Sessions : k # s => m.child[k] = ch[k]
        /\ childSha[s] # v => m.child = ch
        /\ childSha[s] = v /\ Allowed(ANALYSIS, ch[s], "failed") => m.child[s] = "failed"
        /\ ~Allowed(ANALYSIS, ch[s], "failed") => m.child = ch
        /\ p = "done" => m.parent = "done"
        /\ p # "done" /\ m.parent = "done" =>
              /\ transfer = "stored"
              /\ \A k \in Sessions : m.child[k] \notin {"pending", "running", "failed"}
      BY MarkEffect
  <2>3. ch[s] \in Active => Allowed(ANALYSIS, ch[s], "failed")
      BY Edges
  <2> HIDE DEF m
  <2> QED BY <1>2, <1>3, <1>5, <2>1, <2>2, <2>3 DEF FailFacts
<1> QED BY <1>4, <1>5

LEMMA NoAnalysisStep ==
    ASSUME UploadInv, NEW t \in Tasks, NoAnalysis(t)
    PROVE  Good
<1>1. PICK s \in Sessions, v \in Ver :
          task[t].item = {<<s, v>>} /\ Fail(t, s, v, child, parent)
    BY ItemOf DEF NoAnalysis
<1>2. /\ task[t].pc = "llm" /\ EndItem(t, task[t].rest)
      /\ UNCHANGED <<transfer, childSha, raw, analysed, requests, restarts>>
    BY DEF NoAnalysis
<1>3. task[t].rest \in SUBSET Items
    BY TaskFields DEF UploadInv
<1>4. /\ task' \in [Tasks -> Coroutine]
      /\ \A u \in Tasks : u # t => task'[u] = task[u]
      /\ Shape(task[t])'
    BY <1>2, <1>3, EndItemEffect
<1>5. FailFacts(t, s, v, child, parent)
    BY <1>1, <1>2, Unreported, FailEffect
<1>6. ASSUME NEW k \in Sessions, child'[k] \in Active
      PROVE  child'[k] = child[k] /\ (Covers(t, k) => Covers(t, k)')
  <2>1. child'[k] = child[k]
      BY <1>5, <1>6 DEF Active, FailFacts
  <2>2. Covers(t, k) => task[t].tracked
      BY DEF Covers, Works
  <2>3. Covers(t, k) => k # s \/ childSha[s] # v
      BY <1>5, <1>6, <2>1, <2>2 DEF Active, FailFacts
  <2>4. ASSUME Covers(t, k) PROVE Covers(t, k)'
    <3>1. task[t].rest \cup task[t].item \subseteq task[t].rest \cup {<<s, v>>}
        BY <1>1
    <3>2. <<k, childSha[k]>> \in task[t].rest \/ <<k, childSha[k]>> # <<s, v>>
        BY <2>3, <2>4
    <3>3. task[t].pc # "registered" /\ EndItem(t, task[t].rest) /\ childSha' = childSha
        BY <1>2
    <3> QED BY <1>3, <2>1, <2>4, <3>1, <3>2, <3>3, EndKeeps
  <2> QED BY <2>1, <2>4
<1>7. \A k \in Sessions : child'[k] = child[k] \/ childSha[k] \in Ver
    BY <1>5 DEF FailFacts
<1>8. \A k \in Sessions : child'[k] = "done" => child[k] = "done"
    BY <1>5 DEF FailFacts
<1>9. /\ parent = "done" => parent' = "done"
      /\ parent # "done" /\ parent' = "done" =>
            /\ transfer = "stored"
            /\ \A k \in Sessions : child'[k] \notin {"pending", "running", "failed"}
    BY <1>5 DEF FailFacts
<1>10. /\ rawStatus' \in [Sessions -> {"", "pending", "running", "done", "failed", "skipped"}]
       /\ RawDone' /\ child' \in [Sessions -> Child] /\ parent' \in Parent
    BY <1>5 DEF FailFacts
<1> QED BY <1>2, <1>4, <1>6, <1>7, <1>8, <1>9, <1>10, Unreported, BackgroundStep

\* What a task reports of its transcript <<s, v>>.
MarkFacts(t, s, v, status, m) ==
    /\ m.child \in [Sessions -> Child] /\ m.parent \in Parent
    /\ \A k \in Sessions : k # s => m.child[k] = child[k]
    /\ childSha[s] # v => m.child = child
    /\ ~task[t].tracked => m.child = child /\ m.parent = parent
    /\ task[t].tracked /\ childSha[s] = v /\ Allowed(ANALYSIS, child[s], status) => m.child[s] = status
    /\ task[t].tracked /\ childSha[s] = v /\ m.ok => m.child[s] = status
    /\ m.child[s] = status \/ m.child[s] = child[s]
    /\ ~m.ok => /\ task[t].tracked /\ m.parent = parent
                /\ parent = "done" \/ (m.child = child /\ ~Allowed(ANALYSIS, child[s], status))
    /\ parent = "done" => m.parent = "done"
    /\ parent # "done" /\ m.parent = "done" =>
          /\ transfer = "stored"
          /\ \A k \in Sessions : m.child[k] \notin {"pending", "running", "failed"}

LEMMA MarkItemFacts ==
    ASSUME UploadInv, NEW t \in Tasks, NEW s \in Sessions, NEW v,
           NEW status \in {"running", "done", "failed"}
    PROVE  MarkFacts(t, s, v, status, MarkItem(t, <<s, v>>, status))
<1> DEFINE m == MarkItem(t, <<s, v>>, status)
           r == Mark(child, parent, s, v, status)
<1>1. child \in [Sessions -> Child] /\ parent \in Parent /\ TypeOK
    BY Unreported DEF UploadInv
<1>2. /\ ~task[t].tracked => m.child = child /\ m.parent = parent /\ m.ok
      /\ task[t].tracked => m = r
    BY <1>1, MarkItemEffect
<1>3. /\ r.child \in [Sessions -> Child] /\ r.parent \in Parent
      /\ \A k \in Sessions : k # s => r.child[k] = child[k]
      /\ childSha[s] # v => r.child = child /\ r.ok
      /\ childSha[s] = v /\ Allowed(ANALYSIS, child[s], status) => r.child[s] = status
      /\ ~Allowed(ANALYSIS, child[s], status) => r.child = child
      /\ r.ok /\ childSha[s] = v => r.child[s] = status
      /\ ~r.ok => /\ r.parent = parent
                  /\ parent = "done" \/ ~Allowed(ANALYSIS, child[s], status)
      /\ parent = "done" => r.parent = "done"
      /\ parent # "done" /\ r.parent = "done" =>
            /\ transfer = "stored"
            /\ \A k \in Sessions : r.child[k] \notin {"pending", "running", "failed"}
    BY <1>1, MarkEffect
<1> HIDE DEF m, r
<1>4. CASE ~task[t].tracked
  <2>1. m.child = child /\ m.parent = parent /\ m.ok
      BY <1>2, <1>4
  <2>2. MarkFacts(t, s, v, status, m)
      BY <1>1, <1>4, <2>1 DEF MarkFacts
  <2> QED BY <2>2 DEF m
<1>5. CASE task[t].tracked
  <2>1. m = r
      BY <1>2, <1>5
  <2>2. r.child[s] = status \/ r.child[s] = child[s]
      BY <1>3
  <2>3. ~r.ok => childSha[s] = v
      BY <1>3
  <2>4. MarkFacts(t, s, v, status, r)
      BY <1>3, <1>5, <2>2, <2>3 DEF MarkFacts
  <2> QED BY <2>1, <2>4 DEF m
<1> QED BY <1>4, <1>5 DEF m

LEMMA FinishItemStep ==
    ASSUME UploadInv, NEW t \in Tasks, FinishItem(t)
    PROVE  Good
<1>1. PICK i \in task[t].item :
          LET m == MarkItem(t, i, "done") IN
          \/ SetChildAndParent(m) /\ UNCHANGED rawStatus
          \/ ~m.ok /\ Fail(t, i[1], i[2], m.child, m.parent)
    BY DEF FinishItem
<1>2. PICK s \in Sessions, v \in Ver : i = <<s, v>> /\ task[t].item = {<<s, v>>}
    BY ItemOf
<1> DEFINE m == MarkItem(t, <<s, v>>, "done")
<1>3. \/ child' = m.child /\ parent' = m.parent /\ UNCHANGED rawStatus
      \/ ~m.ok /\ Fail(t, s, v, m.child, m.parent)
    BY <1>1, <1>2 DEF SetChildAndParent
<1>4. MarkFacts(t, s, v, "done", m)
    BY MarkItemFacts
<1>5. /\ task[t].pc = "committed" /\ EndItem(t, task[t].rest)
      /\ UNCHANGED <<transfer, childSha, raw, analysed, requests, restarts>>
    BY DEF FinishItem
<1>6. task[t].rest \in SUBSET Items /\ <<s, v>> \in analysed
    BY <1>2, <1>5, TaskFields DEF UploadInv, Shape
<1>7. /\ task' \in [Tasks -> Coroutine]
      /\ \A u \in Tasks : u # t => task'[u] = task[u]
      /\ Shape(task[t])'
    BY <1>5, <1>6, EndItemEffect
<1> HIDE DEF m
<1>8. ASSUME NEW k \in Sessions, child'[k] = child[k],
             <<k, childSha[k]>> \in task[t].rest \/ <<k, childSha[k]>> # <<s, v>>, Covers(t, k)
      PROVE  Covers(t, k)'
  <2>1. task[t].rest \cup task[t].item \subseteq task[t].rest \cup {<<s, v>>}
      BY <1>2
  <2>2. task[t].pc # "registered" /\ EndItem(t, task[t].rest) /\ childSha' = childSha
      BY <1>5
  <2> QED BY <1>6, <1>8, <2>1, <2>2, EndKeeps
<1>9. CASE child' = m.child /\ parent' = m.parent /\ UNCHANGED rawStatus
  <2>1. ASSUME NEW k \in Sessions, child'[k] \in Active
        PROVE  child'[k] = child[k] /\ (Covers(t, k) => Covers(t, k)')
    <3>1. child'[k] = child[k]
        BY <1>4, <1>9, <2>1 DEF MarkFacts, Active
    <3>2. ASSUME Covers(t, k) PROVE <<k, childSha[k]>> \in task[t].rest \/ <<k, childSha[k]>> # <<s, v>>
      <4> SUFFICES ASSUME k = s, childSha[s] = v PROVE <<s, v>> \in task[t].rest
          OBVIOUS
      <4>1. task[t].tracked
          BY <3>2 DEF Covers, Works
      <4>2. ~Allowed(ANALYSIS, child[s], "done")
          BY <1>4, <1>9, <2>1, <3>1, <4>1 DEF MarkFacts, Active
      <4>3. child[s] = "pending"
          BY <2>1, <3>1, <4>2, Edges DEF Active
      <4> QED BY <3>2, <4>3 DEF Covers
    <3> QED BY <1>8, <3>1, <3>2
  <2>2. \A k \in Sessions : child'[k] = child[k] \/ childSha[k] \in Ver
      BY <1>4, <1>9 DEF MarkFacts
  <2>3. \A k \in Sessions : child'[k] = "done" => child[k] = "done" \/ <<k, childSha[k]>> \in analysed
      BY <1>4, <1>6, <1>9 DEF MarkFacts
  <2>4. /\ parent = "done" => parent' = "done"
        /\ parent # "done" /\ parent' = "done" =>
              /\ transfer = "stored"
              /\ \A k \in Sessions : child'[k] \notin {"pending", "running", "failed"}
      BY <1>4, <1>9 DEF MarkFacts
  <2>5. /\ rawStatus' \in [Sessions -> {"", "pending", "running", "done", "failed", "skipped"}]
        /\ RawDone'
      BY <1>5, <1>9 DEF UploadInv, TypeOK, RawDone
  <2>6. child' \in [Sessions -> Child] /\ parent' \in Parent
      BY <1>4, <1>9 DEF MarkFacts
  <2> QED BY <1>5, <1>7, <2>1, <2>2, <2>3, <2>4, <2>5, <2>6, Unreported, BackgroundStep
<1>10. CASE ~m.ok /\ Fail(t, s, v, m.child, m.parent)
  <2>1. /\ m.child \in [Sessions -> Child] /\ m.parent \in Parent /\ task[t].tracked
        /\ m.parent = parent
        /\ parent = "done" \/ m.child = child
      BY <1>4, <1>10 DEF MarkFacts
  <2>2. FailFacts(t, s, v, m.child, m.parent)
      BY <1>5, <1>10, <2>1, FailEffect
  <2>3. parent = "done" => parent' = "done"
      BY <2>1, <2>2 DEF FailFacts
  <2>4. ASSUME NEW k \in Sessions, child'[k] \in Active, parent # "done"
        PROVE  child'[k] = child[k] /\ (Covers(t, k) => Covers(t, k)')
    <3>1. m.child = child
        BY <2>1, <2>4
    <3>2. child'[k] = child[k] /\ (k # s \/ childSha[s] # v)
        BY <2>1, <2>2, <2>4, <3>1 DEF FailFacts, Active
    <3> QED BY <1>8, <3>2
  <2>5. \A k \in Sessions : child'[k] = child[k] \/ childSha[k] \in Ver
      BY <1>4, <2>2 DEF MarkFacts, FailFacts
  <2>6. \A k \in Sessions : child'[k] = "done" => child[k] = "done" \/ <<k, childSha[k]>> \in analysed
      BY <1>4, <1>6, <2>2 DEF MarkFacts, FailFacts
  <2>7. parent # "done" /\ parent' = "done" =>
              /\ transfer = "stored"
              /\ \A k \in Sessions : child'[k] \notin {"pending", "running", "failed"}
      BY <2>1, <2>2 DEF FailFacts
  <2>8. /\ rawStatus' \in [Sessions -> {"", "pending", "running", "done", "failed", "skipped"}]
        /\ RawDone' /\ child' \in [Sessions -> Child] /\ parent' \in Parent
      BY <2>2 DEF FailFacts
  <2> QED BY <1>5, <1>7, <2>3, <2>4, <2>5, <2>6, <2>7, <2>8, Unreported, BackgroundStep
<1> QED BY <1>3, <1>9, <1>10

\* The task that waits with <<s, v>> under way.
LEMMA WaitingEffect ==
    ASSUME UploadInv, NEW t \in Tasks, NEW i \in task[t].rest, NEW pc \in {"marked", "llm"},
           Become(t, [task[t] EXCEPT !.pc = pc, !.rest = @ \ {i}, !.item = {i}])
    PROVE  /\ task' \in [Tasks -> Coroutine]
           /\ \A u \in Tasks : u # t => task'[u] = task[u]
           /\ Shape(task[t])'
           /\ task'[t].rest = task[t].rest \ {i} /\ task'[t].item = {i}
           /\ task'[t].pc # "registered" /\ task'[t].tracked = task[t].tracked
<1> DEFINE c == [task[t] EXCEPT !.pc = pc, !.rest = @ \ {i}, !.item = {i}]
<1>1. TypeOK /\ task[t] \in Coroutine /\ i \in Items
    BY TaskFields DEF UploadInv
<1>2. /\ c \in Coroutine /\ c.pc = pc /\ c.rest = task[t].rest \ {i} /\ c.item = {i}
      /\ c.tracked = task[t].tracked
    BY <1>1 DEF Coroutine
<1> HIDE DEF c
<1>3. task' \in [Tasks -> Coroutine] /\ task'[t] = c /\ \A u \in Tasks : u # t => task'[u] = task[u]
    BY <1>1, <1>2, BecomeEffect DEF c
<1> QED BY <1>2, <1>3 DEF Shape

LEMMA StartItemStep ==
    ASSUME UploadInv, NEW t \in Tasks, StartItem(t)
    PROVE  Good
<1>1. PICK i \in task[t].rest :
          LET m == MarkItem(t, i, "running")
              waiting(pc) == [task[t] EXCEPT !.pc = pc, !.rest = @ \ {i}, !.item = {i}]
          IN  /\ task[t].pc = "next"
              /\ \/ /\ m.ok
                    /\ SetChildAndParent(m)
                    /\ UNCHANGED rawStatus \/ SetRawStatus(i[1], i[2], "running")
                    /\ Become(t, waiting("marked")) \/ Become(t, waiting("llm"))
                 \/ /\ ~m.ok
                    /\ Fail(t, i[1], i[2], m.child, m.parent)
                    /\ EndItem(t, task[t].rest \ {i})
                 \/ /\ ~m.ok
                    /\ SetChildAndParent(m) /\ UNCHANGED rawStatus
                    /\ EndItem(t, task[t].rest \ {i})
              /\ UNCHANGED <<transfer, childSha, raw, analysed, requests, restarts>>
    BY DEF StartItem
<1>2. PICK s \in Sessions, v \in Ver : i = <<s, v>> /\ i[1] = s /\ i[2] = v
    BY ItemOf
<1> DEFINE m == MarkItem(t, <<s, v>>, "running")
           rest == task[t].rest \ {i}
           waiting(pc) == [task[t] EXCEPT !.pc = pc, !.rest = @ \ {i}, !.item = {i}]
           started == /\ m.ok /\ child' = m.child /\ parent' = m.parent
                      /\ UNCHANGED rawStatus \/ SetRawStatus(s, v, "running")
                      /\ Become(t, waiting("marked")) \/ Become(t, waiting("llm"))
           failed  == ~m.ok /\ Fail(t, s, v, m.child, m.parent) /\ EndItem(t, rest)
           skipped == /\ ~m.ok /\ child' = m.child /\ parent' = m.parent /\ UNCHANGED rawStatus
                      /\ EndItem(t, rest)
<1>3. started \/ failed \/ skipped
    BY <1>1, <1>2 DEF SetChildAndParent
<1>4. MarkFacts(t, s, v, "running", m)
    BY MarkItemFacts
<1>5. task[t].pc = "next" /\ UNCHANGED <<transfer, childSha, raw, analysed, requests, restarts>>
    BY <1>1
<1>6. task[t].item = {} /\ rest \in SUBSET Items /\ task[t].rest = rest \cup {<<s, v>>}
    BY <1>2, <1>5, TaskFields DEF UploadInv, Shape
<1> HIDE DEF m
<1>7. ASSUME NEW k \in Sessions, child'[k] = child[k], k # s \/ childSha[s] # v, Covers(t, k),
             EndItem(t, rest)
      PROVE  Covers(t, k)'
  <2>1. task[t].rest \cup task[t].item \subseteq rest \cup {<<s, v>>}
      BY <1>6
  <2>2. task[t].pc # "registered" /\ childSha' = childSha
      BY <1>5
  <2>3. <<k, childSha[k]>> # <<s, v>>
      BY <1>7
  <2> HIDE DEF rest
  <2> QED BY <1>6, <1>7, <2>1, <2>2, <2>3, EndKeeps
<1>8. CASE started
  <2>1. /\ task' \in [Tasks -> Coroutine]
        /\ \A u \in Tasks : u # t => task'[u] = task[u]
        /\ Shape(task[t])'
        /\ task'[t].rest = rest /\ task'[t].item = {i}
        /\ task'[t].pc # "registered" /\ task'[t].tracked = task[t].tracked
      BY <1>8, WaitingEffect
  <2>2. /\ rawStatus' \in [Sessions -> {"", "pending", "running", "done", "failed", "skipped"}]
        /\ \A k \in Sessions : rawStatus'[k] = "done" => rawStatus[k] = "done"
    <3>1. TypeOK
        BY DEF UploadInv
    <3>2. CASE UNCHANGED rawStatus
        BY <3>1, <3>2 DEF TypeOK
    <3>3. CASE SetRawStatus(s, v, "running")
        BY <3>1, <3>3, RawStatusEffect
    <3> QED BY <1>8, <3>2, <3>3
  <2>3. RawDone'
      BY <1>5, <2>2 DEF UploadInv, RawDone
  <2>4. ASSUME NEW k \in Sessions, child'[k] \in Active
        PROVE  (child'[k] = child[k] /\ (Covers(t, k) => Covers(t, k)')) \/ Covers(t, k)'
    <3>1. CASE k = s /\ childSha[s] = v /\ task[t].tracked
      <4>1. child'[s] = "running"
          BY <1>4, <1>8, <3>1 DEF MarkFacts
      <4> QED BY <1>2, <1>5, <2>1, <3>1, <4>1 DEF Covers, Works
    <3>2. CASE k # s \/ childSha[s] # v
      <4>1. child'[k] = child[k]
          BY <1>4, <1>8, <3>2 DEF MarkFacts
      <4> QED BY <1>2, <1>5, <1>6, <2>1, <3>2, <4>1 DEF Covers, Works
    <3>3. CASE ~task[t].tracked
        BY <1>4, <1>8, <3>3 DEF Covers, Works, MarkFacts
    <3> QED BY <3>1, <3>2, <3>3
  <2>5. \A k \in Sessions : child'[k] = child[k] \/ childSha[k] \in Ver
      BY <1>4, <1>8 DEF MarkFacts
  <2>6. \A k \in Sessions : child'[k] = "done" => child[k] = "done"
      BY <1>4, <1>8 DEF MarkFacts
  <2>7. /\ parent = "done" => parent' = "done"
        /\ parent # "done" /\ parent' = "done" =>
              /\ transfer = "stored"
              /\ \A k \in Sessions : child'[k] \notin {"pending", "running", "failed"}
      BY <1>4, <1>8 DEF MarkFacts
  <2>8. child' \in [Sessions -> Child] /\ parent' \in Parent
      BY <1>4, <1>8 DEF MarkFacts
  <2> QED BY <1>5, <2>1, <2>2, <2>3, <2>4, <2>5, <2>6, <2>7, <2>8, Unreported, BackgroundStep
<1>9. ASSUME failed \/ skipped
      PROVE  /\ task' \in [Tasks -> Coroutine]
             /\ \A u \in Tasks : u # t => task'[u] = task[u]
             /\ Shape(task[t])'
             /\ EndItem(t, rest)
             /\ m.child \in [Sessions -> Child] /\ m.parent = parent /\ parent \in Parent
             /\ task[t].tracked
             /\ parent = "done" \/ (m.child = child /\ child[s] \notin Active)
  <2>1. EndItem(t, rest) /\ ~m.ok
      BY <1>9
  <2>2. /\ m.child \in [Sessions -> Child] /\ m.parent = parent /\ m.parent \in Parent
        /\ task[t].tracked
        /\ parent = "done" \/ (m.child = child /\ ~Allowed(ANALYSIS, child[s], "running"))
      BY <1>4, <2>1 DEF MarkFacts
  <2>3. parent = "done" \/ (m.child = child /\ child[s] \notin Active)
      BY <2>2, Edges
  <2> HIDE DEF rest
  <2> QED BY <1>6, <2>1, <2>2, <2>3, EndItemEffect
<1>10. CASE skipped
  <2>1. ASSUME NEW k \in Sessions, child'[k] \in Active, parent # "done"
        PROVE  child'[k] = child[k] /\ (Covers(t, k) => Covers(t, k)')
      BY <1>7, <1>9, <1>10, <2>1
  <2>2. /\ \A k \in Sessions : child'[k] = child[k] \/ childSha[k] \in Ver
        /\ \A k \in Sessions : child'[k] = "done" => child[k] = "done"
      BY <1>4, <1>10 DEF MarkFacts
  <2>3. /\ rawStatus' \in [Sessions -> {"", "pending", "running", "done", "failed", "skipped"}]
        /\ RawDone'
      BY <1>5, <1>10 DEF UploadInv, TypeOK, RawDone
  <2> QED BY <1>5, <1>9, <1>10, <2>1, <2>2, <2>3, Unreported, BackgroundStep
<1>11. CASE failed
  <2>1. FailFacts(t, s, v, m.child, m.parent)
      BY <1>5, <1>9, <1>11, FailEffect
  <2>2. parent = "done" => parent' = "done"
      BY <1>9, <1>11, <2>1 DEF FailFacts
  <2>3. ASSUME NEW k \in Sessions, child'[k] \in Active, parent # "done"
        PROVE  child'[k] = child[k] /\ (Covers(t, k) => Covers(t, k)')
    <3>1. m.child = child /\ child[s] \notin Active
        BY <1>9, <1>11, <2>3
    <3>2. child'[k] = child[k] /\ k # s
        BY <2>1, <2>3, <3>1 DEF FailFacts, Active
    <3> QED BY <1>7, <1>9, <1>11, <3>2
  <2>4. \A k \in Sessions : child'[k] = child[k] \/ childSha[k] \in Ver
      BY <1>4, <2>1 DEF MarkFacts, FailFacts
  <2>5. \A k \in Sessions : child'[k] = "done" => child[k] = "done"
      BY <1>4, <2>1 DEF MarkFacts, FailFacts
  <2>6. parent # "done" /\ parent' = "done" =>
              /\ transfer = "stored"
              /\ \A k \in Sessions : child'[k] \notin {"pending", "running", "failed"}
      BY <1>9, <1>11, <2>1 DEF FailFacts
  <2>7. /\ rawStatus' \in [Sessions -> {"", "pending", "running", "done", "failed", "skipped"}]
        /\ RawDone' /\ child' \in [Sessions -> Child] /\ parent' \in Parent
      BY <2>1 DEF FailFacts
  <2> QED BY <1>5, <1>9, <1>11, <2>2, <2>3, <2>4, <2>5, <2>6, <2>7, Unreported, BackgroundStep
<1> QED BY <1>3, <1>8, <1>10, <1>11

LEMMA RestartStep ==
    ASSUME UploadInv, Restart
    PROVE  Good
<1>1. /\ restarts < MaxRestarts /\ restarts' = restarts + 1
      /\ task' = [t \in Tasks |-> Idle]
      /\ child' = [s \in Sessions |-> IF child[s] \in Active THEN "failed" ELSE child[s]]
      /\ parent' = IF parent \in Active THEN "failed" ELSE parent
      /\ UNCHANGED <<transfer, childSha, raw, rawStatus, analysed, requests>>
    BY DEF Restart
<1>2. TypeOK /\ child \in [Sessions -> Child] /\ parent \in Parent
    BY Unreported DEF UploadInv
<1>3. restarts' \in 0..MaxRestarts
  <2>1. restarts \in 0..MaxRestarts /\ MaxRestarts \in Nat
      BY <1>2, UploadsAssumption DEF UploadsAssumption, TypeOK
  <2> QED BY <1>1, <2>1
<1>4. task' \in [Tasks -> Coroutine] /\ \A t \in Tasks : Shape(task[t])'
    BY <1>1, IdleFields DEF Shape
<1>5. child' \in [Sessions -> Child] /\ parent' \in Parent
    BY <1>1, <1>2, Domains DEF Child, Parent
<1>6. \A k \in Sessions : /\ child'[k] \notin Active
                          /\ child'[k] = "done" => child[k] = "done"
                          /\ child'[k] # "none" => child[k] # "none"
    BY <1>1, <1>2 DEF Active
<1>7. TypeOK'
    BY <1>1, <1>2, <1>3, <1>4, <1>5 DEF TypeOK, Child, Parent
<1>8. DoneWasAnalysed' /\ RowsHaveSha' /\ RawDone'
    BY <1>1, <1>6 DEF UploadInv, DoneWasAnalysed, RowsHaveSha, RawDone
<1>9. \A k \in Sessions : Worked(k)'
    BY <1>6 DEF Worked, Active
<1>10. DoneStep
    BY <1>1 DEF DoneStep, Active
<1> QED BY <1>4, <1>7, <1>8, <1>9, <1>10 DEF Good, UploadInv

LEMMA UploadStep ==
    ASSUME UploadInv, [Next]_vars
    PROVE  Good
<1>1. ASSUME NEW t \in Tasks, NEW s \in Sessions, NEW v \in Ver,
             PostTranscript(t, s, v) \/ PostForRequest(t, s, v)
      PROVE  Good
    BY <1>1, PostStep, PostForRequestStep
<1>2. ASSUME NEW t \in Tasks, NEW status \in DOMAIN TRANSFER, ReportTransfer(t, status)
      PROVE  Good
    BY <1>2, ReportTransferStep
<1>3. ASSUME NEW t \in Tasks, RetryAnalysis(t)
      PROVE  Good
    BY <1>3, RetryStep
<1>4. ASSUME NEW t \in Tasks, Progress(t)
      PROVE  Good
    BY <1>4, PostResumesStep, ReportResumesStep, StartItemStep, CallLlmStep, CommitStep,
       NoAnalysisStep, FinishItemStep DEF Progress
<1>5. CASE Restart
    BY <1>5, RestartStep
<1>6. CASE UNCHANGED vars
  <2>1. UNCHANGED <<transfer, parent, child, childSha, raw, rawStatus, analysed, task,
                    requests, restarts>>
      BY <1>6 DEF vars, tables
  <2>2. TypeOK' /\ \A t \in Tasks : Shape(task[t])'
      BY <2>1 DEF UploadInv, TypeOK, Shape
  <2>3. DoneWasAnalysed' /\ RowsHaveSha' /\ RawDone'
      BY <2>1 DEF UploadInv, DoneWasAnalysed, RowsHaveSha, RawDone
  <2>4. \A k \in Sessions : Worked(k)'
      BY <2>1 DEF UploadInv, Worked, Covers, Works
  <2> QED BY <2>1, <2>2, <2>3, <2>4 DEF Good, UploadInv, DoneStep
<1> QED BY <1>1, <1>2, <1>3, <1>4, <1>5, <1>6 DEF Next

LEMMA UploadInit == Init => UploadInv
<1> SUFFICES ASSUME Init PROVE UploadInv
    OBVIOUS
<1>1. TypeOK
  <2>1. /\ 0 \in 0..MaxVer /\ 0 \in 0..MaxRequests /\ 0 \in 0..MaxRestarts
      BY UploadsAssumption DEF UploadsAssumption
  <2>2. task \in [Tasks -> Coroutine]
      BY IdleFields DEF Init
  <2>3. childSha \in [Sessions -> 0..MaxVer] /\ raw \in [Sessions -> 0..MaxVer]
      BY <2>1 DEF Init
  <2> QED BY Domains, <2>1, <2>2, <2>3 DEF Init, TypeOK
<1>2. \A t \in Tasks : Shape(task[t])
    BY DEF Init, Shape, Idle
<1>3. RawDone /\ DoneWasAnalysed /\ RowsHaveSha
    BY DEF Init, RawDone, DoneWasAnalysed, RowsHaveSha
<1>4. \A s \in Sessions : Worked(s)
    BY DEF Init, Worked, Active
<1> QED BY <1>1, <1>2, <1>3, <1>4 DEF UploadInv

LEMMA UploadInvariant == Spec => []UploadInv
<1>1. UploadInv /\ [Next]_vars => UploadInv'
    BY UploadStep DEF Good
<1> QED BY <1>1, UploadInit, PTL DEF Spec

-----------------------------------------------------------------------------
(* The theorems. *)

\* Every row and every coroutine of an upload request keeps its type
\* (store.py, upload_requests.py).
THEOREM TypeCorrect == Spec => []TypeOK
BY UploadInvariant, PTL DEF UploadInv

\* A session that the request shows as done was analysed in the version the
\* request registered, and one that it shows as pending or running has a live
\* background task that will report on it, unless the request was done before
\* the transcript came: for any number of sessions, versions, concurrent HTTP
\* requests and restarts.
THEOREM SessionStatusIsTrue == Spec => []StatusIsTrue
<1>1. UploadInv => StatusIsTrue
  <2> SUFFICES ASSUME UploadInv PROVE NoOrphanAnalysis
      BY DEF UploadInv, StatusIsTrue
  <2>1. ASSUME NEW s \in Sessions, NEW t \in Tasks, Covers(t, s) PROVE t \in Worker(s)
      BY <2>1 DEF Covers, Works, Worker
  <2> QED BY <2>1 DEF UploadInv, NoOrphanAnalysis, Worked
<1> QED BY <1>1, UploadInvariant, PTL

\* _advance_parent_analysis calls a request done only in a step after which the
\* transfer is stored and no registered session waits, runs or failed.
THEOREM RequestDoneMeansAllDone == Spec => DoneMeansAllDone
<1>1. UploadInv /\ [Next]_vars =>
        [parent # "done" /\ parent' = "done" =>
             /\ transfer' = "stored"
             /\ \A s \in Sessions : child'[s] \in {"none", "not_requested", "done"}]_vars
    BY UploadStep DEF Good, DoneStep
<1> QED BY <1>1, UploadInvariant, PTL DEF Spec, DoneMeansAllDone

=============================================================================
