--------------------------- MODULE UploadClientProofs ---------------------------
(***************************************************************************)
(* What TLAPS proves of UploadClient, for any number of sessions, requests *)
(* and versions, any number of asks, and any lost calls and crashes.       *)
(***************************************************************************)
EXTENDS UploadClient, TLAPS

-----------------------------------------------------------------------------
(* Type correctness.  A half written file is below the last version. *)

TornInv == \A s \in torn : local[s] < MaxVer

TypeInv == TypeOK /\ TornInv

\* A thread's record with a field changed is one again.
LEMMA JobEdit ==
    ASSUME NEW j \in Job,
           NEW step \in {"idle", "claim", "list", "upload", "wait", "giveup"},
           NEW todo \in SUBSET Sessions, NEW known \in [Sessions -> Ver],
           NEW index \in {"none", "ok", "failed"}, NEW bad \in BOOLEAN
    PROVE  /\ [j EXCEPT !.step = step] \in Job
           /\ [j EXCEPT !.step = step, !.todo = todo] \in Job
           /\ [j EXCEPT !.step = step, !.known = known] \in Job
           /\ [j EXCEPT !.step = step, !.bad = bad] \in Job
           /\ [j EXCEPT !.todo = todo, !.known = known, !.index = index] \in Job
           /\ [j EXCEPT !.todo = todo, !.known = known, !.index = index, !.bad = bad] \in Job
           /\ [j EXCEPT !.todo = todo, !.known = known, !.index = index, !.step = step] \in Job
BY DEF Job

LEMMA PostEdit ==
    ASSUME NEW p \in Post, NEW b \in BOOLEAN
    PROVE  /\ [p EXCEPT !.waited = FALSE] \in Post
           /\ [p EXCEPT !.stage = "registered", !.seen = b] \in Post
BY DEF Post

LEMMA PostFields ==
    ASSUME NEW p \in Post
    PROVE  /\ p.by \in Threads /\ p.of \in Sessions /\ p.sha \in Ver /\ p.body \in Ver
           /\ p.waited \in BOOLEAN /\ p.stage \in {"new", "registered"} /\ p.seen \in BOOLEAN
BY DEF Post

LEMMA JobFields ==
    ASSUME NEW j \in Job
    PROVE  /\ j.todo \in SUBSET Sessions /\ j.known \in [Sessions -> Ver]
           /\ j.index \in {"none", "ok", "failed"} /\ j.bad \in BOOLEAN
           /\ j.step \in {"idle", "claim", "list", "upload", "wait", "giveup"}
BY DEF Job

LEMMA IdleIsJob == Idle \in Job /\ Nothing \in [Sessions -> Ver]
BY ClientAssumption DEF Idle, Nothing, Job, Ver

\* A thread that is done with a session.
LEMMA TakenTyped ==
    ASSUME NEW j \in Job, NEW s \in Sessions, NEW index \in {"none", "ok", "failed"}
    PROVE  /\ [j EXCEPT !.todo = @ \ {s}, !.known[s] = 0, !.index = index] \in Job
           /\ [j EXCEPT !.todo = @ \ {s}, !.known[s] = 0, !.index = index, !.bad = TRUE] \in Job
           /\ [j EXCEPT !.todo = @ \ {s}, !.known[s] = 0, !.index = index, !.step = "wait"] \in Job
<1>1. PICK todo \in SUBSET Sessions : todo = j.todo \ {s}
    BY JobFields
<1>2. PICK known \in [Sessions -> Ver] : known = [j.known EXCEPT ![s] = 0]
  <2>1. 0 \in Ver /\ j.known \in [Sessions -> Ver]
      BY JobFields, ClientAssumption DEF Ver
  <2> QED BY <2>1
<1>3. /\ [j EXCEPT !.todo = todo, !.known = known, !.index = index] \in Job
      /\ [j EXCEPT !.todo = todo, !.known = known, !.index = index, !.bad = TRUE] \in Job
      /\ [j EXCEPT !.todo = todo, !.known = known, !.index = index, !.step = "wait"] \in Job
    BY JobEdit
<1> QED BY <1>1, <1>2, <1>3

LEMMA SetTyped ==
    ASSUME job \in [Threads -> Job], NEW j, NEW c \in Job, Set(j, c)
    PROVE  job' \in [Threads -> Job]
BY DEF Set

LEMMA FaultTyped ==
    ASSUME TypeOK, Fault \/ UNCHANGED bounds
    PROVE  asks' \in 0..MaxAsks /\ faults' \in 0..MaxFaults
BY ClientAssumption DEF TypeOK, Fault, bounds

LEMMA AnsweredTyped ==
    ASSUME TypeOK, NEW p \in post, NEW ok \in BOOLEAN, Answered(p, ok)
    PROVE  job' \in [Threads -> Job]
<1>1. p.by \in Threads /\ job \in [Threads -> Job]
    BY PostFields DEF TypeOK
<1>2. CASE ~p.waited
    BY <1>1, <1>2 DEF Answered
<1>3. CASE p.waited
  <2>1. job[p.by] \in Job
      BY <1>1
  <2>2. PICK b \in BOOLEAN : b = (job[p.by].bad \/ ~ok)
      OBVIOUS
  <2>3. [job[p.by] EXCEPT !.step = "upload", !.bad = b] \in Job
      BY <2>1, JobEdit, JobFields
  <2>4. Set(p.by, [job[p.by] EXCEPT !.step = "upload", !.bad = b])
      BY <1>3, <2>2 DEF Answered
  <2> QED BY <1>1, <2>3, <2>4, SetTyped
<1> QED BY <1>2, <1>3

LEMMA ReportTyped ==
    ASSUME TypeOK, NEW r \in Requests, NEW new \in {"running", "stored", "failed"},
           NEW ok \in BOOLEAN, Report(r, new, ok)
    PROVE  /\ status' \in [Requests -> DOMAIN TRANSFER \cup {"none"}]
           /\ hurt' \subseteq Requests
           /\ asks' \in 0..MaxAsks /\ faults' \in 0..MaxFaults
<1>1. new \in DOMAIN TRANSFER
    BY DEF TRANSFER
<1>2. asks' \in 0..MaxAsks /\ faults' \in 0..MaxFaults
    BY FaultTyped DEF Report
<1>3. hurt' \subseteq Requests
    BY DEF Report, TypeOK
<1>4. status' \in {status, [status EXCEPT ![r] = new]}
    BY DEF Report
<1> QED BY <1>1, <1>2, <1>3, <1>4 DEF TypeOK

LEMMA TypeInit == Init => TypeInv
<1> SUFFICES ASSUME Init PROVE TypeInv
    OBVIOUS
<1>1. job \in [Threads -> Job]
    BY IdleIsJob DEF Init
<1>2. child \in [Requests -> [Sessions -> Ver]] /\ due \in [Requests -> [Sessions -> Ver]]
    BY IdleIsJob DEF Init
<1>3. 0 \in Ver /\ 1 \in Ver
    BY ClientAssumption DEF Ver
<1>4. /\ local \in [Sessions -> Ver] /\ raw \in [Sessions -> [sha : Ver, body : Ver]]
      /\ scope \in [Requests -> SUBSET Sessions]
      /\ status \in [Requests -> DOMAIN TRANSFER \cup {"none"}]
    BY <1>3 DEF Init
<1>5. asks \in 0..MaxAsks /\ faults \in 0..MaxFaults
    BY ClientAssumption DEF Init
<1> QED BY <1>1, <1>2, <1>4, <1>5 DEF Init, TypeInv, TypeOK, TornInv

\* What the window and the bounds may become.
LEMMA WindowTyped ==
    ASSUME TypeOK, NEW r \in Requests, NEW k \in {"frame", "list"}
    PROVE  /\ commands \cup {<<r, k>>} \subseteq Requests \X {"frame", "list"}
           /\ commands \cup (Pending \X {"list"}) \subseteq Requests \X {"frame", "list"}
BY DEF TypeOK, Pending

LEMMA ThreadTyped ==
    ASSUME TypeOK, NEW j \in Threads, Thread(j)
    PROVE  TypeOK' /\ UNCHANGED <<local, torn>>
<1>1. /\ job[j] \in Job /\ job \in [Threads -> Job]
      /\ job[j].todo \in SUBSET Sessions /\ job[j].known \in [Sessions -> Ver]
      /\ job[j].index \in {"none", "ok", "failed"} /\ 0 \in Ver
    BY JobFields, ClientAssumption DEF TypeOK, Ver
<1>2. ASSUME j # Ask, Claim(j) \/ GiveUp(j) \/ Finish(j)
      PROVE  TypeOK' /\ UNCHANGED <<local, torn>>
  <2>1. j \in Requests
      BY <1>2 DEF Threads
  <2>2. PICK new \in {"running", "stored", "failed"}, ok \in BOOLEAN : Report(j, new, ok)
      BY <1>2 DEF Claim, GiveUp, Finish
  <2>3. job' \in [Threads -> Job]
    <3>1. [job[j] EXCEPT !.step = "list"] \in Job /\ [job[j] EXCEPT !.step = "giveup"] \in Job
        BY <1>1, JobEdit
    <3> QED BY <1>1, <1>2, <3>1, IdleIsJob, SetTyped DEF Claim, GiveUp, Finish
  <2>4. /\ status' \in [Requests -> DOMAIN TRANSFER \cup {"none"}] /\ hurt' \subseteq Requests
        /\ asks' \in 0..MaxAsks /\ faults' \in 0..MaxFaults
      BY <2>1, <2>2, ReportTyped
  <2>5. UNCHANGED <<local, torn, child, raw, post, online, fetching, commands, scope, due, overlap>>
      BY <1>2 DEF Claim, GiveUp, Finish, files, window
  <2> QED BY <2>3, <2>4, <2>5 DEF TypeOK
<1>3. ASSUME EndAsk PROVE TypeOK' /\ UNCHANGED <<local, torn>>
  <2>1. job' \in [Threads -> Job]
      BY <1>1, <1>3, IdleIsJob, SetTyped DEF EndAsk
  <2> QED BY <1>3, <2>1 DEF EndAsk, TypeOK, files, server, window, bounds, history
<1>4. ASSUME List(j) PROVE TypeOK' /\ UNCHANGED <<local, torn>>
  <2>1. \A known \in Manifests(job[j].todo) : known \in [Sessions -> Ver]
      BY <1>1 DEF Manifests, TypeOK
  <2>2. job' \in [Threads -> Job]
    <3>1. \A known \in Manifests(job[j].todo) : [job[j] EXCEPT !.step = "upload", !.known = known] \in Job
        BY <1>1, <2>1, JobEdit
    <3>2. [job[j] EXCEPT !.step = "giveup"] \in Job
        BY <1>1, JobEdit
    <3> QED BY <1>1, <1>4, <3>1, <3>2, SetTyped DEF List
  <2>3. overlap' \subseteq Sessions
      BY <1>1, <1>4 DEF List, TypeOK
  <2> QED BY <1>4, <2>2, <2>3 DEF List, TypeOK, files, server, window, bounds
<1>5. ASSUME NEW s \in Sessions, UploadSession(j, s) PROVE TypeOK' /\ UNCHANGED <<local, torn>>
  <2>1. PICK index \in {"none", "ok", "failed"} : index = Index(j)
      BY <1>1 DEF Index, Scan
  <2>2. job' \in [Threads -> Job] /\ post' \subseteq Post
    <3>1. CASE Unreadable(j, s)
      <4>1. Set(j, [job[j] EXCEPT !.todo = @ \ {s}, !.known[s] = 0, !.index = index, !.bad = TRUE])
          BY <2>1, <3>1 DEF Unreadable
      <4> QED BY <1>1, <3>1, <4>1, TakenTyped, SetTyped DEF Unreadable, TypeOK
    <3>2. CASE Skip(j, s)
      <4>1. Set(j, [job[j] EXCEPT !.todo = @ \ {s}, !.known[s] = 0, !.index = index])
          BY <2>1, <3>2 DEF Skip
      <4> QED BY <1>1, <3>2, <4>1, TakenTyped, SetTyped DEF Skip, TypeOK
    <3>3. CASE PostTranscript(j, s)
      <4>1. Set(j, [job[j] EXCEPT !.todo = @ \ {s}, !.known[s] = 0, !.index = index, !.step = "wait"])
          BY <2>1, <3>3 DEF PostTranscript
      <4>3. Body(j, s) \in Ver /\ local[s] \in Ver
          BY <1>1 DEF Body, TypeOK
      <4>4. [by |-> j, of |-> s, sha |-> local[s], body |-> Body(j, s), waited |-> TRUE,
             stage |-> "new", seen |-> FALSE] \in Post
          BY <4>3 DEF Post
      <4> QED BY <1>1, <3>3, <4>1, <4>4, TakenTyped, SetTyped DEF PostTranscript, TypeOK
    <3> QED BY <1>5, <3>1, <3>2, <3>3 DEF UploadSession
  <2> QED BY <1>5, <2>2 DEF UploadSession, TypeOK, files, server, window, bounds, history
<1> QED BY <1>2, <1>3, <1>4, <1>5 DEF Thread

LEMMA HandlerTyped ==
    ASSUME TypeOK, NEW p \in post, LosePost(p) \/ Handler(p)
    PROVE  TypeOK' /\ UNCHANGED <<local, torn>>
<1>1. p \in Post /\ p.of \in Sessions /\ p.sha \in Ver /\ p.body \in Ver /\ p.by \in Threads
    BY PostFields DEF TypeOK
<1>2. CASE LosePost(p)
  <2>1. post' \subseteq Post
    <3>1. [p EXCEPT !.waited = FALSE] \in Post
        BY <1>1, PostEdit
    <3>2. post' \subseteq post \cup {[p EXCEPT !.waited = FALSE]}
        BY <1>2 DEF LosePost
    <3> QED BY <3>1, <3>2 DEF TypeOK
  <2>2. job' \in [Threads -> Job]
      BY <1>2, AnsweredTyped DEF LosePost
  <2>3. asks' \in 0..MaxAsks /\ faults' \in 0..MaxFaults
      BY <1>2, FaultTyped DEF LosePost
  <2> QED BY <1>2, <2>1, <2>2, <2>3 DEF LosePost, TypeOK, files, server, window, history
<1>3. CASE Register(p)
  <2>1. [p EXCEPT !.stage = "registered", !.seen = raw[p.of].sha = p.sha] \in Post
    <3>1. PICK b \in BOOLEAN : b = (raw[p.of].sha = p.sha)
        OBVIOUS
    <3>2. [p EXCEPT !.stage = "registered", !.seen = b] \in Post
        BY <1>1, PostEdit
    <3> QED BY <3>1, <3>2
  <2>2. post' \subseteq Post
      BY <1>3, <2>1 DEF Register, TypeOK
  <2>3. job' \in [Threads -> Job]
      BY <1>3, AnsweredTyped DEF Register, TypeOK
  <2>4. child' \in [Requests -> [Sessions -> Ver]]
    <3>1. p.by \in Requests
        BY <1>1, <1>3 DEF Register, Threads
    <3> QED BY <1>1, <1>3, <3>1 DEF Register, TypeOK
  <2> QED BY <1>3, <2>2, <2>3, <2>4 DEF Register, TypeOK, files, window, bounds, history
<1>4. CASE Store(p)
  <2>1. job' \in [Threads -> Job]
      BY <1>4, AnsweredTyped DEF Store
  <2>2. raw' \in [Sessions -> [sha : Ver, body : Ver]] /\ post' \subseteq Post
      BY <1>1, <1>4 DEF Store, TypeOK
  <2> QED BY <1>4, <2>1, <2>2 DEF Store, TypeOK, files, window, bounds, history
<1> QED BY <1>2, <1>3, <1>4 DEF Handler

LEMMA TypeStep == TypeInv /\ [Next]_vars => TypeInv'
<1> SUFFICES ASSUME TypeInv, [Next]_vars PROVE TypeInv'
    OBVIOUS
<1>1. TypeOK /\ TornInv
    BY DEF TypeInv
<1>2. ASSUME TypeOK', UNCHANGED <<local, torn>> PROVE TypeInv'
    BY <1>1, <1>2 DEF TypeInv, TornInv
<1>3. CASE UNCHANGED vars
    BY <1>1, <1>3 DEF TypeInv, TypeOK, TornInv, vars, files, server, window, bounds, history
<1>4. ASSUME NEW s \in Sessions, HalfWrite(s) \/ EndLine(s) PROVE TypeInv'
  <2>1. UNCHANGED <<server, post, window, job, bounds, history>>
      BY <1>4 DEF HalfWrite, EndLine
  <2>2. local' \in [Sessions -> Ver] /\ torn' \subseteq Sessions /\ TornInv'
      BY <1>1, <1>4, ClientAssumption DEF HalfWrite, EndLine, TypeOK, TornInv, Ver
  <2> QED BY <1>1, <2>1, <2>2 DEF TypeInv, TypeOK, server, window, bounds, history
<1>5. ASSUME NEW s \in Sessions, AskUpload(s) PROVE TypeInv'
  <2>1. [Idle EXCEPT !.step = "list", !.todo = {s}] \in Job
    <3>1. {s} \in SUBSET Sessions
        OBVIOUS
    <3> QED BY <3>1, IdleIsJob, JobEdit
  <2>2. job' \in [Threads -> Job]
      BY <1>1, <1>5, <2>1, SetTyped DEF AskUpload, TypeOK
  <2>3. asks' \in 0..MaxAsks /\ faults' \in 0..MaxFaults
      BY <1>1, <1>5, ClientAssumption DEF AskUpload, TypeOK
  <2> QED BY <1>1, <1>2, <1>5, <2>2, <2>3 DEF AskUpload, TypeOK, files, server, window, history
<1>6. ASSUME NEW r \in Requests, NEW S \in Scopes, Create(r, S) PROVE TypeInv'
  <2>1. S \in SUBSET Sessions
      BY DEF Scopes
  <2>2. "pending" \in DOMAIN TRANSFER
      BY DEF TRANSFER
  <2>3. /\ status' \in [Requests -> DOMAIN TRANSFER \cup {"none"}]
        /\ scope' \in [Requests -> SUBSET Sessions] /\ due' \in [Requests -> [Sessions -> Ver]]
      BY <1>1, <1>6, <2>1, <2>2 DEF Create, TypeOK
  <2>4. commands' \subseteq Requests \X {"frame", "list"}
      BY <1>1, <1>6, WindowTyped DEF Create, TypeOK
  <2>5. asks' \in 0..MaxAsks /\ faults' \in 0..MaxFaults
      BY <1>1, <1>6, FaultTyped DEF Create
  <2> QED BY <1>1, <1>2, <1>6, <2>3, <2>4, <2>5 DEF Create, TypeOK, files
<1>7. CASE Connect \/ Fetch \/ Disconnect
  <2>1. commands' \subseteq Requests \X {"frame", "list"}
      BY <1>1, <1>7, WindowTyped DEF Connect, Fetch, Disconnect, TypeOK, Pending
  <2>2. asks' \in 0..MaxAsks /\ faults' \in 0..MaxFaults
      BY <1>1, <1>7, FaultTyped DEF Connect, Fetch, Disconnect, bounds
  <2>3. online' \in BOOLEAN /\ fetching' \in BOOLEAN
      BY <1>1, <1>7 DEF Connect, Fetch, Disconnect, TypeOK
  <2>4. UNCHANGED <<files, server, post, job, history>>
      BY <1>7 DEF Connect, Fetch, Disconnect
  <2> QED BY <1>1, <1>2, <2>1, <2>2, <2>3, <2>4 DEF TypeOK, files, server, history
<1>8. CASE Crash
  <2>1. asks' \in 0..MaxAsks /\ faults' \in 0..MaxFaults
      BY <1>1, <1>8, FaultTyped DEF Crash
  <2>2. post' \subseteq Post
      BY <1>1, <1>8, PostEdit DEF Crash, TypeOK
  <2>3. job' \in [Threads -> Job] /\ hurt' \subseteq Requests
      BY <1>1, <1>8, IdleIsJob DEF Crash, TypeOK
  <2> QED BY <1>1, <1>2, <1>8, <2>1, <2>2, <2>3 DEF Crash, TypeOK, files, server
<1>9. ASSUME NEW c \in commands, HandleCommand(c) PROVE TypeInv'
  <2>1. c[1] \in Requests /\ c[1] \in Threads
      BY <1>1 DEF TypeOK, Threads
  <2>2. [Idle EXCEPT !.step = "claim", !.todo = scope[c[1]]] \in Job
      BY <1>1, <2>1, IdleIsJob, JobEdit DEF TypeOK
  <2>3. job' \in [Threads -> Job]
      BY <1>1, <1>9, <2>2, SetTyped DEF HandleCommand, TypeOK
  <2> QED BY <1>1, <1>2, <1>9, <2>3 DEF HandleCommand, TypeOK, files, server, bounds, history
<1>10. ASSUME NEW j \in Threads, Thread(j) PROVE TypeInv'
    BY <1>1, <1>2, <1>10, ThreadTyped
<1>11. ASSUME NEW p \in post, LosePost(p) \/ Handler(p) PROVE TypeInv'
    BY <1>1, <1>2, <1>11, HandlerTyped
<1> QED BY <1>3, <1>4, <1>5, <1>6, <1>7, <1>8, <1>9, <1>10, <1>11 DEF Next, Handling

\* Every variable of the client model keeps its type.
THEOREM TypeCorrect == Spec => []TypeOK
<1>1. TypeInv => TypeOK
    BY DEF TypeInv
<1> QED BY <1>1, TypeInit, TypeStep, PTL DEF Spec

-----------------------------------------------------------------------------
(* ErasedOnlyByOverlap: a session that no two uploads handled at once has one *)
(* thread or one post at work on it, and what that took from the manifest is  *)
(* still so.                                                                  *)

Holds(j, s) == s \in job[j].todo /\ job[j].step \in {"upload", "wait"}

Alone(s) ==
    /\ \A j, k \in Threads : Holds(j, s) /\ Holds(k, s) => j = k
    /\ \A p, q \in post : p.of = s /\ q.of = s => p = q
    /\ \A j \in Threads, p \in post : ~(Holds(j, s) /\ p.of = s)

\* A post without its content is for the row that the server still has.
Fits(p) ==
    /\ p.stage = "registered" /\ p.seen => raw[p.of].sha = p.sha
    /\ \/ p.body = p.sha
       \/ raw[p.of].sha = p.sha /\ (p.stage = "registered" => p.seen)

SoundAt(s) ==
    /\ raw[s].body = raw[s].sha
    /\ Alone(s)
    /\ \A j \in Threads : Holds(j, s) => job[j].known[s] \in {0, raw[s].sha}
    /\ \A p \in post : p.of = s => Fits(p)

\* A thread waits for its own post only.
WaitInv ==
    \A p \in post : p.waited =>
        /\ job[p.by].step = "wait"
        /\ \A q \in post : q.waited /\ q.by = p.by => q = p

Sound ==
    /\ WaitInv
    /\ \A s \in Sessions : local[s] >= 1
    /\ \A s \in Sessions \ overlap : SoundAt(s)

OverlapInv == TypeInv /\ Sound

\* No thread takes up the session, and what it knows of it stays.
NoneTakes(s) ==
    \A k \in Threads : Holds(k, s)' => Holds(k, s) /\ job'[k].known[s] = job[k].known[s]

LEMMA BusyIsHeld ==
    ASSUME NEW s
    PROVE  /\ \A k \in Threads : Holds(k, s) => s \in Busy
           /\ \A p \in post : p.of = s => s \in Busy
<1> DEFINE held  == {job[k].todo : k \in {i \in Threads : job[i].step \in {"upload", "wait"}}}
           posts == {p.of : p \in post}
<1>1. Busy = posts \cup (UNION held)
    BY DEF Busy
<1>2. ASSUME NEW k \in Threads, Holds(k, s) PROVE s \in Busy
  <2>1. job[k].todo \in held /\ s \in job[k].todo
      BY <1>2 DEF Holds
  <2> HIDE DEF held, posts
  <2>2. s \in UNION held
      BY <2>1
  <2> QED BY <1>1, <2>2
<1>3. ASSUME NEW p \in post, p.of = s PROVE s \in Busy
  <2>1. s \in posts
      BY <1>3
  <2> HIDE DEF held, posts
  <2> QED BY <1>1, <2>1
<1> QED BY <1>2, <1>3

LEMMA KeptAt ==
    ASSUME NEW s \in Sessions, SoundAt(s), raw'[s] = raw[s], NoneTakes(s),
           \A p \in post' : p.of = s => p \in post
    PROVE  SoundAt(s)'
<1>1. Alone(s)'
    BY DEF SoundAt, Alone, NoneTakes
<1>2. \A p \in post' : p.of = s => Fits(p)'
    BY DEF SoundAt, Fits
<1> QED BY <1>1, <1>2 DEF SoundAt, NoneTakes

LEMMA EditedAt ==
    ASSUME NEW s \in Sessions, SoundAt(s), raw'[s] = raw[s], NoneTakes(s),
           NEW p \in post, NEW q, q.of = p.of, Fits(q)', post' \subseteq (post \ {p}) \cup {q}
    PROVE  SoundAt(s)'
<1>1. CASE p.of # s
    BY <1>1, KeptAt
<1>2. CASE p.of = s
  <2>1. \A x \in post' : x.of = s => x = q
      BY <1>2 DEF SoundAt, Alone
  <2>2. \A k \in Threads : ~Holds(k, s)'
      BY <1>2 DEF SoundAt, Alone, NoneTakes
  <2>3. Alone(s)'
      BY <2>1, <2>2 DEF Alone
  <2>4. \A x \in post' : x.of = s => Fits(x)'
      BY <2>1
  <2> QED BY <2>2, <2>3, <2>4 DEF SoundAt
<1> QED BY <1>1, <1>2

\* A thread that goes to a step outside the loop holds no session.
LEMMA SetTakesNone ==
    ASSUME TypeOK, NEW j \in Threads, NEW c, Set(j, c), c.step \notin {"upload", "wait"}
    PROVE  /\ \A s \in Sessions : NoneTakes(s)
           /\ \A k \in Threads \ {j} : job'[k] = job[k]
           /\ job'[j] = c
<1>1. job'[j] = c /\ \A k \in Threads \ {j} : job'[k] = job[k]
    BY DEF Set, TypeOK
<1> QED BY <1>1 DEF NoneTakes, Holds

\* An answer lets its thread go on with what it had.
LEMMA AnsweredFrame ==
    ASSUME OverlapInv, NEW p \in post, NEW ok \in BOOLEAN, Answered(p, ok)
    PROVE  /\ \A s \in Sessions : NoneTakes(s)
           /\ \A k \in Threads : job'[k].todo = job[k].todo /\ job'[k].known = job[k].known
           /\ \A k \in Threads : (p.waited /\ k = p.by) \/ job'[k] = job[k]
           /\ p.waited => /\ job[p.by].step = "wait" /\ job'[p.by].step = "upload"
                          /\ job'[p.by].bad <=> job[p.by].bad \/ ~ok
<1>1. p.by \in Threads /\ job \in [Threads -> Job] /\ job[p.by] \in Job
    BY PostFields DEF OverlapInv, TypeInv, TypeOK
<1>2. CASE ~p.waited
    BY <1>2 DEF Answered, NoneTakes, Holds
<1>3. CASE p.waited
  <2>1. job[p.by].step = "wait"
      BY <1>3 DEF OverlapInv, Sound, WaitInv
  <2>2. job' = [job EXCEPT ![p.by] = [job[p.by] EXCEPT !.step = "upload", !.bad = @ \/ ~ok]]
      BY <1>3 DEF Answered, Set
  <2>3. \A k \in Threads \ {p.by} : job'[k] = job[k]
      BY <1>1, <2>2
  <2>4. PICK b \in BOOLEAN : b = (job[p.by].bad \/ ~ok)
      OBVIOUS
  <2>5. /\ job'[p.by].step = "upload" /\ job'[p.by].todo = job[p.by].todo
        /\ job'[p.by].known = job[p.by].known /\ job'[p.by].bad = b
      BY <1>1, <2>2, <2>4, JobFields DEF Job
  <2>6. \A s \in Sessions : NoneTakes(s)
      BY <2>1, <2>3, <2>5 DEF NoneTakes, Holds
  <2>7. job'[p.by].bad <=> job[p.by].bad \/ ~ok
      BY <2>4, <2>5
  <2> QED BY <1>3, <2>1, <2>3, <2>5, <2>6, <2>7
<1> QED BY <1>2, <1>3

\* Steps that let no thread wait and touch no post.
LEMMA SetSound ==
    ASSUME OverlapInv, NEW j \in Threads, NEW c, Set(j, c), c.step \notin {"upload", "wait"},
           job[j].step # "wait", UNCHANGED <<local, raw, post, overlap>>
    PROVE  Sound'
<1>1. /\ \A s \in Sessions : NoneTakes(s)
      /\ \A k \in Threads \ {j} : job'[k] = job[k]
    BY SetTakesNone DEF OverlapInv, TypeInv
<1>2. \A p \in post : p.by \in Threads
    BY PostFields DEF OverlapInv, TypeInv, TypeOK
<1>3. WaitInv'
    BY <1>1, <1>2 DEF OverlapInv, Sound, WaitInv
<1>4. \A s \in Sessions \ overlap : SoundAt(s)'
    BY <1>1, KeptAt DEF OverlapInv, Sound
<1> QED BY <1>3, <1>4 DEF OverlapInv, Sound

LEMMA ThreadSound ==
    ASSUME OverlapInv, NEW j \in Threads, Thread(j) PROVE Sound'
<1>0. /\ TypeOK /\ job \in [Threads -> Job] /\ job[j] \in Job
      /\ \A p \in post : p.by \in Threads
    BY PostFields DEF OverlapInv, TypeInv, TypeOK
<1>1. WaitInv /\ (\A s \in Sessions : local[s] >= 1) /\ \A s \in Sessions \ overlap : SoundAt(s)
    BY DEF OverlapInv, Sound
<1>2. CASE (j # Ask /\ (Claim(j) \/ GiveUp(j) \/ Finish(j))) \/ (j = Ask /\ EndAsk)
  <2>1. PICK c : Set(j, c) /\ c \in {Idle, [job[j] EXCEPT !.step = "list"], [job[j] EXCEPT !.step = "giveup"]}
      BY <1>2 DEF Claim, GiveUp, Finish, EndAsk
  <2>2. c.step \notin {"upload", "wait"}
      BY <1>0, <2>1, JobFields DEF Idle, Job
  <2>3. job[j].step # "wait" /\ UNCHANGED <<local, raw, post, overlap>>
      BY <1>2 DEF Claim, GiveUp, Finish, EndAsk, files, server, history
  <2> QED BY <2>1, <2>2, <2>3, SetSound
<1>3. CASE List(j)
  <2>1. UNCHANGED <<local, raw, post>> /\ job[j].step = "list"
      BY <1>3 DEF List, files, server
  <2>2. CASE Set(j, [job[j] EXCEPT !.step = "giveup"]) /\ overlap' = overlap
    <3>1. [job[j] EXCEPT !.step = "giveup"].step = "giveup"
        BY <1>0, JobFields DEF Job
    <3> QED BY <2>1, <2>2, <3>1, SetSound
  <2>3. ASSUME NEW known \in Manifests(job[j].todo),
               Set(j, [job[j] EXCEPT !.step = "upload", !.known = known]),
               overlap' = overlap \cup (job[j].todo \cap Busy)
        PROVE  Sound'
    <3>1. /\ job'[j].step = "upload" /\ job'[j].todo = job[j].todo /\ job'[j].known = known
          /\ \A k \in Threads \ {j} : job'[k] = job[k]
        BY <1>0, <2>3, JobFields DEF Set, Job
    <3>2. \A s \in Sessions : known[s] \in {0, raw[s].sha}
        BY DEF Manifests
    <3>3. WaitInv'
        BY <1>0, <1>1, <2>1, <3>1 DEF WaitInv
    <3>4. ASSUME NEW s \in Sessions \ overlap, s \notin job[j].todo PROVE SoundAt(s)'
      <4>1. NoneTakes(s)
          BY <3>1, <3>4 DEF NoneTakes, Holds
      <4> QED BY <1>1, <2>1, <4>1, KeptAt
    <3>5. ASSUME NEW s \in Sessions \ overlap, s \in job[j].todo, s \notin Busy PROVE SoundAt(s)'
      <4>1. (\A k \in Threads : ~Holds(k, s)) /\ \A p \in post : p.of # s
          BY <3>5, BusyIsHeld
      <4>2. \A k \in Threads : Holds(k, s)' => k = j
          BY <3>1, <4>1 DEF Holds
      <4>3. Alone(s)'
          BY <2>1, <4>1, <4>2 DEF Alone
      <4> QED BY <1>1, <2>1, <3>1, <3>2, <4>1, <4>2, <4>3 DEF SoundAt
    <3> QED BY <1>1, <2>1, <2>3, <3>3, <3>4, <3>5 DEF Sound
  <2> QED BY <1>3, <2>2, <2>3 DEF List
<1>4. ASSUME NEW s \in Sessions, UploadSession(j, s) PROVE Sound'
  <2>1. UNCHANGED <<local, raw, overlap>> /\ job[j].step = "upload" /\ s \in job[j].todo
      BY <1>4 DEF UploadSession, files, server, history
  <2>2. /\ job'[j].todo = job[j].todo \ {s} /\ job'[j].known = [job[j].known EXCEPT ![s] = 0]
        /\ job'[j].step \in {"upload", "wait"}
        /\ PostTranscript(j, s) => job'[j].step = "wait"
        /\ job'[j].step = "wait" => PostTranscript(j, s)
        /\ \A k \in Threads \ {j} : job'[k] = job[k]
    <3>1. CASE PostTranscript(j, s)
        BY <1>0, <2>1, <3>1, JobFields DEF PostTranscript, Set, Job
    <3>2. ASSUME Unreadable(j, s) \/ Skip(j, s)
          PROVE  /\ job'[j].todo = job[j].todo \ {s} /\ job'[j].known = [job[j].known EXCEPT ![s] = 0]
                 /\ job'[j].step = "upload" /\ post' = post
                 /\ \A k \in Threads \ {j} : job'[k] = job[k]
      <4>1. CASE Unreadable(j, s)
          BY <1>0, <2>1, <4>1, JobFields DEF Unreadable, Set, Job
      <4>2. CASE Skip(j, s)
          BY <1>0, <2>1, <4>2, JobFields DEF Skip, Set, Job
      <4> QED BY <3>2, <4>1, <4>2
    <3>3. CASE PostTranscript(j, s)
        BY <3>1, <3>3
    <3>4. CASE ~PostTranscript(j, s)
        BY <1>4, <3>2, <3>4 DEF UploadSession
    <3> QED BY <3>3, <3>4
  <2>3. \A x \in Sessions : NoneTakes(x)
      BY <1>0, <2>1, <2>2, JobFields DEF NoneTakes, Holds
  <2>4. CASE post' = post
    <3>1. WaitInv'
        BY <1>0, <1>1, <2>1, <2>2, <2>4 DEF WaitInv
    <3> QED BY <1>1, <2>1, <2>3, <2>4, <3>1, KeptAt DEF Sound
  <2>5. CASE PostTranscript(j, s)
    <3>1. PICK p : /\ post' = post \cup {p} /\ p.by = j /\ p.of = s /\ p.sha = local[s]
                   /\ p.body = Body(j, s) /\ p.waited /\ p.stage = "new" /\ ~p.seen
      <4> DEFINE q == [by |-> j, of |-> s, sha |-> local[s], body |-> Body(j, s), waited |-> TRUE,
                       stage |-> "new", seen |-> FALSE]
      <4>1. post' = post \cup {q}
          BY <2>5 DEF PostTranscript
      <4>2. /\ q.by = j /\ q.of = s /\ q.sha = local[s] /\ q.body = Body(j, s) /\ q.waited
            /\ q.stage = "new" /\ ~q.seen
          OBVIOUS
      <4> HIDE DEF q
      <4> QED BY <4>1, <4>2
    <3>2. WaitInv'
        BY <1>0, <1>1, <2>1, <2>2, <2>5, <3>1 DEF WaitInv
    <3>3. ASSUME NEW x \in Sessions \ overlap, x # s PROVE SoundAt(x)'
        BY <1>1, <2>1, <2>3, <3>1, <3>3, KeptAt
    <3>4. ASSUME s \notin overlap PROVE SoundAt(s)'
      <4>1. SoundAt(s) /\ Holds(j, s)
          BY <1>1, <2>1, <3>4 DEF Holds
      <4>2. \A k \in Threads : ~Holds(k, s)'
          BY <2>2, <4>1 DEF Holds, SoundAt, Alone
      <4>3. \A q \in post' : q.of = s => q = p
          BY <3>1, <4>1 DEF SoundAt, Alone
      <4>4. Fits(p)'
          BY <1>1, <2>1, <3>1, <4>1 DEF Fits, Body, SoundAt
      <4>5. Alone(s)'
          BY <4>2, <4>3 DEF Alone
      <4> QED BY <2>1, <4>1, <4>2, <4>3, <4>4, <4>5 DEF SoundAt
    <3> QED BY <1>1, <2>1, <3>2, <3>3, <3>4 DEF Sound
  <2> QED BY <1>4, <2>4, <2>5 DEF UploadSession, Unreadable, Skip
<1> QED BY <1>2, <1>3, <1>4 DEF Thread

LEMMA HandlerSound ==
    ASSUME OverlapInv, NEW p \in post, LosePost(p) \/ Handler(p) PROVE Sound'
<1>0. /\ p.of \in Sessions /\ p.by \in Threads /\ raw \in [Sessions -> [sha : Ver, body : Ver]]
      /\ p \in Post /\ \A q \in post : q.by \in Threads
    BY PostFields DEF OverlapInv, TypeInv, TypeOK
<1>1. WaitInv /\ (\A s \in Sessions : local[s] >= 1) /\ \A s \in Sessions \ overlap : SoundAt(s)
    BY DEF OverlapInv, Sound
\* The post is gone or no longer waited for.
<1>2. ASSUME NEW ok \in BOOLEAN, Answered(p, ok),
             \A q \in post' : q.waited => q \in post \ {p}
      PROVE  WaitInv' /\ \A s \in Sessions : NoneTakes(s)
  <2>1. \A k \in Threads : (p.waited /\ k = p.by) \/ job'[k] = job[k]
      BY <1>2, AnsweredFrame
  <2>2. \A q \in post' : q.waited => q \in post /\ ~(p.waited /\ q.by = p.by)
      BY <1>1, <1>2 DEF WaitInv
  <2>3. WaitInv'
      BY <1>0, <1>1, <1>2, <2>1, <2>2 DEF WaitInv
  <2> QED BY <1>2, <2>3, AnsweredFrame
<1>3. CASE LosePost(p)
  <2>1. PICK q : q = [p EXCEPT !.waited = FALSE]
      OBVIOUS
  <2>2. /\ ~q.waited /\ q.of = p.of /\ q.by = p.by /\ q.sha = p.sha /\ q.body = p.body
        /\ q.stage = p.stage /\ q.seen = p.seen
      BY <1>0, <2>1 DEF Post
  <2>3. /\ Answered(p, FALSE) /\ post' \subseteq (post \ {p}) \cup {q}
        /\ UNCHANGED <<local, raw, overlap>>
      BY <1>3, <2>1 DEF LosePost, files, server, history
  <2>4. \A x \in post' : x.waited => x \in post \ {p}
      BY <2>2, <2>3
  <2>5. WaitInv' /\ \A s \in Sessions : NoneTakes(s)
      BY <1>2, <2>3, <2>4
  <2>6. ASSUME NEW s \in Sessions \ overlap PROVE SoundAt(s)'
    <3>1. CASE p.of # s
        BY <1>1, <2>2, <2>3, <2>5, <3>1, KeptAt
    <3>2. CASE p.of = s
      <4>1. Fits(q)'
          BY <1>1, <2>2, <2>3, <3>2 DEF SoundAt, Fits
      <4> QED BY <1>1, <2>2, <2>3, <2>5, <4>1, EditedAt
    <3> QED BY <3>1, <3>2
  <2> QED BY <1>1, <2>3, <2>5, <2>6 DEF Sound
<1>4. CASE Register(p)
  <2>1. UNCHANGED <<local, raw, overlap>>
      BY <1>4 DEF Register, files, history
  <2>2. CASE post' = post \ {p} /\ Answered(p, FALSE)
    <3>1. WaitInv' /\ \A s \in Sessions : NoneTakes(s)
        BY <1>2, <2>2
    <3> QED BY <1>1, <2>1, <2>2, <3>1, KeptAt DEF Sound
  <2>3. ASSUME job' = job, NEW q, q = [p EXCEPT !.stage = "registered", !.seen = raw[p.of].sha = p.sha],
               post' = (post \ {p}) \cup {q}
        PROVE  Sound'
    <3>1. /\ q.waited = p.waited /\ q.of = p.of /\ q.by = p.by /\ q.sha = p.sha /\ q.body = p.body
          /\ q.stage = "registered" /\ (q.seen <=> raw[p.of].sha = p.sha)
        BY <1>0, <2>3 DEF Post
    <3>2. WaitInv'
      <4>1. ASSUME NEW x \in post', x.waited PROVE job'[x.by].step = "wait"
          BY <1>1, <2>3, <3>1, <4>1 DEF WaitInv
      <4>2. ASSUME NEW x \in post', NEW y \in post', x.waited, y.waited, x.by = y.by PROVE x = y
        <5>1. x = q \/ x \in post \ {p}
            BY <2>3
        <5>2. y = q \/ y \in post \ {p}
            BY <2>3
        <5> QED BY <1>1, <3>1, <4>2, <5>1, <5>2 DEF WaitInv
      <4> QED BY <4>1, <4>2 DEF WaitInv
    <3>3. \A s \in Sessions : NoneTakes(s)
        BY <2>3 DEF NoneTakes, Holds
    <3>4. ASSUME NEW s \in Sessions \ overlap PROVE SoundAt(s)'
      <4>1. CASE p.of # s
          BY <1>1, <2>1, <2>3, <3>1, <3>3, <4>1, KeptAt
      <4>2. CASE p.of = s
        <5>1. Fits(q)'
            BY <1>1, <2>1, <3>1, <4>2 DEF SoundAt, Fits
        <5> QED BY <1>1, <2>1, <2>3, <3>1, <3>3, <5>1, EditedAt
      <4> QED BY <4>1, <4>2
    <3> QED BY <1>1, <2>1, <3>2, <3>4 DEF Sound
  <2> QED BY <1>4, <2>2, <2>3 DEF Register
<1>5. CASE Store(p)
  <2>1. /\ Answered(p, TRUE) /\ post' = post \ {p} /\ UNCHANGED <<local, overlap>>
        /\ \A s \in Sessions \ {p.of} : raw'[s] = raw[s]
      BY <1>0, <1>5 DEF Store, files, history
  <2>2. WaitInv' /\ \A s \in Sessions : NoneTakes(s)
      BY <1>2, <2>1
  <2>3. ASSUME NEW s \in Sessions \ overlap, p.of # s PROVE SoundAt(s)'
      BY <1>1, <2>1, <2>2, <2>3, KeptAt
  <2>4. ASSUME p.of \notin overlap PROVE SoundAt(p.of)'
    <3>1. PICK s \in Sessions \ overlap : s = p.of
        BY <1>0, <2>4
    <3>2. SoundAt(s) /\ Fits(p)
        BY <1>1, <3>1 DEF SoundAt
    <3>3. /\ \A q \in post' : q.of # s
          /\ \A k \in Threads : ~Holds(k, s)'
        BY <2>1, <2>2, <3>1, <3>2 DEF SoundAt, Alone, NoneTakes
    <3>4. Alone(s)'
        BY <3>3 DEF Alone
    <3>5. raw'[s].body = raw'[s].sha
      <4>1. CASE raw'[s] = raw[s]
          BY <3>2, <4>1 DEF SoundAt
      <4>2. CASE raw'[s] = [sha |-> p.sha, body |-> p.body] /\ p.body = p.sha
          BY <4>2
      <4>3. raw'[s] = raw[s] \/ (raw'[s] = [sha |-> p.sha, body |-> p.body] /\ p.body = p.sha)
          BY <1>0, <1>5, <3>1, <3>2 DEF Store, Fits
      <4> QED BY <4>1, <4>2, <4>3
    <3>6. SoundAt(s)'
        BY <3>3, <3>4, <3>5 DEF SoundAt
    <3> QED BY <3>1, <3>6
  <2> QED BY <1>1, <2>1, <2>2, <2>3, <2>4 DEF Sound
<1> QED BY <1>3, <1>4, <1>5 DEF Handler

LEMMA OverlapStep == OverlapInv /\ [Next]_vars => OverlapInv'
<1> SUFFICES ASSUME OverlapInv, [Next]_vars PROVE Sound'
    BY TypeStep DEF OverlapInv
<1>0. /\ TypeOK /\ \A p \in post : p.by \in Threads
    BY PostFields DEF OverlapInv, TypeInv, TypeOK
<1>1. WaitInv /\ (\A s \in Sessions : local[s] >= 1) /\ \A s \in Sessions \ overlap : SoundAt(s)
    BY DEF OverlapInv, Sound
<1>2. ASSUME UNCHANGED <<raw, post, job, overlap>>, \A s \in Sessions : local'[s] >= 1
      PROVE  Sound'
  <2>1. \A s \in Sessions : NoneTakes(s)
      BY <1>2 DEF NoneTakes, Holds
  <2>2. WaitInv'
      BY <1>1, <1>2 DEF WaitInv
  <2> QED BY <1>1, <1>2, <2>1, <2>2, KeptAt DEF Sound
<1>3. CASE UNCHANGED vars
    BY <1>1, <1>2, <1>3 DEF vars, files, server, history
<1>4. ASSUME NEW s \in Sessions, HalfWrite(s) \/ EndLine(s) PROVE Sound'
  <2>1. \A x \in Sessions : local'[x] >= 1
      BY <1>0, <1>1, <1>4, ClientAssumption DEF HalfWrite, EndLine, TypeOK, Ver
  <2> QED BY <1>2, <1>4, <2>1 DEF HalfWrite, EndLine, server, history
<1>5. ASSUME NEW s \in Sessions, AskUpload(s) PROVE Sound'
  <2>1. PICK c : c = [Idle EXCEPT !.step = "list", !.todo = {s}]
      OBVIOUS
  <2>2. Set(Ask, c) /\ c.step = "list" /\ job[Ask].step = "idle" /\ Ask \in Threads
      BY <1>5, <2>1 DEF AskUpload, Idle, Threads
  <2> QED BY <1>5, <2>2, SetSound DEF AskUpload, files, server, history
<1>6. ASSUME NEW r \in Requests, NEW S \in Scopes, Create(r, S) PROVE Sound'
    BY <1>1, <1>2, <1>6 DEF Create, files
<1>7. CASE Connect \/ Fetch \/ Disconnect
    BY <1>1, <1>2, <1>7 DEF Connect, Fetch, Disconnect, files, server, history
<1>8. CASE Crash
  <2>1. /\ UNCHANGED <<local, raw, overlap>>
        /\ \A k \in Threads : job'[k] = Idle
        /\ post' = {[p EXCEPT !.waited = FALSE] : p \in post}
      BY <1>8 DEF Crash, files, server
  <2>2. \A k \in Threads, s \in Sessions : ~Holds(k, s)'
      BY <2>1 DEF Holds, Idle
  <2>3. ASSUME NEW x \in post'
        PROVE  ~x.waited /\ \E p \in post : /\ x = [p EXCEPT !.waited = FALSE]
                                            /\ x.of = p.of /\ x.sha = p.sha /\ x.body = p.body
                                            /\ x.stage = p.stage /\ x.seen = p.seen
    <3>1. PICK p \in post : x = [p EXCEPT !.waited = FALSE]
        BY <2>1
    <3>2. p \in Post
        BY <1>0 DEF TypeOK
    <3> QED BY <3>1, <3>2 DEF Post
  <2>4. WaitInv'
      BY <2>3 DEF WaitInv
  <2>5. ASSUME NEW s \in Sessions \ overlap PROVE SoundAt(s)'
    <3>1. SoundAt(s)
        BY <1>1
    <3>2. \A x, y \in post' : x.of = s /\ y.of = s => x = y
      <4>1. ASSUME NEW x \in post', NEW y \in post', x.of = s, y.of = s PROVE x = y
        <5>1. PICK p \in post : x = [p EXCEPT !.waited = FALSE] /\ p.of = s
            BY <2>3, <4>1
        <5>2. PICK q \in post : y = [q EXCEPT !.waited = FALSE] /\ q.of = s
            BY <2>3, <4>1
        <5>3. p = q
            BY <3>1, <5>1, <5>2 DEF SoundAt, Alone
        <5> QED BY <5>1, <5>2, <5>3
      <4> QED BY <4>1
    <3>3. Alone(s)'
        BY <2>2, <3>2 DEF Alone
    <3>4. \A x \in post' : x.of = s => Fits(x)'
        BY <2>1, <2>3, <3>1 DEF SoundAt, Fits
    <3> QED BY <2>1, <2>2, <3>1, <3>3, <3>4 DEF SoundAt
  <2> QED BY <1>1, <2>1, <2>4, <2>5 DEF Sound
<1>9. ASSUME NEW c \in commands, HandleCommand(c) PROVE Sound'
  <2>1. c[1] \in Threads
      BY <1>0 DEF TypeOK, Threads
  <2>2. CASE job' = job
      BY <1>1, <1>2, <1>9, <2>2 DEF HandleCommand, files, server, history
  <2>3. CASE job' # job
    <3>1. PICK d : d = [Idle EXCEPT !.step = "claim", !.todo = scope[c[1]]]
        OBVIOUS
    <3>2. Set(c[1], d) /\ d.step = "claim" /\ job[c[1]].step = "idle"
        BY <1>9, <2>3, <3>1 DEF HandleCommand, Idle
    <3> QED BY <1>9, <2>1, <3>2, SetSound DEF HandleCommand, files, server, history
  <2> QED BY <2>2, <2>3
<1> QED
    BY <1>3, <1>4, <1>5, <1>6, <1>7, <1>8, <1>9, ThreadSound, HandlerSound DEF Next, Handling

LEMMA OverlapInit == Init => OverlapInv
<1> SUFFICES ASSUME Init PROVE Sound
    BY TypeInit DEF OverlapInv
<1>1. \A s \in Sessions, j \in Threads : ~Holds(j, s)
    BY DEF Init, Holds, Idle
<1>2. \A s \in Sessions : SoundAt(s)
    BY <1>1 DEF Init, SoundAt, Alone
<1> QED BY <1>2 DEF Init, Sound, WaitInv

\* The content of a session is replaced by an empty one only if two uploads of
\* the session were at work at once: one of them had looked at the manifest
\* before the other changed the row (upload_conversations and
\* upload_session_transcript).
THEOREM ErasureNeedsOverlap == Spec => []ErasedOnlyByOverlap
<1>1. OverlapInv => ErasedOnlyByOverlap
    BY DEF OverlapInv, Sound, SoundAt, ErasedOnlyByOverlap
<1> QED BY <1>1, OverlapInit, OverlapStep, PTL DEF Spec

-----------------------------------------------------------------------------
(* DoneIsUploaded: a thread has every session of its request still to do, in  *)
(* its post, uploaded, or else it knows that one failed.                      *)

\* The upload of a session for a request is through, and stays so.
Done(r, s) ==
    /\ child[r][s] >= due[r][s]
    /\ \/ s \in overlap
       \/ /\ raw[s].sha >= due[r][s]
          /\ \A p \in post : p.of = s => p.sha >= due[r][s]

Sending(r, s) == \E p \in post : p.by = r /\ p.of = s /\ p.waited

Covered(r) ==
    /\ job[r].step \in {"claim", "list"} => job[r].todo = scope[r]
    /\ job[r].step \in {"upload", "wait"} =>
         \/ job[r].bad
         \/ \A s \in scope[r] : s \in job[r].todo \/ Sending(r, s) \/ Done(r, s)
    /\ status[r] = "stored" => \A s \in scope[r] : Done(r, s)

\* Nothing is done for a request before it is made.
NotYet(r) ==
    status[r] = "none" =>
        /\ job[r].step = "idle"
        /\ \A c \in commands : c[1] # r
        /\ \A p \in post : p.by # r

\* A post is as new as the request it is for, and so is its row.
Recent(r) ==
    /\ \A s \in Sessions : due[r][s] <= local[s]
    /\ \A p \in post : p.by = r =>
          /\ p.sha >= due[r][p.of]
          /\ p.stage = "registered" => child[r][p.of] >= due[r][p.of]

Uploading == \A r \in Requests : Covered(r) /\ NotYet(r) /\ Recent(r)

UploadInv == OverlapInv /\ Uploading

LEMMA Numbers ==
    ASSUME UploadInv
    PROVE  /\ TypeOK /\ Ver \subseteq Nat
           /\ \A r \in Requests : r \in Threads /\ job[r] \in Job /\ r # Ask
           /\ \A r \in Requests, s \in Sessions : due[r][s] \in Nat /\ child[r][s] \in Nat
           /\ \A s \in Sessions : local[s] \in Nat /\ raw[s].sha \in Nat
           /\ \A p \in post : p.sha \in Nat /\ p.of \in Sessions /\ p.by \in Threads
           /\ \A r \in Requests : scope[r] \subseteq Sessions /\ job[r].todo \subseteq Sessions
<1>1. TypeOK /\ Ver \subseteq Nat /\ Ask \notin Requests
    BY ClientAssumption DEF UploadInv, OverlapInv, TypeInv, Ver
<1>2. \A r \in Requests : r \in Threads /\ job[r] \in Job /\ r # Ask
    BY <1>1 DEF TypeOK, Threads
<1>3. \A p \in post : p.sha \in Ver /\ p.of \in Sessions /\ p.by \in Threads
    BY <1>1, PostFields DEF TypeOK
<1>4. \A r \in Requests, s \in Sessions : due[r][s] \in Ver /\ child[r][s] \in Ver
    BY <1>1 DEF TypeOK
<1>5. \A s \in Sessions : local[s] \in Ver /\ raw[s].sha \in Ver
    BY <1>1 DEF TypeOK
<1>6. \A r \in Requests : scope[r] \subseteq Sessions /\ job[r].todo \subseteq Sessions
    BY <1>1, <1>2, JobFields DEF TypeOK
<1> QED BY <1>1, <1>2, <1>3, <1>4, <1>5, <1>6

\* What a step may do to the rows and the posts without undoing an upload.
RowsStay ==
    /\ overlap \subseteq overlap'
    /\ \A r \in Requests : due'[r] = due[r] \/ status[r] = "none"
    /\ \A r \in Requests, s \in Sessions :
          \/ child'[r][s] = child[r][s]
          \/ \E p \in post : p.by = r /\ p.of = s /\ child'[r][s] = p.sha
    /\ \A s \in Sessions : \/ raw'[s].sha = raw[s].sha
                           \/ \E p \in post : p.of = s /\ raw'[s].sha = p.sha
    /\ \A p \in post' : \/ p.sha = local[p.of] /\ p.of \in Sessions
                        \/ \E q \in post : q.of = p.of /\ q.sha = p.sha

LEMMA DoneStays ==
    ASSUME UploadInv, RowsStay, NEW r \in Requests, status[r] # "none", NEW s \in Sessions, Done(r, s)
    PROVE  Done(r, s)'
<1>1. due'[r] = due[r] /\ Recent(r)
    BY DEF RowsStay, UploadInv, Uploading
<1>2. child'[r][s] >= due[r][s]
    BY <1>1, Numbers DEF RowsStay, Done, Recent
<1>3. CASE s \in overlap
    BY <1>1, <1>2, <1>3 DEF Done, RowsStay
<1>4. CASE s \notin overlap
  <2>1. raw'[s].sha >= due[r][s]
      BY <1>4, Numbers DEF RowsStay, Done
  <2>2. \A p \in post' : p.of = s => p.sha >= due[r][s]
      BY <1>1, <1>4, Numbers DEF RowsStay, Done, Recent
  <2> QED BY <1>1, <1>2, <2>1, <2>2 DEF Done
<1> QED BY <1>3, <1>4

LEMMA QuietRows ==
    ASSUME UNCHANGED <<child, raw>>, overlap \subseteq overlap', post' \subseteq post,
           \A r \in Requests : due'[r] = due[r] \/ status[r] = "none"
    PROVE  RowsStay
BY DEF RowsStay

\* A request that a step is not about.
LEMMA RequestKept ==
    ASSUME UploadInv, RowsStay, NEW r \in Requests,
           due'[r] = due[r], scope'[r] = scope[r], child'[r] = child[r],
           status'[r] = status[r], job'[r] = job[r],
           \A s \in Sessions : local'[s] \in Nat /\ local[s] <= local'[s],
           \A c \in commands' : c[1] = r => c \in commands \/ status[r] # "none",
           \A p : p.by = r => (p \in post <=> p \in post')
    PROVE  Covered(r)' /\ NotYet(r)' /\ Recent(r)'
<1>1. Covered(r) /\ NotYet(r) /\ Recent(r)
    BY DEF UploadInv, Uploading
<1>2. NotYet(r)'
    BY <1>1 DEF NotYet
<1>3. Recent(r)'
    BY <1>1, Numbers DEF Recent
<1>4. \A s \in Sessions : Sending(r, s)' <=> Sending(r, s)
    BY DEF Sending
<1>5. CASE status[r] = "none"
  <2>1. job'[r].step = "idle" /\ status'[r] = "none"
      BY <1>1, <1>5 DEF NotYet
  <2> QED BY <1>2, <1>3, <2>1 DEF Covered
<1>6. CASE status[r] # "none"
  <2>1. \A s \in Sessions : Done(r, s) => Done(r, s)'
      BY <1>6, DoneStays
  <2>2. scope[r] \subseteq Sessions
      BY Numbers
  <2>3. job'[r].step \in {"upload", "wait"} =>
           \/ job'[r].bad
           \/ \A s \in scope[r] : s \in job'[r].todo \/ Sending(r, s)' \/ Done(r, s)'
      BY <1>1, <1>4, <2>1, <2>2 DEF Covered
  <2>4. status'[r] = "stored" => \A s \in scope[r] : Done(r, s)'
      BY <1>1, <2>1, <2>2 DEF Covered
  <2> QED BY <1>1, <1>2, <1>3, <2>3, <2>4 DEF Covered
<1> QED BY <1>2, <1>3, <1>5, <1>6

\* A request whose thread a step moves, without touching rows and posts.
LEMMA RequestMoved ==
    ASSUME UploadInv, NEW r \in Requests, status[r] # "none",
           status'[r] # "none", UNCHANGED <<local, child, raw, post, scope, due>>,
           overlap \subseteq overlap',
           job'[r].step \in {"claim", "list"} => job'[r].todo = scope[r],
           job'[r].step \in {"upload", "wait"} =>
              job[r].step = "list" /\ job'[r].todo = job[r].todo,
           status'[r] = "stored" => \A s \in scope[r] : Done(r, s)
    PROVE  Covered(r)' /\ NotYet(r)' /\ Recent(r)'
<1>1. Covered(r) /\ NotYet(r) /\ Recent(r)
    BY DEF UploadInv, Uploading
<1>2. RowsStay
    BY QuietRows
<1>3. \A s \in Sessions : Done(r, s) => Done(r, s)'
    BY <1>2, DoneStays
<1>4. Covered(r)'
    BY <1>1, <1>3, Numbers DEF Covered
<1> QED BY <1>1, <1>4 DEF NotYet, Recent

LEMMA WindowUploading ==
    ASSUME UploadInv, NEW r \in Requests,
           \/ \E s \in Sessions : HalfWrite(s) \/ EndLine(s) \/ AskUpload(s)
           \/ Connect \/ Fetch \/ Disconnect \/ UNCHANGED vars \/ EndAsk
    PROVE  Covered(r)' /\ NotYet(r)' /\ Recent(r)'
<1>1. UNCHANGED <<status, child, raw, post, scope, due, overlap>>
    BY DEF HalfWrite, EndLine, AskUpload, Connect, Fetch, Disconnect, EndAsk, vars, server, history
<1>2. RowsStay
    BY <1>1, QuietRows
<1>3. job'[r] = job[r]
    BY Numbers DEF HalfWrite, EndLine, AskUpload, Connect, Fetch, Disconnect, EndAsk, vars, Set, TypeOK
<1>4. \A s \in Sessions : local'[s] \in Nat /\ local[s] <= local'[s]
  <2>1. local' = local \/ \E s \in Sessions : local' = [local EXCEPT ![s] = @ + 1]
      BY DEF HalfWrite, EndLine, AskUpload, Connect, Fetch, Disconnect, EndAsk, vars, files
  <2> QED BY <2>1, Numbers DEF TypeOK
<1>5. \A c \in commands' : c[1] = r => c \in commands \/ status[r] # "none"
  <2>1. commands' \subseteq commands \cup (Pending \X {"list"})
      BY DEF HalfWrite, EndLine, AskUpload, Connect, Fetch, Disconnect, EndAsk, vars, window
  <2> QED BY <2>1 DEF Pending
<1> QED BY <1>1, <1>2, <1>3, <1>4, <1>5, RequestKept

LEMMA CreateUploading ==
    ASSUME UploadInv, NEW n \in Requests, NEW S \in Scopes, Create(n, S), NEW r \in Requests
    PROVE  Covered(r)' /\ NotYet(r)' /\ Recent(r)'
<1>1. /\ UNCHANGED <<local, child, raw, post, job, overlap>>
      /\ status[n] = "none" /\ status' = [status EXCEPT ![n] = "pending"]
      /\ scope' = [scope EXCEPT ![n] = S] /\ due' = [due EXCEPT ![n] = local]
      /\ commands' \subseteq commands \cup {<<n, "frame">>}
    BY DEF Create, files
<1>2. Covered(r) /\ NotYet(r) /\ Recent(r) /\ TypeOK
    BY Numbers DEF UploadInv, Uploading
<1>3. CASE r # n
  <2>1. due'[r] = due[r] /\ scope'[r] = scope[r] /\ status'[r] = status[r]
      BY <1>1, <1>2, <1>3 DEF TypeOK
  <2>2. RowsStay
      BY <1>1, <1>2, QuietRows DEF TypeOK
  <2>3. \A c \in commands' : c[1] = r => c \in commands
      BY <1>1, <1>3
  <2> QED BY <1>1, <2>1, <2>2, <2>3, Numbers, RequestKept
<1>4. CASE r = n
  <2>1. job'[r].step = "idle" /\ status'[r] = "pending" /\ \A p \in post' : p.by # r
      BY <1>1, <1>2, <1>4 DEF NotYet, TypeOK
  <2>2. \A s \in Sessions : due'[r][s] <= local'[s]
      BY <1>1, <1>2, <1>4, Numbers DEF TypeOK
  <2> QED BY <2>1, <2>2 DEF Covered, NotYet, Recent
<1> QED BY <1>3, <1>4

LEMMA CrashUploading ==
    ASSUME UploadInv, Crash, NEW r \in Requests
    PROVE  Covered(r)' /\ NotYet(r)' /\ Recent(r)'
<1>1. /\ UNCHANGED <<local, status, child, raw, scope, due, overlap>> /\ commands' = {}
      /\ job'[r].step = "idle"
      /\ post' = {[p EXCEPT !.waited = FALSE] : p \in post}
    BY Numbers DEF Crash, files, server, Idle
<1>2. Covered(r) /\ NotYet(r) /\ Recent(r) /\ TypeOK
    BY Numbers DEF UploadInv, Uploading
<1>3. ASSUME NEW x \in post'
      PROVE  \E p \in post : x.by = p.by /\ x.of = p.of /\ x.sha = p.sha /\ x.stage = p.stage
  <2>1. PICK p \in post : x = [p EXCEPT !.waited = FALSE]
      BY <1>1
  <2>2. p \in Post
      BY <1>2 DEF TypeOK
  <2> QED BY <2>1, <2>2 DEF Post
<1>4. RowsStay
    BY <1>1, <1>3 DEF RowsStay
<1>5. Covered(r)'
    BY <1>1, <1>2, <1>4, DoneStays, Numbers DEF Covered
<1>6. NotYet(r)' /\ Recent(r)'
    BY <1>1, <1>2, <1>3 DEF NotYet, Recent
<1> QED BY <1>5, <1>6

LEMMA CommandUploading ==
    ASSUME UploadInv, NEW c \in commands, HandleCommand(c), NEW r \in Requests
    PROVE  Covered(r)' /\ NotYet(r)' /\ Recent(r)'
<1>1. /\ UNCHANGED <<local, status, child, raw, post, scope, due, overlap>>
      /\ commands' \subseteq commands /\ c[1] \in Requests
    BY Numbers DEF HandleCommand, files, server, history, TypeOK
<1>2. Covered(r) /\ NotYet(r) /\ Recent(r) /\ TypeOK
    BY Numbers DEF UploadInv, Uploading
<1>3. RowsStay
    BY <1>1, QuietRows
<1>4. CASE job'[r] = job[r]
    BY <1>1, <1>3, <1>4, Numbers, RequestKept
<1>5. CASE job'[r] # job[r]
  <2>1. r = c[1] /\ job'[r].step = "claim" /\ job'[r].todo = scope[r]
    <3>1. PICK d : /\ job' = [job EXCEPT ![c[1]] = d] \/ job' = job
                   /\ d.step = "claim" /\ d.todo = scope[c[1]]
      <4>1. PICK d : d = [Idle EXCEPT !.step = "claim", !.todo = scope[c[1]]]
          OBVIOUS
      <4>2. d.step = "claim" /\ d.todo = scope[c[1]]
          BY <4>1 DEF Idle
      <4> QED BY <4>1, <4>2 DEF HandleCommand, Set
    <3> QED BY <1>2, <1>5, <3>1, Numbers DEF TypeOK
  <2>2. status[r] # "none"
      BY <1>2, <2>1 DEF NotYet
  <2>3. status'[r] = "stored" => \A s \in scope[r] : Done(r, s)
      BY <1>1, <1>2 DEF Covered
  <2> QED BY <1>1, <2>1, <2>2, <2>3, RequestMoved
<1> QED BY <1>4, <1>5

\* What a report may make of a request.
LEMMA ReportStatus ==
    ASSUME TypeOK, NEW r \in Requests, NEW new, NEW ok \in BOOLEAN, Report(r, new, ok)
    PROVE  status'[r] \in {status[r], new} /\ \A q \in Requests \ {r} : status'[q] = status[q]
<1>1. status' \in {status, [status EXCEPT ![r] = new]}
    BY DEF Report
<1> QED BY <1>1 DEF TypeOK

LEMMA ThreadUploading ==
    ASSUME UploadInv, NEW j \in Requests, NEW r \in Requests,
           Claim(j) \/ GiveUp(j) \/ Finish(j) \/ List(j)
    PROVE  Covered(r)' /\ NotYet(r)' /\ Recent(r)'
<1>1. /\ UNCHANGED <<local, child, raw, post, scope, due>> /\ commands' = commands
      /\ overlap \subseteq overlap'
    BY DEF Claim, GiveUp, Finish, List, files, server, window
<1>2. /\ Covered(r) /\ NotYet(r) /\ Recent(r) /\ TypeOK /\ WaitInv
      /\ j \in Threads /\ job[j] \in Job /\ job \in [Threads -> Job]
    BY Numbers DEF UploadInv, Uploading, OverlapInv, Sound, TypeOK
<1>3. RowsStay
    BY <1>1, QuietRows
<1>4. PICK c : /\ job' = [job EXCEPT ![j] = c]
               /\ c.step \in {"list", "giveup", "idle"}
                  \/ (c.step = "upload" /\ job[j].step = "list")
               /\ c.todo = job[j].todo \/ c.step = "idle"
               /\ c.step = "list" => job[j].step = "claim"
  <2>1. CASE Claim(j)
    <3>1. PICK c : c \in {[job[j] EXCEPT !.step = "list"], [job[j] EXCEPT !.step = "giveup"]} /\ Set(j, c)
        BY <2>1 DEF Claim
    <3>2. c.step \in {"list", "giveup"} /\ c.todo = job[j].todo /\ job[j].step = "claim"
        BY <1>2, <2>1, <3>1, JobFields DEF Claim, Job
    <3> QED BY <3>1, <3>2 DEF Set
  <2>2. CASE GiveUp(j) \/ Finish(j)
      BY <2>2 DEF GiveUp, Finish, Set, Idle
  <2>3. CASE List(j)
    <3>1. PICK c : /\ Set(j, c)
                   /\ \/ c = [job[j] EXCEPT !.step = "giveup"]
                      \/ \E known \in Manifests(job[j].todo) : c = [job[j] EXCEPT !.step = "upload", !.known = known]
        BY <2>3 DEF List
    <3>2. c.step \in {"upload", "giveup"} /\ c.todo = job[j].todo /\ job[j].step = "list"
        BY <1>2, <2>3, <3>1, JobFields DEF List, Job
    <3> QED BY <3>1, <3>2 DEF Set
  <2> QED BY <2>1, <2>2, <2>3
<1>5. /\ \A q \in Requests \ {j} : status'[q] = status[q]
      /\ status'[j] \in {status[j], "running", "failed", "stored"}
      /\ status'[j] \in {status[j], "running", "failed"}
         \/ (Finish(j) /\ ~job[j].bad)
    <2>1. CASE List(j)
        BY <2>1 DEF List, server
    <2>2. CASE Claim(j)
        BY <1>2, <2>2, ReportStatus DEF Claim
    <2>3. CASE GiveUp(j)
        BY <1>2, <2>3, ReportStatus DEF GiveUp
    <2>4. CASE Finish(j)
        BY <1>2, <2>4, ReportStatus DEF Finish
    <2> QED BY <2>1, <2>2, <2>3, <2>4
<1>6. CASE r # j
  <2>1. job'[r] = job[r] /\ status'[r] = status[r]
      BY <1>2, <1>4, <1>5, <1>6, Numbers
  <2> QED BY <1>1, <1>3, <2>1, Numbers, RequestKept
<1>7. CASE r = j
  <2>1. job'[r] = c
      BY <1>2, <1>4, <1>7
  <2>2. status[r] # "none" /\ status'[r] # "none"
      BY <1>2, <1>5, <1>7 DEF NotYet, Claim, GiveUp, Finish, List
  <2>3. ASSUME status'[r] = "stored" PROVE \A s \in scope[r] : Done(r, s)
    <3>1. CASE status[r] = "stored"
        BY <1>2, <3>1 DEF Covered
    <3>2. CASE Finish(r) /\ ~job[r].bad
      <4>1. \A s \in scope[r] : ~Sending(r, s)
          BY <1>2, <3>2 DEF Finish, Sending, WaitInv
      <4> QED BY <1>2, <3>2, <4>1 DEF Finish, Covered
    <3> QED BY <1>5, <1>7, <2>3, <3>1, <3>2
  <2>4. job'[r].step \in {"claim", "list"} => job'[r].todo = scope[r]
      BY <1>2, <1>4, <1>7, <2>1 DEF Covered
  <2>5. job'[r].step \in {"upload", "wait"} => job[r].step = "list" /\ job'[r].todo = job[r].todo
      BY <1>4, <1>7, <2>1
  <2> QED BY <1>1, <2>2, <2>3, <2>4, <2>5, RequestMoved
<1> QED BY <1>6, <1>7

LEMMA SessionUploading ==
    ASSUME UploadInv, NEW j \in Threads, NEW s \in Sessions, UploadSession(j, s), NEW r \in Requests
    PROVE  Covered(r)' /\ NotYet(r)' /\ Recent(r)'
<1>1. /\ UNCHANGED <<local, status, child, raw, scope, due, overlap>> /\ commands' = commands
      /\ job[j].step = "upload" /\ s \in job[j].todo
    BY DEF UploadSession, files, server, window, history
<1>2. /\ Covered(r) /\ NotYet(r) /\ Recent(r) /\ TypeOK
      /\ job[j] \in Job /\ job \in [Threads -> Job] /\ r \in Threads
    BY Numbers DEF UploadInv, Uploading, TypeOK
<1>3. PICK c : /\ job' = [job EXCEPT ![j] = c]
               /\ c.step \in {"upload", "wait"} /\ c.todo = job[j].todo \ {s}
               /\ job[j].bad => c.bad
               /\ \/ post' = post /\ (c.bad \/ j = Ask)
                  \/ \E p : /\ post' = post \cup {p} /\ p.by = j /\ p.of = s /\ p.sha = local[s]
                            /\ p.waited /\ p.stage = "new"
  <2>1. CASE Unreadable(j, s)
    <3>1. PICK c : /\ c = [job[j] EXCEPT !.todo = @ \ {s}, !.known[s] = 0, !.index = Index(j), !.bad = TRUE]
                   /\ Set(j, c) /\ post' = post
        BY <2>1 DEF Unreadable
    <3>2. c.step = "upload" /\ c.todo = job[j].todo \ {s} /\ c.bad
        BY <1>1, <1>2, <3>1, JobFields DEF Job
    <3> QED BY <3>1, <3>2 DEF Set
  <2>2. CASE Skip(j, s)
    <3>1. PICK c : /\ c = [job[j] EXCEPT !.todo = @ \ {s}, !.known[s] = 0, !.index = Index(j)]
                   /\ Set(j, c) /\ post' = post /\ j = Ask
        BY <2>2 DEF Skip
    <3>2. c.step = "upload" /\ c.todo = job[j].todo \ {s} /\ c.bad = job[j].bad
        BY <1>1, <1>2, <3>1, JobFields DEF Job
    <3> QED BY <3>1, <3>2 DEF Set
  <2>3. CASE PostTranscript(j, s)
    <3>1. PICK c : /\ c = [job[j] EXCEPT !.todo = @ \ {s}, !.known[s] = 0, !.index = Index(j), !.step = "wait"]
                   /\ Set(j, c)
        BY <2>3 DEF PostTranscript
    <3>2. c.step = "wait" /\ c.todo = job[j].todo \ {s} /\ c.bad = job[j].bad
        BY <1>1, <1>2, <3>1, JobFields DEF Job
    <3>3. PICK p : /\ post' = post \cup {p}
                   /\ p = [by |-> j, of |-> s, sha |-> local[s], body |-> Body(j, s), waited |-> TRUE,
                           stage |-> "new", seen |-> FALSE]
        BY <2>3 DEF PostTranscript
    <3>4. p.by = j /\ p.of = s /\ p.sha = local[s] /\ p.waited /\ p.stage = "new"
        BY <3>3
    <3> QED BY <3>1, <3>2, <3>3, <3>4 DEF Set
  <2> QED BY <2>1, <2>2, <2>3 DEF UploadSession
<1>4. RowsStay
    BY <1>1, <1>3 DEF RowsStay
<1>5. CASE r # j
  <2>1. job'[r] = job[r] /\ \A p : p.by = r => (p \in post <=> p \in post')
      BY <1>2, <1>3, <1>5
  <2> QED BY <1>1, <1>4, <2>1, Numbers, RequestKept
<1>6. CASE r = j
  <2>1. job'[r] = c /\ status[r] # "none" /\ r # Ask
      BY <1>1, <1>2, <1>3, <1>6, Numbers DEF NotYet
  <2>2. Recent(r)'
      BY <1>1, <1>2, <1>3 DEF Recent
  <2>3. \A x \in Sessions : Done(r, x) => Done(r, x)'
      BY <1>4, <2>1, DoneStays
  <2>4. \A x : Sending(r, x) => Sending(r, x)'
      BY <1>3 DEF Sending
  <2>5. c.bad \/ Sending(r, s)'
      BY <1>3, <1>6, <2>1 DEF Sending
  <2>6. scope[r] \subseteq Sessions
      BY Numbers
  <2>7. status[r] = "stored" => \A x \in scope[r] : Done(r, x)'
      BY <1>2, <2>3, <2>6 DEF Covered
  <2>8. c.bad \/ \A x \in scope[r] : x \in c.todo \/ Sending(r, x)' \/ Done(r, x)'
      BY <1>1, <1>2, <1>3, <1>6, <2>3, <2>4, <2>5, <2>6 DEF Covered
  <2>9. Covered(r)'
      BY <1>1, <1>3, <2>1, <2>7, <2>8 DEF Covered
  <2> QED BY <1>1, <2>1, <2>2, <2>9 DEF NotYet
<1> QED BY <1>5, <1>6

\* A post that is answered or lost: its thread, if it still waits, knows that
\* it failed, or the session is uploaded.
LEMMA PostAnswered ==
    ASSUME UploadInv, RowsStay, NEW p \in post, NEW ok \in BOOLEAN, Answered(p, ok), NEW r \in Requests,
           UNCHANGED <<local, status, commands, scope, due, overlap>>,
           \A x \in post' : \/ x \in post
                            \/ x.by = p.by /\ x.of = p.of /\ x.sha = p.sha /\ x.stage = p.stage,
           \A x \in post : x = p \/ x \in post',
           \A s \in Sessions : child'[r][s] = child[r][s] \/ (p.by = r /\ s = p.of /\ child'[r][s] = p.sha),
           p.by = r => ~ok \/ Done(r, p.of)'
    PROVE  Covered(r)' /\ NotYet(r)' /\ Recent(r)'
<1>1. /\ Covered(r) /\ NotYet(r) /\ Recent(r)
      /\ r \in Threads /\ p.of \in Sessions /\ p.by \in Threads
    BY Numbers DEF UploadInv, Uploading
<1>2. /\ job'[r].todo = job[r].todo
      /\ (p.waited /\ r = p.by) \/ job'[r] = job[r]
      /\ p.waited => /\ job[p.by].step = "wait" /\ job'[p.by].step = "upload"
                     /\ job'[p.by].bad <=> job[p.by].bad \/ ~ok
    BY <1>1, AnsweredFrame DEF UploadInv
<1>3. Recent(r)'
    BY <1>1, Numbers DEF Recent
<1>4. NotYet(r)'
    BY <1>1, <1>2 DEF NotYet
<1>5. CASE status[r] = "none"
  <2>1. job'[r].step = "idle" /\ status'[r] = "none"
      BY <1>1, <1>2, <1>5 DEF NotYet
  <2> QED BY <1>3, <1>4, <2>1 DEF Covered
<1>6. CASE status[r] # "none"
  <2>1. \A s \in Sessions : Done(r, s) => Done(r, s)'
      BY <1>6, DoneStays
  <2>2. scope[r] \subseteq Sessions
      BY Numbers
  <2>3. status[r] = "stored" => \A s \in scope[r] : Done(r, s)'
      BY <1>1, <2>1, <2>2 DEF Covered
  <2>4. \A s \in Sessions : Sending(r, s) => Sending(r, s)' \/ (p.by = r /\ p.of = s /\ p.waited)
      BY DEF Sending
  <2>6. PICK s \in Sessions : s = p.of
      BY <1>1
  <2>7. p.by = r => ~ok \/ Done(r, s)'
    <3>1. Done(r, p.of)' <=> Done(r, s)'
        BY <2>6
    <3> QED BY <3>1
  <2>8. ASSUME job'[r].step \in {"upload", "wait"}
        PROVE  job'[r].bad \/ \A x \in scope[r] : x \in job'[r].todo \/ Sending(r, x)' \/ Done(r, x)'
    <3>1. job[r].step \in {"upload", "wait"}
        BY <1>2, <2>8
    <3>2. job[r].bad => job'[r].bad
        BY <1>2
    <3>3. p.waited /\ p.by = r => job'[r].bad \/ Done(r, s)'
        BY <1>2, <2>7
    <3>4. job[r].bad \/ \A x \in scope[r] : x \in job[r].todo \/ Sending(r, x) \/ Done(r, x)
        BY <1>1, <3>1 DEF Covered
    <3> QED BY <1>2, <2>1, <2>2, <2>4, <2>6, <3>2, <3>3, <3>4
  <2>9. job'[r].step \in {"claim", "list"} => job'[r].todo = scope[r]
      BY <1>1, <1>2 DEF Covered
  <2>10. Covered(r)'
      BY <2>3, <2>8, <2>9 DEF Covered
  <2> QED BY <1>3, <1>4, <2>10
<1> QED BY <1>5, <1>6

LEMMA LoseUploading ==
    ASSUME UploadInv, NEW p \in post, LosePost(p), NEW r \in Requests
    PROVE  Covered(r)' /\ NotYet(r)' /\ Recent(r)'
<1>1. PICK q : q = [p EXCEPT !.waited = FALSE]
    OBVIOUS
<1>2. p \in Post
    BY Numbers DEF TypeOK
<1>3. q.by = p.by /\ q.of = p.of /\ q.sha = p.sha /\ q.stage = p.stage
    BY <1>1, <1>2 DEF Post
<1>4. /\ UNCHANGED <<local, status, commands, child, raw, scope, due, overlap>>
      /\ Answered(p, FALSE) /\ post' \in {post \ {p}, (post \ {p}) \cup {q}}
    BY <1>1 DEF LosePost, files, server, window, history
<1>5. RowsStay
    BY <1>3, <1>4 DEF RowsStay
<1> QED BY <1>3, <1>4, <1>5, PostAnswered

LEMMA StoreUploading ==
    ASSUME UploadInv, NEW p \in post, Store(p), NEW r \in Requests
    PROVE  Covered(r)' /\ NotYet(r)' /\ Recent(r)'
<1>0. /\ Recent(r) /\ TypeOK /\ p.of \in Sessions /\ r # Ask /\ p.sha \in Nat
      /\ \A s \in Sessions \ overlap : SoundAt(s)
    BY Numbers DEF UploadInv, Uploading, OverlapInv, Sound
<1>1. /\ UNCHANGED <<local, status, commands, child, scope, due, overlap>>
      /\ Answered(p, TRUE) /\ post' = post \ {p}
    BY DEF Store, files, window, history
<1>2. /\ \A s \in Sessions : raw'[s] = raw[s] \/ (s = p.of /\ raw'[s].sha = p.sha)
      /\ p.by # Ask => p.stage = "registered" /\ (p.seen \/ raw'[p.of].sha = p.sha)
    BY <1>0 DEF Store, TypeOK
<1>3. RowsStay
    BY <1>1, <1>2 DEF RowsStay
<1>4. PICK s \in Sessions : s = p.of
    BY <1>0
<1>5. ASSUME p.by = r PROVE Done(r, s)'
  <2>1. child'[r][s] >= due'[r][s] /\ p.sha >= due'[r][s]
      BY <1>0, <1>1, <1>2, <1>4, <1>5 DEF Recent
  <2>2. CASE s \in overlap
      BY <1>1, <2>1, <2>2 DEF Done
  <2>3. CASE s \notin overlap
    <3>1. SoundAt(s) /\ Fits(p)
        BY <1>0, <1>4, <2>3 DEF SoundAt
    <3>2. raw'[s].sha = p.sha
        BY <1>0, <1>2, <1>4, <1>5, <3>1 DEF Fits
    <3>3. \A x \in post' : x.of # s
        BY <1>1, <1>4, <3>1 DEF SoundAt, Alone
    <3> QED BY <2>1, <3>2, <3>3 DEF Done
  <2> QED BY <2>2, <2>3
<1>6. p.by = r => Done(r, p.of)'
    BY <1>4, <1>5
<1> QED BY <1>1, <1>3, <1>6, PostAnswered

LEMMA RegisterUploading ==
    ASSUME UploadInv, NEW p \in post, Register(p), NEW r \in Requests
    PROVE  Covered(r)' /\ NotYet(r)' /\ Recent(r)'
<1>0. /\ Covered(r) /\ NotYet(r) /\ Recent(r) /\ TypeOK
      /\ p \in Post /\ p.of \in Sessions /\ p.sha \in Nat /\ p.by \in Requests
    BY Numbers DEF UploadInv, Uploading, Register, Threads, TypeOK
<1>1. PICK q : q = [p EXCEPT !.stage = "registered", !.seen = raw[p.of].sha = p.sha]
    OBVIOUS
<1>2. q.by = p.by /\ q.of = p.of /\ q.sha = p.sha /\ q.waited = p.waited /\ q.stage = "registered"
    BY <1>0, <1>1 DEF Post
<1>3. /\ UNCHANGED <<local, status, commands, raw, scope, due, overlap>>
      /\ child' = [child EXCEPT ![p.by][p.of] = p.sha]
      /\ \/ job' = job /\ post' = (post \ {p}) \cup {q}
         \/ Answered(p, FALSE) /\ post' = post \ {p}
    BY <1>1 DEF Register, files, window, history
<1>4. \A x \in Requests, s \in Sessions :
         child'[x][s] = child[x][s] \/ (p.by = x /\ s = p.of /\ child'[x][s] = p.sha)
    BY <1>0, <1>3 DEF TypeOK
<1>5. RowsStay
    BY <1>2, <1>3, <1>4 DEF RowsStay
<1>6. CASE Answered(p, FALSE) /\ post' = post \ {p}
    BY <1>3, <1>4, <1>5, <1>6, PostAnswered
<1>7. CASE job' = job /\ post' = (post \ {p}) \cup {q}
  <2>1. \A s : Sending(r, s) => Sending(r, s)'
      BY <1>2, <1>7 DEF Sending
  <2>2. Recent(r)'
    <3>1. child'[p.by][p.of] = p.sha
        BY <1>0, <1>3 DEF TypeOK
    <3>2. \A x \in post' : x = q \/ x \in post
        BY <1>7
    <3> QED BY <1>0, <1>2, <1>3, <1>4, <3>1, <3>2, Numbers DEF Recent
  <2>3. NotYet(r)'
      BY <1>0, <1>2, <1>3, <1>7 DEF NotYet
  <2>4. CASE status[r] = "none"
    <3>1. job'[r].step = "idle" /\ status'[r] = "none"
        BY <1>0, <1>3, <1>7, <2>4 DEF NotYet
    <3> QED BY <2>2, <2>3, <3>1 DEF Covered
  <2>5. CASE status[r] # "none"
    <3>1. \A s \in scope[r] : Done(r, s) => Done(r, s)'
        BY <1>5, <2>5, DoneStays, Numbers
    <3>2. Covered(r)'
        BY <1>0, <1>3, <1>7, <2>1, <3>1 DEF Covered
    <3> QED BY <2>2, <2>3, <3>2
  <2> QED BY <2>4, <2>5
<1> QED BY <1>3, <1>6, <1>7

LEMMA UploadStep == UploadInv /\ [Next]_vars => UploadInv'
<1> SUFFICES ASSUME UploadInv, [Next]_vars, NEW r \in Requests
             PROVE  Covered(r)' /\ NotYet(r)' /\ Recent(r)'
    BY OverlapStep DEF UploadInv, Uploading
<1>1. ASSUME NEW j \in Threads, Thread(j) PROVE Covered(r)' /\ NotYet(r)' /\ Recent(r)'
  <2>1. CASE \E s \in Sessions : UploadSession(j, s)
      BY <2>1, SessionUploading
  <2>2. CASE EndAsk
      BY <2>2, WindowUploading
  <2>3. CASE j # Ask /\ (Claim(j) \/ GiveUp(j) \/ Finish(j) \/ List(j))
      BY <2>3, ThreadUploading DEF Threads
  <2>4. CASE j = Ask /\ List(j)
    <3>1. /\ UNCHANGED <<local, status, child, raw, post, scope, due>> /\ commands' = commands
          /\ overlap \subseteq overlap'
        BY <2>4 DEF List, files, server, window
    <3>2. job'[r] = job[r]
        BY <2>4, Numbers DEF List, Set, TypeOK
    <3> QED BY <3>1, <3>2, QuietRows, RequestKept, Numbers
  <2> QED BY <1>1, <2>1, <2>2, <2>3, <2>4 DEF Thread
<1>2. ASSUME NEW p \in post, LosePost(p) \/ Handler(p) PROVE Covered(r)' /\ NotYet(r)' /\ Recent(r)'
    BY <1>2, LoseUploading, StoreUploading, RegisterUploading DEF Handler
<1> QED
    BY <1>1, <1>2, WindowUploading, CreateUploading, CrashUploading, CommandUploading DEF Next, Handling

LEMMA UploadInit == Init => UploadInv
<1> SUFFICES ASSUME Init, NEW r \in Requests PROVE Covered(r) /\ NotYet(r) /\ Recent(r)
    BY OverlapInit DEF UploadInv, Uploading
<1>1. job[r].step = "idle" /\ status[r] = "none" /\ post = {} /\ commands = {}
    BY DEF Init, Threads, Idle
<1>2. \A s \in Sessions : due[r][s] = 0 /\ local[s] = 1
    BY DEF Init, Nothing
<1> QED BY <1>1, <1>2 DEF Covered, NotYet, Recent

\* A request that is reported as done has every session it names uploaded, as
\* new as when the mentor asked, whatever calls were lost, retried by another
\* run of the request or left behind by a dead client; and the server still
\* has that content, unless two uploads of the session were at work at once
\* (_upload_conversations_worker).
THEOREM DoneMeansUploaded == Spec => []DoneIsUploaded
<1>1. UploadInv => DoneIsUploaded
    BY DEF UploadInv, Uploading, Covered, Done, DoneIsUploaded
<1> QED BY <1>1, UploadInit, UploadStep, PTL DEF Spec

=============================================================================
