----------------------------- MODULE StopReports -----------------------------
(***************************************************************************)
(* Stop reports of one session on the server: their acceptance in three    *)
(* transactions, the background analysis, and the recovery of pending      *)
(* reports before the server serves again.  A report is its row id; rows   *)
(* are created in the order of their ids.  Handlers run on one event loop: *)
(* the code between two awaits is one step, which a crash can cut at any   *)
(* commit.                                                                 *)
(***************************************************************************)
EXTENDS Integers, FiniteSets, Sequences, SequencesExt

CONSTANTS
    MaxReports,     \* bound: Stop reports that are posted
    MaxUploads,     \* bound: full transcripts of the session that are uploaded
    MaxConcurrency, \* analysis_max_concurrency
    MaxCrashes      \* bound: crashes of the server

ASSUME StopAssumption ==
    /\ {MaxReports, MaxUploads, MaxCrashes} \subseteq Nat
    /\ MaxConcurrency \in Nat \ {0}

Report == 1..MaxReports

\* What an analysis reads: the transcript sent with a report, one that was
\* uploaded in bulk, or an empty one.
Nothing == 0
Bulk    == MaxReports + 1
Content == Report \cup {Nothing, Bulk}

VARIABLES
    posted,     \* reports rows ever inserted: 1..posted
    gone,       \* those deleted with their student
    marked,     \* transcript_path is EXPLICIT_RAW_TRANSCRIPT_MARKER
    prompted,   \* the report row has a non-empty prompt
    pending,    \* analysis_pending
    raws,       \* raw_transcripts by created_at; a row's at is the newest report then
    prompts,    \* reports that have their prompts row
    summaries,  \* ai_summaries rows of a report
    analyses,   \* analyses rows of a report
    source,     \* what the analysis was computed from
    answered,   \* reports the client got its 202 for
    announced,  \* analysis events published for a report
    pc, input,  \* handle_stop, per report, and the content it was given
    bulkCalls,  \* LLM calls of uploads, which share the semaphore
    uploads,
    recovering, \* pending reports that the start-up still has to go through
    serving,    \* the lifespan has reached its yield
    crashes

tables == <<posted, gone, marked, prompted, pending, raws, prompts, summaries, analyses, source>>
vars   == <<tables, answered, announced, pc, input, bulkCalls, uploads, recovering, serving, crashes>>

PC == {"none", "start", "wait", "llm", "publish"}

TypeOK ==
    /\ posted \in 0..MaxReports
    /\ {gone, marked, prompted, pending, prompts, answered} \subseteq SUBSET Report
    /\ raws \in Seq([content : Report \cup {Bulk}, at : 0..MaxReports])
    /\ summaries \in [Report -> 0..(MaxCrashes + 1)]
    /\ analyses \in [Report -> 0..(MaxCrashes + 1)]
    /\ source \in [Report -> Content] /\ announced \in [Report -> 0..(MaxCrashes + 1)]
    /\ pc \in [Report -> PC] /\ input \in [Report -> Content]
    /\ bulkCalls \in 0..MaxUploads /\ uploads \in 0..MaxUploads
    /\ recovering \in Seq(Report) /\ serving \in BOOLEAN /\ crashes \in 0..MaxCrashes

Init ==
    /\ posted = 0 /\ gone = {} /\ marked = {} /\ prompted = {} /\ pending = {}
    /\ raws = <<>> /\ prompts = {}
    /\ summaries = [r \in Report |-> 0] /\ analyses = [r \in Report |-> 0]
    /\ source = [r \in Report |-> Nothing]
    /\ answered = {} /\ announced = [r \in Report |-> 0]
    /\ pc = [r \in Report |-> "none"] /\ input = [r \in Report |-> Nothing]
    /\ bulkCalls = 0 /\ uploads = 0
    /\ recovering = <<>> /\ serving = TRUE /\ crashes = 0

-----------------------------------------------------------------------------
(* The process.  A crash loses every task; the start-up lists the reports   *)
(* that are pending on disk.                                                *)

Goto(r, where) == pc' = [pc EXCEPT ![r] = where]

\* The pending reports in the order of their ids.
InOrder(S) ==
    {q \in [1..Cardinality(S) -> S] : \A i, j \in 1..Cardinality(S) : i < j => q[i] < q[j]}

\* The process dies with these reports pending, and starts again.
Die(left) ==
    /\ crashes < MaxCrashes
    /\ crashes' = crashes + 1
    /\ pc' = [r \in Report |-> "none"] /\ input' = [r \in Report |-> Nothing]
    /\ bulkCalls' = 0
    /\ recovering' \in InOrder(left)
    /\ serving' = (left = {})

Alive == UNCHANGED <<recovering, serving, crashes>>

Crash ==
    /\ Die(pending)
    /\ UNCHANGED <<tables, answered, announced, uploads>>

-----------------------------------------------------------------------------
(* accept_report.  The steps add the report, its transcript and the flag;   *)
(* only a report that brings its full transcript has the last two.          *)

AddReport(full, text) ==
    /\ posted < MaxReports
    /\ posted' = posted + 1
    /\ marked' = IF full THEN marked \cup {posted'} ELSE marked
    /\ prompted' = IF text THEN prompted \cup {posted'} ELSE prompted

AddRaw == raws' = Append(raws, [content |-> posted', at |-> posted'])

\* POST /report: the answer, then the background task.
Accept ==
    /\ serving
    /\ \E full, text \in BOOLEAN :
          /\ AddReport(full, text)
          /\ \/ full /\ AddRaw /\ pending' = pending \cup {posted'}
             \/ ~full /\ UNCHANGED <<raws, pending>>
    /\ answered' = answered \cup {posted'}
    /\ Goto(posted', "start")
    /\ input' = [input EXCEPT ![posted'] = posted']
    /\ Alive
    /\ UNCHANGED <<gone, prompts, summaries, analyses, source, announced, bulkCalls, uploads>>

\* The process dies after one of the commits; the client gets no answer.
AcceptCrash ==
    /\ serving
    /\ \E full, text \in BOOLEAN :
          /\ AddReport(full, text)
          /\ \/ UNCHANGED <<raws, pending>>
             \/ full /\ AddRaw /\ UNCHANGED pending
             \/ full /\ AddRaw /\ pending' = pending \cup {posted'}
    /\ Die(pending')
    /\ UNCHANGED <<gone, prompts, summaries, analyses, source, answered, announced, uploads>>

-----------------------------------------------------------------------------
(* handle_stop. *)

\* The report's prompt row is looked up, or created in one transaction.
StorePrompt(r) ==
    /\ pc[r] = "start"
    /\ prompts' = IF r \in prompted THEN prompts \cup {r} ELSE prompts
    /\ Goto(r, "wait")
    /\ Alive
    /\ UNCHANGED <<posted, gone, marked, prompted, pending, raws, summaries, analyses, source,
                   answered, announced, input, bulkCalls, uploads>>

Calls == Cardinality({r \in Report : pc[r] = "llm"}) + bulkCalls

\* async with analysis_semaphore
CallLlm(r) ==
    /\ pc[r] = "wait" /\ Calls < MaxConcurrency
    /\ Goto(r, "llm")
    /\ Alive
    /\ UNCHANGED <<tables, answered, announced, input, bulkCalls, uploads>>

Ended(r) ==
    /\ Goto(r, "none")
    /\ input' = [input EXCEPT ![r] = Nothing]
    /\ crashes' = crashes

\* Mutant: the start-up retries a report until it is analysed.
EndRetries(r) ==
    /\ Ended(r)
    /\ recovering' = IF recovering # <<>> /\ analyses[r] > 0 THEN Tail(recovering) ELSE recovering
    /\ serving' = (recovering' = <<>>)

\* handle_stop returns; the start-up goes on with the next report, whatever
\* became of this one.
End(r) ==
    /\ Ended(r)
    /\ recovering' = IF recovering = <<>> THEN <<>> ELSE Tail(recovering)
    /\ serving' = (recovering' = <<>>)

\* The provider fails: the exception is logged and the report stays pending.
LlmFails(r) ==
    /\ pc[r] = "llm"
    /\ End(r)
    /\ UNCHANGED <<tables, answered, announced, bulkCalls, uploads>>

\* add_ai_summary: one per prompt; without a prompt one more row.  A prompt
\* that was deleted meanwhile fails the foreign key.
SummaryFits(r) == r \in prompted => r \in prompts
AddSummary(r)  == summaries' = [summaries EXCEPT ![r] = IF r \in prompted THEN 1 ELSE @ + 1]

\* add_analysis: the foreign key wants the report row.
AddAnalysis(r) ==
    /\ r \notin gone
    /\ analyses' = [analyses EXCEPT ![r] = @ + 1]
    /\ source' = [source EXCEPT ![r] = input[r]]

\* Mutant: the flag is cleared before the analysis is stored.
CompleteCrashFlagFirst(r) ==
    /\ pc[r] = "llm" /\ SummaryFits(r) /\ r \notin gone
    /\ AddSummary(r)
    /\ pending' = pending \ {r}
    /\ UNCHANGED <<analyses, source>>
    /\ Die(pending')
    /\ UNCHANGED <<posted, gone, marked, prompted, raws, prompts, answered, announced, uploads>>

\* The result is stored: summary, analysis, flag.
Complete(r) ==
    /\ pc[r] = "llm" /\ SummaryFits(r)
    /\ AddSummary(r) /\ AddAnalysis(r) /\ pending' = pending \ {r}
    /\ Goto(r, "publish")
    /\ Alive
    /\ UNCHANGED <<posted, gone, marked, prompted, raws, prompts, answered, announced, input, bulkCalls, uploads>>

\* The report is deleted: storing fails at the summary or at the analysis.
CompleteGone(r) ==
    /\ pc[r] = "llm" /\ r \in gone
    /\ \/ SummaryFits(r) /\ AddSummary(r)
       \/ ~SummaryFits(r) /\ UNCHANGED summaries
    /\ End(r)
    /\ UNCHANGED <<posted, gone, marked, prompted, pending, raws, prompts, analyses, source, answered,
                   announced, bulkCalls, uploads>>

\* The process dies between two of these commits.
CompleteCrash(r) ==
    /\ pc[r] = "llm" /\ SummaryFits(r)
    /\ AddSummary(r)
    /\ \/ UNCHANGED <<analyses, source>>
       \/ AddAnalysis(r)
    /\ Die(pending)
    /\ UNCHANGED <<posted, gone, marked, prompted, pending, raws, prompts, answered, announced, uploads>>

Publish(r) ==
    /\ pc[r] = "publish"
    /\ announced' = [announced EXCEPT ![r] = @ + 1]
    /\ End(r)
    /\ UNCHANGED <<tables, answered, bulkCalls, uploads>>

-----------------------------------------------------------------------------
(* Uploads of the whole session and the deletion of the student. *)

\* replace_session_messages takes the newest row of the session for its own.
Upload ==
    /\ serving /\ uploads < MaxUploads
    /\ uploads' = uploads + 1
    /\ raws' = Append(IF raws = <<>> THEN raws ELSE Front(raws), [content |-> Bulk, at |-> posted])
    /\ Alive
    /\ UNCHANGED <<posted, gone, marked, prompted, pending, prompts, summaries, analyses, source,
                   answered, announced, pc, input, bulkCalls>>

BulkCall ==
    /\ serving /\ bulkCalls < uploads /\ Calls < MaxConcurrency
    /\ bulkCalls' = bulkCalls + 1
    /\ Alive
    /\ UNCHANGED <<tables, answered, announced, pc, input, uploads>>

\* Mutant: the semaphore is released although no call holds it.
BulkEndUnguarded ==
    /\ serving
    /\ bulkCalls' = bulkCalls - 1
    /\ Alive
    /\ UNCHANGED <<tables, answered, announced, pc, input, uploads>>

BulkEnd ==
    /\ bulkCalls > 0
    /\ bulkCalls' = bulkCalls - 1
    /\ Alive
    /\ UNCHANGED <<tables, answered, announced, pc, input, uploads>>

DeleteStudent ==
    /\ serving
    /\ gone' = 1..posted
    /\ pending' = {} /\ raws' = <<>> /\ prompts' = {}
    /\ summaries' = [r \in Report |-> 0] /\ analyses' = [r \in Report |-> 0]
    /\ Alive
    /\ UNCHANGED <<posted, marked, prompted, source, answered, announced, pc, input, bulkCalls, uploads>>

-----------------------------------------------------------------------------
(* _recover_pending_reports: one report after the other, before serving. *)

\* Mutant: the newest transcript of the session.
NewestRaw(r) == IF raws = <<>> THEN Nothing ELSE Last(raws).content

\* get_raw_transcript_for_report: the first row not older than the report.
RawFor(r) ==
    LET fits == {i \in DOMAIN raws : raws[i].at >= r}
    IN  IF fits = {} THEN Nothing ELSE raws[Min(fits)].content

\* Mutant: whether the report has an analysis is not looked up.
AnalysedIgnored(r) == FALSE

\* analysis_exists_for_report
Analysed(r) == analyses[r] > 0

\* A report that has its analysis is only cleared; another one is analysed
\* again, and the loop waits for its handle_stop to end.
Recover ==
    /\ recovering # <<>>
    /\ LET r == Head(recovering) IN
       /\ pc[r] = "none"
       /\ \/ /\ Analysed(r)
             /\ pending' = pending \ {r}
             /\ recovering' = Tail(recovering)
             /\ serving' = (recovering' = <<>>)
             /\ UNCHANGED <<pc, input>>
          \/ /\ ~Analysed(r)
             /\ Goto(r, "start")
             /\ input' = [input EXCEPT ![r] = IF r \in marked THEN RawFor(r) ELSE Nothing]
             /\ UNCHANGED <<pending, recovering, serving>>
    /\ UNCHANGED <<posted, gone, marked, prompted, raws, prompts, summaries, analyses, source,
                   answered, announced, bulkCalls, uploads, crashes>>
-----------------------------------------------------------------------------

Task(r) ==
    \/ StorePrompt(r) \/ CallLlm(r) \/ LlmFails(r) \/ Complete(r) \/ CompleteGone(r)
    \/ Publish(r)

Next ==
    \/ Accept \/ AcceptCrash
    \/ \E r \in Report : Task(r) \/ CompleteCrash(r)
    \/ Upload \/ BulkCall \/ BulkEnd \/ DeleteStudent
    \/ Recover \/ Crash

Spec == Init /\ [][Next]_vars

\* The event loop runs every task, the LLM client has a timeout, and waiters
\* get the semaphore in their order.
Fairness ==
    /\ WF_vars(Recover) /\ WF_vars(BulkEnd)
    /\ \A r \in Report : WF_vars(Task(r)) /\ SF_vars(CallLlm(r))

FairSpec == Spec /\ Fairness

-----------------------------------------------------------------------------
(* Properties. *)

\* Wherever the server dies and restarts, a report is analysed and announced
\* at most once, and its prompt has at most one summary.
AnalysedOnce ==
    \A r \in Report :
        /\ analyses[r] <= 1 /\ announced[r] <= 1
        /\ r \in prompted => summaries[r] <= 1

\* A report that was answered and brought its full transcript is not
\* forgotten: until it is analysed it is pending on disk.
NotForgotten ==
    \A r \in (answered \cap marked) \ gone : analyses[r] = 1 \/ r \in pending

\* An analysis is computed from the transcript of its own report, never from
\* that of another pending report of the session; only a report that brought
\* its full transcript can be analysed from one uploaded later.
OwnTranscript ==
    \A r \in Report : analyses[r] > 0 =>
        source[r] = r \/ (r \in marked /\ source[r] = Bulk)

\* What add_analysis stores for a report: one analysis, of its own transcript.
AnalysedOnItsOwn == AnalysedOnce /\ OwnTranscript

\* A start with pending reports serves in the end, whatever the LLM answers.
ServesAgain == ~serving ~> serving

=============================================================================
