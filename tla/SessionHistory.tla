----------------------------- MODULE SessionHistory -----------------------------
(***************************************************************************)
(* The history of one session as mentors see it: the prompts that hook     *)
(* events report one by one, the rounds of the transcript that is uploaded *)
(* in bulk, and the summaries of both.                                     *)
(*                                                                         *)
(* Three processes share the tables: the server (hook events, analyses of  *)
(* a Stop, bulk uploads), the maintenance job of resummarize.py, and a     *)
(* mentor's browser that resolves the references of an earlier timeline.   *)
(*                                                                         *)
(* The server's handlers read and write without an await between their     *)
(* statements; the job reads with one SELECT after the other, and the      *)
(* server may store an upload between any two of them.                     *)
(*                                                                         *)
(* A line of the transcript is its position, which is also its timestamp;  *)
(* the lines in Repeated have the same text, all others are distinct.      *)
(***************************************************************************)
EXTENDS Naturals, Sequences, FiniteSets, FiniteSetsExt

CONSTANTS
    Kinds,       \* kinds of transcript lines, of "user", "assistant", "other"
    MaxLines,    \* bound: lines of the transcript
    MaxReports,  \* bound: hook events that carry a prompt
    MaxUploads,  \* bound: bulk uploads
    MaxJobs,     \* bound: runs of the summary job
    StopPrompts, \* whether Stop events carry the prompt too
    Repeated     \* lines that have one and the same text

ASSUME HistoryAssumption ==
    /\ Kinds \subseteq {"user", "assistant", "other"}
    /\ MaxLines \in Nat /\ MaxReports \in Nat
    /\ MaxUploads \in Nat /\ MaxJobs \in Nat
    /\ StopPrompts \in BOOLEAN /\ Repeated \subseteq Nat

VARIABLES
    talk,      \* the transcript on the student's machine
    prompts,   \* prompts rows by id: number in the session, and whose line
    card,      \* ai_summaries.content of a prompts row
    analysing, \* Stop analyses that wait for the LLM
    stored,    \* the bulk transcript: its length (the sha), and how often replaced
    summary,   \* messages.summary of a user line
    posts,     \* transcripts of uploads that the server is about to store
    uploads,
    reading,   \* how far the summary job's first reads are, and their results
    job,       \* rounds the summary job has still to read or to write
    jobs,
    opened     \* the reference a mentor's browser holds

historyVars == <<talk, prompts, card, analysing, stored, summary, posts, uploads, reading, job, jobs, opened>>

Lines == 1..MaxLines
Ids   == 1..MaxReports

\* A summary is known by the prompt and the reply the LLM was given.
Summary == [of : 0..MaxLines, reply : SUBSET Lines]
Empty   == [of |-> 0, reply |-> {}]

Prompt == [seq : Nat, of : Lines]
Ref    == [kind : {"none", "prompt", "msg"}, id : 0..MaxReports, gen : Nat, of : 0..MaxLines]
Reading == [at : {"off", "prompts", "cards"}, known : Nat, done : SUBSET Ids]

Unread  == [at |-> "off", known |-> 0, done |-> {}]

\* What the job holds of one round or prompt: the row (its line and whose
\* upload), the matching prompt, the window of its reply (from a line to the
\* next prompt's line, 0 for none, read from which upload), and the reply.
Round == [kind : {"listed", "anchored", "next", "round", "prompt", "window", "llm"},
          gen : Nat, of : Lines, prompt : 0..MaxReports, summary : Summary,
          from : 0..MaxLines, until : 0..MaxLines, read : Nat,
          reply : SUBSET Lines, torn : BOOLEAN]

HistoryTypeOK ==
    /\ talk \in Seq(Kinds) /\ Len(talk) <= MaxLines
    /\ prompts \in Seq(Prompt) /\ Len(prompts) <= MaxReports
    /\ card \in [Ids -> Summary] /\ summary \in [Lines -> Summary]
    /\ analysing \subseteq (Ids \X Summary)
    /\ stored \in [len : 0..MaxLines, gen : 0..MaxUploads]
    /\ posts \in Seq(Lines)
    /\ reading \in Reading /\ job \subseteq Round
    /\ uploads \in 0..MaxUploads /\ jobs \in 0..MaxJobs
    /\ opened \in Ref

HistoryInit ==
    /\ talk = <<>> /\ prompts = <<>>
    /\ card = [p \in Ids |-> Empty] /\ summary = [i \in Lines |-> Empty]
    /\ analysing = {} /\ stored = [len |-> 0, gen |-> 0]
    /\ posts = <<>> /\ uploads = 0
    /\ reading = Unread /\ job = {} /\ jobs = 0
    /\ opened = [kind |-> "none", id |-> 0, gen |-> 0, of |-> 0]

-----------------------------------------------------------------------------
(* transcript.py: the lines that are messages, and the number of their round. *)

\* parse_text keeps the messages of a transcript of n lines.
Messages(n) == {i \in 1..n : talk[i] # "other"}

\* parse_turns counts a new round at every message but the first and but an
\* answer that directly follows its prompt.
StartsRound(i) ==
    LET before == Messages(i - 1) IN
    before # {} /\ (talk[i] = "user" \/ talk[Max(before)] = "assistant")

Turn(i) == [of |-> i, role |-> talk[i],
            seq |-> Cardinality({j \in Messages(i) : StartsRound(j)})]

\* The messages rows of the session.
Rows       == {Turn(i) : i \in Messages(stored.len)}
Users      == {r \in Rows : r.role = "user"}
Assistants == {r \in Rows : r.role = "assistant"}

\* ORDER BY seq, created_at.
Before(a, b) == a.seq < b.seq \/ (a.seq = b.seq /\ a.of < b.of)

Least(S) == IF S = {} THEN 0 ELSE Min(S)

\* The line of the user row that follows u, 0 if there is none.
Follower(u) == Least({n.of : n \in {m \in Users : Before(u, m)}})

\* Mutant: the window has no end.
WindowWithoutEnd(u, until) == {x.of : x \in {a \in Assistants : ~Before(a, u)}}

\* The answers from u on, up to the row of line `until'.
Window(u, until) ==
    {x.of : x \in {a \in Assistants : ~Before(a, u) /\ (until # 0 => Before(a, Turn(until)))}}

\* _message_reply_rows_with_conn: from the prompt on, up to the next prompt.
Reply(u) == Window(u, Follower(u))

\* _get_prompt_reply_with_conn takes the prompt's number for a round's
\* number, and without such a round for an index into the user messages.
Anchor(k) ==
    LET numbered == {u \in Users : u.seq = k}
    IN  IF numbered # {} THEN numbered
        ELSE {u \in Users : Cardinality({v \in Users : Before(v, u)}) = k}

PromptReply(p) == UNION {Reply(u) : u \in Anchor(prompts[p].seq)}

-----------------------------------------------------------------------------
(* The student works, and the hook reports. *)

Write(kind) ==
    /\ Len(talk) < MaxLines
    /\ talk' = Append(talk, kind)
    /\ UNCHANGED <<prompts, card, analysing, stored, summary, posts, uploads, reading, job, jobs, opened>>

\* What follows prompt i in the transcript, up to the next prompt.
Answers(i) ==
    {j \in (i + 1)..Len(talk) : /\ talk[j] = "assistant"
                                /\ \A k \in (i + 1)..j : talk[k] # "user"}

\* Events that wait in the spool are posted in the order of their names, which
\* are random; some are lost, and one whose answer was lost comes again.
Reportable(i) == talk[i] = "user" /\ Len(prompts) < MaxReports

\* handle_user_prompt_submit: numbered by the rows there are.
UserPromptSubmit(i) ==
    /\ Reportable(i)
    /\ prompts' = Append(prompts, [seq |-> Len(prompts), of |-> i])
    /\ UNCHANGED <<talk, card, analysing, stored, summary, posts, uploads, reading, job, jobs, opened>>

\* handle_stop: one more row for the report, numbered after the last one, and
\* the LLM gets the transcript as it was when the hook read it.
Stop(i) ==
    /\ StopPrompts
    /\ Reportable(i)
    /\ prompts' = Append(prompts, [seq |-> Max({0} \cup {prompts[p].seq + 1 : p \in DOMAIN prompts}),
                                   of |-> i])
    /\ \E n \in i..Len(talk) :
          analysing' = analysing \cup
            {<<Len(prompts'), [of |-> i, reply |-> Answers(i) \cap 1..n]>>}
    /\ UNCHANGED <<talk, card, stored, summary, posts, uploads, reading, job, jobs, opened>>

\* upsert_ai_summary: one row per prompt, the last writer's; the answer of
\* the LLM may lack the summary, which empties the row.
StopAnswered(a) ==
    /\ a \in analysing
    /\ analysing' = analysing \ {a}
    /\ \E s \in {a[2], Empty} : card' = [card EXCEPT ![a[1]] = s]
    /\ UNCHANGED <<talk, prompts, stored, summary, posts, uploads, reading, job, jobs, opened>>

\* Mutant: an empty transcript is uploaded.
PostEmpty ==
    /\ uploads < MaxUploads
    /\ Len(talk) # stored.len \/ talk = <<>>
    /\ uploads' = uploads + 1
    /\ posts' = Append(posts, Len(talk))
    /\ UNCHANGED <<talk, prompts, card, analysing, stored, summary, reading, job, jobs, opened>>

\* An upload reads the transcript; the server knows the sha that it stores.
PostTranscript ==
    /\ uploads < MaxUploads
    /\ talk # <<>> /\ Len(talk) # stored.len
    /\ uploads' = uploads + 1
    /\ posts' = Append(posts, Len(talk))
    /\ UNCHANGED <<talk, prompts, card, analysing, stored, summary, reading, job, jobs, opened>>

\* Mutant: a summary is kept for the same number and text, whatever the sha.
ReplaceAnySha(k) ==
    /\ k \in DOMAIN posts
    /\ posts' = SubSeq(posts, 1, k - 1) \o SubSeq(posts, k + 1, Len(posts))
    /\ stored' = [len |-> posts[k], gen |-> stored.gen + 1]
    /\ UNCHANGED <<talk, prompts, card, analysing, summary, uploads, reading, job, jobs, opened>>

\* replace_session_messages, in any order of the posts: new rows with new
\* ids; a summary survives only with the whole content.
ReplaceMessages(k) ==
    /\ k \in DOMAIN posts
    /\ posts' = SubSeq(posts, 1, k - 1) \o SubSeq(posts, k + 1, Len(posts))
    /\ stored' = [len |-> posts[k], gen |-> stored.gen + 1]
    /\ summary' = IF posts[k] = stored.len THEN summary ELSE [i \in Lines |-> Empty]
    /\ UNCHANGED <<talk, prompts, card, analysing, uploads, reading, job, jobs, opened>>

-----------------------------------------------------------------------------
(* resummarize.py, another process: what it reads at its start, and what it *)
(* writes when the LLM answers.                                             *)

SameText(i, j) == i = j \/ {i, j} \subseteq Repeated

\* matching_prompt, among the rows that were read: the same number, else the
\* same text.
Matching(u) ==
    LET same == {p \in 1..reading.known : prompts[p].seq = u.seq}
    IN  Least(IF same # {} THEN same
              ELSE {p \in 1..reading.known : SameText(prompts[p].of, u.of)})

\* get_prompts_by_session ...
StartJob ==
    /\ jobs < MaxJobs /\ job = {} /\ reading.at = "off"
    /\ jobs' = jobs + 1
    /\ reading' = [at |-> "prompts", known |-> Len(prompts), done |-> {}]
    /\ UNCHANGED <<talk, prompts, card, analysing, stored, summary, posts, uploads, job, opened>>

\* ... get_ai_summaries_by_session ...
ReadCards ==
    /\ reading.at = "prompts"
    /\ reading' = [reading EXCEPT !.at = "cards",
                                  !.done = {p \in 1..reading.known : card[p] # Empty}]
    /\ UNCHANGED <<talk, prompts, card, analysing, stored, summary, posts, uploads, job, jobs, opened>>

Listed(u) == [kind |-> "listed", gen |-> stored.gen, of |-> u.of, prompt |-> Matching(u),
              summary |-> summary[u.of], from |-> u.of, until |-> 0, read |-> 0,
              reply |-> {}, torn |-> FALSE]

Unanswered(p) == [kind |-> "prompt", gen |-> 0, of |-> prompts[p].of, prompt |-> p,
                  summary |-> Empty, from |-> 0, until |-> 0, read |-> 0,
                  reply |-> {}, torn |-> FALSE]

\* ... and get_message_rounds_by_session, which first lists the user rows;
\* without any, the prompts that have no card are summarised.
ListRounds ==
    /\ reading.at = "cards"
    /\ job' = IF Users # {} THEN {Listed(u) : u \in Users}
              ELSE {Unanswered(p) : p \in (1..reading.known) \ reading.done}
    /\ reading' = Unread
    /\ UNCHANGED <<talk, prompts, card, analysing, stored, summary, posts, uploads, jobs, opened>>

\* A reply is read in several SELECTs, which no other task of the job separates.
AtReply(r) == r.kind \in {"anchored", "next", "window"}
Reads(r)   == r.kind = "listed" \/ AtReply(r)

\* _message_reply_rows_with_conn, round by round: the row by its id, which
\* may be gone ...
ReadAnchor(r) ==
    /\ r \in job /\ r.kind = "listed"
    /\ \A q \in job : ~AtReply(q) /\ (Reads(q) => r.of <= q.of)
    /\ job' = (job \ {r}) \cup
                 {[r EXCEPT !.kind = IF r.gen = stored.gen THEN "anchored" ELSE "round"]}
    /\ UNCHANGED <<talk, prompts, card, analysing, stored, summary, posts, uploads, reading, jobs, opened>>

\* ... then the user row that follows ...
ReadNext(r) ==
    /\ r \in job /\ r.kind = "anchored"
    /\ job' = (job \ {r}) \cup
                 {[r EXCEPT !.kind = "next", !.until = Follower(Turn(r.from)), !.read = stored.gen]}
    /\ UNCHANGED <<talk, prompts, card, analysing, stored, summary, posts, uploads, reading, jobs, opened>>

\* handle_prompt, without messages at the start: the user rows, and by the
\* prompt's number the row to begin with, if there is one ...
ReadUsers(r) ==
    /\ r \in job /\ r.kind = "prompt"
    /\ \A q \in job : ~Reads(q)
    /\ \/ /\ Anchor(prompts[r.prompt].seq) = {}
          /\ job' = job \ {r}
       \/ \E u \in Anchor(prompts[r.prompt].seq) :
             job' = (job \ {r}) \cup
                 {[r EXCEPT !.kind = "window", !.from = u.of, !.until = Follower(u), !.read = stored.gen]}
    /\ UNCHANGED <<talk, prompts, card, analysing, stored, summary, posts, uploads, reading, jobs, opened>>

\* ... and the answers in the window.  The reply is torn if an upload was
\* stored since the window was read.
ReadReplies(r) ==
    /\ r \in job /\ r.kind \in {"next", "window"}
    /\ job' = (job \ {r}) \cup
                 {[r EXCEPT !.kind = IF r.kind = "next" THEN "round" ELSE "llm",
                            !.reply = Window(Turn(r.from), r.until),
                            !.torn = r.read # stored.gen,
                            !.from = 0, !.until = 0, !.read = 0]}
    /\ UNCHANGED <<talk, prompts, card, analysing, stored, summary, posts, uploads, reading, jobs, opened>>

\* upsert_ai_summary of the matched prompt, if there is one.
SetCard(p, s) == card' = IF p = 0 THEN card ELSE [card EXCEPT ![p] = s]

\* handle_message_round: a round that has its summary copies it to the
\* prompt; one with a reply gets a summary, if the LLM answers with one.
\* set_message_summary finds the row by its id.
FinishRound(r) ==
    /\ r \in job /\ r.kind \in {"round", "llm"}
    /\ \A q \in job : ~Reads(q)
    /\ job' = job \ {r}
    /\ \/ /\ r.summary # Empty
          /\ SetCard(r.prompt, r.summary)
          /\ UNCHANGED summary
       \/ /\ r.summary = Empty /\ r.reply # {}
          /\ summary' = IF r.kind = "round" /\ r.gen = stored.gen
                        THEN [summary EXCEPT ![r.of] = [of |-> r.of, reply |-> r.reply]]
                        ELSE summary
          /\ SetCard(r.prompt, [of |-> r.of, reply |-> r.reply])
       \/ /\ r.summary = Empty            \* no reply, or an empty summary
          /\ UNCHANGED <<summary, card>>
    /\ UNCHANGED <<talk, prompts, analysing, stored, posts, uploads, reading, jobs, opened>>

StopJob ==
    /\ job # {} \/ reading.at # "off"
    /\ job' = {} /\ reading' = Unread
    /\ UNCHANGED <<talk, prompts, card, analysing, stored, summary, posts, uploads, jobs, opened>>

-----------------------------------------------------------------------------
(* The mentor's timeline. *)

\* The AI cards of the prompts, else of the rounds of the bulk transcript.
PromptCards ==
    {[kind |-> "prompt", id |-> p, gen |-> 0, of |-> prompts[p].of] :
        p \in {q \in DOMAIN prompts : card[q] # Empty}}

RoundCards ==
    {[kind |-> "msg", id |-> 0, gen |-> stored.gen, of |-> u.of] :
        u \in {v \in Users : Reply(v) # {}}}

TimelineCards == IF prompts # <<>> THEN PromptCards ELSE RoundCards

\* Bound: one card is opened.
OpenCard(r) ==
    /\ opened.kind = "none"
    /\ r \in TimelineCards
    /\ opened' = r
    /\ UNCHANGED <<talk, prompts, card, analysing, stored, summary, posts, uploads, reading, job, jobs>>

\* get_reply_text: nothing (404) for a row that is gone.
ReplyText(r) ==
    IF r.kind = "prompt" THEN PromptReply(r.id)
    ELSE UNION {Reply(u) : u \in {v \in Users : v.of = r.of /\ r.gen = stored.gen}}

HistoryNext ==
    \/ \E k \in Kinds : Write(k)
    \/ \E i \in DOMAIN talk : UserPromptSubmit(i) \/ Stop(i)
    \/ \E a \in analysing : StopAnswered(a)
    \/ PostTranscript
    \/ \E k \in DOMAIN posts : ReplaceMessages(k)
    \/ StartJob \/ ReadCards \/ ListRounds \/ StopJob
    \/ \E r \in job : \/ ReadAnchor(r) \/ ReadNext(r) \/ ReadUsers(r) \/ ReadReplies(r)
                      \/ FinishRound(r)
    \/ \E r \in TimelineCards : OpenCard(r)

HistorySpec == HistoryInit /\ [][HistoryNext]_historyVars

-----------------------------------------------------------------------------
(* Properties. *)

\* The summary on a message is the summary of that prompt and of the answers
\* to it that are stored now, whatever uploads came between the job's reading
\* and its writing; and the windows over (seq, created_at) that found those
\* answers cut every transcript exactly at the student's prompts.
SummaryOfItsRound ==
    \A u \in Users :
       summary[u.of] # Empty
           => summary[u.of] = [of |-> u.of, reply |-> Answers(u.of) \cap 1..stored.len]

\* The n-th prompts row is the n-th prompt of the transcript, and every round
\* has one answer: the number of a prompt and the number of its round agree.
Ordinal(i) == Cardinality({j \in 1..(i - 1) : talk[j] = "user"})
Aligned ==
    /\ \A p \in DOMAIN prompts : Ordinal(prompts[p].of) = p - 1
    /\ \A i \in DOMAIN talk : talk[i] = "user" => Turn(i).seq = Ordinal(i)

\* The details of a card never show the answers to another prompt: a mentor
\* may click on a card of a timeline that was replaced since.
DetailsOfTheCard ==
    opened.kind = "msg" \/ (opened.kind = "prompt" /\ Aligned)
        => ReplyText(opened) \subseteq Answers(opened.of)

\* What a mentor reads under a prompt belongs to that prompt: the summary of
\* its round (get_message_rounds_by_session, set_message_summary) and the
\* details that a click on its card fetches (get_reply_text).
ReadUnderItsPrompt == SummaryOfItsRound /\ DetailsOfTheCard

\* What an AI card says that appears or changes under a prompt
\* (upsert_ai_summary).  One that a Stop wrote summarises that prompt and
\* answers to it.  One that the summary job wrote, as long as the two numberings
\* agree, summarises that prompt or one with the same words (matching_prompt),
\* and answers that came after it: none to a later prompt, unless an upload was
\* stored between the job's two reads of the window.
CardOfItsPrompt ==
    [][\A p \in Ids : card'[p] \notin {card[p], Empty} =>
         LET new == card'[p]  own == prompts[p].of IN
         /\ job' = job => new.of = own /\ new.reply \subseteq Answers(own)
         /\ Aligned => /\ SameText(new.of, own)
                       /\ \A j \in new.reply : new.of < j
                       /\ \/ new.reply \subseteq Answers(new.of)
                          \/ \E r \in job \ job' : r.torn]_historyVars

=============================================================================
