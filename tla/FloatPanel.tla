------------------------------- MODULE FloatPanel -------------------------------
(***************************************************************************)
(* The analysis panel of the native float window: which session it shows,  *)
(* the background refresh of its cards, the unread marks, the poll that    *)
(* follows the active session, and the ask box.                            *)
(*                                                                         *)
(* Every handler runs on the AppKit main thread; each network call is a    *)
(* thread that reads or posts and then hands its result to the main thread.*)
(* A generation number is compared only with the latest one, so that a     *)
(* request is modelled with the flag "latest": no newer number was drawn.  *)
(***************************************************************************)
EXTENDS Naturals, Sequences, FiniteSets

CONSTANTS
    Sessions,      \* sessions of the student
    None,          \* no session
    MaxAnalyses,   \* bound: analyses the server stores
    MaxQuestions   \* bound: questions that are sent

ASSUME PanelAssumption ==
    /\ None \notin Sessions /\ IsFiniteSet(Sessions)
    /\ MaxAnalyses \in Nat /\ MaxQuestions \in Nat

VARIABLES
    stored,     \* server: analyses of each session
    synced,     \* server: sessions it has a row for
    asks,       \* server: student_asks, whether about a session
    handlers,   \* server: questions that wait for the LLM
    frames,     \* analysis frames on their way to the main thread
    visible, current,
    refresh,    \* the refresh request in flight, and whether one is pending
    shown,      \* the cards: their session, and how many analyses it had
    unread,     \* sessions with an unread mark
    ask,        \* the question in flight
    box,        \* the text under the ask box
    questions,
    heard,      \* history: the newest analysis whose frame was handled
    behind,     \* history: nothing was asked for since a hidden panel followed a frame
    owed        \* history: the newest that was marked as unread, till it is on a card

server == <<stored, synced, asks, handlers>>
cards == <<shown, unread, owed>>
panel == <<visible, current, refresh, cards, heard, behind>>
vars  == <<server, frames, panel, ask, box, questions>>

Session == Sessions \cup {None}
Count   == 0..MaxAnalyses

Modes == {"plain", "sync", "without"}

\* What the LLM is given besides the question: the transcript of its session,
\* earlier questions about a session, and earlier questions about none.
Ask      == {"about", "free"}
Material == Ask \cup {"transcript"}
Handler  == [q : 1..MaxQuestions, kind : Ask, context : SUBSET Material]

TypeOK ==
    /\ stored \in [Sessions -> Count] /\ synced \subseteq Sessions
    /\ asks \in Seq(Ask) /\ Len(asks) <= MaxQuestions + 1
    /\ handlers \subseteq Handler
    /\ frames \in Seq([of : Sessions, n : Count])
    /\ visible \in BOOLEAN /\ current \in Session
    /\ refresh \in [step : {"idle", "asked", "read"}, latest : BOOLEAN,
                    pending : BOOLEAN, of : Session, n : Count]
    /\ shown \in [ok : BOOLEAN, of : Session, n : Count]
    /\ unread \subseteq Sessions
    /\ ask \in [step : {"idle", "sync", "send", "asked", "answered"}, mode : Modes,
                latest : BOOLEAN, of : Session, context : SUBSET Material]
    /\ box \in [text : {"note", "busy", "answer", "error"},
                mode : Modes, context : SUBSET Material]
    /\ questions \in 0..MaxQuestions
    /\ heard \in [Sessions -> Count] /\ owed \in [Sessions -> Count]
    /\ behind \in BOOLEAN

NoRefresh == [step |-> "idle", latest |-> FALSE, pending |-> FALSE, of |-> None, n |-> 0]
NoAsk     == [step |-> "idle", mode |-> "plain", latest |-> FALSE, of |-> None, context |-> {}]
Note      == [text |-> "note", mode |-> "plain", context |-> {}]

\* The window starts on the active session, if one is found; nothing is loaded.
\* The student may have asked before.
Init ==
    /\ stored = [s \in Sessions |-> 0] /\ synced = {}
    /\ asks \in {<<>>} \cup {<<a>> : a \in Ask} /\ handlers = {}
    /\ frames = <<>>
    /\ visible = FALSE /\ current \in Session
    /\ refresh = NoRefresh
    /\ shown = [ok |-> TRUE, of |-> None, n |-> 0]
    /\ unread = {}
    /\ ask = NoAsk /\ box = Note /\ questions = 0
    /\ heard = stored /\ owed = stored /\ behind = TRUE

-----------------------------------------------------------------------------
(* Server: an analysis is stored, then its frame is published; the frames    *)
(* of a broken socket are lost.                                              *)

\* All that is stored, an analysis by its session and its number.
Analyses == {a \in Sessions \X (1..MaxAnalyses) : a[2] <= stored[a[1]]}

Analyse(s) ==
    /\ Cardinality(Analyses) < MaxAnalyses
    /\ stored' = [stored EXCEPT ![s] = @ + 1]
    /\ synced' = synced \cup {s}
    /\ frames' = Append(frames, [of |-> s, n |-> stored'[s]])
    /\ UNCHANGED <<asks, handlers, panel, ask, box, questions>>

LoseFrames ==
    /\ frames # <<>> /\ frames' = <<>>
    /\ UNCHANGED <<server, panel, ask, box, questions>>

-----------------------------------------------------------------------------
(* Refreshing the cards. *)

\* Mutant: a request during another one is not remembered.
RefreshIfIdle(r, s) ==
    IF r.step # "idle" THEN r
    ELSE [step |-> "asked", latest |-> TRUE, pending |-> FALSE, of |-> s, n |-> 0]

\* _refresh_data: one worker at a time; a request that comes meanwhile
\* outdates it and is remembered.
Refresh(r, s) ==
    IF r.step # "idle" THEN [r EXCEPT !.latest = FALSE, !.pending = TRUE]
    ELSE [step |-> "asked", latest |-> TRUE, pending |-> FALSE, of |-> s, n |-> 0]

\* A newer generation without a refresh.
Outdated(r) == [r EXCEPT !.latest = FALSE]

\* _refresh_data_worker reads /recent of the session it was started for.
ReadRecent ==
    /\ refresh.step = "asked"
    /\ refresh' = [refresh EXCEPT !.step = "read",
                     !.n = IF refresh.of = None THEN 0 ELSE stored[refresh.of]]
    /\ UNCHANGED <<server, frames, visible, current, cards, heard, behind, ask, box, questions>>

\* The cards of one snapshot take the place of what was shown.
ShowCards(r) ==
    /\ shown' = [ok |-> TRUE, of |-> r.of, n |-> r.n]
    /\ unread' = unread \ {r.of}
    /\ owed' = [s \in Sessions |-> IF s = r.of /\ owed[s] <= r.n THEN 0 ELSE owed[s]]

ShowUnavailable ==
    /\ shown' = [ok |-> FALSE, of |-> None, n |-> 0]
    /\ UNCHANGED <<unread, owed>>

\* _settle_refresh_generation, _apply_refresh_result and
\* _apply_refresh_failure: an outdated result is dropped, and the pending
\* request starts, for the session that is current now.
Settle ==
    /\ refresh.step # "idle"
    /\ \/ /\ ~refresh.latest
          /\ refresh' = IF refresh.pending THEN Refresh(NoRefresh, current) ELSE NoRefresh
          /\ behind' = (behind /\ ~refresh.pending)
          /\ UNCHANGED cards
       \/ /\ refresh.latest
          /\ refresh' = NoRefresh /\ behind' = behind
          /\ \/ refresh.step = "read" /\ refresh.of = current /\ ShowCards(refresh)
             \/ refresh.step = "read" /\ refresh.of # current /\ UNCHANGED cards
             \/ refresh.step = "asked" /\ ShowUnavailable   \* a request failed
    /\ UNCHANGED <<server, frames, visible, current, heard, ask, box, questions>>

-----------------------------------------------------------------------------
(* The main thread: panel, frames, polls. *)

\* The cards are asked for, for a session: what comes will be up to date.
AskForCards(s) ==
    /\ current' = s
    /\ refresh' = Refresh(refresh, s)
    /\ behind' = FALSE

TogglePanel ==
    /\ visible' = ~visible
    /\ \/ visible /\ UNCHANGED <<current, refresh, behind>>
       \/ ~visible /\ AskForCards(current)
    /\ UNCHANGED <<server, frames, cards, heard, ask, box, questions>>

\* _render_mentor_message opens the panel with the cards that are loaded.
MentorMessageOpens ==
    /\ ~visible
    /\ visible' = TRUE
    /\ UNCHANGED <<server, frames, current, refresh, cards, heard, behind, ask, box, questions>>

\* _select_session, from the drop-down or a button: a question of another
\* session is not displayed any more.
SelectSession(s) ==
    /\ visible
    /\ AskForCards(s)
    /\ ask' = IF s # current THEN [ask EXCEPT !.latest = FALSE] ELSE ask
    /\ UNCHANGED <<server, frames, visible, cards, heard, box, questions>>

\* A hidden panel follows the analysis, without a refresh of its own.
FollowAnalysis(f) ==
    /\ ~visible
    /\ current' = f.of
    /\ refresh' = IF f.of # current THEN Outdated(refresh) ELSE refresh
    /\ behind' = TRUE
    /\ UNCHANGED <<unread, owed>>

\* Mutant: the frame is marked instead of its session.
MarkFrame(f) ==
    /\ visible /\ f.of # current
    /\ unread' = unread \cup {f}
    /\ owed' = [owed EXCEPT ![f.of] = f.n]
    /\ UNCHANGED <<current, refresh, behind>>

MarkUnread(f) ==
    /\ visible /\ f.of # current
    /\ unread' = unread \cup {f.of}
    /\ owed' = [owed EXCEPT ![f.of] = f.n]
    /\ UNCHANGED <<current, refresh, behind>>

RefreshVisible(f) ==
    /\ visible /\ f.of = current
    /\ AskForCards(current)
    /\ UNCHANGED <<unread, owed>>

\* _handle_ws_message of an analysis.
AnalysisFrame ==
    /\ frames # <<>> /\ frames' = Tail(frames)
    /\ LET f == Head(frames) IN
       /\ heard' = [heard EXCEPT ![f.of] = f.n]
       /\ FollowAnalysis(f) \/ MarkUnread(f) \/ RefreshVisible(f)
    /\ UNCHANGED <<server, visible, shown, ask, box, questions>>

\* _apply_current_session_poll: only a hidden panel follows.
Follow(s) ==
    \/ (visible \/ s = current) /\ UNCHANGED <<current, refresh, behind>>
    \/ ~visible /\ s # current /\ AskForCards(s)

\* pollCurrentSession_: the active session of the local store, or, when it
\* has none, one that the server answers.  An answer that a local snapshot
\* outdated does nothing, like a poll that finds nothing.
Poll(s) ==
    /\ Follow(s)
    /\ UNCHANGED <<server, frames, visible, cards, heard, ask, box, questions>>

\* _show_upload_sync_notice, when a mentor asks for an upload.
SyncNotice ==
    /\ box' = Note
    /\ UNCHANGED <<server, frames, panel, ask, questions>>

-----------------------------------------------------------------------------
(* Asking the Copilot. *)

\* sendAskClicked_, syncThenAskClicked_, askWithoutContextClicked_ and
\* _start_student_ask: one question at a time; the sync needs a session.
StartAsk(mode) ==
    /\ visible /\ ask.step = "idle"
    /\ mode = "sync" => current # None
    /\ questions < MaxQuestions
    /\ questions' = questions + 1
    /\ ask' = [step |-> IF mode = "sync" THEN "sync" ELSE "send", mode |-> mode,
               latest |-> TRUE, of |-> current, context |-> {}]
    /\ box' = [Note EXCEPT !.text = "busy"]
    /\ UNCHANGED <<server, frames, panel>>

\* ... a click that is refused says why.
RefuseAsk(mode) ==
    /\ visible
    /\ ask.step # "idle" \/ (mode = "sync" /\ current = None)
    /\ box' = Note
    /\ UNCHANGED <<server, frames, panel, ask, questions>>

\* Mutant: the question is sent although the upload failed.
SyncOrNot ==
    /\ ask.step = "sync"
    /\ synced' \in {synced, synced \cup {ask.of}}
    /\ ask' = [ask EXCEPT !.step = "send"]
    /\ UNCHANGED <<stored, asks, handlers, frames, panel, box, questions>>

\* _sync_then_send_student_ask_worker uploads the session first.
SyncSession ==
    /\ ask.step = "sync"
    /\ synced' = synced \cup {ask.of}
    /\ ask' = [ask EXCEPT !.step = "send"]
    /\ UNCHANGED <<stored, asks, handlers, frames, panel, box, questions>>

\* Mutant: any earlier question will do.
AnyPriorAsks(mode) == {asks[i] : i \in DOMAIN asks}

\* _question_context_from_prior_asks: of the last three questions all, or,
\* without context, those about no session.
PriorAsks(mode) ==
    {asks[i] : i \in {n \in DOMAIN asks : /\ n + 3 > Len(asks)
                                          /\ mode = "without" => asks[n] = "free"}}

\* _build_student_question_context takes the transcript of the question's
\* session and of no other, if the server has the session.
Context(mode, s) ==
    PriorAsks(mode) \cup
        (IF mode # "without" /\ s \in synced THEN {"transcript"} ELSE {})

\* ask_copilot puts the context together, and waits for the LLM.
AnswerQuestion ==
    /\ ask.step = "send"
    /\ handlers' = handlers \cup
         {[q |-> questions, context |-> Context(ask.mode, ask.of),
           kind |-> IF ask.mode = "without" \/ ask.of = None THEN "free" ELSE "about"]}
    /\ ask' = [ask EXCEPT !.step = "asked"]
    /\ UNCHANGED <<stored, synced, asks, frames, panel, box, questions>>

\* The LLM answers, or a fallback does: question and answer are stored, also
\* when the window has given up.
StoreAsk(h) ==
    /\ h \in handlers /\ handlers' = handlers \ {h}
    /\ asks' = Append(asks, h.kind)
    /\ ask' = IF ask.step = "asked" /\ h.q = questions
              THEN [ask EXCEPT !.step = "answered", !.context = h.context] ELSE ask
    /\ UNCHANGED <<stored, synced, frames, panel, box, questions>>

Reply ==
    IF ask.step = "answered"
    THEN [text |-> "answer", mode |-> ask.mode, context |-> ask.context]
    ELSE [Note EXCEPT !.text = "error"]

\* _handle_ask_answer, or _handle_ask_error when the upload or the request
\* failed or timed out: the controls come back; the text is displayed if the
\* student still looks at the question's session.
AskDone ==
    /\ ask.step # "idle"
    /\ ask' = NoAsk
    /\ box' = IF ask.latest /\ ask.of = current THEN Reply ELSE box
    /\ UNCHANGED <<server, frames, panel, questions>>

-----------------------------------------------------------------------------

Next ==
    \/ \E s \in Sessions : Analyse(s) \/ SelectSession(s) \/ Poll(s)
    \/ LoseFrames \/ AnalysisFrame
    \/ ReadRecent \/ Settle
    \/ TogglePanel \/ MentorMessageOpens \/ SyncNotice
    \/ \E m \in Modes : StartAsk(m) \/ RefuseAsk(m)
    \/ SyncSession \/ AnswerQuestion \/ AskDone
    \/ \E h \in handlers : StoreAsk(h)

Spec == Init /\ [][Next]_vars

-----------------------------------------------------------------------------
(* Properties. *)

\* A visible panel at rest shows the session it stands on, with every analysis
\* the window has heard of.  (Or it says that the service is gone; or a mentor
\* message opened it as it was left, with frames followed that it has not loaded.)
CurrentIsFresh ==
    visible /\ ~behind /\ refresh.step = "idle" /\ shown.ok /\ current # None
        => shown.of = current /\ heard[current] <= shown.n

\* An unread mark goes away only with cards that include what it stands for.
UnreadIsLoaded ==
    \A s \in Sessions \ unread : owed[s] = 0

\* No interleaving of clicks, frames, polls and late refreshes
\* (_settle_refresh_generation) loses an analysis the window was told of.
NothingMissed == CurrentIsFresh /\ UnreadIsLoaded

\* On display, a question asked after a sync was answered with the transcript
\* of its session, and one asked without context was answered without anything about any session, whatever
\* the student asked before (_build_student_question_context).
AnswerFitsQuestion ==
    /\ box.text = "answer" /\ box.mode = "sync" => "transcript" \in box.context
    /\ box.text = "answer" /\ box.mode = "without" => box.context \subseteq {"free"}

=============================================================================
