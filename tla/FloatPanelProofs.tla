---------------------------- MODULE FloatPanelProofs ----------------------------
(***************************************************************************)
(* What TLAPS proves of FloatPanel, for any number of sessions, analyses   *)
(* and questions.                                                          *)
(***************************************************************************)
EXTENDS FloatPanel, FiniteSetTheorems, SequenceTheorems, TLAPS

\* Steps of the ask box: they touch neither the panel nor the analyses.
Asking ==
    \/ SyncNotice
    \/ \E m \in Modes : StartAsk(m) \/ RefuseAsk(m)
    \/ SyncSession \/ AnswerQuestion \/ AskDone
    \/ \E h \in handlers : StoreAsk(h)

Rest == <<stored, frames, panel>>

LEMMA AskingKeepsPanel == Asking => UNCHANGED Rest
BY DEF Asking, Rest, server, SyncNotice, StartAsk, RefuseAsk, SyncSession, AnswerQuestion, AskDone,
       StoreAsk

LEMMA Cases ==
    ASSUME [Next]_vars
    PROVE  \/ UNCHANGED Rest
           \/ \E s \in Sessions : Analyse(s) \/ SelectSession(s) \/ Poll(s)
           \/ LoseFrames \/ AnalysisFrame \/ ReadRecent \/ Settle
           \/ TogglePanel \/ MentorMessageOpens
<1>1. CASE Asking
    BY <1>1, AskingKeepsPanel
<1>2. CASE UNCHANGED vars
    BY <1>2 DEF vars, Rest, server
<1> QED BY <1>1, <1>2 DEF Next, Asking

-----------------------------------------------------------------------------
(* The types of the panel's variables, and what a frame may say. *)

Frame   == [of : Sessions, n : Nat]
Request == [step : {"idle", "asked", "read"}, latest : BOOLEAN,
            pending : BOOLEAN, of : Session, n : Nat]
Cards   == [ok : BOOLEAN, of : Session, n : Nat]

Types ==
    /\ stored \in [Sessions -> Nat]
    /\ frames \in Seq(Frame)
    /\ visible \in BOOLEAN /\ current \in Session
    /\ refresh \in Request
    /\ shown \in Cards
    /\ unread \subseteq Sessions
    /\ heard \in [Sessions -> Nat] /\ owed \in [Sessions -> Nat]
    /\ behind \in BOOLEAN

LEMMA RefreshTyped ==
    ASSUME NEW r \in Request, NEW s \in Session
    PROVE  Refresh(r, s) \in Request /\ Outdated(r) \in Request
<1>1. CASE r.step = "idle"
    BY <1>1 DEF Refresh, Outdated, Request
<1>2. CASE r.step # "idle"
  <2>1. Refresh(r, s) = [r EXCEPT !.latest = FALSE, !.pending = TRUE]
      BY <1>2 DEF Refresh
  <2> QED BY <2>1 DEF Request, Outdated
<1> QED BY <1>1, <1>2

LEMMA NoRefreshTyped == NoRefresh \in Request
BY DEF NoRefresh, Request, Session

LEMMA TypesStep == Types /\ [Next]_vars => Types'
<1> SUFFICES ASSUME Types, [Next]_vars PROVE Types'
    OBVIOUS
<1> USE DEF Types, Session, cards
<1>1. CASE UNCHANGED Rest
    BY <1>1 DEF Rest, panel
<1>2. ASSUME NEW s \in Sessions, Analyse(s) PROVE Types'
  <2>1. stored' \in [Sessions -> Nat]
      BY <1>2 DEF Analyse
  <2>2. [of |-> s, n |-> stored'[s]] \in Frame
      BY <2>1 DEF Frame
  <2>3. frames' \in Seq(Frame)
      BY <1>2, <2>2 DEF Analyse
  <2> QED BY <1>2, <2>1, <2>3 DEF Analyse, panel
<1>3. ASSUME NEW s \in Sessions, SelectSession(s) PROVE Types'
    BY <1>3, RefreshTyped DEF SelectSession, AskForCards, server
<1>4. ASSUME NEW s \in Sessions, Poll(s) PROVE Types'
    BY <1>4, RefreshTyped DEF Poll, Follow, AskForCards, server
<1>5. CASE LoseFrames
    BY <1>5 DEF LoseFrames, server, panel
<1>6. CASE AnalysisFrame
  <2>1. Head(frames) \in Frame /\ Tail(frames) \in Seq(Frame)
      BY <1>6 DEF AnalysisFrame
  <2>a. Head(frames).of \in Sessions /\ Head(frames).n \in Nat
      BY <2>1 DEF Frame
  <2>2. CASE FollowAnalysis(Head(frames))
      BY <1>6, <2>1, <2>a, <2>2, RefreshTyped DEF AnalysisFrame, FollowAnalysis, server
  <2>3. CASE MarkUnread(Head(frames))
      BY <1>6, <2>1, <2>a, <2>3 DEF AnalysisFrame, MarkUnread, server
  <2>4. CASE RefreshVisible(Head(frames))
      BY <1>6, <2>1, <2>a, <2>4, RefreshTyped DEF AnalysisFrame, RefreshVisible, AskForCards, server
  <2> QED BY <1>6, <2>2, <2>3, <2>4 DEF AnalysisFrame
<1>7. CASE ReadRecent
  <2>1. refresh' \in Request
      BY <1>7 DEF ReadRecent, Request
  <2> QED BY <1>7, <2>1 DEF ReadRecent, server
<1>8. CASE Settle
  <2>1. /\ refresh' = NoRefresh \/ refresh' = Refresh(NoRefresh, current)
        /\ behind' \in BOOLEAN
      BY <1>8 DEF Settle
  <2>2. refresh' \in Request
      BY <2>1, NoRefreshTyped, RefreshTyped
  <2>3. CASE UNCHANGED cards
      BY <1>8, <2>1, <2>2, <2>3 DEF Settle, server
  <2>4. CASE ShowCards(refresh)
    <3>1. refresh.of \in Session /\ refresh.n \in Nat
        BY DEF Request
    <3>2. shown' \in Cards
        BY <2>4, <3>1 DEF ShowCards, Cards
    <3>3. unread' \subseteq Sessions /\ owed' \in [Sessions -> Nat]
        BY <2>4 DEF ShowCards
    <3> QED BY <1>8, <2>1, <2>2, <3>2, <3>3 DEF Settle, server
  <2>5. CASE ShowUnavailable
    <3>1. shown' \in Cards
        BY <2>5 DEF ShowUnavailable, Cards
    <3> QED BY <1>8, <2>1, <2>2, <2>5, <3>1 DEF Settle, server, ShowUnavailable
  <2> QED BY <1>8, <2>3, <2>4, <2>5 DEF Settle
<1>9. CASE TogglePanel
    BY <1>9, RefreshTyped DEF TogglePanel, AskForCards, server
<1>10. CASE MentorMessageOpens
    BY <1>10 DEF MentorMessageOpens, server
<1> QED BY <1>1, <1>2, <1>3, <1>4, <1>5, <1>6, <1>7, <1>8, <1>9, <1>10, Cases

LEMMA TypesInit == Init => Types
<1> SUFFICES ASSUME Init PROVE Types
    OBVIOUS
<1>1. stored \in [Sessions -> Nat] /\ heard \in [Sessions -> Nat] /\ owed \in [Sessions -> Nat]
    BY DEF Init
<1>2. shown \in Cards
    BY DEF Init, Cards, Session
<1>3. visible \in BOOLEAN /\ current \in Session /\ unread \subseteq Sessions /\ behind \in BOOLEAN
    BY DEF Init
<1>5. frames \in Seq(Frame)
  <2>1. frames = <<>>
      BY DEF Init
  <2> QED BY <2>1
<1>4. refresh \in Request
    BY NoRefreshTyped DEF Init
<1> QED BY <1>1, <1>2, <1>3, <1>4, <1>5 DEF Types

-----------------------------------------------------------------------------
(* What the window hears of is on the server. *)

Told ==
    /\ \A i \in 1..Len(frames) : frames[i].n <= stored[frames[i].of]
    /\ \A s \in Sessions : heard[s] <= stored[s] /\ owed[s] <= stored[s]

LEMMA ToldStep == Types /\ Told /\ [Next]_vars => Told'
<1> SUFFICES ASSUME Types, Told, [Next]_vars PROVE Told'
    OBVIOUS
<1> USE DEF Types, Told, cards
<1>1. CASE UNCHANGED Rest
    BY <1>1 DEF Rest, panel
<1>2. ASSUME NEW s \in Sessions, Analyse(s) PROVE Told'
  <2> DEFINE new == [of |-> s, n |-> stored[s] + 1]
  <2>1. /\ stored' = [stored EXCEPT ![s] = @ + 1] /\ frames' = Append(frames, new)
        /\ heard' = heard /\ owed' = owed
      BY <1>2 DEF Analyse, panel
  <2>2. \A r \in Sessions : stored'[r] \in Nat /\ stored[r] <= stored'[r]
      BY <2>1
  <2>3. \A r \in Sessions : heard'[r] <= stored'[r] /\ owed'[r] <= stored'[r]
      BY <2>1, <2>2
  <2>4. new.of = s /\ new.n = stored'[s] /\ new \in Frame
      BY <2>1 DEF Frame
  <2>5. ASSUME NEW i \in 1..Len(frames') PROVE frames'[i].n <= stored'[frames'[i].of]
    <3>1. CASE i <= Len(frames)
      <4>1. i \in 1..Len(frames) /\ frames'[i] = frames[i] /\ frames[i] \in Frame
          BY <2>1, <2>4, <2>5, <3>1
      <4>2. frames[i].of \in Sessions /\ frames[i].n \in Nat
          BY <4>1 DEF Frame
      <4> QED BY <4>1, <4>2, <2>2
    <3>2. CASE ~(i <= Len(frames))
      <4>1. frames'[i] = new
          BY <2>1, <2>4, <2>5, <3>2
      <4> QED BY <4>1, <2>2, <2>4
    <3> QED BY <3>1, <3>2
  <2> QED BY <2>3, <2>5
<1>3. CASE \E s \in Sessions : SelectSession(s) \/ Poll(s)
    BY <1>3 DEF SelectSession, Poll, server
<1>4. CASE LoseFrames
    BY <1>4 DEF LoseFrames, server, panel
<1>5. CASE AnalysisFrame
  <2>1. /\ Head(frames) = frames[1] /\ Head(frames) \in Frame /\ 1 \in 1..Len(frames)
        /\ frames' = Tail(frames)
      BY <1>5 DEF AnalysisFrame
  <2>2. \A i \in 1..Len(Tail(frames)) : i + 1 \in 1..Len(frames) /\ Tail(frames)[i] = frames[i + 1]
      BY <2>1
  <2>3. Head(frames).of \in Sessions /\ Head(frames).n <= stored[Head(frames).of]
      BY <2>1 DEF Frame
  <2>4. stored' = stored /\ heard' = [heard EXCEPT ![Head(frames).of] = Head(frames).n]
      BY <1>5 DEF AnalysisFrame, server
  <2>5. owed' = owed \/ owed' = [owed EXCEPT ![Head(frames).of] = Head(frames).n]
      BY <1>5 DEF AnalysisFrame, FollowAnalysis, MarkUnread, RefreshVisible
  <2> QED BY <2>1, <2>2, <2>3, <2>4, <2>5
<1>6. CASE ReadRecent
    BY <1>6 DEF ReadRecent, server
<1>7. CASE Settle
  <2>1. stored' = stored /\ frames' = frames /\ heard' = heard
      BY <1>7 DEF Settle, server
  <2>2. owed' = owed \/ ShowCards(refresh)
      BY <1>7 DEF Settle, ShowUnavailable
  <2>3. ASSUME NEW s \in Sessions PROVE owed'[s] <= stored[s]
    <3>1. owed'[s] = 0 \/ owed'[s] = owed[s]
        BY <2>2 DEF ShowCards
    <3>2. stored[s] \in Nat /\ owed[s] <= stored[s]
        OBVIOUS
    <3> QED BY <3>1, <3>2
  <2> QED BY <2>1, <2>3
<1>8. CASE TogglePanel \/ MentorMessageOpens
    BY <1>8 DEF TogglePanel, MentorMessageOpens, server
<1> QED BY <1>1, <1>2, <1>3, <1>4, <1>5, <1>6, <1>7, <1>8, Cases

-----------------------------------------------------------------------------
(* What a refresh knows, at rest and on its way. *)

\* The cards of a panel at rest.
AtRest(r) ==
    r.step = "idle" /\ shown.ok /\ current # None
        => shown.of = current /\ heard[current] <= shown.n

\* A refresh that counts has read what was heard of; one that does not count
\* will be followed by another.
UnderWay(r) ==
    r.step # "idle" =>
        /\ r.latest /\ r.step = "read" /\ r.of # None => heard[r.of] <= r.n
        /\ ~r.latest => r.pending

\* Visible or not: a panel that is not behind is up to date, or will be.
Panel == ~behind => AtRest(refresh) /\ UnderWay(refresh)

\* A refresh that counts is for the current session, and has read what it will
\* take off the unread marks.
Owed ==
    refresh.latest =>
        /\ refresh.of = current
        /\ refresh.step = "read" /\ refresh.of # None => owed[refresh.of] <= refresh.n

PanelInv == Types /\ Told /\ Panel /\ Owed /\ UnreadIsLoaded

LEMMA RefreshEffect ==
    ASSUME NEW r \in Request, NEW s \in Session
    PROVE  LET q == Refresh(r, s) IN
           /\ q.step # "idle"
           /\ q.latest => q.step = "asked" /\ q.of = s
           /\ ~q.latest => q.pending
           /\ ~Outdated(r).latest
<1>1. CASE r.step = "idle"
    BY <1>1 DEF Refresh, Outdated, Request
<1>2. CASE r.step # "idle"
  <2>1. Refresh(r, s) = [r EXCEPT !.latest = FALSE, !.pending = TRUE]
      BY <1>2 DEF Refresh
  <2> QED BY <1>2, <2>1 DEF Request, Outdated
<1> QED BY <1>1, <1>2

\* A new request leaves nothing to show yet.
LEMMA RequestKeeps ==
    ASSUME Types, NEW s \in Session, refresh' = Refresh(refresh, s), current' = s
    PROVE  Panel' /\ Owed'
<1>1. refresh \in Request
    BY DEF Types
<1>2. /\ refresh'.step # "idle"
      /\ refresh'.latest => refresh'.step = "asked" /\ refresh'.of = s
      /\ ~refresh'.latest => refresh'.pending
    BY <1>1, RefreshEffect
<1> QED BY <1>2 DEF Panel, Owed, AtRest, UnderWay

LEMMA FrameStep == PanelInv /\ AnalysisFrame => (Panel /\ Owed /\ UnreadIsLoaded)'
<1> SUFFICES ASSUME PanelInv, AnalysisFrame PROVE (Panel /\ Owed /\ UnreadIsLoaded)'
    OBVIOUS
<1> DEFINE f == Head(frames)
<1>1. f \in Frame
    BY DEF AnalysisFrame, PanelInv, Types
<1>2. f.of \in Sessions /\ f.n \in Nat
    BY <1>1 DEF Frame
<1>3. heard' = [heard EXCEPT ![f.of] = f.n] /\ shown' = shown
    BY DEF AnalysisFrame
<1>4. Types
    BY DEF PanelInv
<1>5. FollowAnalysis(f) \/ MarkUnread(f) \/ RefreshVisible(f)
    BY DEF AnalysisFrame
<1> HIDE DEF f
<1>6. CASE FollowAnalysis(f)
  <2>1. behind' /\ owed' = owed /\ unread' = unread
      BY <1>6 DEF FollowAnalysis
  <2>2. (refresh' = refresh /\ current' = current) \/ refresh' = Outdated(refresh)
      BY <1>6 DEF FollowAnalysis
  <2>3. Owed'
      BY <1>4, <2>1, <2>2 DEF PanelInv, Owed, Outdated, Types, Request
  <2> QED BY <2>1, <2>3 DEF PanelInv, Panel, UnreadIsLoaded
<1>7. CASE MarkUnread(f)
  <2>1. /\ f.of # current /\ current' = current /\ refresh' = refresh /\ behind' = behind
        /\ unread' = unread \cup {f.of} /\ owed' = [owed EXCEPT ![f.of] = f.n]
      BY <1>7 DEF MarkUnread
  <2>2. (~behind => AtRest(refresh) /\ UnderWay(refresh)) /\ Owed
      BY DEF PanelInv, Panel
  <2>3. \A s \in Session : s # f.of /\ s # None => heard'[s] = heard[s] /\ owed'[s] = owed[s]
      BY <1>2, <1>3, <1>4, <2>1 DEF Types, Session
  <2>4. refresh.of \in Session /\ current \in Session
      BY <1>4 DEF Types, Request
  <2>5. Panel'
    <3>1. AtRest(refresh) => AtRest(refresh)'
        BY <1>3, <2>1, <2>3, <2>4 DEF AtRest
    <3>2. UnderWay(refresh) => UnderWay(refresh)'
        BY <2>1, <2>2, <2>3, <2>4 DEF UnderWay, Owed
    <3> QED BY <2>1, <2>2, <3>1, <3>2 DEF Panel
  <2>6. Owed'
      BY <2>1, <2>2, <2>3, <2>4 DEF Owed
  <2>7. UnreadIsLoaded'
      BY <1>4, <2>1 DEF PanelInv, UnreadIsLoaded, Types
  <2> QED BY <2>5, <2>6, <2>7
<1>8. CASE RefreshVisible(f)
  <2>1. /\ refresh' = Refresh(refresh, current) /\ current' = current
        /\ unread' = unread /\ owed' = owed
      BY <1>8 DEF RefreshVisible, AskForCards
  <2>2. current \in Session
      BY <1>4 DEF Types
  <2>3. Panel' /\ Owed'
      BY <1>4, <2>1, <2>2, RequestKeeps
  <2> QED BY <2>1, <2>3 DEF PanelInv, UnreadIsLoaded
<1> QED BY <1>5, <1>6, <1>7, <1>8

LEMMA ReadStep == PanelInv /\ ReadRecent => (Panel /\ Owed /\ UnreadIsLoaded)'
<1> SUFFICES ASSUME PanelInv, ReadRecent PROVE (Panel /\ Owed /\ UnreadIsLoaded)'
    OBVIOUS
<1>1. Types /\ Told /\ refresh \in Request /\ refresh.of \in Session
    BY DEF PanelInv, Types, Request
<1>2. /\ refresh.step = "asked"
      /\ refresh' = [refresh EXCEPT !.step = "read",
                       !.n = IF refresh.of = None THEN 0 ELSE stored[refresh.of]]
      /\ behind' = behind /\ current' = current /\ shown' = shown
      /\ unread' = unread /\ owed' = owed /\ heard' = heard
    BY DEF ReadRecent, cards
<1>3. /\ refresh'.step = "read" /\ refresh'.of = refresh.of /\ refresh'.latest = refresh.latest
      /\ refresh'.pending = refresh.pending
      /\ refresh.of # None => refresh'.n = stored[refresh.of]
    BY <1>1, <1>2 DEF Request
<1>4. refresh.of # None => heard[refresh.of] <= refresh'.n /\ owed[refresh.of] <= refresh'.n
    BY <1>1, <1>3 DEF Told, Session
<1>5. Panel'
    BY <1>2, <1>3, <1>4 DEF PanelInv, Panel, AtRest, UnderWay
<1>6. Owed'
    BY <1>2, <1>3, <1>4 DEF PanelInv, Owed
<1> QED BY <1>2, <1>5, <1>6 DEF PanelInv, UnreadIsLoaded

LEMMA SettleStep == PanelInv /\ Settle => (Panel /\ Owed /\ UnreadIsLoaded)'
<1> SUFFICES ASSUME PanelInv, Settle PROVE (Panel /\ Owed /\ UnreadIsLoaded)'
    OBVIOUS
<1>1. Types /\ refresh \in Request /\ refresh.of \in Session /\ current \in Session
    BY DEF PanelInv, Types, Request
<1>2. /\ refresh.step # "idle" /\ current' = current /\ heard' = heard
      /\ refresh.latest => behind' = behind
      /\ ~refresh.latest /\ ~refresh.pending /\ behind => behind'
    BY DEF Settle
<1>3. NoRefresh.step = "idle" /\ ~NoRefresh.latest
    BY DEF NoRefresh
<1>4. CASE ~refresh.latest /\ refresh.pending
  <2>1. refresh' = Refresh(NoRefresh, current) /\ UNCHANGED cards
      BY <1>4 DEF Settle
  <2>2. /\ refresh'.step # "idle"
        /\ refresh'.latest => refresh'.step = "asked" /\ refresh'.of = current
        /\ ~refresh'.latest => refresh'.pending
      BY <1>1, <2>1, NoRefreshTyped, RefreshEffect
  <2> QED BY <1>2, <2>1, <2>2 DEF PanelInv, Panel, Owed, AtRest, UnderWay, UnreadIsLoaded, cards
<1>5. CASE ~refresh.latest /\ ~refresh.pending
  <2>1. refresh' = NoRefresh /\ UNCHANGED cards
      BY <1>5 DEF Settle
  <2>2. behind
      BY <1>2, <1>5 DEF PanelInv, Panel, UnderWay
  <2> QED BY <1>2, <1>3, <1>5, <2>1, <2>2 DEF PanelInv, Panel, Owed, UnreadIsLoaded, cards
<1>6. CASE refresh.latest
  <2>1. /\ refresh' = NoRefresh
        /\ \/ refresh.step = "read" /\ refresh.of = current /\ ShowCards(refresh)
           \/ refresh.step = "read" /\ refresh.of # current /\ UNCHANGED cards
           \/ refresh.step = "asked" /\ ShowUnavailable
      BY <1>6 DEF Settle
  <2>2. Owed'
      BY <1>3, <2>1 DEF Owed
  <2>3. UnderWay(refresh)'
      BY <1>3, <2>1 DEF UnderWay
  <2>4. CASE refresh.step = "read" /\ refresh.of = current /\ ShowCards(refresh)
    <3>1. shown'.of = refresh.of /\ shown'.n = refresh.n
        BY <2>4 DEF ShowCards
    <3>2. ~behind => AtRest(refresh)'
        BY <1>2, <1>6, <2>4, <3>1 DEF PanelInv, Panel, UnderWay, AtRest
    <3>3. ASSUME NEW s \in Sessions \ unread' PROVE owed'[s] = 0
      <4>1. CASE s = refresh.of
        <5>1. s # None
            BY PanelAssumption DEF PanelAssumption
        <5>2. owed[s] <= refresh.n
            BY <1>6, <2>4, <4>1, <5>1 DEF PanelInv, Owed
        <5> QED BY <2>4, <4>1, <5>2 DEF ShowCards
      <4>2. CASE s # refresh.of
          BY <2>4, <4>2 DEF PanelInv, UnreadIsLoaded, ShowCards
      <4> QED BY <4>1, <4>2
    <3> QED BY <1>2, <1>6, <2>2, <2>3, <3>2, <3>3 DEF Panel, UnreadIsLoaded
  <2>5. CASE refresh.of # current /\ UNCHANGED cards
    <3> QED BY <1>6, <2>5 DEF PanelInv, Owed
  <2>6. CASE ShowUnavailable
    <3>1. ~shown'.ok /\ unread' = unread /\ owed' = owed
        BY <2>6 DEF ShowUnavailable
    <3> QED BY <1>2, <1>6, <2>2, <2>3, <3>1 DEF PanelInv, Panel, AtRest, UnreadIsLoaded
  <2> QED BY <2>1, <2>4, <2>5, <2>6
<1> QED BY <1>4, <1>5, <1>6

-----------------------------------------------------------------------------

LEMMA PanelStep == PanelInv /\ [Next]_vars => PanelInv'
<1> SUFFICES ASSUME PanelInv, [Next]_vars PROVE PanelInv'
    OBVIOUS
<1> USE DEF cards
<1>1. Types' /\ Told'
    BY TypesStep, ToldStep DEF PanelInv
<1>2. Types /\ current \in Session
    BY DEF PanelInv, Types
<1> SUFFICES (Panel /\ Owed /\ UnreadIsLoaded)'
    BY <1>1 DEF PanelInv
<1>3. ASSUME UNCHANGED <<current, refresh, cards, heard, behind>>
      PROVE  (Panel /\ Owed /\ UnreadIsLoaded)'
    BY <1>3 DEF PanelInv, Panel, Owed, AtRest, UnderWay, UnreadIsLoaded
<1>4. CASE UNCHANGED Rest \/ LoseFrames \/ \E s \in Sessions : Analyse(s)
    BY <1>3, <1>4 DEF Rest, panel, LoseFrames, Analyse
<1>5. ASSUME NEW s \in Session, refresh' = Refresh(refresh, s), current' = s, UNCHANGED cards
      PROVE  (Panel /\ Owed /\ UnreadIsLoaded)'
  <2>1. Panel' /\ Owed'
      BY <1>2, <1>5, RequestKeeps
  <2> QED BY <1>5, <2>1 DEF PanelInv, UnreadIsLoaded
<1>6. ASSUME NEW s \in Sessions, SelectSession(s) PROVE (Panel /\ Owed /\ UnreadIsLoaded)'
    BY <1>5, <1>6 DEF SelectSession, AskForCards, Session
<1>7. ASSUME NEW s \in Sessions, Poll(s) PROVE (Panel /\ Owed /\ UnreadIsLoaded)'
    BY <1>3, <1>5, <1>7 DEF Poll, Follow, AskForCards, Session
<1>8. CASE TogglePanel
  <2>1. CASE visible
      BY <1>3, <1>8, <2>1 DEF TogglePanel
  <2>2. CASE ~visible
      BY <1>2, <1>5, <1>8, <2>2 DEF TogglePanel, AskForCards
  <2> QED BY <2>1, <2>2
<1>9. CASE MentorMessageOpens
    BY <1>3, <1>9 DEF MentorMessageOpens
<1> QED
    BY <1>4, <1>6, <1>7, <1>8, <1>9, FrameStep, ReadStep, SettleStep, Cases

LEMMA PanelInit == Init => PanelInv
<1> SUFFICES ASSUME Init PROVE PanelInv
    OBVIOUS
<1>1. Types
    BY TypesInit
<1>2. \A s \in Sessions : stored[s] = 0 /\ heard[s] = 0 /\ owed[s] = 0
    BY DEF Init
<1>3. frames = <<>> /\ behind /\ refresh = NoRefresh
    BY DEF Init
<1>4. Told
    BY <1>2, <1>3 DEF Told
<1>5. ~refresh.latest
    BY <1>3 DEF NoRefresh
<1> QED BY <1>1, <1>2, <1>3, <1>4, <1>5 DEF PanelInv, Panel, Owed, UnreadIsLoaded

\* The panel's answer to every interleaving of clicks, analysis frames, polls
\* and refreshes that come back late (_settle_refresh_generation): a visible
\* panel at rest shows its session with every analysis the window was told of,
\* unless a mentor message opened it behind frames that it had followed hidden;
\* and an unread mark goes only with the cards it stands for.
THEOREM NothingIsMissed == Spec => []NothingMissed
<1>1. PanelInv => NothingMissed
    BY DEF PanelInv, Panel, AtRest, NothingMissed, CurrentIsFresh
<1> QED BY <1>1, PanelInit, PanelStep, PTL DEF Spec

-----------------------------------------------------------------------------
(* Analyses are counted: no number passes the bound. *)

Bounded ==
    /\ \A s \in Sessions : stored[s] <= MaxAnalyses
    /\ refresh.n <= MaxAnalyses /\ shown.n <= MaxAnalyses

\* A session whose analyses reach the bound leaves no room for another one.
LEMMA FullSession ==
    ASSUME Types, NEW s \in Sessions, stored[s] = MaxAnalyses
    PROVE  ~(Cardinality(Analyses) < MaxAnalyses)
<1> DEFINE Of == {<<s, k>> : k \in 1..MaxAnalyses}
<1> USE PanelAssumption DEF PanelAssumption
<1>1. IsFiniteSet(1..MaxAnalyses) /\ Cardinality(1..MaxAnalyses) = MaxAnalyses
    BY FS_Interval
<1>2. IsFiniteSet(Sessions \X (1..MaxAnalyses))
    BY <1>1, FS_Product
<1>3. IsFiniteSet(Analyses)
    BY <1>2, FS_Subset DEF Analyses
<1>4. Of \subseteq Analyses
    BY DEF Analyses, Types
<1>5. ExistsBijection(1..MaxAnalyses, Of)
  <2> DEFINE f == [k \in 1..MaxAnalyses |-> <<s, k>>]
  <2>1. f \in Bijection(1..MaxAnalyses, Of)
      BY DEF Bijection, Injection, Surjection, IsInjective
  <2> QED BY <2>1 DEF ExistsBijection
<1>6. IsFiniteSet(Of) /\ Cardinality(Of) = MaxAnalyses
    BY <1>1, <1>5, FS_Bijection
<1>7. MaxAnalyses <= Cardinality(Analyses) /\ Cardinality(Analyses) \in Nat
    BY <1>3, <1>4, <1>6, FS_Subset, FS_CardinalityType
<1> QED BY <1>7

LEMMA BoundedStep == Types /\ Told /\ Bounded /\ [Next]_vars => Bounded'
<1> SUFFICES ASSUME Types, Told, Bounded, [Next]_vars PROVE Bounded'
    OBVIOUS
<1> USE DEF Types, Bounded, cards
<1> USE PanelAssumption DEF PanelAssumption
<1>1. CASE UNCHANGED Rest
    BY <1>1 DEF Rest, panel
<1>2. ASSUME NEW s \in Sessions, Analyse(s) PROVE Bounded'
  <2>1. stored[s] # MaxAnalyses
      BY <1>2, FullSession DEF Analyse
  <2>2. stored' = [stored EXCEPT ![s] = @ + 1] /\ refresh' = refresh /\ shown' = shown
      BY <1>2 DEF Analyse, panel
  <2>3. stored[s] \in Nat /\ stored[s] <= MaxAnalyses
      OBVIOUS
  <2>4. stored[s] + 1 <= MaxAnalyses
      BY <2>1, <2>3
  <2> QED BY <2>2, <2>4
<1>3. ASSUME NEW s \in Session, refresh' = Refresh(refresh, s) \/ refresh' = Outdated(refresh)
      PROVE  refresh'.n <= MaxAnalyses
  <2>1. refresh \in Request /\ refresh.n <= MaxAnalyses
      OBVIOUS
  <2> HIDE DEF Types, Bounded
  <2>2. CASE refresh.step = "idle" /\ refresh' = Refresh(refresh, s)
      BY <2>2 DEF Refresh
  <2>3. CASE refresh.step # "idle" /\ refresh' = Refresh(refresh, s)
    <3>1. refresh' = [refresh EXCEPT !.latest = FALSE, !.pending = TRUE]
        BY <2>3 DEF Refresh
    <3> QED BY <2>1, <3>1 DEF Request
  <2>4. CASE refresh' = Outdated(refresh)
      BY <2>1, <2>4 DEF Outdated, Request
  <2> QED BY <1>3, <2>2, <2>3, <2>4
<1>4. ASSUME NEW s \in Sessions, SelectSession(s) PROVE Bounded'
  <2>1. s \in Session /\ refresh' = Refresh(refresh, s) /\ stored' = stored /\ shown' = shown
      BY <1>4 DEF SelectSession, AskForCards, server, Session
  <2>2. refresh'.n <= MaxAnalyses
      BY <2>1, <1>3
  <2> QED BY <2>1, <2>2
<1>5. ASSUME NEW s \in Sessions, Poll(s) PROVE Bounded'
  <2>1. s \in Session /\ stored' = stored /\ shown' = shown
      BY <1>5 DEF Poll, server, Session
  <2>2. refresh' = refresh \/ refresh' = Refresh(refresh, s)
      BY <1>5 DEF Poll, Follow, AskForCards
  <2>3. refresh'.n <= MaxAnalyses
      BY <2>1, <2>2, <1>3
  <2> QED BY <2>1, <2>3
<1>6. CASE LoseFrames
    BY <1>6 DEF LoseFrames, server, panel
<1>7. CASE AnalysisFrame
  <2>1. stored' = stored /\ shown' = shown
      BY <1>7 DEF AnalysisFrame, server
  <2>2. refresh' = refresh \/ refresh' = Refresh(refresh, current) \/ refresh' = Outdated(refresh)
      BY <1>7 DEF AnalysisFrame, FollowAnalysis, MarkUnread, RefreshVisible, AskForCards
  <2>3. refresh'.n <= MaxAnalyses
      BY <2>2, <1>3
  <2> QED BY <2>1, <2>3
<1>8. CASE ReadRecent
  <2>1. refresh.of \in Session /\ refresh \in Request
      BY DEF Request
  <2>2. /\ refresh' = [refresh EXCEPT !.step = "read",
                         !.n = IF refresh.of = None THEN 0 ELSE stored[refresh.of]]
        /\ stored' = stored /\ shown' = shown
      BY <1>8 DEF ReadRecent, server
  <2>3. refresh'.n = IF refresh.of = None THEN 0 ELSE stored[refresh.of]
      BY <2>1, <2>2 DEF Request
  <2>4. refresh'.n = 0 \/ (refresh'.n = stored[refresh.of] /\ refresh.of \in Sessions)
      BY <2>1, <2>3 DEF Session
  <2> QED BY <2>2, <2>4
<1>9. CASE Settle
  <2>1. stored' = stored /\ (refresh' = NoRefresh \/ refresh' = Refresh(NoRefresh, current))
      BY <1>9 DEF Settle, server
  <2>2. refresh'.n = 0
      BY <2>1 DEF NoRefresh, Refresh
  <2>3. shown' = shown \/ shown'.n = refresh.n \/ shown'.n = 0
      BY <1>9 DEF Settle, ShowCards, ShowUnavailable
  <2> QED BY <2>1, <2>2, <2>3
<1>10. CASE TogglePanel
  <2>1. stored' = stored /\ shown' = shown
      BY <1>10 DEF TogglePanel, server
  <2>2. refresh' = refresh \/ refresh' = Refresh(refresh, current)
      BY <1>10 DEF TogglePanel, AskForCards
  <2>3. refresh'.n <= MaxAnalyses
      BY <2>2, <1>3
  <2> QED BY <2>1, <2>3
<1>11. CASE MentorMessageOpens
    BY <1>11 DEF MentorMessageOpens, server
<1> QED BY <1>1, <1>2, <1>4, <1>5, <1>6, <1>7, <1>8, <1>9, <1>10, <1>11, Cases

-----------------------------------------------------------------------------
(* The ask box: a question from the click to the text under it. *)

Question == [step : {"idle", "sync", "send", "asked", "answered"}, mode : Modes,
             latest : BOOLEAN, of : Session, context : SUBSET Material]
Text     == [text : {"note", "busy", "answer", "error"},
             mode : Modes, context : SUBSET Material]

AskTypes ==
    /\ synced \subseteq Sessions
    /\ asks \in Seq(Ask)
    /\ handlers \subseteq Handler /\ IsFiniteSet(handlers)
    /\ ask \in Question /\ box \in Text
    /\ questions \in 0..MaxQuestions

\* Every question that was sent is stored once, or will be; the student may
\* have asked one before the window was there.
NotSent == IF ask.step \in {"sync", "send"} THEN 1 ELSE 0
Counted == Len(asks) + Cardinality(handlers) + NotSent <= questions + 1

\* Material that suits the button the student pressed.
Fit(mode, context) ==
    /\ mode = "sync" => "transcript" \in context
    /\ mode = "without" => context \subseteq {"free"}

\* The handler of the question in flight has what suits it: the session of a
\* sync is on the server before the question is sent, and no handler of an
\* earlier question passes for it.
Suits ==
    /\ ask.step # "idle" => questions >= 1
    /\ ask.step = "sync" => ask.of \in Sessions
    /\ ask.step = "send" /\ ask.mode = "sync" => ask.of \in synced
    /\ ask.step \in {"sync", "send"} => \A h \in handlers : h.q # questions
    /\ ask.step = "asked" => \A h \in handlers : h.q = questions => Fit(ask.mode, h.context)
    /\ ask.step = "answered" => Fit(ask.mode, ask.context)
    /\ \A h \in handlers : h.q <= questions
    /\ box.text = "answer" => Fit(box.mode, box.context)

AskInv == AskTypes /\ Counted /\ Suits

LEMMA ContextFits ==
    ASSUME AskTypes, NEW mode \in Modes, NEW s \in Session
    PROVE  /\ Context(mode, s) \subseteq Material
           /\ (mode = "sync" => s \in synced) => Fit(mode, Context(mode, s))
<1>1. \A n \in DOMAIN asks : asks[n] \in Ask
    BY DEF AskTypes
<1>2. PriorAsks(mode) \subseteq Ask /\ (mode = "without" => PriorAsks(mode) \subseteq {"free"})
    BY <1>1 DEF PriorAsks
<1>3. Context(mode, s) \subseteq Material
    BY <1>2 DEF Context, Material
<1>4. mode = "without" => Context(mode, s) \subseteq {"free"}
    BY <1>2 DEF Context
<1>5. mode = "sync" /\ s \in synced => "transcript" \in Context(mode, s)
    BY DEF Context
<1> QED BY <1>3, <1>4, <1>5 DEF Fit

LEMMA StartAskStep ==
    ASSUME AskInv, Types, NEW mode \in Modes, StartAsk(mode)
    PROVE  AskInv'
<1>1. /\ ask.step = "idle" /\ (mode = "sync" => current # None) /\ questions < MaxQuestions
      /\ questions' = questions + 1
      /\ ask' = [step |-> IF mode = "sync" THEN "sync" ELSE "send", mode |-> mode,
                 latest |-> TRUE, of |-> current, context |-> {}]
      /\ box' = [Note EXCEPT !.text = "busy"]
      /\ synced' = synced /\ asks' = asks /\ handlers' = handlers
    BY DEF StartAsk, server
<1>2. /\ questions \in Nat /\ MaxQuestions \in Nat /\ current \in Session
      /\ Len(asks) \in Nat /\ Cardinality(handlers) \in Nat
      /\ \A h \in handlers : h.q \in Nat
    BY PanelAssumption, FS_CardinalityType DEF AskInv, AskTypes, Types, PanelAssumption, Handler
<1>3. ask' \in Question /\ ask'.step \in {"sync", "send"} /\ ask'.of = current
      /\ (ask'.step = "sync" <=> mode = "sync") /\ ask'.mode = mode
    BY <1>1, <1>2 DEF Question, Modes
<1>4. box' \in Text /\ box'.text = "busy"
    BY <1>1 DEF Note, Text, Modes
<1>5. AskTypes'
    BY <1>1, <1>2, <1>3, <1>4 DEF AskInv, AskTypes
<1>6. Counted'
  <2>1. NotSent = 0 /\ NotSent' = 1
      BY <1>1, <1>3 DEF NotSent
  <2> QED BY <1>1, <1>2, <2>1 DEF AskInv, Counted
<1>7. Suits'
  <2>1. \A h \in handlers : h.q <= questions
      BY DEF AskInv, Suits
  <2>2. \A h \in handlers : h.q <= questions + 1 /\ h.q # questions + 1
      BY <1>2, <2>1
  <2>3. questions' >= 1
      BY <1>1, <1>2
  <2>4. ask'.step = "sync" => ask'.of \in Sessions
      BY <1>1, <1>2, <1>3 DEF Session
  <2>5. ~(ask'.step = "send" /\ ask'.mode = "sync")
      BY <1>3
  <2> QED BY <1>1, <1>3, <1>4, <2>2, <2>3, <2>4, <2>5 DEF Suits
<1> QED BY <1>5, <1>6, <1>7 DEF AskInv

LEMMA SyncStep == AskInv /\ SyncSession => AskInv'
<1> SUFFICES ASSUME AskInv, SyncSession PROVE AskInv'
    OBVIOUS
<1>1. /\ ask.step = "sync" /\ synced' = synced \cup {ask.of}
      /\ ask' = [ask EXCEPT !.step = "send"]
      /\ asks' = asks /\ handlers' = handlers /\ box' = box /\ questions' = questions
      /\ ask \in Question /\ ask.of \in Sessions
    BY DEF SyncSession, AskInv, AskTypes, Suits
<1>2. ask' \in Question /\ ask'.step = "send" /\ ask'.of = ask.of /\ ask'.mode = ask.mode
    BY <1>1 DEF Question
<1>3. AskTypes'
    BY <1>1, <1>2 DEF AskInv, AskTypes
<1>4. Counted'
    BY <1>1, <1>2 DEF AskInv, Counted, NotSent
<1>5. Suits'
    BY <1>1, <1>2 DEF AskInv, Suits
<1> QED BY <1>3, <1>4, <1>5 DEF AskInv

LEMMA SendStep == AskInv /\ AnswerQuestion => AskInv'
<1> SUFFICES ASSUME AskInv, AnswerQuestion PROVE AskInv'
    OBVIOUS
<1>1. PICK h : h = [q |-> questions, context |-> Context(ask.mode, ask.of),
                    kind |-> IF ask.mode = "without" \/ ask.of = None THEN "free" ELSE "about"]
    OBVIOUS
<1>2. /\ ask.step = "send" /\ handlers' = handlers \cup {h}
      /\ ask' = [ask EXCEPT !.step = "asked"]
      /\ synced' = synced /\ asks' = asks /\ box' = box /\ questions' = questions
    BY <1>1 DEF AnswerQuestion
<1>3. /\ ask \in Question /\ ask.mode \in Modes /\ ask.of \in Session
      /\ questions \in 0..MaxQuestions /\ MaxQuestions \in Nat /\ questions >= 1
      /\ handlers \subseteq Handler /\ IsFiniteSet(handlers)
    BY <1>2, PanelAssumption DEF AskInv, AskTypes, Suits, Question, PanelAssumption
<1>4. AskTypes
    BY DEF AskInv
<1>5. h.q = questions /\ h.context = Context(ask.mode, ask.of)
    BY <1>1
<1>6. h \in Handler
  <2>1. Context(ask.mode, ask.of) \subseteq Material /\ questions \in 1..MaxQuestions
      BY <1>3, <1>4, ContextFits
  <2> QED BY <1>1, <2>1 DEF Handler, Ask
<1>7. Fit(ask.mode, h.context)
  <2>1. ask.mode = "sync" => ask.of \in synced
      BY <1>2 DEF AskInv, Suits
  <2> QED BY <1>3, <1>4, <1>5, <2>1, ContextFits
<1>8. ask' \in Question /\ ask'.step = "asked" /\ ask'.mode = ask.mode
    BY <1>2, <1>3 DEF Question
<1>9. /\ IsFiniteSet(handlers') /\ Cardinality(handlers) \in Nat
      /\ Cardinality(handlers') \in Nat /\ Cardinality(handlers') <= Cardinality(handlers) + 1
  <2>1. Cardinality(handlers) \in Nat
      BY <1>3, FS_CardinalityType
  <2>2. /\ IsFiniteSet(handlers \cup {h})
        /\ \/ Cardinality(handlers \cup {h}) = Cardinality(handlers)
           \/ Cardinality(handlers \cup {h}) = Cardinality(handlers) + 1
      BY <1>3, FS_AddElement
  <2> QED BY <1>2, <2>1, <2>2
<1>10. AskTypes'
    BY <1>2, <1>3, <1>6, <1>8, <1>9 DEF AskInv, AskTypes
<1>11. Counted'
  <2>1. NotSent = 1 /\ NotSent' = 0
      BY <1>2, <1>8 DEF NotSent
  <2>2. Len(asks) \in Nat /\ questions \in Nat
      BY <1>3 DEF AskInv, AskTypes
  <2>3. Len(asks) + Cardinality(handlers) + 1 <= questions + 1
      BY <2>1 DEF AskInv, Counted
  <2>4. Len(asks) + Cardinality(handlers') + 0 <= questions + 1
      BY <1>9, <2>2, <2>3
  <2> QED BY <1>2, <2>1, <2>4 DEF Counted
<1>12. Suits'
  <2>1. \A k \in handlers : k.q # questions /\ k.q <= questions
      BY <1>2 DEF AskInv, Suits
  <2>2. \A k \in handlers' : k.q <= questions /\ (k.q = questions => Fit(ask.mode, k.context))
      BY <1>2, <1>3, <1>5, <1>7, <2>1
  <2>3. box.text = "answer" => Fit(box.mode, box.context)
      BY DEF AskInv, Suits
  <2> QED BY <1>2, <1>3, <1>8, <2>2, <2>3 DEF Suits
<1> QED BY <1>10, <1>11, <1>12 DEF AskInv

LEMMA StoreStep ==
    ASSUME AskInv, NEW h \in handlers, StoreAsk(h)
    PROVE  AskInv'
<1>1. /\ handlers' = handlers \ {h} /\ asks' = Append(asks, h.kind)
      /\ ask' = IF ask.step = "asked" /\ h.q = questions
                THEN [ask EXCEPT !.step = "answered", !.context = h.context] ELSE ask
      /\ synced' = synced /\ box' = box /\ questions' = questions
    BY DEF StoreAsk
<1>2. /\ handlers \subseteq Handler /\ IsFiniteSet(handlers) /\ asks \in Seq(Ask)
      /\ ask \in Question /\ questions \in 0..MaxQuestions
      /\ h.kind \in Ask /\ h.context \subseteq Material
    BY DEF AskInv, AskTypes, Handler
<1>3. /\ IsFiniteSet(handlers') /\ Cardinality(handlers') = Cardinality(handlers) - 1
      /\ Cardinality(handlers) \in Nat
    BY <1>1, <1>2, FS_RemoveElement, FS_CardinalityType
<1>4. asks' \in Seq(Ask) /\ Len(asks') = Len(asks) + 1 /\ Len(asks) \in Nat
    BY <1>1, <1>2
<1>5. /\ ask' \in Question /\ ask'.mode = ask.mode /\ ask'.of = ask.of
      /\ \/ ask' = ask
         \/ /\ ask.step = "asked" /\ h.q = questions
            /\ ask'.step = "answered" /\ ask'.context = h.context
    BY <1>1, <1>2 DEF Question
<1>6. AskTypes'
    BY <1>1, <1>2, <1>3, <1>4, <1>5 DEF AskInv, AskTypes
<1>7. Counted'
  <2>1. NotSent' = NotSent /\ NotSent \in Nat
      BY <1>5 DEF NotSent
  <2>2. Len(asks) + Cardinality(handlers) + NotSent <= questions + 1 /\ questions \in Int
      BY <1>2 DEF AskInv, Counted
  <2> HIDE DEF NotSent
  <2>3. (Len(asks) + 1) + (Cardinality(handlers) - 1) + NotSent <= questions + 1
      BY <1>3, <1>4, <2>1, <2>2
  <2> QED BY <1>1, <1>3, <1>4, <2>1, <2>3 DEF Counted
<1>8. Suits'
  <2>1. Suits
      BY DEF AskInv
  <2>2. CASE ask' = ask
      BY <1>1, <2>1, <2>2 DEF Suits
  <2>3. CASE /\ ask.step = "asked" /\ h.q = questions
             /\ ask'.step = "answered" /\ ask'.context = h.context
    <3>1. Fit(ask.mode, h.context)
        BY <2>1, <2>3 DEF Suits
    <3> QED BY <1>1, <1>5, <2>1, <2>3, <3>1 DEF Suits
  <2> QED BY <1>5, <2>2, <2>3
<1> QED BY <1>6, <1>7, <1>8 DEF AskInv

LEMMA DoneStep == AskInv /\ AskDone => AskInv'
<1> SUFFICES ASSUME AskInv, AskDone PROVE AskInv'
    OBVIOUS
<1>1. /\ ask' = NoAsk
      /\ box' = IF ask.latest /\ ask.of = current THEN Reply ELSE box
      /\ synced' = synced /\ asks' = asks /\ handlers' = handlers /\ questions' = questions
    BY DEF AskDone, server
<1>2. ask' \in Question /\ ask'.step = "idle"
    BY <1>1 DEF NoAsk, Question, Session, Modes
<1>3. ask \in Question /\ box \in Text /\ Suits
    BY DEF AskInv, AskTypes
<1>4. Reply \in Text /\ (Reply.text = "answer" => Fit(Reply.mode, Reply.context))
  <2>1. CASE ask.step = "answered"
    <3>1. Reply = [text |-> "answer", mode |-> ask.mode, context |-> ask.context]
        BY <2>1 DEF Reply
    <3>2. ask.mode \in Modes /\ ask.context \subseteq Material /\ Fit(ask.mode, ask.context)
        BY <1>3, <2>1 DEF Question, Suits
    <3> QED BY <3>1, <3>2 DEF Text
  <2>2. CASE ask.step # "answered"
      BY <2>2 DEF Reply, Note, Text, Modes
  <2> QED BY <2>1, <2>2
<1>5. PICK reply : reply = Reply
    OBVIOUS
<1>6. box' = box \/ box' = reply
    BY <1>1, <1>5
<1>7. box' \in Text /\ (box'.text = "answer" => Fit(box'.mode, box'.context))
  <2>1. box.text = "answer" => Fit(box.mode, box.context)
      BY <1>3 DEF Suits
  <2> QED BY <1>3, <1>4, <1>5, <1>6, <2>1
<1>8. AskTypes'
    BY <1>1, <1>2, <1>7 DEF AskInv, AskTypes
<1>9. Counted'
  <2>1. NotSent' = 0 /\ NotSent \in {0, 1}
      BY <1>2 DEF NotSent
  <2>2. /\ Len(asks) \in Nat /\ Cardinality(handlers) \in Nat /\ questions \in Int
        /\ Len(asks) + Cardinality(handlers) + NotSent <= questions + 1
      BY FS_CardinalityType DEF AskInv, AskTypes, Counted
  <2> HIDE DEF NotSent
  <2>3. Len(asks) + Cardinality(handlers) + 0 <= questions + 1
      BY <2>1, <2>2
  <2> QED BY <1>1, <2>1, <2>3 DEF Counted
<1>10. Suits'
    BY <1>1, <1>2, <1>3, <1>7 DEF Suits
<1> QED BY <1>8, <1>9, <1>10 DEF AskInv

\* What the other steps do to the question: a newer selection outdates it, a
\* notice takes the place of the text, an analysis brings a session.
LEMMA AskKept ==
    ASSUME AskInv,
           synced' = synced \/ (\E s \in Sessions : synced' = synced \cup {s}),
           ask' = ask \/ ask' = [ask EXCEPT !.latest = FALSE],
           box' = box \/ box' = Note,
           UNCHANGED <<asks, handlers, questions>>
    PROVE  AskInv'
<1>1. ask \in Question /\ synced \subseteq synced' /\ synced' \subseteq Sessions /\ Suits
    BY DEF AskInv, AskTypes
<1>2. /\ ask' \in Question /\ ask'.step = ask.step /\ ask'.mode = ask.mode
      /\ ask'.of = ask.of /\ ask'.context = ask.context
    BY <1>1 DEF Question
<1>3. box' \in Text /\ (box'.text = "answer" => box' = box)
    BY DEF AskInv, AskTypes, Note, Text, Modes
<1>4. AskTypes'
    BY <1>1, <1>2, <1>3 DEF AskInv, AskTypes
<1>5. Counted'
    BY <1>2 DEF AskInv, Counted, NotSent
<1>6. Suits'
    BY <1>1, <1>2, <1>3 DEF Suits
<1> QED BY <1>4, <1>5, <1>6 DEF AskInv

LEMMA AskStep == AskInv /\ Types /\ [Next]_vars => AskInv'
<1> SUFFICES ASSUME AskInv, Types, [Next]_vars PROVE AskInv'
    OBVIOUS
<1>1. CASE UNCHANGED vars
    BY <1>1, AskKept DEF vars, server
<1>2. ASSUME NEW s \in Sessions, Analyse(s) PROVE AskInv'
    BY <1>2, AskKept DEF Analyse
<1>3. ASSUME NEW s \in Sessions, SelectSession(s) PROVE AskInv'
    BY <1>3, AskKept DEF SelectSession, AskForCards, server
<1>4. ASSUME NEW s \in Sessions, Poll(s) PROVE AskInv'
    BY <1>4, AskKept DEF Poll, server
<1>5. CASE LoseFrames \/ AnalysisFrame \/ ReadRecent \/ Settle \/ TogglePanel \/ MentorMessageOpens
    BY <1>5, AskKept
    DEF LoseFrames, AnalysisFrame, ReadRecent, Settle, TogglePanel, MentorMessageOpens, server
<1>6. CASE SyncNotice \/ \E m \in Modes : RefuseAsk(m)
    BY <1>6, AskKept DEF SyncNotice, RefuseAsk, server
<1> QED BY <1>1, <1>2, <1>3, <1>4, <1>5, <1>6, StartAskStep, SyncStep, SendStep, StoreStep, DoneStep
        DEF Next

LEMMA AskInit == Init => AskInv
<1> SUFFICES ASSUME Init PROVE AskInv
    OBVIOUS
<1>1. asks \in Seq(Ask) /\ Len(asks) \in {0, 1}
  <2>1. asks = <<>> \/ \E a \in Ask : asks = <<a>>
      BY DEF Init
  <2>2. CASE asks = <<>>
      BY <2>2
  <2>3. ASSUME NEW a \in Ask, asks = <<a>> PROVE asks \in Seq(Ask) /\ Len(asks) = 1
      BY <2>3
  <2> QED BY <2>1, <2>2, <2>3
<1>2. handlers = {} /\ IsFiniteSet(handlers) /\ Cardinality(handlers) = 0
    BY FS_EmptySet DEF Init
<1>3. ask \in Question /\ ask.step = "idle"
    BY DEF Init, NoAsk, Question, Session, Modes
<1>4. box \in Text /\ box.text = "note"
    BY DEF Init, Note, Text, Modes
<1>5. questions = 0 /\ synced = {} /\ questions \in 0..MaxQuestions
    BY PanelAssumption DEF Init, PanelAssumption
<1>6. AskTypes
    BY <1>1, <1>2, <1>3, <1>4, <1>5 DEF AskTypes
<1>7. Counted
  <2>1. NotSent = 0
      BY <1>3 DEF NotSent
  <2> QED BY <1>1, <1>2, <1>5, <2>1 DEF Counted
<1>8. Suits
    BY <1>2, <1>3, <1>4 DEF Suits
<1> QED BY <1>6, <1>7, <1>8 DEF AskInv

-----------------------------------------------------------------------------

LEMMA BoundedInit == Init => Bounded
BY PanelAssumption DEF Init, Bounded, NoRefresh, PanelAssumption

WindowInv == PanelInv /\ Bounded /\ AskInv

LEMMA WindowHolds == Spec => []WindowInv
<1>1. Init => WindowInv
    BY PanelInit, BoundedInit, AskInit DEF WindowInv
<1>2. WindowInv /\ [Next]_vars => WindowInv'
  <2>1. PanelInv => Types /\ Told
      BY DEF PanelInv
  <2> QED BY <2>1, PanelStep, BoundedStep, AskStep DEF WindowInv
<1> QED BY <1>1, <1>2, PTL DEF Spec

\* No session is counted past what the server stores, no card, frame or mark
\* stands for an analysis that is not there, and every question is stored once.
THEOREM PanelTypeCorrect == Spec => []TypeOK
<1>1. WindowInv => TypeOK
  <2> SUFFICES ASSUME WindowInv PROVE TypeOK
      OBVIOUS
  <2> USE PanelAssumption DEF PanelAssumption
  <2>1. Types /\ Told /\ Bounded /\ AskTypes /\ Counted
      BY DEF WindowInv, PanelInv, AskInv
  <2>2. /\ \A s \in Sessions : stored[s] \in Count /\ heard[s] \in Count /\ owed[s] \in Count
        /\ stored \in [Sessions -> Count] /\ heard \in [Sessions -> Count]
        /\ owed \in [Sessions -> Count]
    <3>1. \A s \in Sessions :
              /\ stored[s] \in Nat /\ heard[s] \in Nat /\ owed[s] \in Nat
              /\ stored[s] <= MaxAnalyses /\ heard[s] <= stored[s] /\ owed[s] <= stored[s]
        BY <2>1 DEF Types, Told, Bounded
    <3>2. \A s \in Sessions : stored[s] \in Count /\ heard[s] \in Count /\ owed[s] \in Count
        BY <3>1 DEF Count
    <3> QED BY <2>1, <3>2 DEF Types
  <2>3. frames \in Seq([of : Sessions, n : Count])
    <3>1. frames \in Seq(Frame)
        BY <2>1 DEF Types
    <3>2. ASSUME NEW i \in 1..Len(frames) PROVE frames[i] \in [of : Sessions, n : Count]
      <4>1. frames[i] \in Frame
          BY <3>1
      <4>2. frames[i].of \in Sessions /\ frames[i].n \in Nat
          BY <4>1 DEF Frame
      <4>3. frames[i].n <= stored[frames[i].of] /\ stored[frames[i].of] \in Count
          BY <2>1, <2>2, <4>2 DEF Told
      <4>4. frames[i].n \in Count
          BY <4>2, <4>3 DEF Count
      <4> QED BY <4>1, <4>2, <4>4 DEF Frame
    <3>3. Len(frames) \in Nat /\ frames \in [1..Len(frames) -> Frame]
        BY <3>1, LenProperties
    <3>4. frames \in [1..Len(frames) -> [of : Sessions, n : Count]]
        BY <3>2, <3>3
    <3> QED BY <3>3, <3>4, SeqDef
  <2>4. /\ refresh \in [step : {"idle", "asked", "read"}, latest : BOOLEAN,
                        pending : BOOLEAN, of : Session, n : Count]
        /\ shown \in [ok : BOOLEAN, of : Session, n : Count]
    <3>1. refresh \in Request /\ shown \in Cards /\ refresh.n \in Nat /\ shown.n \in Nat
        BY <2>1 DEF Types, Request, Cards
    <3>2. refresh.n \in Count /\ shown.n \in Count
        BY <2>1, <3>1 DEF Bounded, Count
    <3> QED BY <3>1, <3>2 DEF Request, Cards
  <2>5. Len(asks) <= MaxQuestions + 1
    <3>1. /\ Len(asks) \in Nat /\ Cardinality(handlers) \in Nat /\ NotSent \in Nat
          /\ questions \in Nat /\ questions <= MaxQuestions
        BY <2>1, FS_CardinalityType DEF AskTypes, NotSent
    <3>2. Len(asks) + Cardinality(handlers) + NotSent <= questions + 1
        BY <2>1 DEF Counted
    <3> HIDE DEF NotSent
    <3> QED BY <3>1, <3>2
  <2> QED BY <2>1, <2>2, <2>3, <2>4, <2>5 DEF TypeOK, Types, AskTypes, Question, Text
<1> QED BY <1>1, WindowHolds, PTL

\* However slowly the upload, the server or the LLM goes, and whatever was
\* asked before (_sync_then_send_student_ask_worker,
\* _build_student_question_context): on display, a question asked after a sync
\* was answered with the transcript of its session, and one asked without
\* context without anything about any session.
THEOREM AnswersFit == Spec => []AnswerFitsQuestion
<1>1. WindowInv => AnswerFitsQuestion
    BY DEF WindowInv, AskInv, Suits, Fit, AnswerFitsQuestion
<1> QED BY <1>1, WindowHolds, PTL

=============================================================================
