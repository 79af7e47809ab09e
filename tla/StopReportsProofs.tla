--------------------------- MODULE StopReportsProofs ---------------------------
(***************************************************************************)
(* What TLAPS proves of StopReports, for any number of reports, uploads,   *)
(* crashes and concurrent calls.                                           *)
(***************************************************************************)
EXTENDS StopReports, FiniteSetTheorems, NaturalsInduction, SequenceTheorems, TLAPS

Row == [content : Nat, at : Nat]

Types ==
    /\ posted \in 0..MaxReports
    /\ pending \subseteq Report /\ answered \subseteq Report
    /\ recovering \in Seq(Report)
    /\ raws \in Seq(Row)
    /\ summaries \in [Report -> Nat] /\ analyses \in [Report -> Nat]
    /\ announced \in [Report -> Nat]
    /\ DOMAIN source = Report /\ DOMAIN input = Report /\ DOMAIN pc = Report

-----------------------------------------------------------------------------
(* The transcripts of the session. *)

\* The first transcript that is not older than the report is its own, or one
\* that was uploaded later in its place.
HasRaw(r) ==
    \E i \in 1..Len(raws) :
        /\ raws[i].at >= r /\ raws[i].content \in {r, Bulk}
        /\ \A j \in 1..(i - 1) : raws[j].at < r

\* No transcript is newer than the newest report.
RawsAreOld == \A i \in 1..Len(raws) : raws[i].at <= posted

\* The start-up still has to go through the report.
Queued(r) == \E i \in 1..Len(recovering) : recovering[i] = r

\* What a restart can be asked to analyse.
Recoverable ==
    \A r \in Report :
        r \in pending \/ Queued(r) => r \in marked /\ HasRaw(r)

\* The requests are served only when no report is left to be recovered.
Serves == serving => recovering = <<>>

-----------------------------------------------------------------------------
(* One report. *)

Analysing == {"start", "wait", "llm"}

\* A report that does not exist yet has nothing.
New(r) ==
    r > posted =>
        /\ r \notin marked /\ r \notin prompted /\ r \notin pending /\ r \notin answered /\ r \notin gone
        /\ pc[r] = "none" /\ analyses[r] = 0 /\ summaries[r] = 0 /\ announced[r] = 0

\* Its analysis is stored once, and announced once it is stored.
Once(r) ==
    /\ analyses[r] <= 1 /\ announced[r] <= 1
    /\ r \in prompted => summaries[r] <= 1
    /\ pc[r] \in Analysing => analyses[r] = 0
    /\ pc[r] = "publish" => announced[r] = 0
    /\ r \notin gone => announced[r] <= analyses[r]
    /\ r \notin gone /\ pc[r] = "publish" => analyses[r] = 1

\* A transcript that may be taken for the report's.
OwnOrBulk(r, content) == content = r \/ (r \in marked /\ content = Bulk)

Own(r) ==
    /\ pc[r] \in Analysing => OwnOrBulk(r, input[r])
    /\ analyses[r] > 0 => OwnOrBulk(r, source[r])

\* What was promised to the client is kept.
Kept(r) ==
    r \in answered /\ r \in marked /\ r \notin gone => analyses[r] = 1 \/ r \in pending

Sound(r) == New(r) /\ Once(r) /\ Own(r) /\ Kept(r)

ReportInv ==
    /\ Types /\ RawsAreOld /\ Recoverable /\ Serves
    /\ \A r \in Report : Sound(r)

-----------------------------------------------------------------------------
(* Lemmas about the transcripts and about the order of recovery. *)

LEMMA ReportIsNat == Report \subseteq Nat /\ Bulk \in Nat /\ MaxReports \in Nat
BY StopAssumption DEF StopAssumption, Report, Bulk

LEMMA RowsAreRows ==
    ASSUME Types
    PROVE  \A j \in 1..Len(raws) : raws[j] \in Row /\ raws[j].at \in Nat
<1>1. \A j \in 1..Len(raws) : raws[j] \in Row
    BY DEF Types
<1> QED BY <1>1 DEF Row

\* get_raw_transcript_for_report finds that transcript.
LEMMA RawIsOwn ==
    ASSUME Types, NEW r \in Report, HasRaw(r)
    PROVE  RawFor(r) \in {r, Bulk}
<1> DEFINE fits == {i \in DOMAIN raws : raws[i].at >= r}
<1>1. PICK i \in 1..Len(raws) :
          /\ raws[i].at >= r /\ raws[i].content \in {r, Bulk}
          /\ \A j \in 1..(i - 1) : raws[j].at < r
    BY DEF HasRaw
<1>2. DOMAIN raws = 1..Len(raws) /\ Len(raws) \in Nat /\ r \in Nat
    BY ReportIsNat DEF Types
<1>3. \A j \in 1..Len(raws) : raws[j].at \in Nat
    BY RowsAreRows
<1>4. i \in fits /\ fits \subseteq 1..Len(raws)
    BY <1>1, <1>2
<1>5. \A j \in fits : i <= j
    BY <1>1, <1>2, <1>3
<1> HIDE DEF fits
<1>6. Min(fits) = i
  <2>1. Min(fits) \in fits /\ \A j \in fits : Min(fits) <= j
      BY <1>4, <1>5 DEF Min
  <2> HIDE DEF Min
  <2>2. Min(fits) <= i /\ i <= Min(fits)
      BY <1>4, <1>5, <2>1
  <2>3. Min(fits) \in 1..Len(raws)
      BY <1>4, <2>1
  <2>4. Min(fits) \in Int /\ i \in Int
      BY <1>2, <2>3
  <2> QED BY <2>2, <2>4
<1>7. RawFor(r) = raws[Min(fits)].content
    BY <1>4 DEF RawFor, fits
<1> QED BY <1>1, <1>6, <1>7

\* A new transcript is put after the others.
LEMMA AppendKeepsRaw ==
    ASSUME Types, NEW row \in Row, raws' = Append(raws, row), NEW r \in Report, HasRaw(r)
    PROVE  HasRaw(r)'
<1>1. PICK i \in 1..Len(raws) :
          /\ raws[i].at >= r /\ raws[i].content \in {r, Bulk}
          /\ \A j \in 1..(i - 1) : raws[j].at < r
    BY DEF HasRaw
<1>2. /\ Len(raws') = Len(raws) + 1 /\ Len(raws) \in Nat
      /\ \A j \in 1..Len(raws) : raws'[j] = raws[j]
    BY DEF Types
<1>3. i \in 1..Len(raws') /\ \A j \in 1..(i - 1) : j \in 1..Len(raws)
    BY <1>2
<1>4. /\ raws'[i].at >= r /\ raws'[i].content \in {r, Bulk}
      /\ \A j \in 1..(i - 1) : raws'[j].at < r
    BY <1>1, <1>2, <1>3
<1> QED BY <1>3, <1>4 DEF HasRaw, Bulk

\* The transcript of the newest report is its own: the others are older.
LEMMA NewHasRaw ==
    ASSUME Types, RawsAreOld, AddRaw, NEW r \in Report, r = posted + 1, posted' = r
    PROVE  HasRaw(r)'
<1> DEFINE row == [content |-> r, at |-> r]
<1>1. posted \in Nat /\ r \in Nat /\ row \in Row /\ raws \in Seq(Row)
    BY ReportIsNat DEF Types, Row
<1>2. /\ raws' = Append(raws, row) /\ Len(raws) \in Nat
      /\ Len(raws') = Len(raws) + 1
      /\ raws'[Len(raws) + 1] = row /\ \A j \in 1..Len(raws) : raws'[j] = raws[j]
    BY <1>1 DEF AddRaw
<1>3. \A j \in 1..Len(raws) : raws[j].at \in Nat /\ raws[j].at <= posted
    BY RowsAreRows DEF RawsAreOld
<1>4. \A j \in 1..((Len(raws) + 1) - 1) : raws'[j].at < r
    BY <1>1, <1>2, <1>3
<1>5. Len(raws) + 1 \in 1..Len(raws')
    BY <1>2
<1>6. raws'[Len(raws) + 1].at >= r /\ raws'[Len(raws) + 1].content \in {r, Bulk}
    BY <1>1, <1>2
<1> QED BY <1>4, <1>5, <1>6 DEF HasRaw, Bulk

LEMMA InOrderIsSeq ==
    ASSUME Types, NEW S \in SUBSET Report, NEW q \in InOrder(S)
    PROVE  q \in Seq(Report) /\ \A i \in 1..Len(q) : q[i] \in S
<1>1. IsFiniteSet(Report)
    BY ReportIsNat, FS_Interval DEF Report
<1>2. IsFiniteSet(S)
    BY <1>1, FS_Subset
<1>3. Cardinality(S) \in Nat
    BY <1>2, FS_CardinalityType
<1>4. q \in [1..Cardinality(S) -> S] /\ q \in [1..Cardinality(S) -> Report]
    BY DEF InOrder
<1>5. q \in Seq(Report) /\ Len(q) = Cardinality(S)
    BY <1>3, <1>4
<1> QED BY <1>4, <1>5
-----------------------------------------------------------------------------
(* Effects shared by several steps. *)

\* Nothing of the report changes.
Same(k) ==
    /\ pc'[k] = pc[k] /\ input'[k] = input[k]
    /\ analyses'[k] = analyses[k] /\ source'[k] = source[k]
    /\ summaries'[k] = summaries[k] /\ announced'[k] = announced[k]
    /\ k \in pending' <=> k \in pending
    /\ k \in answered' <=> k \in answered
    /\ k \in gone' <=> k \in gone
    /\ k \in prompted' <=> k \in prompted
    /\ k \in marked' <=> k \in marked

LEMMA SameSound ==
    ASSUME Types, Types', posted' = posted \/ posted' = posted + 1, NEW k \in Report, Sound(k), Same(k)
    PROVE  Sound(k)'
<1>1. k > posted' => k > posted
    BY ReportIsNat DEF Types
<1>2. New(k)'
    BY <1>1 DEF Sound, New, Same
<1>3. Once(k)'
    BY DEF Sound, Once, Same, Analysing
<1>4. Own(k)' /\ Kept(k)'
    BY DEF Sound, Own, OwnOrBulk, Kept, Same, Analysing, Bulk
<1> QED BY <1>2, <1>3, <1>4 DEF Sound

\* A restart asks for the reports that were left.
LEMMA DieEffect ==
    ASSUME Types, NEW left \in SUBSET Report, Die(left)
    PROVE  /\ \A k \in Report : pc'[k] = "none"
           /\ DOMAIN pc' = Report /\ DOMAIN input' = Report
           /\ recovering' \in Seq(Report)
           /\ \A k \in Report : Queued(k)' => k \in left
           /\ Serves'
<1>1. recovering' \in InOrder(left) /\ serving' = (left = {})
    BY DEF Die
<1>2. recovering' \in Seq(Report) /\ \A i \in 1..Len(recovering') : recovering'[i] \in left
    BY <1>1, InOrderIsSeq
<1>3. left = {} => recovering' = <<>>
  <2> SUFFICES ASSUME left = {} PROVE recovering' = <<>>
      OBVIOUS
  <2>1. Len(recovering') \in Nat /\ ~(1 \in 1..Len(recovering'))
      BY <1>2
  <2>2. Len(recovering') = 0
      BY <2>1
  <2> QED BY <1>2, <2>2
<1> QED BY <1>1, <1>2, <1>3 DEF Die, Queued, Serves

\* A task that ends is taken off the start-up's list; no report comes on it.
LEMMA EndEffect ==
    ASSUME Types, NEW r \in Report, End(r)
    PROVE  /\ DOMAIN pc' = Report /\ DOMAIN input' = Report
           /\ pc'[r] = "none"
           /\ \A k \in Report : k # r => pc'[k] = pc[k] /\ input'[k] = input[k]
           /\ recovering' \in Seq(Report)
           /\ \A k \in Report : Queued(k)' => Queued(k)
           /\ Serves'
<1>1. recovering' \in Seq(Report) /\ \A k \in Report : Queued(k)' => Queued(k)
  <2>1. CASE recovering = <<>>
    <3>1. recovering' = recovering
        BY <2>1 DEF End
    <3> QED BY <3>1 DEF Types, Queued
  <2>2. CASE recovering # <<>>
    <3>1. recovering' = Tail(recovering) /\ recovering \in Seq(Report)
        BY <2>2 DEF End, Types
    <3>2. \A i \in 1..Len(Tail(recovering)) :
              i + 1 \in 1..Len(recovering) /\ Tail(recovering)[i] = recovering[i + 1]
        BY <2>2, <3>1
    <3> QED BY <2>2, <3>1, <3>2 DEF Queued
  <2> QED BY <2>1, <2>2
<1>2. Serves'
    BY DEF End, Serves
<1>3. pc' = [pc EXCEPT ![r] = "none"] /\ input' = [input EXCEPT ![r] = Nothing]
    BY DEF End, Ended, Goto
<1> QED BY <1>1, <1>2, <1>3 DEF Types

LEMMA AddSummaryEffect ==
    ASSUME Types, NEW r \in Report, AddSummary(r)
    PROVE  /\ summaries' \in [Report -> Nat]
           /\ \A k \in Report : k # r => summaries'[k] = summaries[k]
           /\ r \in prompted => summaries'[r] = 1
<1>1. CASE r \in prompted
  <2>1. summaries' = [summaries EXCEPT ![r] = 1]
      BY <1>1 DEF AddSummary
  <2> QED BY <2>1 DEF Types
<1>2. CASE r \notin prompted
  <2>1. summaries' = [summaries EXCEPT ![r] = summaries[r] + 1]
      BY <1>2 DEF AddSummary
  <2> QED BY <1>2, <2>1 DEF Types
<1> QED BY <1>1, <1>2

\* The session's transcripts stay, and no report is added to those that may be
\* recovered.
LEMMA RawsStay ==
    ASSUME ReportInv, UNCHANGED <<posted, raws, marked>>,
           \A k \in Report : (k \in pending \/ Queued(k))' => k \in pending \/ Queued(k)
    PROVE  RawsAreOld' /\ Recoverable'
<1>1. \A k : HasRaw(k) => HasRaw(k)'
    BY DEF HasRaw, Bulk
<1>2. Recoverable'
    BY <1>1 DEF ReportInv, Recoverable
<1> QED BY <1>2 DEF ReportInv, RawsAreOld

-----------------------------------------------------------------------------
(* One lemma per step. *)

\* A task that goes on, or a call of an upload.
LEMMA TaskOn ==
    ASSUME ReportInv, NEW r \in Report, StorePrompt(r) \/ CallLlm(r)
    PROVE  ReportInv'
<1>1. /\ UNCHANGED <<posted, gone, marked, prompted, pending, raws, summaries, analyses, source,
                     answered, announced, input, recovering, serving>>
      /\ pc[r] \in Analysing
      /\ pc' = [pc EXCEPT ![r] = "wait"] \/ pc' = [pc EXCEPT ![r] = "llm"]
    BY DEF StorePrompt, CallLlm, Alive, tables, Goto, Analysing
<1>2. Types'
    BY <1>1 DEF ReportInv, Types
<1>3. RawsAreOld' /\ Recoverable'
    BY <1>1, RawsStay DEF Queued
<1>4. Serves'
    BY <1>1 DEF ReportInv, Serves
<1>5. pc'[r] \in {"wait", "llm"} /\ \A k \in Report : k # r => pc'[k] = pc[k]
    BY <1>1 DEF ReportInv, Types
<1>6. ASSUME NEW k \in Report PROVE Sound(k)'
  <2>1. Sound(k)
      BY DEF ReportInv
  <2>2. CASE k = r
      BY <1>1, <1>5, <2>1, <2>2
      DEF Sound, New, Once, Own, OwnOrBulk, Kept, Analysing, Bulk
  <2>3. CASE k # r
      BY <1>1, <1>5, <2>1, <2>3
      DEF Sound, New, Once, Own, OwnOrBulk, Kept, Analysing, Bulk
  <2> QED BY <2>2, <2>3
<1> QED BY <1>2, <1>3, <1>4, <1>6 DEF ReportInv

LEMMA TaskEnds ==
    ASSUME ReportInv, NEW r \in Report, LlmFails(r) \/ CompleteGone(r) \/ Publish(r)
    PROVE  ReportInv'
<1>1. /\ UNCHANGED <<posted, gone, marked, prompted, pending, raws, analyses, source, answered>>
      /\ End(r)
      /\ \/ UNCHANGED <<summaries, announced>>
         \/ AddSummary(r) /\ announced' = announced
         \/ /\ pc[r] = "publish" /\ announced' = [announced EXCEPT ![r] = @ + 1]
            /\ summaries' = summaries
    BY DEF LlmFails, CompleteGone, Publish, tables
<1>2. Types
    BY DEF ReportInv
<1>3. /\ DOMAIN pc' = Report /\ DOMAIN input' = Report
      /\ pc'[r] = "none"
      /\ \A k \in Report : k # r => pc'[k] = pc[k] /\ input'[k] = input[k]
      /\ recovering' \in Seq(Report)
      /\ \A k \in Report : Queued(k)' => Queued(k)
      /\ Serves'
    BY <1>1, <1>2, EndEffect
<1>4. /\ summaries' \in [Report -> Nat] /\ announced' \in [Report -> Nat]
      /\ \A k \in Report : k # r => summaries'[k] = summaries[k] /\ announced'[k] = announced[k]
      /\ r \in prompted /\ summaries'[r] # summaries[r] => summaries'[r] = 1
      /\ announced'[r] # announced[r] => pc[r] = "publish" /\ announced'[r] = announced[r] + 1
  <2>1. /\ summaries' \in [Report -> Nat]
        /\ \A k \in Report : k # r => summaries'[k] = summaries[k]
        /\ r \in prompted /\ summaries'[r] # summaries[r] => summaries'[r] = 1
    <3>1. CASE summaries' = summaries
        BY <1>2, <3>1 DEF Types
    <3>2. CASE AddSummary(r)
        BY <1>2, <3>2, AddSummaryEffect
    <3> QED BY <1>1, <3>1, <3>2
  <2>2. /\ announced' \in [Report -> Nat]
        /\ \A k \in Report : k # r => announced'[k] = announced[k]
        /\ announced'[r] # announced[r] => pc[r] = "publish" /\ announced'[r] = announced[r] + 1
    <3>1. CASE announced' = announced
        BY <1>2, <3>1 DEF Types
    <3>2. CASE pc[r] = "publish" /\ announced' = [announced EXCEPT ![r] = announced[r] + 1]
        BY <1>2, <3>2 DEF Types
    <3> QED BY <1>1, <3>1, <3>2
  <2> QED BY <2>1, <2>2
<1>5. Types'
    BY <1>1, <1>2, <1>3, <1>4 DEF Types
<1>6. RawsAreOld' /\ Recoverable'
    BY <1>1, <1>3, RawsStay
<1>7. pc[r] # "none"
    BY DEF LlmFails, CompleteGone, Publish
<1>8. ASSUME NEW k \in Report PROVE Sound(k)'
  <2>1. Sound(k) /\ analyses[k] \in Nat /\ announced[k] \in Nat /\ summaries[k] \in Nat
      BY <1>2 DEF ReportInv, Types
  <2>2. CASE k = r
    <3>1. New(k)' /\ Own(k)' /\ Kept(k)'
        BY <1>1, <1>3, <1>7, <2>1, <2>2 DEF Sound, New, Own, OwnOrBulk, Kept, Analysing, Bulk
    <3>2. Once(k)'
        BY <1>1, <1>3, <1>4, <2>1, <2>2 DEF Sound, Once, Analysing
    <3> QED BY <3>1, <3>2 DEF Sound
  <2>3. CASE k # r
    <3>1. Same(k)
        BY <1>1, <1>3, <1>4, <2>3 DEF Same
    <3> QED BY <1>1, <1>2, <1>5, <2>1, <3>1, SameSound
  <2> QED BY <2>2, <2>3
<1> QED BY <1>3, <1>5, <1>6, <1>8 DEF ReportInv

\* The analysis is stored, for the first time.
LEMMA StoreStep ==
    ASSUME ReportInv, NEW r \in Report, Complete(r)
    PROVE  ReportInv'
<1>1. /\ UNCHANGED <<posted, gone, marked, prompted, raws, answered, announced, input,
                     recovering, serving>>
      /\ pc[r] = "llm" /\ pc' = [pc EXCEPT ![r] = "publish"] /\ r \notin gone
      /\ pending' = pending \ {r}
      /\ analyses' = [analyses EXCEPT ![r] = @ + 1]
      /\ source' = [source EXCEPT ![r] = input[r]]
      /\ AddSummary(r)
    BY DEF Complete, AddAnalysis, Alive, Goto
<1>2. Types
    BY DEF ReportInv
<1>3. /\ summaries' \in [Report -> Nat]
      /\ \A k \in Report : k # r => summaries'[k] = summaries[k]
      /\ r \in prompted => summaries'[r] = 1
    BY <1>1, <1>2, AddSummaryEffect
<1>4. Types'
    BY <1>1, <1>2, <1>3 DEF Types
<1>5. RawsAreOld' /\ Recoverable'
    BY <1>1, RawsStay DEF Queued
<1>6. Serves'
    BY <1>1 DEF ReportInv, Serves
<1>7. ASSUME NEW k \in Report PROVE Sound(k)'
  <2>1. Sound(k) /\ analyses[k] \in Nat /\ announced[k] \in Nat
      BY <1>2 DEF ReportInv, Types
  <2>2. CASE k = r
    <3>1. pc'[k] = "publish" /\ analyses'[k] = analyses[k] + 1 /\ source'[k] = input[k]
        BY <1>1, <1>2, <2>2 DEF Types
    <3>2. analyses[k] = 0 /\ announced[k] = 0 /\ OwnOrBulk(k, input[k])
        BY <1>1, <2>1, <2>2 DEF Sound, Once, Own, Analysing
    <3>3. Once(k)'
        BY <1>1, <1>3, <2>2, <3>1, <3>2 DEF Once, Analysing
    <3>4. New(k)' /\ Own(k)' /\ Kept(k)'
        BY <1>1, <2>1, <2>2, <3>1, <3>2 DEF Sound, New, Own, OwnOrBulk, Kept, Analysing, Bulk
    <3> QED BY <3>3, <3>4 DEF Sound
  <2>3. CASE k # r
    <3>1. Same(k)
        BY <1>1, <1>2, <1>3, <2>3 DEF Same, Types
    <3> QED BY <1>1, <1>2, <1>4, <2>1, <3>1, SameSound
  <2> QED BY <2>2, <2>3
<1> QED BY <1>4, <1>5, <1>6, <1>7 DEF ReportInv

\* The process dies while a result is stored, or anywhere else.
LEMMA DeathStep ==
    ASSUME ReportInv, Crash \/ \E r \in Report : CompleteCrash(r)
    PROVE  ReportInv'
<1>1. /\ UNCHANGED <<posted, gone, marked, prompted, pending, raws, answered, announced>>
      /\ Die(pending)
    BY DEF Crash, CompleteCrash, tables
<1>2. Types /\ pending \in SUBSET Report
    BY DEF ReportInv, Types
<1>3. /\ \A k \in Report : pc'[k] = "none"
      /\ DOMAIN pc' = Report /\ DOMAIN input' = Report
      /\ recovering' \in Seq(Report)
      /\ \A k \in Report : Queued(k)' => k \in pending
      /\ Serves'
    BY <1>1, <1>2, DieEffect
<1>4. RawsAreOld' /\ Recoverable'
    BY <1>1, <1>3, RawsStay
<1>5. CASE UNCHANGED <<summaries, analyses, source>>
  <2>1. Types'
      BY <1>1, <1>2, <1>3, <1>5 DEF Types
  <2>2. ASSUME NEW k \in Report PROVE Sound(k)'
    <3>1. Sound(k)
        BY DEF ReportInv
    <3> QED BY <1>1, <1>3, <1>5, <3>1
        DEF Sound, New, Once, Own, OwnOrBulk, Kept, Analysing, Bulk
  <2> QED BY <1>3, <1>4, <2>1, <2>2 DEF ReportInv
<1>6. ASSUME NEW r \in Report, CompleteCrash(r) PROVE ReportInv'
  <2>1. /\ pc[r] = "llm" /\ AddSummary(r)
        /\ \/ UNCHANGED <<analyses, source>>
           \/ /\ r \notin gone
              /\ analyses' = [analyses EXCEPT ![r] = @ + 1]
              /\ source' = [source EXCEPT ![r] = input[r]]
      BY <1>6 DEF CompleteCrash, AddAnalysis
  <2>2. /\ summaries' \in [Report -> Nat]
        /\ \A k \in Report : k # r => summaries'[k] = summaries[k]
        /\ r \in prompted => summaries'[r] = 1
      BY <1>2, <2>1, AddSummaryEffect
  <2>a. analyses' \in [Report -> Nat] /\ DOMAIN source' = Report
    <3>1. CASE UNCHANGED <<analyses, source>>
        BY <1>2, <3>1 DEF Types
    <3>2. CASE /\ analyses' = [analyses EXCEPT ![r] = @ + 1]
               /\ source' = [source EXCEPT ![r] = input[r]]
        BY <1>2, <3>2 DEF Types
    <3> QED BY <2>1, <3>1, <3>2
  <2>3. Types'
      BY <1>1, <1>2, <1>3, <2>2, <2>a DEF Types
  <2>4. ASSUME NEW k \in Report PROVE Sound(k)'
    <3>1. Sound(k) /\ analyses[k] \in Nat /\ announced[k] \in Nat /\ Sound(r)
        BY <1>2 DEF ReportInv, Types
    <3>2. CASE k = r
      <4>1. analyses[k] = 0 /\ OwnOrBulk(k, input[k]) /\ (k \notin gone => announced[k] = 0)
          BY <2>1, <3>1, <3>2 DEF Sound, Once, Own, Analysing
      <4>2. \/ analyses'[k] = analyses[k] /\ source'[k] = source[k]
            \/ analyses'[k] = 1 /\ source'[k] = input[k]
          BY <1>2, <2>1, <3>2, <4>1 DEF Types
      <4>3. Once(k)'
          BY <1>1, <1>3, <2>2, <3>1, <3>2, <4>1, <4>2 DEF Sound, Once, Analysing
      <4>4. New(k)' /\ Own(k)' /\ Kept(k)'
          BY <1>1, <1>3, <2>1, <3>1, <3>2, <4>1, <4>2
          DEF Sound, New, Own, OwnOrBulk, Kept, Analysing, Bulk
      <4> QED BY <4>3, <4>4 DEF Sound
    <3>3. CASE k # r
      <4>1. analyses'[k] = analyses[k] /\ source'[k] = source[k] /\ summaries'[k] = summaries[k]
          BY <1>2, <2>1, <2>2, <3>3 DEF Types
      <4> QED BY <1>1, <1>3, <3>1, <4>1
          DEF Sound, New, Once, Own, OwnOrBulk, Kept, Analysing, Bulk
    <3> QED BY <3>2, <3>3
  <2> QED BY <1>3, <1>4, <2>3, <2>4 DEF ReportInv
<1> QED BY <1>5, <1>6 DEF Crash, tables


\* The session is uploaded: its newest transcript is replaced.
LEMMA UploadStep == ReportInv /\ Upload => ReportInv'
<1> SUFFICES ASSUME ReportInv, Upload PROVE ReportInv'
    OBVIOUS
<1> DEFINE old == IF raws = <<>> THEN raws ELSE Front(raws)
           row == [content |-> Bulk, at |-> posted]
<1>1. /\ UNCHANGED <<posted, gone, marked, prompted, pending, summaries, analyses, source,
                     answered, announced, pc, input, recovering, serving>>
      /\ raws' = Append(old, row)
    BY DEF Upload, Alive
<1>2. Types /\ raws \in Seq(Row) /\ Len(raws) \in Nat /\ posted \in Nat
    BY ReportIsNat DEF ReportInv, Types
<1>3. row \in Row
    BY <1>2, ReportIsNat DEF Row
<1>4. /\ old \in Seq(Row) /\ Len(old) <= Len(raws) /\ Len(raws) <= Len(old) + 1
      /\ \A j \in 1..Len(old) : old[j] = raws[j]
  <2>1. CASE raws = <<>>
      BY <1>2, <2>1
  <2>2. CASE raws # <<>>
      BY <1>2, <2>2 DEF Front
  <2> QED BY <2>1, <2>2
<1> HIDE DEF old, row
<1>5. /\ raws' \in Seq(Row) /\ Len(raws') = Len(old) + 1 /\ Len(old) \in Nat
      /\ raws'[Len(old) + 1] = row
      /\ \A j \in 1..Len(old) : raws'[j] = raws[j]
    BY <1>1, <1>3, <1>4
<1>6. row.at = posted /\ row.content = Bulk
    BY DEF row
<1>7. RawsAreOld'
  <2> SUFFICES ASSUME NEW i \in 1..Len(raws') PROVE raws'[i].at <= posted
      BY <1>1 DEF RawsAreOld
  <2>1. CASE i \in 1..Len(old)
      BY <1>2, <1>4, <1>5, <2>1 DEF ReportInv, RawsAreOld
  <2>2. CASE i = Len(old) + 1
      BY <1>2, <1>5, <1>6, <2>2
  <2> QED BY <1>5, <2>1, <2>2
<1>8. ASSUME NEW r \in Report, HasRaw(r) PROVE HasRaw(r)'
  <2>1. PICK i \in 1..Len(raws) :
            /\ raws[i].at >= r /\ raws[i].content \in {r, Bulk}
            /\ \A j \in 1..(i - 1) : raws[j].at < r
      BY <1>8 DEF HasRaw
  <2>2. i \in 1..Len(raws')
      BY <1>2, <1>4, <1>5
  <2>3. \A j \in 1..(i - 1) : raws'[j].at < r
      BY <1>2, <1>4, <1>5, <2>1
  <2>4. raws'[i].at >= r /\ raws'[i].content \in {r, Bulk}
    <3>1. CASE i \in 1..Len(old)
        BY <1>5, <2>1, <3>1
    <3>2. CASE i \notin 1..Len(old)
      <4>1. i = Len(old) + 1
          BY <1>2, <1>4, <1>5, <3>2
      <4>2. posted >= raws[i].at /\ raws[i].at \in Nat /\ r \in Nat
          BY <1>2, RowsAreRows, ReportIsNat DEF ReportInv, RawsAreOld
      <4> QED BY <1>2, <1>5, <1>6, <2>1, <4>1, <4>2
    <3> QED BY <3>1, <3>2
  <2> QED BY <2>2, <2>3, <2>4 DEF HasRaw, Bulk
<1>9. Recoverable' /\ Serves'
    BY <1>1, <1>8 DEF ReportInv, Recoverable, Queued, Serves
<1>10. Types'
    BY <1>1, <1>2, <1>5 DEF Types
<1>11. ASSUME NEW k \in Report PROVE Sound(k)'
  <2>1. Sound(k) /\ Same(k)
      BY <1>1 DEF ReportInv, Same
  <2> QED BY <1>1, <1>2, <1>10, <2>1, SameSound
<1> QED BY <1>7, <1>9, <1>10, <1>11 DEF ReportInv

\* A deletion comes while the requests are served: no report is left to be recovered.
LEMMA DeleteStep == ReportInv /\ DeleteStudent => ReportInv'
<1> SUFFICES ASSUME ReportInv, DeleteStudent PROVE ReportInv'
    OBVIOUS
<1>1. /\ UNCHANGED <<posted, marked, prompted, source, answered, announced, pc, input,
                     recovering, serving>>
      /\ serving /\ gone' = 1..posted /\ pending' = {} /\ raws' = <<>>
      /\ summaries' = [r \in Report |-> 0] /\ analyses' = [r \in Report |-> 0]
    BY DEF DeleteStudent, Alive
<1>2. Types /\ posted \in Nat /\ recovering = <<>>
    BY <1>1, ReportIsNat DEF ReportInv, Types, Serves
<1>3. raws' \in Seq(Row)
    BY <1>1
<1>4. Types'
    BY <1>1, <1>2, <1>3 DEF Types
<1>5. RawsAreOld' /\ Recoverable' /\ Serves'
    BY <1>1, <1>2 DEF RawsAreOld, Recoverable, Queued, Serves
<1>6. ASSUME NEW k \in Report PROVE Sound(k)'
  <2>1. Sound(k) /\ k \in Nat /\ k >= 1 /\ announced[k] \in Nat
      BY <1>2, ReportIsNat DEF ReportInv, Types, Report
  <2>2. k > posted \/ k \in gone'
      BY <1>1, <1>2, <2>1
  <2>3. k > posted => k \notin gone'
      BY <1>1, <1>2, <2>1
  <2>4. analyses'[k] = 0 /\ summaries'[k] = 0
      BY <1>1
  <2>5. New(k)' /\ Own(k)' /\ Kept(k)'
      BY <1>1, <2>1, <2>2, <2>3, <2>4
      DEF Sound, New, Own, OwnOrBulk, Kept, Analysing, Bulk
  <2>6. Once(k)'
      BY <1>1, <2>1, <2>2, <2>4 DEF Sound, New, Once, Analysing
  <2> QED BY <2>5, <2>6 DEF Sound
<1> QED BY <1>4, <1>5, <1>6 DEF ReportInv

\* The start-up takes the next report.
LEMMA RecoverStep == ReportInv /\ Recover => ReportInv'
<1> SUFFICES ASSUME ReportInv, Recover PROVE ReportInv'
    OBVIOUS
<1> DEFINE r == Head(recovering)
<1>1. /\ recovering # <<>> /\ pc[r] = "none"
      /\ UNCHANGED <<posted, gone, marked, prompted, raws, summaries, analyses, source,
                     answered, announced>>
      /\ \/ /\ analyses[r] > 0 /\ pending' = pending \ {r}
            /\ recovering' = Tail(recovering) /\ serving' = (recovering' = <<>>)
            /\ UNCHANGED <<pc, input>>
         \/ /\ ~(analyses[r] > 0) /\ pc' = [pc EXCEPT ![r] = "start"]
            /\ input' = [input EXCEPT ![r] = IF r \in marked THEN RawFor(r) ELSE Nothing]
            /\ UNCHANGED <<pending, recovering, serving>>
    BY DEF Recover, Analysed, Goto
<1>2. Types /\ recovering \in Seq(Report)
    BY DEF ReportInv, Types
<1>3. r \in Report /\ r = recovering[1] /\ 1 \in 1..Len(recovering)
    BY <1>1, <1>2
<1>4. r \in marked /\ HasRaw(r)
    BY <1>3 DEF ReportInv, Recoverable, Queued
<1>5. RawFor(r) \in {r, Bulk}
    BY <1>2, <1>3, <1>4, RawIsOwn
<1> HIDE DEF r
<1>6. CASE analyses[r] > 0
  <2>1. /\ pending' = pending \ {r} /\ recovering' = Tail(recovering)
        /\ serving' = (recovering' = <<>>) /\ UNCHANGED <<pc, input>>
      BY <1>1, <1>6
  <2>2. \A i \in 1..Len(Tail(recovering)) :
            i + 1 \in 1..Len(recovering) /\ Tail(recovering)[i] = recovering[i + 1]
      BY <1>1, <1>2
  <2>3. Tail(recovering) \in Seq(Report)
      BY <1>1, <1>2
  <2>4. Types'
      BY <1>1, <1>2, <2>1, <2>3 DEF Types
  <2>5. \A k \in Report : Queued(k)' => Queued(k)
      BY <2>1, <2>2 DEF Queued
  <2>6. RawsAreOld' /\ Recoverable'
      BY <1>1, <2>1, <2>5, RawsStay
  <2>7. ASSUME NEW k \in Report PROVE Sound(k)'
    <3>1. Sound(k) /\ analyses[k] \in Nat
        BY <1>2 DEF ReportInv, Types
    <3>2. New(k)' /\ Once(k)' /\ Own(k)'
        BY <1>1, <2>1, <3>1 DEF Sound, New, Once, Own, OwnOrBulk, Analysing, Bulk
    <3>3. Kept(k)'
        BY <1>1, <1>6, <2>1, <3>1 DEF Sound, Once, Kept
    <3> QED BY <3>2, <3>3 DEF Sound
  <2> QED BY <2>1, <2>4, <2>6, <2>7 DEF ReportInv, Serves
<1>7. CASE ~(analyses[r] > 0)
  <2>1. /\ pc' = [pc EXCEPT ![r] = "start"]
        /\ input' = [input EXCEPT ![r] = RawFor(r)]
        /\ UNCHANGED <<pending, recovering, serving>>
      BY <1>1, <1>4, <1>7
  <2>2. Types'
      BY <1>1, <1>2, <2>1 DEF Types
  <2>3. RawsAreOld' /\ Recoverable' /\ Serves'
      BY <1>1, <2>1, RawsStay DEF Queued, ReportInv, Serves
  <2>4. ASSUME NEW k \in Report PROVE Sound(k)'
    <3>1. Sound(k) /\ analyses[k] \in Nat
        BY <1>2 DEF ReportInv, Types
    <3>2. CASE k = r
      <4>1. pc'[k] = "start" /\ input'[k] \in {k, Bulk} /\ analyses[k] = 0
          BY <1>2, <1>3, <1>5, <1>7, <2>1, <3>1, <3>2 DEF Types
      <4>2. ~(k > posted)
          BY <1>4, <3>1, <3>2 DEF Sound, New
      <4> QED BY <1>1, <1>4, <2>1, <3>1, <3>2, <4>1, <4>2
          DEF Sound, New, Once, Own, OwnOrBulk, Kept, Analysing, Bulk
    <3>3. CASE k # r
      <4>1. Same(k)
          BY <1>1, <1>2, <2>1, <3>3 DEF Same, Types
      <4> QED BY <1>1, <1>2, <2>2, <3>1, <4>1, SameSound
    <3> QED BY <3>2, <3>3
  <2> QED BY <2>2, <2>3, <2>4 DEF ReportInv
<1> QED BY <1>6, <1>7


\* A report arrives.  The three transactions add the row, the transcript and
\* the flag; a crash may keep the last ones from being made.
Arrived(r) ==
    /\ r = posted + 1 /\ posted' = r
    /\ marked' \in {marked, marked \cup {r}}
    /\ prompted' \in {prompted, prompted \cup {r}}
    /\ raws' = raws \/ AddRaw
    /\ pending' = pending \/ (pending' = pending \cup {r} /\ AddRaw /\ r \in marked')

LEMMA ArriveEffect ==
    ASSUME ReportInv, NEW r \in Report, Arrived(r)
    PROVE  /\ posted' \in 0..MaxReports /\ pending' \subseteq Report /\ raws' \in Seq(Row)
           /\ RawsAreOld'
           /\ \A k \in Report : k \in pending' \/ Queued(k) => k \in marked' /\ HasRaw(k)'
           /\ \A k \in Report : k # r =>
                 /\ k \in pending' <=> k \in pending
                 /\ k \in prompted' <=> k \in prompted
                 /\ k \in marked' <=> k \in marked
<1>1. Types /\ posted \in Nat /\ r \in Nat /\ posted' = r /\ r = posted + 1 /\ r <= MaxReports
    BY ReportIsNat DEF ReportInv, Types, Arrived, Report
<1> DEFINE row == [content |-> r, at |-> r]
<1>2. raws' = raws \/ raws' = Append(raws, row)
    BY DEF Arrived, AddRaw
<1>3. row \in Row /\ row.at = r
    BY <1>1 DEF Row
<1> HIDE DEF row
<1>4. raws' \in Seq(Row)
  <2>1. raws \in Seq(Row)
      BY <1>1 DEF Types
  <2>2. Append(raws, row) \in Seq(Row)
      BY <1>3, <2>1
  <2> QED BY <1>2, <2>1, <2>2
<1>5. RawsAreOld'
  <2> SUFFICES ASSUME NEW i \in 1..Len(raws') PROVE raws'[i].at <= r
      BY <1>1 DEF RawsAreOld
  <2>1. raws \in Seq(Row) /\ Len(raws) \in Nat
      BY <1>1 DEF Types
  <2>2. CASE i \in 1..Len(raws)
    <3>1. raws'[i] = raws[i]
        BY <1>2, <1>3, <2>1, <2>2
    <3>2. raws[i].at \in Nat /\ raws[i].at <= posted
        BY <1>1, <2>2, RowsAreRows DEF ReportInv, RawsAreOld
    <3> QED BY <1>1, <3>1, <3>2
  <2>3. CASE i \notin 1..Len(raws)
    <3>1. raws'[i] = row
        BY <1>2, <1>3, <2>1, <2>3
    <3> QED BY <1>1, <1>3, <3>1
  <2> QED BY <2>2, <2>3
<1>6. ASSUME NEW k \in Report, HasRaw(k) PROVE HasRaw(k)'
  <2>1. CASE raws' = raws
      BY <1>6, <2>1 DEF HasRaw, Bulk
  <2>2. CASE raws' = Append(raws, row)
      BY <1>1, <1>3, <1>6, <2>2, AppendKeepsRaw
  <2> QED BY <1>2, <2>1, <2>2
<1>7. \A k \in Report : k \in pending \/ Queued(k) => k \in marked /\ HasRaw(k)
    BY DEF ReportInv, Recoverable
<1>8. AddRaw => HasRaw(r)'
    BY <1>1, NewHasRaw DEF ReportInv
<1>9. pending \subseteq Report
    BY <1>1 DEF Types
<1>10. posted' \in 0..MaxReports
    BY <1>1, ReportIsNat
<1>11. pending' = pending \/ (pending' = pending \cup {r} /\ AddRaw /\ r \in marked')
    BY DEF Arrived
<1>12. \A k \in Report : k \in pending' \/ Queued(k) => k \in marked' /\ HasRaw(k)'
  <2> SUFFICES ASSUME NEW k \in Report, k \in pending' \/ Queued(k)
               PROVE  k \in marked' /\ HasRaw(k)'
      OBVIOUS
  <2>1. CASE k \in pending \/ Queued(k)
      BY <1>6, <1>7, <2>1 DEF Arrived
  <2>2. CASE ~(k \in pending \/ Queued(k))
    <3>1. k = r /\ AddRaw /\ r \in marked'
        BY <1>11, <2>2
    <3> QED BY <1>8, <3>1
  <2> QED BY <2>1, <2>2
<1>13. \A k \in Report : k # r =>
          /\ k \in pending' <=> k \in pending
          /\ k \in prompted' <=> k \in prompted
          /\ k \in marked' <=> k \in marked
    BY DEF Arrived
<1>14. pending' \subseteq Report
    BY <1>9, <1>11
<1> QED BY <1>4, <1>5, <1>10, <1>12, <1>13, <1>14

LEMMA AcceptStep == ReportInv /\ Accept => ReportInv'
<1> SUFFICES ASSUME ReportInv, Accept PROVE ReportInv'
    OBVIOUS
<1> DEFINE r == posted + 1
<1>1. Types /\ posted \in Nat
    BY ReportIsNat DEF ReportInv, Types
<1>2. PICK full, text \in BOOLEAN :
          /\ AddReport(full, text)
          /\ \/ full /\ AddRaw /\ pending' = pending \cup {posted'}
             \/ ~full /\ UNCHANGED <<raws, pending>>
    BY DEF Accept
<1>3. /\ r \in Report /\ posted' = r
      /\ marked' = IF full THEN marked \cup {r} ELSE marked
      /\ prompted' = IF text THEN prompted \cup {r} ELSE prompted
  <2>1. posted' = r /\ posted < MaxReports
      BY <1>2 DEF AddReport
  <2>2. r \in Report
      BY <1>1, <2>1, ReportIsNat DEF Report
  <2> QED BY <1>2, <2>1, <2>2 DEF AddReport
<1>4. /\ answered' = answered \cup {r} /\ pc' = [pc EXCEPT ![r] = "start"]
      /\ input' = [input EXCEPT ![r] = r]
      /\ UNCHANGED <<gone, summaries, analyses, source, announced, recovering, serving>>
    BY <1>3 DEF Accept, Alive, Goto
<1>5. Arrived(r)
    BY <1>2, <1>3 DEF Arrived
<1> HIDE DEF r
<1>6. /\ posted' \in 0..MaxReports /\ pending' \subseteq Report /\ raws' \in Seq(Row)
      /\ RawsAreOld'
      /\ \A k \in Report : k \in pending' \/ Queued(k) => k \in marked' /\ HasRaw(k)'
      /\ \A k \in Report : k # r =>
            /\ k \in pending' <=> k \in pending
            /\ k \in prompted' <=> k \in prompted
            /\ k \in marked' <=> k \in marked
    BY <1>3, <1>5, ArriveEffect
<1>7. Types'
    BY <1>1, <1>3, <1>4, <1>6 DEF Types
<1>8. Recoverable' /\ Serves'
    BY <1>4, <1>6 DEF Recoverable, Queued, ReportInv, Serves
<1>9. ASSUME NEW k \in Report PROVE Sound(k)'
  <2>1. Sound(k)
      BY DEF ReportInv
  <2>2. CASE k = r
    <3>1. /\ k > posted /\ k \in Nat /\ pc'[k] = "start" /\ input'[k] = k
          /\ ~(k > posted')
        BY <1>1, <1>3, <1>4, <1>5, <2>2 DEF Types, Arrived
    <3>2. New(k)' /\ Once(k)' /\ Own(k)'
        BY <1>4, <2>1, <3>1 DEF Sound, New, Once, Own, OwnOrBulk, Analysing
    <3>3. k \in marked' => k \in pending'
        BY <1>2, <1>3, <2>1, <2>2, <3>1 DEF Sound, New
    <3> QED BY <3>2, <3>3 DEF Sound, Kept
  <2>3. CASE k # r
    <3>1. Same(k)
        BY <1>1, <1>4, <1>6, <2>3 DEF Same, Types
    <3> QED BY <1>1, <1>5, <1>7, <2>1, <3>1, SameSound DEF Arrived
  <2> QED BY <2>2, <2>3
<1> QED BY <1>6, <1>7, <1>8, <1>9 DEF ReportInv

LEMMA AcceptCrashStep == ReportInv /\ AcceptCrash => ReportInv'
<1> SUFFICES ASSUME ReportInv, AcceptCrash PROVE ReportInv'
    OBVIOUS
<1> DEFINE r == posted + 1
<1>1. Types /\ posted \in Nat
    BY ReportIsNat DEF ReportInv, Types
<1>2. PICK full, text \in BOOLEAN :
          /\ AddReport(full, text)
          /\ \/ UNCHANGED <<raws, pending>>
             \/ full /\ AddRaw /\ UNCHANGED pending
             \/ full /\ AddRaw /\ pending' = pending \cup {posted'}
    BY DEF AcceptCrash
<1>3. /\ r \in Report /\ posted' = r
      /\ marked' = IF full THEN marked \cup {r} ELSE marked
      /\ prompted' = IF text THEN prompted \cup {r} ELSE prompted
  <2>1. posted' = r /\ posted < MaxReports
      BY <1>2 DEF AddReport
  <2>2. r \in Report
      BY <1>1, <2>1, ReportIsNat DEF Report
  <2> QED BY <1>2, <2>1, <2>2 DEF AddReport
<1>4. Die(pending') /\ UNCHANGED <<gone, summaries, analyses, source, answered, announced>>
    BY DEF AcceptCrash
<1>5. Arrived(r)
    BY <1>2, <1>3 DEF Arrived
<1> HIDE DEF r
<1>6. /\ posted' \in 0..MaxReports /\ pending' \subseteq Report /\ raws' \in Seq(Row)
      /\ RawsAreOld'
      /\ \A k \in Report : k \in pending' \/ Queued(k) => k \in marked' /\ HasRaw(k)'
      /\ \A k \in Report : k # r =>
            /\ k \in pending' <=> k \in pending
            /\ k \in prompted' <=> k \in prompted
            /\ k \in marked' <=> k \in marked
    BY <1>3, <1>5, ArriveEffect
<1>7. /\ \A k \in Report : pc'[k] = "none"
      /\ DOMAIN pc' = Report /\ DOMAIN input' = Report
      /\ recovering' \in Seq(Report)
      /\ \A k \in Report : Queued(k)' => k \in pending'
      /\ Serves'
    BY <1>1, <1>4, <1>6, DieEffect
<1>8. Types'
    BY <1>1, <1>4, <1>6, <1>7 DEF Types
<1>9. Recoverable'
    BY <1>6, <1>7 DEF Recoverable
<1>10. ASSUME NEW k \in Report PROVE Sound(k)'
  <2>1. Sound(k) /\ k \in Nat
      BY ReportIsNat DEF ReportInv
  <2>2. k > posted' => k > posted /\ k # r
      BY <1>1, <1>3, <2>1 DEF r
  <2>3. k = r => k > posted /\ ~(k > posted')
      BY <1>1, <1>3, <2>1 DEF r
  <2>4. New(k)'
      BY <1>4, <1>6, <1>7, <2>1, <2>2, <2>3 DEF Sound, New
  <2>5. Once(k)'
      BY <1>4, <1>6, <1>7, <2>1, <2>3 DEF Sound, New, Once, Analysing
  <2>6. Own(k)' /\ Kept(k)'
      BY <1>4, <1>6, <1>7, <2>1, <2>3 DEF Sound, New, Own, OwnOrBulk, Kept, Analysing, Bulk
  <2> QED BY <2>4, <2>5, <2>6 DEF Sound
<1> QED BY <1>6, <1>7, <1>8, <1>9, <1>10 DEF ReportInv

-----------------------------------------------------------------------------

LEMMA ReportStep == ReportInv /\ [Next]_vars => ReportInv'
<1> SUFFICES ASSUME ReportInv, [Next]_vars PROVE ReportInv'
    OBVIOUS
<1>1. CASE UNCHANGED vars \/ BulkCall \/ BulkEnd
  <2>1. UNCHANGED <<tables, answered, announced, pc, input, recovering, serving>>
      BY <1>1 DEF vars, BulkCall, BulkEnd, Alive
  <2>2. Types'
      BY <2>1 DEF ReportInv, Types, tables
  <2>3. RawsAreOld' /\ Recoverable' /\ Serves'
      BY <2>1, RawsStay DEF tables, Queued, ReportInv, Serves
  <2>4. ASSUME NEW k \in Report PROVE Sound(k)'
    <3>1. Sound(k) /\ Same(k) /\ Types /\ posted' = posted
        BY <2>1 DEF ReportInv, Same, tables
    <3> QED BY <2>2, <3>1, SameSound
  <2> QED BY <2>2, <2>3, <2>4 DEF ReportInv
<1> QED
    BY <1>1, TaskOn, TaskEnds, StoreStep, DeathStep, UploadStep, DeleteStep, RecoverStep,
       AcceptStep, AcceptCrashStep DEF Next, Task

LEMMA ReportInit == Init => ReportInv
<1> SUFFICES ASSUME Init PROVE ReportInv
    OBVIOUS
<1>1. raws \in Seq(Row) /\ recovering \in Seq(Report)
  <2>1. raws = <<>> /\ recovering = <<>>
      BY DEF Init
  <2> QED BY <2>1
<1>2. posted \in 0..MaxReports
    BY ReportIsNat DEF Init
<1>3. Types
    BY <1>1, <1>2 DEF Init, Types
<1>4. RawsAreOld /\ Recoverable /\ Serves
    BY DEF Init, RawsAreOld, Recoverable, Queued, Serves
<1>5. \A k \in Report : Sound(k)
    BY DEF Init, Sound, New, Once, Own, Kept, Analysing
<1> QED BY <1>3, <1>4, <1>5 DEF ReportInv

LEMMA ReportsHold == Spec => []ReportInv
BY ReportInit, ReportStep, PTL DEF Spec

-----------------------------------------------------------------------------
(* The rest of the types: what a task may hold, and how often it is tried. *)

Transcript == [content : Report \cup {Bulk}, at : Nat]

Shapes ==
    /\ {gone, marked, prompted, prompts} \subseteq SUBSET Report
    /\ pc \in [Report -> PC] /\ input \in [Report -> Content] /\ source \in [Report -> Content]
    /\ raws \in Seq(Transcript) /\ serving \in BOOLEAN
    /\ crashes \in 0..MaxCrashes /\ uploads \in 0..MaxUploads /\ bulkCalls \in 0..uploads

\* A deleted report is not analysed again.
GoneIsGone == \A r \in gone : r \notin pending /\ ~Queued(r)

\* The report is analysed, or may be once more.
Unfinished(r) == analyses[r] = 0 /\ (pc[r] \in Analysing \/ r \in pending \/ Queued(r))

\* Every try but the last was cut off by a crash.
Attempts(r) ==
    /\ summaries[r] <= crashes + 1
    /\ Unfinished(r) => summaries[r] <= crashes

TryInv == Shapes /\ GoneIsGone /\ \A r \in Report : Attempts(r)

LEMMA NextReport ==
    ASSUME Types, Accept \/ AcceptCrash
    PROVE  /\ posted' = posted + 1 /\ posted' \in Report /\ posted \in Nat
           /\ marked' \subseteq marked \cup {posted'} /\ prompted' \subseteq prompted \cup {posted'}
           /\ pending' \subseteq pending \cup {posted'}
           /\ raws' = raws \/ raws' = Append(raws, [content |-> posted', at |-> posted'])
<1>1. PICK full, text \in BOOLEAN :
          /\ AddReport(full, text)
          /\ \/ UNCHANGED <<raws, pending>>
             \/ AddRaw /\ UNCHANGED pending
             \/ AddRaw /\ pending' = pending \cup {posted'}
    BY DEF Accept, AcceptCrash
<1>2. posted \in Nat /\ posted < MaxReports /\ posted' = posted + 1 /\ MaxReports \in Nat
    BY <1>1, ReportIsNat DEF AddReport, Types
<1>3. posted' \in Report
    BY <1>2 DEF Report
<1> QED BY <1>1, <1>2, <1>3 DEF AddReport, AddRaw

LEMMA ShapesStep == ReportInv /\ Shapes /\ [Next]_vars => Shapes'
<1> SUFFICES ASSUME ReportInv, Shapes, [Next]_vars PROVE Shapes'
    OBVIOUS
<1>1. Types /\ Report \subseteq Nat /\ Report \subseteq Content /\ Nothing \in Content /\ Bulk \in Content
    BY ReportIsNat DEF ReportInv, Content
<1>2. /\ pc \in [Report -> PC] /\ input \in [Report -> Content] /\ source \in [Report -> Content]
      /\ raws \in Seq(Transcript)
      /\ gone \subseteq Report /\ marked \subseteq Report /\ prompted \subseteq Report
      /\ prompts \subseteq Report
    BY DEF Shapes
<1>3. /\ crashes \in 0..MaxCrashes /\ uploads \in 0..MaxUploads /\ bulkCalls \in 0..uploads
      /\ crashes \in Nat /\ uploads \in Nat /\ bulkCalls \in Nat /\ bulkCalls <= uploads
      /\ MaxCrashes \in Nat /\ MaxUploads \in Nat
    BY StopAssumption DEF Shapes, StopAssumption
<1>4. PC = {"none", "start", "wait", "llm", "publish"}
    BY DEF PC
<1>0. serving' \in BOOLEAN
  <2>1. serving \in BOOLEAN
      BY DEF Shapes
  <2>2. CASE UNCHANGED serving
      BY <2>1, <2>2
  <2>3. CASE UNCHANGED vars \/ BulkCall \/ BulkEnd \/ Upload \/ DeleteStudent \/ Accept
      BY <2>2, <2>3 DEF vars, BulkCall, BulkEnd, Upload, DeleteStudent, Accept, Alive
  <2>4. CASE AcceptCrash \/ Crash \/ \E r \in Report : CompleteCrash(r)
      BY <2>4 DEF AcceptCrash, Crash, CompleteCrash, Die
  <2>5. CASE Recover
      BY <2>2, <2>5 DEF Recover
  <2>6. CASE \E r \in Report : StorePrompt(r) \/ CallLlm(r) \/ Complete(r)
      BY <2>2, <2>6 DEF StorePrompt, CallLlm, Complete, Alive
  <2>7. CASE \E r \in Report : LlmFails(r) \/ CompleteGone(r) \/ Publish(r)
      BY <2>7 DEF LlmFails, CompleteGone, Publish, End
  <2> QED BY <2>3, <2>4, <2>5, <2>6, <2>7 DEF Next, Task
<1>5. ASSUME UNCHANGED <<gone, marked, prompted, raws>>, prompts' \subseteq Report,
             pc' \in [Report -> PC], input' \in [Report -> Content],
             source' \in [Report -> Content], crashes' \in 0..MaxCrashes,
             uploads' \in 0..MaxUploads, bulkCalls' \in 0..uploads'
      PROVE  Shapes'
    BY <1>0, <1>2, <1>5 DEF Shapes, Transcript, Bulk
<1>6. ASSUME NEW left, Die(left)
      PROVE  /\ pc' \in [Report -> PC] /\ input' \in [Report -> Content]
             /\ crashes' \in 0..MaxCrashes
             /\ uploads' = uploads => bulkCalls' \in 0..uploads'
  <2>1. /\ crashes < MaxCrashes /\ crashes' = crashes + 1 /\ bulkCalls' = 0
        /\ pc' = [r \in Report |-> "none"] /\ input' = [r \in Report |-> Nothing]
      BY <1>6 DEF Die
  <2>2. pc' \in [Report -> PC] /\ input' \in [Report -> Content]
      BY <1>1, <1>4, <2>1
  <2>3. crashes' \in 0..MaxCrashes /\ (uploads' = uploads => bulkCalls' \in 0..uploads')
      BY <1>3, <2>1
  <2> QED BY <2>2, <2>3
<1>7. ASSUME NEW r \in Report, End(r)
      PROVE  /\ pc' \in [Report -> PC] /\ input' \in [Report -> Content] /\ crashes' = crashes
    BY <1>1, <1>2, <1>4, <1>7 DEF End, Ended, Goto
<1>8. CASE UNCHANGED vars
    BY <1>2, <1>3, <1>5, <1>8 DEF vars, tables
<1>9. CASE BulkCall \/ BulkEnd
  <2>1. /\ UNCHANGED <<tables, pc, input, uploads, crashes>>
        /\ \/ bulkCalls < uploads /\ bulkCalls' = bulkCalls + 1
           \/ bulkCalls > 0 /\ bulkCalls' = bulkCalls - 1
      BY <1>9 DEF BulkCall, BulkEnd, Alive
  <2>2. bulkCalls' \in 0..uploads
      BY <1>3, <2>1
  <2> QED BY <1>2, <1>3, <1>5, <2>1, <2>2 DEF tables
<1>10. ASSUME NEW r \in Report, StorePrompt(r) \/ CallLlm(r) PROVE Shapes'
  <2>1. /\ UNCHANGED <<gone, marked, prompted, raws, source, input, bulkCalls, uploads, crashes>>
        /\ pc' = [pc EXCEPT ![r] = "wait"] \/ pc' = [pc EXCEPT ![r] = "llm"]
        /\ prompts' \subseteq prompts \cup {r}
      BY <1>10 DEF StorePrompt, CallLlm, Alive, tables, Goto
  <2>2. pc' \in [Report -> PC] /\ prompts' \subseteq Report
      BY <1>2, <1>4, <2>1
  <2> QED BY <1>2, <1>3, <1>5, <2>1, <2>2
<1>11. ASSUME NEW r \in Report, LlmFails(r) \/ CompleteGone(r) \/ Publish(r) PROVE Shapes'
  <2>1. /\ UNCHANGED <<gone, marked, prompted, raws, prompts, source, bulkCalls, uploads>>
        /\ End(r)
      BY <1>11 DEF LlmFails, CompleteGone, Publish, tables
  <2> QED BY <1>2, <1>3, <1>5, <1>7, <2>1
<1>12. ASSUME NEW r \in Report, Complete(r) PROVE Shapes'
  <2>1. /\ UNCHANGED <<gone, marked, prompted, raws, prompts, input, bulkCalls, uploads, crashes>>
        /\ source' = [source EXCEPT ![r] = input[r]] /\ pc' = [pc EXCEPT ![r] = "publish"]
      BY <1>12 DEF Complete, AddAnalysis, Alive, Goto
  <2>2. pc' \in [Report -> PC] /\ source' \in [Report -> Content]
      BY <1>2, <1>4, <2>1
  <2> QED BY <1>2, <1>3, <1>5, <2>1, <2>2
<1>13. ASSUME NEW r \in Report, CompleteCrash(r) PROVE Shapes'
  <2>1. /\ UNCHANGED <<gone, marked, prompted, raws, prompts, uploads>> /\ Die(pending)
        /\ source' = source \/ source' = [source EXCEPT ![r] = input[r]]
      BY <1>13 DEF CompleteCrash, AddAnalysis
  <2>2. source' \in [Report -> Content]
      BY <1>2, <2>1
  <2> QED BY <1>2, <1>3, <1>5, <1>6, <2>1, <2>2
<1>14. CASE Crash
  <2>1. UNCHANGED <<gone, marked, prompted, raws, prompts, source, uploads>> /\ Die(pending)
      BY <1>14 DEF Crash, tables
  <2> QED BY <1>2, <1>3, <1>5, <1>6, <2>1
<1>15. CASE Accept \/ AcceptCrash
  <2>1. /\ posted' \in Report /\ posted' \in Nat
        /\ marked' \subseteq marked \cup {posted'} /\ prompted' \subseteq prompted \cup {posted'}
        /\ raws' = raws \/ raws' = Append(raws, [content |-> posted', at |-> posted'])
      BY <1>1, <1>15, NextReport
  <2>2. [content |-> posted', at |-> posted'] \in Transcript
      BY <2>1 DEF Transcript
  <2>3. raws' \in Seq(Transcript)
      BY <1>2, <2>1, <2>2
  <2>4. /\ pc' \in [Report -> PC] /\ input' \in [Report -> Content] /\ crashes' \in 0..MaxCrashes
        /\ UNCHANGED <<gone, prompts, source, uploads>> /\ bulkCalls' \in 0..uploads'
    <3>1. CASE Accept
      <4>1. /\ pc' = [pc EXCEPT ![posted'] = "start"]
            /\ input' = [input EXCEPT ![posted'] = posted']
            /\ UNCHANGED <<gone, prompts, source, bulkCalls, uploads, crashes>>
          BY <3>1 DEF Accept, Alive, Goto
      <4>2. pc' \in [Report -> PC]
          BY <1>2, <1>4, <4>1
      <4>3. input' \in [Report -> Content]
          BY <1>1, <1>2, <2>1, <4>1
      <4> QED BY <1>3, <4>1, <4>2, <4>3
    <3>2. CASE AcceptCrash
        BY <1>6, <3>2 DEF AcceptCrash
    <3> QED BY <1>15, <3>1, <3>2
  <2>5. marked' \subseteq Report /\ prompted' \subseteq Report
      BY <1>2, <2>1
  <2> QED BY <1>0, <1>2, <1>3, <2>3, <2>4, <2>5 DEF Shapes, Transcript, Bulk
<1>16. CASE Upload
  <2> DEFINE old == IF raws = <<>> THEN raws ELSE Front(raws)
             row == [content |-> Bulk, at |-> posted]
  <2>1. /\ UNCHANGED <<gone, marked, prompted, prompts, source, pc, input, bulkCalls, crashes>>
        /\ uploads < MaxUploads /\ uploads' = uploads + 1
        /\ raws' = Append(old, row)
      BY <1>16 DEF Upload, Alive
  <2>2. row \in Transcript
      BY <1>1, ReportIsNat DEF Transcript, Types
  <2>3. old \in Seq(Transcript)
    <3>1. CASE raws = <<>>
        BY <1>2, <3>1
    <3>2. CASE raws # <<>>
        BY <1>2, <3>2 DEF Front
    <3> QED BY <3>1, <3>2
  <2> HIDE DEF old, row
  <2>4. raws' \in Seq(Transcript)
      BY <2>1, <2>2, <2>3
  <2>5. uploads' \in 0..MaxUploads /\ bulkCalls' \in 0..uploads'
      BY <1>3, <2>1
  <2> QED BY <1>0, <1>2, <1>3, <2>1, <2>4, <2>5 DEF Shapes, Transcript, Bulk
<1>17. CASE DeleteStudent
  <2>1. /\ gone' = 1..posted /\ raws' = <<>> /\ prompts' = {}
        /\ UNCHANGED <<marked, prompted, source, pc, input, bulkCalls, uploads, crashes>>
      BY <1>17 DEF DeleteStudent, Alive
  <2>2. gone' \subseteq Report
      BY <1>1, <2>1, ReportIsNat DEF Types, Report
  <2>3. raws' \in Seq(Transcript)
      BY <2>1
  <2> QED BY <1>0, <1>2, <1>3, <2>1, <2>2, <2>3 DEF Shapes, Transcript, Bulk
<1>18. CASE Recover
  <2> DEFINE r == Head(recovering)
  <2>1. /\ UNCHANGED <<gone, marked, prompted, raws, prompts, source, bulkCalls, uploads, crashes>>
        /\ recovering # <<>>
        /\ \/ UNCHANGED <<pc, input>>
           \/ /\ pc' = [pc EXCEPT ![r] = "start"]
              /\ input' = [input EXCEPT ![r] = IF r \in marked THEN RawFor(r) ELSE Nothing]
      BY <1>18 DEF Recover, Goto
  <2>2. r \in Report /\ r = recovering[1] /\ 1 \in 1..Len(recovering)
      BY <1>1, <2>1 DEF Types
  <2>3. HasRaw(r)
      BY <2>2 DEF ReportInv, Recoverable, Queued
  <2>4. RawFor(r) \in Content
      BY <1>1, <2>2, <2>3, RawIsOwn
  <2> HIDE DEF r
  <2>5. pc' \in [Report -> PC]
      BY <1>2, <1>4, <2>1
  <2>6. input' \in [Report -> Content]
      BY <1>1, <1>2, <2>1, <2>4
  <2> QED BY <1>2, <1>3, <1>5, <2>1, <2>5, <2>6
<1> QED BY <1>8, <1>9, <1>10, <1>11, <1>12, <1>13, <1>14, <1>15, <1>16, <1>17, <1>18 DEF Next, Task

\* What a step may ask to be analysed: what was asked before, and a new report.
LEMMA AskedAgain ==
    ASSUME ReportInv, [Next]_vars, NEW k \in Report, k \in pending' \/ Queued(k)'
    PROVE  \/ k \in pending \/ Queued(k)
           \/ k = posted + 1 /\ posted' = k /\ k \in pending' /\ (Accept \/ AcceptCrash)
<1>1. Types /\ pending \in SUBSET Report
    BY DEF ReportInv, Types
<1>2. CASE UNCHANGED <<pending, recovering>>
    BY <1>2 DEF Queued
<1>3. CASE UNCHANGED vars \/ BulkCall \/ BulkEnd \/ Upload
    BY <1>2, <1>3 DEF vars, tables, BulkCall, BulkEnd, Upload, Alive
<1>4. CASE \E r \in Report : StorePrompt(r) \/ CallLlm(r)
    BY <1>2, <1>4 DEF StorePrompt, CallLlm, Alive, tables
<1>5. ASSUME NEW r \in Report, LlmFails(r) \/ CompleteGone(r) \/ Publish(r)
      PROVE  k \in pending \/ Queued(k)
  <2>1. End(r) /\ pending' = pending
      BY <1>5 DEF LlmFails, CompleteGone, Publish, tables
  <2>2. Queued(k)' => Queued(k)
      BY <1>1, <2>1, EndEffect
  <2> QED BY <2>1, <2>2
<1>6. ASSUME NEW r \in Report, Complete(r) PROVE k \in pending \/ Queued(k)
    BY <1>6 DEF Complete, Alive, Queued
<1>7. CASE Crash \/ \E r \in Report : CompleteCrash(r)
  <2>1. Die(pending) /\ pending' = pending
      BY <1>7 DEF Crash, CompleteCrash, tables
  <2> QED BY <1>1, <2>1, DieEffect
<1>8. CASE Accept \/ AcceptCrash
  <2>1. posted' = posted + 1 /\ pending' \subseteq pending \cup {posted'} /\ posted' \in Report
      BY <1>1, <1>8, NextReport
  <2>2. Queued(k)' => Queued(k) \/ k \in pending'
    <3>1. CASE Accept
        BY <3>1 DEF Accept, Alive, Queued
    <3>2. CASE AcceptCrash
      <4>1. Die(pending') /\ pending' \in SUBSET Report
          BY <1>1, <2>1, <3>2 DEF AcceptCrash
      <4> QED BY <1>1, <4>1, DieEffect
    <3> QED BY <1>8, <3>1, <3>2
  <2> QED BY <1>8, <2>1, <2>2
<1>9. CASE DeleteStudent
    BY <1>9 DEF DeleteStudent, Alive, Queued
<1>10. CASE Recover
  <2>1. /\ pending' \subseteq pending
        /\ recovering' = recovering \/ (recovering # <<>> /\ recovering' = Tail(recovering))
      BY <1>10 DEF Recover
  <2>2. recovering \in Seq(Report)
      BY <1>1 DEF Types
  <2>3. Queued(k)' => Queued(k)
    <3>1. CASE recovering' = recovering
        BY <3>1 DEF Queued
    <3>2. CASE recovering # <<>> /\ recovering' = Tail(recovering)
      <4>1. \A i \in 1..Len(Tail(recovering)) :
                i + 1 \in 1..Len(recovering) /\ Tail(recovering)[i] = recovering[i + 1]
          BY <2>2, <3>2
      <4> QED BY <3>2, <4>1 DEF Queued
    <3> QED BY <2>1, <3>1, <3>2
  <2> QED BY <2>1, <2>3
<1> QED BY <1>3, <1>4, <1>5, <1>6, <1>7, <1>8, <1>9, <1>10 DEF Next, Task

LEMMA GoneStep == ReportInv /\ Shapes /\ GoneIsGone /\ [Next]_vars => GoneIsGone'
<1> SUFFICES ASSUME ReportInv, Shapes, GoneIsGone, [Next]_vars, NEW r \in gone'
             PROVE  r \notin pending' /\ ~Queued(r)'
    BY DEF GoneIsGone
<1>1. Types /\ posted \in Nat /\ gone \subseteq Report
    BY ReportIsNat DEF ReportInv, Types, Shapes
<1>2. CASE DeleteStudent
  <2>1. pending' = {} /\ recovering' = recovering /\ serving
      BY <1>2 DEF DeleteStudent, Alive
  <2>2. recovering = <<>>
      BY <2>1 DEF ReportInv, Serves
  <2> QED BY <2>1, <2>2 DEF Queued
<1>3. CASE gone' = gone
  <2>1. r \in Report /\ ~(r > posted) /\ r \in Nat
      BY <1>1, <1>3, ReportIsNat DEF ReportInv, Sound, New
  <2>2. r \notin pending /\ ~Queued(r) /\ r # posted + 1
      BY <1>1, <1>3, <2>1 DEF GoneIsGone
  <2> QED BY <2>1, <2>2, AskedAgain
<1>4. gone' = gone \/ DeleteStudent
  <2>1. CASE Accept \/ AcceptCrash \/ Upload \/ BulkCall \/ BulkEnd \/ Recover \/ Crash
      BY <2>1 DEF Accept, AcceptCrash, Upload, BulkCall, BulkEnd, Recover, Crash, tables
  <2>2. CASE \E k \in Report : Task(k) \/ CompleteCrash(k)
      BY <2>2 DEF Task, CompleteCrash, StorePrompt, CallLlm, LlmFails, Complete, CompleteGone,
                  Publish, tables
  <2>3. CASE UNCHANGED vars
      BY <2>3 DEF vars, tables
  <2> QED BY <2>1, <2>2, <2>3 DEF Next
<1> QED BY <1>2, <1>3, <1>4

\* A report to which nothing is added has no new try.
LEMMA TrySame ==
    ASSUME Types, crashes \in Nat, NEW k \in Report, Attempts(k), summaries'[k] = summaries[k],
           crashes' = crashes \/ crashes' = crashes + 1, Unfinished(k)' => Unfinished(k)
    PROVE  Attempts(k)'
<1>1. summaries[k] \in Nat
    BY DEF Types
<1> HIDE DEF Unfinished
<1> QED BY <1>1 DEF Attempts

LEMMA NoTry ==
    ASSUME NEW k, summaries'[k] = 0, crashes' \in Nat
    PROVE  Attempts(k)'
<1>1. \A c \in Nat : 0 <= c /\ 0 <= c + 1
    OBVIOUS
<1> QED BY <1>1 DEF Attempts

\* A try adds one summary at most.
LEMMA TryAdds ==
    ASSUME ReportInv, Shapes, NEW r \in Report, Attempts(r), pc[r] = "llm", AddSummary(r)
    PROVE  summaries'[r] <= crashes + 1 /\ summaries'[r] \in Nat
<1>1. Types /\ crashes \in Nat /\ summaries[r] \in Nat
    BY StopAssumption DEF ReportInv, Types, Shapes, StopAssumption
<1>2. analyses[r] = 0
    BY DEF ReportInv, Sound, Once, Analysing
<1>3. summaries[r] <= crashes
    BY <1>2 DEF Attempts, Unfinished, Analysing
<1>4. summaries'[r] = 1 \/ summaries'[r] = summaries[r] + 1
    BY <1>1 DEF AddSummary, Types
<1> QED BY <1>1, <1>3, <1>4

LEMMA AttemptsStep ==
    ASSUME ReportInv, TryInv, [Next]_vars, NEW k \in Report
    PROVE  Attempts(k)'
<1>1. /\ Types /\ Shapes /\ Attempts(k) /\ Sound(k) /\ crashes \in Nat
      /\ summaries[k] \in Nat /\ analyses[k] \in Nat /\ k \in Nat /\ posted \in Nat
  <2>1. Types /\ Shapes /\ Attempts(k) /\ Sound(k)
      BY DEF ReportInv, TryInv
  <2>2. crashes \in Nat /\ k \in Nat /\ posted \in Nat
      BY <2>1, StopAssumption, ReportIsNat DEF Types, Shapes, StopAssumption
  <2> QED BY <2>1, <2>2 DEF Types
<1>2. \/ k \in pending' \/ Queued(k)' => k \in pending \/ Queued(k)
      \/ k = posted + 1 /\ posted' = k /\ (Accept \/ AcceptCrash)
    BY AskedAgain
<1>3. ASSUME summaries'[k] = summaries[k], analyses'[k] = analyses[k],
             crashes' = crashes \/ crashes' = crashes + 1,
             pc'[k] \in Analysing => pc[k] \in Analysing,
             k \in pending' \/ Queued(k)' => k \in pending \/ Queued(k)
      PROVE  Attempts(k)'
  <2>1. Unfinished(k)' => Unfinished(k)
      BY <1>3 DEF Unfinished, Analysing
  <2> QED BY <1>1, <1>3, <2>1, TrySame
<1>4. CASE UNCHANGED vars \/ BulkCall \/ BulkEnd \/ Upload
  <2>1. UNCHANGED <<summaries, analyses, crashes, pc, pending, recovering>>
      BY <1>4 DEF vars, tables, BulkCall, BulkEnd, Upload, Alive
  <2> QED BY <1>3, <2>1 DEF Queued
<1>5. ASSUME NEW r \in Report, StorePrompt(r) \/ CallLlm(r) PROVE Attempts(k)'
  <2>1. /\ UNCHANGED <<summaries, analyses, crashes, pending, recovering>>
        /\ pc[r] \in Analysing
        /\ pc' = [pc EXCEPT ![r] = "wait"] \/ pc' = [pc EXCEPT ![r] = "llm"]
      BY <1>5 DEF StorePrompt, CallLlm, Alive, tables, Goto, Analysing
  <2>2. pc'[k] \in Analysing => pc[k] \in Analysing
      BY <1>1, <2>1 DEF Types
  <2> QED BY <1>3, <2>1, <2>2 DEF Queued
<1>6. ASSUME NEW r \in Report, LlmFails(r) \/ CompleteGone(r) \/ Publish(r) PROVE Attempts(k)'
  <2>1. End(r) /\ pending' = pending /\ analyses' = analyses /\ crashes' = crashes
      BY <1>6 DEF LlmFails, CompleteGone, Publish, tables, End, Ended
  <2>2. /\ pc'[r] = "none" /\ (k # r => pc'[k] = pc[k]) /\ (Queued(k)' => Queued(k))
      BY <1>1, <2>1, EndEffect
  <2>3. pc'[k] \in Analysing => pc[k] \in Analysing
      BY <2>2 DEF Analysing
  <2>4. CASE summaries'[k] = summaries[k]
      BY <1>3, <2>1, <2>2, <2>3, <2>4
  <2>5. CASE summaries'[k] # summaries[k]
    <3>1. CompleteGone(r) /\ AddSummary(r)
        BY <1>6, <2>5 DEF LlmFails, CompleteGone, Publish, tables
    <3>2. pc[r] = "llm" /\ r \in gone
        BY <3>1 DEF CompleteGone
    <3>3. k = r
        BY <1>1, <2>5, <3>1, AddSummaryEffect
    <3>4. summaries'[k] <= crashes + 1
        BY <1>1, <3>1, <3>2, <3>3, TryAdds
    <3>5. k \notin pending' /\ ~Queued(k)'
        BY <2>1, <2>2, <3>2, <3>3 DEF TryInv, GoneIsGone
    <3>6. ~Unfinished(k)'
        BY <2>2, <3>3, <3>5 DEF Unfinished, Analysing
    <3> QED BY <2>1, <3>4, <3>6 DEF Attempts
  <2> QED BY <2>4, <2>5
<1>7. ASSUME NEW r \in Report, Complete(r) PROVE Attempts(k)'
  <2>1. /\ UNCHANGED <<crashes, recovering>> /\ pc[r] = "llm" /\ pc' = [pc EXCEPT ![r] = "publish"]
        /\ pending' = pending \ {r}
        /\ analyses' = [analyses EXCEPT ![r] = @ + 1] /\ AddSummary(r)
      BY <1>7 DEF Complete, AddAnalysis, Alive, Goto
  <2>2. CASE k = r
    <3>1. summaries'[k] <= crashes + 1
        BY <1>1, <2>1, <2>2, TryAdds
    <3>2. analyses'[k] # 0
        BY <1>1, <2>1, <2>2 DEF Types
    <3> QED BY <2>1, <3>1, <3>2 DEF Attempts, Unfinished
  <2>3. CASE k # r
    <3>1. summaries'[k] = summaries[k]
        BY <1>1, <2>1, <2>3, AddSummaryEffect
    <3>2. analyses'[k] = analyses[k] /\ pc'[k] = pc[k]
        BY <1>1, <2>1, <2>3 DEF Types
    <3> QED BY <1>3, <2>1, <3>1, <3>2 DEF Queued
  <2> QED BY <2>2, <2>3
<1>8. ASSUME NEW r \in Report, CompleteCrash(r) PROVE Attempts(k)'
  <2>1. /\ pc[r] = "llm" /\ AddSummary(r) /\ Die(pending) /\ pending' = pending
        /\ crashes' = crashes + 1
        /\ analyses' = analyses \/ analyses' = [analyses EXCEPT ![r] = @ + 1]
      BY <1>8 DEF CompleteCrash, AddAnalysis, Die
  <2>2. pc'[k] = "none" /\ (Queued(k)' => k \in pending)
      BY <1>1, <2>1, DieEffect DEF Types
  <2>3. CASE k = r
    <3>1. summaries'[k] <= crashes + 1
        BY <1>1, <2>1, <2>3, TryAdds
    <3>2. summaries'[k] \in Nat
        BY <1>1, <2>1, <2>3, TryAdds
    <3> QED BY <1>1, <2>1, <3>1, <3>2 DEF Attempts
  <2>4. CASE k # r
    <3>1. summaries'[k] = summaries[k]
        BY <1>1, <2>1, <2>4, AddSummaryEffect
    <3>2. analyses'[k] = analyses[k]
        BY <1>1, <2>1, <2>4 DEF Types
    <3> QED BY <1>3, <2>1, <2>2, <3>1, <3>2 DEF Analysing
  <2> QED BY <2>3, <2>4
<1>9. CASE Crash
  <2>1. /\ UNCHANGED <<summaries, analyses, pending>> /\ Die(pending) /\ crashes' = crashes + 1
      BY <1>9 DEF Crash, tables, Die
  <2>2. pc'[k] = "none" /\ (Queued(k)' => k \in pending)
      BY <1>1, <2>1, DieEffect DEF Types
  <2> QED BY <1>3, <2>1, <2>2 DEF Analysing
<1>10. CASE Accept \/ AcceptCrash
  <2>1. /\ UNCHANGED <<summaries, analyses>>
        /\ crashes' = crashes \/ crashes' = crashes + 1
      BY <1>10 DEF Accept, AcceptCrash, Alive, Die
  <2>2. posted' = posted + 1
      BY <1>1, <1>10, NextReport
  <2>3. CASE k = posted + 1
    <3>1. summaries'[k] = 0
        BY <1>1, <2>1, <2>3 DEF Sound, New
    <3>2. crashes' \in Nat
        BY <1>1, <2>1
    <3> QED BY <3>1, <3>2, NoTry
  <2>4. CASE k # posted + 1
    <3>1. pc'[k] \in Analysing => pc[k] \in Analysing
      <4>1. CASE Accept
          BY <1>1, <2>2, <2>4, <4>1 DEF Accept, Goto, Types
      <4>2. CASE AcceptCrash
          BY <4>2 DEF AcceptCrash, Die, Analysing
      <4> QED BY <1>10, <4>1, <4>2
    <3>2. k \in pending' \/ Queued(k)' => k \in pending \/ Queued(k)
        BY <1>2, <2>4
    <3>3. summaries'[k] = summaries[k] /\ analyses'[k] = analyses[k]
        BY <2>1
    <3> QED BY <1>3, <2>1, <3>1, <3>2, <3>3
  <2> QED BY <2>3, <2>4
<1>11. CASE DeleteStudent
  <2>1. summaries'[k] = 0 /\ crashes' = crashes
      BY <1>11 DEF DeleteStudent, Alive
  <2>2. summaries'[k] <= crashes' + 1 /\ summaries'[k] <= crashes'
      BY <1>1, <2>1
  <2> QED BY <2>2 DEF Attempts
<1>12. CASE Recover
  <2> DEFINE r == Head(recovering)
  <2>1. /\ UNCHANGED <<summaries, analyses, crashes>> /\ recovering # <<>>
        /\ pc' = pc \/ pc' = [pc EXCEPT ![r] = "start"]
      BY <1>12 DEF Recover, Goto
  <2>2. Queued(r)
    <3>1. r = recovering[1] /\ 1 \in 1..Len(recovering)
        BY <1>1, <2>1 DEF Types
    <3> QED BY <3>1 DEF Queued
  <2> HIDE DEF r
  <2>3. ~(Accept \/ AcceptCrash)
      BY <1>1, <1>12 DEF Accept, AcceptCrash, AddReport, Recover
  <2>4. Unfinished(k)' => Unfinished(k)
    <3>1. CASE k = r
        BY <2>1, <2>2, <3>1 DEF Unfinished
    <3>2. CASE k # r
      <4>1. pc'[k] = pc[k]
          BY <1>1, <2>1, <3>2 DEF Types
      <4> QED BY <1>2, <2>1, <2>3, <4>1 DEF Unfinished
    <3> QED BY <3>1, <3>2
  <2> QED BY <1>1, <2>1, <2>4, TrySame
<1> QED BY <1>4, <1>5, <1>6, <1>7, <1>8, <1>9, <1>10, <1>11, <1>12 DEF Next, Task

LEMMA TriesHold == Spec => [](ReportInv /\ TryInv)
<1>1. Init => TryInv
  <2> SUFFICES ASSUME Init PROVE TryInv
      OBVIOUS
  <2>1. 0 \in 0..MaxCrashes /\ 0 \in 0..MaxUploads /\ 0 \in 0..0 /\ "none" \in PC /\ Nothing \in Content
      BY StopAssumption DEF StopAssumption, PC, Content
  <2>2. raws \in Seq(Transcript)
    <3>1. raws = <<>>
        BY DEF Init
    <3> QED BY <3>1
  <2>3. Shapes
      BY <2>1, <2>2 DEF Init, Shapes
  <2>4. GoneIsGone
      BY DEF Init, GoneIsGone
  <2>5. \A r \in Report : Attempts(r)
      BY DEF Init, Attempts
  <2> QED BY <2>3, <2>4, <2>5 DEF TryInv
<1>2. ReportInv /\ TryInv /\ [Next]_vars => TryInv'
    BY ShapesStep, GoneStep, AttemptsStep DEF TryInv
<1> QED BY <1>1, <1>2, ReportInit, ReportStep, PTL DEF Spec

-----------------------------------------------------------------------------

\* Wherever the server dies, whatever is uploaded or deleted meanwhile
\* (handle_stop, _recover_pending_reports): a report is analysed and announced
\* at most once, and from its own transcript or one uploaded in its place.
THEOREM AnalysedOnceOnItsOwn == Spec => []AnalysedOnItsOwn
<1>1. ReportInv => AnalysedOnItsOwn
    BY ReportIsNat DEF ReportInv, Sound, Once, Own, OwnOrBulk, AnalysedOnItsOwn, AnalysedOnce,
       OwnTranscript, Types
<1> QED BY <1>1, ReportsHold, PTL

\* accept_report answers after its last commit: until it is analysed, an
\* answered report that brought its transcript is pending on disk.
THEOREM AnsweredIsKept == Spec => []NotForgotten
<1>1. ReportInv => NotForgotten
    BY DEF ReportInv, Types, Sound, Kept, NotForgotten
<1> QED BY <1>1, ReportsHold, PTL

\* A report has its summary and its analysis once, and a summary more for every
\* crash that cut a try off; uploads never hold a slot of the semaphore that
\* they did not take; what an analysis reads is a transcript of the session or
\* nothing (add_ai_summary, analysis_semaphore, get_raw_transcript_for_report).
THEOREM ReportsTypeCorrect == Spec => []TypeOK
<1>1. ReportInv /\ TryInv => TypeOK
  <2> SUFFICES ASSUME ReportInv, TryInv PROVE TypeOK
      OBVIOUS
  <2>1. Types /\ Shapes /\ RawsAreOld
      BY DEF ReportInv, TryInv
  <2>2. /\ MaxCrashes \in Nat /\ MaxUploads \in Nat /\ MaxReports \in Nat
        /\ crashes \in Nat /\ crashes <= MaxCrashes
        /\ posted \in Nat /\ posted <= MaxReports
      BY <2>1, StopAssumption DEF Types, Shapes, StopAssumption
  <2>3. raws \in Seq([content : Report \cup {Bulk}, at : 0..MaxReports])
    <3>1. raws \in Seq(Transcript)
        BY <2>1 DEF Shapes
    <3>2. ASSUME NEW i \in 1..Len(raws)
          PROVE  raws[i] \in [content : Report \cup {Bulk}, at : 0..MaxReports]
      <4>1. raws[i] \in Transcript
          BY <3>1
      <4>2. raws[i].at \in Nat /\ raws[i].at <= posted
          BY <2>1, <4>1 DEF Transcript, RawsAreOld
      <4>3. raws[i].at \in 0..MaxReports
          BY <2>2, <4>2
      <4> QED BY <4>1, <4>3 DEF Transcript
    <3>3. Len(raws) \in Nat /\ raws \in [1..Len(raws) -> Transcript]
        BY <3>1, LenProperties
    <3>4. raws \in [1..Len(raws) -> [content : Report \cup {Bulk}, at : 0..MaxReports]]
        BY <3>2, <3>3
    <3> QED BY <3>3, <3>4, SeqDef
  <2>4. ASSUME NEW r \in Report
        PROVE  /\ summaries[r] \in 0..(MaxCrashes + 1) /\ analyses[r] \in 0..(MaxCrashes + 1)
               /\ announced[r] \in 0..(MaxCrashes + 1)
    <3>1. summaries[r] \in Nat /\ analyses[r] \in Nat /\ announced[r] \in Nat
        BY <2>1 DEF Types
    <3>2. summaries[r] <= crashes + 1 /\ analyses[r] <= 1 /\ announced[r] <= 1
        BY DEF ReportInv, Sound, Once, TryInv, Attempts
    <3> QED BY <2>2, <3>1, <3>2
  <2>5. /\ summaries \in [Report -> 0..(MaxCrashes + 1)]
        /\ analyses \in [Report -> 0..(MaxCrashes + 1)]
        /\ announced \in [Report -> 0..(MaxCrashes + 1)]
      BY <2>1, <2>4 DEF Types
  <2>6. bulkCalls \in 0..MaxUploads
      BY <2>1, <2>2 DEF Shapes
  <2>7. serving \in BOOLEAN
      BY DEF TryInv, Shapes
  <2> QED BY <2>1, <2>3, <2>5, <2>6, <2>7 DEF TypeOK, Types, Shapes
<1> QED BY <1>1, TriesHold, PTL

=============================================================================
