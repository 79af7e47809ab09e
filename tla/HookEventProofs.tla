---------------------------- MODULE HookEventProofs ----------------------------
(***************************************************************************)
(* What TLAPS proves of the two ends of a hook event: the spool on the     *)
(* student's machine that keeps it until the server has it, for any number *)
(* of events, agents and dying agents; and the history of a session that   *)
(* the server makes of it, for any transcript, uploads and summary jobs.   *)
(***************************************************************************)
EXTENDS EventSpool, SessionHistory, FiniteSetTheorems, NaturalsInduction, TLAPS

-----------------------------------------------------------------------------
(* The spool: EventSpool. *)

\* Every step of an agent is one of these.
Step(a) ==
    \/ List(a) \/ ScanNext(a) \/ ScanEnd(a) \/ ScanUnlink(a) \/ Read(a) \/ Quarantine(a)
    \/ FlushNext(a) \/ FlushEnd(a) \/ Create(a) \/ WritePid(a) \/ Check(a) \/ TakeOver(a)
    \/ PostAccepted(a) \/ PostFailed(a) \/ Ack(a) \/ Release(a) \/ Die(a)
    \/ CallFails(a) \/ PidTaken(a)

LEMMA Cases ==
    ASSUME TypeOK, Next
    PROVE  \/ \E e \in HookEvents : HookWrite(e)
           \/ \E e \in EnqueuedEvents : Reserve(e) \/ Publish(e) \/ Withdraw(e)
           \/ \E a \in Agents : Step(a)
<1>1. CASE \E e \in HookEvents : HookWrite(e)
    BY <1>1
<1>2. CASE \E e \in EnqueuedEvents : Enqueue(e)
    BY <1>2 DEF Enqueue
<1>3. CASE \E a \in live : Scan(a) \/ Flush(a) \/ Post(a) \/ Die(a)
  <2>1. PICK a \in live : Scan(a) \/ Flush(a) \/ Post(a) \/ Die(a)
      BY <1>3
  <2>2. a \in Agents
      BY DEF TypeOK
  <2>3. Step(a)
      BY <2>1 DEF Step, Scan, Flush, Post
  <2> QED BY <2>2, <2>3
<1>4. CASE \E a \in Agents : PidTaken(a)
    BY <1>4 DEF Step
<1> QED BY <1>1, <1>2, <1>3, <1>4 DEF Next

-----------------------------------------------------------------------------
(* Type correctness. *)

LEMMA PidWritten ==
    ASSUME NEW f \in [Event -> Claim], NEW e \in Event
    PROVE  [f EXCEPT ![e].pid = TRUE] \in [Event -> Claim]
<1>1. f[e] \in Claim
    OBVIOUS
<1>2. [f[e] EXCEPT !.pid = TRUE] \in Claim
    BY <1>1 DEF Claim
<1> QED BY <1>2

LEMMA TypeStep == TypeOK /\ [Next]_vars => TypeOK'
<1> SUFFICES ASSUME TypeOK, [Next]_vars PROVE TypeOK'
    OBVIOUS
<1> USE SpoolAssumption DEF TypeOK, Event, Call, Claim, NoClaim, PC, Goto, Take, Leave, UnlinkClaim, spool, world, work
<1>1. CASE UNCHANGED vars
    BY <1>1 DEF vars
<1>2. ASSUME NEW e \in HookEvents, HookWrite(e) PROVE TypeOK'
    BY <1>2 DEF HookWrite
<1>3. ASSUME NEW e \in EnqueuedEvents, Reserve(e) \/ Publish(e) \/ Withdraw(e) PROVE TypeOK'
    BY <1>3 DEF Reserve, Publish, Withdraw
<1>4. ASSUME NEW a \in Agents, Step(a) PROVE TypeOK'
  <2>1. CASE List(a)         BY <2>1 DEF List
  <2>2. CASE ScanNext(a)     BY <2>2 DEF ScanNext
  <2>3. CASE ScanEnd(a)      BY <2>3 DEF ScanEnd
  <2>4. CASE ScanUnlink(a)   BY <2>4 DEF ScanUnlink
  <2>5. CASE Read(a)         BY <2>5 DEF Read, Fault
  <2>6. CASE Quarantine(a)   BY <2>6 DEF Quarantine, Fault
  <2>7. CASE FlushNext(a)    BY <2>7 DEF FlushNext
  <2>8. CASE FlushEnd(a)     BY <2>8 DEF FlushEnd
  <2>9. CASE Create(a)
    <3>1. PICK e \in cur[a] : \/ claim' = [claim EXCEPT ![e] = [owner |-> a, pid |-> FALSE]]
                              \/ claim' = claim
        BY <2>9 DEF Create
    <3>2. [owner |-> a, pid |-> FALSE] \in Claim
        OBVIOUS
    <3>3. claim' \in [Event -> Claim]
        BY <3>1, <3>2
    <3> QED BY <2>9, <3>3 DEF Create
  <2>10. CASE WritePid(a)
    <3>1. PICK e \in cur[a] : \/ claim' = [claim EXCEPT ![e].pid = TRUE]
                              \/ claim' = claim
        BY <2>10 DEF WritePid
    <3>2. e \in Event /\ claim \in [Event -> Claim]
        OBVIOUS
    <3>3. [claim EXCEPT ![e].pid = TRUE] \in [Event -> Claim]
        BY <3>2, PidWritten
    <3>4. claim' \in [Event -> Claim]
        BY <3>1, <3>2, <3>3
    <3> QED BY <2>10, <3>4 DEF WritePid
  <2>11. CASE Check(a)       BY <2>11 DEF Check
  <2>12. CASE TakeOver(a)
    <3>1. PICK e \in cur[a] : claim' = [claim EXCEPT ![e] = NoClaim]
        BY <2>12 DEF TakeOver
    <3>2. e \in Event
        OBVIOUS
    <3>3. NoClaim \in Claim
        OBVIOUS
    <3>4. claim' \in [Event -> Claim]
        BY <3>1, <3>2, <3>3
    <3>5. /\ pc' \in [Agents -> PC]
          /\ cur' \in [Agents -> SUBSET Event]
        BY <2>12 DEF TakeOver
    <3>6. entries' \in [Agents -> SUBSET Event]
      <4>1. cur[a] \subseteq Event /\ entries[a] \subseteq Event
          OBVIOUS
      <4>2. entries' = entries \/ entries' = [entries EXCEPT ![a] = @ \cup cur[a]]
          BY <2>12 DEF TakeOver
      <4> QED BY <4>1, <4>2
    <3> QED BY <2>12, <3>4, <3>5, <3>6 DEF TakeOver
  <2>13. CASE PostAccepted(a) BY <2>13 DEF PostAccepted
  <2>14. CASE PostFailed(a)  BY <2>14 DEF PostFailed
  <2>15. CASE Ack(a)         BY <2>15 DEF Ack
  <2>16. CASE Release(a)     BY <2>16 DEF Release
  <2>17. CASE Die(a)         BY <2>17 DEF Die
  <2>18. CASE CallFails(a)   BY <2>18 DEF CallFails, Fault
  <2>19. CASE PidTaken(a)    BY <2>19 DEF PidTaken
  <2> QED BY <1>4, <2>1, <2>2, <2>3, <2>4, <2>5, <2>6, <2>7, <2>8, <2>9, <2>10, <2>11,
             <2>12, <2>13, <2>14, <2>15, <2>16, <2>17, <2>18, <2>19 DEF Step
<1> QED BY <1>1, <1>2, <1>3, <1>4, Cases

LEMMA TypeInit == Init => TypeOK
BY SpoolAssumption DEF Init, TypeOK, Call, Claim, NoClaim, PC

\* The variables of the spool keep their types, for any number of events,
\* agents and dying agents.
THEOREM TypeCorrect == Spec => []TypeOK
BY TypeInit, TypeStep, PTL DEF Spec

-----------------------------------------------------------------------------
(* No event is lost. *)

\* What is produced stays, is accepted, or is in quarantine complete; and an
\* agent that removes an event has its acceptance.
Kept ==
    \A e \in produced : file[e] = "good" \/ e \in accepted \/ <<e, "good">> \in quarantined

Acked == \A a \in Agents : pc[a] = "ack" => cur[a] \subseteq accepted

\* An agent is at one event.
One == \A a \in Agents : \A e, f \in cur[a] : e = f

\* The file of a hook event appears complete, and once: an agent that has seen
\* it finds nothing to move, unless it failed to read it.
Whole == \A e \in HookEvents : /\ file[e] # "empty"
                               /\ file[e] # "none" => e \in produced

Seen == \A a \in Agents, e \in HookEvents :
           e \in scan[a] \cup entries[a] \cup cur[a] => e \in produced

Gone == \A a \in Agents, e \in HookEvents :
           pc[a] = "quarantine" /\ e \in cur[a] => file[e] = "none" \/ <<"read", e>> \in faults

Unmoved == \A e \in HookEvents : Moved(e) => <<"read", e>> \in faults

SpoolInv == TypeOK /\ Kept /\ Acked /\ One /\ Whole /\ Seen /\ Gone /\ Unmoved

LEMMA KeptStep == SpoolInv /\ [Next]_vars => Kept'
<1> SUFFICES ASSUME SpoolInv, [Next]_vars PROVE Kept'
    OBVIOUS
<1> USE SpoolAssumption DEF SpoolInv, TypeOK, Event, Kept, Acked, spool
<1>1. CASE UNCHANGED vars
    BY <1>1 DEF vars
<1>2. ASSUME NEW e \in HookEvents, HookWrite(e) PROVE Kept'
    BY <1>2 DEF HookWrite
<1>3. ASSUME NEW e \in EnqueuedEvents, Reserve(e) \/ Publish(e) \/ Withdraw(e) PROVE Kept'
    BY <1>3 DEF Reserve, Publish, Withdraw
<1>4. ASSUME NEW a \in Agents, Step(a) PROVE Kept'
  <2>1. CASE Quarantine(a)   BY <2>1 DEF Quarantine
  <2>2. CASE PostAccepted(a) BY <2>2 DEF PostAccepted
  <2>3. CASE PostFailed(a)   BY <2>3 DEF PostFailed
  <2>4. CASE Ack(a)          BY <2>4 DEF Ack
  <2>5. CASE UNCHANGED <<file, produced, quarantined, accepted>>
      BY <2>5
  <2> QED BY <1>4, <2>1, <2>2, <2>3, <2>4, <2>5
             DEF Step, List, ScanNext, ScanEnd, ScanUnlink, Read, FlushNext, FlushEnd,
                 Create, WritePid, Check, TakeOver, Release, Die, CallFails, PidTaken
<1> QED BY <1>1, <1>2, <1>3, <1>4, Cases

LEMMA AckedStep == SpoolInv /\ [Next]_vars => Acked'
<1> SUFFICES ASSUME SpoolInv, [Next]_vars PROVE Acked'
    OBVIOUS
<1> USE SpoolAssumption DEF SpoolInv, TypeOK, Event, Acked, Goto, Take, Leave, spool, work
<1>1. CASE UNCHANGED vars
    BY <1>1 DEF vars
<1>2. ASSUME NEW e \in HookEvents, HookWrite(e) PROVE Acked'
    BY <1>2 DEF HookWrite
<1>3. ASSUME NEW e \in EnqueuedEvents, Reserve(e) \/ Publish(e) \/ Withdraw(e) PROVE Acked'
    BY <1>3 DEF Reserve, Publish, Withdraw
<1>4. ASSUME NEW a \in Agents, Step(a) PROVE Acked'
  <2>1. CASE List(a)          BY <2>1 DEF List
  <2>2. CASE ScanNext(a)      BY <2>2 DEF ScanNext
  <2>3. CASE ScanEnd(a)       BY <2>3 DEF ScanEnd
  <2>4. CASE ScanUnlink(a)    BY <2>4 DEF ScanUnlink
  <2>5. CASE Read(a)          BY <2>5 DEF Read
  <2>6. CASE Quarantine(a)    BY <2>6 DEF Quarantine
  <2>7. CASE FlushNext(a)     BY <2>7 DEF FlushNext
  <2>8. CASE FlushEnd(a)      BY <2>8 DEF FlushEnd
  <2>9. CASE Create(a)        BY <2>9 DEF Create
  <2>10. CASE WritePid(a)     BY <2>10 DEF WritePid
  <2>11. CASE Check(a)        BY <2>11 DEF Check
  <2>12. CASE TakeOver(a)     BY <2>12 DEF TakeOver
  <2>13. CASE PostAccepted(a) BY <2>13 DEF PostAccepted
  <2>14. CASE PostFailed(a)   BY <2>14 DEF PostFailed
  <2>15. CASE Ack(a)          BY <2>15 DEF Ack
  <2>16. CASE Release(a)      BY <2>16 DEF Release
  <2>17. CASE Die(a)          BY <2>17 DEF Die
  <2>18. CASE CallFails(a)    BY <2>18 DEF CallFails
  <2>19. CASE PidTaken(a)     BY <2>19 DEF PidTaken
  <2> QED BY <1>4, <2>1, <2>2, <2>3, <2>4, <2>5, <2>6, <2>7, <2>8,
             <2>9, <2>10, <2>11, <2>12, <2>13, <2>14, <2>15, <2>16, <2>17, <2>18, <2>19 DEF Step
<1> QED BY <1>1, <1>2, <1>3, <1>4, Cases

LEMMA OneStep == SpoolInv /\ [Next]_vars => One'
<1> SUFFICES ASSUME SpoolInv, [Next]_vars PROVE One'
    OBVIOUS
<1> USE DEF SpoolInv, TypeOK, One, Take, Leave, work
<1>1. CASE UNCHANGED cur
    BY <1>1
<1>2. ASSUME NEW a \in Agents, Step(a), cur' # cur PROVE One'
  <2>1. \/ cur' = [cur EXCEPT ![a] = {}]
        \/ \E e \in Event : cur' = [cur EXCEPT ![a] = {e}]
      BY <1>2 DEF Step, List, ScanNext, ScanEnd, ScanUnlink, Read, Quarantine, FlushNext, FlushEnd,
                  Create, WritePid, Check, TakeOver, PostAccepted, PostFailed, Ack, Release, Die,
                  CallFails, PidTaken
  <2> QED BY <2>1
<1> QED BY <1>1, <1>2, Cases DEF vars, HookWrite, Reserve, Publish, Withdraw

LEMMA FilesStep == SpoolInv /\ [Next]_vars => (Whole /\ Seen)'
<1> SUFFICES ASSUME SpoolInv, [Next]_vars PROVE (Whole /\ Seen)'
    OBVIOUS
<1> USE SpoolAssumption DEF SpoolInv, TypeOK, Event, Whole, Seen, Goto, Take, Leave, spool, work
<1>1. CASE UNCHANGED vars
    BY <1>1 DEF vars
<1>2. ASSUME NEW e \in HookEvents, HookWrite(e) PROVE (Whole /\ Seen)'
    BY <1>2 DEF HookWrite
<1>3. ASSUME NEW e \in EnqueuedEvents, Reserve(e) \/ Publish(e) \/ Withdraw(e) PROVE (Whole /\ Seen)'
    BY <1>3 DEF Reserve, Publish, Withdraw
<1>4. ASSUME NEW a \in Agents, Step(a) PROVE (Whole /\ Seen)'
  <2>1. CASE List(a)          BY <2>1 DEF List
  <2>2. CASE ScanNext(a)      BY <2>2 DEF ScanNext
  <2>3. CASE ScanEnd(a)       BY <2>3 DEF ScanEnd
  <2>4. CASE ScanUnlink(a)    BY <2>4 DEF ScanUnlink
  <2>5. CASE Read(a)          BY <2>5 DEF Read
  <2>6. CASE Quarantine(a)    BY <2>6 DEF Quarantine
  <2>7. CASE FlushNext(a)     BY <2>7 DEF FlushNext
  <2>8. CASE FlushEnd(a)      BY <2>8 DEF FlushEnd
  <2>9. CASE Create(a)        BY <2>9 DEF Create
  <2>10. CASE WritePid(a)     BY <2>10 DEF WritePid
  <2>11. CASE Check(a)        BY <2>11 DEF Check
  <2>12. CASE TakeOver(a)     BY <2>12 DEF TakeOver
  <2>13. CASE PostAccepted(a) BY <2>13 DEF PostAccepted
  <2>14. CASE PostFailed(a)   BY <2>14 DEF PostFailed
  <2>15. CASE Ack(a)          BY <2>15 DEF Ack
  <2>16. CASE Release(a)      BY <2>16 DEF Release
  <2>17. CASE Die(a)          BY <2>17 DEF Die
  <2>18. CASE CallFails(a)    BY <2>18 DEF CallFails
  <2>19. CASE PidTaken(a)     BY <2>19 DEF PidTaken
  <2> QED BY <1>4, <2>1, <2>2, <2>3, <2>4, <2>5, <2>6, <2>7, <2>8,
             <2>9, <2>10, <2>11, <2>12, <2>13, <2>14, <2>15, <2>16, <2>17, <2>18, <2>19 DEF Step
<1> QED BY <1>1, <1>2, <1>3, <1>4, Cases

LEMMA GoneStep == SpoolInv /\ [Next]_vars => (Gone /\ Unmoved)'
<1> SUFFICES ASSUME SpoolInv, [Next]_vars PROVE (Gone /\ Unmoved)'
    OBVIOUS
<1> USE SpoolAssumption DEF SpoolInv, TypeOK, Event, One, Whole, Seen, Gone, Unmoved, Moved, Goto, Take, Leave,
           spool, world, work
<1>1. CASE UNCHANGED vars
    BY <1>1 DEF vars
<1>2. ASSUME NEW e \in HookEvents, HookWrite(e) PROVE (Gone /\ Unmoved)'
    BY <1>2 DEF HookWrite
<1>3. ASSUME NEW e \in EnqueuedEvents, Reserve(e) \/ Publish(e) \/ Withdraw(e) PROVE (Gone /\ Unmoved)'
    BY <1>3 DEF Reserve, Publish, Withdraw
<1>4. ASSUME NEW a \in Agents, Step(a) PROVE (Gone /\ Unmoved)'
  <2>1. CASE List(a)          BY <2>1 DEF List
  <2>2. CASE ScanNext(a)      BY <2>2 DEF ScanNext
  <2>3. CASE ScanEnd(a)       BY <2>3 DEF ScanEnd
  <2>4. CASE ScanUnlink(a)    BY <2>4 DEF ScanUnlink
  <2>5. CASE Read(a)          BY <2>5 DEF Read, Fault
  <2>6. CASE Quarantine(a)    BY <2>6 DEF Quarantine, Fault
  <2>7. CASE FlushNext(a)     BY <2>7 DEF FlushNext
  <2>8. CASE FlushEnd(a)      BY <2>8 DEF FlushEnd
  <2>9. CASE Create(a)        BY <2>9 DEF Create
  <2>10. CASE WritePid(a)     BY <2>10 DEF WritePid
  <2>11. CASE Check(a)        BY <2>11 DEF Check
  <2>12. CASE TakeOver(a)     BY <2>12 DEF TakeOver
  <2>13. CASE PostAccepted(a) BY <2>13 DEF PostAccepted
  <2>14. CASE PostFailed(a)   BY <2>14 DEF PostFailed
  <2>15. CASE Ack(a)          BY <2>15 DEF Ack
  <2>16. CASE Release(a)      BY <2>16 DEF Release
  <2>17. CASE Die(a)          BY <2>17 DEF Die
  <2>18. CASE CallFails(a)    BY <2>18 DEF CallFails, Fault
  <2>19. CASE PidTaken(a)     BY <2>19 DEF PidTaken
  <2> QED BY <1>4, <2>1, <2>2, <2>3, <2>4, <2>5, <2>6, <2>7, <2>8,
             <2>9, <2>10, <2>11, <2>12, <2>13, <2>14, <2>15, <2>16, <2>17, <2>18, <2>19 DEF Step
<1> QED BY <1>1, <1>2, <1>3, <1>4, Cases

LEMMA SpoolInvInductive == Spec => []SpoolInv
<1>1. Init => SpoolInv
    BY TypeInit DEF Init, SpoolInv, Kept, Acked, One, Whole, Seen, Gone, Unmoved, Moved, Event
<1>2. SpoolInv /\ [Next]_vars => SpoolInv'
    BY TypeStep, KeptStep, AckedStep, OneStep, FilesStep, GoneStep DEF SpoolInv
<1> QED BY <1>1, <1>2, PTL DEF Spec

\* A produced event is in the spool, accepted by the server, or complete in
\* quarantine, and one of the hook is in quarantine only after a read of it
\* failed: whatever agents race, die, lose answers or meet failing calls.
THEOREM NothingIsLost == Spec => []NoEventLost
<1>1. SpoolInv => NoEventLost
    BY DEF SpoolInv, NoEventLost, Kept, Unmoved
<1> QED BY <1>1, SpoolInvInductive, PTL

-----------------------------------------------------------------------------
(* The history of a session: SessionHistory. *)

(***************************************************************************)
(* The windows over (seq, created_at) cut a transcript at its prompts.     *)
(***************************************************************************)

\* What the rows of the session rest on.
Transcript == talk \in Seq(Kinds) /\ stored.len \in Nat /\ stored.len <= Len(talk)

IsPrompt(i) == i \in DOMAIN talk /\ talk[i] = "user"

\* The messages of a part of the transcript that start a round.
Starts(n) == {j \in Messages(n) : StartsRound(j)}

LEMMA UpToIsFinite == ASSUME NEW n \in Nat, NEW S \in SUBSET (1..n)
                      PROVE  IsFiniteSet(S) /\ Cardinality(S) \in Nat
<1>1. IsFiniteSet(1..n)
    BY FS_Interval
<1>2. IsFiniteSet(S)
    BY <1>1, FS_Subset
<1> QED BY <1>2, FS_CardinalityType

\* parse_turns never goes back.
LEMMA TurnsGrow ==
    ASSUME NEW i \in Nat, NEW j \in Nat, i <= j
    PROVE  /\ Turn(i).of = i /\ Turn(i).role = talk[i]
           /\ Turn(i).seq \in Nat /\ Turn(j).seq \in Nat /\ Turn(i).seq <= Turn(j).seq
<1>1. Starts(i) \subseteq Starts(j)
    BY DEF Starts, Messages
<1>2. Starts(i) \in SUBSET (1..i) /\ Starts(j) \in SUBSET (1..j)
    BY DEF Starts, Messages
<1>3. IsFiniteSet(Starts(j)) /\ Cardinality(Starts(i)) \in Nat /\ Cardinality(Starts(j)) \in Nat
    BY <1>2, UpToIsFinite
<1>4. Cardinality(Starts(i)) <= Cardinality(Starts(j))
    BY <1>1, <1>3, FS_Subset
<1>5. \A k : Turn(k).seq = Cardinality(Starts(k)) /\ Turn(k).of = k /\ Turn(k).role = talk[k]
    BY DEF Turn, Starts
<1> QED BY <1>3, <1>4, <1>5

\* ORDER BY seq, created_at is the order of the transcript.
LEMMA OrderOfRows ==
    ASSUME NEW i \in Nat, NEW j \in Nat
    PROVE  Before(Turn(i), Turn(j)) <=> i < j
<1>1. /\ Turn(i).of = i /\ Turn(j).of = j /\ Turn(i).seq \in Nat /\ Turn(j).seq \in Nat
      /\ i <= j => Turn(i).seq <= Turn(j).seq
      /\ j <= i => Turn(j).seq <= Turn(i).seq
    BY TurnsGrow
<1> QED BY <1>1 DEF Before

LEMMA RowsOfLines ==
    ASSUME Transcript
    PROVE  /\ Users = {Turn(i) : i \in {k \in 1..stored.len : talk[k] = "user"}}
           /\ Assistants = {Turn(i) : i \in {k \in 1..stored.len : talk[k] = "assistant"}}
<1>1. \A i : Turn(i).role = talk[i]
    BY DEF Turn
<1> QED BY <1>1 DEF Users, Assistants, Rows, Messages

LEMMA LeastIsOfThem ==
    ASSUME NEW S \in SUBSET Nat
    PROVE  \/ Least(S) \in S /\ \A y \in S : Least(S) <= y
           \/ S = {} /\ Least(S) = 0
<1>1. CASE S = {}
    BY <1>1 DEF Least
<1>2. CASE S # {}
  <2>1. \E x \in S : \A y \in S : x <= y
    <3>1. PICK x \in S : \A y \in S : <<y, x>> \notin OpToRel(<, Nat)
        BY <1>2, NatLessThanWellFounded, WFMin
    <3>2. \A y \in S : ~(y < x)
        BY <3>1 DEF OpToRel
    <3> QED BY <3>2
  <2>2. Min(S) \in S /\ \A y \in S : Min(S) <= y
      BY <2>1 DEF Min
  <2> QED BY <1>2, <2>2 DEF Least
<1> QED BY <1>1, <1>2

\* The stored prompt that follows line i, 0 if there is none.
PromptsAfter(i) == {k \in (i + 1)..stored.len : talk[k] = "user"}
NextPrompt(i)   == Least(PromptsAfter(i))

LEMMA NextPromptIsNext ==
    ASSUME stored.len \in Nat, NEW i \in Nat
    PROVE  /\ NextPrompt(i) \in Nat
           /\ NextPrompt(i) = 0 => \A k \in (i + 1)..stored.len : talk[k] # "user"
           /\ NextPrompt(i) # 0 => /\ NextPrompt(i) \in (i + 1)..stored.len
                                   /\ talk[NextPrompt(i)] = "user"
                                   /\ \A k \in (i + 1)..stored.len :
                                         talk[k] = "user" => NextPrompt(i) <= k
<1>1. PromptsAfter(i) \in SUBSET Nat /\ 0 \notin PromptsAfter(i)
    BY DEF PromptsAfter
<1>2. \/ NextPrompt(i) \in PromptsAfter(i) /\ \A y \in PromptsAfter(i) : NextPrompt(i) <= y
      \/ PromptsAfter(i) = {} /\ NextPrompt(i) = 0
    BY <1>1, LeastIsOfThem DEF NextPrompt
<1>3. CASE PromptsAfter(i) = {} /\ NextPrompt(i) = 0
    BY <1>3 DEF PromptsAfter
<1>4. CASE NextPrompt(i) \in PromptsAfter(i) /\ \A y \in PromptsAfter(i) : NextPrompt(i) <= y
    BY <1>1, <1>4 DEF PromptsAfter
<1> QED BY <1>2, <1>3, <1>4

\* The first SELECT of a reply (_message_reply_rows_with_conn).
LEMMA FollowerIsNext ==
    ASSUME Transcript, NEW i \in Nat
    PROVE  Follower(Turn(i)) = NextPrompt(i)
<1> DEFINE F == {n.of : n \in {m \in Users : Before(Turn(i), m)}}
<1>1. ASSUME NEW k PROVE k \in F <=> k \in PromptsAfter(i)
  <2>1. stored.len \in Nat
      BY DEF Transcript
  <2>2. k \in F <=> \E l \in 1..stored.len : talk[l] = "user" /\ Before(Turn(i), Turn(l)) /\ k = Turn(l).of
      BY RowsOfLines
  <2>3. \A l \in 1..stored.len : Turn(l).of = l /\ (Before(Turn(i), Turn(l)) <=> i < l)
      BY <2>1, OrderOfRows DEF Turn
  <2>4. k \in F <=> k \in 1..stored.len /\ talk[k] = "user" /\ i < k
      BY <2>2, <2>3
  <2>5. k \in PromptsAfter(i) <=> k \in 1..stored.len /\ talk[k] = "user" /\ i < k
      BY <2>1 DEF PromptsAfter
  <2> QED BY <2>4, <2>5
<1>2. F = PromptsAfter(i)
    BY <1>1
<1> QED BY <1>2 DEF Follower, NextPrompt

\* The second one.
LEMMA WindowIsPart ==
    ASSUME Transcript, NEW i \in Nat, NEW n \in Nat, NEW j
    PROVE  j \in Window(Turn(i), n) <=> /\ j \in 1..stored.len /\ talk[j] = "assistant"
                                        /\ i <= j /\ (n # 0 => j < n)
<1>1. j \in Window(Turn(i), n) <=>
         \E l \in 1..stored.len : /\ talk[l] = "assistant" /\ ~Before(Turn(l), Turn(i))
                                  /\ n # 0 => Before(Turn(l), Turn(n))
                                  /\ j = Turn(l).of
    BY RowsOfLines DEF Window
<1>2. stored.len \in Nat
    BY DEF Transcript
<1>3. \A l \in 1..stored.len : /\ Turn(l).of = l
                               /\ Before(Turn(l), Turn(i)) <=> l < i
                               /\ Before(Turn(l), Turn(n)) <=> l < n
    BY <1>2, OrderOfRows DEF Turn
<1> QED BY <1>1, <1>2, <1>3

\* Both together find what answers a prompt in the stored part of the transcript.
LEMMA WindowIsAnswers ==
    ASSUME Transcript, NEW i \in DOMAIN talk, talk[i] = "user"
    PROVE  Window(Turn(i), NextPrompt(i)) = Answers(i) \cap 1..stored.len
<1>1. /\ stored.len \in Nat /\ i \in Nat /\ stored.len <= Len(talk) /\ Len(talk) \in Nat
      /\ DOMAIN talk = 1..Len(talk)
    BY DEF Transcript
<1>2. ASSUME NEW j PROVE j \in Window(Turn(i), NextPrompt(i)) <=> j \in Answers(i) \cap 1..stored.len
  <2>1. NextPrompt(i) \in Nat
      BY <1>1, NextPromptIsNext
  <2>2. j \in Window(Turn(i), NextPrompt(i)) <=>
           /\ j \in 1..stored.len /\ talk[j] = "assistant"
           /\ i <= j /\ (NextPrompt(i) # 0 => j < NextPrompt(i))
      BY <1>1, <2>1, WindowIsPart
  <2>3. j \in Answers(i) \cap 1..stored.len <=>
           /\ j \in 1..stored.len /\ talk[j] = "assistant"
           /\ i < j /\ \A k \in (i + 1)..j : talk[k] # "user"
      BY <1>1 DEF Answers
  <2>4. ASSUME j \in 1..stored.len, i < j
        PROVE  (NextPrompt(i) # 0 => j < NextPrompt(i)) <=> \A k \in (i + 1)..j : talk[k] # "user"
    <3>1. CASE NextPrompt(i) = 0
      <4>1. \A k \in (i + 1)..stored.len : talk[k] # "user"
          BY <1>1, <3>1, NextPromptIsNext
      <4>2. \A k \in (i + 1)..j : k \in (i + 1)..stored.len
          BY <1>1, <2>4
      <4> QED BY <3>1, <4>1, <4>2
    <3>2. CASE NextPrompt(i) # 0
      <4>1. /\ NextPrompt(i) \in (i + 1)..stored.len /\ talk[NextPrompt(i)] = "user"
            /\ \A k \in (i + 1)..stored.len : talk[k] = "user" => NextPrompt(i) <= k
          BY <1>1, <3>2, NextPromptIsNext
      <4> QED BY <1>1, <2>1, <2>4, <3>2, <4>1
    <3> QED BY <3>1, <3>2
  <2>5. talk[j] = "assistant" /\ i <= j /\ j \in 1..stored.len => i < j
      BY <1>1
  <2>6. \A k \in 1..stored.len : i < k => i <= k
      BY <1>1
  <2>7. ASSUME j \in Window(Turn(i), NextPrompt(i)) PROVE j \in Answers(i) \cap 1..stored.len
      BY <2>2, <2>3, <2>4, <2>5, <2>7
  <2>8. ASSUME j \in Answers(i) \cap 1..stored.len PROVE j \in Window(Turn(i), NextPrompt(i))
    <3>1. /\ j \in 1..stored.len /\ talk[j] = "assistant" /\ i < j
          /\ \A k \in (i + 1)..j : talk[k] # "user"
        BY <2>3, <2>8
    <3>2. (NextPrompt(i) # 0 => j < NextPrompt(i)) /\ i <= j
        BY <2>4, <2>6, <3>1
    <3> QED BY <2>2, <3>1, <3>2
  <2> QED BY <2>7, <2>8
<1> QED BY <1>2

\* So does the reply that is read at once.
LEMMA ReplyIsAnswers ==
    ASSUME Transcript, NEW i \in 1..stored.len, talk[i] = "user"
    PROVE  Reply(Turn(i)) = Answers(i) \cap 1..stored.len
<1>1. i \in DOMAIN talk /\ i \in Nat
    BY DEF Transcript
<1> QED BY <1>1, FollowerIsNext, WindowIsAnswers DEF Reply

-----------------------------------------------------------------------------
(* A prompt's number. *)

UsersBefore(i) == {j \in 1..(i - 1) : talk[j] = "user"}

LEMMA OrdinalOrder ==
    ASSUME NEW i \in Nat \ {0}, NEW j \in Nat \ {0}, talk[i] = "user", i < j
    PROVE  Ordinal(i) \in Nat /\ Ordinal(j) \in Nat /\ Ordinal(i) < Ordinal(j)
<1>1. UsersBefore(i) \in SUBSET (1..(j - 1)) /\ UsersBefore(j) \in SUBSET (1..(j - 1))
    BY DEF UsersBefore
<1>2. UsersBefore(i) \subseteq UsersBefore(j) /\ i \in UsersBefore(j) /\ i \notin UsersBefore(i)
    BY DEF UsersBefore
<1>3. j - 1 \in Nat
    OBVIOUS
<1>4. /\ IsFiniteSet(UsersBefore(j))
      /\ Cardinality(UsersBefore(i)) \in Nat /\ Cardinality(UsersBefore(j)) \in Nat
    BY <1>1, <1>3, UpToIsFinite
<1>5. /\ Cardinality(UsersBefore(i)) <= Cardinality(UsersBefore(j))
      /\ Cardinality(UsersBefore(i)) # Cardinality(UsersBefore(j))
    BY <1>2, <1>4, FS_Subset
<1>6. Ordinal(i) = Cardinality(UsersBefore(i)) /\ Ordinal(j) = Cardinality(UsersBefore(j))
    BY DEF Ordinal, UsersBefore
<1> QED BY <1>4, <1>5, <1>6

LEMMA OrdinalIsUnique ==
    ASSUME talk \in Seq(Kinds), NEW i, NEW j, IsPrompt(i), IsPrompt(j), Ordinal(i) = Ordinal(j)
    PROVE  i = j
<1>1. i \in Nat \ {0} /\ j \in Nat \ {0} /\ talk[i] = "user" /\ talk[j] = "user"
    BY DEF IsPrompt
<1>2. CASE i < j
    BY <1>1, <1>2, OrdinalOrder
<1>3. CASE j < i
    BY <1>1, <1>3, OrdinalOrder
<1> QED BY <1>1, <1>2, <1>3

\* As many rows as prompts come before a prompt's row.
LEMMA RowsBefore ==
    ASSUME Transcript, NEW i \in 1..stored.len, talk[i] = "user"
    PROVE  Cardinality({v \in Users : Before(v, Turn(i))}) = Ordinal(i)
<1> DEFINE S == UsersBefore(i)
           T == {v \in Users : Before(v, Turn(i))}
           f == [j \in S |-> Turn(j)]
<1>1. stored.len \in Nat /\ i \in Nat /\ i - 1 \in Nat /\ S \in SUBSET (1..(i - 1))
    BY DEF Transcript, UsersBefore
<1>2. IsFiniteSet(S)
    BY <1>1, UpToIsFinite
<1>3. T = {Turn(j) : j \in S}
  <2>1. \A k \in 1..stored.len : Before(Turn(k), Turn(i)) <=> k < i
      BY <1>1, OrderOfRows
  <2>2. S = {k \in 1..stored.len : talk[k] = "user" /\ k < i}
      BY <1>1 DEF UsersBefore
  <2> HIDE DEF S
  <2> QED BY <2>1, <2>2, RowsOfLines
<1>4. \A j, k \in S : Turn(j) = Turn(k) => j = k
  <2>1. \A j : Turn(j).of = j
      BY DEF Turn
  <2> QED BY <2>1
<1>5. f \in Bijection(S, T)
  <2>1. f \in [S -> T]
      BY <1>3
  <2>2. \A j, k \in S : f[j] = f[k] => j = k
      BY <1>4
  <2>3. \A t \in T : \E j \in S : f[j] = t
      BY <1>3
  <2> HIDE DEF S, T, f
  <2> QED BY <2>1, <2>2, <2>3 DEF Bijection, Injection, Surjection, IsInjective
<1>6. ExistsBijection(S, T)
    BY <1>5 DEF ExistsBijection
<1>7. Cardinality(T) = Cardinality(S)
    BY <1>2, <1>6, FS_Bijection
<1> QED BY <1>7 DEF S, T, Ordinal, UsersBefore

-----------------------------------------------------------------------------
(* Where the two numberings agree. *)

Numbered == \A p \in DOMAIN prompts : prompts[p].seq = p - 1 /\ IsPrompt(prompts[p].of)

\* The row or rows that a prompt's number leads to are the prompt's own.
LEMMA AnchorIsThePrompt ==
    ASSUME Transcript, Aligned, Numbered, NEW p \in DOMAIN prompts,
           NEW u \in Anchor(prompts[p].seq)
    PROVE  prompts[p].of \in 1..stored.len /\ u = Turn(prompts[p].of)
<1>1. PICK i \in 1..stored.len : talk[i] = "user" /\ u = Turn(i)
  <2>1. u \in Users
      BY DEF Anchor
  <2> QED BY <2>1, RowsOfLines
<1>2. i \in DOMAIN talk /\ IsPrompt(i)
    BY <1>1 DEF Transcript, IsPrompt
<1>3. prompts[p].seq = p - 1 /\ Ordinal(prompts[p].of) = p - 1 /\ IsPrompt(prompts[p].of)
    BY DEF Numbered, Aligned
<1>4. Turn(i).seq = Ordinal(i)
    BY <1>1, <1>2 DEF Aligned
<1>5. u.seq = p - 1 \/ Cardinality({v \in Users : Before(v, u)}) = p - 1
    BY <1>3 DEF Anchor
<1>6. Cardinality({v \in Users : Before(v, u)}) = Ordinal(i)
    BY <1>1, RowsBefore
<1>7. Ordinal(i) = Ordinal(prompts[p].of)
    BY <1>1, <1>3, <1>4, <1>5, <1>6
<1>8. i = prompts[p].of
    BY <1>2, <1>3, <1>7, OrdinalIsUnique DEF Transcript
<1> QED BY <1>1, <1>8

\* What a prompt's number finds (_get_prompt_reply_with_conn) answers the prompt.
LEMMA PromptReplyAnswersIt ==
    ASSUME Transcript, Aligned, Numbered, NEW p \in DOMAIN prompts
    PROVE  PromptReply(p) \subseteq Answers(prompts[p].of)
<1>1. SUFFICES ASSUME NEW u \in Anchor(prompts[p].seq)
               PROVE  Reply(u) \subseteq Answers(prompts[p].of)
    BY DEF PromptReply
<1>2. prompts[p].of \in 1..stored.len /\ u = Turn(prompts[p].of)
    BY AnchorIsThePrompt
<1>3. talk[prompts[p].of] = "user"
    BY DEF Numbered, IsPrompt
<1> QED BY <1>2, <1>3, ReplyIsAnswers

\* matching_prompt finds a prompt of the session, or none; and it finds the
\* prompt of the round, or one with the same words.
LEMMA MatchingIsThePrompt ==
    ASSUME Transcript, prompts \in Seq(Prompt), Numbered,
           reading.known \in Nat, reading.known <= Len(prompts),
           NEW i \in 1..stored.len, talk[i] = "user"
    PROVE  LET p == Matching(Turn(i)) IN
           p # 0 => p \in DOMAIN prompts /\ (Aligned => SameText(prompts[p].of, i))
<1> DEFINE u == Turn(i)
           same == {p \in 1..reading.known : prompts[p].seq = u.seq}
           text == {p \in 1..reading.known : SameText(prompts[p].of, u.of)}
<1>1. same \in SUBSET Nat /\ text \in SUBSET Nat
    OBVIOUS
<1>2. Matching(u) = Least(IF same # {} THEN same ELSE text)
    BY DEF Matching
<1>3. u.of = i
    BY DEF Turn
<1>4. same \subseteq DOMAIN prompts /\ text \subseteq DOMAIN prompts
    OBVIOUS
<1>5. \A p \in same : Aligned => prompts[p].of = i
  <2>1. SUFFICES ASSUME NEW p \in same, Aligned PROVE prompts[p].of = i
      OBVIOUS
  <2>2. prompts[p].seq = p - 1 /\ Ordinal(prompts[p].of) = p - 1 /\ IsPrompt(prompts[p].of)
      BY <1>4, <2>1 DEF Numbered, Aligned
  <2>3. i \in DOMAIN talk /\ IsPrompt(i) /\ Turn(i).seq = Ordinal(i)
      BY <2>1 DEF Transcript, IsPrompt, Aligned
  <2> QED BY <2>2, <2>3, OrdinalIsUnique DEF Transcript
<1>6. Matching(u) # 0 => Matching(u) \in same \/ Matching(u) \in text
    BY <1>1, <1>2, LeastIsOfThem
<1> HIDE DEF u
<1>7. Matching(u) \in same => /\ Matching(u) \in DOMAIN prompts
                              /\ Aligned => SameText(prompts[Matching(u)].of, i)
    BY <1>4, <1>5 DEF SameText
<1>8. Matching(u) \in text => /\ Matching(u) \in DOMAIN prompts
                              /\ SameText(prompts[Matching(u)].of, i)
    BY <1>3, <1>4
<1> QED BY <1>6, <1>7, <1>8 DEF u

-----------------------------------------------------------------------------
(* A transcript that grows. *)

LEMMA GreatestIsOfThem ==
    ASSUME NEW n \in Nat, NEW S \in SUBSET (0..n), S # {}
    PROVE  Max(S) \in S /\ \A y \in S : y <= Max(S)
<1> DEFINE D == {n - x : x \in S}
<1>1. D \in SUBSET Nat /\ D # {}
  <2>1. \A x \in S : n - x \in Nat
      OBVIOUS
  <2>2. PICK x \in S : TRUE
      OBVIOUS
  <2>3. n - x \in D
      BY <2>2
  <2> QED BY <2>1, <2>3
<1>2. PICK d \in D : \A e \in D : <<e, d>> \notin OpToRel(<, Nat)
  <2> HIDE DEF D
  <2> QED BY <1>1, NatLessThanWellFounded, WFMin
<1>3. PICK x \in S : d = n - x
    OBVIOUS
<1>4. \A y \in S : y <= x
  <2> TAKE y \in S
  <2>1. n - y \in D /\ ~(n - y < d)
      BY <1>1, <1>2 DEF OpToRel
  <2> QED BY <1>3, <2>1
<1> QED BY <1>4 DEF Max

LEMMA Unchanged ==
    ASSUME Transcript, NEW k \in Kinds, talk' = Append(talk, k)
    PROVE  /\ DOMAIN talk \subseteq DOMAIN talk' /\ talk' \in Seq(Kinds)
           /\ Len(talk') = Len(talk) + 1
           /\ \A i \in DOMAIN talk : talk'[i] = talk[i]
    BY DEF Transcript

\* What was numbered keeps its number, and what answered a prompt still does.
LEMMA GrowthKeeps ==
    ASSUME Transcript, NEW k \in Kinds, talk' = Append(talk, k)
    PROVE  \A i \in DOMAIN talk :
              /\ Turn(i)'.seq = Turn(i).seq /\ Ordinal(i)' = Ordinal(i)
              /\ Answers(i) \subseteq Answers(i)'
              /\ \A n \in 0..Len(talk) : Answers(i)' \cap 1..n = Answers(i) \cap 1..n
<1> TAKE i \in DOMAIN talk
<1>1. Len(talk) \in Nat /\ DOMAIN talk = 1..Len(talk) /\ i \in 1..Len(talk)
    BY DEF Transcript
<1>2. /\ DOMAIN talk \subseteq DOMAIN talk' /\ Len(talk') = Len(talk) + 1
      /\ \A j \in DOMAIN talk : talk'[j] = talk[j]
    BY Unchanged
<1>3. \A n \in 0..Len(talk) : Messages(n)' = Messages(n)
  <2> TAKE n \in 0..Len(talk)
  <2>1. \A j \in 1..n : talk'[j] = talk[j]
      BY <1>1, <1>2
  <2> QED BY <2>1 DEF Messages
<1>4. \A j \in 1..Len(talk) : StartsRound(j)' <=> StartsRound(j)
  <2> TAKE j \in 1..Len(talk)
  <2>1. Messages(j - 1)' = Messages(j - 1) /\ talk'[j] = talk[j]
      BY <1>1, <1>2, <1>3
  <2>2. Messages(j - 1) # {} => Max(Messages(j - 1)) \in DOMAIN talk
    <3>1. Messages(j - 1) \in SUBSET (0..Len(talk)) /\ 0 \notin Messages(j - 1)
        BY <1>1 DEF Messages
    <3>2. ASSUME Messages(j - 1) # {} PROVE Max(Messages(j - 1)) \in Messages(j - 1)
        BY <1>1, <3>1, <3>2, GreatestIsOfThem
    <3> QED BY <1>1, <3>1, <3>2
  <2>3. Messages(j - 1) # {} => talk'[Max(Messages(j - 1))] = talk[Max(Messages(j - 1))]
      BY <1>2, <2>2
  <2> QED BY <2>1, <2>3 DEF StartsRound
<1>5. Turn(i)'.seq = Turn(i).seq
  <2>1. Messages(i)' = Messages(i) /\ Messages(i) \subseteq 1..Len(talk)
      BY <1>1, <1>3 DEF Messages
  <2>2. {j \in Messages(i)' : StartsRound(j)'} = {j \in Messages(i) : StartsRound(j)}
      BY <1>4, <2>1
  <2> QED BY <2>2 DEF Turn
<1>6. Ordinal(i)' = Ordinal(i)
  <2>1. {j \in 1..(i - 1) : talk'[j] = "user"} = {j \in 1..(i - 1) : talk[j] = "user"}
      BY <1>1, <1>2
  <2> QED BY <2>1 DEF Ordinal
<1>7. \A j \in 1..Len(talk) : j \in Answers(i)' <=> j \in Answers(i)
  <2> TAKE j \in 1..Len(talk)
  <2>1. j \in Answers(i)' <=> /\ i < j /\ talk'[j] = "assistant"
                              /\ \A l \in (i + 1)..j : talk'[l] # "user"
      BY <1>1, <1>2 DEF Answers
  <2>2. j \in Answers(i) <=> /\ i < j /\ talk[j] = "assistant"
                             /\ \A l \in (i + 1)..j : talk[l] # "user"
      BY <1>1 DEF Answers
  <2>3. \A l \in (i + 1)..j : talk'[l] = talk[l]
      BY <1>1, <1>2
  <2> QED BY <1>1, <1>2, <2>1, <2>2, <2>3
<1>8. Answers(i) \subseteq 1..Len(talk)
    BY <1>1 DEF Answers
<1> QED BY <1>1, <1>5, <1>6, <1>7, <1>8

-----------------------------------------------------------------------------
(* The inductive invariant. *)

\* Uploads store no line that was not written, and every upload counts.
Placed ==
    /\ stored.len <= Len(talk)
    /\ \A k \in DOMAIN posts : posts[k] <= Len(talk)
    /\ stored.gen + Len(posts) <= uploads

\* A summary s of prompt i and of answers to it.
Its(i, s) == s.of = i /\ s.reply \subseteq Answers(i)

\* The summary of what is stored of the round of prompt i.
Stored(i) == [of |-> i, reply |-> Answers(i) \cap 1..stored.len]

Summarised ==
    \A i \in Lines : summary[i] # Empty =>
        i \in 1..stored.len /\ talk[i] = "user" /\ summary[i] = Stored(i)

Analysed == \A a \in analysing : a[1] \in DOMAIN prompts /\ Its(prompts[a[1]].of, a[2])

\* What the summary job holds of a round: its row is still there only if the
\* reply it read is still the stored one.
OfRound(r) == r.kind \in {"listed", "anchored", "next", "round"}

RoundOk(r) == OfRound(r) =>
    /\ r.gen <= stored.gen
    /\ r.gen = stored.gen => r.of \in 1..stored.len
    /\ r.kind # "round" => r.from = r.of /\ r.reply = {}
    /\ r.kind = "next" => r.gen <= r.read
    /\ r.kind = "round" /\ r.gen = stored.gen => r.reply = Answers(r.of) \cap 1..stored.len
    /\ r.summary # Empty => Its(r.of, r.summary)
    /\ r.prompt # 0 => /\ r.prompt \in DOMAIN prompts
                       /\ Aligned => SameText(prompts[r.prompt].of, r.of)

\* What it holds of a prompt.
PromptOk(r) == ~OfRound(r) =>
    /\ r.prompt \in DOMAIN prompts /\ r.of = prompts[r.prompt].of /\ r.summary = Empty
    /\ r.kind = "window" /\ Aligned => r.from = r.of

\* The end of a window is the next prompt, until another upload is stored.
WindowOk(r) == r.kind \in {"next", "window"} =>
    /\ IsPrompt(r.from)
    /\ r.read <= stored.gen
    /\ r.read = stored.gen => r.until = NextPrompt(r.from)

\* A reply that was read came after the prompt, and answers it if it is not torn.
ReplyOk(r) == r.kind = "round" \/ (r.kind = "llm" /\ Aligned) =>
    /\ \A j \in r.reply : r.of < j
    /\ r.reply \subseteq Answers(r.of) \/ r.torn

JobOk(r) == IsPrompt(r.of) /\ RoundOk(r) /\ PromptOk(r) /\ WindowOk(r) /\ ReplyOk(r)

Jobs == /\ \A r \in job : JobOk(r)
        /\ reading.known <= Len(prompts)

Opened ==
    opened.kind = "prompt" => opened.id \in DOMAIN prompts /\ opened.of = prompts[opened.id].of

HistoryInv == HistoryTypeOK /\ Placed /\ Numbered /\ Summarised /\ Analysed /\ Jobs /\ Opened

LEMMA Shape ==
    ASSUME HistoryInv
    PROVE  /\ Transcript /\ Len(talk) \in Nat /\ DOMAIN talk = 1..Len(talk)
           /\ DOMAIN talk \subseteq Lines /\ 1..stored.len \subseteq DOMAIN talk
           /\ Len(prompts) \in Nat /\ DOMAIN prompts = 1..Len(prompts)
           /\ DOMAIN prompts \subseteq Ids
           /\ \A p \in DOMAIN prompts : prompts[p] \in Prompt
           /\ MaxLines \in Nat /\ MaxReports \in Nat /\ MaxUploads \in Nat /\ MaxJobs \in Nat
    BY HistoryAssumption
    DEF HistoryInv, HistoryTypeOK, Placed, Transcript, Ids, Lines

\* Stop's number (the last one and one more) is the number of rows too.
LEMMA StopsNumber ==
    ASSUME HistoryInv
    PROVE  Max({0} \cup {prompts[p].seq + 1 : p \in DOMAIN prompts}) = Len(prompts)
<1> DEFINE S == {0} \cup {prompts[p].seq + 1 : p \in DOMAIN prompts}
<1>1. Len(prompts) \in Nat /\ DOMAIN prompts = 1..Len(prompts)
    BY Shape
<1>2. \A p \in DOMAIN prompts : prompts[p].seq + 1 = p
    BY <1>1 DEF HistoryInv, Numbered
<1>3. S = 0..Len(prompts)
    BY <1>1, <1>2
<1> HIDE DEF S
<1>4. S # {} /\ S \in SUBSET (0..Len(prompts)) /\ Len(prompts) \in S
    BY <1>1, <1>3
<1>5. Max(S) \in S /\ \A y \in S : y <= Max(S)
    BY <1>1, <1>4, GreatestIsOfThem
<1>6. Max(S) = Len(prompts)
    BY <1>1, <1>3, <1>4, <1>5
<1> QED BY <1>6 DEF S

\* The transcript and the prompts rows only grow, never both at once.
LEMMA Growth ==
    ASSUME HistoryInv, [HistoryNext]_historyVars
    PROVE  /\ talk' = talk \/ (/\ prompts' = prompts /\ Len(talk) < MaxLines
                               /\ \E k \in Kinds : talk' = Append(talk, k))
           /\ prompts' = prompts \/ (/\ Len(prompts) < MaxReports
                                     /\ \E i : /\ IsPrompt(i)
                                               /\ prompts' = Append(prompts, [seq |-> Len(prompts), of |-> i]))
<1>1. Max({0} \cup {prompts[p].seq + 1 : p \in DOMAIN prompts}) = Len(prompts)
    BY StopsNumber
<1>2. CASE UNCHANGED historyVars
    BY <1>2 DEF historyVars
<1>3. CASE \E k \in Kinds : Write(k)
    BY <1>3 DEF Write
<1>4. ASSUME NEW i \in DOMAIN talk, UserPromptSubmit(i) \/ Stop(i)
      PROVE  /\ talk' = talk /\ Len(prompts) < MaxReports /\ IsPrompt(i)
             /\ prompts' = Append(prompts, [seq |-> Len(prompts), of |-> i])
    BY <1>1, <1>4 DEF UserPromptSubmit, Stop, Reportable, IsPrompt
<1>5. CASE \E a \in analysing : StopAnswered(a)
    BY <1>5 DEF StopAnswered
<1>6. CASE PostTranscript \/ \E k \in DOMAIN posts : ReplaceMessages(k)
    BY <1>6 DEF PostTranscript, ReplaceMessages
<1>7. CASE \/ StartJob \/ ReadCards \/ ListRounds \/ StopJob
           \/ \E r \in job : ReadAnchor(r) \/ ReadNext(r) \/ ReadUsers(r) \/ ReadReplies(r) \/ FinishRound(r)
    BY <1>7 DEF StartJob, ReadCards, ListRounds, StopJob, ReadAnchor, ReadNext, ReadUsers, ReadReplies,
                FinishRound
<1>8. CASE \E r \in TimelineCards : OpenCard(r)
    BY <1>8 DEF OpenCard
<1> QED BY <1>2, <1>3, <1>4, <1>5, <1>6, <1>7, <1>8 DEF HistoryNext

\* So what was true of a line or of a row stays true of it; and rows that are
\* numbered like their prompts now always were.
LEMMA Lasting ==
    ASSUME HistoryInv, [HistoryNext]_historyVars
    PROVE  /\ talk' \in Seq(Kinds) /\ Len(talk') <= MaxLines /\ Len(talk) <= Len(talk')
           /\ prompts' \in Seq(Prompt) /\ Len(prompts') <= MaxReports
           /\ \A i \in DOMAIN talk :
                 /\ i \in DOMAIN talk' /\ talk'[i] = talk[i]
                 /\ Answers(i) \subseteq Answers(i)'
                 /\ \A n \in 0..Len(talk) : Answers(i)' \cap 1..n = Answers(i) \cap 1..n
           /\ \A p \in DOMAIN prompts : p \in DOMAIN prompts' /\ prompts'[p] = prompts[p]
           /\ \A i : IsPrompt(i) => IsPrompt(i)'
           /\ Numbered'
           /\ Aligned' => Aligned
<1>1. /\ Transcript /\ Len(talk) \in Nat /\ DOMAIN talk = 1..Len(talk)
      /\ Len(prompts) \in Nat /\ DOMAIN prompts = 1..Len(prompts)
      /\ DOMAIN talk \subseteq Lines
      /\ \A p \in DOMAIN prompts : prompts[p] \in Prompt
    BY Shape
<1>2. talk \in Seq(Kinds) /\ Len(talk) <= MaxLines /\ MaxLines \in Nat /\ MaxReports \in Nat
      /\ prompts \in Seq(Prompt) /\ Len(prompts) <= MaxReports
    BY HistoryAssumption DEF HistoryInv, HistoryTypeOK
<1>3. /\ talk' \in Seq(Kinds) /\ Len(talk') <= MaxLines /\ Len(talk) <= Len(talk')
      /\ \A i \in DOMAIN talk :
            /\ i \in DOMAIN talk' /\ talk'[i] = talk[i]
            /\ Turn(i)'.seq = Turn(i).seq /\ Ordinal(i)' = Ordinal(i)
            /\ Answers(i) \subseteq Answers(i)'
            /\ \A n \in 0..Len(talk) : Answers(i)' \cap 1..n = Answers(i) \cap 1..n
  <2>1. CASE talk' = talk
    <3>1. \A i : Turn(i)' = Turn(i) /\ Ordinal(i)' = Ordinal(i) /\ Answers(i)' = Answers(i)
        BY <2>1 DEF Turn, Messages, StartsRound, Ordinal, Answers
    <3> QED BY <1>1, <1>2, <2>1, <3>1
  <2>2. CASE Len(talk) < MaxLines /\ \E k \in Kinds : talk' = Append(talk, k)
    <3>1. PICK k \in Kinds : talk' = Append(talk, k)
        BY <2>2
    <3>2. /\ DOMAIN talk \subseteq DOMAIN talk' /\ talk' \in Seq(Kinds)
          /\ Len(talk') = Len(talk) + 1 /\ \A i \in DOMAIN talk : talk'[i] = talk[i]
        BY <1>1, <3>1, Unchanged
    <3>3. \A i \in DOMAIN talk :
             /\ Turn(i)'.seq = Turn(i).seq /\ Ordinal(i)' = Ordinal(i)
             /\ Answers(i) \subseteq Answers(i)'
             /\ \A n \in 0..Len(talk) : Answers(i)' \cap 1..n = Answers(i) \cap 1..n
        BY <1>1, <3>1, GrowthKeeps
    <3>4. Len(talk') <= MaxLines /\ Len(talk) <= Len(talk')
        BY <1>1, <1>2, <2>2, <3>2
    <3> QED BY <3>2, <3>3, <3>4
  <2> QED BY <2>1, <2>2, Growth
<1>4. \A i : IsPrompt(i) => IsPrompt(i)'
    BY <1>3 DEF IsPrompt
<1>5. /\ prompts' \in Seq(Prompt) /\ Len(prompts') <= MaxReports
      /\ \A p \in DOMAIN prompts : p \in DOMAIN prompts' /\ prompts'[p] = prompts[p]
      /\ \A p \in DOMAIN prompts' : p \in DOMAIN prompts \/ (/\ prompts'[p].seq = p - 1
                                                             /\ IsPrompt(prompts'[p].of))
  <2>1. CASE prompts' = prompts
      BY <1>1, <1>2, <2>1
  <2>2. ASSUME NEW i, IsPrompt(i), Len(prompts) < MaxReports,
               prompts' = Append(prompts, [seq |-> Len(prompts), of |-> i])
        PROVE  /\ prompts' \in Seq(Prompt) /\ Len(prompts') <= MaxReports
               /\ \A p \in DOMAIN prompts : p \in DOMAIN prompts' /\ prompts'[p] = prompts[p]
               /\ \A p \in DOMAIN prompts' : p \in DOMAIN prompts \/ (/\ prompts'[p].seq = p - 1
                                                                      /\ IsPrompt(prompts'[p].of))
    <3>1. [seq |-> Len(prompts), of |-> i] \in Prompt
        BY <1>1, <2>2 DEF Prompt, IsPrompt
    <3>2. /\ Len(prompts') = Len(prompts) + 1 /\ prompts' \in Seq(Prompt)
          /\ \A p \in 1..Len(prompts) : prompts'[p] = prompts[p]
          /\ prompts'[Len(prompts) + 1] = [seq |-> Len(prompts), of |-> i]
        BY <1>1, <1>2, <2>2, <3>1
    <3> QED BY <1>1, <1>2, <2>2, <3>2
  <2> QED BY <2>1, <2>2, Growth
<1>6. Numbered'
    BY <1>4, <1>5 DEF HistoryInv, Numbered
<1>7. Aligned' => Aligned
    BY <1>1, <1>3, <1>5 DEF Aligned, HistoryInv, Numbered, IsPrompt
<1> QED BY <1>3, <1>4, <1>5, <1>6, <1>7

\* Who writes what.
LEMMA Writers ==
    ASSUME [HistoryNext]_historyVars
    PROVE  /\ <<posts, uploads>>' = <<posts, uploads>> \/ PostTranscript
                 \/ \E k \in DOMAIN posts : ReplaceMessages(k)
           /\ stored' = stored \/ \E k \in DOMAIN posts : ReplaceMessages(k)
           /\ summary' = summary \/ (\E k \in DOMAIN posts : ReplaceMessages(k))
                 \/ \E r \in job : FinishRound(r)
           /\ card' = card \/ (\E a \in analysing : StopAnswered(a)) \/ \E r \in job : FinishRound(r)
           /\ analysing' \subseteq analysing \/ \E i \in DOMAIN talk : Stop(i)
           /\ job' \subseteq job \/ ListRounds
                 \/ \E r \in job : ReadAnchor(r) \/ ReadNext(r) \/ ReadUsers(r) \/ ReadReplies(r)
           /\ reading' \in {reading, Unread} \/ StartJob \/ ReadCards
           /\ jobs' = jobs \/ StartJob
           /\ opened' = opened \/ \E r \in TimelineCards : OpenCard(r)
<1>2. CASE UNCHANGED historyVars
    BY <1>2 DEF historyVars
<1>3. CASE (\E k \in Kinds : Write(k)) \/ PostTranscript
    BY <1>3 DEF Write, PostTranscript
<1>4. CASE \E i \in DOMAIN talk : UserPromptSubmit(i)
    BY <1>4 DEF UserPromptSubmit
<1>5. CASE \E i \in DOMAIN talk : Stop(i)
    BY <1>5 DEF Stop
<1>6. CASE \E a \in analysing : StopAnswered(a)
    BY <1>6 DEF StopAnswered
<1>7. CASE \E k \in DOMAIN posts : ReplaceMessages(k)
    BY <1>7 DEF ReplaceMessages
<1>8. CASE StartJob \/ ReadCards \/ ListRounds \/ StopJob
    BY <1>8 DEF StartJob, ReadCards, ListRounds, StopJob
<1>9. CASE \E r \in job : ReadAnchor(r) \/ ReadNext(r) \/ ReadUsers(r) \/ ReadReplies(r)
    BY <1>9 DEF ReadAnchor, ReadNext, ReadUsers, ReadReplies
<1>10. CASE \E r \in job : FinishRound(r)
    BY <1>10 DEF FinishRound
<1>11. CASE \E r \in TimelineCards : OpenCard(r)
    BY <1>11 DEF OpenCard
<1> QED BY <1>2, <1>3, <1>4, <1>5, <1>6, <1>7, <1>8, <1>9, <1>10, <1>11 DEF HistoryNext

LEMMA OneLess ==
    ASSUME NEW S, NEW s \in Seq(S), NEW k \in DOMAIN s
    PROVE  LET t == SubSeq(s, 1, k - 1) \o SubSeq(s, k + 1, Len(s)) IN
           /\ t \in Seq(S) /\ Len(t) = Len(s) - 1
           /\ \A j \in DOMAIN t : \E i \in DOMAIN s : t[j] = s[i]
<1> DEFINE a == SubSeq(s, 1, k - 1)
           b == SubSeq(s, k + 1, Len(s))
<1>1. /\ a \in Seq(S) /\ Len(a) = k - 1
      /\ \A j \in 1..(k - 1) : a[j] = s[j]
    OBVIOUS
<1>2. /\ b \in Seq(S) /\ Len(b) = Len(s) - k
      /\ \A j \in 1..(Len(s) - k) : b[j] = s[k + j]
    OBVIOUS
<1>3. Len(s) \in Nat /\ DOMAIN s = 1..Len(s) /\ k \in 1..Len(s)
    OBVIOUS
<1> HIDE DEF a, b
<1>4. a \o b \in Seq(S) /\ Len(a \o b) = Len(s) - 1 /\ DOMAIN (a \o b) = 1..(Len(s) - 1)
  <2>1. a \in Seq(S) /\ b \in Seq(S)
      BY <1>1, <1>2
  <2>2. /\ a \o b \in Seq(S) /\ Len(a \o b) = Len(a) + Len(b)
        /\ DOMAIN (a \o b) = 1..Len(a \o b)
      BY <2>1
  <2>3. Len(a) + Len(b) = Len(s) - 1
      BY <1>1, <1>2, <1>3
  <2> QED BY <2>2, <2>3
<1>5. \A j \in 1..(Len(s) - 1) : (a \o b)[j] = IF j < k THEN a[j] ELSE b[j - (k - 1)]
  <2>1. a \in Seq(S) /\ b \in Seq(S)
      BY <1>1, <1>2
  <2>2. \A j \in 1..(Len(a) + Len(b)) :
           (a \o b)[j] = IF j <= Len(a) THEN a[j] ELSE b[j - Len(a)]
      BY <2>1
  <2>3. Len(a) = k - 1 /\ Len(b) = Len(s) - k
      BY <1>1, <1>2
  <2>4. Len(a) + Len(b) = Len(s) - 1
      BY <1>3, <2>3
  <2>5. \A j \in 1..(Len(s) - 1) : j <= Len(a) <=> j < k
      BY <1>3, <2>3
  <2> QED BY <2>2, <2>3, <2>4, <2>5
<1>6. ASSUME NEW j \in 1..(Len(s) - 1) PROVE \E i \in DOMAIN s : (a \o b)[j] = s[i]
  <2>1. CASE j < k
      BY <1>1, <1>3, <1>5, <2>1
  <2>2. CASE ~(j < k)
    <3>1. j - (k - 1) \in 1..(Len(s) - k) /\ k + (j - (k - 1)) = j + 1 /\ j + 1 \in DOMAIN s
        BY <1>3, <2>2
    <3>2. (a \o b)[j] = b[j - (k - 1)]
        BY <1>5, <2>2
    <3>3. b[j - (k - 1)] = s[j + 1]
        BY <1>2, <3>1
    <3> QED BY <3>1, <3>2, <3>3
  <2> QED BY <2>1, <2>2
<1> QED BY <1>4, <1>6 DEF a, b

\* The types of the variables of the uploads.
StoredTypes == /\ stored \in [len : 0..MaxLines, gen : 0..MaxUploads]
               /\ posts \in Seq(Lines) /\ uploads \in 0..MaxUploads

LEMMA StoredStep == HistoryInv /\ [HistoryNext]_historyVars => StoredTypes' /\ Placed'
<1> SUFFICES ASSUME HistoryInv, [HistoryNext]_historyVars PROVE StoredTypes' /\ Placed'
    OBVIOUS
<1>1. /\ StoredTypes /\ Placed /\ talk \in Seq(Kinds) /\ Len(talk) <= MaxLines
      /\ MaxLines \in Nat /\ MaxUploads \in Nat
    BY HistoryAssumption DEF HistoryInv, HistoryTypeOK, StoredTypes
<1>2. Len(talk) <= Len(talk') /\ Len(talk) \in Nat /\ Len(talk') \in Nat
      /\ Len(posts) \in Nat /\ stored.len \in Nat /\ stored.gen \in Nat
      /\ \A k \in DOMAIN posts : posts[k] \in Nat
    BY <1>1, Lasting DEF StoredTypes, Lines
<1>3. CASE UNCHANGED <<posts, uploads, stored>>
    BY <1>1, <1>2, <1>3 DEF StoredTypes, Placed
<1>4. CASE PostTranscript
  <2>1. /\ posts' = Append(posts, Len(talk)) /\ uploads' = uploads + 1 /\ uploads < MaxUploads
        /\ stored' = stored /\ talk' = talk /\ Len(talk) \in Lines
      BY <1>1, <1>2, <1>4 DEF PostTranscript, Lines
  <2>2. Len(posts') = Len(posts) + 1 /\ posts' \in Seq(Lines)
        /\ \A k \in DOMAIN posts' : \/ k \in DOMAIN posts /\ posts'[k] = posts[k]
                                    \/ posts'[k] = Len(talk)
      BY <1>1, <2>1 DEF StoredTypes
  <2> QED BY <1>1, <1>2, <2>1, <2>2 DEF StoredTypes, Placed
<1>5. ASSUME NEW k \in DOMAIN posts, ReplaceMessages(k) PROVE StoredTypes' /\ Placed'
  <2>1. /\ posts' = SubSeq(posts, 1, k - 1) \o SubSeq(posts, k + 1, Len(posts))
        /\ stored' = [len |-> posts[k], gen |-> stored.gen + 1]
        /\ uploads' = uploads /\ talk' = talk
      BY <1>5 DEF ReplaceMessages
  <2>2. /\ posts' \in Seq(Lines) /\ Len(posts') = Len(posts) - 1
        /\ \A j \in DOMAIN posts' : \E i \in DOMAIN posts : posts'[j] = posts[i]
      BY <1>1, <2>1, OneLess DEF StoredTypes
  <2>3. posts[k] \in 0..MaxLines /\ posts[k] <= Len(talk)
      BY <1>1 DEF StoredTypes, Placed, Lines
  <2>4. stored.gen + 1 + Len(posts') <= uploads /\ stored.gen + 1 \in 0..MaxUploads
      BY <1>1, <1>2, <2>2 DEF StoredTypes, Placed
  <2> QED BY <1>1, <1>2, <2>1, <2>2, <2>3, <2>4 DEF StoredTypes, Placed
<1>6. stored' = stored \/ \E k \in DOMAIN posts : ReplaceMessages(k)
    BY Writers
<1>7. <<posts, uploads>>' = <<posts, uploads>> \/ PostTranscript
         \/ \E k \in DOMAIN posts : ReplaceMessages(k)
    BY Writers
<1> QED BY <1>3, <1>4, <1>5, <1>6, <1>7

\* A summary survives an upload only if it stores the same lines; the job
\* writes to the row that it read, or to none.
LEMMA SummarisedStep ==
    HistoryInv /\ [HistoryNext]_historyVars => (summary \in [Lines -> Summary] /\ Summarised)'
<1> SUFFICES ASSUME HistoryInv, [HistoryNext]_historyVars
             PROVE  summary' \in [Lines -> Summary] /\ Summarised'
    OBVIOUS
<1>1. /\ summary \in [Lines -> Summary] /\ Summarised /\ StoredTypes /\ Placed
      /\ MaxLines \in Nat
    BY HistoryAssumption DEF HistoryInv, HistoryTypeOK, StoredTypes
<1>2. /\ DOMAIN talk = 1..Len(talk) /\ Len(talk) \in Nat /\ stored.len \in Nat
      /\ stored.len <= Len(talk) /\ DOMAIN talk \subseteq Lines
    BY Shape DEF Transcript
<1>3. \A i \in DOMAIN talk :
         /\ talk'[i] = talk[i]
         /\ \A n \in 0..Len(talk) : Answers(i)' \cap 1..n = Answers(i) \cap 1..n
    BY Lasting
<1>4. Empty \in Summary
    BY <1>1 DEF Empty, Summary
<1>5. stored'.len = stored.len =>
         \A i \in Lines : i \in 1..stored.len => Stored(i)' = Stored(i) /\ talk'[i] = talk[i]
  <2>1. SUFFICES ASSUME stored'.len = stored.len, NEW i \in 1..stored.len
                 PROVE  Stored(i)' = Stored(i) /\ talk'[i] = talk[i]
      OBVIOUS
  <2>2. i \in DOMAIN talk /\ stored.len \in 0..Len(talk)
      BY <1>2
  <2>3. Answers(i)' \cap 1..stored.len = Answers(i) \cap 1..stored.len /\ talk'[i] = talk[i]
      BY <1>3, <2>2
  <2> QED BY <2>1, <2>3 DEF Stored
<1>6. CASE summary' = summary /\ stored'.len = stored.len
    BY <1>1, <1>5, <1>6 DEF Summarised
<1>7. ASSUME NEW k \in DOMAIN posts, ReplaceMessages(k)
      PROVE  summary' \in [Lines -> Summary] /\ Summarised'
  <2>1. /\ stored'.len = posts[k]
        /\ summary' = IF posts[k] = stored.len THEN summary ELSE [i \in Lines |-> Empty]
      BY <1>7 DEF ReplaceMessages
  <2>2. CASE posts[k] # stored.len
      BY <1>4, <2>1, <2>2 DEF Summarised
  <2> QED BY <1>6, <2>1, <2>2
<1>8. ASSUME NEW r \in job, FinishRound(r), stored' = stored
      PROVE  summary' \in [Lines -> Summary] /\ Summarised'
  <2>1. r \in Round /\ IsPrompt(r.of) /\ RoundOk(r)
      BY DEF HistoryInv, HistoryTypeOK, Jobs, JobOk
  <2>2. CASE summary' = summary
      BY <1>6, <1>8, <2>2
  <2>3. CASE /\ r.kind = "round" /\ r.gen = stored.gen
             /\ summary' = [summary EXCEPT ![r.of] = [of |-> r.of, reply |-> r.reply]]
    <3>1. r.of \in 1..stored.len /\ r.reply = Answers(r.of) \cap 1..stored.len
        BY <2>1, <2>3 DEF RoundOk, OfRound
    <3>2. [of |-> r.of, reply |-> r.reply] = Stored(r.of)
        BY <3>1 DEF Stored
    <3>3. Stored(r.of) \in Summary /\ r.of \in Lines /\ talk[r.of] = "user"
        BY <1>1, <2>1, <3>2 DEF Round, Summary, Lines, IsPrompt
    <3>4. summary' = [summary EXCEPT ![r.of] = Stored(r.of)]
        BY <2>3, <3>2
    <3>5. \A i \in Lines : summary'[i] = IF i = r.of THEN Stored(r.of) ELSE summary[i]
        BY <1>1, <3>3, <3>4
    <3>6. summary' \in [Lines -> Summary]
        BY <1>1, <3>3, <3>4
    <3>7. Summarised'
        BY <1>1, <1>5, <1>8, <3>1, <3>3, <3>5 DEF Summarised
    <3> QED BY <3>6, <3>7
  <2> QED BY <1>8, <2>2, <2>3 DEF FinishRound
<1>9. /\ stored' = stored \/ \E k \in DOMAIN posts : ReplaceMessages(k)
      /\ summary' = summary \/ (\E k \in DOMAIN posts : ReplaceMessages(k))
            \/ \E r \in job : FinishRound(r)
    BY Writers
<1> QED BY <1>6, <1>7, <1>8, <1>9

\* What the LLM is given for a Stop is the prompt of its row and answers to it.
LEMMA AnalysedStep ==
    HistoryInv /\ [HistoryNext]_historyVars => (analysing \subseteq (Ids \X Summary) /\ Analysed)'
<1> SUFFICES ASSUME HistoryInv, [HistoryNext]_historyVars
             PROVE  analysing' \subseteq (Ids \X Summary) /\ Analysed'
    OBVIOUS
<1>1. analysing \subseteq (Ids \X Summary) /\ Analysed /\ Numbered
    BY DEF HistoryInv, HistoryTypeOK
<1>2. /\ \A i \in DOMAIN talk : Answers(i) \subseteq Answers(i)'
      /\ \A p \in DOMAIN prompts : p \in DOMAIN prompts' /\ prompts'[p] = prompts[p]
      /\ prompts' \in Seq(Prompt) /\ Len(prompts') <= MaxReports
    BY Lasting
<1>3. \A p \in DOMAIN prompts : prompts[p].of \in DOMAIN talk
    BY <1>1 DEF Numbered, IsPrompt
<1>4. \A a \in analysing : a[1] \in DOMAIN prompts' /\ Its(prompts[a[1]].of, a[2])'
    BY <1>1, <1>2, <1>3 DEF Analysed, Its
<1>5. CASE analysing' \subseteq analysing
    BY <1>1, <1>2, <1>4, <1>5 DEF Analysed, Its
<1>6. ASSUME NEW i \in DOMAIN talk, Stop(i)
      PROVE  analysing' \subseteq (Ids \X Summary) /\ Analysed'
  <2>1. PICK n \in i..Len(talk) :
           analysing' = analysing \cup {<<Len(prompts'), [of |-> i, reply |-> Answers(i) \cap 1..n]>>}
      BY <1>6 DEF Stop
  <2>2. \E s : prompts' = Append(prompts, [seq |-> s, of |-> i]) /\ talk' = talk
      BY <1>6 DEF Stop
  <2>3. /\ Len(prompts) \in Nat /\ DOMAIN talk = 1..Len(talk) /\ DOMAIN talk \subseteq Lines
        /\ Len(talk) \in Nat
      BY Shape
  <2>4. /\ Len(prompts') = Len(prompts) + 1 /\ prompts'[Len(prompts')].of = i
        /\ Len(prompts') \in DOMAIN prompts' /\ Len(prompts') \in Ids
      BY <1>2, <2>2, <2>3 DEF Ids
  <2>5. [of |-> i, reply |-> Answers(i) \cap 1..n] \in Summary
    <3>1. Answers(i) \subseteq DOMAIN talk
        BY <2>3 DEF Answers
    <3> QED BY <2>3, <3>1 DEF Summary, Lines
  <2>7. ASSUME NEW a \in analysing' PROVE a[1] \in DOMAIN prompts' /\ Its(prompts[a[1]].of, a[2])'
    <3>1. CASE a \in analysing
        BY <1>4, <3>1
    <3>2. CASE a = <<Len(prompts'), [of |-> i, reply |-> Answers(i) \cap 1..n]>>
      <4>1. a[1] = Len(prompts') /\ a[2] = [of |-> i, reply |-> Answers(i) \cap 1..n]
          BY <3>2
      <4>2. Answers(i) \subseteq Answers(i)'
          BY <1>2
      <4> QED BY <2>4, <4>1, <4>2 DEF Its
    <3> QED BY <2>1, <3>1, <3>2
  <2>8. Analysed'
      BY <2>7 DEF Analysed
  <2>9. <<Len(prompts'), [of |-> i, reply |-> Answers(i) \cap 1..n]>> \in Ids \X Summary
      BY <2>4, <2>5
  <2> QED BY <1>1, <2>1, <2>8, <2>9
<1>7. analysing' \subseteq analysing \/ \E i \in DOMAIN talk : Stop(i)
    BY Writers
<1> QED BY <1>5, <1>6, <1>7

LEMMA CardStep == HistoryInv /\ [HistoryNext]_historyVars => (card \in [Ids -> Summary])'
<1> SUFFICES ASSUME HistoryInv, [HistoryNext]_historyVars PROVE card' \in [Ids -> Summary]
    OBVIOUS
<1>1. card \in [Ids -> Summary] /\ analysing \subseteq (Ids \X Summary) /\ job \subseteq Round
    BY DEF HistoryInv, HistoryTypeOK
<1>2. \A r \in Round : r.summary \in Summary /\ [of |-> r.of, reply |-> r.reply] \in Summary
                       /\ (r.prompt # 0 => r.prompt \in Ids)
    BY HistoryAssumption DEF Round, Summary, Lines, Ids
<1>3. ASSUME NEW a \in analysing, StopAnswered(a) PROVE card' \in [Ids -> Summary]
  <2>1. Empty \in Summary
      BY HistoryAssumption DEF Empty, Summary
  <2> QED BY <1>1, <1>3, <2>1 DEF StopAnswered
<1>4. ASSUME NEW r \in job, FinishRound(r) PROVE card' \in [Ids -> Summary]
  <2>1. \/ card' = card
        \/ r.prompt # 0 /\ \E s \in Summary : card' = [card EXCEPT ![r.prompt] = s]
      BY <1>1, <1>2, <1>4 DEF FinishRound, SetCard
  <2> QED BY <1>1, <1>2, <2>1
<1> QED BY <1>1, <1>3, <1>4, Writers

-----------------------------------------------------------------------------
(* The summary job. *)

\* What a window finds is stored.
LEMMA WindowsAreStored ==
    ASSUME HistoryInv, NEW i \in Nat, NEW n \in Nat
    PROVE  Window(Turn(i), n) \subseteq Lines
<1>1. Transcript /\ 1..stored.len \subseteq Lines
    BY Shape
<1> QED BY <1>1, WindowIsPart

LEMMA FollowersAreStored ==
    ASSUME HistoryInv, NEW i \in Nat
    PROVE  Follower(Turn(i)) = NextPrompt(i) /\ NextPrompt(i) \in 0..MaxLines
<1>1. Transcript /\ stored.len \in Nat /\ stored.len <= MaxLines /\ MaxLines \in Nat
    BY Shape DEF Transcript, HistoryInv, HistoryTypeOK
<1>2. NextPrompt(i) = 0 \/ NextPrompt(i) \in (i + 1)..stored.len
    BY <1>1, NextPromptIsNext
<1>3. NextPrompt(i) \in 0..MaxLines
    BY <1>1, <1>2
<1> QED BY <1>1, <1>3, FollowerIsNext

\* What the job has read stays as it was read.
LEMMA JobKept ==
    ASSUME HistoryInv, [HistoryNext]_historyVars, NEW r \in Round, JobOk(r)
    PROVE  JobOk(r)'
<1>1. /\ IsPrompt(r.of) /\ RoundOk(r) /\ PromptOk(r) /\ WindowOk(r) /\ ReplyOk(r) /\ StoredTypes
      /\ MaxUploads \in Nat
    BY HistoryAssumption DEF HistoryInv, HistoryTypeOK, JobOk, StoredTypes
<1>2. /\ \A i \in DOMAIN talk :
            /\ talk'[i] = talk[i]
            /\ Answers(i) \subseteq Answers(i)'
            /\ \A n \in 0..Len(talk) : Answers(i)' \cap 1..n = Answers(i) \cap 1..n
      /\ \A p \in DOMAIN prompts : p \in DOMAIN prompts' /\ prompts'[p] = prompts[p]
      /\ \A i : IsPrompt(i) => IsPrompt(i)'
      /\ Aligned' => Aligned
    BY Lasting
<1>3. /\ stored.len \in 0..Len(talk) /\ stored.len \in Nat /\ stored.gen \in Nat /\ r.gen \in Nat
      /\ r.read \in Nat /\ r.of \in DOMAIN talk /\ DOMAIN talk = 1..Len(talk)
    BY <1>1, Shape DEF StoredTypes, Transcript, Round, IsPrompt
<1>4. stored' = stored \/ stored'.gen = stored.gen + 1
  <2>1. \A k : ReplaceMessages(k) => stored'.gen = stored.gen + 1
      BY DEF ReplaceMessages
  <2> QED BY <2>1, Writers
<1>5. Answers(r.of)' \cap 1..stored.len = Answers(r.of) \cap 1..stored.len
      /\ Answers(r.of) \subseteq Answers(r.of)'
    BY <1>2, <1>3
<1>6. r.gen <= stored.gen =>
         /\ r.gen <= stored'.gen
         /\ r.gen = stored'.gen => stored' = stored
    BY <1>3, <1>4
<1>7. RoundOk(r)'
    BY <1>1, <1>2, <1>5, <1>6 DEF RoundOk, OfRound, Its, SameText
<1>8. PromptOk(r)'
    BY <1>1, <1>2 DEF PromptOk, OfRound
<1>9. WindowOk(r)'
  <2>1. SUFFICES ASSUME r.kind \in {"next", "window"}
                 PROVE  /\ IsPrompt(r.from)' /\ r.read <= stored'.gen
                        /\ r.read = stored'.gen => r.until = NextPrompt(r.from)'
      BY DEF WindowOk
  <2>2. IsPrompt(r.from) /\ r.read <= stored.gen /\ (r.read = stored.gen => r.until = NextPrompt(r.from))
      BY <1>1, <2>1 DEF WindowOk
  <2>3. r.read <= stored'.gen /\ (r.read = stored'.gen => stored' = stored /\ r.read = stored.gen)
      BY <1>3, <1>4, <2>2
  <2>4. stored' = stored => PromptsAfter(r.from)' = PromptsAfter(r.from)
    <3>1. \A k \in (r.from + 1)..stored.len : talk'[k] = talk[k]
        BY <1>2, <1>3, <2>2 DEF IsPrompt
    <3> QED BY <3>1 DEF PromptsAfter
  <2>5. stored' = stored => NextPrompt(r.from)' = NextPrompt(r.from)
      BY <2>4 DEF NextPrompt
  <2> QED BY <1>2, <2>2, <2>3, <2>5
<1>10. ReplyOk(r)'
    BY <1>1, <1>2, <1>5 DEF ReplyOk
<1> QED BY <1>1, <1>2, <1>7, <1>8, <1>9, <1>10 DEF JobOk

\* A listed round has its row, its summary and its prompt.
LEMMA ListedIsOk ==
    ASSUME HistoryInv, NEW u \in Users, NEW r, r = Listed(u)
    PROVE  r \in Round /\ JobOk(r)
<1>1. PICK i \in 1..stored.len : talk[i] = "user" /\ u = Turn(i)
    BY Shape, RowsOfLines
<1>2. u.of = i /\ i \in DOMAIN talk /\ i \in Lines /\ i \in 0..MaxLines
    BY <1>1, Shape DEF Turn, Lines
<1>3. reading.known \in Nat /\ reading.known <= Len(prompts) /\ prompts \in Seq(Prompt) /\ Numbered
    BY DEF HistoryInv, HistoryTypeOK, Reading, Jobs
<1>4. Matching(u) # 0 => /\ Matching(u) \in DOMAIN prompts
                         /\ Aligned => SameText(prompts[Matching(u)].of, i)
    BY <1>1, <1>3, Shape, MatchingIsThePrompt
<1>5. Matching(u) \in 0..MaxReports
    BY <1>4, Shape DEF Ids
<1>6. summary[i] \in Summary /\ stored.gen \in Nat
      /\ (summary[i] # Empty => summary[i] = Stored(i))
    BY <1>2 DEF HistoryInv, HistoryTypeOK, Summarised
<1>7. /\ r.kind = "listed" /\ r.gen = stored.gen /\ r.of = i /\ r.prompt = Matching(u)
      /\ r.summary = summary[i] /\ r.from = i /\ r.reply = {}
    BY <1>2 DEF Listed
<1>8. r \in Round
  <2>1. 0 \in 0..MaxLines
      BY Shape
  <2> QED BY <1>2, <1>5, <1>6, <2>1 DEF Round, Listed
<1>9. summary[i] # Empty => Its(i, summary[i])
    BY <1>6 DEF Stored, Its
<1>10. RoundOk(r)
    BY <1>1, <1>4, <1>6, <1>7, <1>9 DEF RoundOk
<1>11. PromptOk(r) /\ WindowOk(r) /\ ReplyOk(r)
    BY <1>7 DEF PromptOk, OfRound, WindowOk, ReplyOk
<1> QED BY <1>1, <1>2, <1>7, <1>8, <1>10, <1>11 DEF JobOk, IsPrompt

LEMMA UnansweredIsOk ==
    ASSUME HistoryInv, NEW p \in 1..reading.known, NEW r, r = Unanswered(p)
    PROVE  r \in Round /\ JobOk(r)
<1>1. p \in DOMAIN prompts
    BY Shape DEF HistoryInv, HistoryTypeOK, Reading, Jobs
<1>2. prompts[p].of \in Lines /\ p \in 0..MaxReports /\ IsPrompt(prompts[p].of)
    BY <1>1, Shape DEF Prompt, Ids, HistoryInv, Numbered
<1>3. Empty \in Summary /\ 0 \in 0..MaxLines
    BY Shape DEF Empty, Summary
<1>4. r \in Round
    BY <1>2, <1>3 DEF Round, Unanswered
<1>5. r.kind = "prompt" /\ r.of = prompts[p].of /\ r.prompt = p /\ r.summary = Empty
    BY DEF Unanswered
<1> QED BY <1>1, <1>2, <1>4, <1>5 DEF JobOk, RoundOk, PromptOk, OfRound, WindowOk, ReplyOk

\* The steps that read a reply.
LEMMA AnchoredIsOk ==
    ASSUME HistoryInv, NEW r \in Round, JobOk(r), r.kind = "listed", NEW n,
           n = [r EXCEPT !.kind = IF r.gen = stored.gen THEN "anchored" ELSE "round"]
    PROVE  n \in Round /\ JobOk(n)
<1>1. /\ n \in Round /\ n.kind \in {"anchored", "round"}
      /\ n.kind = "round" => r.gen # stored.gen
    BY DEF Round
<1>2. /\ n.gen = r.gen /\ n.of = r.of /\ n.from = r.from /\ n.reply = r.reply
      /\ n.summary = r.summary /\ n.prompt = r.prompt
    BY DEF Round
<1>3. IsPrompt(r.of) /\ RoundOk(r) /\ r.reply = {}
    BY DEF JobOk, RoundOk, OfRound
<1>4. RoundOk(n)
    BY <1>1, <1>2, <1>3 DEF RoundOk, OfRound
<1>5. PromptOk(n) /\ WindowOk(n) /\ ReplyOk(n)
    BY <1>1, <1>2, <1>3 DEF PromptOk, OfRound, WindowOk, ReplyOk
<1> QED BY <1>1, <1>2, <1>3, <1>4, <1>5 DEF JobOk

LEMMA NextIsOk ==
    ASSUME HistoryInv, NEW r \in Round, JobOk(r), r.kind = "anchored", NEW n,
           n = [r EXCEPT !.kind = "next", !.until = Follower(Turn(r.from)), !.read = stored.gen]
    PROVE  n \in Round /\ JobOk(n)
<1>1. IsPrompt(r.of) /\ RoundOk(r) /\ r.from = r.of /\ r.of \in Nat
    BY Shape DEF JobOk, RoundOk, OfRound, IsPrompt
<1>2. Follower(Turn(r.from)) = NextPrompt(r.from) /\ NextPrompt(r.from) \in 0..MaxLines
    BY <1>1, FollowersAreStored
<1>3. stored.gen \in Nat
    BY DEF HistoryInv, HistoryTypeOK
<1>4. n \in Round
    BY <1>2, <1>3 DEF Round
<1>5. /\ n.kind = "next" /\ n.until = NextPrompt(r.from) /\ n.read = stored.gen
      /\ n.gen = r.gen /\ n.of = r.of /\ n.from = r.from /\ n.reply = r.reply
      /\ n.summary = r.summary /\ n.prompt = r.prompt
    BY <1>2 DEF Round
<1>6. RoundOk(n)
    BY <1>1, <1>5 DEF RoundOk, OfRound
<1>7. WindowOk(n)
    BY <1>1, <1>3, <1>5 DEF WindowOk
<1>8. PromptOk(n) /\ ReplyOk(n)
    BY <1>5 DEF PromptOk, OfRound, ReplyOk
<1> QED BY <1>1, <1>4, <1>5, <1>6, <1>7, <1>8 DEF JobOk

LEMMA WindowedIsOk ==
    ASSUME HistoryInv, NEW r \in Round, JobOk(r), r.kind = "prompt",
           NEW u \in Anchor(prompts[r.prompt].seq), NEW n,
           n = [r EXCEPT !.kind = "window", !.from = u.of, !.until = Follower(u), !.read = stored.gen]
    PROVE  n \in Round /\ JobOk(n)
<1>1. IsPrompt(r.of) /\ PromptOk(r) /\ r.prompt \in DOMAIN prompts
    BY DEF JobOk, PromptOk, OfRound
<1>2. PICK i \in 1..stored.len : talk[i] = "user" /\ u = Turn(i)
  <2>1. u \in Users
      BY DEF Anchor
  <2> QED BY <2>1, Shape, RowsOfLines
<1>3. u.of = i /\ i \in Nat /\ i \in 0..MaxLines /\ IsPrompt(i)
    BY <1>2, Shape DEF Turn, Lines, IsPrompt
<1>4. Follower(u) = NextPrompt(i) /\ NextPrompt(i) \in 0..MaxLines
    BY <1>2, <1>3, FollowersAreStored
<1>5. stored.gen \in Nat
    BY DEF HistoryInv, HistoryTypeOK
<1>6. n \in Round
    BY <1>3, <1>4, <1>5 DEF Round
<1>7. /\ n.kind = "window" /\ n.from = i /\ n.until = NextPrompt(i) /\ n.read = stored.gen
      /\ n.of = r.of /\ n.summary = r.summary /\ n.prompt = r.prompt
    BY <1>3, <1>4 DEF Round
<1>8. Aligned => i = r.of
  <2>1. Aligned => u = Turn(prompts[r.prompt].of)
      BY <1>1, Shape, AnchorIsThePrompt DEF HistoryInv
  <2>2. Turn(prompts[r.prompt].of).of = prompts[r.prompt].of
      BY DEF Turn
  <2> QED BY <1>1, <1>3, <2>1, <2>2 DEF PromptOk, OfRound
<1>9. PromptOk(n)
    BY <1>1, <1>7, <1>8 DEF PromptOk, OfRound
<1>10. WindowOk(n)
    BY <1>3, <1>5, <1>7 DEF WindowOk
<1>11. RoundOk(n) /\ ReplyOk(n)
    BY <1>7 DEF RoundOk, OfRound, ReplyOk
<1> QED BY <1>1, <1>6, <1>7, <1>9, <1>10, <1>11 DEF JobOk

LEMMA ReadIsOk ==
    ASSUME HistoryInv, NEW r \in Round, JobOk(r), r.kind \in {"next", "window"}, NEW n,
           n = [r EXCEPT !.kind = IF r.kind = "next" THEN "round" ELSE "llm",
                         !.reply = Window(Turn(r.from), r.until),
                         !.torn = r.read # stored.gen,
                         !.from = 0, !.until = 0, !.read = 0]
    PROVE  n \in Round /\ JobOk(n)
<1>1. /\ IsPrompt(r.of) /\ RoundOk(r) /\ PromptOk(r) /\ IsPrompt(r.from)
      /\ r.read <= stored.gen /\ (r.read = stored.gen => r.until = NextPrompt(r.from))
    BY DEF JobOk, WindowOk
<1>2. /\ Transcript /\ r.from \in DOMAIN talk /\ r.from \in Nat /\ r.until \in Nat /\ talk[r.from] = "user"
      /\ stored.gen \in Nat /\ r.gen \in Nat /\ r.read \in Nat
    BY <1>1, Shape DEF Round, IsPrompt, HistoryInv, HistoryTypeOK
<1>3. Window(Turn(r.from), r.until) \subseteq Lines /\ 0 \in 0..MaxLines
    BY <1>2, WindowsAreStored, Shape
<1>4. n \in Round
    BY <1>3 DEF Round
<1>5. /\ n.kind = IF r.kind = "next" THEN "round" ELSE "llm"
      /\ n.reply = Window(Turn(r.from), r.until)
      /\ n.torn = (r.read # stored.gen)
      /\ n.gen = r.gen /\ n.of = r.of /\ n.summary = r.summary /\ n.prompt = r.prompt
    BY DEF Round
<1>6. \A j \in n.reply : r.from < j
  <2> TAKE j \in n.reply
  <2>1. talk[j] = "assistant" /\ r.from <= j /\ j \in Nat
      BY <1>2, <1>5, WindowIsPart
  <2> QED BY <1>2, <2>1
<1>7. r.read = stored.gen => n.reply = Answers(r.from) \cap 1..stored.len
    BY <1>1, <1>2, <1>5, WindowIsAnswers
<1>8. r.kind = "next" => r.from = r.of /\ (r.gen = stored.gen => r.read = stored.gen)
    BY <1>1, <1>2 DEF RoundOk, OfRound
<1>9. r.kind = "window" /\ Aligned => r.from = r.of
    BY <1>1 DEF PromptOk, OfRound
<1>10. n.kind = "round" <=> r.kind = "next"
    BY <1>5
<1>11. OfRound(n) <=> OfRound(r)
    BY <1>5 DEF OfRound
<1>12. RoundOk(n)
    BY <1>1, <1>5, <1>7, <1>8, <1>10, <1>11 DEF RoundOk, OfRound
<1>13. PromptOk(n)
    BY <1>1, <1>5, <1>11 DEF PromptOk
<1>14. ReplyOk(n)
  <2>1. SUFFICES ASSUME n.kind = "round" \/ (n.kind = "llm" /\ Aligned)
                 PROVE  (\A j \in n.reply : n.of < j) /\ (n.reply \subseteq Answers(n.of) \/ n.torn)
      BY DEF ReplyOk
  <2>2. r.from = r.of
      BY <1>5, <1>8, <1>9, <1>10, <2>1
  <2> QED BY <1>5, <1>6, <1>7, <2>2
<1>15. WindowOk(n)
    BY <1>5 DEF WindowOk
<1> QED BY <1>1, <1>4, <1>5, <1>12, <1>13, <1>14, <1>15 DEF JobOk

LEMMA JobsStep == HistoryInv /\ [HistoryNext]_historyVars => (job \subseteq Round /\ \A r \in job : JobOk(r))'
<1> SUFFICES ASSUME HistoryInv, [HistoryNext]_historyVars
             PROVE  \A r \in job' : r \in Round /\ JobOk(r)'
    OBVIOUS
<1>1. \A r \in job : r \in Round /\ JobOk(r)
    BY DEF HistoryInv, HistoryTypeOK, Jobs
<1>2. \A r \in Round : JobOk(r) => JobOk(r)'
    BY JobKept
<1>3. ASSUME job' \subseteq job PROVE \A r \in job' : r \in Round /\ JobOk(r)'
    BY <1>1, <1>2, <1>3
<1>4. ASSUME ListRounds, NEW r \in job' PROVE r \in Round /\ JobOk(r)'
  <2>1. \/ \E u \in Users : r = Listed(u)
        \/ \E p \in 1..reading.known : r = Unanswered(p)
      BY <1>4 DEF ListRounds
  <2> QED BY <1>2, <2>1, ListedIsOk, UnansweredIsOk
<1>5. ASSUME NEW r \in job, NEW n \in Round, JobOk(n), job' = (job \ {r}) \cup {n}
      PROVE  \A q \in job' : q \in Round /\ JobOk(q)'
    BY <1>1, <1>2, <1>5
<1>6. ASSUME NEW r \in job, ReadAnchor(r) PROVE \A q \in job' : q \in Round /\ JobOk(q)'
  <2>1. PICK n : n = [r EXCEPT !.kind = IF r.gen = stored.gen THEN "anchored" ELSE "round"]
      OBVIOUS
  <2>2. r \in Round /\ JobOk(r) /\ r.kind = "listed" /\ job' = (job \ {r}) \cup {n}
      BY <1>1, <1>6, <2>1 DEF ReadAnchor
  <2>3. n \in Round /\ JobOk(n)
      BY <2>1, <2>2, AnchoredIsOk
  <2> QED BY <1>5, <2>2, <2>3
<1>7. ASSUME NEW r \in job, ReadNext(r) PROVE \A q \in job' : q \in Round /\ JobOk(q)'
  <2>1. PICK n : n = [r EXCEPT !.kind = "next", !.until = Follower(Turn(r.from)), !.read = stored.gen]
      OBVIOUS
  <2>2. r \in Round /\ JobOk(r) /\ r.kind = "anchored" /\ job' = (job \ {r}) \cup {n}
      BY <1>1, <1>7, <2>1 DEF ReadNext
  <2>3. n \in Round /\ JobOk(n)
      BY <2>1, <2>2, NextIsOk
  <2> QED BY <1>5, <2>2, <2>3
<1>8. ASSUME NEW r \in job, ReadUsers(r) PROVE \A q \in job' : q \in Round /\ JobOk(q)'
  <2>1. r \in Round /\ JobOk(r) /\ r.kind = "prompt"
      BY <1>1, <1>8 DEF ReadUsers
  <2>2. CASE job' = job \ {r}
      BY <1>3, <2>2
  <2>3. ASSUME NEW u \in Anchor(prompts[r.prompt].seq), NEW n, job' = (job \ {r}) \cup {n},
               n = [r EXCEPT !.kind = "window", !.from = u.of, !.until = Follower(u), !.read = stored.gen]
        PROVE  \A q \in job' : q \in Round /\ JobOk(q)'
    <3>1. n \in Round /\ JobOk(n)
        BY <2>1, <2>3, WindowedIsOk
    <3> QED BY <1>5, <2>3, <3>1
  <2> QED BY <1>8, <2>2, <2>3 DEF ReadUsers
<1>9. ASSUME NEW r \in job, ReadReplies(r) PROVE \A q \in job' : q \in Round /\ JobOk(q)'
  <2>1. PICK n : n = [r EXCEPT !.kind = IF r.kind = "next" THEN "round" ELSE "llm",
                               !.reply = Window(Turn(r.from), r.until),
                               !.torn = r.read # stored.gen,
                               !.from = 0, !.until = 0, !.read = 0]
      OBVIOUS
  <2>2. r \in Round /\ JobOk(r) /\ r.kind \in {"next", "window"} /\ job' = (job \ {r}) \cup {n}
      BY <1>1, <1>9, <2>1 DEF ReadReplies
  <2>3. n \in Round /\ JobOk(n)
      BY <2>1, <2>2, ReadIsOk
  <2> QED BY <1>5, <2>2, <2>3
<1> QED BY <1>3, <1>4, <1>6, <1>7, <1>8, <1>9, Writers

LEMMA ReadingStep ==
    HistoryInv /\ [HistoryNext]_historyVars
        => (reading \in Reading /\ reading.known <= Len(prompts) /\ jobs \in 0..MaxJobs)'
<1> SUFFICES ASSUME HistoryInv, [HistoryNext]_historyVars
             PROVE  reading' \in Reading /\ reading'.known <= Len(prompts') /\ jobs' \in 0..MaxJobs
    OBVIOUS
<1>1. /\ reading \in Reading /\ reading.known <= Len(prompts) /\ jobs \in 0..MaxJobs /\ MaxJobs \in Nat
      /\ Len(prompts) \in Nat /\ 1..Len(prompts) \subseteq Ids /\ reading.known \in Nat
    BY HistoryAssumption, Shape DEF HistoryInv, HistoryTypeOK, Jobs, Reading
<1>2. Len(prompts') \in Nat /\ Len(prompts) <= Len(prompts')
  <2>1. /\ prompts' \in Seq(Prompt)
        /\ \A p \in 1..Len(prompts) : p \in DOMAIN prompts'
      BY Shape, Lasting
  <2>2. Len(prompts') \in Nat /\ DOMAIN prompts' = 1..Len(prompts')
      BY <2>1
  <2>3. Len(prompts) # 0 => Len(prompts) \in 1..Len(prompts)
      BY <1>1
  <2> QED BY <1>1, <2>1, <2>2, <2>3
<1>3. ASSUME reading' = reading PROVE reading' \in Reading /\ reading'.known <= Len(prompts')
    BY <1>1, <1>2, <1>3
<1>4. ASSUME reading' = Unread PROVE reading' \in Reading /\ reading'.known <= Len(prompts')
  <2>1. \A n \in Nat : 0 <= n
      OBVIOUS
  <2>2. Unread \in Reading /\ Unread.known = 0
      BY DEF Reading, Unread
  <2> QED BY <1>2, <1>4, <2>1, <2>2
<1>5. ASSUME StartJob PROVE reading' \in Reading /\ reading'.known <= Len(prompts')
    BY <1>1, <1>2, <1>5 DEF StartJob, Reading
<1>6. ASSUME ReadCards PROVE reading' \in Reading /\ reading'.known <= Len(prompts')
  <2>1. reading' = [reading EXCEPT !.at = "cards", !.done = {p \in 1..reading.known : card[p] # Empty}]
      BY <1>6 DEF ReadCards
  <2>2. {p \in 1..reading.known : card[p] # Empty} \subseteq Ids
      BY <1>1
  <2>3. reading' \in Reading /\ reading'.known = reading.known
      BY <1>1, <2>1, <2>2 DEF Reading
  <2> QED BY <1>1, <1>2, <2>3
<1>7. jobs' \in 0..MaxJobs
    BY <1>1, Writers DEF StartJob
<1> QED BY <1>3, <1>4, <1>5, <1>6, <1>7, Writers

LEMMA OpenedStep == HistoryInv /\ [HistoryNext]_historyVars => (opened \in Ref /\ Opened)'
<1> SUFFICES ASSUME HistoryInv, [HistoryNext]_historyVars PROVE opened' \in Ref /\ Opened'
    OBVIOUS
<1>1. opened \in Ref /\ Opened
    BY DEF HistoryInv, HistoryTypeOK
<1>2. \A p \in DOMAIN prompts : p \in DOMAIN prompts' /\ prompts'[p] = prompts[p]
    BY Lasting
<1>3. CASE opened' = opened
    BY <1>1, <1>2, <1>3 DEF Opened
<1>4. ASSUME NEW r \in TimelineCards, OpenCard(r) PROVE opened' \in Ref /\ Opened'
  <2>1. opened' = r /\ (r \in PromptCards \/ r \in RoundCards)
      BY <1>4 DEF OpenCard, TimelineCards
  <2>2. CASE r \in PromptCards
    <3>1. PICK p \in DOMAIN prompts : r = [kind |-> "prompt", id |-> p, gen |-> 0, of |-> prompts[p].of]
        BY <2>2 DEF PromptCards
    <3>2. p \in 0..MaxReports /\ prompts[p].of \in 0..MaxLines
        BY Shape DEF Ids, Prompt, Lines
    <3> QED BY <1>2, <2>1, <3>1, <3>2 DEF Ref, Opened
  <2>3. CASE r \in RoundCards
    <3>1. PICK u \in Users : r = [kind |-> "msg", id |-> 0, gen |-> stored.gen, of |-> u.of]
        BY <2>3 DEF RoundCards
    <3>2. u.of \in 1..stored.len
      <4>1. \A k : Turn(k).of = k
          BY DEF Turn
      <4> QED BY <4>1, Shape, RowsOfLines
    <3>3. u.of \in 0..MaxLines /\ stored.gen \in Nat /\ 0 \in 0..MaxReports
        BY <3>2, Shape DEF Lines, HistoryInv, HistoryTypeOK
    <3> QED BY <2>1, <3>1, <3>3 DEF Ref, Opened
  <2> QED BY <2>1, <2>2, <2>3
<1> QED BY <1>3, <1>4, Writers

LEMMA HistoryInvInit == HistoryInit => HistoryInv
<1> SUFFICES ASSUME HistoryInit PROVE HistoryInv
    OBVIOUS
<1>1. HistoryTypeOK
    BY HistoryAssumption DEF HistoryInit, HistoryTypeOK, Empty, Summary, Ref, Ids, Lines, Reading, Unread
<1>2. Placed /\ Numbered /\ Summarised /\ Analysed /\ Jobs /\ Opened
    BY DEF HistoryInit, Placed, Numbered, Summarised, Analysed, Jobs, Opened, Lines, Unread
<1> QED BY <1>1, <1>2 DEF HistoryInv

LEMMA HistoryInvStep == HistoryInv /\ [HistoryNext]_historyVars => HistoryInv'
<1> SUFFICES ASSUME HistoryInv, [HistoryNext]_historyVars PROVE HistoryInv'
    OBVIOUS
<1>1. StoredTypes' /\ Placed' /\ Numbered' /\ talk' \in Seq(Kinds) /\ Len(talk') <= MaxLines
      /\ prompts' \in Seq(Prompt) /\ Len(prompts') <= MaxReports
    BY StoredStep, Lasting
<1>2. (summary \in [Lines -> Summary] /\ Summarised)' /\ (card \in [Ids -> Summary])'
    BY SummarisedStep, CardStep
<1>3. (analysing \subseteq (Ids \X Summary) /\ Analysed)'
    BY AnalysedStep
<1>4. (job \subseteq Round /\ reading \in Reading /\ jobs \in 0..MaxJobs /\ Jobs)'
    BY JobsStep, ReadingStep DEF Jobs
<1>5. (opened \in Ref /\ Opened)'
    BY OpenedStep
<1> QED BY <1>1, <1>2, <1>3, <1>4, <1>5 DEF HistoryInv, HistoryTypeOK, StoredTypes

LEMMA HistoryInvInductive == HistorySpec => []HistoryInv
<1>1. HistoryInit => HistoryInv
    BY HistoryInvInit
<1>2. HistoryInv /\ [HistoryNext]_historyVars => HistoryInv'
    BY HistoryInvStep
<1> QED BY <1>1, <1>2, PTL DEF HistorySpec

\* Every row, card, waiting summary and reference has its type, and the counts
\* stay within their bounds.
THEOREM HistoryTypeCorrect == HistorySpec => []HistoryTypeOK
<1>1. HistoryInv => HistoryTypeOK
    BY DEF HistoryInv
<1> QED BY <1>1, HistoryInvInductive, PTL

LEMMA SummariesFit == ASSUME HistoryInv PROVE SummaryOfItsRound
<1> SUFFICES ASSUME NEW u \in Users, summary[u.of] # Empty
             PROVE  summary[u.of] = [of |-> u.of, reply |-> Answers(u.of) \cap 1..stored.len]
    BY DEF SummaryOfItsRound
<1>1. u.of \in Lines
  <2>1. \A k : Turn(k).of = k
      BY DEF Turn
  <2> QED BY <2>1, Shape, RowsOfLines
<1> QED BY <1>1 DEF HistoryInv, Summarised, Stored

LEMMA DetailsFit == ASSUME HistoryInv PROVE DetailsOfTheCard
<1>1. CASE opened.kind = "msg"
  <2> SUFFICES ASSUME NEW u \in Users, u.of = opened.of
               PROVE  Reply(u) \subseteq Answers(opened.of)
      BY <1>1 DEF DetailsOfTheCard, ReplyText
  <2>1. PICK i \in 1..stored.len : talk[i] = "user" /\ u = Turn(i)
      BY Shape, RowsOfLines
  <2>2. u.of = i
      BY <2>1 DEF Turn
  <2> QED BY <2>1, <2>2, Shape, ReplyIsAnswers
<1>2. CASE opened.kind = "prompt" /\ Aligned
  <2>1. opened.id \in DOMAIN prompts /\ opened.of = prompts[opened.id].of /\ Numbered
      BY <1>2 DEF HistoryInv, Opened
  <2> QED BY <1>2, <2>1, Shape, PromptReplyAnswersIt DEF DetailsOfTheCard, ReplyText
<1> QED BY <1>1, <1>2 DEF DetailsOfTheCard

\* What a mentor reads under a prompt belongs to it: a message's summary is of
\* its own round as it is stored now, whatever transcript was uploaded between
\* the summary job's reading and its writing, and the details of a card never
\* show the answers to another prompt.
THEOREM ReadsAreUnderTheirPrompts == HistorySpec => []ReadUnderItsPrompt
<1>1. HistoryInv => ReadUnderItsPrompt
    BY SummariesFit, DetailsFit DEF ReadUnderItsPrompt
<1> QED BY <1>1, HistoryInvInductive, PTL

LEMMA CardsFit ==
    ASSUME HistoryInv, [HistoryNext]_historyVars, NEW p \in Ids, card'[p] \notin {card[p], Empty}
    PROVE  LET new == card'[p]  own == prompts[p].of IN
           /\ job' = job => new.of = own /\ new.reply \subseteq Answers(own)
           /\ Aligned => /\ SameText(new.of, own)
                         /\ \A j \in new.reply : new.of < j
                         /\ \/ new.reply \subseteq Answers(new.of)
                            \/ \E r \in job \ job' : r.torn
<1> DEFINE new == card'[p]
           own == prompts[p].of
<1>1. card \in [Ids -> Summary] /\ job \subseteq Round /\ Analysed /\ Jobs
    BY DEF HistoryInv, HistoryTypeOK
<1>2. \A i \in DOMAIN talk : \A j \in Answers(i) : i < j
    BY Shape DEF Answers
<1>3. ASSUME NEW a \in analysing, StopAnswered(a)
      PROVE  new.of = own /\ new.reply \subseteq Answers(own) /\ own \in DOMAIN talk
  <2>1. PICK s \in {a[2], Empty} : card' = [card EXCEPT ![a[1]] = s]
      BY <1>3 DEF StopAnswered
  <2>2. p = a[1] /\ card'[p] = a[2]
      BY <1>1, <2>1
  <2>3. p \in DOMAIN prompts
      BY <1>1, <2>2 DEF Analysed
  <2> QED BY <1>1, <2>2, <2>3 DEF Analysed, Its, HistoryInv, Numbered, IsPrompt
<1>4. ASSUME NEW r \in job, FinishRound(r)
      PROVE  /\ job' # job
             /\ Aligned => /\ SameText(new.of, own) /\ (\A j \in new.reply : new.of < j)
                           /\ new.reply \subseteq Answers(new.of) \/ (r.torn /\ r \in job \ job')
  <2>1. /\ r \in Round /\ IsPrompt(r.of) /\ RoundOk(r) /\ PromptOk(r) /\ ReplyOk(r)
        /\ job' = job \ {r} /\ r.kind \in {"round", "llm"}
      BY <1>1, <1>4 DEF FinishRound, Jobs, JobOk
  <2>2. PICK s : /\ SetCard(r.prompt, s)
                 /\ \/ s = r.summary /\ r.summary # Empty
                    \/ s = [of |-> r.of, reply |-> r.reply]
      BY <1>4 DEF FinishRound
  <2>3. r.prompt = p /\ new = s /\ p # 0
      BY <1>1, <2>2 DEF SetCard, Ids
  <2>4. ASSUME Aligned PROVE SameText(r.of, own)
    <3>1. CASE r.kind = "round"
        BY <2>1, <2>3, <2>4, <3>1 DEF RoundOk, OfRound, SameText
    <3>2. CASE r.kind = "llm"
        BY <2>1, <2>3, <3>2 DEF PromptOk, OfRound, SameText
    <3> QED BY <2>1, <3>1, <3>2
  <2>5. CASE s = r.summary /\ r.summary # Empty
    <3>1. Its(r.of, s)
        BY <2>1, <2>5 DEF RoundOk, PromptOk, OfRound
    <3>2. s.of = r.of /\ s.reply \subseteq Answers(r.of) /\ r.of \in DOMAIN talk
        BY <2>1, <3>1 DEF Its, IsPrompt
    <3> QED BY <1>2, <2>1, <2>3, <2>4, <3>2
  <2>6. CASE s = [of |-> r.of, reply |-> r.reply]
    <3>1. s.of = r.of /\ s.reply = r.reply
        BY <2>6
    <3>2. Aligned => (\A j \in r.reply : r.of < j) /\ (r.reply \subseteq Answers(r.of) \/ r.torn)
        BY <2>1 DEF ReplyOk
    <3> QED BY <2>1, <2>3, <2>4, <3>1, <3>2
  <2> QED BY <2>2, <2>5, <2>6
<1>5. \A i : SameText(i, i)
    BY DEF SameText
<1>6. CASE \E a \in analysing : StopAnswered(a)
    BY <1>2, <1>3, <1>5, <1>6
<1>7. CASE \E r \in job : FinishRound(r)
    BY <1>4, <1>7
<1> QED BY <1>6, <1>7, Writers

\* A card that a Stop's analysis writes is a summary of that prompt and of
\* answers to it; one that the summary job writes is, where the numbers of
\* prompts and rounds agree, of that prompt or one with the same words, and of
\* answers to it unless an upload came between the two reads of the window.
THEOREM CardsFitTheirPrompts == HistorySpec => CardOfItsPrompt
<1>1. HistoryInv /\ [HistoryNext]_historyVars
        => [\A p \in Ids : card'[p] \notin {card[p], Empty} =>
              LET new == card'[p]  own == prompts[p].of IN
              /\ job' = job => new.of = own /\ new.reply \subseteq Answers(own)
              /\ Aligned => /\ SameText(new.of, own)
                            /\ \A j \in new.reply : new.of < j
                            /\ \/ new.reply \subseteq Answers(new.of)
                               \/ \E r \in job \ job' : r.torn]_historyVars
    BY CardsFit
<1> QED BY <1>1, HistoryInvInductive, PTL DEF HistorySpec, CardOfItsPrompt

=============================================================================
