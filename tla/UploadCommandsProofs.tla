-------------------------- MODULE UploadCommandsProofs --------------------------
(***************************************************************************)
(* What TLAPS proves of UploadCommands, for any number of processes, pids  *)
(* and crashes.                                                            *)
(***************************************************************************)
EXTENDS UploadCommands, TLAPS

\* Every step is one of these, by some process.
Step(p) ==
    \/ Receive(p) \/ Lock(p) \/ Create(p) \/ Write(p) \/ Inspect(p) \/ Replace(p)
    \/ Upload(p) \/ Complete(p) \/ Commit(p) \/ Release(p) \/ Crash(p) \/ Start(p)

LEMMA Cases == ASSUME Next PROVE \E p \in Procs : Step(p)
<1>1. PICK p \in Procs : Receive(p) \/ Claiming(p) \/ Completing(p) \/ Crash(p) \/ Start(p)
    BY DEF Next
<1>2. Step(p)
    BY <1>1 DEF Step, Claiming, Completing
<1> QED BY <1>2

-----------------------------------------------------------------------------
(* Type correctness.  TypeOK needs that only live processes take steps: a   *)
(* pid is written into the claim.                                           *)

Live == \A p \in Procs : step[p] # "idle" => pid[p] # None

TypeInv == TypeOK /\ Live

LEMMA TypeInvStep == TypeInv /\ [Next]_vars => TypeInv'
<1> SUFFICES ASSUME TypeInv, [Next]_vars PROVE TypeInv'
    OBVIOUS
<1> USE CommandsAssumption DEF TypeInv, TypeOK, Live, Steps, Go
<1>1. CASE UNCHANGED vars
    BY <1>1 DEF vars
<1>2. CASE Next
  <2> PICK p \in Procs : Step(p)
      BY <1>2, Cases
  <2>1. CASE Receive(p)  BY <2>1 DEF Receive
  <2>2. CASE Lock(p)     BY <2>2 DEF Lock
  <2>3. CASE Create(p)   BY <2>3 DEF Create
  <2>4. CASE Write(p)    BY <2>4 DEF Write
  <2>5. CASE Inspect(p)  BY <2>5 DEF Inspect
  <2>6. CASE Replace(p)  BY <2>6 DEF Replace
  <2>7. CASE Upload(p)   BY <2>7 DEF Upload
  <2>8. CASE Complete(p) BY <2>8 DEF Complete
  <2>9. CASE Commit(p)   BY <2>9 DEF Commit
  <2>10. CASE Release(p) BY <2>10 DEF Release
  <2>11. CASE Crash(p)   BY <2>11 DEF Crash
  <2>12. CASE Start(p)   BY <2>12 DEF Start, Alive
  <2> QED BY <2>1, <2>2, <2>3, <2>4, <2>5, <2>6, <2>7, <2>8, <2>9, <2>10, <2>11, <2>12
             DEF Step
<1> QED BY <1>1, <1>2

LEMMA TypeInvInit == Init => TypeInv
<1> SUFFICES ASSUME Init PROVE TypeInv
    OBVIOUS
<1>1. pid \in [Procs -> Pids]
    BY DEF Init
<1>2. pid \in [Procs -> Pids \cup {None}]
    BY <1>1
<1>3. Live
    BY DEF Init, Live
<1>4. /\ step = [p \in Procs |-> "idle"] /\ handled = {} /\ lock = None
      /\ completed = FALSE /\ claim = NoFile /\ maker = None /\ crashes = 0
    BY DEF Init
<1>5. step \in [Procs -> Steps] /\ handled \subseteq Procs /\ crashes \in 0..MaxCrashes
    BY <1>4, CommandsAssumption DEF Steps
<1>6. TypeOK
    BY <1>2, <1>4, <1>5 DEF TypeOK
<1> QED BY <1>3, <1>6 DEF TypeInv

\* Every variable keeps its type, whatever the processes do and whenever they
\* die: pids are pids, the lock has one holder, the claim one content.
THEOREM TypeCorrect == Spec => []TypeOK
<1>1. TypeInv => TypeOK
    BY DEF TypeInv
<1> QED BY <1>1, TypeInvInit, TypeInvStep, PTL DEF Spec

-----------------------------------------------------------------------------
(* The mutex: who looks for a claim, or commits, holds the ledger's lock.   *)

Locked == {"create", "write", "inspect", "replace", "again", "commit"}

Mutex == \A p \in Procs : step[p] \in Locked => lock = p

LEMMA MutexStep == TypeInv /\ Mutex /\ [Next]_vars => Mutex'
<1> SUFFICES ASSUME TypeInv, Mutex, [Next]_vars PROVE Mutex'
    OBVIOUS
<1> USE CommandsAssumption DEF TypeInv, TypeOK, Mutex, Locked, Go
<1>1. CASE UNCHANGED vars
    BY <1>1 DEF vars
<1>2. CASE Next
  <2> PICK p \in Procs : Step(p)
      BY <1>2, Cases
  <2>1. CASE Receive(p)  BY <2>1 DEF Receive
  <2>2. CASE Lock(p)     BY <2>2 DEF Lock
  <2>3. CASE Create(p)   BY <2>3 DEF Create
  <2>4. CASE Write(p)    BY <2>4 DEF Write
  <2>5. CASE Inspect(p)  BY <2>5 DEF Inspect
  <2>6. CASE Replace(p)  BY <2>6 DEF Replace
  <2>7. CASE Upload(p)   BY <2>7 DEF Upload
  <2>8. CASE Complete(p) BY <2>8 DEF Complete
  <2>9. CASE Commit(p)   BY <2>9 DEF Commit
  <2>10. CASE Release(p) BY <2>10 DEF Release
  <2>11. CASE Crash(p)   BY <2>11 DEF Crash
  <2>12. CASE Start(p)   BY <2>12 DEF Start
  <2> QED BY <2>1, <2>2, <2>3, <2>4, <2>5, <2>6, <2>7, <2>8, <2>9, <2>10, <2>11, <2>12
             DEF Step
<1> QED BY <1>1, <1>2

LEMMA MutexInit == Init => Mutex
BY DEF Init, Mutex, Locked

-----------------------------------------------------------------------------
(* The claim, where the owner of a claim can be seen to live: the process   *)
(* at work made the file and its pid is in it; a writer's file is empty;    *)
(* nobody is at work while a stale file is replaced.                        *)

Owned   == \A p \in Procs : AtWork(p) => maker = p /\ claim = pid[p]
Written == \A p \in Procs : step[p] = "write" => maker = p /\ claim = Empty
Free    == \A p, q \in Procs : step[p] \in {"replace", "again"} => ~AtWork(q)

Claims == Owned /\ Written /\ Free

\* A process whose claim is seen to be stale is not at work.
LEMMA StaleIsFree ==
    ASSUME TypeInv, Owned, Inspectable = TRUE, NEW p \in Procs, Stale(p)
    PROVE  \A q \in Procs : ~AtWork(q)
<1> SUFFICES ASSUME NEW q \in Procs, AtWork(q) PROVE FALSE
    OBVIOUS
<1>1. claim = pid[q] /\ pid[q] # None
    BY DEF Owned, TypeInv, Live, AtWork
<1>2. claim \in Alive
    BY <1>1 DEF Alive
<1> QED BY <1>2 DEF Stale

LEMMA ClaimsStep ==
    Inspectable /\ TypeInv /\ Mutex /\ Claims /\ [Next]_vars => Claims'
<1> SUFFICES ASSUME Inspectable, TypeInv, Mutex, Claims, [Next]_vars PROVE Claims'
    OBVIOUS
<1>0. Inspectable = TRUE
    BY CommandsAssumption
<1> USE CommandsAssumption DEF TypeInv, TypeOK, Mutex, Locked, Claims, Owned, Written, Free,
                              AtWork, Go
<1>1. CASE UNCHANGED vars
    BY <1>1 DEF vars
<1>2. CASE Next
  <2> PICK p \in Procs : Step(p)
      BY <1>2, Cases
  <2>1. CASE Receive(p)  BY <2>1 DEF Receive
  <2>2. CASE Lock(p)     BY <2>2 DEF Lock
  <2>3. CASE Create(p)   BY <2>3 DEF Create, Live
  <2>4. CASE Write(p)    BY <2>4 DEF Write
  <2>5. CASE Inspect(p)
    <3>1. CASE Stale(p) /\ Go(p, "replace")
      <4>1. \A q \in Procs : ~AtWork(q)
          BY <1>0, <3>1, StaleIsFree
      <4> QED BY <4>1, <2>5, <3>1 DEF Inspect
    <3>2. CASE Go(p, "idle")
        BY <2>5, <3>2 DEF Inspect
    <3> QED BY <2>5, <3>1, <3>2 DEF Inspect
  <2>6. CASE Replace(p)  BY <2>6 DEF Replace
  <2>7. CASE Upload(p)   BY <2>7 DEF Upload
  <2>8. CASE Complete(p) BY <2>8 DEF Complete
  <2>9. CASE Commit(p)   BY <2>9 DEF Commit
  <2>10. CASE Release(p) BY <2>10 DEF Release
  <2>11. CASE Crash(p)   BY <2>11 DEF Crash
  <2>12. CASE Start(p)   BY <2>12 DEF Start, Live
  <2> QED BY <2>1, <2>2, <2>3, <2>4, <2>5, <2>6, <2>7, <2>8, <2>9, <2>10, <2>11, <2>12
             DEF Step
<1> QED BY <1>1, <1>2

LEMMA ClaimsInit == Init => Claims
BY DEF Init, Claims, Owned, Written, Free, AtWork

ClaimInv == TypeInv /\ Mutex /\ (Inspectable => Claims)

LEMMA ClaimInvInductive == Spec => []ClaimInv
<1>1. Init => ClaimInv
    BY TypeInvInit, MutexInit, ClaimsInit DEF ClaimInv
<1>2. ClaimInv /\ [Next]_vars => ClaimInv'
  <2> SUFFICES ASSUME ClaimInv, [Next]_vars PROVE ClaimInv'
      OBVIOUS
  <2>1. TypeInv' /\ Mutex'
      BY TypeInvStep, MutexStep DEF ClaimInv
  <2>2. Inspectable => Claims'
      BY ClaimsStep DEF ClaimInv
  <2> QED BY <2>1, <2>2 DEF ClaimInv
<1> QED BY <1>1, <1>2, PTL DEF Spec

\* One process at a time works on the request: neither the take-over of a
\* stale claim nor the removal of a claim by its name lets a second one in.
THEOREM UploadIsExclusive == Spec => []ExclusiveUpload
<1>1. ClaimInv => ExclusiveUpload
    BY DEF ClaimInv, Claims, Owned, ExclusiveUpload
<1> QED BY <1>1, ClaimInvInductive, PTL

-----------------------------------------------------------------------------
(* After the completion: nobody is on the way to an upload.                 *)

Finished ==
    completed => \A p \in Procs : step[p] \notin Locked \ {"commit"}

LEMMA FinishedStep == TypeInv /\ Mutex /\ Finished /\ [Next]_vars => Finished'
<1> SUFFICES ASSUME TypeInv, Mutex, Finished, [Next]_vars PROVE Finished'
    OBVIOUS
<1> USE DEF TypeInv, TypeOK, Mutex, Locked, Finished, Go
<1>1. CASE UNCHANGED vars
    BY <1>1 DEF vars
<1>2. CASE Next
  <2> PICK p \in Procs : Step(p)
      BY <1>2, Cases
  <2>1. CASE Receive(p)  BY <2>1 DEF Receive
  <2>2. CASE Lock(p)     BY <2>2 DEF Lock
  <2>3. CASE Create(p)   BY <2>3 DEF Create
  <2>4. CASE Write(p)    BY <2>4 DEF Write
  <2>5. CASE Inspect(p)  BY <2>5 DEF Inspect
  <2>6. CASE Replace(p)  BY <2>6 DEF Replace
  <2>7. CASE Upload(p)   BY <2>7 DEF Upload
  <2>8. CASE Complete(p) BY <2>8 DEF Complete
  <2>9. CASE Commit(p)   BY <2>9 DEF Commit
  <2>10. CASE Release(p) BY <2>10 DEF Release
  <2>11. CASE Crash(p)   BY <2>11 DEF Crash
  <2>12. CASE Start(p)   BY <2>12 DEF Start
  <2> QED BY <2>1, <2>2, <2>3, <2>4, <2>5, <2>6, <2>7, <2>8, <2>9, <2>10, <2>11, <2>12
             DEF Step
<1> QED BY <1>1, <1>2

\* Only the writer of a claim begins an upload.
LEMMA UploadBegins ==
    ASSUME TypeInv, Finished, completed, [Next]_vars, NEW q \in Procs, step'[q] = "upload"
    PROVE  step[q] = "upload"
<1> USE DEF TypeInv, TypeOK, Go
<1>1. CASE UNCHANGED vars
    BY <1>1 DEF vars
<1>2. CASE Next
  <2> PICK p \in Procs : Step(p)
      BY <1>2, Cases
  <2>1. step[p] # "write"
      BY DEF Finished, Locked
  <2>2. CASE Receive(p) \/ Lock(p) \/ Create(p)
      BY <2>2 DEF Receive, Lock, Create
  <2>3. CASE Write(p)
      BY <2>1, <2>3 DEF Write
  <2>4. CASE Inspect(p) \/ Replace(p)
      BY <2>4 DEF Inspect, Replace
  <2>5. CASE Upload(p) \/ Complete(p) \/ Commit(p) \/ Release(p)
      BY <2>5 DEF Upload, Complete, Commit, Release
  <2>6. CASE Crash(p) \/ Start(p)
      BY <2>6 DEF Crash, Start
  <2> QED BY <2>2, <2>3, <2>4, <2>5, <2>6 DEF Step
<1> QED BY <1>1, <1>2

\* A request whose completion is in the ledger is never uploaded again, by
\* whichever process, whether or not the owner of a claim can be inspected.
THEOREM CompletedIsFinal == Spec => NotAgain
<1>1. Init => Finished
    BY DEF Init, Finished
<1>2. ClaimInv /\ Finished /\ [Next]_vars => Finished'
    BY FinishedStep DEF ClaimInv
<1>3. ClaimInv /\ Finished /\ [Next]_vars
        => [completed => \A p \in Procs : step'[p] = "upload" => step[p] = "upload"]_vars
    BY UploadBegins DEF ClaimInv
<1> QED BY <1>1, <1>2, <1>3, ClaimInvInductive, PTL DEF Spec, NotAgain

-----------------------------------------------------------------------------
(* What a claim leaves behind. *)

LEMMA LeftStep == ClaimInv /\ NothingLeft /\ [Next]_vars => NothingLeft'
<1> SUFFICES ASSUME ClaimInv, NothingLeft, [Next]_vars, Inspectable
             PROVE  NothingLeft'
    BY DEF NothingLeft, ClaimIsOwned, ClaimReleased
<1> USE CommandsAssumption DEF ClaimInv, TypeInv, TypeOK, Mutex, Locked, Claims, Owned, Written,
      Free, AtWork, Go, NothingLeft, ClaimIsOwned, ClaimReleased
<1>1. CASE UNCHANGED vars
    BY <1>1 DEF vars
<1>2. CASE Next
  <2> PICK p \in Procs : Step(p)
      BY <1>2, Cases
  <2>1. CASE Receive(p)  BY <2>1 DEF Receive
  <2>2. CASE Lock(p)     BY <2>2 DEF Lock
  <2>3. CASE Create(p)   BY <2>3 DEF Create
  <2>4. CASE Write(p)    BY <2>4 DEF Write
  <2>5. CASE Inspect(p)  BY <2>5 DEF Inspect
  <2>6. CASE Replace(p)  BY <2>6 DEF Replace
  <2>7. CASE Upload(p)   BY <2>7 DEF Upload
  <2>8. CASE Complete(p) BY <2>8 DEF Complete
  <2>9. CASE Commit(p)   BY <2>9 DEF Commit
  <2>10. CASE Release(p) BY <2>10 DEF Release
  <2>11. CASE Crash(p)   BY <2>11 DEF Crash
  <2>12. CASE Start(p)   BY <2>12 DEF Start
  <2> QED BY <2>1, <2>2, <2>3, <2>4, <2>5, <2>6, <2>7, <2>8, <2>9, <2>10, <2>11, <2>12
             DEF Step
<1> QED BY <1>1, <1>2

\* A claim file that stays was left by a process that died, and every other
\* one belongs to the process at work: a failed command can be tried again.
THEOREM ClaimsAreReleased == Spec => []NothingLeft
<1>1. Init => NothingLeft
    BY DEF Init, NothingLeft, ClaimIsOwned, ClaimReleased
<1> QED BY <1>1, LeftStep, ClaimInvInductive, PTL DEF Spec

=============================================================================
