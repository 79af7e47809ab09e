----------------------------- MODULE EventSpool -----------------------------
(***************************************************************************)
(* The durable hook spool: a directory of one JSON file per event, filled  *)
(* by WorkBuddy hook processes and emptied by student agents that post     *)
(* each event to the Center Server.  Agents exclude each other with a      *)
(* claim file per event, and take over the claim of a dead process.        *)
(*                                                                         *)
(* Every file system call is a step of its own: the directory is shared by *)
(* processes that hold no common lock.  An agent is one process (one pid); *)
(* a restart is another agent that becomes live.  The pid of a dead agent  *)
(* may be given to another process.  A call on a file may fail: each call  *)
(* at most once for an event, MaxFaults in all.                            *)
(***************************************************************************)
EXTENDS Naturals, FiniteSets

CONSTANTS
    HookEvents,     \* events written by hook.py
    EnqueuedEvents, \* events written through EventSpool.enqueue
    Agents,         \* agent processes
    MaxCrashes,     \* bound: agent processes that die
    MaxFaults,      \* bound: calls of the file system that fail
    NoAgent         \* no owner

ASSUME SpoolAssumption ==
    /\ HookEvents \cap EnqueuedEvents = {}
    /\ NoAgent \notin Agents
    /\ MaxCrashes \in Nat /\ MaxFaults \in Nat

Event == HookEvents \cup EnqueuedEvents

VARIABLES
    file,        \* <id>.json: "none", "empty" (placeholder) or "good"
    produced,    \* events whose producer has returned
    quarantined, \* what was moved to quarantine/: <<event, content>>
    claim,       \* .<id>.claim: who created it, and whether its pid is in it
    accepted,    \* events for which the server has committed a report
    live,        \* running agent processes
    taken,       \* dead agents whose pid some other process has now
    faults,      \* the calls that have failed: <<call, event>>
    pc, cur,     \* where each agent is, and on which event
    scan,        \* paths pending() has still to look at
    entries      \* readable entries: pending()'s result, then what is left of it

vars == <<file, produced, quarantined, claim, accepted, live, taken, faults,
          pc, cur, scan, entries>>

NoClaim == [owner |-> NoAgent, pid |-> FALSE]
Claim   == [owner : Agents \cup {NoAgent}, pid : BOOLEAN]

PC == {"idle", "scan", "stale", "read", "quarantine", "flush", "create", "check",
       "unlink", "again", "write", "post", "ack", "release"}

\* open and read, os.replace to quarantine, the write of the pid, any other.
Call == {"read", "move", "pid", "call"}

TypeOK ==
    /\ file \in [Event -> {"none", "empty", "good"}]
    /\ produced \subseteq Event
    /\ quarantined \subseteq Event \X {"empty", "good"}
    /\ claim \in [Event -> Claim]
    /\ accepted \subseteq Event
    /\ live \subseteq Agents
    /\ taken \subseteq Agents \ live
    /\ faults \subseteq Call \X Event
    /\ pc \in [Agents -> PC]
    /\ cur \in [Agents -> SUBSET Event]
    /\ scan \in [Agents -> SUBSET Event]
    /\ entries \in [Agents -> SUBSET Event]

Init ==
    /\ file = [e \in Event |-> "none"]
    /\ produced = {} /\ quarantined = {} /\ accepted = {}
    /\ claim = [e \in Event |-> NoClaim]
    /\ live = Agents
    /\ taken = {} /\ faults = {}
    /\ pc = [a \in Agents |-> "idle"]
    /\ cur = [a \in Agents |-> {}]
    /\ scan = [a \in Agents |-> {}]
    /\ entries = [a \in Agents |-> {}]

-----------------------------------------------------------------------------
(* What the processes share. *)

spool == <<file, produced, quarantined, claim, accepted>>
world == <<live, taken, faults>>
work  == <<pc, cur, scan, entries>>

\* The call c on the files of e fails.
Fault(c, e) ==
    /\ <<c, e>> \notin faults
    /\ Cardinality(faults) < MaxFaults
    /\ faults' = faults \cup {<<c, e>>}

-----------------------------------------------------------------------------
(* Producers. *)

\* hook.py: the complete temporary file is renamed into place.
HookWrite(e) ==
    /\ e \notin produced
    /\ file' = [file EXCEPT ![e] = "good"]
    /\ produced' = produced \cup {e}
    /\ UNCHANGED <<quarantined, claim, accepted, world, work>>

Moved(e) == \E content \in {"empty", "good"} : <<e, content>> \in quarantined

\* EventSpool.enqueue first reserves the final name with an empty file ...
Reserve(e) ==
    /\ e \notin produced
    /\ file[e] = "none" /\ ~Moved(e)
    /\ file' = [file EXCEPT ![e] = "empty"]
    /\ UNCHANGED <<produced, quarantined, claim, accepted, world, work>>

\* ... and then renames the complete file over whatever is there.
Publish(e) ==
    /\ e \notin produced
    /\ file[e] = "empty" \/ Moved(e)
    /\ file' = [file EXCEPT ![e] = "good"]
    /\ produced' = produced \cup {e}
    /\ UNCHANGED <<quarantined, claim, accepted, world, work>>

\* ... or, when the rename fails, takes the reserved name away again.
Withdraw(e) ==
    /\ e \notin produced
    /\ file[e] = "empty" \/ Moved(e)
    /\ file' = [file EXCEPT ![e] = "none"]
    /\ UNCHANGED <<produced, quarantined, claim, accepted, world, work>>

Enqueue(e) == Reserve(e) \/ Publish(e) \/ Withdraw(e)

-----------------------------------------------------------------------------
(* EventSpool.pending. *)

Goto(a, where) == pc' = [pc EXCEPT ![a] = where]
Take(a, e)     == cur' = [cur EXCEPT ![a] = {e}]

\* The cycle ends with what it had in memory.
Leave(a) ==
    /\ Goto(a, "idle")
    /\ cur' = [cur EXCEPT ![a] = {}]
    /\ scan' = [scan EXCEPT ![a] = {}]
    /\ entries' = [entries EXCEPT ![a] = {}]

\* flush_spool_once: the directory is listed.
List(a) ==
    /\ pc[a] = "idle"
    /\ scan' = [scan EXCEPT ![a] = {e \in Event : file[e] # "none"}]
    /\ entries' = [entries EXCEPT ![a] = {}]
    /\ Goto(a, "scan")
    /\ UNCHANGED <<spool, world, cur>>

\* Mutant: the claim of a dead process is respected for ever.
ActiveForEver(e) == claim[e] # NoClaim

\* _claim_is_active: a claim without a pid counts as active, and so does one
\* whose pid is that of some running process, whichever it is.
Active(e) == claim[e] # NoClaim /\ (claim[e].pid => claim[e].owner \in live \cup taken)

Stale(e) == claim[e] # NoClaim /\ ~Active(e)

\* The next path of the listing: no file any more, claimed, claimed by a dead
\* process (Windows does not report it as dead: the claim stays), or free.
ScanNext(a) ==
    /\ pc[a] = "scan"
    /\ \E e \in scan[a] :
          /\ scan' = [scan EXCEPT ![a] = @ \ {e}]
          /\ \/ /\ file[e] # "none" /\ Active(e)
                /\ UNCHANGED <<pc, cur>>
             \/ /\ file[e] = "none"
                /\ Take(a, e)
                /\ Goto(a, "quarantine")
             \/ /\ file[e] # "none" /\ ~Active(e)
                /\ Take(a, e)
                /\ \/ Stale(e) /\ Goto(a, "stale")
                   \/ Goto(a, "read")
    /\ UNCHANGED <<spool, world, entries>>

ScanEnd(a) ==
    /\ pc[a] = "scan"
    /\ scan[a] = {}
    /\ Goto(a, "flush")
    /\ UNCHANGED <<spool, world, cur, scan, entries>>

\* claim_path.unlink(missing_ok=True): by name, whoever owns the file by now.
UnlinkClaim(e) == claim' = [claim EXCEPT ![e] = NoClaim]

ScanUnlink(a) ==
    /\ pc[a] = "stale"
    /\ \E e \in cur[a] : UnlinkClaim(e)
    /\ Goto(a, "read")
    /\ UNCHANGED <<file, produced, quarantined, accepted, world, cur, scan, entries>>

\* Read and parse: a complete envelope is an entry; anything else (an empty
\* placeholder, a file that disappeared, and also a complete one that could
\* not be opened or read this time) is sent to quarantine.
Read(a) ==
    /\ pc[a] = "read"
    /\ \E e \in cur[a] :
          \/ /\ file[e] = "good"
             /\ entries' = [entries EXCEPT ![a] = @ \cup {e}]
             /\ cur' = [cur EXCEPT ![a] = {}]
             /\ Goto(a, "scan")
             /\ faults' = faults
          \/ /\ file[e] = "good" => Fault("read", e)
             /\ file[e] # "good" => faults' = faults
             /\ Goto(a, "quarantine")
             /\ UNCHANGED <<cur, entries>>
    /\ UNCHANGED <<spool, live, taken, scan>>

\* Mutant: it does not check that something is there.
QuarantineUnchecked(a) ==
    /\ pc[a] = "quarantine"
    /\ \E e \in cur[a] :
          /\ file' = [file EXCEPT ![e] = "none"]
          /\ quarantined' = quarantined \cup {<<e, file[e]>>}
    /\ cur' = [cur EXCEPT ![a] = {}]
    /\ Goto(a, "scan")
    /\ UNCHANGED <<produced, claim, accepted, world, scan, entries>>

\* _quarantine moves the path, if something is there, whatever it holds now;
\* a move that fails leaves it where it is.
Quarantine(a) ==
    /\ pc[a] = "quarantine"
    /\ \E e \in cur[a] :
          \/ /\ file[e] = "none"
             /\ UNCHANGED <<file, quarantined, faults>>
          \/ /\ file[e] # "none"
             /\ file' = [file EXCEPT ![e] = "none"]
             /\ quarantined' = quarantined \cup {<<e, file[e]>>}
             /\ faults' = faults
          \/ /\ file[e] # "none"
             /\ Fault("move", e)
             /\ UNCHANGED <<file, quarantined>>
    /\ cur' = [cur EXCEPT ![a] = {}]
    /\ Goto(a, "scan")
    /\ UNCHANGED <<produced, claim, accepted, live, taken, scan, entries>>

-----------------------------------------------------------------------------
(* EventSpool.claim. *)

\* The next entry: is_file() ...
FlushNext(a) ==
    /\ pc[a] = "flush"
    /\ \E e \in entries[a] :
          /\ entries' = [entries EXCEPT ![a] = @ \ {e}]
          /\ \/ /\ file[e] = "none"
                /\ UNCHANGED <<pc, cur>>
             \/ /\ file[e] # "none"
                /\ Take(a, e)
                /\ Goto(a, "create")
    /\ UNCHANGED <<spool, world, scan>>

FlushEnd(a) ==
    /\ pc[a] = "flush"
    /\ entries[a] = {}
    /\ Goto(a, "idle")
    /\ UNCHANGED <<spool, world, cur, scan, entries>>

\* ... then O_CREAT | O_EXCL of the claim file.
Create(a) ==
    /\ pc[a] = "create"
    /\ \E e \in cur[a] :
          \/ /\ claim[e] = NoClaim
             /\ claim' = [claim EXCEPT ![e] = [owner |-> a, pid |-> FALSE]]
             /\ Goto(a, "write")
          \/ /\ claim[e] # NoClaim
             /\ Goto(a, "check")
             /\ claim' = claim
    /\ UNCHANGED <<file, produced, quarantined, accepted, world, cur, scan, entries>>

\* The pid is written through the descriptor: into the file this agent
\* created, which may have lost its name meanwhile.
WritePid(a) ==
    /\ pc[a] = "write"
    /\ \E e \in cur[a] :
          claim' = IF claim[e].owner = a THEN [claim EXCEPT ![e].pid = TRUE] ELSE claim
    /\ Goto(a, "post")
    /\ UNCHANGED <<file, produced, quarantined, accepted, world, cur, scan, entries>>

\* An exception of a call on the files ends the cycle where it is (one_cycle
\* logs it): the claim that was made stays, with or without its pid.
CallFails(a) ==
    /\ \E e \in cur[a] :
          \/ pc[a] = "write" /\ Fault("pid", e)
          \/ /\ pc[a] \in {"stale", "create", "unlink", "again", "ack", "release"}
             /\ Fault("call", e)
    /\ Leave(a)
    /\ UNCHANGED <<spool, live, taken>>

\* FileExistsError: give up if the claim is active; else it is unlinked
\* (before by _claim_is_active, when it saw the owner dead) and claim() starts
\* over.
Check(a) ==
    /\ pc[a] = "check"
    /\ \E e \in cur[a] :
          \/ /\ Active(e)
             /\ Goto(a, "flush")
             /\ cur' = [cur EXCEPT ![a] = {}]
          \/ /\ ~Active(e)
             /\ \/ Stale(e) /\ Goto(a, "unlink")
                \/ Goto(a, "again")
             /\ cur' = cur
    /\ UNCHANGED <<spool, world, scan, entries>>

TakeOver(a) ==
    /\ pc[a] \in {"unlink", "again"}
    /\ \E e \in cur[a] : UnlinkClaim(e)
    /\ \/ /\ pc[a] = "unlink"
          /\ Goto(a, "again")
          /\ UNCHANGED <<cur, entries>>
       \/ /\ pc[a] = "again"
          /\ Goto(a, "flush")
          /\ entries' = [entries EXCEPT ![a] = @ \cup cur[a]]
          /\ cur' = [cur EXCEPT ![a] = {}]
    /\ UNCHANGED <<file, produced, quarantined, accepted, world, scan>>

-----------------------------------------------------------------------------
(* Posting, flush_spool_once. *)

\* The report is committed and the 2xx answer arrives.
PostAccepted(a) ==
    /\ pc[a] = "post"
    /\ accepted' = accepted \cup cur[a]
    /\ Goto(a, "ack")
    /\ UNCHANGED <<file, produced, quarantined, claim, world, cur, scan, entries>>

\* Mutant: the event is acknowledged whatever the answer was.
PostFailedAcks(a) ==
    /\ pc[a] = "post"
    /\ Goto(a, "ack")
    /\ UNCHANGED <<spool, world, cur, scan, entries>>

\* Refused, unreachable, or committed with the answer lost.
PostFailed(a) ==
    /\ pc[a] = "post"
    /\ accepted' \in {accepted, accepted \cup cur[a]}
    /\ Goto(a, "release")
    /\ UNCHANGED <<file, produced, quarantined, claim, world, cur, scan, entries>>

\* ack(): unlink the event, then its claim.
Ack(a) ==
    /\ pc[a] = "ack"
    /\ \E e \in cur[a] : file' = [file EXCEPT ![e] = "none"]
    /\ Goto(a, "release")
    /\ UNCHANGED <<produced, quarantined, claim, accepted, world, cur, scan, entries>>

Release(a) ==
    /\ pc[a] = "release"
    /\ \E e \in cur[a] : UnlinkClaim(e)
    /\ cur' = [cur EXCEPT ![a] = {}]
    /\ Goto(a, "flush")
    /\ UNCHANGED <<file, produced, quarantined, accepted, world, scan, entries>>

\* A process dies wherever it is; its files stay.
Die(a) ==
    /\ Cardinality(Agents \ live) < MaxCrashes
    /\ live' = live \ {a}
    /\ Leave(a)
    /\ UNCHANGED <<spool, taken, faults>>

\* Another process is given the pid of a dead agent, or that process ends.
PidTaken(a) ==
    /\ a \notin live
    /\ taken' \in {taken \cup {a}, taken \ {a}}
    /\ UNCHANGED <<spool, live, faults, work>>

Scan(a)  == List(a) \/ ScanNext(a) \/ ScanEnd(a) \/ ScanUnlink(a) \/ Read(a) \/ Quarantine(a)
Flush(a) == FlushNext(a) \/ FlushEnd(a) \/ Create(a) \/ WritePid(a) \/ Check(a) \/ TakeOver(a)
            \/ CallFails(a)
Post(a)  == PostAccepted(a) \/ PostFailed(a) \/ Ack(a) \/ Release(a)

Next ==
    \/ \E e \in HookEvents : HookWrite(e)
    \/ \E e \in EnqueuedEvents : Enqueue(e)
    \/ \E a \in live : Scan(a) \/ Flush(a) \/ Post(a) \/ Die(a)
    \/ \E a \in Agents : PidTaken(a)

Spec == Init /\ [][Next]_vars

\* A live agent keeps cycling, and posts that are retried for ever succeed.
Fairness ==
    \A a \in Agents :
       /\ WF_vars(a \in live /\ (Scan(a) \/ Flush(a) \/ Post(a)))
       /\ SF_vars(a \in live /\ PostAccepted(a))

FairSpec == Spec /\ Fairness

-----------------------------------------------------------------------------
(* Properties. *)

\* A produced event stays in the spool until the server has accepted it, or is
\* complete in quarantine, whatever agents crash, race for the claim, lose an
\* answer or meet failing calls.  An event of the hook ends in quarantine only
\* when a read of it failed (one that enqueue published over its own
\* placeholder may be there too).
NoEventLost ==
    /\ \A e \in produced :
          \/ file[e] = "good"
          \/ e \in accepted
          \/ <<e, "good">> \in quarantined
    /\ \A e \in HookEvents : Moved(e) => <<"read", e>> \in faults

\* Nobody will ever take over or remove the claim of e: its creator died or
\* failed before the pid was written, its pid is another process's now, or its
\* live owner failed to remove it.
Abandoned(e) ==
    LET c == claim[e] IN
    \/ /\ c.owner # NoAgent /\ ~c.pid
       /\ c.owner \notin live \/ <<"pid", e>> \in faults
    \/ c.pid /\ c.owner \in taken
    \/ /\ c.pid /\ c.owner \in live /\ e \notin cur[c.owner]
       /\ <<"call", e>> \in faults

\* Every event is accepted in the end, unless its claim is abandoned or a read
\* of it failed and it is in quarantine.
EveryEventAccepted ==
    \A e \in HookEvents :
       file[e] = "good" ~> e \in accepted \/ Abandoned(e) \/ Moved(e)
=============================================================================
