----------------------------- MODULE UploadCommands -----------------------------
(***************************************************************************)
(* StudentCoordinator.handle_command: processes that share the spool       *)
(* directory receive the command of one upload request, any number of      *)
(* times.  A claim file gives it to one of them, a SQLite ledger remembers *)
(* that it is complete, and the write lock of the ledger is the mutex of   *)
(* those who look for a claim; the claim is removed without it.            *)
(*                                                                         *)
(* A process may die between any two calls and start again with a pid that *)
(* no live process has.  The uploader is injected; it runs in the process. *)
(***************************************************************************)
EXTENDS Naturals

CONSTANTS
    Procs,        \* processes with a coordinator
    Pids,         \* process ids
    MaxCrashes,   \* bound: processes that die
    Inspectable   \* whether os.kill(pid, 0) can tell if a process lives

\* No process or pid; a claim file without a pid (its writer has not got
\* further); no claim file.
None   == "none"
Empty  == "empty"
NoFile == "nofile"

ASSUME CommandsAssumption ==
    /\ MaxCrashes \in Nat /\ Inspectable \in BOOLEAN
    /\ None \notin Procs
    /\ {None, Empty, NoFile} \cap Pids = {}

VARIABLES
    pid,        \* of a live process, None of a dead one
    step,       \* of its handle_command
    handled,    \* processes that remember the request as handled
    lock,       \* holder of the ledger's write lock
    completed,  \* the request's row in completed_commands
    claim,      \* the .claim file: the pid in it
    crashes,
    maker       \* history: the process that made the claim file, None if it died since

vars == <<pid, step, handled, lock, completed, claim, crashes, maker>>

Steps == {"idle", "lock", "create", "write", "inspect", "replace", "again",
          "upload", "complete", "commit", "release"}

TypeOK ==
    /\ pid \in [Procs -> Pids \cup {None}]
    /\ step \in [Procs -> Steps]
    /\ handled \subseteq Procs
    /\ lock \in Procs \cup {None}
    /\ completed \in BOOLEAN
    /\ claim \in Pids \cup {Empty, NoFile}
    /\ crashes \in 0..MaxCrashes
    /\ maker \in Procs \cup {None}

Init ==
    /\ pid \in {f \in [Procs -> Pids] : \A p, q \in Procs : f[p] = f[q] => p = q}
    /\ step = [p \in Procs |-> "idle"]
    /\ handled = {}
    /\ lock = None /\ completed = FALSE
    /\ claim = NoFile /\ maker = None
    /\ crashes = 0

Alive == {pid[p] : p \in Procs} \ {None}

Go(p, s) == step' = [step EXCEPT ![p] = s]

-----------------------------------------------------------------------------
(* Claiming. *)

\* A command for this request that is neither handled nor in flight here.
Receive(p) ==
    /\ pid[p] # None /\ step[p] = "idle" /\ p \notin handled
    /\ Go(p, "lock")
    /\ UNCHANGED <<pid, handled, lock, completed, claim, crashes, maker>>

\* Mutant: only the process itself remembers what is complete.
LockUnchecked(p) ==
    /\ step[p] = "lock"
    /\ \/ lock = None /\ lock' = p /\ Go(p, "create")
       \/ lock # None /\ lock' = lock /\ Go(p, "idle")
    /\ UNCHANGED <<pid, handled, completed, claim, crashes, maker>>

\* _open_claim_lock does not wait for the lock; a completed request is refused.
Lock(p) ==
    /\ step[p] = "lock"
    /\ \/ lock = None /\ ~completed /\ lock' = p /\ Go(p, "create")
       \/ lock # None /\ lock' = lock /\ Go(p, "idle")
       \/ lock = None /\ completed /\ lock' = lock /\ Go(p, "idle")
    /\ UNCHANGED <<pid, handled, completed, claim, crashes, maker>>

\* _write_marker creates the file exclusively; the second attempt is the last.
Create(p) ==
    /\ step[p] \in {"create", "again"}
    /\ \/ /\ claim = NoFile /\ claim' = Empty /\ maker' = p
          /\ Go(p, "write") /\ lock' = lock
       \/ /\ claim # NoFile /\ step[p] = "create"
          /\ Go(p, "inspect") /\ UNCHANGED <<claim, maker, lock>>
       \/ /\ claim # NoFile /\ step[p] = "again"
          /\ Go(p, "idle") /\ lock' = None /\ UNCHANGED <<claim, maker>>
    /\ UNCHANGED <<pid, handled, completed, crashes>>

\* Mutant: the claim names the coordinator instead of its process id.
WriteName(p) ==
    /\ step[p] = "write"
    /\ lock' = None /\ Go(p, "upload")
    /\ claim' = p
    /\ UNCHANGED <<pid, handled, completed, crashes, maker>>

\* The pid is written and synced, or the file is removed again if it is still
\* the one that was created; then the lock is given back.
Write(p) ==
    /\ step[p] = "write"
    /\ lock' = None
    /\ \/ /\ Go(p, "upload") /\ maker' = maker
          /\ claim' = IF claim = Empty /\ maker = p THEN pid[p] ELSE claim
       \/ /\ Go(p, "idle")
          /\ IF claim = Empty /\ maker = p THEN claim' = NoFile /\ maker' = None
             ELSE UNCHANGED <<claim, maker>>
    /\ UNCHANGED <<pid, handled, completed, crashes>>

\* Mutant: a claim may be old whoever its owner is.
StaleByAge(p) == claim \in Pids \ {pid[p]}

\* _stale_upload_claim: its owner is certainly dead, or, where that cannot be
\* known, the claim may be old.  A file that cannot be read is kept.
Stale(p) ==
    /\ claim \in Pids \ {pid[p]}
    /\ Inspectable => claim \notin Alive

Inspect(p) ==
    /\ step[p] = "inspect"
    /\ \/ Stale(p) /\ Go(p, "replace") /\ lock' = lock
       \/ ~(Stale(p) /\ Inspectable) /\ Go(p, "idle") /\ lock' = None
    /\ UNCHANGED <<pid, handled, completed, claim, crashes, maker>>

\* The stale file is renamed away, if there is still one.
Replace(p) ==
    /\ step[p] = "replace"
    /\ \/ claim = NoFile /\ Go(p, "idle") /\ lock' = None
       \/ claim # NoFile /\ Go(p, "again") /\ lock' = lock
    /\ claim' = NoFile /\ maker' = None
    /\ UNCHANGED <<pid, handled, completed, crashes>>

-----------------------------------------------------------------------------
(* Uploading and completing. *)

\* Mutant: the claim is given back only after a success.
UploadKeepsClaim(p) ==
    /\ step[p] = "upload"
    /\ Go(p, "complete") \/ Go(p, "idle")
    /\ UNCHANGED <<pid, handled, lock, completed, claim, crashes, maker>>

\* The uploader returns, or raises.
Upload(p) ==
    /\ step[p] = "upload"
    /\ Go(p, "complete") \/ Go(p, "release")
    /\ UNCHANGED <<pid, handled, lock, completed, claim, crashes, maker>>

\* _mark_upload_request_complete: a lock that is held by another process
\* makes the command fail, although the upload is done.
Complete(p) ==
    /\ step[p] = "complete"
    /\ \/ lock = None /\ lock' = p /\ Go(p, "commit")
       \/ lock # None /\ lock' = lock /\ Go(p, "release")
    /\ UNCHANGED <<pid, handled, completed, claim, crashes, maker>>

\* The commit may fail.
Commit(p) ==
    /\ step[p] = "commit"
    /\ lock' = None /\ Go(p, "release")
    /\ \/ completed' = TRUE /\ handled' = handled \cup {p}
       \/ ~completed /\ UNCHANGED <<completed, handled>>
    /\ UNCHANGED <<pid, claim, crashes, maker>>

\* In every case the claim is unlinked, by its name.
Release(p) ==
    /\ step[p] = "release"
    /\ claim' = NoFile /\ maker' = None
    /\ Go(p, "idle")
    /\ UNCHANGED <<pid, handled, lock, completed, crashes>>

-----------------------------------------------------------------------------

\* A dead process leaves its claim; SQLite frees the lock.
Crash(p) ==
    /\ pid[p] # None /\ crashes < MaxCrashes
    /\ crashes' = crashes + 1
    /\ pid' = [pid EXCEPT ![p] = None]
    /\ Go(p, "idle")
    /\ handled' = handled \ {p}
    /\ lock' = IF lock = p THEN None ELSE lock
    /\ maker' = IF maker = p THEN None ELSE maker
    /\ UNCHANGED <<completed, claim>>

Start(p) ==
    /\ pid[p] = None
    /\ \E i \in Pids \ Alive : pid' = [pid EXCEPT ![p] = i]
    /\ UNCHANGED <<step, handled, lock, completed, claim, crashes, maker>>

Claiming(p)   == Lock(p) \/ Create(p) \/ Write(p) \/ Inspect(p) \/ Replace(p)
Completing(p) == Upload(p) \/ Complete(p) \/ Commit(p) \/ Release(p)

Next == \E p \in Procs : Receive(p) \/ Claiming(p) \/ Completing(p) \/ Crash(p) \/ Start(p)

Spec == Init /\ [][Next]_vars

-----------------------------------------------------------------------------
(* Properties. *)

\* While it holds the claim, from writing it to removing it.
AtWork(p) == step[p] \in {"upload", "complete", "commit", "release"}

\* One process at a time works on the request, where it can be seen whether
\* the owner of a claim lives: neither a take-over nor the removal of a claim
\* by its name lets a second one in.
ExclusiveUpload ==
    Inspectable => \A p, q \in Procs : AtWork(p) /\ AtWork(q) => p = q

\* "Run a supported mentor command once": a request whose completion is in the
\* ledger is not uploaded again, by whichever process, now or after restarts.
NotAgain ==
    [][completed => \A p \in Procs : step'[p] = "upload" => step[p] = "upload"]_vars

\* A claim that stays belongs to a process at work or is left by one that
\* died: whatever fails, the request can be tried again.
ClaimIsOwned ==
    Inspectable /\ claim # NoFile /\ maker = None => crashes > 0
ClaimReleased ==
    Inspectable /\ maker # None => AtWork(maker) \/ step[maker] = "write"

NothingLeft == ClaimIsOwned /\ ClaimReleased

=============================================================================
