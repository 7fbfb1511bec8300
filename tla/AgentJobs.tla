----------------------------- MODULE AgentJobs -----------------------------
(***************************************************************************)
(* How the guest agent runs the batch it has taken (runBatch): the jobs in *)
(* order, the upload limits of write_file, and exec with its process       *)
(* group, its deadline, the client that may hang up, and the capture of    *)
(* the output.                                                             *)
(*                                                                         *)
(* A command is its leader, the process the agent starts, and the          *)
(* processes the leader leaves behind in its group.  The agent waits for   *)
(* the leader and for everyone who holds the output pipe.                  *)
(***************************************************************************)
EXTENDS Integers, Sequences, FiniteSets, FiniteSetsExt

CONSTANTS
    Batches,        \* the batches considered: sequences of jobs
    MaxFileBytes,   \* limit of one uploaded file
    MaxBodyBytes,   \* limit of all files of a batch
    OutputLimit,    \* bytes of a stream that are kept
    Children,       \* processes a leader may leave behind
    Streams,        \* stdout and stderr
    Chunks,         \* sizes of one write to a stream
    MaxOutput       \* bound: bytes a command writes to a stream

Types == {"mkdir", "write_file", "exec", "unknown"}

(* valid: the path, mode, contents or argv pass the agent's checks. *)
Job == [type: Types, valid: BOOLEAN, bytes: Nat]

ASSUME BatchAssumption == Batches \subseteq Seq(Job)

ASSUME LimitAssumption ==
    /\ MaxFileBytes \in Nat /\ MaxBodyBytes \in Nat
    /\ OutputLimit \in Nat /\ MaxOutput \in Nat
    /\ Chunks \subseteq Nat \ {0}

VARIABLES
    jobs,       \* the batch
    phase,      \* "check", "next", "exec" or "done"
    at,         \* the job at work
    results,
    status,     \* the response's status, 0 before there is one
    uploaded,   \* bytes counted against MaxBodyBytes
    written,    \* the write_file jobs that wrote
    hungUp,     \* the client is gone
    leader,     \* the leader of the command at work: "running" or "exited"
    cause,      \* why its context ended: "none", "deadline" or "canceled"
    procs,      \* the children, by job: "none", "pipe", "quiet" or "gone"
    produced,   \* bytes written to each stream
    captured    \* bytes kept of each stream

batchVars == <<jobs, at, results, status>>
uploads == <<uploaded, written>>
command == <<leader, cause>>
output == <<produced, captured>>
vars == <<batchVars, phase, uploads, hungUp, command, procs, output>>

Init ==
    /\ jobs \in Batches
    /\ phase = "check" /\ at = 1
    /\ results = <<>> /\ status = 0
    /\ uploaded = 0 /\ written = {}
    /\ hungUp = FALSE
    /\ leader = "exited" /\ cause = "none"
    /\ procs = [k \in DOMAIN jobs |-> [c \in Children |-> "none"]]
    /\ produced = [s \in Streams |-> 0]
    /\ captured = [s \in Streams |-> 0]

-----------------------------------------------------------------------------
(* The version, the workspace and the list of jobs are checked first. *)
RejectBatch ==
    /\ phase = "check"
    /\ phase' = "done"
    /\ results' = <<[ok |-> FALSE, timedOut |-> FALSE]>>
    /\ status' = 400
    /\ UNCHANGED <<jobs, at, uploads, hungUp, command, procs, output>>

AcceptBatch ==
    /\ phase = "check"
    /\ jobs # <<>>
    /\ phase' = "next"
    /\ UNCHANGED <<batchVars, uploads, hungUp, command, procs, output>>

(* Faulty variant: the loop goes on after a failed job. *)
JobEndsAnyway(ok, timedOut) ==
    /\ results' = Append(results, [ok |-> ok, timedOut |-> timedOut])
    /\ at' = at + 1
    /\ phase' = IF at < Len(jobs) THEN "next" ELSE "done"
    /\ status' = IF at < Len(jobs) THEN 0 ELSE IF ok THEN 200 ELSE 400
    /\ UNCHANGED jobs

(* The loop of runBatch: a failed job ends it. *)
JobEnds(ok, timedOut) ==
    /\ results' = Append(results, [ok |-> ok, timedOut |-> timedOut])
    /\ at' = at + 1
    /\ phase' = IF ok /\ at < Len(jobs) THEN "next" ELSE "done"
    /\ status' = IF ~ok THEN 400 ELSE IF at < Len(jobs) THEN 0 ELSE 200
    /\ UNCHANGED jobs

AtJob(type) == phase = "next" /\ jobs[at].type = type

Mkdir ==
    /\ AtJob("mkdir")
    /\ \/ jobs[at].valid /\ JobEnds(TRUE, FALSE)
       \/ JobEnds(FALSE, FALSE)
    /\ UNCHANGED <<uploads, hungUp, command, procs, output>>

UnknownJob ==
    /\ AtJob("unknown")
    /\ JobEnds(FALSE, FALSE)
    /\ UNCHANGED <<uploads, hungUp, command, procs, output>>

-----------------------------------------------------------------------------
(* Faulty variant: each file is compared with the limit of the batch. *)
BatchHasRoomForFile(bytes) == bytes <= MaxBodyBytes

(* The total counts the file at hand, and it is what is compared. *)
BatchHasRoom(bytes) == uploaded + bytes <= MaxBodyBytes

(* Refused by the checks on the job itself: nothing is counted. *)
WriteRefused ==
    /\ AtJob("write_file")
    /\ ~jobs[at].valid \/ jobs[at].bytes > MaxFileBytes
    /\ JobEnds(FALSE, FALSE)
    /\ UNCHANGED <<uploads, hungUp, command, procs, output>>

WriteCounted ==
    /\ AtJob("write_file")
    /\ jobs[at].valid /\ jobs[at].bytes <= MaxFileBytes
    /\ uploaded' = uploaded + jobs[at].bytes
    /\ \/ /\ ~BatchHasRoom(jobs[at].bytes)
          /\ JobEnds(FALSE, FALSE)
          /\ UNCHANGED written
       \/ /\ BatchHasRoom(jobs[at].bytes)
          /\ \E ok \in BOOLEAN :                \* parents, symlinks, I/O, chown
               /\ JobEnds(ok, FALSE)
               /\ written' \in IF ok THEN {written \cup {at}}
                               ELSE {written, written \cup {at}}
    /\ UNCHANGED <<hungUp, command, procs, output>>

-----------------------------------------------------------------------------
(* The command starts in a process group of its own. *)
ExecStart ==
    /\ AtJob("exec")
    /\ jobs[at].valid /\ ~hungUp
    /\ phase' = "exec"
    /\ leader' = "running" /\ cause' = "none"
    /\ produced' = [s \in Streams |-> 0]
    /\ captured' = [s \in Streams |-> 0]
    /\ UNCHANGED <<batchVars, uploads, hungUp, procs>>

(* A check fails, the program cannot be started, or the client is gone. *)
ExecFails ==
    /\ AtJob("exec")
    /\ JobEnds(FALSE, FALSE)
    /\ UNCHANGED <<uploads, hungUp, command, procs, output>>

(* The group of a job, and those of it who hold the output pipe. *)
Live(k) == {c \in Children : procs[k][c] \in {"pipe", "quiet"}}
Holders(k) == {c \in Children : procs[k][c] = "pipe"}

(* The processes: fork, redirect, exit; the leader exits. *)
Fork(c) ==
    /\ phase = "exec" /\ leader = "running"
    /\ procs[at][c] = "none"
    /\ procs' = [procs EXCEPT ![at][c] = "pipe"]
    /\ UNCHANGED <<batchVars, phase, uploads, hungUp, command, output>>

Redirect(k, c) ==
    /\ procs[k][c] = "pipe"
    /\ procs' = [procs EXCEPT ![k][c] = "quiet"]
    /\ UNCHANGED <<batchVars, phase, uploads, hungUp, command, output>>

ChildExits(k, c) ==
    /\ c \in Live(k)
    /\ procs' = [procs EXCEPT ![k][c] = "gone"]
    /\ UNCHANGED <<batchVars, phase, uploads, hungUp, command, output>>

LeaderExits ==
    /\ phase = "exec" /\ leader = "running"
    /\ leader' = "exited"
    /\ UNCHANGED <<batchVars, phase, uploads, hungUp, cause, procs, output>>

(* Faulty variant: a write that does not fit is dropped whole. *)
KeepWholeWrites(kept, n) == IF kept + n <= OutputLimit THEN kept + n ELSE kept

(* limitedBuffer.Write: keep what still fits, accept the rest. *)
Keep(kept, n) ==
    LET remaining == OutputLimit - kept
    IN  IF remaining <= 0 THEN kept
        ELSE IF n > remaining THEN kept + remaining
        ELSE kept + n

Output(s, n) ==
    /\ phase = "exec"
    /\ leader = "running" \/ Holders(at) # {}
    /\ produced[s] + n <= MaxOutput
    /\ produced' = [produced EXCEPT ![s] = @ + n]
    /\ captured' = [captured EXCEPT ![s] = Keep(@, n)]
    /\ UNCHANGED <<batchVars, phase, uploads, hungUp, command, procs>>

(* Faulty variant: the deadline is noted but kills nobody. *)
ContextSpares(why) ==
    /\ cause' = IF phase = "exec" /\ cause = "none" THEN why ELSE cause
    /\ UNCHANGED leader

(* Faulty variant: the leader is killed and not reaped. *)
ContextLeavesZombie(why) ==
    /\ cause' = IF phase = "exec" /\ cause = "none" THEN why ELSE cause
    /\ leader' = IF phase = "exec" THEN "zombie" ELSE leader

(***************************************************************************)
(* The end of the command's context kills the leader and nobody else.      *)
(***************************************************************************)
ContextEnds(why) ==
    /\ cause' = IF phase = "exec" /\ cause = "none" THEN why ELSE cause
    /\ leader' = IF phase = "exec" THEN "exited" ELSE leader

Deadline ==
    /\ phase = "exec" /\ cause = "none"
    /\ ContextEnds("deadline")
    /\ UNCHANGED <<batchVars, phase, uploads, hungUp, procs, output>>

HangUp ==
    /\ phase # "done" /\ ~hungUp
    /\ hungUp' = TRUE
    /\ ContextEnds("canceled")
    /\ UNCHANGED <<batchVars, phase, uploads, procs, output>>

(* Faulty variant: the group outlives the leader. *)
SpareGroup(k) == procs

(* SIGKILL to the process group. *)
KillGroup(k) ==
    [procs EXCEPT ![k] = [c \in Children |-> IF c \in Live(k) THEN "gone"
                                             ELSE procs[k][c]]]

(***************************************************************************)
(* cmd.Run returns when the leader is reaped and the pipes are at their    *)
(* end; only then is the deadline looked at and the group killed.  A       *)
(* command that ends well just as the client hangs up counts as failed.    *)
(***************************************************************************)
ExecReturns ==
    /\ phase = "exec"
    /\ leader = "exited" /\ Holders(at) = {}
    /\ LET timedOut == cause = "deadline"
       IN  /\ procs' = IF timedOut THEN KillGroup(at) ELSE procs
           /\ \/ JobEnds(TRUE, timedOut)
              \/ cause = "canceled" /\ JobEnds(FALSE, FALSE)
    /\ UNCHANGED <<uploads, hungUp, command, output>>

-----------------------------------------------------------------------------
(* What the agent does, and what the processes it started do. *)
Agent ==
    \/ RejectBatch \/ AcceptBatch \/ Mkdir \/ UnknownJob
    \/ WriteRefused \/ WriteCounted \/ ExecStart \/ ExecFails \/ ExecReturns

Processes ==
    \/ LeaderExits
    \/ \E c \in Children : Fork(c)
    \/ \E k \in DOMAIN jobs, c \in Children : Redirect(k, c) \/ ChildExits(k, c)
    \/ \E s \in Streams, n \in Chunks : Output(s, n)

(* The response is out. *)
Over ==
    /\ phase = "done"
    /\ UNCHANGED vars

Next == Agent \/ Processes \/ Deadline \/ HangUp \/ Over

Spec == Init /\ [][Next]_vars

(***************************************************************************)
(* The agent's goroutine runs and the deadline's timer fires.  Nothing     *)
(* obliges a process to exit.                                              *)
(***************************************************************************)
FairSpec == Spec /\ WF_vars(Agent) /\ WF_vars(Deadline)

(* As FairSpec, for commands that leave behind only processes that exit. *)
TameSpec ==
    /\ FairSpec
    /\ WF_vars(\E k \in DOMAIN jobs, c \in Children : ChildExits(k, c))

-----------------------------------------------------------------------------
(* The state spaces of the variables. *)
TypeOK ==
    /\ jobs \in Batches
    /\ phase \in {"check", "next", "exec", "done"}
    /\ at \in 1..Len(jobs) + 1
    /\ results \in Seq([ok: BOOLEAN, timedOut: BOOLEAN])
    /\ status \in {0, 200, 400}
    /\ uploaded \in Nat
    /\ written \subseteq DOMAIN jobs
    /\ hungUp \in BOOLEAN
    /\ leader \in {"running", "exited"}
    /\ cause \in {"none", "deadline", "canceled"}
    /\ procs \in [DOMAIN jobs -> [Children -> {"none", "pipe", "quiet", "gone"}]]
    /\ produced \in [Streams -> 0..MaxOutput]
    /\ captured \in [Streams -> Nat]

(***************************************************************************)
(* The status tells the host what happened: 200 when every job of the      *)
(* batch has a successful result; 400 when the last result is the first    *)
(* failure and no later job was started.                                   *)
(***************************************************************************)
StatusIsVerdict ==
    /\ status = 200 => /\ Len(results) = Len(jobs)
                       /\ \A k \in DOMAIN results : results[k].ok
    /\ status = 400 => /\ ~results[Len(results)].ok
                       /\ \A k \in 1..Len(results) - 1 : results[k].ok

(***************************************************************************)
(* The files of a batch, one by one and all together, stay under their     *)
(* limits, also when a job fails half way.                                 *)
(***************************************************************************)
UploadsAreBounded ==
    /\ \A k \in written : jobs[k].bytes <= MaxFileBytes
    /\ MapThenSumSet(LAMBDA k : jobs[k].bytes, written) <= MaxBodyBytes

(***************************************************************************)
(* What is kept of a stream is its beginning, up to the limit and not a    *)
(* byte less, however the command cuts its output into writes.             *)
(***************************************************************************)
CaptureIsPrefix ==
    \A s \in Streams :
        captured[s] = IF produced[s] <= OutputLimit THEN produced[s] ELSE OutputLimit

(* No process of a job that is reported as timed out is left in its group. *)
TimedOutGroupIsDead ==
    \A k \in DOMAIN results : results[k].timedOut => Live(k) = {}

(***************************************************************************)
(* The batch ends if its processes do: whatever times out, hangs up or     *)
(* forks, the agent gets to its response.                                  *)
(***************************************************************************)
BatchEnds == <>(phase = "done")

(* The deadline of a command brings its whole group down. *)
TimeoutKillsGroup ==
    phase = "exec" /\ cause = "deadline" ~> phase # "exec" \/ Live(at) = {}
=============================================================================
