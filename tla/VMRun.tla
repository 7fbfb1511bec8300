------------------------------- MODULE VMRun -------------------------------
(***************************************************************************)
(* One run of a VM: firecracker.StartVM (or startFromSnapshot) on the      *)
(* host, with the goroutine that retries the jobs request and the loop     *)
(* that waits for its result; agentclient.Jobs between them; in the guest  *)
(* the agent's one-shot /jobs handler, the shutdown it starts when it is   *)
(* done, and the init that powers the VM off when the agent exits.         *)
(*                                                                         *)
(* What a batch does inside the guest is abstracted to its verdict.        *)
(***************************************************************************)
EXTENDS Integers

CONSTANTS
    HeaderTimeout,  \* the client's ResponseHeaderTimeout, in ticks
    RunTimeout,     \* the run's timeout, in ticks
    MaxCrashes      \* bound: crashes of the agent or of the VM

ASSUME RunAssumption ==
    /\ HeaderTimeout \in Nat \ {0}
    /\ RunTimeout \in Nat \ {0}
    /\ MaxCrashes \in Nat

VARIABLES
    req,        \* what StartVM is asked: restore a snapshot or boot, and
                \* whether the jobs are within the agent's body limit
    host,       \* StartVM: "start", "wait", "stop" or "returned"
    outcome,    \* what StartVM returns
    client,     \* retryJobs: "off", "dial", "sent", "pause" or "done"
    channel,    \* what the client goroutine put in resultCh or errCh
    expired,    \* runCtx is done
    now,        \* ticks since the VM runs
    sentAt,     \* when the request in flight was sent
    link,       \* the client's connection: "none", "queued", "batch", "late"
    reply,      \* the response that reached the client on it
    abandoned,  \* a request the client gave up before a handler took it
    vm,         \* "off", "on", "term" (stop requested) or "halted"
    agent,      \* "starting", "serving", "closing" or "exited"
    usedJobs,   \* the agent's one-shot flag
    batch,      \* the handler that owns the batch
    verdict,    \* the status of the batch's response
    ran,        \* how often runBatch was entered
    crashes

hostVars == <<req, host, outcome>>
clientVars == <<client, channel, sentAt>>
timeVars == <<expired, now>>
wire == <<link, reply, abandoned>>
guest == <<vm, agent, usedJobs, batch, verdict, ran, crashes>>
vars == <<hostVars, clientVars, timeVars, wire, guest>>

Replies == {"ok", "failed", "gone", "bad"}

Init ==
    /\ req \in [snapshot: BOOLEAN, fits: BOOLEAN]
    /\ host = "start" /\ outcome = "none"
    /\ client = "off" /\ channel = "none"
    /\ expired = FALSE /\ now = 0 /\ sentAt = 0
    /\ link = "none" /\ reply = "none" /\ abandoned = FALSE
    /\ vm = "off" /\ agent = "starting"
    /\ usedJobs = FALSE /\ batch = "none" /\ verdict = "none" /\ ran = 0
    /\ crashes = 0

Alive == vm \in {"on", "term"}

-----------------------------------------------------------------------------
(***************************************************************************)
(* Host.  machine.Start boots the VM; LoadSnapshot resumes one whose agent *)
(* already serves.  From then on the run's timeout counts.                 *)
(***************************************************************************)
StartMachine ==
    /\ host = "start" /\ vm = "off"
    /\ host' = "wait"
    /\ vm' = "on"
    /\ agent' = IF req.snapshot THEN "serving" ELSE "starting"
    /\ client' = "dial"
    /\ UNCHANGED <<req, outcome, channel, sentAt, timeVars, wire, usedJobs, batch,
                   verdict, ran, crashes>>

StartFails ==
    /\ host = "start" /\ vm = "off"
    /\ host' = "returned"
    /\ outcome' = "error"
    /\ UNCHANGED <<req, clientVars, timeVars, wire, guest>>

(* startFromSnapshot does not wait for the process it started: when that is
   gone, waitForSocket polls until the caller's own context is done.  (The
   cold boot's machine.Start has a timeout and fails.) *)
VMMDies ==
    /\ host = "start" /\ vm = "off"
    /\ req.snapshot
    /\ vm' = "halted"
    /\ UNCHANGED <<hostVars, clientVars, timeVars, wire, agent, usedJobs, batch,
                   verdict, ran, crashes>>

CallerGivesUp ==
    /\ host = "start" /\ vm = "halted"
    /\ host' = "returned"
    /\ outcome' = "error"
    /\ UNCHANGED <<req, clientVars, timeVars, wire, guest>>

(***************************************************************************)
(* StartVM selects among the two channels and the expired context; whoever *)
(* is ready may win.  startFromSnapshot calls retryJobs itself and has     *)
(* nothing but its result.  Every way out asks the VMM to stop.            *)
(***************************************************************************)
(* Faulty variant: a way out that leaves the VM to itself. *)
VerdictOnly(o) ==
    /\ outcome' = o
    /\ host' = "stop"
    /\ UNCHANGED vm

Verdict(o) ==
    /\ outcome' = o
    /\ host' = "stop"
    /\ vm' = IF vm = "on" THEN "term" ELSE vm

HostResult ==
    /\ host = "wait"
    /\ \/ channel = "result" /\ Verdict("ok")
       \/ channel = "jobsFailed" /\ Verdict("jobsFailed")
       \/ channel = "expired" /\ Verdict("error")
    /\ UNCHANGED <<req, clientVars, timeVars, wire, agent, usedJobs, batch, verdict,
                   ran, crashes>>

HostTimeout ==
    /\ host = "wait"
    /\ expired
    /\ ~req.snapshot
    /\ Verdict("timeout")
    /\ UNCHANGED <<req, clientVars, timeVars, wire, agent, usedJobs, batch, verdict,
                   ran, crashes>>

(* The bounded wait for the VMM; the deferred cancel ends the client. *)
HostReturn ==
    /\ host = "stop"
    /\ host' = "returned"
    /\ expired' = TRUE
    /\ UNCHANGED <<req, outcome, clientVars, now, wire, guest>>

(* The stop signal, or the deferred kill of a restored VM, arrives. *)
VMMStops ==
    /\ vm = "term"
    /\ vm' = "halted"
    /\ link' = "none"
    /\ UNCHANGED <<hostVars, clientVars, timeVars, reply, abandoned, agent, usedJobs,
                   batch, verdict, ran, crashes>>

-----------------------------------------------------------------------------
(***************************************************************************)
(* Time.  A timer that is due fires before time goes on.                   *)
(***************************************************************************)
HeaderTimerDue == client = "sent" /\ reply = "none" /\ now >= sentAt + HeaderTimeout

(* Faulty variant: the deadline is one tick late. *)
TimeLeftInclusive == now <= RunTimeout

TimeLeft == now < RunTimeout

Tick ==
    /\ host = "wait"
    /\ TimeLeft
    /\ ~HeaderTimerDue
    /\ now' = now + 1
    /\ UNCHANGED <<hostVars, clientVars, expired, wire, guest>>

(* Faulty variant: a context without a timeout, and nobody cancels it. *)
ContextNeverDone == FALSE /\ UNCHANGED vars

(* The run's timeout, or the caller's context is cancelled earlier. *)
ContextDone ==
    /\ host = "wait"
    /\ ~expired
    /\ expired' = TRUE
    /\ UNCHANGED <<hostVars, clientVars, now, wire, guest>>

-----------------------------------------------------------------------------
(***************************************************************************)
(* retryJobs and agentclient.Jobs: dial, send, wait; a JSON answer ends    *)
(* the loop, anything else is retried after a pause until runCtx is done.  *)
(***************************************************************************)
Dial ==
    /\ client = "dial"
    /\ ~expired
    /\ \/ /\ Alive /\ agent = "serving"
          /\ client' = "sent"
          /\ link' = "queued"
          /\ sentAt' = now
       \/ /\ ~(Alive /\ agent = "serving")
          /\ client' = "pause"
          /\ UNCHANGED <<link, sentAt>>
    /\ reply' = "none"
    /\ UNCHANGED <<hostVars, channel, timeVars, abandoned, guest>>

(* A request that no handler has taken yet stays in the agent's queue. *)
HangUp(next) ==
    /\ client' = next
    /\ abandoned' = (abandoned \/ link = "queued")
    /\ link' = "none"
    /\ reply' = "none"

(* Faulty variant: any status the agent sends ends the loop. *)
AnyReplyEnds(r) == TRUE

(* Jobs decodes the body before it looks at the status; 410 and the 400 of
   a body that does not decode are plain text. *)
IsJSON(r) == r \in {"ok", "failed"}

Receive ==
    /\ client = "sent"
    /\ reply # "none"
    /\ \/ /\ IsJSON(reply)
          /\ channel' = IF reply = "failed" THEN "jobsFailed" ELSE "result"
          /\ HangUp("done")
       \/ /\ ~IsJSON(reply)
          /\ HangUp("pause")
          /\ UNCHANGED channel
    /\ UNCHANGED <<hostVars, sentAt, timeVars, guest>>

ConnectionLost ==
    /\ client = "sent"
    /\ reply = "none" /\ link = "none"
    /\ HangUp("pause")
    /\ UNCHANGED <<hostVars, channel, sentAt, timeVars, guest>>

HeaderTimeoutFires ==
    /\ HeaderTimerDue
    /\ HangUp("pause")
    /\ UNCHANGED <<hostVars, channel, sentAt, timeVars, guest>>

Retry ==
    /\ client = "pause"
    /\ ~expired
    /\ client' = "dial"
    /\ UNCHANGED <<hostVars, channel, sentAt, timeVars, wire, guest>>

ClientExpires ==
    /\ client \in {"dial", "sent", "pause"}
    /\ expired
    /\ HangUp("done")
    /\ channel' = "expired"
    /\ UNCHANGED <<hostVars, sentAt, timeVars, guest>>

-----------------------------------------------------------------------------
(***************************************************************************)
(* Guest.  The agent comes up; each connection gets a handler.             *)
(***************************************************************************)
AgentListens ==
    /\ Alive /\ agent = "starting"
    /\ agent' = "serving"
    /\ UNCHANGED <<hostVars, clientVars, timeVars, wire, vm, usedJobs, batch,
                   verdict, ran, crashes>>

(* Faulty variant: the VMM is told to stop and the guest goes on. *)
AgentOutlivesVMM == agent \in {"serving", "closing"}

AgentRuns == Alive /\ agent \in {"serving", "closing"}

(* Faulty variant: the flag is read but not set when the batch is claimed. *)
ClaimUnmarked ==
    /\ ~usedJobs
    /\ UNCHANGED usedJobs

(* The CompareAndSwap of the one-shot flag. *)
Claim ==
    /\ ~usedJobs
    /\ usedJobs' = TRUE

(* The first handler claims the batch; every later one answers 410. *)
HandleJobs ==
    /\ AgentRuns
    /\ link = "queued"
    /\ \/ /\ Claim
          /\ batch' = "decode"
          /\ link' = "batch"
          /\ UNCHANGED reply
       \/ /\ usedJobs
          /\ reply' = "gone"
          /\ link' = "late"
          /\ UNCHANGED <<usedJobs, batch>>
    /\ UNCHANGED <<hostVars, clientVars, timeVars, abandoned, vm, agent, verdict,
                   ran, crashes>>

(* A handler takes a request whose client has gone: it may be the first. *)
HandleAbandoned ==
    /\ AgentRuns
    /\ abandoned
    /\ abandoned' = FALSE
    /\ \/ /\ Claim
          /\ batch' = "decode"
       \/ /\ usedJobs
          /\ UNCHANGED <<usedJobs, batch>>
    /\ UNCHANGED <<hostVars, clientVars, timeVars, link, reply, vm, agent, verdict,
                   ran, crashes>>

(* A body that is too large, or cut off by a client that has gone.  The
   deferred shutdown is not registered yet. *)
DecodeFails ==
    /\ AgentRuns
    /\ batch = "decode"
    /\ ~req.fits \/ link # "batch"
    /\ batch' = "rejected"
    /\ reply' = IF link = "batch" THEN "bad" ELSE reply
    /\ UNCHANGED <<hostVars, clientVars, timeVars, link, abandoned, vm, agent,
                   usedJobs, verdict, ran, crashes>>

DecodeSucceeds ==
    /\ AgentRuns
    /\ batch = "decode"
    /\ req.fits
    /\ batch' = "running"
    /\ ran' = ran + 1
    /\ UNCHANGED <<hostVars, clientVars, timeVars, wire, vm, agent, usedJobs,
                   verdict, crashes>>

(* runBatch returns, the response is encoded into the server's buffer and
   the deferred function starts the shutdown goroutine. *)
BatchEnds ==
    /\ AgentRuns
    /\ batch = "running"
    /\ batch' = "written"
    /\ verdict' \in {"ok", "failed"}
    /\ UNCHANGED <<hostVars, clientVars, timeVars, wire, vm, agent, usedJobs,
                   ran, crashes>>

(* net/http sends the buffer when the handler has returned. *)
Flush ==
    /\ AgentRuns
    /\ batch = "written"
    /\ batch' = "flushed"
    /\ reply' = IF link = "batch" THEN verdict ELSE reply
    /\ UNCHANGED <<hostVars, clientVars, timeVars, link, abandoned, vm, agent,
                   usedJobs, verdict, ran, crashes>>

ShutdownDue == batch \in {"written", "flushed"}

(* Shutdown closes the listener first, which makes Serve return. *)
AgentShutdown ==
    /\ Alive /\ agent = "serving"
    /\ ShutdownDue
    /\ agent' = "closing"
    /\ UNCHANGED <<hostVars, clientVars, timeVars, wire, vm, usedJobs, batch,
                   verdict, ran, crashes>>

Die ==
    /\ agent' = "exited"
    /\ batch' = IF batch \in {"decode", "running"} THEN "killed" ELSE batch
    /\ link' = "none"

(* main returns when Serve does; it does not wait for Shutdown. *)
AgentExits ==
    /\ Alive /\ agent = "closing"
    /\ Die
    /\ UNCHANGED <<hostVars, clientVars, timeVars, reply, abandoned, vm, usedJobs,
                   verdict, ran, crashes>>

AgentCrashes ==
    /\ Alive /\ agent \in {"starting", "serving", "closing"}
    /\ crashes < MaxCrashes
    /\ crashes' = crashes + 1
    /\ Die
    /\ UNCHANGED <<hostVars, clientVars, timeVars, reply, abandoned, vm, usedJobs,
                   verdict, ran>>

(* superviseAgent reaps the agent, whatever ended it; init powers off. *)
PowerOff ==
    /\ Alive /\ agent = "exited"
    /\ vm' = "halted"
    /\ link' = "none"
    /\ UNCHANGED <<hostVars, clientVars, timeVars, reply, abandoned, agent, usedJobs,
                   batch, verdict, ran, crashes>>

-----------------------------------------------------------------------------
HostStep == HostResult \/ HostTimeout \/ HostReturn
ClientStep == Dial \/ Receive \/ ConnectionLost \/ HeaderTimeoutFires
                \/ Retry \/ ClientExpires
GuestStep == AgentListens \/ HandleJobs \/ HandleAbandoned \/ DecodeFails
                \/ DecodeSucceeds \/ Flush \/ PowerOff

(* A returned run, a finished client and a VM that is off stay as they are. *)
Over ==
    /\ host = "returned" /\ client \in {"off", "done"} /\ ~Alive
    /\ UNCHANGED vars

Next ==
    \/ StartMachine \/ StartFails \/ VMMDies \/ CallerGivesUp
    \/ HostStep \/ VMMStops
    \/ Tick \/ ContextDone
    \/ ClientStep
    \/ GuestStep \/ BatchEnds \/ AgentShutdown \/ AgentExits \/ AgentCrashes
    \/ Over

Spec == Init /\ [][Next]_vars

(***************************************************************************)
(* Both machines keep running: the host's goroutines and timers, the       *)
(* signal to the VMM, the guest's handlers, its shutdown goroutine and its *)
(* init.  Nothing obliges a batch to end, a VMM or an agent to die, or a   *)
(* caller to give up.                                                      *)
(***************************************************************************)
FairSpec ==
    /\ Spec
    /\ WF_vars(StartMachine \/ StartFails)
    /\ WF_vars(HostStep) /\ WF_vars(VMMStops)
    /\ WF_vars(ContextDone) /\ WF_vars(ClientStep)
    /\ WF_vars(GuestStep) /\ WF_vars(AgentShutdown) /\ WF_vars(AgentExits)

-----------------------------------------------------------------------------
(* The state spaces of the variables. *)
TypeOK ==
    /\ req \in [snapshot: BOOLEAN, fits: BOOLEAN]
    /\ host \in {"start", "wait", "stop", "returned"}
    /\ outcome \in {"none", "ok", "jobsFailed", "error", "timeout"}
    /\ client \in {"off", "dial", "sent", "pause", "done"}
    /\ channel \in {"none", "result", "jobsFailed", "expired"}
    /\ expired \in BOOLEAN
    /\ now \in 0..RunTimeout
    /\ sentAt \in 0..RunTimeout
    /\ link \in {"none", "queued", "batch", "late"}
    /\ reply \in Replies \cup {"none"}
    /\ abandoned \in BOOLEAN
    /\ vm \in {"off", "on", "term", "halted"}
    /\ agent \in {"starting", "serving", "closing", "exited"}
    /\ usedJobs \in BOOLEAN
    /\ batch \in {"none", "decode", "rejected", "running", "written", "flushed",
                  "killed"}
    /\ verdict \in {"none", "ok", "failed"}
    /\ ran \in Nat
    /\ crashes \in 0..MaxCrashes

(***************************************************************************)
(* The batch is entered at most once, although the host sends the request  *)
(* again after every answer it does not understand, every lost connection  *)
(* and every header timeout, also while the first handler still runs.      *)
(***************************************************************************)
BatchRunsOnce == ran <= 1

(***************************************************************************)
(* StartVM reports a success only when the batch ran and succeeded in the  *)
(* guest, and failed jobs only when the batch ran and a job failed: no     *)
(* refusal, broken connection or timeout is ever taken for a verdict.      *)
(***************************************************************************)
OutcomeIsVerdict ==
    /\ outcome = "ok" => ran = 1 /\ verdict = "ok"
    /\ outcome = "jobsFailed" => ran = 1 /\ verdict = "failed"

(* A StartVM call returns once its VM runs, whatever becomes of the VM. *)
RunReturns == host = "wait" ~> host = "returned"

(***************************************************************************)
(* No VM outlives its run for good, on any way out of StartVM: result,     *)
(* failed jobs, expired retries, timeout.                                  *)
(***************************************************************************)
NoVMLeftRunning == host = "returned" ~> ~Alive

(***************************************************************************)
(* The agent gives the host the response of a batch it has completed: it   *)
(* does not exit while the host still waits for it.                        *)
(***************************************************************************)
ResponseIsDelivered ==
    agent = "exited" /\ crashes = 0 /\ batch = "written" =>
        host # "wait" \/ expired

(***************************************************************************)
(* Before the run's time is over the host does not give up the connection  *)
(* on which its batch runs: giving it up cancels the batch's commands and  *)
(* loses its results.                                                      *)
(***************************************************************************)
HostWaitsForBatch ==
    batch = "running" /\ host = "wait" /\ ~expired /\ Alive => link = "batch"

-----------------------------------------------------------------------------
(* The work is the batch, lost when its agent dies or its machine stops. *)
Work ==
    IF ran = 0 THEN "idle"
    ELSE IF verdict # "none" THEN verdict
    ELSE IF batch = "running" /\ Alive THEN "running" ELSE "lost"

Machine == IF Alive THEN "up" ELSE vm
Told == IF outcome = "timeout" THEN "error" ELSE outcome

Run == INSTANCE OneShotRun WITH machine <- Machine, work <- Work, told <- Told

(***************************************************************************)
(* Every step of a run is a step of the one-shot run or leaves it alone:   *)
(* the batch is never begun again or after the machine stopped, a lost     *)
(* batch gets no verdict later, and neither the verdict nor what StartVM   *)
(* reports is ever revised, whatever the retries, the timers and the       *)
(* crashes do.                                                             *)
(***************************************************************************)
ImplementsRun == Run!Spec
=============================================================================
