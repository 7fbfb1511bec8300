---------------------------- MODULE VMRunProofs ----------------------------
(***************************************************************************)
(* Proofs about VMRun for cold boots and restores, every pair of timeouts  *)
(* and any number of retries and crashes.                                  *)
(***************************************************************************)
EXTENDS VMRun, TLAPS

(***************************************************************************)
(* How far the batch is, and how often it was entered.  A batch the agent  *)
(* died in may or may not have been entered.                               *)
(***************************************************************************)
BatchInv ==
    /\ ~usedJobs => batch = "none"
    /\ batch \in {"none", "decode", "rejected"} => ran = 0
    /\ batch \in {"running", "written", "flushed"} => ran = 1
    /\ ran \in {0, 1}

(* The verdict is given once, when the batch ends. *)
VerdictInv ==
    /\ verdict # "none" => batch \in {"written", "flushed"}
    /\ batch = "written" => verdict # "none"

(* The verdict travels unchanged from the guest to the caller. *)
PathInv ==
    /\ reply = "ok" \/ channel = "result" \/ outcome = "ok" => verdict = "ok"
    /\ reply = "failed" \/ channel = "jobsFailed" \/ outcome = "jobsFailed" =>
          verdict = "failed"

Inv == TypeOK /\ BatchInv /\ VerdictInv /\ PathInv

-----------------------------------------------------------------------------
(* The invariant holds before the VM is started. *)
LEMMA InvInit == Init => Inv
<1> SUFFICES ASSUME Init PROVE Inv
  OBVIOUS
<1>1. now \in 0..RunTimeout /\ sentAt \in 0..RunTimeout /\ crashes \in 0..MaxCrashes
      /\ ran \in Nat
  BY RunAssumption DEF Init
<1>2. TypeOK
  BY <1>1 DEF Init, TypeOK
<1>3. BatchInv /\ VerdictInv /\ PathInv
  BY DEF Init, BatchInv, VerdictInv, PathInv
<1> QED
  BY <1>2, <1>3 DEF Inv

(* Each step keeps the variables in their state spaces. *)
LEMMA TypeNext ==
    ASSUME Inv, [Next]_vars
    PROVE  TypeOK'
<1> USE RunAssumption DEF Inv, TypeOK, Replies, hostVars, clientVars, timeVars, wire,
        guest
<1>1. CASE StartMachine \/ StartFails \/ VMMDies \/ CallerGivesUp
  BY <1>1 DEF StartMachine, StartFails, VMMDies, CallerGivesUp
<1>2. CASE HostStep \/ VMMStops
  <2>1. CASE HostResult \/ HostTimeout
    BY <2>1 DEF HostResult, HostTimeout, Verdict
  <2>2. CASE HostReturn
    BY <2>2 DEF HostReturn
  <2>3. CASE VMMStops
    BY <2>3 DEF VMMStops
  <2> QED
    BY <1>2, <2>1, <2>2, <2>3 DEF HostStep
<1>3. CASE Tick \/ ContextDone
  <2>1. CASE Tick
    BY <2>1 DEF Tick, TimeLeft
  <2>2. CASE ContextDone
    BY <2>2 DEF ContextDone
  <2> QED
    BY <1>3, <2>1, <2>2
<1>4. CASE ClientStep
  <2>1. CASE Dial \/ Retry
    BY <2>1 DEF Dial, Retry
  <2>2. CASE Receive \/ ConnectionLost \/ HeaderTimeoutFires \/ ClientExpires
    <3>1. abandoned' \in BOOLEAN
      BY <2>2, Zenon DEF Receive, ConnectionLost, HeaderTimeoutFires, ClientExpires, HangUp
    <3>2. /\ client' \in {"pause", "done"} /\ link' = "none" /\ reply' = "none"
          /\ channel' \in {channel, "result", "jobsFailed", "expired"}
          /\ UNCHANGED <<hostVars, sentAt, timeVars, guest>>
      BY <2>2 DEF Receive, ConnectionLost, HeaderTimeoutFires, ClientExpires, HangUp
    <3> QED
      BY <3>1, <3>2
  <2> QED
    BY <1>4, <2>1, <2>2 DEF ClientStep
<1>5. CASE AgentListens \/ HandleJobs \/ HandleAbandoned \/ DecodeFails \/ PowerOff
  <2>1. CASE AgentListens \/ PowerOff
    BY <2>1 DEF AgentListens, PowerOff
  <2>2. CASE HandleJobs
    <3>1. usedJobs' \in BOOLEAN
      <4>1. usedJobs' = TRUE \/ usedJobs' = usedJobs
        BY <2>2, Zenon DEF HandleJobs, Claim
      <4> QED
        BY <4>1, Zenon
    <3>2. link' \in {"batch", "late"} /\ batch' \in {batch, "decode"}
              /\ reply' \in {reply, "gone"}
      BY <2>2, Zenon DEF HandleJobs
    <3>3. UNCHANGED <<req, host, outcome, client, channel, sentAt, expired, now, abandoned,
                      vm, agent, verdict, ran, crashes>>
      BY <2>2, Zenon DEF HandleJobs
    <3> QED
      BY <3>1, <3>2, <3>3
  <2>4. CASE HandleAbandoned
    <3>1. usedJobs' \in BOOLEAN /\ abandoned' \in BOOLEAN
      <4>1. (usedJobs' = TRUE \/ usedJobs' = usedJobs) /\ abandoned' = FALSE
        BY <2>4, Zenon DEF HandleAbandoned, Claim
      <4> QED
        BY <4>1, Zenon
    <3>2. batch' \in {batch, "decode"}
      BY <2>4, Zenon DEF HandleAbandoned
    <3>3. UNCHANGED <<req, host, outcome, client, channel, sentAt, expired, now, link,
                      reply, vm, agent, verdict, ran, crashes>>
      BY <2>4, Zenon DEF HandleAbandoned
    <3> QED
      BY <3>1, <3>2, <3>3
  <2>3. CASE DecodeFails
    BY <2>3 DEF DecodeFails
  <2> QED
    BY <1>5, <2>1, <2>2, <2>3, <2>4
<1>6. CASE DecodeSucceeds \/ BatchEnds \/ Flush
  BY <1>6 DEF DecodeSucceeds, BatchEnds, Flush
<1>7. CASE AgentShutdown \/ AgentExits \/ AgentCrashes
  BY <1>7 DEF AgentShutdown, AgentExits, AgentCrashes, Die
<1>8. CASE Over \/ UNCHANGED vars
  BY <1>8 DEF Over, vars
<1> QED
  BY <1>1, <1>2, <1>3, <1>4, <1>5, <1>6, <1>7, <1>8 DEF Next, GuestStep

(* Steps of the host and of the client leave the batch alone. *)
LEMMA HostKeepsBatch ==
    ASSUME Inv,
           \/ StartMachine \/ StartFails \/ VMMDies \/ CallerGivesUp
           \/ HostStep \/ VMMStops
           \/ Tick \/ ContextDone \/ ClientStep \/ Over \/ UNCHANGED vars
    PROVE  BatchInv' /\ VerdictInv' /\ PathInv'
<1> USE DEF Inv, hostVars, clientVars, timeVars, wire, guest, vars
<1>1. UNCHANGED <<usedJobs, batch, verdict, ran, crashes>>
  BY DEF StartMachine, StartFails, VMMDies, CallerGivesUp, HostStep, HostResult,
         HostTimeout, HostReturn,
         Verdict, VMMStops, Tick, ContextDone, ClientStep, Dial, Receive,
         ConnectionLost, HeaderTimeoutFires, Retry, ClientExpires, HangUp, Over
<1>2. agent' = agent \/ agent' \in {"starting", "serving"}
  BY DEF StartMachine, StartFails, VMMDies, CallerGivesUp, HostStep, HostResult,
         HostTimeout, HostReturn,
         Verdict, VMMStops, Tick, ContextDone, ClientStep, Dial, Receive,
         ConnectionLost, HeaderTimeoutFires, Retry, ClientExpires, HangUp, Over
<1>3. PathInv'
  <2>1. CASE HostStep
    BY <2>1 DEF HostStep, HostResult, HostTimeout, HostReturn, Verdict, PathInv
  <2>2. CASE ClientStep
    BY <2>2 DEF ClientStep, Dial, Receive, IsJSON, ConnectionLost,
                HeaderTimeoutFires, Retry, ClientExpires, HangUp, PathInv
  <2>3. CASE StartMachine \/ StartFails \/ VMMDies \/ CallerGivesUp
             \/ VMMStops \/ Tick \/ ContextDone \/ Over \/ UNCHANGED vars
    BY <2>3 DEF StartMachine, StartFails, VMMDies, CallerGivesUp, VMMStops, Tick,
                ContextDone, Over, PathInv
  <2> QED
    BY <2>1, <2>2, <2>3
<1> QED
  BY <1>1, <1>2, <1>3 DEF BatchInv, VerdictInv

(* Steps of the guest move the batch forward, once. *)
LEMMA GuestKeepsBatch ==
    ASSUME Inv,
           GuestStep \/ BatchEnds \/ AgentShutdown \/ AgentExits \/ AgentCrashes
    PROVE  BatchInv' /\ VerdictInv' /\ PathInv'
<1> USE DEF Inv, TypeOK, BatchInv, VerdictInv, PathInv,
        hostVars, clientVars, timeVars, wire, guest
<1>1. CASE AgentListens \/ PowerOff
  BY <1>1 DEF AgentListens, PowerOff
<1>2. CASE HandleJobs \/ HandleAbandoned
  BY <1>2 DEF HandleJobs, HandleAbandoned, Claim, AgentRuns
<1>3. CASE DecodeFails \/ DecodeSucceeds
  BY <1>3 DEF DecodeFails, DecodeSucceeds, AgentRuns
<1>4. CASE BatchEnds
  BY <1>4 DEF BatchEnds, AgentRuns
<1>5. CASE Flush
  BY <1>5 DEF Flush, AgentRuns
<1>6. CASE AgentShutdown
  BY <1>6 DEF AgentShutdown, ShutdownDue
<1>7. CASE AgentExits \/ AgentCrashes
  BY <1>7 DEF AgentExits, AgentCrashes, Die
<1> QED
  BY <1>1, <1>2, <1>3, <1>4, <1>5, <1>6, <1>7 DEF GuestStep

(* The invariant is inductive. *)
LEMMA InvNext == Inv /\ [Next]_vars => Inv'
<1> SUFFICES ASSUME Inv, [Next]_vars PROVE Inv'
  OBVIOUS
<1>1. TypeOK'
  BY TypeNext
<1>2. BatchInv' /\ VerdictInv' /\ PathInv'
  BY HostKeepsBatch, GuestKeepsBatch DEF Next
<1> QED
  BY <1>1, <1>2 DEF Inv

(* The inductive invariant holds in every reachable state. *)
LEMMA Invariance == Spec => []Inv
BY InvInit, InvNext, PTL DEF Spec

(* Type correctness of a run, for every pair of timeouts. *)
THEOREM TypeCorrect == Spec => []TypeOK
<1>1. Inv => TypeOK
  BY DEF Inv
<1> QED
  BY <1>1, Invariance, PTL

(***************************************************************************)
(* However often retryJobs sends the request, the one-shot flag lets the   *)
(* batch in at most once.                                                  *)
(***************************************************************************)
THEOREM BatchIsNotRepeated == Spec => []BatchRunsOnce
<1>1. Inv => BatchRunsOnce
  BY DEF Inv, BatchInv, BatchRunsOnce
<1> QED
  BY <1>1, Invariance, PTL

(***************************************************************************)
(* The outcome StartVM reports is the verdict the guest reached.           *)
(***************************************************************************)
THEOREM OutcomeIsGenuine == Spec => []OutcomeIsVerdict
<1>1. Inv => OutcomeIsVerdict
  BY DEF Inv, TypeOK, BatchInv, VerdictInv, PathInv, OutcomeIsVerdict
<1> QED
  BY <1>1, Invariance, PTL

-----------------------------------------------------------------------------
(* Nothing runs before the machine does, and the outcome is set once. *)
LifeInv ==
    /\ vm = "off" => ran = 0
    /\ host = "start" => vm \in {"off", "halted"}
    /\ host \in {"start", "wait"} => outcome = "none"

(* What a step does to the machine, the batch and the outcome. *)
LEMMA LifeNext == Inv /\ LifeInv /\ [Next]_vars => LifeInv'
<1> SUFFICES ASSUME Inv, LifeInv, [Next]_vars PROVE LifeInv'
  OBVIOUS
<1> USE DEF Inv, TypeOK, LifeInv, Alive, hostVars, clientVars, timeVars, wire, guest
<1>1. CASE StartMachine \/ StartFails \/ VMMDies \/ CallerGivesUp
  BY <1>1 DEF StartMachine, StartFails, VMMDies, CallerGivesUp
<1>2. CASE HostStep \/ VMMStops
  BY <1>2 DEF HostStep, HostResult, HostTimeout, HostReturn, Verdict, VMMStops
<1>3. CASE Tick \/ ContextDone \/ ClientStep
  BY <1>3 DEF Tick, ContextDone, ClientStep, Dial, Receive, ConnectionLost,
              HeaderTimeoutFires, Retry, ClientExpires
<1>4. CASE GuestStep \/ BatchEnds
  BY <1>4 DEF GuestStep, AgentListens, HandleJobs, HandleAbandoned, DecodeFails,
              DecodeSucceeds, Flush, PowerOff, BatchEnds, AgentRuns
<1>5. CASE AgentShutdown \/ AgentExits \/ AgentCrashes
  BY <1>5 DEF AgentShutdown, AgentExits, AgentCrashes
<1>6. CASE Over \/ UNCHANGED vars
  BY <1>6 DEF Over, vars
<1> QED
  BY <1>1, <1>2, <1>3, <1>4, <1>5, <1>6 DEF Next

LEMMA LifeInvariance == Spec => []LifeInv
<1>1. Init => LifeInv
  BY DEF Init, LifeInv
<1> QED
  BY <1>1, LifeNext, Invariance, PTL DEF Spec

(* Every step of a run is one of the one-shot run, or leaves it alone. *)
LEMMA StepSimulation ==
    ASSUME Inv, LifeInv, [Next]_vars
    PROVE  [Run!Next]_(Run!rvars)
<1> USE DEF Inv, TypeOK, BatchInv, VerdictInv, LifeInv, Machine, Work, Told, Alive,
        hostVars, clientVars, timeVars, wire, guest, Run!rvars
<1>1. CASE StartMachine
  BY <1>1 DEF StartMachine, Run!Next, Run!Boot
<1>2. CASE VMMDies \/ VMMStops \/ PowerOff
  <2>1. /\ Machine # "halted" /\ Machine' = "halted" /\ Told' = Told
        /\ UNCHANGED <<ran, verdict, batch>>
    BY <1>2 DEF VMMDies, VMMStops, PowerOff
  <2>2. Work' = IF Work = "running" THEN "lost" ELSE Work
    BY <1>2, <2>1 DEF VMMDies, VMMStops, PowerOff
  <2> QED
    BY <2>1, <2>2 DEF Run!Next, Run!Halt
<1>3. CASE StartFails \/ CallerGivesUp \/ HostResult \/ HostTimeout
  <2>1. Machine' = Machine /\ Work' = Work /\ Told = "none"
    BY <1>3 DEF StartFails, CallerGivesUp, HostResult, HostTimeout, Verdict
  <2>2. \/ Work = "ok" /\ Told' = "ok"
        \/ Work = "failed" /\ Told' = "jobsFailed"
        \/ Told' = "error"
    BY <1>3 DEF StartFails, CallerGivesUp, HostResult, HostTimeout, Verdict, PathInv
  <2> QED
    BY <2>1, <2>2 DEF Run!Next, Run!Tell
<1>4. CASE DecodeSucceeds
  BY <1>4 DEF DecodeSucceeds, AgentRuns, Run!Next, Run!Begin
<1>5. CASE BatchEnds
  BY <1>5 DEF BatchEnds, AgentRuns, Run!Next, Run!End
<1>6. CASE AgentExits \/ AgentCrashes
  <2>1. UNCHANGED <<vm, outcome, ran, verdict>>
    BY <1>6 DEF AgentExits, AgentCrashes
  <2>2. Work' = Work \/ (Machine = "up" /\ Work = "running" /\ Work' = "lost")
    BY <1>6 DEF AgentExits, AgentCrashes, Die
  <2> QED
    BY <2>1, <2>2 DEF Run!Next, Run!End
<1>7. CASE HostReturn \/ Tick \/ ContextDone \/ ClientStep \/ Over \/ UNCHANGED vars
  BY <1>7 DEF HostReturn, Tick, ContextDone, ClientStep, Dial, Receive, ConnectionLost,
              HeaderTimeoutFires, Retry, ClientExpires, Over, vars
<1>8. CASE AgentListens \/ HandleJobs \/ HandleAbandoned \/ DecodeFails \/ Flush
           \/ AgentShutdown
  <2>1. UNCHANGED <<vm, outcome, ran, verdict>>
    BY <1>8 DEF AgentListens, HandleJobs, HandleAbandoned, DecodeFails, Flush, AgentShutdown
  <2>2. batch' = batch \/ ran = 0 \/ verdict # "none"
    BY <1>8 DEF AgentListens, HandleJobs, HandleAbandoned, Claim, DecodeFails, Flush,
                AgentShutdown
  <2> QED
    BY <2>1, <2>2
<1> QED
  BY <1>1, <1>2, <1>3, <1>4, <1>5, <1>6, <1>7, <1>8 DEF Next, HostStep, GuestStep

(***************************************************************************)
(* StartVM with its retries, timers and crashing guest implements the      *)
(* one-shot run: the batch is begun at most once, while the machine is up, *)
(* and what the caller is told is told once and is the verdict.            *)
(***************************************************************************)
THEOREM RunIsOneShot == Spec => ImplementsRun
<1>1. Init => Run!Init
  BY DEF Init, Run!Init, Machine, Work, Told, Alive
<1>2. Inv /\ LifeInv /\ [Next]_vars => [Run!Next]_(Run!rvars)
  BY StepSimulation
<1> QED
  BY <1>1, <1>2, Invariance, LifeInvariance, PTL DEF Spec, ImplementsRun, Run!Spec
=============================================================================
