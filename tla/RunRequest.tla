----------------------------- MODULE RunRequest -----------------------------
(***************************************************************************)
(* The way of one run from the configuration file and the HTTP request, or *)
(* from the command line, to the jobs the guest agent executes and back to *)
(* the caller.  Five parts of the program check it or fill in defaults:    *)
(* LoadConfig, the HTTP framework, the server, the manager, the agent.     *)
(*                                                                         *)
(* Sizes are real byte counts.  The timeout of the run is a duration, in   *)
(* microseconds, that of its jobs a number of milliseconds.  A path is the *)
(* sequence of its components, as written, the empty sequence when there   *)
(* is none; only absolute paths are considered.  A field of a request that *)
(* is left out is 0.                                                       *)
(***************************************************************************)
EXTENDS Integers, Sequences, FiniteSets, SequencesExt, FiniteSetsExt

CONSTANTS
    ConfigFiles,    \* configuration files: functions on some of the Fields
    Requests,       \* bodies of POST /v1/runs
    CommandLines,   \* flags and arguments of "sandboxd run"
    Components,     \* names a path is made of, "." and ".." among them
    Outputs,        \* bytes a command may write to a stream
    ExitCodes       \* what exec.ExitError may report; -1 for a signal

Path == Seq(Components)

(* A task of a request, and a job of the batch it becomes. *)
Tasks ==
    [type: {"mkdir", "write_file", "exec", "unknown"}, path: Path, mode: Int, bytes: Nat,
     base64: BOOLEAN, parents: BOOLEAN, argv: {"none", "blank", "cmd"}, dir: Path]

Request == [api: {TRUE}, tasks: Seq(Tasks), timeout: Int, vcpu: Int, mem: Int]

CommandLine ==
    [api: {FALSE}, timeout: Int, argv: {"none", "blank", "cmd"}, dir: Path,
     vcpu: Int, mem: Int]

ASSUME InputAssumption ==
    /\ "workspace" \in Components
    /\ \A file \in ConfigFiles : \A f \in DOMAIN file : file[f] \in Int
    /\ Requests \subseteq Request /\ CommandLines \subseteq CommandLine
    /\ Outputs \subseteq Nat /\ ExitCodes \subseteq Int

MiB == 1048576
Minute == 60000          \* milliseconds, as all limits and defaults
Millisecond == 1000      \* microseconds, as the durations of a run
Streams == {"stdout", "stderr"}

(* Duration.Milliseconds drops the rest. *)
Milliseconds(d) == IF d >= 0 THEN d \div Millisecond ELSE -((-d) \div Millisecond)

Base64Len(n) == 4 * ((n + 2) \div 3)

VARIABLES
    stage,      \* "start", "http", "server", "manager", "agent" or "end"
    input,      \* the request or the command line
    config,     \* the daemon's configuration, once loaded
    run,        \* the manager's request, then the batch
    dirs,       \* the directories of the guest's workspace, as paths
    files,      \* the regular files there
    uploaded,   \* bytes of the write_file jobs
    results,    \* the results of the jobs so far
    why,        \* the agent's checks that refused a job
    answer      \* what the caller gets

guest == <<dirs, files, uploaded, results, why>>
vars == <<stage, input, config, run, guest, answer>>

Api == input.api
NoAnswer == [kind |-> "none", code |-> 0]

(* The agent makes its workspace before the first job. *)
Workspace == <<"workspace">>

Init ==
    /\ stage = "start"
    /\ input \in Requests \cup CommandLines
    /\ config = <<>> /\ run = <<>>
    /\ dirs = {Workspace} /\ files = {} /\ uploaded = 0
    /\ results = <<>> /\ why = {}
    /\ answer = NoAnswer

(* The run ends here, with a refusal, an error, or results. *)
Ends(kind, code) ==
    /\ stage' = "end"
    /\ answer' = [kind |-> kind, code |-> code]

-----------------------------------------------------------------------------
(* The configuration: what the file says over the defaults, then a default *)
(* for what is not positive, then the check.                               *)

Fields == {"timeout", "output", "tasks", "write", "vcpu", "mem", "maxVCPU", "maxMem"}

DefaultConfig ==
    [timeout |-> Minute, output |-> 4 * MiB, tasks |-> 32, write |-> 4 * MiB,
     vcpu |-> 1, mem |-> 256, maxVCPU |-> 4, maxMem |-> 2048]

Positive(value, default) == IF value > 0 THEN value ELSE default

ApplyDefaults(c) ==
    LET vcpu == Positive(c.vcpu, 1)
        mem == Positive(c.mem, 256)
    IN  [timeout |-> Positive(c.timeout, Minute),
         output |-> Positive(c.output, 4 * MiB),
         tasks |-> Positive(c.tasks, 32),
         write |-> Positive(c.write, 4 * MiB),
         vcpu |-> vcpu, mem |-> mem,
         maxVCPU |-> Positive(c.maxVCPU, vcpu),
         maxMem |-> Positive(c.maxMem, mem)]

(* Faulty variant: the default machine is not compared with the limits. *)
ValidateNothing(c) == c = c

(* Validate; a jailer without a binary is among the failures of LoadConfig. *)
Validate(c) == c.vcpu <= c.maxVCPU /\ c.mem <= c.maxMem

FromFile(file) ==
    ApplyDefaults([f \in Fields |-> IF f \in DOMAIN file THEN file[f] ELSE DefaultConfig[f]])

LoadConfig ==
    /\ stage = "start" /\ Api
    /\ \E file \in ConfigFiles :
          LET c == FromFile(file) IN
          IF Validate(c)
          THEN /\ config' = c /\ stage' = "http"
               /\ UNCHANGED answer
          ELSE Ends("no_daemon", 1) /\ UNCHANGED config
    /\ UNCHANGED <<input, run, guest>>

-----------------------------------------------------------------------------
(* The framework checks the body against the tags of RunRequest and Task,  *)
(* and fills in their defaults where a field is zero.                      *)

MaxRequestBytes == MiB
ContentMaxLength == 5592408

MatchesPattern(p) == p = <<>> \/ p[1] = "workspace"

(* The contents are nearly all of a body that is large. *)
BodyBytes(req) ==
    FoldLeft(LAMBDA n, t : n + Base64Len(t.bytes), 0, req.tasks)

SchemaAllows(req) ==
    /\ Len(req.tasks) \in 1..32
    /\ BodyBytes(req) <= MaxRequestBytes
    /\ req.timeout >= 0 /\ req.vcpu >= 0 /\ req.mem >= 0
    /\ \A i \in 1..Len(req.tasks) : LET t == req.tasks[i] IN
          /\ t.type \in {"mkdir", "write_file", "exec"}
          /\ MatchesPattern(t.path) /\ MatchesPattern(t.dir)
          /\ t.mode \in 0..511
          /\ Base64Len(t.bytes) <= ContentMaxLength

TaskDefaults(t) ==
    [t EXCEPT !.mode = IF @ = 0 THEN 420 ELSE @, !.dir = IF @ = <<>> THEN Workspace ELSE @]

SchemaDefaults(req) ==
    [req EXCEPT !.timeout = IF @ = 0 THEN Minute ELSE @,
                !.tasks = [i \in DOMAIN @ |-> TaskDefaults(@[i])]]

Decode ==
    /\ stage = "http"
    /\ IF SchemaAllows(input)
       THEN /\ input' = SchemaDefaults(input) /\ stage' = "server"
            /\ UNCHANGED answer
       ELSE Ends("refused", 422) /\ UNCHANGED input
    /\ UNCHANGED <<config, run, guest>>

-----------------------------------------------------------------------------
(* filepath.Clean of an absolute path. *)
Clean(p) ==
    FoldLeft(LAMBDA done, c :
                IF c = "." THEN done
                ELSE IF c # ".." THEN Append(done, c)
                ELSE IF done = <<>> THEN done ELSE Front(done),
             <<>>, p)

(* Faulty variant: the path is compared as it is written. *)
RawWorkspacePath(p) == p # <<>> /\ p[1] = "workspace"

ValidWorkspacePath(p) == Clean(p) # <<>> /\ Clean(p)[1] = "workspace"

ValidTask(t) ==
    \/ t.type = "mkdir" /\ ValidWorkspacePath(t.path)
    \/ /\ t.type = "write_file" /\ ValidWorkspacePath(t.path)
       /\ t.base64 /\ t.bytes <= config.write
    \/ t.type = "exec" /\ t.argv # "none" /\ ValidWorkspacePath(t.dir)

ModeOf(t) == IF t.mode # 0 THEN t.mode ELSE IF t.type = "mkdir" THEN 493 ELSE 420

WorkspaceJob ==
    [type |-> "mkdir", path |-> Workspace, mode |-> 493, bytes |-> 0, base64 |-> TRUE,
     parents |-> FALSE, argv |-> "none", dir |-> <<>>]

TasksToJobs(tasks) ==
    <<WorkspaceJob>> \o [i \in DOMAIN tasks |-> [tasks[i] EXCEPT !.mode = ModeOf(tasks[i])]]

RunTimeout(req) == Positive(req.timeout, config.timeout)
MachineOf(req) ==
    [vcpu |-> Positive(req.vcpu, config.vcpu), mem |-> Positive(req.mem, config.mem)]

(* Faulty variant: the timeout of a request is not capped. *)
WithinTasksAndMachine(req) ==
    /\ Len(req.tasks) \in 1..config.tasks
    /\ MachineOf(req).vcpu <= config.maxVCPU /\ MachineOf(req).mem <= config.maxMem

WithinLimits(req) ==
    /\ Len(req.tasks) \in 1..config.tasks
    /\ RunTimeout(req) <= config.timeout
    /\ MachineOf(req).vcpu <= config.maxVCPU /\ MachineOf(req).mem <= config.maxMem

ManagerRunRequest ==
    /\ stage = "server"
    /\ IF WithinLimits(input) /\ \A i \in DOMAIN input.tasks : ValidTask(input.tasks[i])
       THEN /\ run' = [jobs |-> TasksToJobs(input.tasks),
                       timeout |-> RunTimeout(input) * Millisecond,
                       jobTimeout |-> RunTimeout(input), output |-> config.output,
                       machine |-> MachineOf(input)]
            /\ stage' = "manager"
            /\ UNCHANGED answer
       ELSE Ends("refused", 400) /\ UNCHANGED run
    /\ UNCHANGED <<input, config, guest>>

(* "sandboxd run" has neither limits nor tasks. *)
RunVM ==
    /\ stage = "start" /\ ~Api
    /\ run' = [jobs |-> <<>>, timeout |-> input.timeout,
               jobTimeout |-> Milliseconds(input.timeout),
               output |-> 4 * MiB, machine |-> [vcpu |-> input.vcpu, mem |-> input.mem]]
    /\ stage' = "manager"
    /\ UNCHANGED <<input, config, guest, answer>>

-----------------------------------------------------------------------------
(* Manager.Run: the timeouts, and the default jobs from the command line   *)
(* or the image's own command.                                             *)

DefaultJobs(argv, dir) ==
    <<WorkspaceJob, [WorkspaceJob EXCEPT !.type = "exec", !.path = <<>>, !.mode = 0,
                                         !.argv = argv, !.dir = dir]>>

ManagerRun ==
    /\ stage = "manager"
    /\ LET timeout == Positive(run.timeout, Minute * Millisecond)
           batch == [run EXCEPT !.timeout = timeout,
                                !.jobTimeout = IF @ = 0 THEN Milliseconds(timeout) ELSE @,
                                !.output = IF @ = 0 THEN 4 * MiB ELSE @]
       IN  \/ /\ run.jobs # <<>>
              /\ run' = batch /\ stage' = "agent" /\ UNCHANGED answer
           \/ /\ run.jobs = <<>>
              /\ \E image \in {"none", "cmd"} :
                    LET argv == IF input.argv # "none" THEN input.argv ELSE image IN
                    IF argv = "none"
                    THEN Ends("error", 1) /\ UNCHANGED run
                    ELSE /\ run' = [batch EXCEPT !.jobs = DefaultJobs(argv, input.dir)]
                         /\ stage' = "agent" /\ UNCHANGED answer
    /\ UNCHANGED <<input, config, guest>>

(* The preflight, preparing the image, the snapshot or the VM fails. *)
ManagerFails ==
    /\ stage = "manager"
    /\ Ends("error", IF Api THEN 500 ELSE 1)
    /\ UNCHANGED <<input, config, run, guest>>

-----------------------------------------------------------------------------
(* The agent, with the defaults of its own command line. *)

MaxFileBytes == 8 * MiB
MaxBodyBytes == 16 * MiB
AgentTimeout == 30000
AgentOutput == MiB

(* safePath: the path relative to the workspace must not begin with "..". *)
Rel(p) ==
    IF IsPrefix(Workspace, Clean(p)) THEN Tail(Clean(p)) ELSE <<"..">> \o Clean(p)
SafePath(p) == p # <<>> /\ (Rel(p) = <<>> \/ Rel(p)[1] # "..")

SafeMode(mode) == (mode \div 1024) % 4 = 0

(* The directories above a path, from the workspace down. *)
ParentsOf(p) == {SubSeq(p, 1, n) : n \in 1..(Len(p) - 1)}

(* write_file makes the missing ones when it is asked to, mkdir does not. *)
ParentsReady(job) ==
    \/ ParentsOf(Clean(job.path)) \subseteq dirs \cup files
    \/ job.type = "write_file" /\ job.parents

ExecTimeout == Positive(run.jobTimeout, AgentTimeout)

MaxOutput == Positive(run.output, AgentOutput)

(* The checks a job fails; several may fail, the first one is reported. *)
Checks == {"path", "mode", "base64", "size", "total", "parents", "node", "argv", "dir"}

Refusals(job) ==
    LET file == job.type \in {"mkdir", "write_file"}
        write == job.type = "write_file"
        exec == job.type = "exec"
        dir == IF job.dir = <<>> THEN Workspace ELSE job.dir
        path == Clean(job.path)
    IN  {check \in Checks :
            \/ check = "path" /\ ~SafePath(IF file THEN job.path ELSE dir)
            \/ check = "mode" /\ file /\ ~SafeMode(job.mode)
            \/ check = "base64" /\ write /\ ~job.base64
            \/ check = "size" /\ write /\ job.bytes > MaxFileBytes
            \/ check = "total" /\ write /\ uploaded + job.bytes > MaxBodyBytes
            \/ check = "parents" /\ file /\ ~ParentsReady(job)
            \/ check = "node" /\ file /\ ParentsOf(path) \cap files # {}
            \/ check = "node" /\ job.type = "mkdir" /\ path \in files
            \/ check = "node" /\ write /\ path \in dirs
            \/ check = "argv" /\ exec /\ job.argv = "blank"
            \/ check = "dir" /\ exec /\ Clean(dir) \notin dirs}

CurrentJob == run.jobs[Len(results) + 1]
AtJob == stage = "agent" /\ why = {} /\ Len(results) < Len(run.jobs)

Result(ok, code, kept) == [type |-> CurrentJob.type, ok |-> ok, code |-> code, kept |-> kept]
NoOutput == [s \in Streams |-> 0]

(* A check or the system refuses a job; that ends the batch. *)
JobFails ==
    /\ AtJob
    /\ \/ Refusals(CurrentJob) # {} /\ why' = Refusals(CurrentJob)
       \/ Refusals(CurrentJob) = {} /\ why' = {"system"}
    /\ results' = Append(results, Result(FALSE, 0, NoOutput))
    /\ UNCHANGED <<stage, input, config, run, dirs, files, uploaded, answer>>

FileJob ==
    /\ AtJob /\ CurrentJob.type # "exec"
    /\ Refusals(CurrentJob) = {}
    /\ LET p == Clean(CurrentJob.path)
           mkdir == CurrentJob.type = "mkdir"
       IN  /\ dirs' = dirs \cup ParentsOf(p) \cup (IF mkdir THEN {p} ELSE {})
           /\ files' = IF mkdir THEN files ELSE files \cup {p}
           /\ uploaded' = IF mkdir THEN uploaded ELSE uploaded + CurrentJob.bytes
    /\ results' = Append(results, Result(TRUE, 0, NoOutput))
    /\ UNCHANGED <<stage, input, config, run, why, answer>>

(* The command ends or is killed at its deadline. *)
Exec ==
    /\ AtJob /\ CurrentJob.type = "exec"
    /\ Refusals(CurrentJob) = {}
    /\ \E written \in [Streams -> Outputs], code \in ExitCodes :
          results' = Append(results,
                        Result(TRUE, code, [s \in Streams |-> Min({written[s], MaxOutput})]))
    /\ UNCHANGED <<stage, input, config, run, dirs, files, uploaded, why, answer>>

-----------------------------------------------------------------------------
(* Faulty variant: a smaller limit. *)
HalfResponseBytes == 8 * MiB

(* The response as the client reads it, with a generous share for all but  *)
(* the output.                                                             *)
MaxResponseBytes == 16 * MiB
EnvelopeBytes == 1024

ResultBytes(r) ==
    EnvelopeBytes + Base64Len(r.kept["stdout"]) + Base64Len(r.kept["stderr"])

ResponseBytes == FoldLeft(LAMBDA n, r : n + ResultBytes(r), 0, results)

(* Faulty variant: the first result counts, whatever it is of. *)
ExitCodeOfFirst(rs) == rs[1].code

(* exitCodeFromResults: the first command's, when a process can return it. *)
ExitCodeFromResults(rs) ==
    LET execs == {i \in DOMAIN rs : rs[i].type = "exec"}
        code == rs[Min(execs)].code
    IN  IF execs = {} THEN 0 ELSE IF code \in 0..255 THEN code ELSE 1

(* A response that is cut does not decode; its retries are refused until   *)
(* the run's timeout.  A failed batch is an error too.                     *)
Reply ==
    /\ stage = "agent"
    /\ why # {} \/ Len(results) = Len(run.jobs)
    /\ IF ResponseBytes > MaxResponseBytes THEN Ends("lost", IF Api THEN 500 ELSE 1)
       ELSE IF why # {} THEN Ends("failed", IF Api THEN 500 ELSE 1)
       ELSE Ends("results", IF Api THEN 200 ELSE ExitCodeFromResults(results))
    /\ UNCHANGED <<input, config, run, guest>>

Finished == stage = "end" /\ UNCHANGED vars

Next ==
    \/ LoadConfig \/ Decode \/ ManagerRunRequest \/ RunVM
    \/ ManagerRun \/ ManagerFails
    \/ JobFails \/ FileJob \/ Exec \/ Reply \/ Finished

Spec == Init /\ [][Next]_vars

-----------------------------------------------------------------------------
(* What reaches a guest through the API stays within the daemon's          *)
(* configuration after all defaults of five parts have been filled in: the *)
(* machine, the number of jobs, the deadline of a command and the output   *)
(* kept of it; no command may outlive the run it belongs to, and a limit   *)
(* of zero never gets as far as the guest.  A command line with a timeout  *)
(* below a millisecond is the exception: in the agent's unit it is zero,   *)
(* which stands for the agent's own default.                               *)
GuestStaysWithinLimits ==
    stage = "agent" =>
        /\ ExecTimeout > 0 /\ run.output > 0
        /\ \/ ExecTimeout * Millisecond <= run.timeout
           \/ ~Api /\ run.timeout < Millisecond
        /\ Api => /\ run.timeout <= config.timeout * Millisecond
                  /\ run.machine.vcpu <= config.maxVCPU
                  /\ run.machine.mem <= config.maxMem
                  /\ Len(run.jobs) <= config.tasks + 1
                  /\ \A i \in DOMAIN results, s \in Streams :
                        results[i].kept[s] <= config.output

(* The server's checks are as strict as the agent's where both look: a VM  *)
(* is never started through the API for a batch the agent then refuses for *)
(* its paths, modes, encoding or sizes.  What is left to the agent is what *)
(* only the guest knows, and an empty first argument.                      *)
ServerChecksCoverAgent ==
    Api => why \subseteq {"parents", "node", "dir", "argv", "system"}

(* A daemon that has started serves a request that asks for nothing but a  *)
(* command: what LoadConfig accepts, managerRunRequest does not refuse.    *)
(* Below 60 seconds the framework's default timeout exceeds the limit.     *)
ModestRequestIsServed ==
    Api /\ answer.code = 400 /\ config.timeout >= Minute =>
        \/ input.vcpu # 0 \/ input.mem # 0 \/ input.timeout > Minute
        \/ \E i \in DOMAIN input.tasks :
              LET t == input.tasks[i] IN
              t.type # "exec" \/ t.argv # "cmd" \/ t.dir # Workspace
        \/ Len(input.tasks) # 1

(* With at most one command, and no more than 4 MiB kept of a stream, the  *)
(* response passes the client's limit and the results reach the caller.    *)
OneCommandIsReported ==
    answer.kind = "lost" =>
        \/ run.output > 4 * MiB
        \/ Cardinality({i \in DOMAIN results : results[i].type = "exec"}) > 1

(* "sandboxd run" exits with 0 only when its command ran and returned 0.   *)
ExitZeroMeansSuccess ==
    ~Api /\ stage = "end" /\ answer.code = 0 =>
        \E i \in DOMAIN results :
            results[i].type = "exec" /\ results[i].ok /\ results[i].code = 0
=============================================================================
