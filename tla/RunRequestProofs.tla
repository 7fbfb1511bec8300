-------------------------- MODULE RunRequestProofs --------------------------
(***************************************************************************)
(* Proofs about RunRequest for every configuration file, every request and *)
(* command line, and whatever the commands write and return.               *)
(*                                                                         *)
(* The module first settles the three folds of the model: the components   *)
(* filepath.Clean leaves, the size of a request body and the size of a     *)
(* response.  The invariant then says, stage by stage, what each part has  *)
(* made sure of when it hands the run to the next.                         *)
(***************************************************************************)
EXTENDS RunRequest, FoldLemmas, FiniteSetTheorems, SequenceTheorems, TLAPS

(* Clean as a fold: what component i does to the components done so far. *)
CleanStep(p) ==
    [x \in (1..Len(p)) \X Seq(Components) |->
        IF p[x[1]] = "." THEN x[2]
        ELSE IF p[x[1]] # ".." THEN Append(x[2], p[x[1]])
        ELSE IF x[2] = <<>> THEN x[2] ELSE Front(x[2])]

CleanFold(g, p) ==
    g = [s \in SUBSET DOMAIN p |->
            IF s = {} THEN <<>>
            ELSE LET x == Max(s) IN
                 IF p[x] = "." THEN g[s \ {x}]
                 ELSE IF p[x] # ".." THEN Append(g[s \ {x}], p[x])
                 ELSE IF g[s \ {x}] = <<>> THEN g[s \ {x}] ELSE Front(g[s \ {x}])]

Cleaner(p) == CHOOSE g : CleanFold(g, p)

LEMMA CleanIsFold ==
    ASSUME NEW p
    PROVE  Clean(p) = Cleaner(p)[DOMAIN p]
BY Zenon DEF Clean, FoldLeft, MapThenFoldSet, Cleaner, CleanFold

(* Components that are names. *)
Plain == Components \ {".", ".."}

LEMMA FrontFacts ==
    ASSUME NEW S, NEW q \in Seq(S), q # <<>>
    PROVE  Front(q) \in Seq(S)
BY DEF Front

LEMMA CleanStepType ==
    ASSUME NEW p \in Seq(Components), NEW i \in 1..Len(p), NEW v \in Seq(Plain)
    PROVE  /\ CleanStep(p)[<<i, v>>] \in Seq(Plain)
           /\ CleanStep(p)[<<i, v>>] = IF p[i] = "." THEN v
                                       ELSE IF p[i] # ".." THEN Append(v, p[i])
                                       ELSE IF v = <<>> THEN v ELSE Front(v)
<1>1. v \in Seq(Components) /\ p[i] \in Components
  BY DEF Plain
<1>2. CleanStep(p)[<<i, v>>] = IF p[i] = "." THEN v
                               ELSE IF p[i] # ".." THEN Append(v, p[i])
                               ELSE IF v = <<>> THEN v ELSE Front(v)
  BY <1>1 DEF CleanStep
<1>3. p[i] \notin {".", ".."} => Append(v, p[i]) \in Seq(Plain)
  BY <1>1 DEF Plain
<1>4. v # <<>> => Front(v) \in Seq(Plain)
  BY FrontFacts
<1> QED
  BY <1>2, <1>3, <1>4

LEMMA CleanerFolds ==
    ASSUME NEW p \in Seq(Components)
    PROVE  CleanFold(Cleaner(p), p)
<1>0. Len(p) \in Nat
  OBVIOUS
<1>1. PICK g : IsFold(g, Len(p), CleanStep(p), <<>>)
  BY <1>0, FoldExists
<1>2. <<>> \in Seq(Plain) /\ \A i \in 1..Len(p), v \in Seq(Plain) : CleanStep(p)[<<i, v>>] \in Seq(Plain)
  BY CleanStepType
<1>3. \A s \in SUBSET (1..Len(p)) : g[s] \in Seq(Plain)
  <2> DEFINE A == Seq(Plain)
             step == CleanStep(p)
             n == Len(p)
             base == <<>>
  <2>1. /\ base \in A /\ n \in Nat /\ IsFold(g, n, step, base)
        /\ \A i \in 1..n, v \in A : step[<<i, v>>] \in A
    BY <1>0, <1>1, <1>2
  <2> HIDE DEF A, step, n, base
  <2>2. \A s \in SUBSET (1..n) : g[s] \in A
    BY <2>1, FoldType
  <2> QED
    BY <2>2 DEF A, n
<1>4. ASSUME NEW s \in SUBSET (1..Len(p)), s # {}
      PROVE  Max(s) \in 1..Len(p) /\ g[s \ {Max(s)}] \in Seq(Plain)
  <2>1. Max(s) \in s
    <3>1. s \subseteq 1..Len(p)
      OBVIOUS
    <3> QED
      BY <1>0, <1>4, <3>1, MaxFacts
  <2> QED
    BY <1>3, <2>1
<1>5. CleanFold(g, p)
  <2>1. ASSUME NEW s \in SUBSET (1..Len(p)), s # {}
        PROVE  CleanStep(p)[<<Max(s), g[s \ {Max(s)}]>>] =
                 IF p[Max(s)] = "." THEN g[s \ {Max(s)}]
                 ELSE IF p[Max(s)] # ".." THEN Append(g[s \ {Max(s)}], p[Max(s)])
                 ELSE IF g[s \ {Max(s)}] = <<>> THEN g[s \ {Max(s)}]
                 ELSE Front(g[s \ {Max(s)}])
    BY <1>4, <2>1, CleanStepType
  <2>2. DOMAIN p = 1..Len(p)
    OBVIOUS
  <2> QED
    BY <1>1, <2>1, <2>2 DEF IsFold, CleanFold
<1> QED
  BY <1>5, Zenon DEF Cleaner

(* Clean works its way through the components from the left. *)
LEMMA CleanerAt ==
    ASSUME NEW p \in Seq(Components)
    PROVE  /\ Cleaner(p)[1..0] = <<>>
           /\ \A k \in 1..Len(p) :
                Cleaner(p)[1..k] =
                    IF p[k] = "." THEN Cleaner(p)[1..k - 1]
                    ELSE IF p[k] # ".." THEN Append(Cleaner(p)[1..k - 1], p[k])
                    ELSE IF Cleaner(p)[1..k - 1] = <<>> THEN Cleaner(p)[1..k - 1]
                    ELSE Front(Cleaner(p)[1..k - 1])
<1> DEFINE g == Cleaner(p)
<1>1. CleanFold(g, p) /\ DOMAIN p = 1..Len(p) /\ Len(p) \in Nat
  BY CleanerFolds
<1> HIDE DEF g
<1>2. g[1..0] = <<>>
  <2>1. 1..0 = {} /\ {} \in SUBSET DOMAIN p
    OBVIOUS
  <2>2. g[{}] = <<>>
    BY <1>1, <2>1 DEF CleanFold
  <2> QED
    BY <2>1, <2>2
<1>3. ASSUME NEW k \in 1..Len(p)
      PROVE  g[1..k] = IF p[k] = "." THEN g[1..k - 1]
                       ELSE IF p[k] # ".." THEN Append(g[1..k - 1], p[k])
                       ELSE IF g[1..k - 1] = <<>> THEN g[1..k - 1]
                       ELSE Front(g[1..k - 1])
  <2> DEFINE s == 1..k
  <2>1. k \in Nat /\ k # 0
    OBVIOUS
  <2>2. s \in SUBSET DOMAIN p /\ s # {} /\ Max(s) = k /\ s \ {k} = 1..k - 1
    BY <1>1, <2>1, IntervalFacts
  <2> HIDE DEF s
  <2>3. g[s] = LET x == Max(s) IN
                 IF p[x] = "." THEN g[s \ {x}]
                 ELSE IF p[x] # ".." THEN Append(g[s \ {x}], p[x])
                 ELSE IF g[s \ {x}] = <<>> THEN g[s \ {x}] ELSE Front(g[s \ {x}])
    BY <1>1, <2>2 DEF CleanFold
  <2>4. g[s] = IF p[k] = "." THEN g[1..k - 1]
               ELSE IF p[k] # ".." THEN Append(g[1..k - 1], p[k])
               ELSE IF g[1..k - 1] = <<>> THEN g[1..k - 1] ELSE Front(g[1..k - 1])
    BY <2>2, <2>3
  <2> QED
    BY <2>4 DEF s
<1> QED
  BY <1>2, <1>3 DEF g

(* A cleaned path has no "." and no ".."; the root stays the root and the  *)
(* workspace the workspace.                                                *)
LEMMA CleanFacts ==
    /\ \A p \in Seq(Components) : Clean(p) \in Seq(Plain)
    /\ Clean(<<>>) = <<>>
    /\ Clean(Workspace) = Workspace
<1>1. ASSUME NEW p \in Seq(Components) PROVE Clean(p) \in Seq(Plain)
  <2> DEFINE T == {k \in Nat : k <= Len(p) => Cleaner(p)[1..k] \in Seq(Plain)}
  <2>1. 0 \in T
    <3>1. Cleaner(p)[1..0] = <<>> /\ <<>> \in Seq(Plain)
      BY CleanerAt
    <3> QED
      BY <3>1
  <2>2. ASSUME NEW k \in Nat, k \in T PROVE k + 1 \in T
    <3> SUFFICES ASSUME k + 1 <= Len(p) PROVE Cleaner(p)[1..k + 1] \in Seq(Plain)
      OBVIOUS
    <3> DEFINE v == Cleaner(p)[1..k]
               w == Cleaner(p)[1..k + 1]
               c == p[k + 1]
    <3>1. k + 1 \in 1..Len(p) /\ (k + 1) - 1 = k
      OBVIOUS
    <3>2. v \in Seq(Plain) /\ c \in Components
      BY <2>2, <3>1
    <3>3. w = IF c = "." THEN v
              ELSE IF c # ".." THEN Append(v, c)
              ELSE IF v = <<>> THEN v ELSE Front(v)
      BY <3>1, CleanerAt
    <3> HIDE DEF v, w, c
    <3>4. v # <<>> => Front(v) \in Seq(Plain)
      BY <3>2, FrontFacts
    <3>5. c \notin {".", ".."} => Append(v, c) \in Seq(Plain)
      BY <3>2 DEF Plain
    <3>6. w \in Seq(Plain)
      BY <3>2, <3>3, <3>4, <3>5
    <3> QED
      BY <3>6 DEF w
  <2> HIDE DEF T
  <2>3. Len(p) \in T /\ DOMAIN p = 1..Len(p) /\ Len(p) \in Nat
    BY <2>1, <2>2, SetInduction
  <2> QED
    BY <2>3, CleanIsFold DEF T
<1>2. Clean(<<>>) = <<>>
  <2>1. <<>> \in Seq(Components) /\ DOMAIN <<>> = 1..0
    OBVIOUS
  <2> QED
    BY <2>1, CleanIsFold, CleanerAt
<1>3. Clean(Workspace) = Workspace
  <2>1. /\ Workspace \in Seq(Components) /\ DOMAIN Workspace = 1..1 /\ Len(Workspace) = 1
        /\ Workspace[1] = "workspace"
    <3>1. /\ <<"workspace">> \in Seq(Components) /\ Len(<<"workspace">>) = 1
          /\ <<"workspace">>[1] = "workspace"
      BY InputAssumption
    <3> QED
      BY <3>1 DEF Workspace
  <2>2. Cleaner(Workspace)[1..1] = Append(Cleaner(Workspace)[1..0], Workspace[1])
    <3>1. 1 \in 1..Len(Workspace) /\ 1 - 1 = 0
      BY <2>1
    <3> QED
      BY <2>1, <3>1, CleanerAt
  <2>3. Cleaner(Workspace)[1..1] = <<"workspace">>
    BY <2>1, <2>2, CleanerAt
  <2> QED
    BY <2>1, <2>3, CleanIsFold DEF Workspace
<1> QED
  BY <1>1, <1>2, <1>3

-----------------------------------------------------------------------------
(* The size of a body and of a response are sums over their parts. *)
BodyFold(g, tasks) ==
    g = [s \in SUBSET DOMAIN tasks |->
            IF s = {} THEN 0
            ELSE LET x == Max(s) IN g[s \ {x}] + Base64Len(tasks[x].bytes)]

ResponseFold(g, rs) ==
    g = [s \in SUBSET DOMAIN rs |->
            IF s = {} THEN 0 ELSE LET x == Max(s) IN g[s \ {x}] + ResultBytes(rs[x])]

LEMMA SizesAreFolds ==
    /\ \A req : BodyBytes(req) = (CHOOSE g : BodyFold(g, req.tasks))[DOMAIN req.tasks]
    /\ ResponseBytes = (CHOOSE g : ResponseFold(g, results))[DOMAIN results]
BY Zenon DEF BodyBytes, ResponseBytes, FoldLeft, MapThenFoldSet, BodyFold, ResponseFold

LEMMA Base64Facts ==
    ASSUME NEW n \in Nat
    PROVE  /\ Base64Len(n) \in Nat /\ n <= Base64Len(n)
           /\ Base64Len(n) <= ContentMaxLength => n <= MaxFileBytes
           /\ n <= 4 * MiB => Base64Len(n) <= ContentMaxLength
           /\ Base64Len(0) = 0
BY SMT DEF Base64Len, MiB, ContentMaxLength, MaxFileBytes

BodyWeights(tasks) == [i \in 1..Len(tasks) |-> Base64Len(tasks[i].bytes)]
ResponseWeights(rs) == [i \in 1..Len(rs) |-> ResultBytes(rs[i])]

LEMMA BodyTotals ==
    ASSUME NEW req, NEW n \in Nat, DOMAIN req.tasks = 1..n, Len(req.tasks) = n,
           \A i \in 1..n : req.tasks[i].bytes \in Nat
    PROVE  \E b : Totals(b, n, BodyWeights(req.tasks)) /\ b[n] = BodyBytes(req)
<1> DEFINE w == BodyWeights(req.tasks)
<1>1. \A i \in 1..n : w[i] = Base64Len(req.tasks[i].bytes) /\ w[i] \in Nat
  BY Base64Facts DEF BodyWeights
<1> HIDE DEF w
<1>2. \A s \in SUBSET (1..n) : s # {} => Max(s) \in 1..n
  BY MaxFacts
<1>3. \A g : IsSum(g, n, w) <=> BodyFold(g, req.tasks)
  BY <1>1, <1>2 DEF IsSum, BodyFold
<1>4. \E g : BodyFold(g, req.tasks)
  BY <1>1, <1>3, SumExists
<1>5. PICK g : g = CHOOSE h : BodyFold(h, req.tasks)
  OBVIOUS
<1>6. BodyFold(g, req.tasks) /\ BodyBytes(req) = g[1..n]
  BY <1>4, <1>5, SizesAreFolds
<1>7. IsSum(g, n, w)
  BY <1>3, <1>6
<1>8. \E b : Totals(b, n, w) /\ b[n] = g[1..n]
  BY <1>1, <1>7, SumRuns
<1> QED
  BY <1>6, <1>8 DEF w

LEMMA ResponseTotals ==
    ASSUME NEW n \in Nat, DOMAIN results = 1..n, Len(results) = n,
           \A i \in 1..n : ResultBytes(results[i]) \in Nat
    PROVE  \E b : Totals(b, n, ResponseWeights(results)) /\ b[n] = ResponseBytes
<1> DEFINE w == ResponseWeights(results)
<1>1. \A i \in 1..n : w[i] = ResultBytes(results[i]) /\ w[i] \in Nat
  BY DEF ResponseWeights
<1> HIDE DEF w
<1>2. \A s \in SUBSET (1..n) : s # {} => Max(s) \in 1..n
  BY MaxFacts
<1>3. \A g : IsSum(g, n, w) <=> ResponseFold(g, results)
  BY <1>1, <1>2 DEF IsSum, ResponseFold
<1>4. \E g : ResponseFold(g, results)
  BY <1>1, <1>3, SumExists
<1>5. PICK g : g = CHOOSE h : ResponseFold(h, results)
  OBVIOUS
<1>6. ResponseFold(g, results) /\ ResponseBytes = g[1..n]
  BY <1>4, <1>5, SizesAreFolds
<1>7. IsSum(g, n, w)
  BY <1>3, <1>6
<1>8. \E b : Totals(b, n, w) /\ b[n] = g[1..n]
  BY <1>1, <1>7, SumRuns
<1> QED
  BY <1>6, <1>8 DEF w

-----------------------------------------------------------------------------
(* A path the server accepts is one the agent accepts: both clean it, and  *)
(* what is left below the workspace holds no "..".                         *)
LEMMA ValidPathIsSafe ==
    ASSUME NEW p \in Seq(Components), ValidWorkspacePath(p)
    PROVE  SafePath(p) /\ p # <<>>
<1> DEFINE q == Clean(p)
<1>1. q \in Seq(Plain) /\ q # <<>> /\ q[1] = "workspace"
  BY CleanFacts DEF ValidWorkspacePath
<1>2. p # <<>>
  BY <1>1, CleanFacts
<1> HIDE DEF q
<1>3. Len(q) \in Nat /\ 1 <= Len(q) /\ \A i \in 1..Len(q) : q[i] \in Plain
  BY <1>1
<1>4. IsPrefix(Workspace, q)
  <2>1. Workspace = <<"workspace">> /\ Len(Workspace) = 1
    BY DEF Workspace
  <2>2. /\ SubSeq(Workspace, 1, 1) = [i \in 1..1 |-> Workspace[i]]
        /\ SubSeq(q, 1, 1) = [i \in 1..1 |-> q[i]]
    BY <1>1, <1>3, <2>1
  <2>3. \A i \in 1..1 : Workspace[i] = q[i]
    BY <1>1, <2>1
  <2> QED
    BY <1>3, <2>1, <2>2, <2>3 DEF IsPrefix
<1>5. Tail(q) = <<>> \/ Tail(q)[1] # ".."
  <2>1. /\ Tail(q) \in Seq(Plain) /\ Len(Tail(q)) = Len(q) - 1
        /\ \A i \in 1..Len(Tail(q)) : Tail(q)[i] = q[i + 1]
    BY <1>1, HeadTailProperties
  <2>2. CASE Tail(q) # <<>>
    <3>1. 1 \in 1..Len(Tail(q)) /\ 2 \in 1..Len(q)
      BY <1>3, <2>1, <2>2, EmptySeq
    <3>2. Tail(q)[1] = q[2] /\ q[2] \in Plain
      BY <1>3, <2>1, <3>1
    <3> QED
      BY <3>2 DEF Plain
  <2> QED
    BY <2>2
<1>6. Rel(p) = Tail(q)
  BY <1>4 DEF Rel, q
<1> QED
  BY <1>2, <1>5, <1>6 DEF SafePath

LEMMA WorkspaceIsSafe == ValidWorkspacePath(Workspace) /\ SafePath(Workspace)
<1>1. Workspace \in Seq(Components) /\ Workspace # <<>> /\ Workspace[1] = "workspace"
  <2>1. /\ <<"workspace">> \in Seq(Components) /\ <<"workspace">> # <<>>
        /\ <<"workspace">>[1] = "workspace"
    BY InputAssumption
  <2> QED
    BY <2>1 DEF Workspace
<1>2. ValidWorkspacePath(Workspace)
  BY <1>1, CleanFacts DEF ValidWorkspacePath
<1> QED
  BY <1>1, <1>2, ValidPathIsSafe

(* What the server has made sure of for each job it hands on. *)
Checked(job) ==
    /\ job.type \in {"mkdir", "write_file", "exec"}
    /\ job.type # "exec" => SafePath(job.path) /\ SafeMode(job.mode)
    /\ job.type = "write_file" => job.base64 /\ job.bytes <= MaxFileBytes
    /\ job.type = "exec" => job.dir # <<>> /\ SafePath(job.dir)

(* What is left to the agent. *)
GuestOnly == {"parents", "node", "dir", "argv", "system"}

LEMMA CheckedIsRefusedByGuestOnly ==
    ASSUME NEW job, Checked(job),
           job.type = "write_file" => uploaded + job.bytes <= MaxBodyBytes,
           uploaded \in Nat, job.bytes \in Nat
    PROVE  Refusals(job) \subseteq GuestOnly
<1>1. MaxFileBytes \in Nat /\ MaxBodyBytes \in Nat
  BY SMT DEF MaxFileBytes, MaxBodyBytes, MiB
<1> QED
  BY <1>1, SMT DEF Refusals, Checks, Checked, GuestOnly

-----------------------------------------------------------------------------
(* What each part hands to the next. *)

(* LoadConfig: limits that are positive, and a default machine they allow. *)
ConfigOK(c) ==
    /\ c.timeout \in Nat \ {0} /\ c.output \in Nat \ {0}
    /\ c.tasks \in Nat \ {0} /\ c.write \in Nat \ {0}
    /\ c.vcpu \in Nat \ {0} /\ c.mem \in Nat \ {0}
    /\ c.maxVCPU \in Nat \ {0} /\ c.maxMem \in Nat \ {0}
    /\ c.vcpu <= c.maxVCPU /\ c.mem <= c.maxMem

(* The contents of a sequence of tasks fit into the body of a request; b   *)
(* holds the running totals of what they take there.                       *)
FitsBody(b, tasks) ==
    Totals(b, Len(tasks), BodyWeights(tasks)) /\ b[Len(tasks)] <= MaxRequestBytes

(* The framework: tasks within the bounds of the schema, with defaults.    *)
ServerOK(req) ==
    /\ Len(req.tasks) \in 1..32
    /\ req.timeout > 0 /\ req.vcpu >= 0 /\ req.mem >= 0
    /\ \A i \in 1..Len(req.tasks) :
          /\ req.tasks[i].type \in {"mkdir", "write_file", "exec"}
          /\ req.tasks[i].mode \in 0..511
          /\ req.tasks[i].bytes <= MaxFileBytes
    /\ \E b : FitsBody(b, req.tasks)

Run ==
    [jobs: Seq(Tasks), timeout: Int, jobTimeout: Int, output: Int,
     machine: [vcpu: Int, mem: Int]]

(* The server: a run within the limits of the configuration, with jobs     *)
(* that are checked and fit.                                               *)
ApiRun ==
    /\ run.jobTimeout > 0 /\ run.jobTimeout <= config.timeout
    /\ run.timeout = run.jobTimeout * Millisecond /\ run.output = config.output
    /\ run.machine.vcpu <= config.maxVCPU /\ run.machine.mem <= config.maxMem
    /\ Len(run.jobs) \in 1..33 /\ Len(run.jobs) <= config.tasks + 1
    /\ \A i \in 1..Len(run.jobs) : Checked(run.jobs[i])
    /\ \E b : FitsBody(b, run.jobs) /\ (why = {} => uploaded <= b[Len(results)])

(* The command line: no jobs yet, then the default ones. *)
CommandRun ==
    /\ run.output = 4 * MiB
    /\ stage = "manager" => /\ run.jobs = <<>>
                            /\ run.timeout = input.timeout
                            /\ run.jobTimeout = Milliseconds(input.timeout)
    /\ stage = "agent" => /\ Len(run.jobs) = 2 /\ run.jobs[2].type = "exec"
                          /\ \/ run.jobTimeout > 0 /\ run.jobTimeout * Millisecond <= run.timeout
                             \/ run.timeout < Millisecond
                             \/ run.timeout = Minute * Millisecond /\ run.jobTimeout < 0

(* The agent: one result per job so far, of its type; only a command has   *)
(* output, and none beyond the limit; a failure ends the batch.            *)
Kept == [Streams -> Nat]
Results == [type: {"mkdir", "write_file", "exec", "unknown"}, ok: BOOLEAN, code: Int,
            kept: Kept]

ResultsOK ==
    /\ Len(results) <= Len(run.jobs)
    /\ \A i \in 1..Len(results) :
          /\ results[i].type = run.jobs[i].type
          /\ \A st \in Streams : /\ results[i].kept[st] <= run.output
                                 /\ results[i].type # "exec" => results[i].kept[st] = 0
    /\ why = {} => \A i \in 1..Len(results) : results[i].ok

StageInv ==
    /\ stage \in {"start", "http", "server", "manager", "agent", "end"}
    /\ input \in Request \cup CommandLine
    /\ uploaded \in Nat /\ results \in Seq(Results)
    /\ stage \in {"http", "server"} => Api
    /\ stage # "end" => answer = NoAnswer
    /\ Api /\ stage \in {"http", "server", "manager", "agent"} => ConfigOK(config)
    /\ stage \in {"start", "http", "server", "manager"} =>
          results = <<>> /\ why = {} /\ uploaded = 0

RunInv ==
    /\ stage = "server" => ServerOK(input)
    /\ stage \in {"manager", "agent"} => /\ run \in Run /\ ResultsOK
                                         /\ Api => ApiRun
                                         /\ ~Api => CommandRun

Inv ==
    /\ StageInv /\ RunInv
    /\ ServerChecksCoverAgent /\ ModestRequestIsServed
    /\ OneCommandIsReported /\ ExitZeroMeansSuccess

LEMMA NumberFacts ==
    /\ MiB \in Nat \ {0} /\ Minute \in Nat \ {0} /\ 4 * MiB \in Nat \ {0} /\ MaxRequestBytes \in Nat
    /\ MaxFileBytes \in Nat /\ MaxBodyBytes \in Nat /\ MaxRequestBytes <= MaxBodyBytes
    /\ ContentMaxLength \in Nat /\ 33 * 1024 + 2 * ContentMaxLength <= MaxResponseBytes
    /\ MaxResponseBytes \in Nat /\ EnvelopeBytes = 1024
BY SMT DEF MiB, Minute, MaxRequestBytes, MaxFileBytes, MaxBodyBytes, ContentMaxLength, EnvelopeBytes,
           MaxResponseBytes

(* The milliseconds of a duration are not more than the duration. *)
LEMMA MillisecondFacts ==
    ASSUME NEW d \in Int
    PROVE  /\ Milliseconds(d) \in Int
           /\ Milliseconds(d) > 0 => Milliseconds(d) * Millisecond <= d
           /\ Milliseconds(d) = 0 => d < Millisecond
           /\ Milliseconds(d) < 0 => d < 0
BY SMT DEF Milliseconds, Millisecond

LEMMA InvInit == Init => Inv
<1> SUFFICES ASSUME Init PROVE Inv
  OBVIOUS
<1>1. input \in Request \cup CommandLine /\ results \in Seq(Results) /\ uploaded \in Nat
  BY InputAssumption DEF Init
<1>2. StageInv
  BY <1>1 DEF Init, StageInv
<1> QED
  BY <1>2 DEF Init, Inv, RunInv, ServerChecksCoverAgent, ModestRequestIsServed,
              OneCommandIsReported, ExitZeroMeansSuccess, NoAnswer

-----------------------------------------------------------------------------
(* LoadConfig. *)
LEMMA PositiveFacts ==
    ASSUME NEW v \in Int, NEW d \in Nat \ {0}
    PROVE  Positive(v, d) \in Nat \ {0}
BY DEF Positive

LEMMA FileConfig ==
    ASSUME NEW file \in ConfigFiles, Validate(FromFile(file))
    PROVE  ConfigOK(FromFile(file))
<1> DEFINE c == [f \in Fields |-> IF f \in DOMAIN file THEN file[f] ELSE DefaultConfig[f]]
           d == ApplyDefaults(c)
<1>1. \A f \in Fields : DefaultConfig[f] \in Int
  BY NumberFacts, SMT DEF Fields, DefaultConfig
<1>2. \A f \in Fields : c[f] \in Int
  BY <1>1, InputAssumption
<1>3. /\ c.timeout \in Int /\ c.output \in Int /\ c.tasks \in Int /\ c.write \in Int
      /\ c.vcpu \in Int /\ c.mem \in Int /\ c.maxVCPU \in Int /\ c.maxMem \in Int
  BY <1>2 DEF Fields
<1> HIDE DEF c
<1>4. /\ Positive(c.vcpu, 1) \in Nat \ {0} /\ Positive(c.mem, 256) \in Nat \ {0}
      /\ Positive(c.timeout, Minute) \in Nat \ {0} /\ Positive(c.tasks, 32) \in Nat \ {0}
  BY <1>3, NumberFacts, SMT DEF Positive
<1>5. /\ Positive(c.output, 4 * MiB) \in Nat \ {0} /\ Positive(c.write, 4 * MiB) \in Nat \ {0}
      /\ Positive(c.maxVCPU, Positive(c.vcpu, 1)) \in Nat \ {0}
      /\ Positive(c.maxMem, Positive(c.mem, 256)) \in Nat \ {0}
  <2>1. 4 * MiB \in Nat \ {0}
    BY NumberFacts
  <2>2. Positive(c.output, 4 * MiB) \in Nat \ {0} /\ Positive(c.write, 4 * MiB) \in Nat \ {0}
    BY <1>3, <2>1, PositiveFacts
  <2>3. Positive(c.maxVCPU, Positive(c.vcpu, 1)) \in Nat \ {0}
    BY <1>3, <1>4, SMT DEF Positive
  <2>4. Positive(c.maxMem, Positive(c.mem, 256)) \in Nat \ {0}
    BY <1>3, <1>4, SMT DEF Positive
  <2> QED
    BY <2>2, <2>3, <2>4
<1>6. /\ d.timeout = Positive(c.timeout, Minute) /\ d.output = Positive(c.output, 4 * MiB)
      /\ d.tasks = Positive(c.tasks, 32) /\ d.write = Positive(c.write, 4 * MiB)
      /\ d.vcpu = Positive(c.vcpu, 1) /\ d.mem = Positive(c.mem, 256)
      /\ d.maxVCPU = Positive(c.maxVCPU, Positive(c.vcpu, 1))
      /\ d.maxMem = Positive(c.maxMem, Positive(c.mem, 256))
  BY DEF ApplyDefaults
<1>7. d = FromFile(file)
  BY DEF FromFile, c
<1> HIDE DEF d
<1> QED
  BY <1>4, <1>5, <1>6, <1>7 DEF Validate, ConfigOK

(* A run that ends: what is left to show is what its answer says. *)
LEMMA EndKeeps ==
    ASSUME Inv, stage # "end", stage' = "end", UNCHANGED <<input, guest>>,
           ModestRequestIsServed', OneCommandIsReported', ExitZeroMeansSuccess'
    PROVE  Inv'
<1>1. StageInv' /\ RunInv'
  BY DEF Inv, StageInv, RunInv, guest
<1>2. ServerChecksCoverAgent'
  BY DEF Inv, ServerChecksCoverAgent, Api, guest
<1> QED
  BY <1>1, <1>2 DEF Inv

(* While the run has no answer there is nothing to show about it. *)
LEMMA OnWayKeeps ==
    ASSUME StageInv', RunInv', ServerChecksCoverAgent', stage' # "end"
    PROVE  Inv'
BY DEF Inv, StageInv, NoAnswer, ModestRequestIsServed, OneCommandIsReported,
       ExitZeroMeansSuccess

LEMMA EndsWell ==
    ASSUME Inv, stage # "end", NEW kind, NEW code \in Int, Ends(kind, code),
           kind # "lost", code # 0, code # 400, UNCHANGED <<input, guest>>
    PROVE  Inv'
<1>1. stage' = "end" /\ answer' = [kind |-> kind, code |-> code]
  BY DEF Ends
<1>2. answer'.kind = kind /\ answer'.code = code
  BY <1>1
<1>3. ModestRequestIsServed'
  BY <1>2, Zenon DEF ModestRequestIsServed
<1>4. OneCommandIsReported'
  BY <1>2, Zenon DEF OneCommandIsReported
<1>5. ExitZeroMeansSuccess'
  BY <1>2, Zenon DEF ExitZeroMeansSuccess
<1> QED
  BY <1>1, <1>3, <1>4, <1>5, EndKeeps

LEMMA LoadConfigKeeps ==
    ASSUME Inv, LoadConfig
    PROVE  Inv'
<1>1. PICK file \in ConfigFiles :
          LET c == FromFile(file) IN
          IF Validate(c) THEN config' = c /\ stage' = "http" /\ UNCHANGED answer
          ELSE Ends("no_daemon", 1) /\ UNCHANGED config
  BY DEF LoadConfig
<1>2. stage = "start" /\ Api /\ UNCHANGED <<input, run, guest>>
  BY DEF LoadConfig
<1>3. CASE Validate(FromFile(file))
  <2>1. config' = FromFile(file) /\ stage' = "http" /\ UNCHANGED answer
    BY <1>1, <1>3
  <2>2. ConfigOK(config')
    BY <1>3, <2>1, FileConfig
  <2>3. StageInv'
    BY <1>2, <2>1, <2>2 DEF Inv, StageInv, Api, guest
  <2>4. RunInv' /\ ServerChecksCoverAgent'
    BY <1>2, <2>1 DEF Inv, RunInv, ServerChecksCoverAgent, Api, guest
  <2> QED
    BY <2>1, <2>3, <2>4, OnWayKeeps
<1>4. CASE ~Validate(FromFile(file))
  <2>1. Ends("no_daemon", 1)
    BY <1>1, <1>4
  <2> QED
    BY <1>2, <2>1, EndsWell
<1> QED
  BY <1>3, <1>4

-----------------------------------------------------------------------------
(* Decode: what the schema allows and its defaults. *)
LEMMA RequestFacts ==
    ASSUME input \in Request \cup CommandLine, Api
    PROVE  /\ input \in Request
           /\ input.tasks \in Seq(Tasks) /\ input.timeout \in Int
           /\ input.vcpu \in Int /\ input.mem \in Int
<1>1. input \notin CommandLine
  BY DEF CommandLine, Api
<1> QED
  BY <1>1 DEF Request

(* The running totals depend on the sizes only. *)
LEMMA SameTotals ==
    ASSUME NEW s \in Seq(Tasks), NEW t \in Seq(Tasks), Len(s) = Len(t),
           \A i \in 1..Len(s) : s[i].bytes = t[i].bytes
    PROVE  BodyWeights(s) = BodyWeights(t)
BY DEF BodyWeights

LEMMA SchemaFacts ==
    ASSUME NEW req \in Request, SchemaAllows(req)
    PROVE  SchemaDefaults(req) \in Request /\ ServerOK(SchemaDefaults(req))
<1> DEFINE new == [i \in DOMAIN req.tasks |-> TaskDefaults(req.tasks[i])]
           n == Len(req.tasks)
           timeout == IF req.timeout = 0 THEN Minute ELSE req.timeout
<1>1. /\ req.tasks \in Seq(Tasks) /\ req.timeout \in Int /\ req.vcpu \in Int /\ req.mem \in Int
      /\ n \in Nat /\ DOMAIN req.tasks = 1..n
  BY DEF Request
<1>2. ASSUME NEW t \in Tasks
      PROVE  /\ TaskDefaults(t) \in Tasks /\ TaskDefaults(t).type = t.type /\ TaskDefaults(t).bytes = t.bytes
             /\ t.mode \in 0..511 => TaskDefaults(t).mode \in 0..511
  <2>1. Workspace \in Path
    <3>1. <<"workspace">> \in Seq(Components)
      BY InputAssumption
    <3> QED
      BY <3>1 DEF Workspace, Path
  <2>2. Tasks = [type: {"mkdir", "write_file", "exec", "unknown"}, path: Path, mode: Int,
                 bytes: Nat, base64: BOOLEAN, parents: BOOLEAN,
                 argv: {"none", "blank", "cmd"}, dir: Path]
    BY DEF Tasks
  <2> DEFINE m == IF t.mode = 0 THEN 420 ELSE t.mode
             w == IF t.dir = <<>> THEN Workspace ELSE t.dir
  <2>3. t.mode \in Int /\ t.dir \in Path
    BY <2>2
  <2>4. m \in Int /\ w \in Path /\ (t.mode \in 0..511 => m \in 0..511)
    BY <2>1, <2>3
  <2>5. TaskDefaults(t) = [t EXCEPT !.mode = m, !.dir = w]
    BY <2>2 DEF TaskDefaults
  <2> HIDE DEF m, w
  <2>6. /\ [t EXCEPT !.mode = m, !.dir = w] \in Tasks
        /\ [t EXCEPT !.mode = m, !.dir = w].type = t.type
        /\ [t EXCEPT !.mode = m, !.dir = w].bytes = t.bytes
        /\ [t EXCEPT !.mode = m, !.dir = w].mode = m
    BY <2>2, <2>4
  <2> QED
    BY <2>4, <2>5, <2>6
<1>3. SchemaDefaults(req) = [req EXCEPT !.timeout = timeout, !.tasks = new]
  BY DEF SchemaDefaults
<1>4. \A i \in 1..n : req.tasks[i] \in Tasks
  BY <1>1
<1>5. new \in Seq(Tasks) /\ Len(new) = n /\ DOMAIN new = 1..n
  <2>1. \A i \in 1..n : TaskDefaults(req.tasks[i]) \in Tasks
    BY <1>2, <1>4
  <2> HIDE DEF n
  <2> QED
    BY <1>1, <2>1
<1>6. \A i \in 1..n : new[i] = TaskDefaults(req.tasks[i])
  <2> HIDE DEF n
  <2> QED
    BY <1>1
<1>7. /\ n \in 1..32 /\ req.timeout >= 0 /\ req.vcpu >= 0 /\ req.mem >= 0
      /\ BodyBytes(req) <= MaxRequestBytes
      /\ \A i \in 1..n : /\ req.tasks[i].type \in {"mkdir", "write_file", "exec"}
                         /\ req.tasks[i].mode \in 0..511
                         /\ Base64Len(req.tasks[i].bytes) <= ContentMaxLength
  BY Zenon DEF SchemaAllows
<1>8. \A i \in 1..n : req.tasks[i].bytes \in Nat /\ req.tasks[i].bytes <= MaxFileBytes
  <2>1. \A i \in 1..n : req.tasks[i].bytes \in Nat
    BY <1>4 DEF Tasks
  <2> SUFFICES ASSUME NEW i \in 1..n PROVE req.tasks[i].bytes <= MaxFileBytes
    BY <2>1
  <2>2. req.tasks[i].bytes \in Nat /\ Base64Len(req.tasks[i].bytes) <= ContentMaxLength
    BY <1>7, <2>1
  <2> QED
    BY <2>2, Base64Facts
<1> HIDE DEF n, timeout, new
<1>9. timeout \in Int /\ timeout > 0
  BY <1>1, <1>7, NumberFacts, SMT DEF timeout
<1>10. \E b : FitsBody(b, new)
  <2>1. PICK b : Totals(b, n, BodyWeights(req.tasks)) /\ b[n] = BodyBytes(req)
    BY <1>1, <1>8, BodyTotals DEF n
  <2>2. \A i \in 1..n : new[i].bytes = req.tasks[i].bytes
    BY <1>2, <1>4, <1>6
  <2>3. BodyWeights(req.tasks) = BodyWeights(new)
    BY <1>1, <1>5, <2>2, SameTotals DEF n
  <2>4. FitsBody(b, new)
    BY <1>5, <1>7, <2>1, <2>3 DEF FitsBody
  <2> QED
    BY <2>4
<1> DEFINE d == [req EXCEPT !.timeout = timeout, !.tasks = new]
<1>11. d \in Request /\ d.tasks = new /\ d.timeout = timeout /\ d.vcpu = req.vcpu /\ d.mem = req.mem
  BY <1>5, <1>9 DEF Request
<1> HIDE DEF d
<1>12. \A i \in 1..n : /\ new[i].type \in {"mkdir", "write_file", "exec"}
                       /\ new[i].mode \in 0..511
                       /\ new[i].bytes <= MaxFileBytes
  <2> SUFFICES ASSUME NEW i \in 1..n
               PROVE  /\ new[i].type \in {"mkdir", "write_file", "exec"}
                      /\ new[i].mode \in 0..511 /\ new[i].bytes <= MaxFileBytes
    OBVIOUS
  <2>1. /\ TaskDefaults(req.tasks[i]).type = req.tasks[i].type /\ TaskDefaults(req.tasks[i]).bytes = req.tasks[i].bytes
        /\ TaskDefaults(req.tasks[i]).mode \in 0..511
    BY <1>2, <1>4, <1>7
  <2> QED
    BY <1>6, <1>7, <1>8, <2>1
<1>13. ServerOK(d)
  <2>1. \E b : FitsBody(b, d.tasks)
    BY <1>10, <1>11
  <2>2. Len(d.tasks) \in 1..32 /\ d.timeout > 0 /\ d.vcpu >= 0 /\ d.mem >= 0
    BY <1>5, <1>7, <1>9, <1>11
  <2>3. \A i \in 1..Len(d.tasks) :
          /\ d.tasks[i].type \in {"mkdir", "write_file", "exec"}
          /\ d.tasks[i].mode \in 0..511
          /\ d.tasks[i].bytes <= MaxFileBytes
    BY <1>5, <1>11, <1>12
  <2> QED
    BY <2>1, <2>2, <2>3, Zenon DEF ServerOK
<1> QED
  BY <1>3, <1>11, <1>13 DEF d

LEMMA DecodeKeeps ==
    ASSUME Inv, Decode
    PROVE  Inv'
<1>1. stage = "http" /\ UNCHANGED <<config, run, guest>>
  BY DEF Decode
<1>2. Api /\ input \in Request /\ ConfigOK(config) /\ answer = NoAnswer
  BY <1>1, RequestFacts DEF Inv, StageInv
<1>3. CASE SchemaAllows(input)
  <2>1. input' = SchemaDefaults(input) /\ stage' = "server" /\ UNCHANGED answer
    BY <1>3 DEF Decode
  <2>2. input' \in Request /\ ServerOK(input')
    BY <1>2, <1>3, <2>1, SchemaFacts
  <2>3. StageInv'
    BY <1>1, <1>2, <2>1, <2>2 DEF Inv, StageInv, Request, Api, guest
  <2>4. RunInv'
    BY <2>1, <2>2 DEF RunInv
  <2>5. ServerChecksCoverAgent'
    BY <1>1, <1>2 DEF Inv, ServerChecksCoverAgent, guest
  <2> QED
    BY <2>1, <2>3, <2>4, <2>5, OnWayKeeps
<1>4. CASE ~SchemaAllows(input)
  BY <1>1, <1>4, EndsWell DEF Decode
<1> QED
  BY <1>3, <1>4

-----------------------------------------------------------------------------
(* ManagerRunRequest: the jobs made of valid tasks. *)
LEMMA WorkspaceJobFacts ==
    /\ WorkspaceJob \in Tasks /\ WorkspaceJob.type = "mkdir" /\ WorkspaceJob.bytes = 0
    /\ Checked(WorkspaceJob)
<1>1. Workspace \in Path /\ <<>> \in Path
  <2>1. <<"workspace">> \in Seq(Components) /\ <<>> \in Seq(Components)
    BY InputAssumption
  <2> QED
    BY <2>1 DEF Workspace, Path
<1>2. WorkspaceJob \in Tasks
  BY <1>1 DEF WorkspaceJob, Tasks
<1>3. /\ WorkspaceJob.type = "mkdir" /\ WorkspaceJob.bytes = 0
      /\ WorkspaceJob.path = Workspace /\ WorkspaceJob.mode = 493
  BY DEF WorkspaceJob
<1>4. SafeMode(493)
  BY DEF SafeMode
<1> QED
  BY <1>2, <1>3, <1>4, WorkspaceIsSafe DEF Checked

LEMMA JobFacts ==
    ASSUME NEW t \in Tasks, ValidTask(t), t.mode \in 0..511, t.bytes <= MaxFileBytes
    PROVE  /\ [t EXCEPT !.mode = ModeOf(t)] \in Tasks
           /\ [t EXCEPT !.mode = ModeOf(t)].bytes = t.bytes
           /\ Checked([t EXCEPT !.mode = ModeOf(t)])
<1> DEFINE job == [t EXCEPT !.mode = ModeOf(t)]
<1>1. t.mode \in Int /\ t.path \in Seq(Components) /\ t.dir \in Seq(Components)
  BY DEF Tasks, Path
<1>2. ModeOf(t) \in 0..511
  BY <1>1 DEF ModeOf
<1>3. /\ job \in Tasks /\ job.bytes = t.bytes /\ job.type = t.type /\ job.path = t.path
      /\ job.dir = t.dir /\ job.base64 = t.base64 /\ job.mode = ModeOf(t)
  BY <1>2 DEF Tasks
<1>4. SafeMode(ModeOf(t))
  BY <1>2, SMT DEF SafeMode
<1> HIDE DEF job
<1>5. CASE t.type = "mkdir"
  <2>1. ValidWorkspacePath(t.path)
    BY <1>5 DEF ValidTask
  <2> QED
    BY <1>1, <1>3, <1>4, <1>5, <2>1, ValidPathIsSafe DEF Checked, job
<1>6. CASE t.type = "write_file"
  <2>1. ValidWorkspacePath(t.path) /\ t.base64
    BY <1>6 DEF ValidTask
  <2> QED
    BY <1>1, <1>3, <1>4, <1>6, <2>1, ValidPathIsSafe DEF Checked, job
<1>7. CASE t.type = "exec"
  <2>1. ValidWorkspacePath(t.dir)
    BY <1>7 DEF ValidTask
  <2> QED
    BY <1>1, <1>3, <1>7, <2>1, ValidPathIsSafe DEF Checked, job
<1> QED
  BY <1>5, <1>6, <1>7 DEF ValidTask

LEMMA JobsFacts ==
    ASSUME NEW tasks \in Seq(Tasks), NEW b, FitsBody(b, tasks),
           \A i \in 1..Len(tasks) : /\ ValidTask(tasks[i]) /\ tasks[i].mode \in 0..511
                                    /\ tasks[i].bytes <= MaxFileBytes
    PROVE  /\ TasksToJobs(tasks) \in Seq(Tasks) /\ Len(TasksToJobs(tasks)) = Len(tasks) + 1
           /\ \A i \in 1..Len(tasks) + 1 : Checked(TasksToJobs(tasks)[i])
           /\ \E c : FitsBody(c, TasksToJobs(tasks))
<1> DEFINE job(i) == [tasks[i] EXCEPT !.mode = ModeOf(tasks[i])]
           rest == [i \in DOMAIN tasks |-> job(i)]
           jobs == TasksToJobs(tasks)
           n == Len(tasks)
<1>1. n \in Nat /\ DOMAIN tasks = 1..n /\ \A i \in 1..n : tasks[i] \in Tasks
  OBVIOUS
<1>2. \A i \in 1..n : job(i) \in Tasks /\ job(i).bytes = tasks[i].bytes /\ Checked(job(i))
  BY <1>1, JobFacts
<1>3. jobs = <<WorkspaceJob>> \o rest
  BY DEF TasksToJobs
<1> HIDE DEF job, n, jobs
<1>4. rest \in Seq(Tasks) /\ Len(rest) = n /\ \A i \in 1..n : rest[i] = job(i)
  BY <1>1, <1>2
<1> HIDE DEF rest
<1>5. /\ jobs \in Seq(Tasks) /\ Len(jobs) = n + 1 /\ jobs[1] = WorkspaceJob
      /\ \A i \in 2..n + 1 : jobs[i] = job(i - 1)
  <2>1. <<WorkspaceJob>> \in Seq(Tasks) /\ Len(<<WorkspaceJob>>) = 1
    BY WorkspaceJobFacts
  <2>2. /\ jobs \in Seq(Tasks) /\ Len(jobs) = 1 + n
        /\ \A i \in 1..1 + n : jobs[i] = IF i <= 1 THEN <<WorkspaceJob>>[i] ELSE rest[i - 1]
    BY <1>1, <1>3, <1>4, <2>1, ConcatProperties
  <2>3. jobs[1] = WorkspaceJob
    BY <1>1, <2>2
  <2>4. ASSUME NEW i \in 2..n + 1 PROVE jobs[i] = job(i - 1)
    <3>1. i \in 1..1 + n /\ ~(i <= 1) /\ i - 1 \in 1..n
      BY <1>1
    <3> QED
      BY <1>4, <2>2, <3>1
  <2> QED
    BY <1>1, <2>2, <2>3, <2>4
<1>6. ASSUME NEW i \in 1..n + 1
      PROVE  /\ Checked(jobs[i])
             /\ jobs[i].bytes = IF i = 1 THEN 0 ELSE tasks[i - 1].bytes
  <2>1. CASE i = 1
    BY <1>5, <2>1, WorkspaceJobFacts
  <2>2. CASE i # 1
    <3>1. i \in 2..n + 1 /\ i - 1 \in 1..n
      BY <1>1, <2>2
    <3> QED
      BY <1>2, <1>5, <2>2, <3>1
  <2> QED
    BY <2>1, <2>2
<1>7. \E c : FitsBody(c, jobs)
  <2> DEFINE c == [k \in 0..n + 1 |-> IF k = 0 THEN 0 ELSE b[k - 1]]
             w == BodyWeights(tasks)
             v == BodyWeights(jobs)
  <2>1. /\ \A k \in 0..n : b[k] \in Nat
        /\ b[0] = 0 /\ \A k \in 1..n : b[k] = b[k - 1] + w[k]
        /\ b[n] <= MaxRequestBytes
    BY DEF FitsBody, Totals, n
  <2>2. /\ \A k \in 1..n : w[k] = Base64Len(tasks[k].bytes)
        /\ \A k \in 1..n + 1 : v[k] = Base64Len(jobs[k].bytes)
    BY <1>5 DEF BodyWeights, n
  <2> HIDE DEF w, v
  <2>3. \A k \in 1..n + 1 : v[k] = IF k = 1 THEN 0 ELSE w[k - 1]
    <3> SUFFICES ASSUME NEW k \in 1..n + 1 PROVE v[k] = IF k = 1 THEN 0 ELSE w[k - 1]
      OBVIOUS
    <3>1. CASE k = 1
      BY <1>6, <2>2, <3>1, Base64Facts
    <3>2. CASE k # 1
      <4>1. k - 1 \in 1..n
        BY <1>1, <3>2
      <4> QED
        BY <1>6, <2>2, <3>2, <4>1
    <3> QED
      BY <3>1, <3>2
  <2>4. c \in [0..n + 1 -> Nat] /\ c[0] = 0
    <3>1. \A k \in 0..n + 1 : (IF k = 0 THEN 0 ELSE b[k - 1]) \in Nat
      BY <1>1, <2>1
    <3>2. c[0] = 0
      BY <1>1
    <3> QED
      BY <3>1, <3>2
  <2>5. ASSUME NEW k \in 1..n + 1 PROVE c[k] = c[k - 1] + v[k]
    <3>1. c[k] = b[k - 1] /\ c[k - 1] = IF k = 1 THEN 0 ELSE b[k - 2]
      BY <1>1
    <3>2. CASE k = 1
      <4>1. c[k] = 0 /\ c[k - 1] = 0 /\ v[k] = 0
        BY <2>1, <2>3, <3>1, <3>2
      <4> QED
        BY <4>1
    <3>3. CASE k # 1
      <4>1. k - 1 \in 1..n /\ (k - 1) - 1 = k - 2
        BY <1>1, <3>3
      <4>2. b[k - 1] = b[k - 2] + w[k - 1] /\ v[k] = w[k - 1]
        BY <2>1, <2>3, <3>3, <4>1
      <4> QED
        BY <3>1, <3>3, <4>2
    <3> QED
      BY <3>2, <3>3
  <2>6. c[n + 1] = b[n]
    BY <1>1
  <2> HIDE DEF c
  <2>7. Totals(c, n + 1, v)
    BY <2>4, <2>5 DEF Totals
  <2>8. FitsBody(c, jobs)
    BY <1>5, <2>1, <2>6, <2>7 DEF FitsBody, v
  <2> QED
    BY <2>8
<1> QED
  BY <1>5, <1>6, <1>7 DEF jobs, n

(* The request of an API run, as the server sees it. *)
LEMMA LimitFacts ==
    ASSUME ConfigOK(config), NEW req \in Request, ServerOK(req)
    PROVE  /\ RunTimeout(req) \in Nat \ {0} /\ RunTimeout(req) = req.timeout
           /\ MachineOf(req) \in [vcpu: Int, mem: Int]
           /\ req.vcpu = 0 => MachineOf(req).vcpu = config.vcpu
           /\ req.mem = 0 => MachineOf(req).mem = config.mem
<1>1. /\ req.timeout \in Int /\ req.timeout > 0 /\ req.vcpu \in Int /\ req.mem \in Int
      /\ config.vcpu \in Int /\ config.mem \in Int
  BY DEF Request, ServerOK, ConfigOK
<1>2. RunTimeout(req) = req.timeout
  BY <1>1 DEF RunTimeout, Positive
<1>3. /\ Positive(req.vcpu, config.vcpu) \in Int /\ Positive(req.mem, config.mem) \in Int
      /\ req.vcpu = 0 => Positive(req.vcpu, config.vcpu) = config.vcpu
      /\ req.mem = 0 => Positive(req.mem, config.mem) = config.mem
  BY <1>1 DEF Positive
<1> QED
  BY <1>1, <1>2, <1>3 DEF MachineOf

LEMMA ManagerRunRequestKeeps ==
    ASSUME Inv, ManagerRunRequest
    PROVE  Inv'
<1> DEFINE Accepts == WithinLimits(input) /\ \A i \in DOMAIN input.tasks : ValidTask(input.tasks[i])
<1>1. stage = "server" /\ UNCHANGED <<input, config, guest>>
  BY DEF ManagerRunRequest
<1>2. /\ Api /\ input \in Request /\ ConfigOK(config) /\ answer = NoAnswer /\ ServerOK(input)
      /\ results = <<>> /\ why = {} /\ uploaded = 0
  BY <1>1, RequestFacts DEF Inv, StageInv, RunInv
<1>3. /\ input.tasks \in Seq(Tasks) /\ Len(input.tasks) \in Nat
      /\ DOMAIN input.tasks = 1..Len(input.tasks)
  BY <1>2 DEF Request
<1>4. CASE Accepts
  <2> DEFINE jobs == TasksToJobs(input.tasks)
             time == RunTimeout(input)
             machine == MachineOf(input)
             n == Len(input.tasks)
  <2>1. /\ run' = [jobs |-> jobs, timeout |-> time * Millisecond, jobTimeout |-> time,
                   output |-> config.output, machine |-> machine]
        /\ stage' = "manager" /\ UNCHANGED answer
    BY <1>4 DEF ManagerRunRequest
  <2>2. PICK b : FitsBody(b, input.tasks)
    BY <1>2 DEF ServerOK
  <2>3. /\ jobs \in Seq(Tasks) /\ Len(jobs) = n + 1
        /\ \A i \in 1..n + 1 : Checked(jobs[i])
        /\ \E c : FitsBody(c, jobs)
    <3>1. \A i \in 1..Len(input.tasks) :
              /\ ValidTask(input.tasks[i]) /\ input.tasks[i].mode \in 0..511
              /\ input.tasks[i].bytes <= MaxFileBytes
      BY <1>2, <1>3, <1>4 DEF ServerOK
    <3> QED
      BY <1>3, <2>2, <3>1, JobsFacts
  <2>4. /\ time \in Nat \ {0} /\ machine \in [vcpu: Int, mem: Int]
        /\ time <= config.timeout /\ n \in 1..config.tasks /\ n \in 1..32
        /\ machine.vcpu <= config.maxVCPU /\ machine.mem <= config.maxMem
    BY <1>2, <1>4, LimitFacts DEF WithinLimits, ServerOK
  <2>5. config.output \in Int /\ config.tasks \in Nat /\ n \in Nat /\ time * Millisecond \in Int
    BY <1>2, <1>3, <2>4 DEF ConfigOK, Millisecond
  <2> HIDE DEF jobs, time, machine, n, Accepts
  <2>6. run' \in Run
    BY <2>1, <2>3, <2>4, <2>5 DEF Run
  <2>7. /\ run'.jobs = jobs /\ run'.timeout = time * Millisecond /\ run'.jobTimeout = time
        /\ run'.output = config.output /\ run'.machine = machine
    BY <2>1
  <2>8. results' = <<>> /\ why' = {} /\ uploaded' = 0 /\ config' = config
    BY <1>1, <1>2 DEF guest
  <2>9. PICK c : FitsBody(c, jobs)
    BY <2>3
  <2>10. c[0] = 0
    BY <2>9 DEF FitsBody, Totals
  <2>11. \E d : FitsBody(d, run'.jobs) /\ (why' = {} => uploaded' <= d[Len(results')])
    <3>1. Len(results') = 0 /\ uploaded' <= c[0]
      BY <2>8, <2>10
    <3> QED
      BY <2>7, <2>9, <3>1
  <2>12. ApiRun'
    <3>1. /\ Len(jobs) \in 1..33 /\ Len(jobs) <= config.tasks + 1
          /\ \A i \in 1..Len(jobs) : Checked(jobs[i])
      BY <2>3, <2>4, <2>5
    <3>2. time > 0
      BY <2>4
    <3> QED
      BY <2>4, <2>7, <2>8, <2>11, <3>1, <3>2, Zenon DEF ApiRun
  <2>13. ResultsOK'
    <3>1. Len(results') = 0 /\ Len(run'.jobs) \in Nat
      BY <2>5, <2>3, <2>7, <2>8
    <3> QED
      BY <3>1 DEF ResultsOK
  <2>14. StageInv'
    BY <1>1, <1>2, <2>1 DEF Inv, StageInv, Api, guest
  <2>15. RunInv'
    BY <1>1, <1>2, <2>1, <2>6, <2>12, <2>13 DEF RunInv, Api
  <2>16. ServerChecksCoverAgent'
    BY <2>8 DEF ServerChecksCoverAgent
  <2> QED
    BY <2>1, <2>14, <2>15, <2>16, OnWayKeeps
<1>5. CASE ~Accepts
  <2>1. stage' = "end" /\ answer' = [kind |-> "refused", code |-> 400]
    BY <1>5 DEF ManagerRunRequest, Ends
  <2>2. answer'.kind = "refused" /\ answer'.code = 400
    BY <2>1
  <2>3. ModestRequestIsServed'
    <3> SUFFICES ASSUME config.timeout >= Minute,
                        input.vcpu = 0, input.mem = 0, ~(input.timeout > Minute),
                        \A i \in DOMAIN input.tasks :
                            /\ input.tasks[i].type = "exec" /\ input.tasks[i].argv = "cmd"
                            /\ input.tasks[i].dir = Workspace,
                        Len(input.tasks) = 1
                 PROVE  FALSE
      BY <1>1, Zenon DEF ModestRequestIsServed
    <3>1. \A i \in DOMAIN input.tasks : ValidTask(input.tasks[i])
      BY WorkspaceIsSafe DEF ValidTask
    <3>2. 1 \in 1..config.tasks
      BY <1>2 DEF ConfigOK
    <3>3. RunTimeout(input) <= config.timeout
      <4>1. RunTimeout(input) = input.timeout
        BY <1>2, LimitFacts
      <4>2. input.timeout \in Int /\ config.timeout \in Int /\ Minute \in Int
        BY <1>2, NumberFacts DEF Request, ConfigOK
      <4> QED
        BY <4>1, <4>2
    <3>4. MachineOf(input).vcpu <= config.maxVCPU /\ MachineOf(input).mem <= config.maxMem
      BY <1>2, LimitFacts DEF ConfigOK
    <3>5. WithinLimits(input)
      BY <3>2, <3>3, <3>4 DEF WithinLimits
    <3> QED
      BY <1>5, <3>1, <3>5
  <2>4. OneCommandIsReported'
    BY <2>2, Zenon DEF OneCommandIsReported
  <2>5. ExitZeroMeansSuccess'
    BY <1>1, <1>2 DEF ExitZeroMeansSuccess, Api
  <2> QED
    BY <1>1, <2>1, <2>3, <2>4, <2>5, EndKeeps
<1> QED
  BY <1>4, <1>5

-----------------------------------------------------------------------------
(* RunVM and the manager. *)
LEMMA CommandLineFacts ==
    ASSUME input \in Request \cup CommandLine, ~Api
    PROVE  /\ input.timeout \in Int /\ input.vcpu \in Int /\ input.mem \in Int
           /\ input.argv \in {"none", "blank", "cmd"} /\ input.dir \in Path
<1>1. input \notin Request
  BY DEF Request, Api
<1> QED
  BY <1>1 DEF CommandLine

LEMMA RunVMKeeps ==
    ASSUME Inv, RunVM
    PROVE  Inv'
<1>1. /\ stage = "start" /\ ~Api /\ stage' = "manager"
      /\ UNCHANGED <<input, config, guest, answer>>
      /\ run' = [jobs |-> <<>>, timeout |-> input.timeout,
                 jobTimeout |-> Milliseconds(input.timeout),
                 output |-> 4 * MiB, machine |-> [vcpu |-> input.vcpu, mem |-> input.mem]]
  BY DEF RunVM
<1>2. /\ results = <<>> /\ why = {} /\ uploaded = 0 /\ input.timeout \in Int
      /\ input.vcpu \in Int /\ input.mem \in Int
  BY <1>1, CommandLineFacts DEF Inv, StageInv
<1>3. 4 * MiB \in Int /\ Milliseconds(input.timeout) \in Int
  BY <1>2, NumberFacts, MillisecondFacts
<1>4. run' \in Run
  <2>1. <<>> \in Seq(Tasks)
    OBVIOUS
  <2> QED
    BY <1>1, <1>2, <1>3, <2>1 DEF Run
<1>5. /\ run'.jobs = <<>> /\ run'.timeout = input.timeout
      /\ run'.jobTimeout = Milliseconds(input.timeout)
      /\ run'.output = 4 * MiB
  BY <1>1
<1>6. ResultsOK'
  BY <1>1, <1>2, <1>5 DEF ResultsOK, guest
<1>7. CommandRun'
  BY <1>1, <1>5 DEF CommandRun
<1>8. StageInv'
  BY <1>1, <1>2 DEF Inv, StageInv, Api, guest
<1>9. RunInv'
  BY <1>1, <1>4, <1>6, <1>7 DEF RunInv, Api
<1>10. ServerChecksCoverAgent'
  BY <1>1 DEF ServerChecksCoverAgent, Api
<1> QED
  BY <1>1, <1>8, <1>9, <1>10, OnWayKeeps

LEMMA ManagerFailsKeeps ==
    ASSUME Inv, ManagerFails
    PROVE  Inv'
<1>1. /\ stage = "manager" /\ Ends("error", IF Api THEN 500 ELSE 1)
      /\ UNCHANGED <<input, guest>>
  BY DEF ManagerFails
<1>2. (IF Api THEN 500 ELSE 1) \in Int \ {0, 400}
  OBVIOUS
<1> QED
  BY <1>1, <1>2, EndsWell

LEMMA DefaultJobsFacts ==
    ASSUME NEW argv \in {"blank", "cmd"}, NEW dir \in Path
    PROVE  /\ DefaultJobs(argv, dir) \in Seq(Tasks) /\ Len(DefaultJobs(argv, dir)) = 2
           /\ DefaultJobs(argv, dir)[2].type = "exec"
<1> DEFINE exec == [WorkspaceJob EXCEPT !.type = "exec", !.path = <<>>, !.mode = 0,
                                        !.argv = argv, !.dir = dir]
<1>1. <<>> \in Path
  BY DEF Path
<1>2. exec \in Tasks /\ exec.type = "exec"
  <2>1. PICK m \in Int : m = 0
    OBVIOUS
  <2>2. WorkspaceJob \in Tasks
    BY WorkspaceJobFacts
  <2>3. exec = [WorkspaceJob EXCEPT !.type = "exec", !.path = <<>>, !.mode = m,
                                    !.argv = argv, !.dir = dir]
    BY <2>1
  <2> HIDE DEF exec
  <2> QED
    BY <1>1, <2>2, <2>3, Zenon DEF Tasks
<1>3. DefaultJobs(argv, dir) = <<WorkspaceJob, exec>>
  BY DEF DefaultJobs
<1> HIDE DEF exec
<1> QED
  BY <1>2, <1>3, WorkspaceJobFacts

LEMMA ManagerRunKeeps ==
    ASSUME Inv, ManagerRun
    PROVE  Inv'
<1> DEFINE timeout == Positive(run.timeout, Minute * Millisecond)
           jobTimeout == IF run.jobTimeout = 0 THEN Milliseconds(timeout) ELSE run.jobTimeout
           output == IF run.output = 0 THEN 4 * MiB ELSE run.output
           batch == [run EXCEPT !.timeout = timeout, !.jobTimeout = jobTimeout, !.output = output]
<1>1. stage = "manager" /\ UNCHANGED <<input, config, guest>>
  BY DEF ManagerRun
<1>2. /\ run \in Run /\ ResultsOK /\ (Api => ApiRun /\ ConfigOK(config)) /\ (~Api => CommandRun)
      /\ results = <<>> /\ why = {} /\ uploaded = 0 /\ answer = NoAnswer
      /\ input \in Request \cup CommandLine
  BY <1>1 DEF Inv, StageInv, RunInv
<1>3. \/ run.jobs # <<>> /\ run' = batch /\ stage' = "agent" /\ UNCHANGED answer
      \/ /\ run.jobs = <<>>
         /\ \E image \in {"none", "cmd"} :
               LET argv == IF input.argv # "none" THEN input.argv ELSE image IN
               IF argv = "none"
               THEN Ends("error", 1) /\ UNCHANGED run
               ELSE /\ run' = [batch EXCEPT !.jobs = DefaultJobs(argv, input.dir)]
                    /\ stage' = "agent" /\ UNCHANGED answer
  BY DEF ManagerRun
<1>4. /\ run.jobs \in Seq(Tasks) /\ run.timeout \in Int /\ run.jobTimeout \in Int
      /\ run.output \in Int /\ 4 * MiB \in Nat \ {0}
      /\ Minute * Millisecond \in Nat /\ Minute * Millisecond >= Millisecond
  BY <1>2, NumberFacts DEF Run, Minute, Millisecond
<1>5. timeout \in Int /\ jobTimeout \in Int /\ output \in Int
  <2>1. timeout \in Int
    BY <1>4 DEF Positive
  <2> HIDE DEF timeout
  <2> QED
    BY <1>4, <2>1, MillisecondFacts
<1>6. CASE stage' = "agent" /\ UNCHANGED answer
  <2>1. StageInv'
    BY <1>1, <1>6 DEF Inv, StageInv, Api, guest
  <2>2. ServerChecksCoverAgent'
    BY <1>1, <1>2 DEF ServerChecksCoverAgent, guest
  <2>3. CASE Api
    <3>1. run.jobs # <<>>
      <4>1. Len(run.jobs) \in 1..33
        BY <1>2, <2>3 DEF ApiRun
      <4>2. Len(<<>>) \notin 1..33
        OBVIOUS
      <4> QED
        BY <4>1, <4>2, Zenon
    <3>2. /\ run.timeout > 0 /\ run.jobTimeout > 0 /\ run.output = config.output
          /\ config.output \in Nat \ {0}
      BY <1>2, <1>4, <2>3 DEF ApiRun, ConfigOK, Millisecond
    <3>3. timeout = run.timeout /\ jobTimeout = run.jobTimeout /\ output = run.output
      BY <1>4, <3>2 DEF Positive
    <3> HIDE DEF timeout, jobTimeout, output
    <3>4. run' = run
      <4>1. run' = batch
        BY <1>3, <3>1
      <4> QED
        BY <1>2, <3>3, <4>1 DEF Run
    <3>5. ApiRun'
      BY <1>1, <1>2, <2>3, <3>4 DEF ApiRun, guest
    <3>6. ResultsOK'
      BY <1>1, <1>2, <3>4 DEF ResultsOK, guest
    <3>7. RunInv'
      BY <1>1, <1>2, <1>6, <2>3, <3>4, <3>5, <3>6 DEF RunInv, Api
    <3> QED
      BY <1>6, <2>1, <2>2, <3>7, OnWayKeeps
  <2>4. CASE ~Api
    <3>1. /\ run.jobs = <<>> /\ run.jobTimeout = Milliseconds(run.timeout)
          /\ run.output = 4 * MiB
      BY <1>1, <1>2, <2>4 DEF CommandRun
    <3>2. /\ output = 4 * MiB
          /\ \/ jobTimeout > 0 /\ jobTimeout * Millisecond <= timeout
             \/ timeout < Millisecond
             \/ timeout = Minute * Millisecond /\ jobTimeout < 0
      <4>1. output = 4 * MiB
        BY <1>4, <3>1
      <4>2. timeout = IF run.timeout > 0 THEN run.timeout ELSE Minute * Millisecond
        BY DEF Positive
      <4> HIDE DEF timeout
      <4>3. CASE run.jobTimeout = 0
        BY <1>4, <1>5, <4>1, <4>2, <4>3, MillisecondFacts DEF Minute, Millisecond, Milliseconds
      <4>4. CASE run.jobTimeout # 0
        <5>1. /\ run.jobTimeout > 0 => run.jobTimeout * Millisecond <= run.timeout
              /\ run.jobTimeout < 0 => run.timeout < 0
          BY <1>4, <3>1, MillisecondFacts
        <5> QED
          BY <1>4, <4>1, <4>2, <4>4, <5>1 DEF Millisecond
      <4> QED
        BY <4>3, <4>4
    <3>3. PICK image \in {"none", "cmd"} :
              LET argv == IF input.argv # "none" THEN input.argv ELSE image IN
              IF argv = "none"
              THEN Ends("error", 1) /\ UNCHANGED run
              ELSE /\ run' = [batch EXCEPT !.jobs = DefaultJobs(argv, input.dir)]
                   /\ stage' = "agent" /\ UNCHANGED answer
      BY <1>3, <3>1
    <3> DEFINE argv == IF input.argv # "none" THEN input.argv ELSE image
               jobs == DefaultJobs(argv, input.dir)
    <3>4. argv # "none" /\ run' = [batch EXCEPT !.jobs = jobs]
      BY <1>6, <3>3 DEF Ends
    <3>5. jobs \in Seq(Tasks) /\ Len(jobs) = 2 /\ jobs[2].type = "exec"
      <4>1. input.argv \in {"none", "blank", "cmd"} /\ input.dir \in Path
        BY <1>2, <2>4, CommandLineFacts
      <4>2. argv \in {"blank", "cmd"}
        BY <3>4, <4>1
      <4> QED
        BY <4>1, <4>2, DefaultJobsFacts
    <3> HIDE DEF timeout, jobTimeout, output, argv, jobs
    <3>6. /\ run' \in Run /\ run'.jobs = jobs /\ run'.timeout = timeout
          /\ run'.jobTimeout = jobTimeout /\ run'.output = output
      BY <1>2, <1>5, <3>4, <3>5 DEF Run
    <3> HIDE DEF batch
    <3>7. ResultsOK'
      <4>1. results' = <<>> /\ Len(run'.jobs) = 2
        BY <1>1, <1>2, <3>5, <3>6 DEF guest
      <4> QED
        BY <4>1 DEF ResultsOK
    <3>8. CommandRun'
      BY <1>6, <3>2, <3>5, <3>6 DEF CommandRun
    <3>9. RunInv'
      BY <1>1, <1>6, <2>4, <3>6, <3>7, <3>8 DEF RunInv, Api
    <3> QED
      BY <1>6, <2>1, <2>2, <3>9, OnWayKeeps
  <2> QED
    BY <2>3, <2>4
<1>7. CASE Ends("error", 1)
  BY <1>1, <1>7, EndsWell
<1> QED
  BY <1>3, <1>6, <1>7

-----------------------------------------------------------------------------
(* The agent takes the jobs one by one. *)
LEMMA AgentFacts ==
    ASSUME Inv, stage = "agent"
    PROVE  /\ run \in Run /\ ResultsOK /\ (Api => ApiRun /\ ConfigOK(config)) /\ (~Api => CommandRun)
           /\ results \in Seq(Results) /\ Len(results) \in Nat /\ uploaded \in Nat
           /\ answer = NoAnswer /\ run.jobs \in Seq(Tasks) /\ Len(run.jobs) \in Nat
           /\ run.output \in Nat \ {0}
<1>1. /\ run \in Run /\ ResultsOK /\ (Api => ApiRun /\ ConfigOK(config)) /\ (~Api => CommandRun)
      /\ results \in Seq(Results) /\ uploaded \in Nat /\ answer = NoAnswer
  BY DEF Inv, StageInv, RunInv
<1>2. run.jobs \in Seq(Tasks) /\ Len(run.jobs) \in Nat /\ Len(results) \in Nat
  BY <1>1 DEF Run
<1>3. CASE Api
  <2>1. run.output = config.output /\ config.output \in Nat \ {0}
    BY <1>1, <1>3 DEF ApiRun, ConfigOK
  <2> QED
    BY <1>1, <1>2, <2>1
<1>4. CASE ~Api
  <2>1. run.output = 4 * MiB /\ 4 * MiB \in Nat \ {0}
    BY <1>1, <1>4, NumberFacts DEF CommandRun
  <2> QED
    BY <1>1, <1>2, <2>1, Zenon
<1> QED
  BY <1>3, <1>4

LEMMA AtJobFacts ==
    ASSUME Inv, AtJob
    PROVE  /\ Len(results) + 1 \in 1..Len(run.jobs)
           /\ CurrentJob \in Tasks /\ CurrentJob.bytes \in Nat
           /\ CurrentJob = run.jobs[Len(results) + 1]
<1>1. stage = "agent" /\ Len(results) < Len(run.jobs)
  BY DEF AtJob
<1>2. Len(results) + 1 \in 1..Len(run.jobs)
  BY <1>1, AgentFacts
<1>3. CurrentJob \in Tasks
  BY <1>1, <1>2, AgentFacts DEF CurrentJob
<1> QED
  BY <1>2, <1>3 DEF CurrentJob, Tasks

(* A job's contents are counted in the body of the request it came with. *)
LEMMA UploadFits ==
    ASSUME Inv, AtJob, Api, NEW b, FitsBody(b, run.jobs), uploaded <= b[Len(results)]
    PROVE  /\ b[Len(results) + 1] \in Nat
           /\ uploaded + CurrentJob.bytes <= b[Len(results) + 1]
           /\ b[Len(results) + 1] <= MaxBodyBytes
<1> DEFINE n == Len(run.jobs)
           k == Len(results)
           w == BodyWeights(run.jobs)
<1>1. /\ n \in Nat /\ k \in Nat /\ uploaded \in Nat /\ run.jobs \in Seq(Tasks)
  BY AgentFacts DEF AtJob
<1>2. k + 1 \in 1..n /\ CurrentJob = run.jobs[k + 1] /\ CurrentJob.bytes \in Nat
  BY AtJobFacts
<1>3. Totals(b, n, w) /\ b[n] <= MaxRequestBytes
  BY DEF FitsBody
<1>4. \A i \in 1..n : w[i] = Base64Len(run.jobs[i].bytes) /\ w[i] \in Nat
  <2>1. \A i \in 1..n : run.jobs[i].bytes \in Nat
    <3>1. \A i \in 1..n : run.jobs[i] \in Tasks
      BY <1>1
    <3> QED
      BY <3>1 DEF Tasks
  <2> QED
    BY <2>1, Base64Facts DEF BodyWeights
<1> HIDE DEF n, k, w
<1>5. \A i \in 0..n : b[i] <= b[n]
  BY <1>1, <1>3, <1>4, TotalsGrow
<1>6. /\ k \in 0..n /\ k + 1 \in 0..n /\ n \in 0..n /\ (k + 1) - 1 = k
  BY <1>1, <1>2
<1>7. /\ b[k] \in Nat /\ b[k + 1] \in Nat /\ b[n] \in Nat /\ b[k + 1] = b[k] + w[k + 1]
  BY <1>2, <1>3, <1>6 DEF Totals
<1>8. w[k + 1] \in Nat /\ CurrentJob.bytes <= w[k + 1]
  BY <1>2, <1>4, Base64Facts
<1>9. uploaded <= b[k]
  BY DEF k
<1>10. uploaded + CurrentJob.bytes <= b[k + 1]
  BY <1>1, <1>2, <1>7, <1>8, <1>9
<1>11. b[k + 1] <= MaxBodyBytes
  <2>1. b[k + 1] <= b[n]
    BY <1>5, <1>6
  <2> QED
    BY <1>3, <1>7, <2>1, NumberFacts
<1> QED
  BY <1>7, <1>10, <1>11 DEF k

LEMMA JobKeeps ==
    ASSUME Inv, AtJob, NEW r \in Results, r.type = CurrentJob.type,
           \A st \in Streams : /\ r.kept[st] <= run.output
                               /\ r.type # "exec" => r.kept[st] = 0,
           why' = {} => r.ok,
           results' = Append(results, r), UNCHANGED <<stage, input, config, run, answer>>,
           uploaded' \in Nat, uploaded' <= uploaded + CurrentJob.bytes,
           Api => why' \subseteq GuestOnly
    PROVE  Inv'
<1> DEFINE k == Len(results)
<1>1. /\ run \in Run /\ ResultsOK /\ (Api => ApiRun /\ ConfigOK(config)) /\ (~Api => CommandRun)
      /\ results \in Seq(Results) /\ k \in Nat /\ uploaded \in Nat
      /\ answer = NoAnswer /\ run.jobs \in Seq(Tasks) /\ Len(run.jobs) \in Nat
  BY AgentFacts DEF AtJob
<1>2. /\ k + 1 \in 1..Len(run.jobs) /\ CurrentJob = run.jobs[k + 1] /\ CurrentJob.bytes \in Nat
      /\ stage = "agent" /\ why = {}
  BY AtJobFacts DEF AtJob
<1>3. /\ results' \in Seq(Results) /\ Len(results') = k + 1 /\ results'[k + 1] = r
      /\ \A i \in 1..k : results'[i] = results[i]
  BY <1>1
<1>4. StageInv'
  BY <1>2, <1>3 DEF Inv, StageInv, Api
<1>5. ResultsOK'
  <2>1. Len(results') <= Len(run.jobs)
    BY <1>2, <1>3
  <2>2. ASSUME NEW i \in 1..Len(results')
        PROVE  /\ results'[i].type = run.jobs[i].type
               /\ \A st \in Streams : /\ results'[i].kept[st] <= run.output
                                      /\ results'[i].type # "exec" => results'[i].kept[st] = 0
               /\ why' = {} => results'[i].ok
    <3>1. CASE i = k + 1
      BY <1>2, <1>3, <3>1
    <3>2. CASE i # k + 1
      <4>1. i \in 1..k
        BY <1>1, <1>3, <3>2
      <4> QED
        BY <1>1, <1>2, <1>3, <4>1 DEF ResultsOK
    <3> QED
      BY <3>1, <3>2
  <2> QED
    BY <2>1, <2>2 DEF ResultsOK
<1>6. ASSUME Api PROVE ApiRun'
  <2>1. PICK b : FitsBody(b, run.jobs) /\ (why = {} => uploaded <= b[k])
    BY <1>1, <1>6 DEF ApiRun
  <2>2. /\ b[k + 1] \in Nat /\ uploaded + CurrentJob.bytes <= b[k + 1]
    BY <1>2, <1>6, <2>1, UploadFits
  <2>3. uploaded' <= b[Len(results')]
    BY <1>1, <1>2, <1>3, <2>2
  <2>4. \E c : FitsBody(c, run'.jobs) /\ (why' = {} => uploaded' <= c[Len(results')])
    BY <2>1, <2>3
  <2> QED
    BY <1>1, <1>6, <2>4 DEF ApiRun
<1>7. ASSUME ~Api PROVE CommandRun'
  BY <1>1, <1>2, <1>7 DEF CommandRun
<1>8. RunInv'
  BY <1>1, <1>2, <1>5, <1>6, <1>7 DEF RunInv, Api
<1>9. ServerChecksCoverAgent'
  BY DEF ServerChecksCoverAgent, GuestOnly, Api
<1> QED
  BY <1>2, <1>4, <1>8, <1>9, OnWayKeeps

(* What the agent's checks may still refuse. *)
LEMMA RefusalFacts ==
    ASSUME Inv, AtJob, Api
    PROVE  Refusals(CurrentJob) \subseteq GuestOnly
<1>1. ApiRun /\ uploaded \in Nat
  BY AgentFacts DEF AtJob
<1>2. /\ Len(results) + 1 \in 1..Len(run.jobs) /\ CurrentJob = run.jobs[Len(results) + 1]
      /\ CurrentJob.bytes \in Nat /\ why = {}
  BY AtJobFacts DEF AtJob
<1>3. Checked(CurrentJob)
  BY <1>1, <1>2 DEF ApiRun
<1>4. PICK b : FitsBody(b, run.jobs) /\ (why = {} => uploaded <= b[Len(results)])
  BY <1>1 DEF ApiRun
<1>5. uploaded + CurrentJob.bytes <= MaxBodyBytes
  <2>1. /\ b[Len(results) + 1] \in Nat /\ uploaded + CurrentJob.bytes <= b[Len(results) + 1]
        /\ b[Len(results) + 1] <= MaxBodyBytes
    BY <1>2, <1>4, UploadFits
  <2> QED
    BY <1>1, <1>2, <2>1, NumberFacts
<1> QED
  BY <1>1, <1>2, <1>3, <1>5, CheckedIsRefusedByGuestOnly

LEMMA ResultFacts ==
    ASSUME CurrentJob \in Tasks, NEW ok \in BOOLEAN, NEW code \in Int, NEW kept \in Kept
    PROVE  /\ Result(ok, code, kept) \in Results
           /\ Result(ok, code, kept).type = CurrentJob.type
           /\ Result(ok, code, kept).kept = kept /\ (ok => Result(ok, code, kept).ok)
           /\ Result(ok, code, kept).code = code
<1>1. CurrentJob.type \in {"mkdir", "write_file", "exec", "unknown"}
  BY DEF Tasks
<1> QED
  BY <1>1, Zenon DEF Result, Results

LEMMA NoOutputFacts == NoOutput \in Kept /\ \A st \in Streams : NoOutput[st] = 0
BY DEF NoOutput, Kept

LEMMA MinOfTwo ==
    ASSUME NEW a \in Nat, NEW b \in Nat
    PROVE  Min({a, b}) \in Nat /\ Min({a, b}) <= a /\ Min({a, b}) <= b
<1>1. \E x \in {a, b} : \A y \in {a, b} : x <= y
  OBVIOUS
<1>2. Min({a, b}) \in {a, b} /\ \A y \in {a, b} : Min({a, b}) <= y
  BY <1>1, Zenon DEF Min
<1> QED
  BY <1>2

LEMMA JobFailsKeeps ==
    ASSUME Inv, JobFails
    PROVE  Inv'
<1> DEFINE r == Result(FALSE, 0, NoOutput)
<1>1. /\ AtJob /\ results' = Append(results, r)
      /\ UNCHANGED <<stage, input, config, run, answer>> /\ uploaded' = uploaded
      /\ \/ Refusals(CurrentJob) # {} /\ why' = Refusals(CurrentJob)
         \/ why' = {"system"}
  BY DEF JobFails
<1>2. /\ uploaded \in Nat /\ run.output \in Nat /\ CurrentJob \in Tasks /\ CurrentJob.bytes \in Nat
  BY <1>1, AgentFacts, AtJobFacts DEF AtJob
<1>3. /\ r \in Results /\ r.type = CurrentJob.type /\ r.kept = NoOutput
  <2>1. 0 \in Int
    OBVIOUS
  <2> QED
    BY <1>2, <2>1, ResultFacts, NoOutputFacts, Zenon
<1>4. \A st \in Streams : r.kept[st] <= run.output /\ (r.type # "exec" => r.kept[st] = 0)
  <2>1. \A st \in Streams : r.kept[st] = 0
    BY <1>3, NoOutputFacts, Zenon
  <2> HIDE DEF r
  <2> QED
    BY <1>2, <2>1
<1>5. why' # {} /\ (Api => why' \subseteq GuestOnly)
  BY <1>1, RefusalFacts DEF GuestOnly
<1>6. uploaded' \in Nat /\ uploaded' <= uploaded + CurrentJob.bytes
  BY <1>1, <1>2
<1> HIDE DEF r
<1> QED
  BY <1>1, <1>3, <1>4, <1>5, <1>6, JobKeeps

LEMMA FileJobKeeps ==
    ASSUME Inv, FileJob
    PROVE  Inv'
<1> DEFINE r == Result(TRUE, 0, NoOutput)
<1>1. /\ AtJob /\ results' = Append(results, r)
      /\ UNCHANGED <<stage, input, config, run, answer>> /\ why' = why
      /\ \/ uploaded' = uploaded
         \/ uploaded' = uploaded + CurrentJob.bytes
  BY DEF FileJob
<1>2. /\ uploaded \in Nat /\ run.output \in Nat /\ CurrentJob \in Tasks /\ CurrentJob.bytes \in Nat
  BY <1>1, AgentFacts, AtJobFacts DEF AtJob
<1>3. /\ r \in Results /\ r.type = CurrentJob.type /\ r.kept = NoOutput /\ r.ok
  <2>1. 0 \in Int
    OBVIOUS
  <2> QED
    BY <1>2, <2>1, ResultFacts, NoOutputFacts, Zenon
<1>4. \A st \in Streams : r.kept[st] <= run.output /\ (r.type # "exec" => r.kept[st] = 0)
  <2>1. \A st \in Streams : r.kept[st] = 0
    BY <1>3, NoOutputFacts, Zenon
  <2> HIDE DEF r
  <2> QED
    BY <1>2, <2>1
<1>5. why' \subseteq GuestOnly
  BY <1>1 DEF AtJob
<1>6. uploaded' \in Nat /\ uploaded' <= uploaded + CurrentJob.bytes
  BY <1>1, <1>2
<1> HIDE DEF r
<1> QED
  BY <1>1, <1>3, <1>4, <1>5, <1>6, JobKeeps

LEMMA ExecKeeps ==
    ASSUME Inv, Exec
    PROVE  Inv'
<1>1. PICK written \in [Streams -> Outputs], code \in ExitCodes :
          results' = Append(results,
                        Result(TRUE, code, [st \in Streams |-> Min({written[st], MaxOutput})]))
  BY DEF Exec
<1> DEFINE kept == [st \in Streams |-> Min({written[st], MaxOutput})]
           r == Result(TRUE, code, kept)
<1>2. /\ AtJob /\ CurrentJob.type = "exec" /\ results' = Append(results, r)
      /\ UNCHANGED <<stage, input, config, run, answer>> /\ why' = why /\ uploaded' = uploaded
  BY <1>1 DEF Exec
<1>3. /\ uploaded \in Nat /\ run.output \in Nat \ {0} /\ CurrentJob \in Tasks
      /\ CurrentJob.bytes \in Nat
  BY <1>2, AgentFacts, AtJobFacts DEF AtJob
<1>4. MaxOutput = run.output
  BY <1>3 DEF MaxOutput, Positive
<1>5. \A st \in Streams : kept[st] \in Nat /\ kept[st] <= run.output
  <2>1. \A st \in Streams : written[st] \in Nat
    BY InputAssumption
  <2>2. \A st \in Streams : kept[st] = Min({written[st], run.output})
    BY <1>4
  <2> HIDE DEF kept
  <2> SUFFICES ASSUME NEW st \in Streams PROVE kept[st] \in Nat /\ kept[st] <= run.output
    OBVIOUS
  <2>3. written[st] \in Nat /\ run.output \in Nat
    BY <1>3, <2>1
  <2>4. Min({written[st], run.output}) \in Nat /\ Min({written[st], run.output}) <= run.output
    BY <2>3, MinOfTwo
  <2> QED
    BY <2>2, <2>4
<1>6. kept \in Kept
  BY <1>5 DEF Kept
<1>7. code \in Int
  BY InputAssumption
<1> HIDE DEF kept
<1>8. /\ r \in Results /\ r.type = CurrentJob.type /\ r.kept = kept /\ r.ok
  BY <1>3, <1>6, <1>7, ResultFacts, Zenon
<1> HIDE DEF r
<1>9. \A st \in Streams : r.kept[st] <= run.output /\ (r.type # "exec" => r.kept[st] = 0)
  BY <1>2, <1>5, <1>8
<1>10. why' \subseteq GuestOnly
  BY <1>2 DEF AtJob
<1>11. uploaded' \in Nat /\ uploaded' <= uploaded + CurrentJob.bytes
  BY <1>2, <1>3
<1> QED
  BY <1>2, <1>8, <1>9, <1>10, <1>11, JobKeeps

-----------------------------------------------------------------------------
(* Reply: the size of a response with one command. *)
LEMMA AtMostOne ==
    ASSUME NEW S, IsFiniteSet(S), ~(Cardinality(S) > 1), NEW x \in S, NEW y \in S
    PROVE  x = y
<1> SUFFICES ASSUME x # y PROVE FALSE
  OBVIOUS
<1>1. /\ Cardinality(S) \in Nat /\ IsFiniteSet(S \ {x})
      /\ Cardinality(S \ {x}) = Cardinality(S) - 1
  BY FS_CardinalityType, FS_RemoveElement
<1>2. y \in S \ {x}
  OBVIOUS
<1> DEFINE R == S \ {x}
<1> HIDE DEF R
<1>3. IsFiniteSet(R) /\ y \in R /\ Cardinality(R) = Cardinality(S) - 1
  BY <1>1, <1>2 DEF R
<1>4. IsFiniteSet(R \ {y}) /\ Cardinality(R \ {y}) = Cardinality(R) - 1
  BY <1>3, FS_RemoveElement
<1>5. Cardinality(R \ {y}) \in Nat
  BY <1>4, FS_CardinalityType
<1> QED
  BY <1>1, <1>3, <1>4, <1>5

Execs(rs) == {i \in DOMAIN rs : rs[i].type = "exec"}

LEMMA ResultBytesFacts ==
    ASSUME NEW r \in Results, run.output \in Nat, run.output <= 4 * MiB,
           \A st \in Streams : /\ r.kept[st] <= run.output
                               /\ r.type # "exec" => r.kept[st] = 0
    PROVE  /\ ResultBytes(r) \in Nat
           /\ ResultBytes(r) <= 1024 + 2 * ContentMaxLength
           /\ r.type # "exec" => ResultBytes(r) = 1024
<1> DEFINE o == r.kept["stdout"]
           e == r.kept["stderr"]
<1>1. /\ o \in Nat /\ e \in Nat /\ o <= run.output /\ e <= run.output
      /\ r.type # "exec" => o = 0 /\ e = 0
  <2>1. \A st \in Streams : r.kept[st] \in Nat
    BY DEF Results, Kept
  <2>2. "stdout" \in Streams /\ "stderr" \in Streams
    BY DEF Streams
  <2> QED
    BY <2>1, <2>2
<1>2. ResultBytes(r) = EnvelopeBytes + Base64Len(o) + Base64Len(e)
  BY DEF ResultBytes
<1> HIDE DEF o, e
<1>3. o <= 4 * MiB /\ e <= 4 * MiB
  BY <1>1, NumberFacts
<1>4. /\ Base64Len(o) \in Nat /\ Base64Len(e) \in Nat
      /\ Base64Len(o) <= ContentMaxLength /\ Base64Len(e) <= ContentMaxLength
      /\ Base64Len(0) = 0
  BY <1>1, <1>3, Base64Facts
<1> QED
  BY <1>1, <1>2, <1>4, NumberFacts

LEMMA FewResults ==
    ASSUME Inv, stage = "agent"
    PROVE  Len(results) <= 33
<1>1. /\ Len(results) <= Len(run.jobs) /\ Len(results) \in Nat /\ Len(run.jobs) \in Nat
      /\ (Api => ApiRun) /\ (~Api => CommandRun)
  BY AgentFacts DEF ResultsOK
<1>2. Len(run.jobs) <= 33
  <2> DEFINE len == Len(run.jobs)
  <2>1. len \in Nat
    BY <1>1
  <2>2. Api => len \in 1..33
    BY <1>1 DEF ApiRun
  <2>3. ~Api => len = 2
    BY <1>1 DEF CommandRun
  <2> HIDE DEF len
  <2>4. len <= 33
    BY <2>1, <2>2, <2>3
  <2> QED
    BY <2>4 DEF len
<1> QED
  BY <1>1, <1>2

LEMMA ResponseFits ==
    ASSUME Inv, stage = "agent", ~(run.output > 4 * MiB), ~(Cardinality(Execs(results)) > 1)
    PROVE  ~(ResponseBytes > MaxResponseBytes)
<1> DEFINE n == Len(results)
           w == ResponseWeights(results)
           C == 2 * ContentMaxLength
           exec(i) == results[i].type = "exec"
<1>1. /\ results \in Seq(Results) /\ n \in Nat /\ ResultsOK /\ run.output \in Nat
      /\ DOMAIN results = 1..n /\ Len(run.jobs) \in Nat
      /\ (Api => ApiRun) /\ (~Api => CommandRun)
  BY AgentFacts
<1>2. n <= 33
  BY FewResults
<1>3. \A i \in 1..n : /\ ResultBytes(results[i]) \in Nat
                      /\ ResultBytes(results[i]) <= 1024 + C
                      /\ ~exec(i) => ResultBytes(results[i]) = 1024
  <2> SUFFICES ASSUME NEW i \in 1..n
               PROVE  /\ ResultBytes(results[i]) \in Nat
                      /\ ResultBytes(results[i]) <= 1024 + C
                      /\ ~exec(i) => ResultBytes(results[i]) = 1024
    OBVIOUS
  <2>1. /\ results[i] \in Results
        /\ \A st \in Streams : /\ results[i].kept[st] <= run.output
                               /\ results[i].type # "exec" => results[i].kept[st] = 0
    BY <1>1 DEF ResultsOK
  <2>2. run.output <= 4 * MiB
    BY <1>1, NumberFacts
  <2> QED
    BY <1>1, <2>1, <2>2, ResultBytesFacts
<1>4. \A i \in 1..n : w[i] = ResultBytes(results[i])
  BY DEF ResponseWeights
<1>5. PICK b : Totals(b, n, w) /\ b[n] = ResponseBytes
  <2>1. /\ n \in Nat /\ DOMAIN results = 1..n /\ Len(results) = n
        /\ \A i \in 1..n : ResultBytes(results[i]) \in Nat
    BY <1>1, <1>3
  <2> HIDE DEF n
  <2> QED
    BY <2>1, ResponseTotals
<1>6. \A i, j \in 1..n : exec(i) /\ exec(j) => i = j
  <2>1. IsFiniteSet(Execs(results))
    <3>1. Execs(results) \subseteq 1..n /\ IsFiniteSet(1..n)
      BY <1>1, FS_Interval DEF Execs
    <3> QED
      BY <3>1, FS_Subset
  <2>2. \A i, j \in Execs(results) : i = j
    BY <2>1, AtMostOne
  <2> QED
    BY <1>1, <2>2 DEF Execs
<1>7. ContentMaxLength \in Nat /\ C \in Nat /\ 33 * 1024 + C <= MaxResponseBytes /\ MaxResponseBytes \in Nat
  BY NumberFacts
<1>8. /\ \A k \in 0..n : b[k] \in Nat
      /\ b[0] = 0 /\ \A k \in 1..n : b[k] = b[k - 1] + w[k]
  BY <1>5 DEF Totals
<1> HIDE DEF n, w, C, exec
<1> DEFINE T == {k \in Nat : k <= n => \/ b[k] <= k * 1024
                                       \/ /\ b[k] <= k * 1024 + C
                                          /\ \E i \in 1..k : exec(i)}
<1>9. 0 \in T
  BY <1>8
<1>10. ASSUME NEW k \in Nat, k \in T PROVE k + 1 \in T
  <2> SUFFICES ASSUME k + 1 <= n
               PROVE  \/ b[k + 1] <= (k + 1) * 1024
                      \/ /\ b[k + 1] <= (k + 1) * 1024 + C
                         /\ \E i \in 1..k + 1 : exec(i)
    OBVIOUS
  <2>1. k + 1 \in 1..n /\ k \in 0..n /\ k + 1 \in 0..n /\ (k + 1) - 1 = k
    BY <1>1
  <2>2. b[k + 1] = b[k] + w[k + 1] /\ b[k] \in Nat /\ b[k + 1] \in Nat
    BY <1>8, <2>1
  <2>3. /\ w[k + 1] \in Nat /\ w[k + 1] <= 1024 + C
        /\ ~exec(k + 1) => w[k + 1] = 1024
    BY <1>3, <1>4, <2>1
  <2>4. CASE \E i \in 1..k : exec(i)
    <3>1. ~exec(k + 1)
      BY <1>1, <1>6, <2>1, <2>4
    <3>2. b[k] <= k * 1024 + C
      BY <1>7, <1>10, <2>1, <2>2
    <3>3. \E i \in 1..k + 1 : exec(i)
      BY <2>4
    <3> QED
      BY <1>7, <2>2, <2>3, <3>1, <3>2, <3>3
  <2>5. CASE ~\E i \in 1..k : exec(i)
    <3>1. b[k] <= k * 1024
      BY <1>10, <2>1, <2>5
    <3>2. CASE exec(k + 1)
      <4>1. b[k + 1] <= (k + 1) * 1024 + C
        BY <1>7, <2>2, <2>3, <3>1
      <4> QED
        BY <3>2, <4>1
    <3>3. CASE ~exec(k + 1)
      BY <2>2, <2>3, <3>1, <3>3
    <3> QED
      BY <3>2, <3>3
  <2> QED
    BY <2>4, <2>5
<1> HIDE DEF T
<1>11. n \in T
  BY <1>1, <1>9, <1>10, SetInduction
<1>12. b[n] <= n * 1024 + C /\ b[n] \in Nat
  <2>1. n \in 0..n
    BY <1>1
  <2> QED
    BY <1>1, <1>7, <1>8, <1>11, <2>1 DEF T
<1> QED
  BY <1>1, <1>2, <1>5, <1>7, <1>12

LEMMA MinOfExecs ==
    ASSUME NEW E, E \subseteq 1..2, E # {}
    PROVE  Min(E) \in E
<1>1. \E x \in E : \A y \in E : x <= y
  <2>1. CASE 1 \in E
    BY <2>1
  <2>2. CASE 1 \notin E
    <3>1. \A y \in E : y = 2
      BY <2>2
    <3>2. 2 \in E
      BY <3>1
    <3> QED
      BY <3>1, <3>2
  <2> QED
    BY <2>1, <2>2
<1> QED
  BY <1>1, Zenon DEF Min

(* The exit code of the command line is that of its one command. *)
LEMMA ExitFacts ==
    ASSUME Inv, stage = "agent", ~Api, why = {}, Len(results) = Len(run.jobs),
           ExitCodeFromResults(results) = 0
    PROVE  \E i \in DOMAIN results :
               results[i].type = "exec" /\ results[i].ok /\ results[i].code = 0
<1>1. /\ results \in Seq(Results) /\ ResultsOK /\ CommandRun
  BY AgentFacts
<1>2. /\ Len(run.jobs) = 2 /\ run.jobs[2].type = "exec"
  BY <1>1 DEF CommandRun
<1>3. /\ DOMAIN results = 1..2 /\ results[2].type = "exec" /\ \A i \in 1..2 : results[i].ok
  BY <1>1, <1>2 DEF ResultsOK
<1> DEFINE E == {i \in DOMAIN results : results[i].type = "exec"}
           m == Min(E)
           code == results[m].code
<1>4. E \subseteq 1..2 /\ E # {}
  BY <1>3
<1>5. ExitCodeFromResults(results) = IF E = {} THEN 0 ELSE IF code \in 0..255 THEN code ELSE 1
  BY DEF ExitCodeFromResults
<1>6. code = 0
  <2> HIDE DEF E, code
  <2>1. CASE code \in 0..255
    BY <1>4, <1>5, <2>1, Zenon
  <2>2. CASE code \notin 0..255
    <3>1. ExitCodeFromResults(results) = 1
      BY <1>4, <1>5, <2>2, Zenon
    <3> QED
      BY <3>1
  <2> QED
    BY <2>1, <2>2
<1>7. m \in E
  <2> HIDE DEF E
  <2> QED
    BY <1>4, MinOfExecs
<1> HIDE DEF m
<1> QED
  BY <1>3, <1>6, <1>7

LEMMA ReplyKeeps ==
    ASSUME Inv, Reply
    PROVE  Inv'
<1>1. /\ stage = "agent" /\ UNCHANGED <<input, config, run, guest>>
      /\ why # {} \/ Len(results) = Len(run.jobs)
  BY DEF Reply
<1>2. CASE ResponseBytes > MaxResponseBytes
  <2>1. stage' = "end" /\ answer' = [kind |-> "lost", code |-> IF Api THEN 500 ELSE 1]
    BY <1>2 DEF Reply, Ends
  <2>2. answer'.code = (IF Api THEN 500 ELSE 1)
    BY <2>1
  <2>3. answer'.code \notin {0, 400}
    BY <2>2
  <2>4. ModestRequestIsServed' /\ ExitZeroMeansSuccess'
    BY <2>3, Zenon DEF ModestRequestIsServed, ExitZeroMeansSuccess
  <2>5. run.output > 4 * MiB \/ Cardinality(Execs(results)) > 1
    BY <1>1, <1>2, ResponseFits
  <2>6. OneCommandIsReported'
    <3>1. run' = run /\ results' = results
      BY <1>1 DEF guest
    <3> QED
      BY <2>5, <3>1, Zenon DEF OneCommandIsReported, Execs
  <2> QED
    BY <1>1, <2>1, <2>4, <2>6, EndKeeps
<1>3. CASE ~(ResponseBytes > MaxResponseBytes) /\ why # {}
  <2>1. Ends("failed", IF Api THEN 500 ELSE 1)
    BY <1>3 DEF Reply
  <2>2. (IF Api THEN 500 ELSE 1) \in Int \ {0, 400}
    OBVIOUS
  <2> QED
    BY <1>1, <2>1, <2>2, EndsWell
<1>4. CASE ~(ResponseBytes > MaxResponseBytes) /\ why = {}
  <2>1. /\ stage' = "end"
        /\ answer' = [kind |-> "results",
                      code |-> IF Api THEN 200 ELSE ExitCodeFromResults(results)]
    BY <1>4 DEF Reply, Ends
  <2>2. /\ answer'.kind = "results"
        /\ Api => answer'.code = 200
        /\ ~Api => answer'.code = ExitCodeFromResults(results)
    BY <2>1
  <2>3. input' = input /\ results' = results
    BY <1>1 DEF guest
  <2>4. OneCommandIsReported'
    BY <2>2, Zenon DEF OneCommandIsReported
  <2>5. ModestRequestIsServed'
    <3>1. Api => answer'.code # 400
      BY <2>2
    <3> QED
      BY <2>3, <3>1, Zenon DEF ModestRequestIsServed, Api
  <2>6. ExitZeroMeansSuccess'
    <3>1. ASSUME ~Api, answer'.code = 0
          PROVE  \E i \in DOMAIN results :
                     results[i].type = "exec" /\ results[i].ok /\ results[i].code = 0
      BY <1>1, <1>4, <2>2, <3>1, ExitFacts
    <3> QED
      BY <2>3, <3>1, Zenon DEF ExitZeroMeansSuccess, Api
  <2> QED
    BY <1>1, <2>1, <2>4, <2>5, <2>6, EndKeeps
<1> QED
  BY <1>2, <1>3, <1>4

-----------------------------------------------------------------------------
LEMMA InvNext == Inv /\ [Next]_vars => Inv'
<1> SUFFICES ASSUME Inv, [Next]_vars PROVE Inv'
  OBVIOUS
<1>1. CASE UNCHANGED vars
  <2>1. /\ stage' = stage /\ input' = input /\ config' = config /\ run' = run /\ answer' = answer
        /\ uploaded' = uploaded /\ results' = results /\ why' = why
    BY <1>1 DEF vars, guest
  <2>2. StageInv'
    BY <2>1 DEF Inv, StageInv, Api
  <2>3. RunInv'
    <3>1. (ApiRun => ApiRun') /\ (CommandRun => CommandRun') /\ (ResultsOK => ResultsOK')
      BY <2>1, Zenon DEF ApiRun, CommandRun, ResultsOK
    <3> QED
      BY <2>1, <3>1, Zenon DEF Inv, RunInv, Api
  <2>4. (ServerChecksCoverAgent /\ ModestRequestIsServed)'
    BY <2>1, Zenon DEF Inv, ServerChecksCoverAgent, ModestRequestIsServed, Api
  <2>5. (OneCommandIsReported /\ ExitZeroMeansSuccess)'
    BY <2>1, Zenon DEF Inv, OneCommandIsReported, ExitZeroMeansSuccess, Api
  <2> QED
    BY <2>2, <2>3, <2>4, <2>5 DEF Inv
<1>2. CASE Next
  BY <1>1, <1>2, LoadConfigKeeps, DecodeKeeps, ManagerRunRequestKeeps, RunVMKeeps,
     ManagerRunKeeps, ManagerFailsKeeps, JobFailsKeeps, FileJobKeeps, ExecKeeps, ReplyKeeps
     DEF Next, Finished
<1> QED
  BY <1>1, <1>2

LEMMA Invariance == Spec => []Inv
BY InvInit, InvNext, PTL DEF Spec

(* What the parts hand on keeps the guest within the limits. *)
LEMMA InvGuest == Inv => GuestStaysWithinLimits
<1> SUFFICES ASSUME Inv, stage = "agent"
             PROVE  /\ ExecTimeout > 0 /\ run.output > 0
                    /\ \/ ExecTimeout * Millisecond <= run.timeout
                       \/ ~Api /\ run.timeout < Millisecond
                    /\ Api => /\ run.timeout <= config.timeout * Millisecond
                              /\ run.machine.vcpu <= config.maxVCPU
                              /\ run.machine.mem <= config.maxMem
                              /\ Len(run.jobs) <= config.tasks + 1
                              /\ \A i \in DOMAIN results, s \in Streams :
                                    results[i].kept[s] <= config.output
  BY Zenon DEF GuestStaysWithinLimits
<1>1. /\ run \in Run /\ ResultsOK /\ results \in Seq(Results) /\ run.output \in Nat \ {0}
      /\ (Api => ApiRun /\ ConfigOK(config)) /\ (~Api => CommandRun)
  BY AgentFacts
<1>2. run.timeout \in Int /\ run.jobTimeout \in Int
  BY <1>1 DEF Run
<1>3. ExecTimeout = IF run.jobTimeout > 0 THEN run.jobTimeout ELSE AgentTimeout
  BY DEF ExecTimeout, Positive
<1>4. AgentTimeout \in Nat /\ AgentTimeout > 0 /\ AgentTimeout <= Minute /\ Minute \in Nat
  BY SMT DEF AgentTimeout, Minute
<1>5. run.output > 0
  BY <1>1
<1>6. CASE Api
  <2>1. /\ run.jobTimeout > 0 /\ run.jobTimeout <= config.timeout /\ config.timeout \in Int
        /\ run.timeout = run.jobTimeout * Millisecond /\ run.output = config.output
        /\ run.machine.vcpu <= config.maxVCPU /\ run.machine.mem <= config.maxMem
        /\ Len(run.jobs) <= config.tasks + 1
    BY <1>1, <1>6 DEF ApiRun, ConfigOK
  <2>2. /\ ExecTimeout > 0 /\ ExecTimeout * Millisecond <= run.timeout
        /\ run.timeout <= config.timeout * Millisecond
    BY <1>2, <1>3, <2>1 DEF Millisecond
  <2>3. \A i \in DOMAIN results, s \in Streams : results[i].kept[s] <= config.output
    <3>1. DOMAIN results = 1..Len(results)
      BY <1>1
    <3> QED
      BY <1>1, <2>1, <3>1 DEF ResultsOK
  <2> QED
    BY <1>5, <2>1, <2>2, <2>3
<1>7. CASE ~Api
  <2>1. \/ run.jobTimeout > 0 /\ run.jobTimeout * Millisecond <= run.timeout
        \/ run.timeout < Millisecond
        \/ run.timeout = Minute * Millisecond /\ run.jobTimeout < 0
    BY <1>1, <1>7 DEF CommandRun
  <2>2. /\ ExecTimeout > 0
        /\ ExecTimeout * Millisecond <= run.timeout \/ run.timeout < Millisecond
    BY <1>2, <1>3, <1>4, <2>1 DEF Millisecond
  <2> QED
    BY <1>5, <1>7, <2>2
<1> QED
  BY <1>6, <1>7

(* For every configuration file, request and command line, and after the   *)
(* defaults of LoadConfig, the framework, managerRunRequest, Manager.Run   *)
(* and the agent: what reaches the guest is within the daemon's limits, a  *)
(* command's deadline is positive and within its run's, except for command *)
(* lines with less than a millisecond, and no more output is kept than the *)
(* configuration says.                                                     *)
THEOREM GuestIsWithinLimits == Spec => []GuestStaysWithinLimits
BY Invariance, InvGuest, PTL

(* safePath, safeMode and the size checks of the agent never refuse a job  *)
(* tasksToJobs made, for paths of any length with any "." and "..".        *)
THEOREM ServerCoversAgent == Spec => []ServerChecksCoverAgent
<1>1. Inv => ServerChecksCoverAgent
  BY DEF Inv
<1> QED
  BY <1>1, Invariance, PTL

(* Under every configuration LoadConfig accepts, with a limit of at least  *)
(* 60 seconds, managerRunRequest serves a single command that asks for no  *)
(* machine of its own.                                                     *)
THEOREM ModestRequestsAreServed == Spec => []ModestRequestIsServed
<1>1. Inv => ModestRequestIsServed
  BY DEF Inv
<1> QED
  BY <1>1, Invariance, PTL

(* While no more than 4 MiB of a stream are kept, Client.Jobs can read the *)
(* response of a batch with one command, however many other jobs the       *)
(* schema lets it have and whatever the command writes.                    *)
THEOREM OneCommandResponseFits == Spec => []OneCommandIsReported
<1>1. Inv => OneCommandIsReported
  BY DEF Inv
<1> QED
  BY <1>1, Invariance, PTL

(* exitCodeFromResults: the process exits with 0 only for a command that   *)
(* ran and returned 0, whatever codes commands return.                     *)
THEOREM ExitZeroIsSuccess == Spec => []ExitZeroMeansSuccess
<1>1. Inv => ExitZeroMeansSuccess
  BY DEF Inv
<1> QED
  BY <1>1, Invariance, PTL
=============================================================================
