---------------------------- MODULE MCAgentJobs ----------------------------
(* Instances of AgentJobs for TLC. *)
EXTENDS AgentJobs

MkdirJob == [type |-> "mkdir", valid |-> TRUE, bytes |-> 0]
ExecJob == [type |-> "exec", valid |-> TRUE, bytes |-> 0]
WriteJob(n) == [type |-> "write_file", valid |-> TRUE, bytes |-> n]
BadJob(t) == [type |-> t, valid |-> FALSE, bytes |-> 1]

(* The batch a run without jobs of its own gets, and two commands. *)
MCCommands == {<<MkdirJob, ExecJob>>, <<ExecJob, ExecJob>>}

(* Uploads around both limits, refused jobs, an empty batch. *)
MCUploads ==
    {<<WriteJob(a), WriteJob(b), WriteJob(c)>> : a, b, c \in 0..3}
        \cup {<<WriteJob(1), BadJob(t), MkdirJob>> : t \in Types}
        \cup {<<>>, <<MkdirJob, WriteJob(2), ExecJob, BadJob("exec")>>}

MCBatches == MCCommands \cup MCUploads
=============================================================================
