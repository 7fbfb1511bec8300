---------------------------- MODULE MCRunRequest ----------------------------
(* Instances of RunRequest for TLC: values on both sides of each limit. *)
EXTENDS RunRequest, TLC

MCConfigFiles ==
    {<<>>, "timeout" :> 30000, "timeout" :> 0, "tasks" :> 1,
     "output" :> 0, "output" :> 6 * MiB + 1, "write" :> 16 * MiB,
     "vcpu" :> 8, "mem" :> 4096, "maxVCPU" :> 0,
     "maxMem" :> 0 @@ "mem" :> 512, "maxVCPU" :> 1 @@ "vcpu" :> 0}

NewTask(type) ==
    [type |-> type, path |-> <<>>, mode |-> 0, bytes |-> 0, base64 |-> TRUE,
     parents |-> FALSE, argv |-> "none", dir |-> <<>>]
Command == [NewTask("exec") EXCEPT !.argv = "cmd"]

NewRequest(tasks) == [api |-> TRUE, tasks |-> tasks, timeout |-> 0, vcpu |-> 0, mem |-> 0]

MCPaths ==
    {<<>>, <<"workspace">>, <<"workspacex">>, <<"workspace", "a">>,
     <<"workspace", "a", "b">>, <<"workspace", "..", "a">>,
     <<"workspace", "a", "..", ".", "b">>, <<"a", "..", "workspace">>,
     <<"workspace", "..", "..", "workspace", "a">>}

Mkdirs == {[NewTask("mkdir") EXCEPT !.path = p, !.mode = m, !.parents = b] :
              p \in MCPaths, m \in {0, 511, 512}, b \in BOOLEAN}
Writes == {[NewTask("write_file") EXCEPT !.path = p, !.bytes = n, !.parents = b] :
              p \in MCPaths, n \in {0, 786432, 786433}, b \in BOOLEAN}
Execs == {[Command EXCEPT !.dir = p, !.argv = a] : p \in MCPaths, a \in {"none", "blank", "cmd"}}

WriteA == [NewTask("write_file") EXCEPT !.path = <<"workspace", "a">>]

MCRequests ==
    {NewRequest(<<t>>) : t \in Mkdirs \cup Writes \cup Execs}
        \cup {NewRequest(<<WriteA, t>>) : t \in Mkdirs \cup Execs}
        \cup {NewRequest(<<[WriteA EXCEPT !.base64 = FALSE]>>), NewRequest(<<>>),
              NewRequest(<<Command, Command>>), NewRequest(<<NewTask("unknown")>>)}
        \cup {[NewRequest(<<Command>>) EXCEPT !.timeout = t, !.vcpu = v, !.mem = m] :
                  t \in {1, 60000, 60001}, v \in {0, 4, 5}, m \in {0, 2048, 2049}}

MCCommandLines ==
    {[api |-> FALSE, timeout |-> t, argv |-> a, dir |-> d, vcpu |-> 1, mem |-> 256] :
        t \in {-1000, -1, 0, 999, 1500, 5000000}, a \in {"none", "blank", "cmd"},
        d \in {<<>>, <<"workspace">>, <<"workspace", "a">>, <<"a">>}}

MCComponents == {"workspace", "workspacex", "a", "b", ".", ".."}
MCExitCodes == {-1, 0, 7}
MCOutputs == {0, 4 * MiB + 1, 8 * MiB}
=============================================================================
