----------------------------- MODULE MCMcpSession -----------------------------
(* Small instances of McpSession for model checking.                          *)
EXTENDS McpSession, TLC

CONSTANTS c1, c2, r1, r2

\* Switches between two directories, under executions and direct requests.
Switching ==
  [roots |-> {r1, r2}, launch |-> NoRoot, injected |-> FALSE,
   kinds |-> {"exec", "workspace"}, switches |-> {"select", "attach"},
   fail |-> FALSE, close |-> FALSE]

\* Failing factories and cleanups, and a close at any moment, from a runtime
\* the host supplied.
ShuttingDown(r) ==
  [roots |-> {r}, launch |-> NoRoot, injected |-> TRUE,
   kinds |-> {"exec", "info"}, switches |-> {"detach", "attach"},
   fail |-> TRUE, close |-> TRUE]

\* A session launched in a directory of its own.
Launched(r) ==
  [roots |-> {r1, r2}, launch |-> r, injected |-> FALSE,
   kinds |-> {"info", "workspace"}, switches |-> {"select", "detach"},
   fail |-> FALSE, close |-> TRUE]

SafetySetups ==
  {Switching} \cup {ShuttingDown(r) : r \in Roots} \cup {Launched(r) : r \in Roots}

\* One directory and detaches, without failures.
DetachingSetups ==
  {[roots |-> {r1}, launch |-> NoRoot, injected |-> FALSE,
    kinds |-> {"exec", "workspace"}, switches |-> {"detach"},
    fail |-> FALSE, close |-> FALSE]}

Interchangeable == {p @@ q : p \in Permutations(Calls), q \in Permutations(Roots)}
=============================================================================
