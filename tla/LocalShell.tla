---------------------------- MODULE LocalShell -----------------------------
(* One approved host command: providers/local-shell.ts and                   *)
(* local-process-group.ts.  The leader may fork a member of its group; what  *)
(* holds the output streams open is that member or anything that left the    *)
(* group, so the streams may close at any time after the leader, or never.   *)
(* Waiting, the three graces and the observations end when time says so: a   *)
(* bound in time is a step that may come at any moment.                      *)
VARIABLE shell
shellVars == <<shell>>

(* leader, member: "none", "runs" or "gone"; stop: why the wait    *)
(* for the leader was given up; doubt: a cleanup nobody could confirm.       *)
ShellInit == shell = [at |-> "spawn", leader |-> "none", code |-> "none", member |-> "none",
                      closed |-> FALSE, cancelled |-> FALSE, stop |-> FALSE, doubt |-> FALSE, told |-> "nothing"]
ShellAt(p) == shell.at = p
Group == "runs" \in {shell.leader, shell.member}

Spawned ==
  /\ ShellAt("spawn")
  /\ \/ shell' = [shell EXCEPT !.at = "wait", !.leader = "runs"]
     \/ shell' = [shell EXCEPT !.at = "told", !.told = "failed"]                      \* cancelled before, or spawn threw
     \/ \E c \in BOOLEAN : shell' = [shell EXCEPT !.at = "close", !.stop = TRUE, !.closed = c]   \* the error event: no pid
(* The processes: what they fork, when they end, and the streams' last word. *)
Forks == Group /\ shell.member = "none" /\ shell' = [shell EXCEPT !.member = "runs"]
LeaderExits == shell.leader = "runs" /\ \E c \in {"zero", "nonzero", "signal"} : shell' = [shell EXCEPT !.leader = "gone", !.code = c]
MemberEnds == shell.member = "runs" /\ shell' = [shell EXCEPT !.member = "gone"]
StreamsClose == shell.leader = "gone" /\ ~shell.closed /\ shell' = [shell EXCEPT !.closed = TRUE]
Cancels == ~shell.cancelled /\ ~ShellAt("told") /\ shell' = [shell EXCEPT !.cancelled = TRUE]

(* The wait ends with the leader, a stream's error, a cancellation or the    *)
(* timeout; the group is cleaned up in every case.                           *)
WaitOver ==
  /\ ShellAt("wait")
  /\ \/ shell.leader = "gone" /\ shell' = [shell EXCEPT !.at = "term"]
     \/ shell' = [shell EXCEPT !.at = "term", !.stop = TRUE]
(* An observation says "dead" only of an empty group; it may also fail, and  *)
(* a failed one is no termination.                                           *)
Observed == IF Group THEN {"alive", "unknown"} ELSE {"dead", "unknown"}
Believed(o) == o = "dead"
GroupTerminated ==
  /\ ShellAt("term")
  /\ \E o \in Observed : shell' = [shell EXCEPT !.at = IF Believed(o) THEN "close" ELSE "kill"]
(* SIGKILL ends what it can (a process in the kernel may outlast the grace). *)
Killed ==
  /\ ShellAt("kill")
  /\ \/ shell' = [shell EXCEPT !.at = "reap", !.leader = "gone", !.code = IF @ = "none" THEN "signal" ELSE @,
                               !.member = IF @ = "runs" THEN "gone" ELSE @]
     \/ shell' = [shell EXCEPT !.at = "reap"]
     \/ shell' = [shell EXCEPT !.at = "settle", !.doubt = TRUE]                         \* no permission to signal
Reaped ==
  /\ ShellAt("reap")
  /\ \E o \in Observed : shell' = CASE o = "dead" -> [shell EXCEPT !.at = "close"]
                                    [] o = "alive" -> [shell EXCEPT !.at = "close", !.doubt = TRUE]
                                    [] OTHER -> [shell EXCEPT !.at = "settle", !.doubt = TRUE]
StreamsSettled ==
  /\ ShellAt("close")
  /\ \/ shell.closed /\ shell' = [shell EXCEPT !.at = "settle"]
     \/ ~shell.closed /\ shell' = [shell EXCEPT !.at = "settle", !.doubt = TRUE]
(* Doubt goes before every other outcome; then a stop, a cancellation, an    *)
(* end by signal, and the exit code.                                         *)
Outcome == CASE shell.doubt -> "uncertain"
             [] ~shell.doubt /\ (shell.stop \/ shell.cancelled \/ shell.code \in {"signal", "none"}) -> "failed"
             [] ~shell.doubt /\ ~shell.stop /\ ~shell.cancelled /\ shell.code = "zero" -> "ok"
             [] OTHER -> "exit"
Settles == ShellAt("settle") /\ shell' = [shell EXCEPT !.at = "told", !.told = Outcome]
ShellHost == Spawned \/ WaitOver \/ GroupTerminated \/ Killed \/ Reaped \/ StreamsSettled \/ Settles
ShellNext == ShellHost \/ Forks \/ LeaderExits \/ MemberEnds \/ StreamsClose \/ Cancels
ShellSpec == ShellInit /\ [][ShellNext]_shellVars

(* Whoever is told anything but doubt may give the workspace away: nothing   *)
(* of the command's group runs, and nothing writes to its streams.           *)
ShellIsOver == shell.told \in {"ok", "exit", "failed"} => ~Group /\ (shell.leader = "gone" => shell.closed)
(* Success is the leader's own: it exited by itself with zero.               *)
ShellTruth == shell.told = "ok" => shell.code = "zero" /\ shell.leader = "gone" /\ ~shell.stop
ShellSafe == ShellIsOver /\ ShellTruth
=============================================================================
