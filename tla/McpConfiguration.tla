-------------------------- MODULE McpConfiguration --------------------------
(* Loading the configuration of external servers, kiro/mcp-provider.ts: the  *)
(* bytes of the live file are read once, written to a staged file of this    *)
(* process's own, loaded from there, and the staged file is removed whatever *)
(* happens; other processes may change either file at any step.  A file is   *)
(* its identity (inode) and its bytes; a read that sees the file change under*)
(* it fails, so a read is one step.                                          *)
EXTENDS Naturals
CONSTANTS MaxFiles, MaxWrites   \* bounds: identities ever created, contents ever written
ASSUME ConfigurationAssumption == MaxFiles \in Nat \ {0} /\ MaxWrites \in Nat \ {0}
VARIABLES live, staged,  \* [id, bytes]; id 0: there is no such file
          own,           \* the identity of the staged file this process created
          explicit,      \* the bytes that were read and whose digest is recorded
          definitions,   \* the bytes the servers were loaded from
          doubt,         \* a verification has failed
          stuck,         \* the removal of the staged file has failed
          files,         \* identities in use
          step
confVars == <<live, staged, own, explicit, definitions, doubt, stuck, files, step>>

Gone == [id |-> 0, bytes |-> 0]
Blank == MaxWrites + 1
ConfInit ==
  /\ live = [id |-> 1, bytes |-> 0] /\ staged = Gone /\ own = 0 /\ explicit = 0 /\ definitions = Blank
  /\ doubt = FALSE /\ stuck = FALSE /\ files = 1 /\ step = "read"

ReadExplicit ==
  /\ step = "read"
  /\ \/ live.id # 0 /\ explicit' = live.bytes /\ step' = "create"
     \/ step' = "failed" /\ UNCHANGED explicit
  /\ UNCHANGED <<live, staged, own, definitions, doubt, stuck, files>>
(* stageExplicitMcpConfiguration: create, write, verify.                     *)
CreateStaged ==
  /\ step = "create" /\ files < MaxFiles
  /\ \/ /\ staged' = [id |-> files + 1, bytes |-> Blank] /\ own' = files + 1 /\ files' = files + 1 /\ step' = "write"
     \/ step' = "failed" /\ UNCHANGED <<staged, own, files>>
  /\ UNCHANGED <<live, explicit, definitions, doubt, stuck>>
WriteStaged ==
  /\ step = "write"
  /\ \/ staged' = (IF staged.id = own THEN [staged EXCEPT !.bytes = explicit] ELSE staged) /\ step' = "verify" /\ UNCHANGED doubt
     \/ doubt' = TRUE /\ step' = "unlink" /\ UNCHANGED staged
  /\ UNCHANGED <<live, own, explicit, definitions, stuck, files>>
Ours == staged.id = own /\ staged.bytes = explicit
Verify ==
  /\ step = "verify" /\ doubt' = ~Ours /\ step' = IF Ours THEN "load" ELSE "unlink"
  /\ UNCHANGED <<live, staged, own, explicit, definitions, stuck, files>>
(* The definitions are parsed from the staged name, then it is looked at     *)
(* again.                                                                    *)
LoadServers ==
  /\ step = "load"
  /\ \/ staged.id # 0 /\ definitions' = staged.bytes /\ step' = "after" /\ UNCHANGED doubt
     \/ doubt' = TRUE /\ step' = "remove" /\ UNCHANGED definitions
  /\ UNCHANGED <<live, staged, own, explicit, stuck, files>>
After ==
  /\ step = "after" /\ doubt' = ~Ours /\ step' = "remove"
  /\ UNCHANGED <<live, staged, own, explicit, definitions, stuck, files>>
(* removeStagedMcpConfiguration: verify once more, and remove the file this  *)
(* process created even when the verification failed.                        *)
RemoveStaged ==
  /\ step = "remove" /\ doubt' = (doubt \/ ~Ours) /\ step' = "unlink"
  /\ UNCHANGED <<live, staged, own, explicit, definitions, stuck, files>>
Unlink ==
  /\ step = "unlink"
  /\ \/ /\ staged' = (IF staged.id = own THEN Gone ELSE staged) /\ UNCHANGED stuck
        /\ step' = (IF doubt THEN "failed" ELSE "recheck")
     \/ stuck' = TRUE /\ step' = "failed" /\ UNCHANGED staged
  /\ UNCHANGED <<live, own, explicit, definitions, doubt, files>>
(* The live file is read a last time.                                        *)
Recheck ==
  /\ step = "recheck" /\ step' = IF live.id # 0 /\ live.bytes = explicit THEN "loaded" ELSE "failed"
  /\ UNCHANGED <<live, staged, own, explicit, definitions, doubt, stuck, files>>

(* Others replace, edit or remove a file.  The live file may get its old     *)
(* bytes back; the staged one, whose name nobody knows, does not.            *)
Others ==
  /\ \/ \E b \in 0 .. MaxWrites : files < MaxFiles /\ live' = [id |-> files + 1, bytes |-> b] /\ files' = files + 1 /\ UNCHANGED staged
     \/ \E b \in 0 .. MaxWrites : live.id # 0 /\ live' = [live EXCEPT !.bytes = b] /\ UNCHANGED <<staged, files>>
     \/ live' = Gone /\ UNCHANGED <<staged, files>>
     \/ staged' \in {Gone, [staged EXCEPT !.bytes = Blank]} /\ staged.id # 0 /\ UNCHANGED <<live, files>>
     \/ \E b \in 0 .. MaxWrites : staged.id # 0 /\ files < MaxFiles /\ staged' = [id |-> files + 1, bytes |-> b] /\ files' = files + 1 /\ UNCHANGED live
  /\ UNCHANGED <<own, explicit, definitions, doubt, stuck, step>>
ConfNext == ReadExplicit \/ CreateStaged \/ WriteStaged \/ Verify \/ LoadServers \/ After \/ RemoveStaged \/ Unlink \/ Recheck \/ Others
ConfSpec == ConfInit /\ [][ConfNext]_confVars

(* What has been loaded is what was read and recorded, though the live file  *)
(* or the staged one changed and changed back in between; and a load that    *)
(* has ended, well or not, leaves its staged file behind only if removing it *)
(* failed.                                                                   *)
SnapshotAccounted ==
  /\ step = "loaded" => definitions = explicit
  /\ step \in {"loaded", "failed"} /\ own # 0 => staged.id # own \/ stuck
============================================================================
