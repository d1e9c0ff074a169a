--------------------------- MODULE MCPlatformGate ---------------------------
(* Instances of PlatformGate: the scheduler and the API syncing, one worker, *)
(* the platform_sync job and the command, a manifest for each of two         *)
(* revisions and one without a source.                                       *)
EXTENDS PlatformGate

CONSTANTS scheduler, api, codex, job, cli, m1, m2, m3

BoundTo == [c \in Contents |-> CASE c = m1 -> 1 [] c = m2 -> 2 [] OTHER -> NoRevision]
=============================================================================
