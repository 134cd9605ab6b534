-------------------------- MODULE MCTreeTerminator --------------------------
(***************************************************************************)
(* Small hosts for TreeTerminator.  On one, every process has a pid of its *)
(* own.  On the other, process b, an sshd session too, can get the pid of  *)
(* the root once the root has exited, and a and c can get each other's     *)
(* pid; d has a pid of its own.                                            *)
(***************************************************************************)
EXTENDS TreeTerminator, TLC

CONSTANTS root, a, b, c, d

FreshPids == root :> 1 @@ a :> 2 @@ b :> 3 @@ c :> 4
RecycledPids == root :> 1 @@ a :> 2 @@ b :> 1 @@ c :> 2 @@ d :> 3
MCPidMaps == {FreshPids, RecycledPids}
MCSessionProcs == {root, b}
=============================================================================
