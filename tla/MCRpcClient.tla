---------------------------- MODULE MCRpcClient ----------------------------
(***************************************************************************)
(* Instances of RpcClient for TLC.  In the profile of robomp one driver    *)
(* calls prompt_and_wait and gives up on the first error, while a cancel   *)
(* hook and the exit of the with statement stop the client; in the profile *)
(* of the library two threads make any call.                               *)
(***************************************************************************)
EXTENDS RpcClient, TLC

CONSTANTS driver, other, hook, leave, tool1, tool2
=============================================================================
