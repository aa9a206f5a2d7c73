------------------------ MODULE MCPermissionRequests ------------------------
(* Instances of PermissionRequests for TLC: the configurations give requests, processes and bounds. *)
EXTENDS PermissionRequests
=============================================================================
