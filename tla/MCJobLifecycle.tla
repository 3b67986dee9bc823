--------------------------- MODULE MCJobLifecycle ---------------------------
(***************************************************************************)
(* Instances of JobLifecycle for TLC.                                      *)
(***************************************************************************)
EXTENDS JobLifecycle, TLC

CONSTANTS j1, j2   \* job ids, as model values

MCOneJob == {j1}
MCTwoJobs == {j1, j2}

MCEveryLoad == Jobs \X Loaders
MCOneLoad == {<<j1, "read">>}
=============================================================================
