----------------------- MODULE MCAsyncMemoryProcessor -----------------------
(* Values of the constants of AsyncMemoryProcessor for TLC.                *)
EXTENDS AsyncMemoryProcessor, TLC

CONSTANTS t1, t2, t3, c1

ThreeTypes == t1 :> "add" @@ t2 :> "delete" @@ t3 :> "check_conflicts"
=============================================================================
