------------------------- MODULE MCOpenClawPlugins -------------------------
(* Values of the constants of OpenClawPlugins for TLC.                     *)
EXTENDS OpenClawPlugins

Msg(role, marks, blank, len) ==
    [role |-> role, marks |-> marks, blank |-> blank, len |-> len, asked |-> ""]

\* A conversation with a preference of the user, a blank message and a decision.
Talk == {
    <<Msg("user", {"preference", "profile"}, FALSE, 8), Msg("assistant", {}, TRUE, 0),
      Msg("assistant", {"conclusion"}, FALSE, 12)>> }

Limits == {6, 17}
=============================================================================
