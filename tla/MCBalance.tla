----------------------------- MODULE MCBalance ------------------------------
(* Balance on one axis: both have the same code and share no variable.     *)
EXTENDS Balance

MCAxes == {"vx"}
MCPidOrder == <<"vel", "pitch">>

(* Beyond the limit on both sides, and not a number. *)
MCRefs == {-3, 3, NaN}
=============================================================================
