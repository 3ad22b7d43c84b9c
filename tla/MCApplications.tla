---------------------------- MODULE MCApplications ----------------------------
(* A small instance of Applications. *)
EXTENDS Applications

\* Days of two hours and of one.
UnevenDays == <<0, 2, 3>>
TwoFunctions == <<"f", "g">>
TwoTeams == <<"a", "b">>
=============================================================================
