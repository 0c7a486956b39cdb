---------------------------- MODULE MCDashboard ----------------------------
(* Dashboard with four logs: two of one and a half chunks, the second with *)
(* lines that raise once there is a sample before them; one of one line;   *)
(* and one without a usable line.                                          *)
EXTENDS Dashboard

MCLogs == {<<"snap", "frame", "snap">>, <<"undated", "snap", "undated">>, <<"info">>, <<>>}
=============================================================================
