-------------------------- MODULE MCViewerSessions --------------------------
(* One session is enough, as sessions do not interact; two reports of it   *)
(* are handled at a time.  The ages keep the order of the code's limits:   *)
(* stall time < stable time < hour.                                        *)
EXTENDS ViewerSessions, TLC

CONSTANTS v1, q1, q2

OneSession == {v1}
OneReport == {q1}
TwoReports == {q1, q2}
Symmetry == Permutations(TwoReports)
=============================================================================
