-------------------------- MODULE MC_SessionFactory --------------------------
(* Model values for the runs of SessionFactory. *)
EXTENDS SessionFactory
CONSTANTS s1, s2, s3, s4, dml, mgx, hip
MCSessions == {s1, s2, s3}
MCFourSessions == {s1, s2, s3, s4}
MCThree == {dml, mgx, hip}
MCTwo == {dml, mgx}
MCDirectML == {dml}
=============================================================================
