---------------------------- MODULE MCStudyRunner ----------------------------
(* Instances of StudyRunner. Plans are executed in another order than they are *)
(* reported in; configuration "B" comes after a commit, in the same directory. *)
EXTENDS StudyRunner

MCPlansOf == [c \in Configs |-> IF c = "A" THEN <<2, 1>> ELSE <<3>>]
MCThreePlansOf == [c \in Configs |-> <<2, 1, 3>>]
MCNone == "none"
=============================================================================
