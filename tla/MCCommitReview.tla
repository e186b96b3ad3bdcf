--------------------------- MODULE MCCommitReview ---------------------------
(* The instance of CommitReview that TLC checks: a Python and an XML file.
   Nothing tells the versions apart, nor the profiles, so that one of each is
   enough to begin with. *)
EXTENDS CommitReview
CONSTANTS py, xml, t1, t2

MCInit == Init /\ disk = "w1" /\ rules.profiles = "d1"
MCSpec == MCInit /\ [][Next]_vars /\ Fairness
===============================================================================
