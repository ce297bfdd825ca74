--------------------------- MODULE MCPublication ---------------------------
(***************************************************************************)
(* The instances of Publication that TLC checks.  An upload is a snapshot  *)
(* of one mutation that no commit of the node ever had.                    *)
(***************************************************************************)
EXTENDS Publication

MCUploads == {<<0>>}

\* Bound: an agent is followed where there is no upload or rollback.  (What it holds
\* after one that has published is not compared with the node's state.)
FollowedWithoutUploads == agent = None \/ uploads = 0
=============================================================================
