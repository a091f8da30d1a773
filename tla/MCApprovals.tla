----------------------------- MODULE MCApprovals ------------------------------
(***************************************************************************)
(* Two approvals, two reviewers.                                           *)
(***************************************************************************)
EXTENDS Approvals
=============================================================================
