---------------------------- MODULE MCAgenticLoop ----------------------------
(* Small teams for TLC. *)
EXTENDS AgenticLoop, TLC

CONSTANTS ada, hopper, m1, m2, p1, p2

MCOneAI == {ada}
MCTeam == {ada, hopper}
MCNone == {}
MCOneMessage == {m1}
MCTwoMessages == {m1, m2}
MCOneApproval == {p1}
MCTwoApprovals == {p1, p2}
MCHandOffTools == {"assign_task", "web_search"}
MCApprovalTools == {"request_approval"}
=============================================================================
