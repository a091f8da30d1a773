------------------------------ MODULE MCTranscript ------------------------------
(* Answers with up to two calls; two large files exceed the budget. *)
EXTENDS Transcript, SequencesExt

CONSTANTS web_search, read_project_docs, send_channel_message, other_tool

MCTool == {web_search, read_project_docs, send_channel_message}
MCFileCost == {2, 9}
MCSearchCost == {2}
MCToolCost == {1}
MCDigestCost == {1, 3}

Kind ==
    {[type |-> "function", tool |-> t, clipped |-> FALSE] : t \in MCTool \cup {other_tool}}
    \cup {[type |-> "function", tool |-> send_channel_message, clipped |-> TRUE],
          [type |-> "other", tool |-> other_tool, clipped |-> FALSE]}

MCAnswer ==
    {[finish_reason |-> "tool_calls", calls |-> calls] : calls \in BoundedSeq(Kind, 2)}
    \cup {[finish_reason |-> reason, calls |-> calls] :
             reason \in {"length", "stop"}, calls \in BoundedSeq(Kind, 1)}
=============================================================================
