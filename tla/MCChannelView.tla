---------------------------- MODULE MCChannelView ----------------------------
(* Two channels with a message each: a view can leave a channel and return. *)
EXTENDS ChannelView

CONSTANTS general, random, m1, m2

MCChannels == {general, random}
MCMessages == {m1, m2}
MCChannelOf == [m \in MCMessages |-> IF m = m1 THEN general ELSE random]
=============================================================================
