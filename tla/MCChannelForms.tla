----------------------------- MODULE MCChannelForms -----------------------------
(* Two channels: one can leave a channel during a request and return. *)
EXTENDS ChannelForms

CONSTANTS general, random

MCChannels == {general, random}
=============================================================================
