-------------------------- MODULE MCChannelIngress --------------------------
(* Instances of ChannelIngress for TLC. *)
EXTENDS ChannelIngress

\* a session change, a message behind it and a stop of the new session
NewTextStop == <<"new", "text", "stop">>

=============================================================================
