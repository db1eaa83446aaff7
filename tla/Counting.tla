------------------------------ MODULE Counting ------------------------------
(* How often a message is under way on a channel.                           *)
EXTENDS Naturals, Sequences, FiniteSets

CountOf(channel, m) == Cardinality({i \in DOMAIN channel : channel[i] = m})
=============================================================================
