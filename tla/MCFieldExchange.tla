-------------------------- MODULE MCFieldExchange --------------------------
(* Two ranks, each the neighbour of the other on both sides, over two steps. *)
EXTENDS FieldExchange

\* Messages to the right are buffered by MPI, those to the left are not.
MCProtocols == [right |-> {"eager"}, left |-> {"rendezvous"}]
=============================================================================
