------------------------- MODULE MCParticleExchange -------------------------
(* ParticleExchange for TLC: two ranks that are each other's neighbours.    *)
EXTENDS ParticleExchange

CONSTANTS A, B

MCRanks == {A, B}

MCChannels == {"AB", "BA"}

MCSrc == [c \in MCChannels |-> IF c = "AB" THEN A ELSE B]

MCDst == [c \in MCChannels |-> IF c = "AB" THEN B ELSE A]

(* MPI never buffers what B sends, and what A sends as it likes, message by *)
(* message.                                                                 *)
MixedProtocols ==
  [c \in MCChannels |-> IF c = "AB" THEN {"eager", "rendezvous"} ELSE {"rendezvous"}]

Unbuffered == [c \in MCChannels |-> {"rendezvous"}]
=============================================================================
