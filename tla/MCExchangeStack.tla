--------------------------- MODULE MCExchangeStack ---------------------------
(* ExchangeStack for TLC.  Two blocks with up to three frames of two         *)
(* particles share a buffer of three: a block pushes several times in one    *)
(* round, both can be past the end of the buffer at once, a frame can be     *)
(* granted in part, and a guard can take up to five rounds.                  *)
EXTENDS ExchangeStack
=============================================================================
