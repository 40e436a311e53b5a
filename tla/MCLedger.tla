------------------------------ MODULE MCLedger ------------------------------
(* Small instances of Ledger for TLC. *)
EXTENDS Ledger, TLC, FiniteSets

CONSTANTS p1, c1, c2, e1

OneLegacy ==
  <<[counter |-> 1, ts |-> 0, prev |-> GENESIS_HASH,
     hash |-> Digest(GENESIS_HASH, "json", 0, 1),
     person |-> p1, sealed |-> TRUE, hashed |-> FALSE]>>

\* Bound: a behaviour is followed until a second of the five causes joins the
\* first.  One is all that any of the properties asks for.
OneCause == Cardinality({cause \in DOMAIN hist : hist[cause]}) <= 1
=============================================================================
