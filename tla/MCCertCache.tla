---------------------------- MODULE MCCertCache -----------------------------
(* A cache of two entries, three hostnames and three contexts. *)
EXTENDS CertCache, TLC

CONSTANTS h1, h2, h3, c1, c2, c3

MCHosts == {h1, h2, h3}
MCCtxs == {c1, c2, c3}
MCSymmetry == Permutations(MCHosts) \cup Permutations(MCCtxs)
=============================================================================
