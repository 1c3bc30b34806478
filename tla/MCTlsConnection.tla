-------------------------- MODULE MCTlsConnection ---------------------------
(* A TLS connection with a send buffer that one record fills. *)
EXTENDS TlsConnection
=============================================================================
