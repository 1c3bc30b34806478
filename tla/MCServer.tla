------------------------------ MODULE MCServer ------------------------------
(* Three descriptors for three clients: two sessions fill them, and closing  *)
(* one lets the other reuse its descriptors within the same batch.           *)
EXTENDS Server
=============================================================================
