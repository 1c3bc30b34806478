--------------------------- MODULE MCMagikaModel ---------------------------
(* Regions of two bytes and payloads of up to five, so that they overlap,    *)
(* meet and leave a gap; the layers keep the proportions of the network.     *)
EXTENDS MagikaModel

MCLabels == <<"text", "pdf">>
=============================================================================
