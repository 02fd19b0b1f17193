----------------------- MODULE MercadoLibreConnectionMC -----------------------
(***************************************************************************)
(* Instances of MercadoLibreConnection for TLC.                            *)
(***************************************************************************)
EXTENDS MercadoLibreConnection

CONSTANTS c1, c2

TwoCallers == {c1, c2}
=============================================================================
