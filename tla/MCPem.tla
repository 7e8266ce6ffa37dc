-------------------------------- MODULE MCPem --------------------------------
(***************************************************************************)
(* Pem on every text of up to Longest lines.                               *)
(***************************************************************************)
EXTENDS Pem

CONSTANT Longest

MCTexts == UNION { [1 .. n -> Lines] : n \in 0 .. Longest }

=============================================================================
