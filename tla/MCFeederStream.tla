--------------------------- MODULE MCFeederStream ---------------------------
(* The instance of FeederStream that TLC checks: items are <<source, n>>.  *)
EXTENDS FeederStream

MCItem == Source \X (1 .. MaxItems)
=============================================================================
