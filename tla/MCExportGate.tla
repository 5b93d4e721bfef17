---------------------------- MODULE MCExportGate ----------------------------
(* Four contents, one for each file of the package; a cited file takes two  *)
(* of them while it is cited in every way, or three in one way.             *)
EXTENDS ExportGate

CONSTANTS h1, h2, h3, h4

Hashes   == {h1, h2, h3, h4}
Replayed == {h1, h4}
Publish  == [p \in Shipped |-> CASE p = "gate" -> h1 [] p = "control" -> h2
                                 [] p = "netlist" -> h3 [] p = "log" -> h4]
TwoWays  == [name : {"gate", "gen"}, shape : {"role", "object", "bare"}, sha : {h1, h2}]
Plain    == [name : {"gate"}, shape : {"object"}, sha : {h1, h2, h4}]
=============================================================================
