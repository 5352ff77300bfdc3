------------------------- MODULE MCHiveMQExtension -------------------------
(* A small instance of HiveMQExtension for TLC.                            *)
EXTENDS HiveMQExtension, TLC

CONSTANTS c1, c2, r1, r2, good, forged, x1, x2

(* "good" has two MQTT scopes, of which only the first counts; "forged" is *)
(* no token of AM, whatever scope it names.                                *)
MCMqttScopes == [t \in Tokens |-> IF t = good THEN <<x1, x2>> ELSE <<x2>>]

Symmetry == Permutations(Conns) \cup Permutations(Requests)
============================================================================
