-------------------------- MODULE MCCognitumSpaces --------------------------
(* One reading that lasts one or two ticks, a window of two, one read at a *)
(* time in chunks of one or two bytes with room for two and bodies of      *)
(* up to three.                                                            *)
EXTENDS CognitumSpaces

MCChunkSizes == {1, 2}
MCTtls == {1, 3}
MCConfidences == {0, 2}
MCLabels == {"internal", "sensitive"}
MCFloor == Unknown
=============================================================================
