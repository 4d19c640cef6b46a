-------------------------- MODULE MCIntelPipeline --------------------------
(* Three stories: a and b are similar, b and c are similar, a and c are    *)
(* not; one carries no date and one neither English nor a link.            *)
EXTENDS IntelPipeline

CONSTANTS a, b, c

MCItems == {a, b, c}
MCUndated == {a}
MCUnlinked == {c}
MCSimilar == {<<i, i>> : i \in MCItems} \union {<<a, b>>, <<b, a>>, <<b, c>>, <<c, b>>}
=============================================================================
