-------------------------- MODULE MCCodeCacheEntry --------------------------
(* One reader against two writers, two payload words, three updates: a     *)
(* reader writes nothing shared, so a second one adds no behaviour.        *)
EXTENDS CodeCacheEntry, FiniteSets

\* Torn copies need two words and two elements; a lock needs two takers.
ASSUME InstanceAssumption ==
  /\ Cardinality(Words) > 1
  /\ Cardinality(Payloads) > 1
  /\ Cardinality(Writers) > 1
=============================================================================
