------------------------------ MODULE Picking ------------------------------
(***************************************************************************)
(* Array.prototype.filter, as the pages use it: what is left of a list     *)
(* when only some of its members are kept.  It is SelectSeq for a set in   *)
(* place of a test, written by the places of the members, so that it can   *)
(* be proved about.                                                        *)
(***************************************************************************)
EXTENDS Naturals, Sequences, SequencesExt, FiniteSets

\* The members of s that are in S, as they stand in s.
Only(s, S) ==
    LET at == {i \in DOMAIN s : s[i] \in S}
    IN  [k \in 1..Cardinality(at) |-> s[CHOOSE i \in at : Cardinality({j \in at : j <= i}) = k]]

Without(s, x) == Only(s, ToSet(s) \ {x})
=============================================================================
