-------------------------------- MODULE Name --------------------------------
(***************************************************************************)
(* NDN names and the prefix match the core relies on (component C1).       *)
(*                                                                         *)
(* A name is a sequence of opaque components; a component is a model       *)
(* value, since the core only ever compares components for equality.       *)
(* ndn_Name_match (src/unnamed/part_000) and Interest::matchesName are     *)
(* the one matching rule of the core: the N components of the first name  *)
(* equal the first N components of the second, and the empty name matches *)
(* every name.                                                             *)
(***************************************************************************)
EXTENDS Naturals, Sequences

(* ndn_Name_match(self, name): 1 iff self is a prefix of name.             *)
Match(self, name) ==
  Len(self) <= Len(name) /\ SubSeq(name, 1, Len(self)) = self

(* The names of at most n components drawn from the set Comps.             *)
NamesUpTo(Comps, n) == UNION {[1..k -> Comps] : k \in 0..n}

=============================================================================
