------------------------------ MODULE NameProofs ------------------------------
(***************************************************************************)
(* The laws of ndn_Name_match that the core relies on, for names of any    *)
(* length over any set of components: the empty name matches every name   *)
(* (the "always returns 1 if this name is empty" of its comment), a name   *)
(* matches itself, and matching is transitive, so that an Interest for a   *)
(* longer name is matched by every prefix of a prefix of it.               *)
(***************************************************************************)
EXTENDS Name, SequenceTheorems, TLAPS

(* The empty name matches every name.                                      *)
THEOREM MatchEmpty ==
  ASSUME NEW S, NEW n \in Seq(S)
  PROVE  Match(<<>>, n)
<1>1. Len(<<>>) = 0 /\ Len(n) \in Nat
  BY EmptySeq, LenProperties
<1>2. SubSeq(n, 1, 0) = <<>>
  BY SubSeqEmpty
<1>. QED
  BY <1>1, <1>2 DEF Match

(* Every name matches itself.                                              *)
THEOREM MatchReflexive ==
  ASSUME NEW S, NEW n \in Seq(S)
  PROVE  Match(n, n)
BY SubSeqFull, LenProperties DEF Match

(* A prefix of a prefix of a name is a prefix of the name.                *)
THEOREM MatchTransitive ==
  ASSUME NEW S, NEW a \in Seq(S), NEW b \in Seq(S), NEW c \in Seq(S),
         Match(a, b), Match(b, c)
  PROVE  Match(a, c)
<1>1. /\ Len(a) \in Nat /\ Len(b) \in Nat /\ Len(c) \in Nat
      /\ Len(a) <= Len(b) /\ Len(b) <= Len(c)
  BY LenProperties DEF Match
<1>2. \A i \in 1 .. Len(c) : c[i] \in S
  BY LenProperties
<1>3. \A i \in 1 .. Len(b) : b[i] \in S
  BY LenProperties
<1>4. /\ SubSeq(c, 1, Len(a)) \in Seq(S)
      /\ Len(SubSeq(c, 1, Len(a))) = Len(a)
      /\ \A i \in 1 .. Len(a) : SubSeq(c, 1, Len(a))[i] = c[i]
  <2>1. \A i \in 1 .. Len(a) : c[i] \in S
    BY <1>1, <1>2
  <2>. QED
    BY <1>1, <2>1, SubSeqProperties
<1>5. \A i \in 1 .. Len(b) : b[i] = c[i]
  <2>1. \A i \in 1 .. Len(b) : SubSeq(c, 1, Len(b))[i] = c[i]
    <3>1. \A i \in 1 .. Len(b) : c[i] \in S
      BY <1>1, <1>2
    <3>. QED
      BY <1>1, <3>1, SubSeqProperties
  <2>2. SubSeq(c, 1, Len(b)) = b
    BY DEF Match
  <2>. QED
    BY <2>1, <2>2
<1>6. \A i \in 1 .. Len(a) : a[i] = b[i]
  <2>1. \A i \in 1 .. Len(a) : SubSeq(b, 1, Len(a))[i] = b[i]
    <3>1. \A i \in 1 .. Len(a) : b[i] \in S
      BY <1>1, <1>3
    <3>. QED
      BY <1>1, <3>1, SubSeqProperties
  <2>2. SubSeq(b, 1, Len(a)) = a
    BY DEF Match
  <2>. QED
    BY <2>1, <2>2
<1>7. SubSeq(c, 1, Len(a)) = a
  <2>1. \A i \in 1 .. Len(a) : SubSeq(c, 1, Len(a))[i] = a[i]
    BY <1>1, <1>4, <1>5, <1>6
  <2>. QED
    BY <1>4, <2>1, SeqEqual
<1>. QED
  BY <1>1, <1>7 DEF Match
=============================================================================
