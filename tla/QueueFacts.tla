----------------------------- MODULE QueueFacts -----------------------------
(***************************************************************************)
(* What appending to a queue and taking its front do to its length and its *)
(* elements: the form in which the proofs about queues use sequences.      *)
(***************************************************************************)
EXTENDS Integers, SequenceTheorems, TLAPS

\* t is s with e behind it.
IsPush(s, e, t) ==
    /\ Len(t) = Len(s) + 1
    /\ t[Len(s) + 1] = e
    /\ \A i \in 1 .. Len(s) : t[i] = s[i]
    /\ t # <<>>

\* t is s without its front.
IsPop(s, t) ==
    /\ Len(s) > 0
    /\ Head(s) = s[1]
    /\ Len(t) = Len(s) - 1
    /\ \A i \in 1 .. Len(t) : t[i] = s[i + 1]

LEMMA Emptiness ==
  ASSUME NEW S, NEW s \in Seq(S)
  PROVE  Len(s) \in Nat /\ (s = <<>> <=> Len(s) = 0)
  BY EmptySeq, LenProperties

LEMMA Push ==
  ASSUME NEW S, NEW s \in Seq(S), NEW e \in S
  PROVE  Append(s, e) \in Seq(S) /\ IsPush(s, e, Append(s, e))
  BY AppendProperties, LenProperties DEF IsPush

LEMMA Pop ==
  ASSUME NEW S, NEW s \in Seq(S), s # <<>>
  PROVE  Head(s) \in S /\ Tail(s) \in Seq(S) /\ IsPop(s, Tail(s))
  BY HeadTailProperties, EmptySeq DEF IsPop
=============================================================================
