------------------------- MODULE DocumentPagesProofs -------------------------
(***************************************************************************)
(* Proofs about DocumentPages: what its helpers on texts compute, for      *)
(* every text, and the invariant of a document's way to a citation.        *)
(*                                                                         *)
(* A text is taken apart by functions that recur on its characters, so the *)
(* lemmas about them need induction, with a set in the place of the        *)
(* predicate: a set of numbers that holds 0 and the successor of each of   *)
(* its members holds every number, since a number outside it would have a  *)
(* least one.  That the recurring function exists is proved the same way.  *)
(***************************************************************************)
EXTENDS DocumentPages, Integers, SequenceTheorems, WellFoundedInduction, TLAPS

-----------------------------------------------------------------------------
(* Induction. *)

LEMMA LeastNatural ==
  ASSUME NEW T \in SUBSET Nat, T # {}
  PROVE  \E n \in T : \A m \in T : n <= m
<1> DEFINE R == OpToRel(<, Nat)
<1>1. PICK n \in T : \A m \in T : <<m, n>> \notin R
  <2> HIDE DEF R
  <2>1. IsWellFoundedOn(R, Nat)
    BY NatLessThanWellFounded DEF R
  <2> QED BY <2>1, WFMin
<1>2. \A m \in T : ~(m < n)
  BY <1>1 DEF OpToRel
<1> QED BY <1>2

(* Induction, for a predicate that is given as a set. *)
LEMMA InductionOnSet ==
  ASSUME NEW T, 0 \in T, \A n \in Nat : n \in T => n + 1 \in T
  PROVE  Nat \subseteq T
<1> SUFFICES ASSUME Nat \ T # {} PROVE FALSE
  OBVIOUS
<1>1. PICK n \in Nat \ T : \A m \in Nat \ T : n <= m
  BY LeastNatural
<1>2. n - 1 \in Nat /\ n - 1 \notin Nat \ T
  BY <1>1
<1> QED BY <1>1, <1>2

Recurrence(s0, G, n, g) == g[0] = s0 /\ \A i \in 1..n : g[i] = G[<<i, g[i - 1]>>]

(* A recurrence over values of S has a solution. *)
LEMMA Recursion ==
  ASSUME NEW S, NEW s0 \in S, NEW G \in [Nat \X S -> S], NEW n \in Nat
  PROVE  \E g \in [0..n -> S] : Recurrence(s0, G, n, g)
<1> DEFINE Solves(k, g) == g[0] = s0 /\ \A i \in 1..k : g[i] = G[<<i, g[i - 1]>>]
           T == {k \in Nat : \E g \in [0..k -> S] : Solves(k, g)}
<1>1. 0 \in T
  <2>1. [i \in 0..0 |-> s0] \in [0..0 -> S] /\ Solves(0, [i \in 0..0 |-> s0])
    OBVIOUS
  <2> QED BY <2>1
<1>2. ASSUME NEW k \in Nat, k \in T PROVE k + 1 \in T
  <2>1. PICK g \in [0..k -> S] : Solves(k, g)
    BY <1>2
  <2>2. g[k] \in S /\ G[<<k + 1, g[k]>>] \in S
    OBVIOUS
  <2> DEFINE v == G[<<k + 1, g[k]>>]
             h == [i \in 0..k + 1 |-> IF i = k + 1 THEN v ELSE g[i]]
  <2>3. h \in [0..k + 1 -> S]
    <3> HIDE DEF v
    <3>1. \A i \in 0..k + 1 : i # k + 1 => i \in 0..k
      OBVIOUS
    <3> QED BY <2>2, <3>1 DEF v
  <2>4. h[0] = s0
    BY <2>1
  <2>5. ASSUME NEW i \in 1..k + 1 PROVE h[i] = G[<<i, h[i - 1]>>]
    <3>1. CASE i = k + 1
      <4>1. h[i] = v /\ h[i - 1] = g[k]
        BY <3>1
      <4> QED BY <4>1, <3>1
    <3>2. CASE i # k + 1
      <4>1. h[i] = g[i] /\ h[i - 1] = g[i - 1] /\ i \in 1..k
        BY <3>2
      <4> QED BY <4>1, <2>1
    <3> QED BY <3>1, <3>2
  <2>6. Solves(k + 1, h)
    BY <2>4, <2>5
  <2>7. k + 1 \in Nat
    OBVIOUS
  <2> HIDE DEF h, Solves
  <2> QED BY <2>3, <2>6, <2>7
<1> HIDE DEF T
<1>3. n \in T
  BY <1>1, <1>2, InductionOnSet
<1> QED BY <1>3 DEF T, Recurrence

(* Induction on sequences, from the empty one by appending. *)
LEMMA SequenceInduction ==
  ASSUME NEW S, NEW T, <<>> \in T,
         \A s \in Seq(S), e \in S : s \in T => Append(s, e) \in T
  PROVE  Seq(S) \subseteq T
<1> DEFINE P == {n \in Nat : \A s \in Seq(S) : Len(s) = n => s \in T}
<1>1. 0 \in P
  <2>1. \A s \in Seq(S) : Len(s) = 0 => s = <<>>
    BY EmptySeq
  <2> QED BY <2>1
<1>2. ASSUME NEW n \in Nat, n \in P PROVE n + 1 \in P
  <2>1. ASSUME NEW s \in Seq(S), Len(s) = n + 1 PROVE s \in T
    <3>1. s # <<>>
      BY <2>1, EmptySeq
    <3>2. PICK r \in Seq(S), e \in S : s = Append(r, e)
      BY <3>1, SequenceEmptyOrAppend
    <3>3. Len(r) = n
      BY <2>1, <3>2
    <3>4. r \in T
      BY <1>2, <3>3
    <3> QED BY <3>2, <3>4
  <2> QED BY <2>1
<1> HIDE DEF P
<1>3. Nat \subseteq P
  BY <1>1, <1>2, InductionOnSet
<1> SUFFICES ASSUME NEW s \in Seq(S) PROVE s \in T
  OBVIOUS
<1>4. Len(s) \in P
  BY <1>3
<1> QED BY <1>4 DEF P

LEMMA ConcatAppend ==
  ASSUME NEW S, NEW s \in Seq(S), NEW t \in Seq(S), NEW e \in S
  PROVE  s \o Append(t, e) = Append(s \o t, e)
<1>1. <<e>> \in Seq(S) /\ s \o t \in Seq(S)
  OBVIOUS
<1>2. Append(t, e) = t \o <<e>> /\ Append(s \o t, e) = (s \o t) \o <<e>>
  BY <1>1, AppendIsConcat
<1> QED BY <1>1, <1>2, ConcatAssociative

-----------------------------------------------------------------------------
(* Splitting a text at its form feeds. *)

Texts == Seq(Tokens \cup {FF})
Pages == Seq(Seq(Tokens)) \ {<<>>}

SplitStep(before, w) ==
  IF w = FF THEN Append(before, <<>>) ELSE [before EXCEPT ![Len(before)] = Append(@, w)]

SplitsUpTo(f, t) ==
  f = [n \in 0..Len(t) |-> IF n = 0 THEN << <<>> >> ELSE SplitStep(f[n - 1], t[n])]

LEMMA StepType ==
  ASSUME NEW b \in Pages, NEW w \in Tokens \cup {FF}
  PROVE  SplitStep(b, w) \in Pages
<1>1. Len(b) \in 1..Len(b) /\ b \in Seq(Seq(Tokens))
  BY EmptySeq DEF Pages
<1>2. CASE w = FF
  <2>1. <<>> \in Seq(Tokens)
    BY EmptySeq
  <2> QED BY <1>1, <1>2, <2>1, AppendProperties DEF SplitStep, Pages
<1>3. CASE w # FF
  <2>1. w \in Tokens /\ b[Len(b)] \in Seq(Tokens)
    BY <1>1, <1>3, ElementOfSeq
  <2>2. Append(b[Len(b)], w) \in Seq(Tokens)
    BY <2>1, AppendProperties
  <2>3. [b EXCEPT ![Len(b)] = Append(b[Len(b)], w)] \in Seq(Seq(Tokens))
        /\ Len([b EXCEPT ![Len(b)] = Append(b[Len(b)], w)]) = Len(b)
    BY <1>1, <2>2, ExceptSeq
  <2> QED BY <1>1, <1>3, <2>3, EmptySeq DEF SplitStep, Pages
<1> QED BY <1>2, <1>3

LEMMA SplittingExists ==
  ASSUME NEW t \in Texts
  PROVE  SplitsUpTo(Splitting(t), t)
<1> DEFINE G == [p \in Nat \X Pages |->
                   IF p[1] \in 1..Len(t) THEN SplitStep(p[2], t[p[1]]) ELSE p[2]]
           Solves(g) == /\ g[0] = << <<>> >>
                        /\ \A i \in 1..Len(t) : g[i] = G[<<i, g[i - 1]>>]
<1>1. << <<>> >> \in Pages
  <2>1. <<>> \in Seq(Tokens)
    BY EmptySeq
  <2> QED BY <2>1 DEF Pages
<1>2. G \in [Nat \X Pages -> Pages]
  <2>1. ASSUME NEW p \in Nat \X Pages PROVE G[p] \in Pages
    <3>1. CASE p[1] \in 1..Len(t)
      <4>1. t[p[1]] \in Tokens \cup {FF}
        BY <3>1, ElementOfSeq DEF Texts
      <4> QED BY <3>1, <4>1, StepType
    <3>2. CASE p[1] \notin 1..Len(t)
      BY <3>2
    <3> QED BY <3>1, <3>2
  <2> QED BY <2>1
<1>3. Len(t) \in Nat
  BY DEF Texts
<1>4. PICK g \in [0..Len(t) -> Pages] : Solves(g)
  <2> DEFINE m == Len(t)
             s0 == << <<>> >>
  <2> HIDE DEF G, m, s0
  <2>1. s0 \in Pages /\ G \in [Nat \X Pages -> Pages] /\ m \in Nat
    BY <1>1, <1>2, <1>3 DEF m, s0
  <2>2. \E g \in [0..m -> Pages] : Recurrence(s0, G, m, g)
    BY <2>1, Recursion
  <2> QED BY <2>2 DEF m, s0, Recurrence
<1>5. SplitsUpTo(g, t)
  <2>1. ASSUME NEW n \in 1..Len(t) PROVE g[n] = SplitStep(g[n - 1], t[n])
    <3>1. n \in Nat /\ n - 1 \in 0..Len(t)
      BY <1>3
    <3>2. <<n, g[n - 1]>> \in Nat \X Pages
      BY <3>1
    <3>3. G[<<n, g[n - 1]>>] = SplitStep(g[n - 1], t[n])
      BY <3>2
    <3> QED BY <1>4, <3>3
  <2>2. g = [n \in 0..Len(t) |-> g[n]]
    OBVIOUS
  <2>3. \A n \in 0..Len(t) : g[n] = IF n = 0 THEN << <<>> >> ELSE SplitStep(g[n - 1], t[n])
    <3> HIDE DEF G
    <3>1. \A n \in 0..Len(t) : n = 0 \/ n \in 1..Len(t)
      BY <1>3
    <3>2. \A n \in 1..Len(t) : n # 0
      OBVIOUS
    <3> QED BY <1>4, <2>1, <3>1, <3>2
  <2> QED BY <2>2, <2>3 DEF SplitsUpTo
<1>6. Splitting(t) = CHOOSE f : SplitsUpTo(f, t)
  BY DEF Splitting, SplitsUpTo, SplitStep
<1> QED BY <1>5, <1>6

LEMMA SplittingSteps ==
  ASSUME NEW t \in Texts
  PROVE  /\ Splitting(t)[0] = << <<>> >>
         /\ \A n \in 1..Len(t) : Splitting(t)[n] = SplitStep(Splitting(t)[n - 1], t[n])
<1> DEFINE f == Splitting(t)
<1> HIDE DEF f
<1>1. f = [n \in 0..Len(t) |-> IF n = 0 THEN << <<>> >> ELSE SplitStep(f[n - 1], t[n])]
  BY SplittingExists DEF SplitsUpTo, f
<1>2. Len(t) \in Nat
  BY DEF Texts
<1>3. 0 \in 0..Len(t) /\ \A n \in 1..Len(t) : n \in 0..Len(t) /\ n # 0
  BY <1>2
<1>4. f[0] = << <<>> >> /\ \A n \in 1..Len(t) : f[n] = SplitStep(f[n - 1], t[n])
  BY <1>1, <1>3, Zenon
<1> QED BY <1>4 DEF f

(* How a text is split does not depend on what comes after it. *)
LEMMA SplittingOfPrefix ==
  ASSUME NEW t \in Texts, NEW w \in Tokens \cup {FF}
  PROVE  \A n \in 0..Len(t) : Splitting(Append(t, w))[n] = Splitting(t)[n]
<1> DEFINE u == Append(t, w)
           T == {n \in Nat : n <= Len(t) => Splitting(u)[n] = Splitting(t)[n]}
<1>1. u \in Texts /\ Len(t) \in Nat /\ Len(u) = Len(t) + 1
      /\ \A i \in 1..Len(t) : u[i] = t[i]
  BY DEF Texts
<1> HIDE DEF u
<1>2. 0 \in T
  BY <1>1, SplittingSteps
<1>3. ASSUME NEW n \in Nat, n \in T PROVE n + 1 \in T
  <2>1. SUFFICES ASSUME n + 1 <= Len(t)
                 PROVE  Splitting(u)[n + 1] = Splitting(t)[n + 1]
    OBVIOUS
  <2>2. n + 1 \in 1..Len(t) /\ n + 1 \in 1..Len(u) /\ (n + 1) - 1 = n
    BY <1>1, <2>1
  <2>3. Splitting(u)[n] = Splitting(t)[n]
    BY <1>1, <1>3, <2>1
  <2>4. /\ Splitting(u)[n + 1] = SplitStep(Splitting(u)[n], u[n + 1])
        /\ Splitting(t)[n + 1] = SplitStep(Splitting(t)[n], t[n + 1])
    BY <1>1, <2>2, SplittingSteps
  <2> QED BY <1>1, <2>2, <2>3, <2>4
<1> HIDE DEF T
<1>4. Nat \subseteq T
  BY <1>2, <1>3, InductionOnSet
<1> QED BY <1>1, <1>4 DEF T, u

LEMMA SplitPagesOfEmpty ==
  SplitPages(<<>>) = << <<>> >>
<1>1. <<>> \in Texts /\ Len(<<>>) = 0
  BY EmptySeq DEF Texts
<1> QED BY <1>1, SplittingSteps DEF SplitPages

LEMMA SplitPagesOfAppend ==
  ASSUME NEW t \in Texts, NEW w \in Tokens \cup {FF}
  PROVE  SplitPages(Append(t, w)) = SplitStep(SplitPages(t), w)
<1> DEFINE u == Append(t, w)
<1>1. u \in Texts /\ Len(t) \in 0..Len(t) /\ Len(u) = Len(t) + 1
      /\ u[Len(u)] = w /\ Len(u) \in 1..Len(u) /\ Len(u) - 1 = Len(t)
  BY DEF Texts
<1> HIDE DEF u
<1>2. Splitting(u)[Len(u)] = SplitStep(Splitting(u)[Len(t)], w)
  BY <1>1, SplittingSteps
<1>3. Splitting(u)[Len(t)] = Splitting(t)[Len(t)]
  BY <1>1, SplittingOfPrefix DEF u
<1> QED BY <1>2, <1>3 DEF SplitPages, u

LEMMA SplitPagesType ==
  ASSUME NEW t \in Texts
  PROVE  SplitPages(t) \in Pages
<1> DEFINE T == {x \in Texts : SplitPages(x) \in Pages}
<1>1. <<>> \in T
  <2>1. <<>> \in Seq(Tokens) /\ <<>> \in Texts
    BY EmptySeq DEF Texts
  <2>2. << <<>> >> \in Pages
    BY <2>1 DEF Pages
  <2> QED BY <2>1, <2>2, SplitPagesOfEmpty
<1>2. ASSUME NEW x \in Texts, NEW w \in Tokens \cup {FF}, x \in T PROVE Append(x, w) \in T
  <2>1. Append(x, w) \in Texts
    BY DEF Texts
  <2> QED BY <1>2, <2>1, SplitPagesOfAppend, StepType
<1> HIDE DEF T
<1>3. Texts \subseteq T
  BY <1>1, <1>2, SequenceInduction DEF Texts
<1> QED BY <1>3 DEF T

(* Words that follow a text grow its last page. *)
LEMMA SplitPagesOfConcat ==
  ASSUME NEW t \in Texts, NEW w \in Seq(Tokens)
  PROVE  /\ t \o w \in Texts
         /\ Len(SplitPages(t \o w)) = Len(SplitPages(t))
         /\ \A i \in 1..Len(SplitPages(t)) :
              SplitPages(t \o w)[i] = IF i = Len(SplitPages(t)) THEN SplitPages(t)[i] \o w
                                      ELSE SplitPages(t)[i]
<1> DEFINE P == SplitPages(t)
           Goes(v) == /\ t \o v \in Texts
                      /\ Len(SplitPages(t \o v)) = Len(P)
                      /\ \A i \in 1..Len(P) :
                           SplitPages(t \o v)[i] = IF i = Len(P) THEN P[i] \o v ELSE P[i]
           T == {v \in Seq(Tokens) : Goes(v)}
<1>1. P \in Pages
  BY SplitPagesType
<1>2. P \in Seq(Seq(Tokens)) /\ Len(P) \in 1..Len(P) /\ Len(P) \in Nat
  BY <1>1, EmptySeq DEF Pages
<1>3. \A i \in 1..Len(P) : P[i] \in Seq(Tokens)
  BY <1>2, ElementOfSeq
<1> HIDE DEF P
<1>4. <<>> \in T
  <2>1. t \o <<>> = t /\ \A i \in 1..Len(P) : P[i] \o <<>> = P[i]
    BY <1>3, ConcatEmptySeq DEF Texts
  <2>2. <<>> \in Seq(Tokens)
    BY EmptySeq
  <2> QED BY <2>1, <2>2 DEF P
<1>5. ASSUME NEW v \in Seq(Tokens), NEW x \in Tokens, v \in T PROVE Append(v, x) \in T
  <2> DEFINE Q == SplitPages(t \o v)
             R == SplitPages(t \o Append(v, x))
  <2>1. t \o Append(v, x) = Append(t \o v, x) /\ t \o v \in Texts
        /\ t \o Append(v, x) \in Texts /\ Append(v, x) \in Seq(Tokens)
    BY DEF Texts
  <2>2. R = SplitStep(Q, x)
    BY <2>1, SplitPagesOfAppend
  <2>3. x # FF
    BY TokensAssumption DEF Tokens
  <2>4. Q \in Seq(Seq(Tokens)) /\ Len(Q) = Len(P)
    BY <1>5, <2>1, SplitPagesType DEF Pages
  <2>5. Q[Len(P)] = P[Len(P)] \o v
    BY <1>2, <1>5
  <2>6. Append(P[Len(P)] \o v, x) = P[Len(P)] \o Append(v, x)
    <3> DEFINE l == P[Len(P)]
    <3>1. l \in Seq(Tokens)
      BY <1>2, <1>3
    <3> HIDE DEF l
    <3>2. l \o Append(v, x) = Append(l \o v, x)
      BY <3>1, ConcatAppend
    <3> QED BY <3>2 DEF l
  <2> HIDE DEF Q, R
  <2>7. R = [Q EXCEPT ![Len(P)] = Append(Q[Len(P)], x)]
    BY <2>2, <2>3, <2>4 DEF SplitStep
  <2>8. Append(Q[Len(P)], x) \in Seq(Tokens)
    BY <1>2, <1>3, <2>5
  <2>9. Len(R) = Len(Q)
    BY <1>2, <2>4, <2>7, <2>8, ExceptSeq
  <2>10. ASSUME NEW i \in 1..Len(P)
         PROVE  R[i] = IF i = Len(P) THEN P[i] \o Append(v, x) ELSE P[i]
    <3>1. i \in DOMAIN Q
      BY <2>4
    <3>2. Q[i] = IF i = Len(P) THEN P[i] \o v ELSE P[i]
      BY <1>5 DEF Q
    <3>3. R[i] = IF i = Len(P) THEN Append(Q[Len(P)], x) ELSE Q[i]
      BY <2>7, <3>1
    <3> QED BY <2>5, <2>6, <3>2, <3>3
  <2> QED BY <2>1, <2>4, <2>9, <2>10 DEF R
<1> HIDE DEF T
<1>6. w \in T
  BY <1>4, <1>5, SequenceInduction
<1> QED BY <1>6 DEF T, P

LEMMA LastPageGrows ==
  ASSUME NEW t \in Texts, NEW ps \in Seq(Seq(Tokens)), NEW p \in Seq(Tokens),
         NEW w \in Seq(Tokens), SplitPages(t) = Append(ps, p)
  PROVE  /\ t \o w \in Texts
         /\ SplitPages(t \o w) = Append(ps, p \o w)
<1> DEFINE Q == SplitPages(t \o w)
           B == Append(ps, p)
           C == Append(ps, p \o w)
<1>1. t \o w \in Texts
  BY SplitPagesOfConcat
<1>2. Len(Q) = Len(B)
  BY SplitPagesOfConcat
<1>3. \A i \in 1..Len(B) : Q[i] = IF i = Len(B) THEN B[i] \o w ELSE B[i]
  <2>1. \A i \in 1..Len(SplitPages(t)) :
          Q[i] = IF i = Len(SplitPages(t)) THEN SplitPages(t)[i] \o w ELSE SplitPages(t)[i]
    BY SplitPagesOfConcat
  <2>2. SplitPages(t) = B
    OBVIOUS
  <2> HIDE DEF Q, B
  <2> QED BY <2>1, <2>2
<1>4. Q \in Seq(Seq(Tokens))
  BY <1>1, SplitPagesType DEF Pages
<1>5. /\ p \o w \in Seq(Tokens)
      /\ Len(B) = Len(ps) + 1 /\ B[Len(ps) + 1] = p
      /\ \A i \in 1..Len(ps) : B[i] = ps[i]
  OBVIOUS
<1>6. /\ C \in Seq(Seq(Tokens)) /\ Len(C) = Len(ps) + 1 /\ C[Len(ps) + 1] = p \o w
      /\ \A i \in 1..Len(ps) : C[i] = ps[i]
  BY <1>5
<1> HIDE DEF Q, B, C
<1>7. ASSUME NEW i \in 1..Len(Q) PROVE Q[i] = C[i]
  <2>1. CASE i = Len(ps) + 1
    BY <1>2, <1>3, <1>5, <1>6, <2>1
  <2>2. CASE i # Len(ps) + 1
    <3>1. i \in 1..Len(ps)
      BY <1>2, <1>5, <2>2
    <3>2. Q[i] = B[i] /\ B[i] = ps[i] /\ C[i] = ps[i]
      BY <1>2, <1>3, <1>5, <1>6, <2>2, <3>1
    <3> QED BY <3>2
  <2> QED BY <2>1, <2>2
<1>8. Q = C
  BY <1>2, <1>4, <1>5, <1>6, <1>7, SeqEqual
<1> QED BY <1>1, <1>8 DEF Q, C

(* A text without form feeds is one page. *)
LEMMA SplitPagesOfWords ==
  ASSUME NEW w \in Seq(Tokens)
  PROVE  SplitPages(w) = <<w>>
<1>1. <<>> \in Texts /\ <<>> \in Seq(Seq(Tokens)) /\ <<>> \in Seq(Tokens)
  BY EmptySeq DEF Texts
<1>2. SplitPages(<<>>) = Append(<<>>, <<>>)
  BY SplitPagesOfEmpty
<1>3. SplitPages(<<>> \o w) = Append(<<>>, <<>> \o w)
  BY <1>1, <1>2, LastPageGrows
<1> QED BY <1>3, ConcatEmptySeq

(* Another page after a form feed. *)
LEMMA SplitPagesOfNextPage ==
  ASSUME NEW t \in Texts, NEW w \in Seq(Tokens)
  PROVE  /\ Append(t, FF) \o w \in Texts
         /\ SplitPages(Append(t, FF) \o w) = Append(SplitPages(t), w)
<1>1. Append(t, FF) \in Texts /\ <<>> \in Seq(Tokens)
  BY EmptySeq DEF Texts
<1>2. SplitPages(t) \in Seq(Seq(Tokens))
  BY SplitPagesType DEF Pages
<1>3. SplitPages(Append(t, FF)) = Append(SplitPages(t), <<>>)
  BY SplitPagesOfAppend DEF SplitStep
<1>4. <<>> \o w = w
  BY ConcatEmptySeq
<1>5. /\ Append(t, FF) \o w \in Texts
      /\ SplitPages(Append(t, FF) \o w) = Append(SplitPages(t), <<>> \o w)
  <2> DEFINE u == Append(t, FF)
             ps == SplitPages(t)
  <2> HIDE DEF u, ps
  <2>1. u \in Texts /\ ps \in Seq(Seq(Tokens)) /\ SplitPages(u) = Append(ps, <<>>)
    BY <1>1, <1>2, <1>3 DEF u, ps
  <2>2. u \o w \in Texts /\ SplitPages(u \o w) = Append(ps, <<>> \o w)
    BY <1>1, <2>1, LastPageGrows
  <2> QED BY <2>2 DEF u, ps
<1> QED BY <1>4, <1>5

-----------------------------------------------------------------------------
(* FlattenSeq, the concatenation of a sequence of sequences. *)

Flattening(ss) ==
  LET flatten[i \in 1..Len(ss)] == IF i = 1 THEN ss[i] ELSE flatten[i - 1] \o ss[i]
  IN flatten

FlattensUpTo(f, ss) ==
  f = [i \in 1..Len(ss) |-> IF i = 1 THEN ss[i] ELSE f[i - 1] \o ss[i]]

LEMMA FlatteningExists ==
  ASSUME NEW A, NEW ss \in Seq(Seq(A))
  PROVE  FlattensUpTo(Flattening(ss), ss)
<1> DEFINE G == [p \in Nat \X Seq(A) |->
                   IF p[1] \in 1..Len(ss)
                   THEN IF p[1] = 1 THEN ss[1] ELSE p[2] \o ss[p[1]]
                   ELSE p[2]]
           e == <<>>
           m == Len(ss)
<1>1. e \in Seq(A)
  BY EmptySeq
<1>2. G \in [Nat \X Seq(A) -> Seq(A)]
  <2>1. ASSUME NEW p \in Nat \X Seq(A) PROVE G[p] \in Seq(A)
    <3>1. CASE p[1] \in 1..Len(ss)
      <4>1. ss[p[1]] \in Seq(A) /\ (p[1] = 1 => ss[1] \in Seq(A))
        BY <3>1, ElementOfSeq
      <4>2. p[2] \o ss[p[1]] \in Seq(A)
        BY <4>1, ConcatProperties
      <4> QED BY <3>1, <4>1, <4>2
    <3>2. CASE p[1] \notin 1..Len(ss)
      BY <3>2
    <3> QED BY <3>1, <3>2
  <2> QED BY <2>1
<1>3. m \in Nat
  OBVIOUS
<1>4. PICK g \in [0..m -> Seq(A)] : Recurrence(e, G, m, g)
  <2> HIDE DEF G, e, m
  <2> QED BY <1>1, <1>2, <1>3, Recursion
<1> DEFINE h == [i \in 1..m |-> g[i]]
<1>5. \A i \in 1..m : h[i] = IF i = 1 THEN ss[i] ELSE h[i - 1] \o ss[i]
  <2> SUFFICES ASSUME NEW i \in 1..m
               PROVE  h[i] = IF i = 1 THEN ss[i] ELSE h[i - 1] \o ss[i]
    OBVIOUS
  <2>1. <<i, g[i - 1]>> \in Nat \X Seq(A)
    <3>1. i - 1 \in 0..m /\ i \in Nat
      BY <1>3
    <3> QED BY <3>1
  <2>2. g[i] = G[<<i, g[i - 1]>>]
    BY <1>4 DEF Recurrence
  <2>3. g[i] = IF i = 1 THEN ss[1] ELSE g[i - 1] \o ss[i]
    BY <2>1, <2>2
  <2>4. i # 1 => i - 1 \in 1..m
    OBVIOUS
  <2> QED BY <2>3, <2>4
<1>6. FlattensUpTo(h, ss)
  BY <1>5, Zenon DEF FlattensUpTo
<1>7. Flattening(ss) = CHOOSE f : FlattensUpTo(f, ss)
  BY DEF Flattening, FlattensUpTo
<1> QED BY <1>6, <1>7

LEMMA FlattenSeqIsLast ==
  ASSUME NEW ss, Len(ss) # 0
  PROVE  FlattenSeq(ss) = Flattening(ss)[Len(ss)]
BY DEF FlattenSeq, Flattening

LEMMA FlatteningSteps ==
  ASSUME NEW A, NEW ss \in Seq(Seq(A)), NEW i \in 1..Len(ss)
  PROVE  Flattening(ss)[i] = IF i = 1 THEN ss[1] ELSE Flattening(ss)[i - 1] \o ss[i]
<1> DEFINE f == Flattening(ss)
<1>1. f = [j \in 1..Len(ss) |-> IF j = 1 THEN ss[j] ELSE f[j - 1] \o ss[j]]
  BY FlatteningExists DEF FlattensUpTo
<1> HIDE DEF f
<1>2. f[i] = IF i = 1 THEN ss[1] ELSE f[i - 1] \o ss[i]
  BY <1>1, Zenon
<1> QED BY <1>2 DEF f

LEMMA FlatteningOfPrefix ==
  ASSUME NEW A, NEW ss \in Seq(Seq(A)), NEW s \in Seq(A)
  PROVE  \A i \in 1..Len(ss) : Flattening(Append(ss, s))[i] = Flattening(ss)[i]
<1> DEFINE u == Append(ss, s)
           T == {i \in Nat : i \in 1..Len(ss) => Flattening(u)[i] = Flattening(ss)[i]}
<1>1. u \in Seq(Seq(A)) /\ Len(ss) \in Nat /\ Len(u) = Len(ss) + 1
      /\ \A i \in 1..Len(ss) : u[i] = ss[i]
  OBVIOUS
<1> HIDE DEF u
<1>2. 0 \in T
  OBVIOUS
<1>3. ASSUME NEW n \in Nat, n \in T PROVE n + 1 \in T
  <2>1. SUFFICES ASSUME n + 1 \in 1..Len(ss)
                 PROVE  Flattening(u)[n + 1] = Flattening(ss)[n + 1]
    OBVIOUS
  <2>2. n + 1 \in 1..Len(u) /\ (n + 1) - 1 = n /\ (n + 1 # 1 => n \in 1..Len(ss))
        /\ (n + 1 = 1 => 1 \in 1..Len(ss))
    BY <1>1, <2>1
  <2>3. /\ Flattening(u)[n + 1] = IF n + 1 = 1 THEN u[1] ELSE Flattening(u)[n] \o u[n + 1]
        /\ Flattening(ss)[n + 1] = IF n + 1 = 1 THEN ss[1] ELSE Flattening(ss)[n] \o ss[n + 1]
    BY <1>1, <2>1, <2>2, FlatteningSteps
  <2>4. u[n + 1] = ss[n + 1] /\ (n + 1 = 1 => u[1] = ss[1])
    BY <1>1, <2>1, <2>2
  <2>5. n + 1 # 1 => Flattening(u)[n] = Flattening(ss)[n]
    BY <1>3, <2>2
  <2> QED BY <2>3, <2>4, <2>5
<1> HIDE DEF T
<1>4. Nat \subseteq T
  BY <1>2, <1>3, InductionOnSet
<1> QED BY <1>1, <1>4 DEF T, u

LEMMA FlattenSeqOfAppend ==
  ASSUME NEW A, NEW ss \in Seq(Seq(A)), NEW s \in Seq(A)
  PROVE  FlattenSeq(Append(ss, s)) = FlattenSeq(ss) \o s
<1> DEFINE u == Append(ss, s)
<1>1. u \in Seq(Seq(A)) /\ Len(ss) \in Nat /\ Len(u) = Len(ss) + 1 /\ u[Len(u)] = s
      /\ Len(u) # 0 /\ Len(u) \in 1..Len(u) /\ Len(u) - 1 = Len(ss)
  OBVIOUS
<1> HIDE DEF u
<1>2. FlattenSeq(u) = IF Len(u) = 1 THEN u[1] ELSE Flattening(u)[Len(ss)] \o s
  BY <1>1, FlattenSeqIsLast, FlatteningSteps
<1>3. CASE Len(ss) = 0
  <2>1. ss = <<>> /\ FlattenSeq(ss) = <<>>
    BY <1>3, EmptySeq DEF FlattenSeq
  <2>2. <<>> \o s = s
    BY ConcatEmptySeq
  <2> QED BY <1>1, <1>2, <1>3, <2>1, <2>2 DEF u
<1>4. CASE Len(ss) # 0
  <2>1. Flattening(u)[Len(ss)] = Flattening(ss)[Len(ss)]
    BY <1>1, <1>4, FlatteningOfPrefix DEF u
  <2>2. FlattenSeq(ss) = Flattening(ss)[Len(ss)]
    BY <1>4, FlattenSeqIsLast
  <2> QED BY <1>1, <1>2, <1>4, <2>1, <2>2 DEF u
<1> QED BY <1>3, <1>4

LEMMA FlattenSeqOfOne ==
  ASSUME NEW A, NEW s \in Seq(A)
  PROVE  FlattenSeq(<<s>>) = s
<1>1. <<>> \in Seq(Seq(A)) /\ <<s>> = Append(<<>>, s) /\ FlattenSeq(<<>>) = <<>>
  BY EmptySeq DEF FlattenSeq
<1>2. FlattenSeq(<<s>>) = <<>> \o s
  BY <1>1, FlattenSeqOfAppend
<1> QED BY <1>2, ConcatEmptySeq

LEMMA FlattenSeqType ==
  ASSUME NEW A, NEW ss \in Seq(Seq(A))
  PROVE  FlattenSeq(ss) \in Seq(A)
<1> DEFINE T == {x \in Seq(Seq(A)) : FlattenSeq(x) \in Seq(A)}
<1>1. <<>> \in T
  BY EmptySeq DEF FlattenSeq
<1>2. ASSUME NEW x \in Seq(Seq(A)), NEW s \in Seq(A), x \in T PROVE Append(x, s) \in T
  <2>1. FlattenSeq(x) \o s \in Seq(A)
    BY <1>2, ConcatProperties
  <2>2. FlattenSeq(Append(x, s)) = FlattenSeq(x) \o s /\ Append(x, s) \in Seq(Seq(A))
    BY FlattenSeqOfAppend
  <2> QED BY <2>1, <2>2
<1> HIDE DEF T
<1>3. ss \in T
  BY <1>1, <1>2, SequenceInduction
<1> QED BY <1>3 DEF T

(* A text without form feeds reads the same in findPage. *)
LEMMA NormalizedWords ==
  ASSUME NEW w \in Seq(Tokens)
  PROVE  normalizeForMatch(w) = w
BY SplitPagesOfWords, FlattenSeqOfOne DEF normalizeForMatch

(* The text of a document splits into its pages and what is after the last *)
(* form feed.                                                              *)
LEMMA SplitPagesWithBreaks ==
  ASSUME NEW pages \in Seq(Seq(Tokens))
  PROVE  /\ PagesWithBreaks(pages) \in Texts
         /\ SplitPages(PagesWithBreaks(pages)) = Append(pages, <<>>)
<1> DEFINE T == {ps \in Seq(Seq(Tokens)) :
                   /\ PagesWithBreaks(ps) \in Texts
                   /\ SplitPages(PagesWithBreaks(ps)) = Append(ps, <<>>)}
<1>1. <<>> \in T
  <2>1. [i \in DOMAIN <<>> |-> Append(<<>>[i], FF)] = <<>>
    OBVIOUS
  <2>2. PagesWithBreaks(<<>>) = <<>>
    BY <2>1 DEF PagesWithBreaks, FlattenSeq
  <2>3. <<>> \in Texts /\ Append(<<>>, <<>>) = << <<>> >> /\ <<>> \in Seq(Seq(Tokens))
    BY EmptySeq DEF Texts
  <2> QED BY <2>2, <2>3, SplitPagesOfEmpty
<1>2. ASSUME NEW ps \in Seq(Seq(Tokens)), NEW p \in Seq(Tokens), ps \in T
      PROVE  Append(ps, p) \in T
  <2> DEFINE t == PagesWithBreaks(ps)
             broken(s) == [i \in DOMAIN s |-> Append(s[i], FF)]
  <2>1. t \in Texts /\ SplitPages(t) = Append(ps, <<>>)
    BY <1>2
  <2>2. p \in Texts /\ Append(p, FF) \in Texts
    BY DEF Texts
  <2>3. broken(ps) \in Seq(Texts)
    <3>1. \A i \in DOMAIN ps : Append(ps[i], FF) \in Texts
      <4> SUFFICES ASSUME NEW i \in DOMAIN ps PROVE Append(ps[i], FF) \in Texts
        OBVIOUS
      <4>1. ps[i] \in Seq(Tokens)
        BY ElementOfSeq
      <4> QED BY <4>1 DEF Texts
    <3>2. DOMAIN ps = 1..Len(ps) /\ Len(ps) \in Nat
      BY LenProperties
    <3> QED BY <3>1, <3>2, IsASeq
  <2>4. broken(Append(ps, p)) = Append(broken(ps), Append(p, FF))
    <3>1. /\ DOMAIN ps = 1..Len(ps) /\ Len(ps) \in Nat /\ Len(Append(ps, p)) = Len(ps) + 1
          /\ DOMAIN Append(ps, p) = 1..(Len(ps) + 1)
          /\ \A i \in 1..(Len(ps) + 1) : Append(ps, p)[i] = IF i <= Len(ps) THEN ps[i] ELSE p
      <4>1. Append(ps, p) \in Seq(Seq(Tokens)) /\ Len(Append(ps, p)) = Len(ps) + 1
        BY AppendProperties
      <4>2. DOMAIN ps = 1..Len(ps) /\ Len(ps) \in Nat
        BY LenProperties
      <4>3. DOMAIN Append(ps, p) = 1..(Len(ps) + 1)
        BY <4>1, LenProperties
      <4>4. /\ \A i \in 1..Len(ps) : Append(ps, p)[i] = ps[i]
            /\ Append(ps, p)[Len(ps) + 1] = p
        BY AppendProperties
      <4>5. \A i \in 1..(Len(ps) + 1) : i \in 1..Len(ps) \/ (i = Len(ps) + 1 /\ ~(i <= Len(ps)))
        BY <4>2
      <4>6. \A i \in 1..Len(ps) : i <= Len(ps)
        BY <4>2
      <4> QED BY <4>1, <4>2, <4>3, <4>4, <4>5, <4>6
    <3>7. DOMAIN broken(ps) = 1..Len(ps)
      BY <3>1
    <3>2. Len(broken(ps)) = Len(ps)
      <4> HIDE DEF broken
      <4> QED BY <2>3, <3>1, <3>7, LenProperties
    <3>3. /\ DOMAIN Append(broken(ps), Append(p, FF)) = 1..(Len(ps) + 1)
          /\ \A i \in 1..(Len(ps) + 1) : Append(broken(ps), Append(p, FF))[i] =
               IF i <= Len(ps) THEN broken(ps)[i] ELSE Append(p, FF)
      <4> HIDE DEF broken
      <4> QED BY <2>2, <2>3, <3>1, <3>2, AppendProperties, LenProperties
    <3>4. broken(Append(ps, p)) = [i \in 1..(Len(ps) + 1) |-> Append(Append(ps, p)[i], FF)]
      BY <3>1
    <3>5. Append(broken(ps), Append(p, FF)) =
            [i \in 1..(Len(ps) + 1) |-> IF i <= Len(ps) THEN broken(ps)[i] ELSE Append(p, FF)]
      BY <3>3
    <3>6. \A i \in 1..(Len(ps) + 1) : Append(Append(ps, p)[i], FF) =
            IF i <= Len(ps) THEN broken(ps)[i] ELSE Append(p, FF)
      BY <3>1
    <3> QED BY <3>4, <3>5, <3>6
  <2>5. PagesWithBreaks(Append(ps, p)) = t \o Append(p, FF)
    <3> HIDE DEF broken
    <3>1. FlattenSeq(Append(broken(ps), Append(p, FF))) = FlattenSeq(broken(ps)) \o Append(p, FF)
      BY <2>2, <2>3, FlattenSeqOfAppend DEF Texts
    <3> QED BY <2>4, <3>1 DEF PagesWithBreaks, broken
  <2>6. t \o Append(p, FF) = Append(t \o p, FF)
    BY <2>1, <2>2, ConcatAppend DEF Texts
  <2> HIDE DEF t
  <2>7. t \o p \in Texts /\ Append(t \o p, FF) \in Texts
    BY <2>1, <2>2 DEF Texts
  <2>8. SplitPages(Append(t \o p, FF)) = Append(SplitPages(t \o p), <<>>)
    BY <2>7, SplitPagesOfAppend DEF SplitStep
  <2>9. SplitPages(t \o p) = Append(ps, p)
    <3>1. <<>> \in Seq(Tokens) /\ <<>> \o p = p
      BY EmptySeq, ConcatEmptySeq
    <3>2. SplitPages(t \o p) = Append(ps, <<>> \o p)
      BY <2>1, <3>1, LastPageGrows
    <3> QED BY <3>1, <3>2
  <2>10. Append(ps, p) \in Seq(Seq(Tokens))
    OBVIOUS
  <2> QED BY <2>5, <2>6, <2>7, <2>8, <2>9, <2>10
<1> HIDE DEF T
<1>3. pages \in T
  BY <1>1, <1>2, SequenceInduction
<1> QED BY <1>3 DEF T

-----------------------------------------------------------------------------
(* Passages, and the page on which one is found. *)

(* The beginning of a passage stands where the passage was cut. *)
LEMMA PassageIsWithin ==
  ASSUME NEW s \in Seq(Tokens), NEW r \in Runs(s)
  PROVE  /\ r \in Seq(Tokens) /\ r # <<>>
         /\ Prefix(r) \in Seq(Tokens) /\ Prefix(r) # <<>>
         /\ Within(Prefix(r), s)
<1>1. PICK i \in 1..Len(s), j \in 1..Len(s) : r = SubSeq(s, i, j) /\ r # <<>>
  BY DEF Runs
<1>2. Len(s) \in Nat /\ i \in Int /\ j \in Int /\ PrefixLen \in Nat \ {0}
  BY BoundsAssumption
<1>3. i <= j
  BY <1>1, <1>2, SubSeqEmpty
<1>4. \A k \in i..j : s[k] \in Tokens
  <2> SUFFICES ASSUME NEW k \in i..j PROVE s[k] \in Tokens
    OBVIOUS
  <2>1. k \in 1..Len(s)
    BY <1>2
  <2> QED BY <2>1, ElementOfSeq
<1>5. r \in Seq(Tokens) /\ Len(r) = j - i + 1
  BY <1>1, <1>2, <1>3, <1>4, SubSeqProperties
<1> DEFINE n == IF j - i + 1 > PrefixLen THEN PrefixLen ELSE j - i + 1
<1>6. n \in 1..(j - i + 1) /\ i + n - 1 \in i..Len(s)
  BY <1>2, <1>3
<1>7. Prefix(r) = SubSeq(s, i, i + n - 1)
  <2>1. CASE j - i + 1 > PrefixLen
    <3>1. 1 \in 1..(j - i + 1) /\ PrefixLen \in 1..(j - i + 1) /\ i + 1 - 1 = i
      BY <1>2, <1>3, <2>1
    <3>2. SubSeq(SubSeq(s, i, j), 1, PrefixLen) = SubSeq(s, i + 1 - 1, i + PrefixLen - 1)
      BY <1>1, <1>5, <3>1, SubSeqOfSubSeq
    <3> QED BY <1>1, <1>5, <2>1, <3>1, <3>2 DEF Prefix
  <2>2. CASE ~(j - i + 1 > PrefixLen)
    <3>1. i + n - 1 = j
      BY <1>2, <2>2
    <3> QED BY <1>1, <1>5, <2>2, <3>1 DEF Prefix
  <2> QED BY <2>1, <2>2
<1> HIDE DEF n
<1>8. \A k \in i..(i + n - 1) : s[k] \in Tokens
  <2> SUFFICES ASSUME NEW k \in i..(i + n - 1) PROVE s[k] \in Tokens
    OBVIOUS
  <2>1. k \in 1..Len(s)
    BY <1>2, <1>6
  <2> QED BY <2>1, ElementOfSeq
<1>9. Prefix(r) \in Seq(Tokens) /\ Len(Prefix(r)) = n
  <2>1. i + n - 1 \in Int /\ i <= i + n - 1 /\ (i + n - 1) - i + 1 = n
    BY <1>2, <1>6
  <2> QED BY <1>2, <1>7, <1>8, <2>1, SubSeqProperties
<1>10. Prefix(r) # <<>>
  BY <1>6, <1>9, EmptySeq
<1>11. Within(Prefix(r), s)
  <2>1. i - 1 \in 0..Len(s) /\ (i - 1) + n <= Len(s)
        /\ (i - 1) + 1 = i /\ (i - 1) + n = i + n - 1
    BY <1>2, <1>6
  <2>2. SubSeq(s, (i - 1) + 1, (i - 1) + Len(Prefix(r))) = Prefix(r)
    BY <1>7, <1>9, <2>1
  <2> QED BY <1>9, <2>1, <2>2 DEF Within
<1> QED BY <1>1, <1>5, <1>9, <1>10, <1>11

LEMMA NothingWithinEmpty ==
  ASSUME NEW r \in Seq(Tokens), Within(r, <<>>)
  PROVE  r = <<>>
<1>1. Len(<<>>) = 0
  OBVIOUS
<1>2. PICK i \in 0..0 : i + Len(r) <= 0
  BY <1>1 DEF Within
<1>3. Len(r) = 0
  BY <1>2, LenProperties
<1> QED BY <1>3, EmptySeq

(* findPage names a page that holds the needle, when one does. *)
LEMMA FoundPage ==
  ASSUME NEW pages \in Seq(Seq(Tokens)), NEW needle \in Seq(Tokens)
  PROVE  /\ findPage(pages, needle) # 0 =>
              /\ findPage(pages, needle) \in DOMAIN pages
              /\ Within(needle, pages[findPage(pages, needle)])
         /\ needle # <<>> /\ (\E i \in DOMAIN pages : Within(needle, pages[i])) =>
              findPage(pages, needle) # 0
<1> DEFINE hits == {i \in DOMAIN pages : Within(needle, normalizeForMatch(pages[i]))}
           first == CHOOSE i \in hits : \A j \in hits : i <= j
<1>1. \A i \in DOMAIN pages : normalizeForMatch(pages[i]) = pages[i]
  BY ElementOfSeq, NormalizedWords
<1>2. hits = {i \in DOMAIN pages : Within(needle, pages[i])}
  BY <1>1
<1>3. findPage(pages, needle) = IF needle = <<>> \/ hits = {} THEN 0 ELSE first
  BY DEF findPage
<1>4. hits \in SUBSET Nat /\ 0 \notin hits
  OBVIOUS
<1>5. hits # {} => first \in hits
  <2> SUFFICES ASSUME hits # {} PROVE first \in hits
    OBVIOUS
  <2> HIDE DEF hits
  <2>1. \E i \in hits : \A j \in hits : i <= j
    BY <1>4, LeastNatural
  <2> QED BY <2>1
<1> HIDE DEF first, hits
<1> QED BY <1>2, <1>3, <1>4, <1>5

-----------------------------------------------------------------------------
(* Texts without their mark-up. *)

LEMMA PlainOfEmpty ==
  Plain(<<>>) = <<>>
<1>1. [i \in DOMAIN <<>> |-> IF <<>>[i] \in Words THEN << <<>>[i] >> ELSE <<>>] = <<>>
  OBVIOUS
<1> QED BY <1>1 DEF Plain, FlattenSeq

LEMMA PlainOfAppend ==
  ASSUME NEW t \in Seq(Tokens), NEW e \in Tokens
  PROVE  Plain(Append(t, e)) = Plain(t) \o (IF e \in Words THEN <<e>> ELSE <<>>)
<1> DEFINE word(x) == IF x \in Words THEN <<x>> ELSE <<>>
           words(s) == [i \in DOMAIN s |-> word(s[i])]
<1>1. ASSUME NEW x \in Tokens PROVE word(x) \in Seq(Tokens)
  BY <1>1, EmptySeq
<1>2. DOMAIN t = 1..Len(t) /\ Len(t) \in Nat
  BY LenProperties
<1>3. words(t) \in Seq(Seq(Tokens))
  <2>1. \A i \in 1..Len(t) : word(t[i]) \in Seq(Tokens)
    BY <1>1, ElementOfSeq
  <2> HIDE DEF word
  <2> QED BY <1>2, <2>1, IsASeq
<1>4. words(Append(t, e)) = Append(words(t), word(e))
  <2> HIDE DEF word
  <2>1. /\ DOMAIN Append(t, e) = 1..(Len(t) + 1)
        /\ \A i \in 1..Len(t) : Append(t, e)[i] = t[i]
        /\ Append(t, e)[Len(t) + 1] = e
    BY <1>2
  <2>2. words(t) = [i \in 1..Len(t) |-> word(t[i])]
    BY <1>2
  <2>3. words(Append(t, e)) = [i \in 1..(Len(t) + 1) |-> word(Append(t, e)[i])]
    BY <2>1
  <2>4. Len(words(t)) = Len(t)
    BY <1>2, <2>2
  <2>5. Append(words(t), word(e)) =
          [i \in 1..(Len(t) + 1) |-> IF i = Len(t) + 1 THEN word(e) ELSE words(t)[i]]
    BY <1>2, <2>4
  <2>6. \A i \in 1..(Len(t) + 1) : word(Append(t, e)[i]) =
          IF i = Len(t) + 1 THEN word(e) ELSE words(t)[i]
    BY <1>2, <2>1, <2>2
  <2> QED BY <2>3, <2>5, <2>6
<1>5. FlattenSeq(Append(words(t), word(e))) = FlattenSeq(words(t)) \o word(e)
  <2>1. word(e) \in Seq(Tokens)
    BY <1>1
  <2> HIDE DEF word, words
  <2> QED BY <1>3, <2>1, FlattenSeqOfAppend
<1> HIDE DEF words
<1>6. Plain(Append(t, e)) = FlattenSeq(words(Append(t, e))) /\ Plain(t) = FlattenSeq(words(t))
  BY DEF Plain, words
<1> QED BY <1>4, <1>5, <1>6

LEMMA PlainType ==
  ASSUME NEW t \in Seq(Tokens)
  PROVE  Plain(t) \in Seq(Tokens)
<1> DEFINE T == {x \in Seq(Tokens) : Plain(x) \in Seq(Tokens)}
<1>1. <<>> \in T
  BY PlainOfEmpty, EmptySeq
<1>2. ASSUME NEW x \in Seq(Tokens), NEW e \in Tokens, x \in T PROVE Append(x, e) \in T
  <2>1. (IF e \in Words THEN <<e>> ELSE <<>>) \in Seq(Tokens)
    BY EmptySeq
  <2> DEFINE more == IF e \in Words THEN <<e>> ELSE <<>>
             p == Plain(x)
  <2>2. p \in Seq(Tokens) /\ more \in Seq(Tokens)
    BY <1>2, <2>1
  <2>3. Plain(Append(x, e)) = p \o more
    BY <1>2, PlainOfAppend, Zenon
  <2> HIDE DEF more, p
  <2>4. p \o more \in Seq(Tokens)
    BY <2>2, ConcatProperties
  <2>5. Plain(Append(x, e)) \in Seq(Tokens)
    BY <2>3, <2>4
  <2> QED BY <2>5
<1> HIDE DEF T
<1>3. t \in T
  BY <1>1, <1>2, SequenceInduction
<1> QED BY <1>3 DEF T

(* Words are their own text. *)
LEMMA PlainOfWords ==
  ASSUME NEW t \in Seq(Tokens), NEW r \in Seq(Words)
  PROVE  Plain(t \o r) = Plain(t) \o r
<1> DEFINE T == {x \in Seq(Words) : Plain(t \o x) = Plain(t) \o x}
<1>1. <<>> \in T
  <2>1. t \o <<>> = t /\ Plain(t) \o <<>> = Plain(t)
    BY PlainType, ConcatEmptySeq
  <2>2. <<>> \in Seq(Words)
    BY EmptySeq
  <2> QED BY <2>1, <2>2
<1>2. ASSUME NEW x \in Seq(Words), NEW e \in Words, x \in T PROVE Append(x, e) \in T
  <2>1. x \in Seq(Tokens) /\ e \in Tokens /\ t \o x \in Seq(Tokens) /\ Append(x, e) \in Seq(Words)
    BY DEF Tokens
  <2>2. t \o Append(x, e) = Append(t \o x, e)
    BY <2>1, ConcatAppend
  <2>3. Plain(Append(t \o x, e)) = (Plain(t) \o x) \o <<e>>
    BY <1>2, <2>1, PlainOfAppend
  <2> DEFINE p == Plain(t)
  <2>4. p \in Seq(Tokens)
    BY PlainType
  <2> HIDE DEF p
  <2>5. (p \o x) \o <<e>> = p \o Append(x, e)
    <3>1. p \o x \in Seq(Tokens)
      BY <2>1, <2>4
    <3>2. Append(p \o x, e) = (p \o x) \o <<e>>
      BY <2>1, <3>1, AppendIsConcat
    <3>3. p \o Append(x, e) = Append(p \o x, e)
      BY <2>1, <2>4, ConcatAppend
    <3> QED BY <3>2, <3>3
  <2> QED BY <2>1, <2>2, <2>3, <2>5 DEF p
<1> HIDE DEF T
<1>3. r \in T
  BY <1>1, <1>2, SequenceInduction
<1> QED BY <1>3 DEF T

(* What stands in a text still does when the text goes on. *)
LEMMA WithinLonger ==
  ASSUME NEW s \in Seq(Tokens), NEW u \in Seq(Tokens), NEW r \in Seq(Tokens), Within(r, s)
  PROVE  Within(r, s \o u)
<1>1. PICK i \in 0..Len(s) : i + Len(r) <= Len(s) /\ SubSeq(s, i + 1, i + Len(r)) = r
  BY DEF Within
<1>2. /\ Len(s) \in Nat /\ Len(u) \in Nat /\ Len(r) \in Nat /\ i \in Nat
      /\ Len(s \o u) = Len(s) + Len(u) /\ s \o u \in Seq(Tokens)
      /\ \A k \in 1..Len(s) : (s \o u)[k] = s[k]
  BY <1>1, ConcatProperties, LenProperties
<1>3. \A k \in (i + 1)..(i + Len(r)) : k \in 1..Len(s)
  BY <1>1, <1>2
<1>4. SubSeq(s \o u, i + 1, i + Len(r)) = SubSeq(s, i + 1, i + Len(r))
  <2> DEFINE z == s \o u
  <2>1. z \in Seq(Tokens) /\ \A k \in 1..Len(s) : z[k] = s[k]
    BY <1>2
  <2> HIDE DEF z
  <2>2. SubSeq(z, i + 1, i + Len(r)) = SubSeq(s, i + 1, i + Len(r))
    BY <1>2, <1>3, <2>1
  <2> QED BY <2>2 DEF z
<1>5. i \in 0..Len(s \o u) /\ i + Len(r) <= Len(s \o u)
  BY <1>1, <1>2
<1> QED BY <1>1, <1>4, <1>5 DEF Within

LEMMA PlainOfLonger ==
  ASSUME NEW s \in Seq(Tokens), NEW u \in Seq(Tokens), NEW r \in Seq(Words),
         Within(r, Plain(s))
  PROVE  Within(r, Plain(s \o u))
<1> DEFINE T == {x \in Seq(Tokens) : Within(r, Plain(s \o x))}
<1>1. <<>> \in T
  <2>1. s \o <<>> = s /\ <<>> \in Seq(Tokens)
    BY ConcatEmptySeq, EmptySeq
  <2> QED BY <2>1
<1>2. ASSUME NEW x \in Seq(Tokens), NEW e \in Tokens, x \in T PROVE Append(x, e) \in T
  <2>1. s \o Append(x, e) = Append(s \o x, e) /\ s \o x \in Seq(Tokens)
        /\ Append(x, e) \in Seq(Tokens) /\ r \in Seq(Tokens)
    BY ConcatAppend DEF Tokens
  <2> DEFINE more == IF e \in Words THEN <<e>> ELSE <<>>
  <2>2. more \in Seq(Tokens)
    BY EmptySeq
  <2>3. Plain(Append(s \o x, e)) = Plain(s \o x) \o more
    BY <2>1, PlainOfAppend
  <2> HIDE DEF more
  <2>4. Within(r, Plain(s \o x) \o more)
    BY <1>2, <2>1, <2>2, PlainType, WithinLonger
  <2> QED BY <2>1, <2>3, <2>4
<1> HIDE DEF T
<1>3. u \in T
  BY <1>1, <1>2, SequenceInduction
<1> QED BY <1>3 DEF T

(* A stretch of a text that has no mark-up in it is one of the words that  *)
(* were marked up.                                                         *)
LEMMA UnmarkedStretch ==
  ASSUME NEW t \in Seq(Tokens), NEW r \in Seq(Words), Within(r, t)
  PROVE  Within(r, Plain(t))
<1>1. PICK i \in 0..Len(t) : i + Len(r) <= Len(t) /\ SubSeq(t, i + 1, i + Len(r)) = r
  BY DEF Within
<1>2. Len(t) \in Nat /\ Len(r) \in Nat /\ i \in Nat /\ r \in Seq(Tokens)
  BY <1>1, LenProperties DEF Tokens
<1> DEFINE a == SubSeq(t, 1, i)
           b == SubSeq(t, i + Len(r) + 1, Len(t))
<1>3. \A k \in 1..Len(t) : t[k] \in Tokens
  BY ElementOfSeq
<1>4. a \in Seq(Tokens) /\ Len(a) = i /\ \A k \in 1..i : a[k] = t[k]
  BY <1>1, <1>2, <1>3
<1>5. /\ b \in Seq(Tokens) /\ Len(b) = Len(t) - (i + Len(r))
      /\ \A k \in 1..Len(b) : b[k] = t[i + Len(r) + k]
  BY <1>1, <1>2, <1>3
<1>6. \A k \in 1..Len(r) : r[k] = t[i + k]
  <2>1. \A k \in 1..Len(r) : SubSeq(t, i + 1, i + Len(r))[k] = t[i + k]
    BY <1>1, <1>2, <1>3
  <2> QED BY <1>1, <2>1
<1> HIDE DEF a, b
<1>7. t = (a \o r) \o b
  <2> DEFINE z == (a \o r) \o b
  <2>1. a \o r \in Seq(Tokens) /\ Len(a \o r) = i + Len(r)
        /\ \A k \in 1..(i + Len(r)) : (a \o r)[k] = t[k]
    <3>1. a \o r \in Seq(Tokens) /\ Len(a \o r) = i + Len(r)
          /\ \A k \in 1..(i + Len(r)) :
               (a \o r)[k] = IF k <= i THEN a[k] ELSE r[k - i]
      BY <1>2, <1>4, ConcatProperties
    <3>2. ASSUME NEW k \in 1..(i + Len(r)) PROVE (a \o r)[k] = t[k]
      <4>1. CASE k <= i
        <5>1. k \in 1..i
          BY <1>2, <4>1
        <5> QED BY <1>4, <3>1, <4>1, <5>1
      <4>2. CASE ~(k <= i)
        <5>1. k - i \in 1..Len(r) /\ i + (k - i) = k
          BY <1>2, <4>2
        <5>2. r[k - i] = t[k]
          BY <1>6, <5>1
        <5> QED BY <3>1, <4>2, <5>2
      <4> QED BY <4>1, <4>2
    <3> QED BY <3>1, <3>2
  <2>2. z \in Seq(Tokens) /\ Len(z) = Len(t) /\ \A k \in 1..Len(t) : z[k] = t[k]
    <3> DEFINE y == a \o r
    <3>1. y \in Seq(Tokens) /\ Len(y) = i + Len(r) /\ \A k \in 1..(i + Len(r)) : y[k] = t[k]
      BY <2>1
    <3> HIDE DEF y
    <3>2. y \o b \in Seq(Tokens) /\ Len(y \o b) = Len(t) /\ \A k \in 1..Len(t) : (y \o b)[k] = t[k]
      <4>1. y \o b \in Seq(Tokens) /\ Len(y \o b) = Len(y) + Len(b)
            /\ \A k \in 1..(Len(y) + Len(b)) :
                 (y \o b)[k] = IF k <= Len(y) THEN y[k] ELSE b[k - Len(y)]
        <5>1. y \in Seq(Tokens) /\ b \in Seq(Tokens)
          BY <1>5, <3>1
        <5> QED BY <5>1, ConcatProperties, Zenon
      <4> DEFINE n == i + Len(r)
      <4>2. n \in Nat /\ Len(y) = n /\ n + Len(b) = Len(t) /\ Len(b) \in Nat
        BY <1>1, <1>2, <1>5, <3>1
      <4>3. \A k \in 1..Len(b) : b[k] = t[n + k]
        BY <1>5
      <4>4. \A k \in 1..n : y[k] = t[k]
        BY <3>1
      <4> HIDE DEF n
      <4>5. ASSUME NEW k \in 1..Len(t) PROVE (y \o b)[k] = t[k]
        <5>1. CASE k <= n
          <6>1. k \in 1..n /\ k \in 1..(Len(y) + Len(b))
            BY <4>2, <5>1
          <6> QED BY <4>1, <4>2, <4>4, <5>1, <6>1
        <5>2. CASE ~(k <= n)
          <6>1. k - n \in 1..Len(b) /\ n + (k - n) = k /\ k \in 1..(Len(y) + Len(b))
            BY <1>2, <4>2, <5>2
          <6>2. b[k - n] = t[k]
            BY <4>3, <6>1
          <6> QED BY <4>1, <4>2, <5>2, <6>1, <6>2
        <5> QED BY <5>1, <5>2
      <4> QED BY <4>1, <4>2, <4>5
    <3> QED BY <3>2 DEF y
  <2> HIDE DEF z
  <2>3. t = z
    BY <2>2, SeqEqual
  <2> QED BY <2>3 DEF z
<1>8. Within(r, Plain(a \o r))
  <2> DEFINE p == Plain(a)
  <2>1. p \in Seq(Tokens)
    BY <1>4, PlainType
  <2> HIDE DEF p
  <2>2. Len(p) \in 0..Len(p \o r) /\ Len(p) + Len(r) <= Len(p \o r)
        /\ SubSeq(p \o r, Len(p) + 1, Len(p) + Len(r)) = r
    <3>1. /\ Len(p) \in Nat /\ Len(p \o r) = Len(p) + Len(r) /\ p \o r \in Seq(Tokens)
          /\ \A k \in 1..Len(r) : (p \o r)[Len(p) + k] = r[k]
      BY <1>2, <2>1, ConcatProperties, LenProperties
    <3> DEFINE z == p \o r
               n == Len(p)
    <3>2. z \in Seq(Tokens) /\ Len(z) = n + Len(r) /\ n \in Nat
          /\ \A k \in 1..Len(r) : z[n + k] = r[k]
      BY <3>1
    <3> HIDE DEF z, n
    <3>3. SubSeq(z, n + 1, n + Len(r)) = r
      <4>1. \A k \in 1..Len(z) : z[k] \in Tokens
        BY <3>2, ElementOfSeq
      <4> DEFINE q == SubSeq(z, n + 1, n + Len(r))
      <4>2. q \in Seq(Tokens) /\ Len(q) = Len(r) /\ \A k \in 1..Len(r) : q[k] = z[n + k]
        BY <1>2, <3>2, <4>1
      <4> HIDE DEF q
      <4>3. q = r
        BY <1>2, <3>2, <4>2, SeqEqual
      <4> QED BY <4>3 DEF q
    <3> QED BY <1>2, <3>1, <3>2, <3>3 DEF z, n
  <2>3. Within(r, p \o r)
    BY <2>2 DEF Within
  <2>4. Plain(a \o r) = p \o r
    BY <1>4, PlainOfWords DEF p
  <2> QED BY <2>3, <2>4
<1>9. a \o r \in Seq(Tokens)
  BY <1>2, <1>4
<1> QED BY <1>5, <1>7, <1>8, <1>9, PlainOfLonger

-----------------------------------------------------------------------------
(* Documents and what is made of them. *)

LEMMA DocumentType ==
  ASSUME NEW d \in Documents
  PROVE  /\ d.format \in {"pdf", "image", "plain"} /\ d.scanned \in BOOLEAN
         /\ d.type \in {"pdf", "image", "other"} /\ d.ext \in {"pdf", "image", "other"}
         /\ d.markdown \in Seq(Seq(Tokens)) /\ Len(d.markdown) \in 1..MaxDocPages
         /\ d.format = "image" => d.scanned /\ Len(d.markdown) = 1
         /\ d.format = "plain" => ~d.scanned /\ Len(d.markdown) = 1
<1> DEFINE MarkedPages == BoundedSeq(Tokens, MaxTokens)
           Upload(format, scanned, n) ==
             [format : {format}, scanned : scanned, type : {"pdf", "image", "other"},
              ext : {"pdf", "image", "other"}, markdown : [1..n -> MarkedPages]]
<1>1. \/ \E n \in 1..MaxDocPages : d \in Upload("pdf", BOOLEAN, n)
      \/ d \in Upload("image", {TRUE}, 1)
      \/ d \in Upload("plain", {FALSE}, 1)
  BY DEF Documents
<1>2. MaxDocPages \in Nat \ {0}
  BY BoundsAssumption
<1>3. MarkedPages \subseteq Seq(Tokens)
  BY DEF BoundedSeq, SeqOf
<1>4. ASSUME NEW n \in Nat, NEW ps \in [1..n -> MarkedPages]
      PROVE  ps \in Seq(Seq(Tokens)) /\ Len(ps) = n
  BY <1>3
<1>one. 1 \in Nat /\ 1 \in 1..MaxDocPages
  BY <1>2
<1>5. CASE \E n \in 1..MaxDocPages : d \in Upload("pdf", BOOLEAN, n)
  <2>1. PICK n \in 1..MaxDocPages : d \in Upload("pdf", BOOLEAN, n)
    BY <1>5
  <2>2. d.markdown \in [1..n -> MarkedPages] /\ d.format = "pdf" /\ d.scanned \in BOOLEAN
        /\ d.type \in {"pdf", "image", "other"} /\ d.ext \in {"pdf", "image", "other"}
    BY <2>1
  <2> QED BY <1>2, <1>4, <2>2
<1>6. CASE d \in Upload("image", {TRUE}, 1)
  <2>1. d.markdown \in [1..1 -> MarkedPages] /\ d.format = "image" /\ d.scanned = TRUE
        /\ d.type \in {"pdf", "image", "other"} /\ d.ext \in {"pdf", "image", "other"}
    BY <1>6
  <2>2. d.markdown \in Seq(Seq(Tokens)) /\ Len(d.markdown) = 1 /\ Len(d.markdown) \in 1..MaxDocPages
    <3> DEFINE n == 1
    <3>1. n \in Nat /\ n \in 1..MaxDocPages /\ d.markdown \in [1..n -> MarkedPages]
      BY <1>one, <2>1
    <3> HIDE DEF n
    <3>2. d.markdown \in Seq(Seq(Tokens)) /\ Len(d.markdown) = n
      BY <1>4, <3>1
    <3> QED BY <3>1, <3>2 DEF n
  <2>3. d.scanned /\ d.scanned \in BOOLEAN
    BY <2>1, Zenon
  <2> QED BY <2>1, <2>2, <2>3
<1>7. CASE d \in Upload("plain", {FALSE}, 1)
  <2>1. d.markdown \in [1..1 -> MarkedPages] /\ d.format = "plain" /\ d.scanned = FALSE
        /\ d.type \in {"pdf", "image", "other"} /\ d.ext \in {"pdf", "image", "other"}
    BY <1>7
  <2>2. d.markdown \in Seq(Seq(Tokens)) /\ Len(d.markdown) = 1 /\ Len(d.markdown) \in 1..MaxDocPages
    <3> DEFINE n == 1
    <3>1. n \in Nat /\ n \in 1..MaxDocPages /\ d.markdown \in [1..n -> MarkedPages]
      BY <1>one, <2>1
    <3> HIDE DEF n
    <3>2. d.markdown \in Seq(Seq(Tokens)) /\ Len(d.markdown) = n
      BY <1>4, <3>1
    <3> QED BY <3>1, <3>2 DEF n
  <2>3. ~d.scanned /\ d.scanned \in BOOLEAN
    BY <2>1, Zenon
  <2> QED BY <2>1, <2>2, <2>3
<1> QED BY <1>1, <1>5, <1>6, <1>7

LEMMA OriginalPages ==
  ASSUME doc \in Documents
  PROVE  /\ docPages \in Seq(Seq(Tokens)) /\ Len(docPages) \in 1..MaxDocPages
         /\ DOMAIN docPages = DOMAIN doc.markdown /\ Len(docPages) = Len(doc.markdown)
         /\ \A i \in DOMAIN docPages : docPages[i] = Plain(doc.markdown[i])
<1>1. doc.markdown \in Seq(Seq(Tokens)) /\ Len(doc.markdown) \in 1..MaxDocPages
  BY DocumentType
<1>2. DOMAIN doc.markdown = 1..Len(doc.markdown) /\ Len(doc.markdown) \in Nat
  BY <1>1, LenProperties
<1>3. \A i \in 1..Len(doc.markdown) : Plain(doc.markdown[i]) \in Seq(Tokens)
  BY <1>1, ElementOfSeq, PlainType
<1>4. docPages = [i \in 1..Len(doc.markdown) |-> Plain(doc.markdown[i])]
  BY <1>2 DEF docPages
<1>5. docPages \in Seq(Seq(Tokens))
  BY <1>2, <1>3, <1>4, IsASeq
<1>6. DOMAIN docPages = 1..Len(doc.markdown) /\ Len(docPages) = Len(doc.markdown)
  BY <1>2, <1>4
<1> QED BY <1>1, <1>2, <1>4, <1>5, <1>6

LEMMA RasterizedType ==
  ASSUME doc \in Documents
  PROVE  /\ Len(Rasterized) \in 1..Len(docPages)
         /\ \A i \in 1..Len(Rasterized) : Rasterized[i] = docPages[i]
<1>1. docPages \in Seq(Seq(Tokens)) /\ Len(docPages) \in Nat \ {0} /\ MaxPages \in Nat
  BY OriginalPages, BoundsAssumption
<1>2. ASSUME NEW n \in 1..Len(docPages)
      PROVE  /\ Len(SubSeq(docPages, 1, n)) = n
             /\ \A i \in 1..n : SubSeq(docPages, 1, n)[i] = docPages[i]
  BY <1>1
<1>3. CASE Rasterized = docPages
  BY <1>1, <1>3
<1>4. CASE Rasterized # docPages
  <2>1. PICK n \in 1..Len(docPages) : Rasterized = SubSeq(docPages, 1, n)
    BY <1>1, <1>4 DEF Rasterized
  <2> QED BY <1>2, <2>1
<1> QED BY <1>3, <1>4

(* A page is transcribed as its Markdown, or as nothing. *)
LEMMA TranscriptOfPage ==
  ASSUME doc \in Documents, NEW i \in 1..Len(Rasterized)
  PROVE  /\ Transcript(i) \in Seq(Tokens)
         /\ i \in DOMAIN doc.markdown /\ Transcript(i) \in {<<>>, doc.markdown[i]}
<1>1. i \in DOMAIN doc.markdown
  <2>1. Len(Rasterized) \in 1..Len(docPages) /\ Len(docPages) \in Nat
    BY RasterizedType, OriginalPages
  <2>2. i \in 1..Len(docPages)
    BY <2>1
  <2>3. DOMAIN docPages = 1..Len(docPages) /\ DOMAIN docPages = DOMAIN doc.markdown
    BY OriginalPages, LenProperties
  <2> QED BY <2>2, <2>3
<1>2. doc.markdown[i] \in Seq(Tokens)
  BY <1>1, DocumentType, ElementOfSeq
<1>3. <<>> \in Seq(Tokens)
  BY EmptySeq
<1> QED BY <1>1, <1>2, <1>3 DEF Transcript

(* What addReferences reads of a document are its pages, or blank ones. *)
LEMMA ExtractedPages ==
  ASSUME doc \in Documents
  PROVE  /\ ExtractPages \in Seq(Seq(Tokens))
         /\ \A i \in DOMAIN ExtractPages :
              ExtractPages[i] = <<>> \/ (i \in DOMAIN docPages /\ ExtractPages[i] = docPages[i])
         /\ doc.format = "pdf" /\ ~doc.scanned => ExtractPages = docPages
<1>1. /\ docPages \in Seq(Seq(Tokens)) /\ Len(docPages) \in Nat \ {0}
      /\ doc.scanned \in BOOLEAN /\ <<>> \in Seq(Tokens)
  BY OriginalPages, DocumentType, BoundsAssumption, EmptySeq
<1>2. CASE ~isPDF
  <2>1. docPages[1] \in Seq(Tokens) /\ 1 \in DOMAIN docPages
    BY <1>1, ElementOfSeq
  <2>2. ExtractPages \in {<< <<>> >>, <<docPages[1]>>}
    BY <1>2 DEF ExtractPages
  <2>3. doc.format # "pdf"
    BY <1>2 DEF isPDF
  <2>4. ExtractPages \in Seq(Seq(Tokens)) /\ DOMAIN ExtractPages = {1}
        /\ ExtractPages[1] \in {<<>>, docPages[1]}
    <3> DEFINE one == docPages[1]
    <3>1. one \in Seq(Tokens)
      BY <2>1
    <3> HIDE DEF one
    <3>2. <<one>> \in Seq(Seq(Tokens)) /\ DOMAIN <<one>> = {1} /\ <<one>>[1] = one
      BY <3>1
    <3>3. << <<>> >> \in Seq(Seq(Tokens)) /\ DOMAIN << <<>> >> = {1} /\ << <<>> >>[1] = <<>>
      BY <1>1
    <3>4. ExtractPages \in {<< <<>> >>, <<one>>}
      BY <2>2 DEF one
    <3>5. CASE ExtractPages = <<one>>
      BY <3>2, <3>5 DEF one
    <3>6. CASE ExtractPages = << <<>> >>
      BY <3>3, <3>6
    <3> QED BY <3>4, <3>5, <3>6
  <2> QED BY <2>1, <2>3, <2>4
<1>3. CASE isPDF /\ doc.format # "pdf"
  BY <1>1, <1>3 DEF ExtractPages
<1>4. CASE isPDF /\ doc.format = "pdf"
  <2> DEFINE read == [i \in DOMAIN docPages |-> IF doc.scanned THEN <<>> ELSE docPages[i]]
  <2>1. read \in Seq(Seq(Tokens)) /\ DOMAIN read = DOMAIN docPages
    <3>1. \A i \in 1..Len(docPages) : docPages[i] \in Seq(Tokens)
      BY <1>1, ElementOfSeq
    <3>2. read \in [1..Len(docPages) -> Seq(Tokens)]
      BY <1>1, <3>1
    <3>3. DOMAIN docPages = 1..Len(docPages) /\ Len(docPages) \in Nat
      BY <1>1
    <3>4. DOMAIN read = DOMAIN docPages
      OBVIOUS
    <3> HIDE DEF read
    <3>5. read \in Seq(Seq(Tokens))
      BY <3>2, <3>3
    <3> QED BY <3>4, <3>5
  <2>2. \A i \in DOMAIN read : read[i] \in {<<>>, docPages[i]}
    OBVIOUS
  <2>3. ~doc.scanned => read = docPages
    <3> SUFFICES ASSUME ~doc.scanned PROVE read = docPages
      OBVIOUS
    <3>1. docPages = [i \in DOMAIN docPages |-> docPages[i]]
      BY <1>1
    <3> QED BY <3>1
  <2>4. PdfToText = PagesWithBreaks(read)
    BY DEF PdfToText
  <2> HIDE DEF read
  <2>5. SplitPages(PdfToText) = Append(read, <<>>)
    BY <2>1, <2>4, SplitPagesWithBreaks
  <2>6. Last(Append(read, <<>>)) = <<>> /\ Front(Append(read, <<>>)) = read
    BY <2>1 DEF Last, Front
  <2>7. ExtractPages = read
    BY <1>4, <2>5, <2>6 DEF ExtractPages
  <2> QED BY <2>1, <2>2, <2>3, <2>7
<1> QED BY <1>2, <1>3, <1>4

(* A passage has a beginning to look for. *)
LEMMA PrefixOfPassage ==
  ASSUME NEW r \in Seq(Tokens), r # <<>>
  PROVE  Prefix(r) \in Seq(Tokens) /\ Prefix(r) # <<>>
<1>1. Len(r) \in 1..Len(r) /\ 1 \in 1..Len(r)
  BY EmptySeq
<1>2. r \in Runs(r)
  BY <1>1, SubSeqFull DEF Runs
<1> QED BY <1>2, PassageIsWithin

LEMMA PageCitedShowsPassage ==
  ASSUME doc \in Documents, NEW r \in Seq(Tokens), r # <<>>,
         findPage(ExtractPages, Prefix(r)) # 0
  PROVE  /\ findPage(ExtractPages, Prefix(r)) \in DOMAIN docPages
         /\ Within(Prefix(r), docPages[findPage(ExtractPages, Prefix(r))])
<1> DEFINE p == findPage(ExtractPages, Prefix(r))
<1>1. Prefix(r) \in Seq(Tokens) /\ Prefix(r) # <<>>
  BY PrefixOfPassage
<1>2. p \in DOMAIN ExtractPages /\ Within(Prefix(r), ExtractPages[p])
  BY <1>1, ExtractedPages, FoundPage
<1>3. ExtractPages[p] # <<>>
  BY <1>1, <1>2, NothingWithinEmpty
<1> QED BY <1>2, <1>3, ExtractedPages

(* What a text page holds without mark-up stands in what pdftotext says.   *)
LEMMA TextPDFPageIsFound ==
  ASSUME doc \in Documents, doc.format = "pdf", ~doc.scanned,
         NEW i \in DOMAIN doc.markdown, NEW r \in Runs(doc.markdown[i]),
         Unmarked(Prefix(r))
  PROVE  findPage(ExtractPages, Prefix(r)) # 0
<1>1. /\ ExtractPages = docPages /\ docPages \in Seq(Seq(Tokens))
      /\ i \in DOMAIN docPages /\ docPages[i] = Plain(doc.markdown[i])
  BY OriginalPages, ExtractedPages
<1>2. doc.markdown[i] \in Seq(Tokens)
  BY DocumentType, ElementOfSeq
<1>3. Prefix(r) \in Seq(Tokens) /\ Prefix(r) # <<>> /\ Within(Prefix(r), doc.markdown[i])
  BY <1>2, PassageIsWithin
<1>4. Prefix(r) \in Seq(Words)
  <2> DEFINE q == Prefix(r)
  <2>1. q \in Seq(Tokens) /\ \A k \in DOMAIN q : q[k] \in Words
    BY <1>3 DEF Unmarked
  <2> HIDE DEF q
  <2>2. q \in Seq(Words)
    BY <2>1
  <2> QED BY <2>2 DEF q
<1>5. Within(Prefix(r), docPages[i])
  BY <1>1, <1>2, <1>3, <1>4, UnmarkedStretch
<1> QED BY <1>1, <1>3, <1>5, FoundPage

(* What a text that was retained splits into. *)
LEMMA RetainedPages ==
  ASSUME IInv, pc \in {"retained", "chunked", "cited"}
  PROVE  /\ text \in Texts /\ SplitPages(text) \in Seq(Seq(Tokens))
         /\ Len(SplitPages(text)) \in 1..MaxDocPages + 1
         /\ \A i \in DOMAIN SplitPages(text) :
              \/ SplitPages(text)[i] = <<>>
              \/ i \in DOMAIN doc.markdown /\ SplitPages(text)[i] = doc.markdown[i]
<1>1. text \in Texts /\ doc \in Documents /\ MaxDocPages \in Nat
  BY BoundsAssumption DEF IInv, TypeOK, Texts
<1>2. SplitPages(text) \in Seq(Seq(Tokens))
  BY <1>1, SplitPagesType DEF Pages
<1>3. /\ doc.markdown \in Seq(Seq(Tokens)) /\ Len(doc.markdown) \in 1..MaxDocPages
      /\ doc.scanned \in BOOLEAN /\ Len(docPages) = Len(doc.markdown)
  BY <1>1, DocumentType, OriginalPages
<1>4. CASE doc.scanned /\ text = <<>>
  <2>1. SplitPages(text) = << <<>> >>
    BY <1>4, SplitPagesOfEmpty
  <2>2. Len(<< <<>> >>) = 1 /\ DOMAIN << <<>> >> = {1} /\ << <<>> >>[1] = <<>>
    OBVIOUS
  <2>3. Len(SplitPages(text)) \in 1..MaxDocPages + 1
    BY <1>1, <2>1, <2>2
  <2> QED BY <1>1, <1>2, <2>1, <2>2, <2>3
<1>5. CASE ~doc.scanned /\ text = PagesWithBreaks(doc.markdown)
  <2> DEFINE m == doc.markdown
  <2>1. m \in Seq(Seq(Tokens)) /\ SplitPages(text) = Append(m, <<>>)
    BY <1>3, <1>5, SplitPagesWithBreaks
  <2>2. Len(SplitPages(text)) = Len(doc.markdown) + 1
    BY <1>3, <2>1
  <2>3. \A i \in 1..Len(m) + 1 :
          \/ Append(m, <<>>)[i] = <<>>
          \/ i \in DOMAIN m /\ Append(m, <<>>)[i] = m[i]
    <3> HIDE DEF m
    <3> QED BY <2>1
  <2> QED BY <1>1, <1>2, <1>3, <2>1, <2>2, <2>3
<1>6. CASE done = Len(Rasterized) /\ SplitPages(text) = [i \in 1..done |-> Transcript(i)]
  <2>1. Len(Rasterized) \in 1..Len(docPages)
    BY <1>1, RasterizedType
  <2>2. DOMAIN SplitPages(text) = 1..done /\ \A i \in 1..done : SplitPages(text)[i] = Transcript(i)
    BY <1>6
  <2>3. Len(SplitPages(text)) = done
    BY <1>2, <1>6, <2>1
  <2>4. \A i \in 1..done :
          i \in DOMAIN doc.markdown /\ Transcript(i) \in {<<>>, doc.markdown[i]}
    BY <1>1, <1>6, TranscriptOfPage
  <2> QED BY <1>1, <1>2, <1>3, <1>6, <2>1, <2>2, <2>3, <2>4
<1> QED BY <1>3, <1>4, <1>5, <1>6 DEF IInv, RetainedWhole

(* Of the document's own state, nothing changes once it is uploaded. *)
LEMMA SameDocument ==
  ASSUME doc' = doc
  PROVE  /\ documentKind' = documentKind /\ Rasterized' = Rasterized /\ docPages' = docPages
         /\ (\A i : Transcript(i)' = Transcript(i)) /\ ExtractPages' = ExtractPages
<1>0. docPages' = docPages
  BY DEF docPages
<1>1. documentKind' = documentKind
  BY DEF documentKind
<1>2. Rasterized' = Rasterized
  BY <1>0, <1>1 DEF Rasterized
<1>3. \A i : Transcript(i)' = Transcript(i)
  BY <1>1, <1>2 DEF Transcript
<1>4. ExtractPages' = ExtractPages
  BY <1>0 DEF ExtractPages, isPDF, PdfToText
<1> QED BY <1>0, <1>1, <1>2, <1>3, <1>4

LEMMA PagesInit ==
  Init => IInv
<1> SUFFICES ASSUME Init PROVE IInv
  OBVIOUS
<1>1. docPages \in Seq(Seq(Tokens)) /\ MaxDocPages \in Nat
  BY OriginalPages, BoundsAssumption DEF Init
<1>2. <<>> \in Seq(Tokens) /\ <<>> \in Seq(Tokens \cup {FF})
  BY EmptySeq
<1>3. TypeOK
  BY <1>1, <1>2 DEF Init, TypeOK
<1> QED BY <1>3 DEF Init, IInv, TranscribedInOrder, RetainedWhole, ChunkIsRetained, PageIsFound

(* Each step of a document's way keeps the invariant. *)
LEMMA PagesStep ==
  IInv /\ [Next]_vars => IInv'
<1> SUFFICES ASSUME IInv, [Next]_vars PROVE IInv'
  OBVIOUS
<1>1. /\ TypeOK /\ TranscribedInOrder /\ RetainedWhole /\ ChunkIsRetained /\ PageIsFound
      /\ doc \in Documents /\ text \in Texts
  BY DEF IInv, TypeOK, Texts
<1>2. /\ MaxDocPages \in Nat \ {0} /\ Len(docPages) \in 1..MaxDocPages
      /\ Len(Rasterized) \in 1..Len(docPages)
  BY <1>1, BoundsAssumption, OriginalPages, RasterizedType
<1>3. CASE UNCHANGED vars
  <2>1. doc' = doc /\ ocr' = ocr /\ pc' = pc /\ text' = text /\ done' = done
        /\ chunk' = chunk /\ from' = from /\ page' = page
    BY <1>3 DEF vars
  <2>2. /\ documentKind' = documentKind /\ Rasterized' = Rasterized
        /\ (\A i : Transcript(i)' = Transcript(i)) /\ ExtractPages' = ExtractPages
    BY <2>1, SameDocument
  <2>3. TypeOK'
    BY <1>1, <2>1, SameDocument DEF TypeOK
  <2>4. TranscribedInOrder'
    BY <1>1, <2>1, <2>2 DEF TranscribedInOrder
  <2>5. RetainedWhole'
    BY <1>1, <2>1, <2>2 DEF RetainedWhole
  <2>6. ChunkIsRetained'
    BY <1>1, <2>1 DEF ChunkIsRetained
  <2>7. PageIsFound'
    BY <1>1, <2>1, <2>2 DEF PageIsFound
  <2> QED BY <2>3, <2>4, <2>5, <2>6, <2>7 DEF IInv
<1>4. CASE RetainRaw
  <2>1. /\ pc = "convert" /\ pc' = "retained" /\ doc' = doc /\ ocr' = ocr /\ done' = done
        /\ chunk' = chunk /\ from' = from /\ page' = page
        /\ text' = IF doc.scanned THEN <<>> ELSE PagesWithBreaks(doc.markdown)
    BY <1>4 DEF RetainRaw
  <2>2. done = 0 /\ page = 0
    BY <1>1, <2>1 DEF TranscribedInOrder, PageIsFound
  <2>3. TypeOK'
    <3>1. text' \in Seq(Tokens \cup {FF})
      BY <1>1, <2>1, DocumentType, SplitPagesWithBreaks, EmptySeq DEF Texts
    <3> QED BY <1>1, <2>1, <3>1, SameDocument DEF TypeOK
  <2> QED BY <2>1, <2>2, <2>3
       DEF IInv, TranscribedInOrder, RetainedWhole, ChunkIsRetained, PageIsFound
<1>5. CASE Rasterize
  <2>1. /\ pc = "convert" /\ pc' \in {"failed", "ocr"} /\ doc' = doc /\ ocr' = ocr /\ done' = done
        /\ chunk' = chunk /\ from' = from /\ page' = page /\ text' = text
        /\ ocr /\ documentKind # "unsupported"
        /\ pc' = "ocr" /\ documentKind = "pdf" => doc.format = "pdf"
    BY <1>5 DEF Rasterize
  <2>2. done = 0 /\ page = 0 /\ text = <<>>
    BY <1>1, <2>1 DEF TranscribedInOrder, PageIsFound
  <2>3. TypeOK'
    BY <1>1, <2>1, SameDocument DEF TypeOK
  <2>4. documentKind' = documentKind /\ Rasterized' = Rasterized
    BY <2>1, SameDocument
  <2>5. TranscribedInOrder'
    BY <1>2, <2>1, <2>2, <2>4, SplitPagesOfEmpty DEF TranscribedInOrder
  <2> QED BY <2>1, <2>2, <2>3, <2>5 DEF IInv, RetainedWhole, ChunkIsRetained, PageIsFound
<1>6. CASE OcrPage
  <2>1. /\ pc = "ocr" /\ pc' = pc /\ doc' = doc /\ ocr' = ocr /\ done' = done + 1
        /\ chunk' = chunk /\ from' = from /\ page' = page /\ done < Len(Rasterized)
        /\ text' = (IF done > 0 THEN Append(text, FF) ELSE text) \o Transcript(done + 1)
    BY <1>6 DEF OcrPage
  <2>2. /\ ocr /\ documentKind # "unsupported" /\ done \in 0..MaxDocPages
        /\ documentKind = "pdf" => doc.format = "pdf"
        /\ done = 0 => SplitPages(text) = << <<>> >>
        /\ done # 0 => SplitPages(text) = [i \in 1..done |-> Transcript(i)]
    BY <1>1, <2>1 DEF TranscribedInOrder, TypeOK
  <2>3. /\ documentKind' = documentKind /\ Rasterized' = Rasterized
        /\ (\A i : Transcript(i)' = Transcript(i))
    BY <2>1, SameDocument
  <2>4. done + 1 \in 1..Len(Rasterized) /\ done + 1 \in 0..MaxDocPages /\ done \in Nat
    BY <1>2, <2>1, <2>2
  <2> DEFINE w == Transcript(done + 1)
             now == [i \in 1..done + 1 |-> Transcript(i)]
  <2>5. w \in Seq(Tokens)
    BY <1>1, <2>4, TranscriptOfPage
  <2>6. text' \in Texts /\ SplitPages(text') = now
    <3>1. CASE done = 0
      <4>1. text' = text \o w
        BY <2>1, <3>1
      <4> HIDE DEF w
      <4>2. <<>> \in Seq(Seq(Tokens)) /\ <<>> \in Seq(Tokens) /\ SplitPages(text) = Append(<<>>, <<>>)
        BY <2>2, <3>1, EmptySeq
      <4>3. text' \in Texts /\ SplitPages(text') = Append(<<>>, <<>> \o w)
        BY <1>1, <2>5, <4>1, <4>2, LastPageGrows
      <4>4. SplitPages(text') = <<w>>
        BY <2>5, <4>3, ConcatEmptySeq
      <4>5. now = <<w>>
        BY <3>1 DEF w
      <4> QED BY <4>3, <4>4, <4>5
    <3>2. CASE done # 0
      <4>1. text' = Append(text, FF) \o w
        <5>1. done > 0
          BY <2>4, <3>2
        <5> QED BY <2>1, <5>1
      <4> HIDE DEF w
      <4>2. text' \in Texts /\ SplitPages(text') = Append(SplitPages(text), w)
        BY <1>1, <2>5, <4>1, SplitPagesOfNextPage
      <4>3. Append([i \in 1..done |-> Transcript(i)], w) = now
        BY <2>4 DEF w
      <4> QED BY <2>2, <3>2, <4>2, <4>3
    <3> QED BY <3>1, <3>2
  <2>7. SplitPages(text') = [i \in 1..done' |-> Transcript(i)']
    BY <2>1, <2>3, <2>6
  <2>8. TypeOK'
    BY <1>1, <2>1, <2>4, <2>6, SameDocument DEF TypeOK, Texts
  <2>9. TranscribedInOrder'
    <3>1. done' # 0 /\ done' <= Len(Rasterized')
      BY <1>2, <2>1, <2>3, <2>4
    <3> QED BY <2>1, <2>2, <2>3, <2>7, <3>1 DEF TranscribedInOrder
  <2>10. RetainedWhole' /\ ChunkIsRetained' /\ PageIsFound'
    BY <1>1, <2>1 DEF RetainedWhole, ChunkIsRetained, PageIsFound
  <2> QED BY <2>8, <2>9, <2>10 DEF IInv
<1>7. CASE Converted
  <2>1. /\ pc = "ocr" /\ pc' \in {"failed", "retained"} /\ doc' = doc /\ ocr' = ocr /\ done' = done
        /\ chunk' = chunk /\ from' = from /\ page' = page /\ text' = text
        /\ done = Len(Rasterized)
    BY <1>7 DEF Converted
  <2>2. /\ documentKind # "unsupported"
        /\ documentKind = "pdf" => doc.format = "pdf"
        /\ done # 0 /\ SplitPages(text) = [i \in 1..done |-> Transcript(i)]
    BY <1>1, <1>2, <2>1 DEF TranscribedInOrder
  <2>3. documentKind \in {"pdf", "image", "unsupported"}
    BY DEF documentKind
  <2>4. /\ documentKind' = documentKind /\ Rasterized' = Rasterized
        /\ (\A i : Transcript(i)' = Transcript(i))
    BY <2>1, SameDocument
  <2>5. TypeOK'
    BY <1>1, <2>1, SameDocument DEF TypeOK
  <2>6. TranscribedInOrder' /\ ChunkIsRetained' /\ PageIsFound'
    BY <1>1, <2>1 DEF TranscribedInOrder, ChunkIsRetained, PageIsFound
  <2>7. RetainedWhole'
    <3>1. SplitPages(text') = [i \in 1..done' |-> Transcript(i)']
      BY <2>1, <2>2, <2>4
    <3>2. /\ documentKind' = "image" \/ (documentKind' = "pdf" /\ doc'.format = "pdf")
          /\ done' = Len(Rasterized')
      BY <2>1, <2>2, <2>3, <2>4
    <3> QED BY <3>1, <3>2 DEF RetainedWhole
  <2> QED BY <2>5, <2>6, <2>7 DEF IInv
<1>8. CASE ConvertFails
  <2>1. /\ pc = "ocr" /\ pc' = "failed" /\ doc' = doc /\ ocr' = ocr /\ done' = done
        /\ chunk' = chunk /\ from' = from /\ page' = page /\ text' = text
    BY <1>8 DEF ConvertFails
  <2>2. TypeOK'
    BY <1>1, <2>1, SameDocument DEF TypeOK
  <2> QED BY <1>1, <2>1, <2>2
       DEF IInv, TranscribedInOrder, RetainedWhole, ChunkIsRetained, PageIsFound
<1>9. CASE Recall
  <2>1. /\ pc = "retained" /\ pc' = "chunked" /\ doc' = doc /\ ocr' = ocr /\ done' = done
        /\ page' = page /\ text' = text
        /\ \/ \E p \in DOMAIN SplitPages(text) :
                chunk' \in Runs(SplitPages(text)[p]) /\ from' = p
           \/ chunk' \in Runs(normalizeForMatch(text)) /\ from' = 0
    BY <1>9 DEF Recall
  <2>2. SplitPages(text) \in Seq(Seq(Tokens)) /\ Len(SplitPages(text)) \in 1..MaxDocPages + 1
    BY <2>1, RetainedPages
  <2>3. /\ chunk' \in Seq(Tokens) /\ chunk' # <<>> /\ from' \in 0..MaxDocPages + 1
        /\ from' # 0 => from' \in DOMAIN SplitPages(text)
                        /\ chunk' \in Runs(SplitPages(text)[from'])
    <3>1. CASE \E p \in DOMAIN SplitPages(text) :
                 chunk' \in Runs(SplitPages(text)[p]) /\ from' = p
      <4>1. PICK p \in DOMAIN SplitPages(text) :
                   chunk' \in Runs(SplitPages(text)[p]) /\ from' = p
        BY <3>1
      <4>2. SplitPages(text)[p] \in Seq(Tokens) /\ p \in 0..MaxDocPages + 1
        BY <1>2, <2>2, ElementOfSeq
      <4> QED BY <4>1, <4>2, PassageIsWithin
    <3>2. CASE chunk' \in Runs(normalizeForMatch(text)) /\ from' = 0
      <4>1. normalizeForMatch(text) \in Seq(Tokens)
        BY <2>2, FlattenSeqType DEF normalizeForMatch
      <4>2. chunk' \in Seq(Tokens) /\ chunk' # <<>>
        BY <3>2, <4>1, PassageIsWithin
      <4> QED BY <1>2, <3>2, <4>2
    <3> QED BY <2>1, <3>1, <3>2
  <2>4. TypeOK'
    BY <1>1, <2>1, <2>3, SameDocument DEF TypeOK
  <2>5. TranscribedInOrder' /\ PageIsFound'
    BY <1>1, <2>1 DEF TranscribedInOrder, PageIsFound
  <2>6. RetainedWhole'
    <3>1. /\ documentKind' = documentKind /\ Rasterized' = Rasterized
          /\ (\A i : Transcript(i)' = Transcript(i))
      BY <2>1, SameDocument
    <3> QED BY <1>1, <2>1, <3>1 DEF RetainedWhole
  <2>7. ChunkIsRetained'
    BY <2>1, <2>3 DEF ChunkIsRetained
  <2> QED BY <2>4, <2>5, <2>6, <2>7 DEF IInv
<1>10. CASE addReferences
  <2>1. /\ pc = "chunked" /\ pc' = "cited" /\ doc' = doc /\ ocr' = ocr /\ done' = done
        /\ chunk' = chunk /\ from' = from /\ text' = text
        /\ page' = findPage(ExtractPages, Prefix(chunk))
    BY <1>10 DEF addReferences
  <2>2. /\ documentKind' = documentKind /\ Rasterized' = Rasterized
        /\ (\A i : Transcript(i)' = Transcript(i)) /\ ExtractPages' = ExtractPages
    BY <2>1, SameDocument
  <2>3. TypeOK'
    <3>1. chunk \in Seq(Tokens) /\ chunk # <<>>
      BY <1>1, <2>1 DEF TypeOK, ChunkIsRetained
    <3>2. page' = 0 \/ page' \in DOMAIN docPages
      BY <1>1, <2>1, <3>1, PageCitedShowsPassage
    <3>3. page' \in 0..Len(docPages)
      BY <1>1, <1>2, <3>2, OriginalPages
    <3> QED BY <1>1, <2>1, <3>3, SameDocument DEF TypeOK
  <2>4. TranscribedInOrder' /\ PageIsFound'
    BY <2>1, <2>2 DEF TranscribedInOrder, PageIsFound
  <2>5. RetainedWhole'
    BY <1>1, <2>1, <2>2 DEF RetainedWhole
  <2>6. ChunkIsRetained'
    BY <1>1, <2>1 DEF ChunkIsRetained
  <2> QED BY <2>3, <2>4, <2>5, <2>6 DEF IInv
<1> QED BY <1>3, <1>4, <1>5, <1>6, <1>7, <1>8, <1>9, <1>10 DEF Next

-----------------------------------------------------------------------------
(* The theorems. *)

(* The invariant of a document's way to a citation, from any pages, under  *)
(* any cap and for any length of what findPage looks for.                  *)
THEOREM PagesInvariance ==
  Spec => []IInv
<1>1. Init => IInv
  BY PagesInit
<1>2. IInv /\ [Next]_vars => IInv'
  BY PagesStep
<1> QED BY <1>1, <1>2, PTL DEF Spec

(* A citation never misleads: the page that addReferences names is one of  *)
(* the document's own, and the beginning of the passage stands on it.      *)
THEOREM CitationsDoNotMislead ==
  Spec => []CitedPageShowsChunk
<1>1. IInv => CitedPageShowsChunk
  <2> SUFFICES ASSUME IInv, pc = "cited", page # 0
               PROVE  page \in DOMAIN docPages /\ Within(Prefix(chunk), docPages[page])
    BY DEF CitedPageShowsChunk
  <2>1. doc \in Documents /\ chunk \in Seq(Tokens) /\ chunk # <<>>
        /\ page = findPage(ExtractPages, Prefix(chunk))
    BY DEF IInv, TypeOK, ChunkIsRetained, PageIsFound
  <2> QED BY <2>1, PageCitedShowsPassage
<1> QED BY <1>1, PagesInvariance, PTL

(* A passage from within one page of a PDF with a text layer is given a    *)
(* page, transcribed or not, if it does not begin with mark-up: the page   *)
(* that pdftotext reads has the words of its Markdown and no mark-up.      *)
THEOREM TextPDFsAreFound ==
  Spec => []TextPDFsResolve
<1>1. IInv => TextPDFsResolve
  <2> SUFFICES ASSUME IInv, pc = "cited", doc.format = "pdf", ~doc.scanned, from # 0,
                      Unmarked(Prefix(chunk))
               PROVE  page # 0
    BY DEF TextPDFsResolve
  <2>1. /\ doc \in Documents /\ page = findPage(ExtractPages, Prefix(chunk))
        /\ from \in DOMAIN SplitPages(text) /\ chunk \in Runs(SplitPages(text)[from])
    BY DEF IInv, TypeOK, ChunkIsRetained, PageIsFound
  <2>2. SplitPages(text)[from] # <<>>
    <3>1. Runs(<<>>) = {}
      BY DEF Runs
    <3> QED BY <2>1, <3>1
  <2>3. from \in DOMAIN doc.markdown /\ SplitPages(text)[from] = doc.markdown[from]
    BY <2>1, <2>2, RetainedPages
  <2> QED BY <2>1, <2>3, TextPDFPageIsFound
<1> QED BY <1>1, PagesInvariance, PTL

(* What is retained of a document that was transcribed has every page up   *)
(* to the cap, each in its place.                                          *)
THEOREM ConversionsAreWhole ==
  Spec => []WholeOrFailed
<1>1. IInv => WholeOrFailed
  BY DEF IInv, RetainedWhole, WholeOrFailed
<1> QED BY <1>1, PagesInvariance, PTL
=============================================================================
