---------------------------- MODULE FulfilmentProofs ----------------------------
(***************************************************************************)
(* Proofs about Fulfilment.                                                *)
(*                                                                         *)
(* First what taking from the picks makes of the quantities of a line,     *)
(* when the picks may have changed since they were found; then the locks:  *)
(* a dispatch and its cancellation keep the SHIPPING bins of their lines   *)
(* from their second look to their commit, so that of a line only one      *)
(* request at a time changes the shipments.  Then what a request found     *)
(* stays true enough: others may add, split and reverse picks meanwhile.   *)
(* Last the life cycle rules of the order, which the lock of the general   *)
(* ledger protects.                                                        *)
(***************************************************************************)
EXTENDS Fulfilment, Sums, SequenceTheorems

(***************************************************************************)
(* Quantities of picks.                                                    *)
(***************************************************************************)
LEMMA PicksAre ==
  ASSUME NEW ps \in Seq(Pick)
  PROVE  /\ Len(ps) \in Nat /\ DOMAIN ps = 1..Len(ps) /\ IsFiniteSet(DOMAIN ps)
         /\ \A i \in DOMAIN ps :
              /\ ps[i] \in Pick /\ ps[i].line \in Lines /\ ps[i].from \in Locations
              /\ ps[i].qty \in Nat /\ ps[i].qty > 0 /\ ps[i].state \in PickStates
  <1>1. Len(ps) \in Nat /\ DOMAIN ps = 1..Len(ps)
    BY LenProperties
  <1>2. \A i \in DOMAIN ps : ps[i] \in Pick
    BY <1>1, ElementOfSeq
  <1>3. IsFiniteSet(1..Len(ps))
    BY <1>1, FS_Interval
  <1> QED BY <1>1, <1>2, <1>3 DEF Pick

Qtys(ps) == [i \in DOMAIN ps |-> ps[i].qty]
Weight(x, l, states) == IF x.line = l /\ x.state \in states THEN x.qty ELSE 0
Weights(ps, l, states) == [i \in DOMAIN ps |-> Weight(ps[i], l, states)]

LEMMA PickSumWeights ==
  ASSUME NEW ps \in Seq(Pick), NEW l, NEW states
  PROVE  /\ PickSum(ps, l, states) = SumFunctionOnSet(Weights(ps, l, states), DOMAIN ps)
         /\ PickSum(ps, l, states) \in Nat
  <1> DEFINE S == DOMAIN ps
             T == PicksIn(ps, l, states)
             f == Qtys(ps)
             g == Weights(ps, l, states)
  <1>1. IsFiniteSet(S) /\ \A i \in S : f[i] \in Nat
    BY PicksAre DEF Qtys
  <1>2. T \in SUBSET S /\ (\A i \in T : g[i] = f[i]) /\ (\A i \in S \ T : g[i] = 0)
    BY DEF PicksIn, Qtys, Weights, Weight
  <1>3. PickSum(ps, l, states) = SumFunctionOnSet(f, T)
    BY DEF PickSum, Qtys
  <1>4. IsFiniteSet(T)
    BY <1>1, <1>2, FS_Subset
  <1> HIDE DEF f, g, T, S
  <1>5. SumFunctionOnSet(g, S) = SumFunctionOnSet(f, T)
    BY <1>1, <1>2, SumWhere
  <1>6. SumFunctionOnSet(f, T) \in Nat
    BY <1>1, <1>2, <1>4, SumNatural
  <1> QED BY <1>3, <1>5, <1>6 DEF g, S

(***************************************************************************)
(* What a dispatch or its cancellation takes from the picks.               *)
(***************************************************************************)
Before(ps, l, from, n) == {j \in PicksIn(ps, l, {from}) : j < n}
Earlier(ps, l, from, n) == SumFunctionOnSet(Qtys(ps), Before(ps, l, from, n))

LEMMA EarlierType ==
  ASSUME NEW ps \in Seq(Pick), NEW l, NEW from, NEW n
  PROVE  Earlier(ps, l, from, n) \in Nat
  <1>1. Before(ps, l, from, n) \in SUBSET DOMAIN ps
    BY DEF Before, PicksIn
  <1>2. IsFiniteSet(Before(ps, l, from, n))
    BY <1>1, PicksAre, FS_Subset
  <1>3. \A i \in Before(ps, l, from, n) : Qtys(ps)[i] \in Nat
    BY <1>1, PicksAre DEF Qtys
  <1> QED BY <1>2, <1>3, SumNatural DEF Earlier

LEMMA TakenIs ==
  ASSUME NEW ps \in Seq(Pick), NEW parts \in Parts, NEW from, NEW i \in DOMAIN ps
  PROVE  /\ TakenOf(ps, parts, from)[i] \in Nat
         /\ TakenOf(ps, parts, from)[i] <= ps[i].qty
         /\ ps[i].state # from => TakenOf(ps, parts, from)[i] = 0
         /\ ps[i].state = from => TakenOf(ps, parts, from)[i] =
              Smaller(ps[i].qty, Larger(0, parts[ps[i].line] - Earlier(ps, ps[i].line, from, i)))
  <1>1. TakenOf(ps, parts, from)[i] =
          IF ps[i].state # from THEN 0
          ELSE Smaller(ps[i].qty, Larger(0, parts[ps[i].line] - Earlier(ps, ps[i].line, from, i)))
    BY DEF TakenOf, Earlier, Before, Qtys
  <1>2. Earlier(ps, ps[i].line, from, i) \in Nat /\ parts[ps[i].line] \in Nat /\ ps[i].qty \in Nat
    BY EarlierType, PicksAre DEF Parts
  <1> QED BY <1>1, <1>2 DEF Smaller, Larger

LEMMA Min3 ==
  ASSUME NEW p \in Nat, NEW f \in Nat, NEW q \in Nat
  PROVE  Smaller(p, f) + Smaller(q, Larger(0, p - f)) = Smaller(p, f + q)
  BY DEF Smaller, Larger

(* Together they are the quantity asked for, or all there is.              *)
LEMMA TakenSum ==
  ASSUME NEW ps \in Seq(Pick), NEW parts \in Parts, NEW from, NEW l \in Lines
  PROVE  SumFunctionOnSet(TakenOf(ps, parts, from), PicksIn(ps, l, {from})) =
           Smaller(parts[l], PickSum(ps, l, {from}))
  <1> DEFINE t == TakenOf(ps, parts, from)
             B(n) == Before(ps, l, from, n)
             F(n) == Earlier(ps, l, from, n)
             T(n) == SumFunctionOnSet(t, B(n))
             N == {n \in Nat : T(n) = Smaller(parts[l], F(n))}
  <1>1. parts[l] \in Nat
    BY DEF Parts
  <1>2. 0 \in N
    <2>1. B(0) = {}
      BY PicksAre DEF Before, PicksIn
    <2>2. T(0) = 0 /\ F(0) = 0
      BY <2>1, SumEmpty DEF Earlier
    <2> QED BY <1>1, <2>2 DEF Smaller
  <1>3. ASSUME NEW n \in N PROVE n + 1 \in N
    <2>0. n \in Nat /\ T(n) = Smaller(parts[l], F(n))
      OBVIOUS
    <2>1. CASE n \notin PicksIn(ps, l, {from})
      <3>1. B(n + 1) = B(n)
        BY <2>0, <2>1, PicksAre DEF Before, PicksIn
      <3>2. T(n + 1) = T(n) /\ F(n + 1) = F(n)
        BY <3>1 DEF Earlier
      <3> QED BY <2>0, <3>2
    <2>2. CASE n \in PicksIn(ps, l, {from})
      <3>1. B(n + 1) = B(n) \cup {n} /\ n \notin B(n)
        BY <2>0, <2>2, PicksAre DEF Before, PicksIn
      <3>2. /\ n \in DOMAIN ps /\ ps[n].line = l /\ ps[n].state = from
            /\ B(n) \cup {n} \subseteq DOMAIN ps
        BY <2>2 DEF PicksIn, Before
      <3>3. IsFiniteSet(B(n))
        BY <3>2, PicksAre, FS_Subset
      <3>4. \A i \in B(n) \cup {n} : t[i] \in Int /\ Qtys(ps)[i] \in Int
        BY <3>2, TakenIs, PicksAre DEF Qtys
      <3> HIDE DEF t, B
      <3>5. SumFunctionOnSet(t, B(n) \cup {n}) = t[n] + T(n)
        BY <3>1, <3>3, <3>4, SumAdd
      <3>6. SumFunctionOnSet(Qtys(ps), B(n) \cup {n}) = ps[n].qty + F(n)
        <4>1. Qtys(ps)[n] = ps[n].qty
          BY <3>2 DEF Qtys
        <4>2. F(n) = SumFunctionOnSet(Qtys(ps), B(n))
          BY DEF Earlier, B
        <4>3. \A i \in B(n) \cup {n} : Qtys(ps)[i] \in Int
          BY <3>4
        <4>4. SumFunctionOnSet(Qtys(ps), B(n) \cup {n}) =
                Qtys(ps)[n] + SumFunctionOnSet(Qtys(ps), B(n))
          BY <3>1, <3>3, <4>3, SumAdd
        <4> QED BY <4>1, <4>2, <4>4
      <3>7. T(n + 1) = t[n] + T(n) /\ F(n + 1) = ps[n].qty + F(n)
        BY <3>1, <3>5, <3>6 DEF Earlier, B
      <3>8. t[n] = Smaller(ps[n].qty, Larger(0, parts[l] - F(n)))
        BY <3>2, TakenIs DEF t
      <3>9. F(n) \in Nat /\ ps[n].qty \in Nat
        BY <3>2, EarlierType, PicksAre
      <3>10. T(n) + t[n] = Smaller(parts[l], F(n) + ps[n].qty)
        <4>1. Smaller(parts[l], F(n)) + Smaller(ps[n].qty, Larger(0, parts[l] - F(n)))
                = Smaller(parts[l], F(n) + ps[n].qty)
          BY <1>1, <3>9, Min3
        <4> QED BY <2>0, <3>8, <4>1
      <3>11. T(n) \in Int /\ t[n] \in Int
        BY <1>1, <2>0, <3>4, <3>9 DEF Smaller
      <3>12. T(n + 1) = Smaller(parts[l], F(n + 1))
        BY <3>7, <3>9, <3>10, <3>11
      <3> QED BY <2>0, <3>12
    <2> QED BY <2>1, <2>2
  <1>4. N = Nat
    <2>1. N \in SUBSET Nat
      OBVIOUS
    <2> HIDE DEF N
    <2> QED BY <1>2, <1>3, <2>1, NatSetInduction
  <1>5. Len(ps) + 1 \in N
    BY <1>4, PicksAre
  <1>6. B(Len(ps) + 1) = PicksIn(ps, l, {from})
    BY PicksAre DEF Before, PicksIn
  <1>7. F(Len(ps) + 1) = PickSum(ps, l, {from})
    BY <1>6 DEF Earlier, PickSum, Qtys
  <1> QED BY <1>5, <1>6, <1>7

(* SetToSeq lists a finite set, each element once.                         *)
LEMMA Listed ==
  ASSUME NEW S, IsFiniteSet(S)
  PROVE  /\ SetToSeq(S) \in Seq(S) /\ DOMAIN SetToSeq(S) = 1..Cardinality(S)
         /\ Cardinality(S) \in Nat /\ Len(SetToSeq(S)) = Cardinality(S)
         /\ \A i, j \in 1..Cardinality(S) : SetToSeq(S)[i] = SetToSeq(S)[j] => i = j
         /\ {SetToSeq(S)[i] : i \in 1..Cardinality(S)} = S
  <1> DEFINE n == Cardinality(S)
             f == SetToSeq(S)
  <1>1. n \in Nat /\ ExistsBijection(1..n, S)
    BY FS_CardinalityType
  <1>2. \E g \in [1..n -> S] : IsInjective(g)
    BY <1>1 DEF ExistsBijection, Bijection, Injection, IsInjective
  <1>3. f \in [1..n -> S] /\ IsInjective(f)
    BY <1>2 DEF SetToSeq
  <1> HIDE DEF f
  <1>4. f \in Injection(1..n, S)
    BY <1>3 DEF Injection
  <1>5. IsFiniteSet(1..n) /\ Cardinality(1..n) = n
    BY <1>1, FS_Interval
  <1>6. f \in Surjection(1..n, S)
    BY <1>4, <1>5, FS_Injection
  <1>7. \A x \in S : \E i \in 1..n : f[i] = x
    BY <1>6 DEF Surjection
  <1>8. {f[i] : i \in 1..n} = S
    BY <1>3, <1>7
  <1>9. f \in Seq(S) /\ Len(f) = n /\ DOMAIN f = 1..n
    BY <1>1, <1>3, SeqDef, LenProperties
  <1> QED BY <1>1, <1>3, <1>8, <1>9 DEF f, IsInjective

LEMMA ListedSum ==
  ASSUME NEW S, IsFiniteSet(S), NEW v, \A x \in S : v[x] \in Int,
         NEW g, \A i \in 1..Cardinality(S) : g[i] = v[SetToSeq(S)[i]]
  PROVE  SumFunctionOnSet(g, 1..Cardinality(S)) = SumFunctionOnSet(v, S)
  <1> DEFINE I == 1..Cardinality(S)
             r == SetToSeq(S)
  <1>1. {r[i] : i \in I} = S /\ \A i, j \in I : r[i] = r[j] => i = j
    BY Listed
  <1>2. \A i \in I : v[r[i]] = g[i]
    OBVIOUS
  <1>3. \A i \in I : g[i] \in Int
    BY <1>1, <1>2
  <1>4. IsFiniteSet(I)
    BY FS_CardinalityType, FS_Interval
  <1> HIDE DEF r, I
  <1>5. SumFunctionOnSet(v, {r[i] : i \in I}) = SumFunctionOnSet(g, I)
    BY <1>1, <1>2, <1>3, <1>4, SumImage
  <1> QED BY <1>1, <1>5 DEF I

(***************************************************************************)
(* Converted, as the picks that are kept and the pieces that are split off. *)
(***************************************************************************)
Took(ps, took) == took \in Seq(Nat) /\ DOMAIN took \subseteq DOMAIN ps
Split(ps, took) == SplitPicks(ps, took)
KeptAs(ps, took, to, i) ==
  IF i \in Split(ps, took) THEN [ps[i] EXCEPT !.qty = @ - took[i]]
  ELSE IF i \in DOMAIN took /\ took[i] > 0 THEN [ps[i] EXCEPT !.state = to]
  ELSE ps[i]
Kept(ps, took, to) == [i \in DOMAIN ps |-> KeptAs(ps, took, to, i)]
Piece(ps, took, to, i) == [ps[i] EXCEPT !.qty = took[i], !.state = to]
Cuts(ps, took) == SetToSeq(Split(ps, took))
Pieces(ps, took, to) == [k \in DOMAIN Cuts(ps, took) |-> Piece(ps, took, to, Cuts(ps, took)[k])]

LEMMA ConvertedIs ==
  ASSUME NEW ps, NEW took, NEW to
  PROVE  Converted(ps, took, to) = Kept(ps, took, to) \o Pieces(ps, took, to)
  BY DEF Converted, Kept, KeptAs, Pieces, Piece, Cuts, Split

LEMMA TookIs ==
  ASSUME NEW ps \in Seq(Pick), NEW took, Took(ps, took)
  PROVE  /\ \A i \in DOMAIN took : took[i] \in Nat /\ i \in DOMAIN ps
         /\ Split(ps, took) \subseteq DOMAIN took /\ Split(ps, took) \subseteq DOMAIN ps
         /\ IsFiniteSet(Split(ps, took))
         /\ \A i \in Split(ps, took) : took[i] > 0 /\ took[i] < ps[i].qty
         /\ \A i \in DOMAIN took \ Split(ps, took) : took[i] > 0 => took[i] >= ps[i].qty
  <1>1. \A i \in DOMAIN took : took[i] \in Nat /\ i \in DOMAIN ps
    BY ElementOfSeq, LenProperties DEF Took
  <1>2. Split(ps, took) \subseteq DOMAIN took /\ Split(ps, took) \subseteq DOMAIN ps
    BY <1>1 DEF Split, SplitPicks
  <1>3. IsFiniteSet(Split(ps, took))
    BY <1>2, PicksAre, FS_Subset
  <1>4. \A i \in DOMAIN took : ps[i].qty \in Nat
    BY <1>1, PicksAre
  <1>5. \A i \in DOMAIN took : took[i] \in 1..(ps[i].qty - 1) <=> took[i] > 0 /\ took[i] < ps[i].qty
    BY <1>1, <1>4
  <1>6. \A i : i \in Split(ps, took) <=> i \in DOMAIN took /\ took[i] \in 1..(ps[i].qty - 1)
    BY DEF Split, SplitPicks
  <1> QED BY <1>1, <1>2, <1>3, <1>4, <1>5, <1>6

LEMMA KeptIs ==
  ASSUME NEW ps \in Seq(Pick), NEW took, Took(ps, took), NEW to \in PickStates
  PROVE  /\ Kept(ps, took, to) \in Seq(Pick) /\ DOMAIN Kept(ps, took, to) = DOMAIN ps
         /\ Len(Kept(ps, took, to)) = Len(ps)
         /\ \A i \in DOMAIN ps :
              /\ Kept(ps, took, to)[i] = KeptAs(ps, took, to, i)
              /\ KeptAs(ps, took, to, i) \in Pick
              /\ KeptAs(ps, took, to, i).line = ps[i].line
              /\ KeptAs(ps, took, to, i).from = ps[i].from
              /\ KeptAs(ps, took, to, i).qty <= ps[i].qty
              /\ KeptAs(ps, took, to, i).state \in {ps[i].state, to}
              /\ ~(i \in DOMAIN took /\ took[i] > 0) => KeptAs(ps, took, to, i) = ps[i]
  <1> DEFINE k == Kept(ps, took, to)
             x(i) == KeptAs(ps, took, to, i)
  <1>1. ASSUME NEW i \in DOMAIN ps
        PROVE  /\ x(i) \in Pick /\ x(i).line = ps[i].line /\ x(i).from = ps[i].from
               /\ x(i).qty <= ps[i].qty /\ x(i).state \in {ps[i].state, to}
               /\ ~(i \in DOMAIN took /\ took[i] > 0) => x(i) = ps[i]
    <2>1. ps[i] \in Pick /\ ps[i].qty \in Nat
      BY PicksAre
    <2>2. CASE i \in Split(ps, took)
      <3>1. took[i] \in Nat /\ took[i] > 0 /\ took[i] < ps[i].qty /\ i \in DOMAIN took
        BY <2>2, TookIs
      <3>2. x(i) = [ps[i] EXCEPT !.qty = ps[i].qty - took[i]]
        BY <2>2 DEF KeptAs
      <3>3. ps[i].qty - took[i] \in Nat \ {0} /\ ps[i].qty - took[i] <= ps[i].qty
        BY <2>1, <3>1
      <3> HIDE DEF x
      <3> QED BY <2>1, <3>1, <3>2, <3>3 DEF Pick
    <2>3. CASE i \notin Split(ps, took) /\ i \in DOMAIN took /\ took[i] > 0
      <3>1. x(i) = [ps[i] EXCEPT !.state = to]
        BY <2>3 DEF KeptAs
      <3> HIDE DEF x
      <3> QED BY <2>1, <2>3, <3>1 DEF Pick
    <2>4. CASE i \notin Split(ps, took) /\ ~(i \in DOMAIN took /\ took[i] > 0)
      <3>1. x(i) = ps[i]
        BY <2>4 DEF KeptAs
      <3> QED BY <2>1, <3>1
    <2> QED BY <2>2, <2>3, <2>4
  <1>2. k = [i \in DOMAIN ps |-> x(i)]
    BY DEF Kept
  <1>3. DOMAIN ps = 1..Len(ps) /\ Len(ps) \in Nat
    BY PicksAre
  <1> HIDE DEF k, x
  <1>4. k \in [1..Len(ps) -> Pick] /\ DOMAIN k = DOMAIN ps /\ \A i \in DOMAIN ps : k[i] = x(i)
    BY <1>1, <1>2, <1>3
  <1>5. k \in Seq(Pick) /\ Len(k) = Len(ps)
    BY <1>3, <1>4, SeqDef, LenProperties
  <1> QED BY <1>1, <1>4, <1>5 DEF k, x

LEMMA PiecesAre ==
  ASSUME NEW ps \in Seq(Pick), NEW took, Took(ps, took), NEW to \in PickStates
  PROVE  /\ Cardinality(Split(ps, took)) \in Nat
         /\ DOMAIN Cuts(ps, took) = 1..Cardinality(Split(ps, took))
         /\ Pieces(ps, took, to) \in Seq(Pick)
         /\ DOMAIN Pieces(ps, took, to) = 1..Cardinality(Split(ps, took))
         /\ Len(Pieces(ps, took, to)) = Cardinality(Split(ps, took))
         /\ \A k \in 1..Cardinality(Split(ps, took)) :
              /\ Cuts(ps, took)[k] \in Split(ps, took)
              /\ Pieces(ps, took, to)[k] = Piece(ps, took, to, Cuts(ps, took)[k])
         /\ \A i \in Split(ps, took) :
              /\ Piece(ps, took, to, i) \in Pick /\ Piece(ps, took, to, i).line = ps[i].line
              /\ Piece(ps, took, to, i).qty = took[i] /\ Piece(ps, took, to, i).state = to
  <1> DEFINE S == Split(ps, took)
             n == Cardinality(S)
             c == Cuts(ps, took)
             q == Pieces(ps, took, to)
             p(i) == Piece(ps, took, to, i)
  <1>1. IsFiniteSet(S)
    BY TookIs
  <1>2. n \in Nat /\ DOMAIN c = 1..n /\ \A k \in 1..n : c[k] \in S
    <2>1. c = SetToSeq(S)
      BY DEF Cuts
    <2>2. n \in Nat /\ DOMAIN c = 1..n /\ {c[i] : i \in 1..n} = S
      BY <1>1, <2>1, Listed
    <2> HIDE DEF c, S, n
    <2> QED BY <2>2
  <1>3. ASSUME NEW i \in S
        PROVE  p(i) \in Pick /\ p(i).line = ps[i].line /\ p(i).qty = took[i] /\ p(i).state = to
    <2>1. ps[i] \in Pick /\ took[i] \in Nat \ {0}
      BY TookIs, PicksAre
    <2>2. p(i) = [ps[i] EXCEPT !.qty = took[i], !.state = to]
      BY DEF Piece
    <2> HIDE DEF p, S
    <2> QED BY <2>1, <2>2 DEF Pick
  <1>4. q = [k \in DOMAIN c |-> p(c[k])]
    BY DEF Pieces
  <1> HIDE DEF S, n, c, q, p
  <1>5. q \in [1..n -> Pick] /\ \A k \in 1..n : q[k] = p(c[k])
    BY <1>2, <1>3, <1>4
  <1>6. q \in Seq(Pick) /\ DOMAIN q = 1..n /\ Len(q) = n
    BY <1>2, <1>5, SeqDef, LenProperties
  <1> QED BY <1>2, <1>3, <1>5, <1>6 DEF S, n, c, q, p

(* What a pick and the piece that is split off it weigh afterwards.        *)
AfterOf(ps, took, to, l, states, i) ==
  Weight(KeptAs(ps, took, to, i), l, states)
  + IF i \in Split(ps, took) THEN Weight(Piece(ps, took, to, i), l, states) ELSE 0
After(ps, took, to, l, states) == [i \in DOMAIN ps |-> AfterOf(ps, took, to, l, states, i)]

LEMMA PiecesSum ==
  ASSUME NEW ps \in Seq(Pick), NEW took, Took(ps, took), NEW to \in PickStates, NEW l, NEW states
  PROVE  LET v == [i \in DOMAIN ps |->
                     IF i \in Split(ps, took) THEN Weight(Piece(ps, took, to, i), l, states) ELSE 0]
         IN /\ SumFunctionOnSet(Weights(Pieces(ps, took, to), l, states),
                                1..Cardinality(Split(ps, took)))
                 = SumFunctionOnSet(v, DOMAIN ps)
            /\ \A i \in DOMAIN ps : v[i] \in Nat
  <1> DEFINE S == Split(ps, took)
             n == Cardinality(S)
             D == DOMAIN ps
             q == Pieces(ps, took, to)
             u == [i \in S |-> Weight(Piece(ps, took, to, i), l, states)]
             v == [i \in D |-> IF i \in S THEN Weight(Piece(ps, took, to, i), l, states) ELSE 0]
             g == Weights(q, l, states)
  <1>1. IsFiniteSet(S) /\ S \in SUBSET D /\ IsFiniteSet(D)
    BY TookIs, PicksAre
  <1>2. \A i \in S : u[i] \in Nat
    <2>1. \A i \in S : Piece(ps, took, to, i) \in Pick
      BY PiecesAre
    <2> QED BY <2>1 DEF Weight, Pick
  <1>3. \A k \in 1..n : g[k] = u[SetToSeq(S)[k]]
    <2>1. /\ DOMAIN q = 1..n
          /\ \A k \in 1..n : SetToSeq(S)[k] \in S /\ q[k] = Piece(ps, took, to, SetToSeq(S)[k])
      BY PiecesAre DEF Cuts
    <2> HIDE DEF q, S, n
    <2> QED BY <2>1 DEF Weights
  <1>4. (\A i \in S : v[i] = u[i]) /\ (\A i \in D \ S : v[i] = 0)
    BY <1>1
  <1>5. \A i \in D : v[i] \in Nat
    <2> HIDE DEF u, v
    <2> QED BY <1>2, <1>4
  <1> HIDE DEF u, v, g, q, S, D
  <1>6. SumFunctionOnSet(g, 1..n) = SumFunctionOnSet(u, S)
    BY <1>1, <1>2, <1>3, ListedSum
  <1>7. SumFunctionOnSet(v, D) = SumFunctionOnSet(u, S)
    BY <1>1, <1>2, <1>4, SumWhere
  <1> QED BY <1>5, <1>6, <1>7 DEF v, g, q, S, D

(* A conversion keeps the picks in place and adds the pieces; the picks of  *)
(* a line sum up to what each pick and its piece weigh.                    *)
LEMMA ConvertedPicks ==
  ASSUME NEW ps \in Seq(Pick), NEW took, Took(ps, took), NEW to \in PickStates
  PROVE  /\ Converted(ps, took, to) \in Seq(Pick)
         /\ DOMAIN ps \subseteq DOMAIN Converted(ps, took, to)
         /\ \A i \in DOMAIN ps : Converted(ps, took, to)[i] = KeptAs(ps, took, to, i)
         /\ \A i \in DOMAIN Converted(ps, took, to) \ DOMAIN ps :
              \E j \in Split(ps, took) : Converted(ps, took, to)[i] = Piece(ps, took, to, j)
         /\ \A l, states :
              /\ PickSum(Converted(ps, took, to), l, states)
                   = SumFunctionOnSet(After(ps, took, to, l, states), DOMAIN ps)
              /\ \A i \in DOMAIN ps : AfterOf(ps, took, to, l, states, i) \in Nat
  <1> DEFINE K == Kept(ps, took, to)
             Q == Pieces(ps, took, to)
             N == Converted(ps, took, to)
             m == Len(ps)
             c == Cardinality(Split(ps, took))
  <1>1. N = K \o Q
    BY ConvertedIs
  <1>2. /\ K \in Seq(Pick) /\ Len(K) = m /\ DOMAIN K = 1..m /\ DOMAIN ps = 1..m /\ m \in Nat
        /\ \A i \in DOMAIN ps : K[i] = KeptAs(ps, took, to, i)
    BY KeptIs, PicksAre
  <1>3. Q \in Seq(Pick) /\ Len(Q) = c /\ DOMAIN Q = 1..c /\ c \in Nat
    BY PiecesAre
  <1> HIDE DEF K, Q, N, c
  <1>7. /\ N \in Seq(Pick) /\ DOMAIN N = 1..(m + c)
        /\ \A i \in 1..m : N[i] = K[i]
        /\ \A i \in 1..c : N[m + i] = Q[i]
    <2>0. /\ K \o Q \in Seq(Pick) /\ Len(K \o Q) = Len(K) + Len(Q)
          /\ \A i \in 1..(Len(K) + Len(Q)) :
               (K \o Q)[i] = IF i <= Len(K) THEN K[i] ELSE Q[i - Len(K)]
      BY <1>2, <1>3, ConcatProperties
    <2>1. N \in Seq(Pick) /\ Len(N) = m + c
      BY <1>1, <1>2, <1>3, <2>0
    <2>2. DOMAIN N = 1..(m + c)
      BY <2>1, LenProperties
    <2>3. \A i \in 1..(m + c) : N[i] = IF i <= m THEN K[i] ELSE Q[i - m]
      BY <1>1, <1>2, <1>3, <2>0
    <2>4. \A i \in 1..m : i \in 1..(m + c) /\ i <= m
      BY <1>2, <1>3
    <2>5. \A i \in 1..c : m + i \in 1..(m + c) /\ ~(m + i <= m) /\ (m + i) - m = i
      BY <1>2, <1>3
    <2> QED BY <2>1, <2>2, <2>3, <2>4, <2>5
  <1>8. ASSUME NEW l, NEW states
        PROVE  /\ PickSum(N, l, states) = SumFunctionOnSet(After(ps, took, to, l, states), DOMAIN ps)
               /\ \A i \in DOMAIN ps : AfterOf(ps, took, to, l, states, i) \in Nat
    <2> DEFINE a == Weights(K, l, states)
               b == Weights(Q, l, states)
               n == Weights(N, l, states)
               v == [i \in DOMAIN ps |->
                       IF i \in Split(ps, took) THEN Weight(Piece(ps, took, to, i), l, states) ELSE 0]
               h == After(ps, took, to, l, states)
    <2>1. (\A i \in 1..m : a[i] \in Nat) /\ (\A i \in 1..c : b[i] \in Nat)
      BY <1>2, <1>3, PicksAre DEF Weights, Weight
    <2>2. /\ \A i \in 1..m : n[i] = a[i]
          /\ \A i \in 1..c : n[m + i] = b[i]
      <3>1. /\ \A i \in 1..m : i \in DOMAIN N /\ i \in DOMAIN K
            /\ \A i \in 1..c : m + i \in DOMAIN N /\ i \in DOMAIN Q
        BY <1>2, <1>3, <1>7
      <3> QED BY <1>7, <3>1 DEF Weights
    <2>3. Joined(a, m, b, c, n)
      <3> HIDE DEF a, b, n
      <3> QED BY <1>2, <1>3, <2>1, <2>2 DEF Joined
    <2>4. PickSum(N, l, states) = SumFunctionOnSet(n, 1..(m + c))
      BY <1>7, PickSumWeights
    <2>5. SumFunctionOnSet(b, 1..c) = SumFunctionOnSet(v, DOMAIN ps) /\ \A i \in DOMAIN ps : v[i] \in Nat
      BY PiecesSum DEF Q, c
    <2>6. \A i \in DOMAIN ps : h[i] = a[i] + v[i] /\ h[i] = AfterOf(ps, took, to, l, states, i)
      BY <1>2 DEF After, AfterOf, Weights
    <2> HIDE DEF a, b, n, v, h
    <2>7. SumFunctionOnSet(n, 1..(m + c)) = SumFunctionOnSet(a, 1..m) + SumFunctionOnSet(b, 1..c)
      BY <2>3, SumConcat
    <2>8. IsFiniteSet(DOMAIN ps) /\ \A i \in DOMAIN ps : a[i] \in Int /\ v[i] \in Int /\ h[i] = a[i] + v[i]
      BY <1>2, <2>1, <2>5, <2>6, PicksAre
    <2>9. SumFunctionOnSet(h, DOMAIN ps) = SumFunctionOnSet(a, DOMAIN ps) + SumFunctionOnSet(v, DOMAIN ps)
      BY <2>8, SumPlus
    <2>10. PickSum(N, l, states) = SumFunctionOnSet(h, DOMAIN ps)
      BY <1>2, <2>4, <2>5, <2>7, <2>9
    <2>11. \A i \in DOMAIN ps : AfterOf(ps, took, to, l, states, i) \in Nat
      BY <1>2, <2>1, <2>5, <2>6
    <2> QED BY <2>10, <2>11 DEF h
  <1>9. DOMAIN ps \subseteq DOMAIN N /\ \A i \in DOMAIN ps : N[i] = KeptAs(ps, took, to, i)
    BY <1>2, <1>3, <1>7
  <1>10. \A i \in DOMAIN N \ DOMAIN ps : \E j \in Split(ps, took) : N[i] = Piece(ps, took, to, j)
    <2>1. \A k \in 1..c : Q[k] = Piece(ps, took, to, Cuts(ps, took)[k]) /\ Cuts(ps, took)[k] \in Split(ps, took)
      BY PiecesAre DEF Q, c
    <2>2. \A i \in DOMAIN N \ DOMAIN ps : \E k \in 1..c : N[i] = Q[k]
      <3>1. ASSUME NEW i \in DOMAIN N \ DOMAIN ps PROVE \E k \in 1..c : N[i] = Q[k]
        <4>1. i \in 1..(m + c) /\ ~(i <= m)
          BY <1>2, <1>7, <3>1
        <4>2. i - m \in 1..c /\ i = m + (i - m)
          BY <1>2, <1>3, <4>1
        <4> QED BY <1>7, <4>2
      <3> QED BY <3>1
    <2> QED BY <2>1, <2>2
  <1> QED BY <1>7, <1>8, <1>9, <1>10 DEF N

(* What a pick and its piece weigh, case by case.                          *)
LEMMA AfterCases ==
  ASSUME NEW ps \in Seq(Pick), NEW took, Took(ps, took), NEW to \in PickStates, NEW l, NEW states,
         NEW i \in DOMAIN ps
  PROVE  AfterOf(ps, took, to, l, states, i) =
           IF ps[i].line # l THEN 0
           ELSE IF i \in Split(ps, took)
                THEN (IF ps[i].state \in states THEN ps[i].qty - took[i] ELSE 0)
                     + (IF to \in states THEN took[i] ELSE 0)
           ELSE IF i \in DOMAIN took /\ took[i] > 0 THEN (IF to \in states THEN ps[i].qty ELSE 0)
           ELSE IF ps[i].state \in states THEN ps[i].qty ELSE 0
  <1>1. ps[i] \in Pick /\ ps[i].qty \in Nat
    BY PicksAre
  <1>2. CASE i \in Split(ps, took)
    <2>1. took[i] \in Nat
      BY <1>2, TookIs
    <2>2. /\ KeptAs(ps, took, to, i).line = ps[i].line
          /\ KeptAs(ps, took, to, i).state = ps[i].state
          /\ KeptAs(ps, took, to, i).qty = ps[i].qty - took[i]
      <3>1. KeptAs(ps, took, to, i) = [ps[i] EXCEPT !.qty = ps[i].qty - took[i]]
        BY <1>2 DEF KeptAs
      <3> QED BY <1>1, <3>1 DEF Pick
    <2>3. /\ Piece(ps, took, to, i).line = ps[i].line
          /\ Piece(ps, took, to, i).qty = took[i] /\ Piece(ps, took, to, i).state = to
      BY <1>2, PiecesAre
    <2> QED BY <1>1, <1>2, <2>1, <2>2, <2>3 DEF AfterOf, Weight
  <1>3. CASE i \notin Split(ps, took) /\ i \in DOMAIN took /\ took[i] > 0
    <2>1. KeptAs(ps, took, to, i) = [ps[i] EXCEPT !.state = to]
      BY <1>3 DEF KeptAs
    <2>2. /\ KeptAs(ps, took, to, i).line = ps[i].line
          /\ KeptAs(ps, took, to, i).state = to /\ KeptAs(ps, took, to, i).qty = ps[i].qty
      BY <1>1, <2>1 DEF Pick
    <2> QED BY <1>1, <1>3, <2>2 DEF AfterOf, Weight
  <1>4. CASE i \notin Split(ps, took) /\ ~(i \in DOMAIN took /\ took[i] > 0)
    <2>1. KeptAs(ps, took, to, i) = ps[i]
      BY <1>4 DEF KeptAs
    <2> QED BY <1>1, <1>4, <2>1 DEF AfterOf, Weight
  <1> QED BY <1>2, <1>3, <1>4

(* What a transaction took of the picks of a line.                         *)
TookOn(ps, took, l) == [i \in DOMAIN took |-> IF ps[i].line = l THEN took[i] ELSE 0]
TookSum(ps, took, l) == SumFunctionOnSet(TookOn(ps, took, l), DOMAIN took)
TookNone(ps, took, l) == \A i \in DOMAIN took : ps[i].line = l => took[i] = 0

(* A line of which nothing was taken keeps its quantities.                 *)
LEMMA AfterNone ==
  ASSUME NEW ps \in Seq(Pick), NEW took, Took(ps, took), NEW to \in PickStates, NEW l, NEW states,
         TookNone(ps, took, l)
  PROVE  PickSum(Converted(ps, took, to), l, states) = PickSum(ps, l, states)
  <1> DEFINE f == After(ps, took, to, l, states)
             g == Weights(ps, l, states)
  <1>1. ASSUME NEW i \in DOMAIN ps PROVE f[i] \in Int /\ f[i] = g[i]
    <2>1. f[i] = AfterOf(ps, took, to, l, states, i) /\ g[i] = Weight(ps[i], l, states)
      BY DEF After, Weights
    <2>2. ps[i].qty \in Nat
      BY PicksAre
    <2>3. ps[i].line = l => i \notin Split(ps, took) /\ ~(i \in DOMAIN took /\ took[i] > 0)
      BY TookIs DEF TookNone
    <2> QED BY <2>1, <2>2, <2>3, AfterCases DEF Weight
  <1>2. /\ PickSum(Converted(ps, took, to), l, states) = SumFunctionOnSet(f, DOMAIN ps)
        /\ PickSum(ps, l, states) = SumFunctionOnSet(g, DOMAIN ps)
        /\ IsFiniteSet(DOMAIN ps)
    BY ConvertedPicks, PickSumWeights, PicksAre
  <1> HIDE DEF f, g
  <1> QED BY <1>1, <1>2, SumSame

(* Picks are split and change hands, but none is cancelled.                *)
LEMMA AfterActive ==
  ASSUME NEW ps \in Seq(Pick), NEW took, Took(ps, took), NEW to \in {"picked", "shipped"}, NEW l
  PROVE  PickSum(Converted(ps, took, to), l, {"picked", "shipped"}) >= PickSum(ps, l, {"picked", "shipped"})
  <1> DEFINE states == {"picked", "shipped"}
             f == After(ps, took, to, l, states)
             g == Weights(ps, l, states)
  <1>0. to \in PickStates /\ to \in states
    BY DEF PickStates
  <1>1. ASSUME NEW i \in DOMAIN ps PROVE f[i] \in Int /\ g[i] \in Int /\ g[i] <= f[i]
    <2>1. f[i] = AfterOf(ps, took, to, l, states, i) /\ g[i] = Weight(ps[i], l, states)
      BY DEF After, Weights
    <2>2. ps[i].qty \in Nat
      BY PicksAre
    <2>3. i \in Split(ps, took) => took[i] \in Nat
      BY TookIs
    <2> HIDE DEF states
    <2> QED BY <1>0, <2>1, <2>2, <2>3, AfterCases DEF Weight
  <1>2. /\ PickSum(Converted(ps, took, to), l, states) = SumFunctionOnSet(f, DOMAIN ps)
        /\ PickSum(ps, l, states) = SumFunctionOnSet(g, DOMAIN ps)
        /\ IsFiniteSet(DOMAIN ps)
        /\ PickSum(ps, l, states) \in Nat
    BY <1>0, ConvertedPicks, PickSumWeights, PicksAre
  <1>3. SumFunctionOnSet(f, DOMAIN ps) \in Int
    <2> HIDE DEF f, g
    <2>1. \A i \in DOMAIN ps : f[i] \in Int
      BY <1>1
    <2> QED BY <1>2, <2>1, SumType
  <1> HIDE DEF f, g
  <1>4. SumFunctionOnSet(g, DOMAIN ps) <= SumFunctionOnSet(f, DOMAIN ps)
    BY <1>1, <1>2, SumOrder
  <1> QED BY <1>2, <1>3, <1>4

(* A dispatch makes at most what it took count as shipped.                 *)
LEMMA AfterShip ==
  ASSUME NEW ps \in Seq(Pick), NEW took, Took(ps, took), NEW l
  PROVE  /\ PickSum(Converted(ps, took, "shipped"), l, {"shipped"})
              <= PickSum(ps, l, {"shipped"}) + TookSum(ps, took, l)
         /\ PickSum(Converted(ps, took, "shipped"), l, {"shipped"}) \in Int
         /\ TookSum(ps, took, l) \in Int
  <1> DEFINE D == DOMAIN ps
             T == DOMAIN took
             f == After(ps, took, "shipped", l, {"shipped"})
             g == Weights(ps, l, {"shipped"})
             t == TookOn(ps, took, l)
             u == [i \in D |-> IF i \in T THEN t[i] ELSE 0]
             h == [i \in D |-> g[i] + u[i]]
  <1>0. "shipped" \in PickStates
    BY DEF PickStates
  <1>1. IsFiniteSet(D) /\ T \in SUBSET D
    BY PicksAre, TookIs
  <1>2. \A i \in T : t[i] \in Int
    BY TookIs DEF TookOn
  <1>3. ASSUME NEW i \in D
        PROVE  /\ g[i] \in Int /\ u[i] \in Int /\ f[i] \in Int
               /\ f[i] <= g[i] + u[i]
    <2>1. f[i] = AfterOf(ps, took, "shipped", l, {"shipped"}, i) /\ g[i] = Weight(ps[i], l, {"shipped"})
      BY DEF After, Weights
    <2>2. ps[i].qty \in Nat
      BY PicksAre
    <2>3. /\ i \in Split(ps, took) => i \in T /\ took[i] \in Nat
          /\ i \in T => took[i] \in Nat
          /\ i \in T /\ i \notin Split(ps, took) /\ took[i] > 0 => took[i] >= ps[i].qty
      BY TookIs
    <2>4. u[i] = IF i \in T /\ ps[i].line = l THEN took[i] ELSE 0
      BY DEF TookOn
    <2> HIDE DEF u, f, g
    <2> QED BY <1>0, <2>1, <2>2, <2>3, <2>4, AfterCases DEF Weight
  <1>4. /\ PickSum(Converted(ps, took, "shipped"), l, {"shipped"}) = SumFunctionOnSet(f, D)
        /\ PickSum(ps, l, {"shipped"}) = SumFunctionOnSet(g, D)
        /\ TookSum(ps, took, l) = SumFunctionOnSet(t, T)
    BY <1>0, ConvertedPicks, PickSumWeights DEF TookSum
  <1>5. (\A i \in T : u[i] = t[i]) /\ \A i \in D \ T : u[i] = 0
    BY <1>1
  <1>6. \A i \in D : h[i] = g[i] + u[i]
    OBVIOUS
  <1> HIDE DEF f, g, t, u, h, D, T
  <1>7. SumFunctionOnSet(u, D) = SumFunctionOnSet(t, T)
    BY <1>1, <1>2, <1>5, SumWhere
  <1>8. SumFunctionOnSet(h, D) = SumFunctionOnSet(g, D) + SumFunctionOnSet(u, D)
    <2>1. \A i \in D : g[i] \in Int /\ u[i] \in Int /\ h[i] = g[i] + u[i]
      BY <1>3, <1>6
    <2> QED BY <1>1, <2>1, SumPlus
  <1>9. SumFunctionOnSet(f, D) <= SumFunctionOnSet(h, D)
    <2>1. \A i \in D : f[i] \in Int /\ h[i] \in Int /\ f[i] <= h[i]
      BY <1>3, <1>6
    <2> QED BY <1>1, <2>1, SumOrder
  <1>10. SumFunctionOnSet(f, D) \in Int /\ SumFunctionOnSet(t, T) \in Int
    <2>1. (\A i \in D : f[i] \in Int) /\ (\A i \in D : u[i] \in Int)
      BY <1>3
    <2> QED BY <1>1, <1>7, <2>1, SumType
  <1> QED BY <1>4, <1>7, <1>8, <1>9, <1>10

(* What is found to take is what is asked for, or all there is.            *)
LEMMA FoundTook ==
  ASSUME NEW ps \in Seq(Pick), NEW parts \in Parts, NEW from
  PROVE  /\ Took(ps, TakenOf(ps, parts, from)) /\ DOMAIN TakenOf(ps, parts, from) = DOMAIN ps
         /\ \A i \in DOMAIN ps : TakenOf(ps, parts, from)[i] <= parts[ps[i].line]
         /\ \A l \in Lines :
              TookSum(ps, TakenOf(ps, parts, from), l) = Smaller(parts[l], PickSum(ps, l, {from}))
  <1> DEFINE t == TakenOf(ps, parts, from)
  <1>1. DOMAIN ps = 1..Len(ps) /\ Len(ps) \in Nat /\ IsFiniteSet(DOMAIN ps)
    BY PicksAre
  <1>2. DOMAIN t = DOMAIN ps
    BY DEF TakenOf
  <1>3. \A i \in DOMAIN ps : t[i] \in Nat
    BY TakenIs
  <1>4. t = [i \in DOMAIN ps |-> t[i]]
    BY DEF TakenOf
  <1>5. Took(ps, t)
    <2> HIDE DEF t
    <2>1. t \in [1..Len(ps) -> Nat]
      BY <1>1, <1>3, <1>4
    <2>2. t \in Seq(Nat)
      BY <1>1, <2>1, SeqDef
    <2> QED BY <1>2, <2>2 DEF Took
  <1>6. ASSUME NEW i \in DOMAIN ps PROVE t[i] <= parts[ps[i].line]
    <2>1. parts[ps[i].line] \in Nat /\ ps[i].qty \in Nat /\ Earlier(ps, ps[i].line, from, i) \in Nat
      BY PicksAre, EarlierType DEF Parts
    <2>2. /\ ps[i].state # from => t[i] = 0
          /\ ps[i].state = from => t[i] =
               Smaller(ps[i].qty, Larger(0, parts[ps[i].line] - Earlier(ps, ps[i].line, from, i)))
      BY TakenIs
    <2> HIDE DEF t
    <2> QED BY <2>1, <2>2 DEF Smaller, Larger
  <1>7. ASSUME NEW l \in Lines
        PROVE  TookSum(ps, t, l) = Smaller(parts[l], PickSum(ps, l, {from}))
    <2> DEFINE g == TookOn(ps, t, l)
               S == DOMAIN ps
               U == PicksIn(ps, l, {from})
    <2>1. U \in SUBSET S
      BY DEF PicksIn
    <2>2. \A i \in U : g[i] = t[i] /\ t[i] \in Int
      <3> HIDE DEF t
      <3> QED BY <1>2, <1>3, <2>1 DEF TookOn, PicksIn
    <2>3. \A i \in S \ U : g[i] = 0
      <3>1. \A i \in S : ps[i].state # from => t[i] = 0
        BY TakenIs
      <3> HIDE DEF t
      <3> QED BY <1>2, <3>1 DEF TookOn, PicksIn
    <2>4. SumFunctionOnSet(t, U) = Smaller(parts[l], PickSum(ps, l, {from}))
      BY TakenSum
    <2>5. TookSum(ps, t, l) = SumFunctionOnSet(g, S)
      BY <1>2 DEF TookSum
    <2> HIDE DEF g, S, U, t
    <2>6. SumFunctionOnSet(g, S) = SumFunctionOnSet(t, U)
      BY <1>1, <2>1, <2>2, <2>3, SumWhere DEF S
    <2> QED BY <2>4, <2>5, <2>6
  <1> QED BY <1>2, <1>5, <1>6, <1>7

(* What stays shipped when a dispatch is cancelled.                        *)
LEMMA AfterUnship ==
  ASSUME NEW ps \in Seq(Pick), NEW parts \in Parts, NEW l \in Lines
  PROVE  PickSum(Converted(ps, TakenOf(ps, parts, "shipped"), "picked"), l, {"shipped"}) =
           PickSum(ps, l, {"shipped"}) - Smaller(parts[l], PickSum(ps, l, {"shipped"}))
  <1> DEFINE took == TakenOf(ps, parts, "shipped")
             D == DOMAIN ps
             f == After(ps, took, "picked", l, {"shipped"})
             g == Weights(ps, l, {"shipped"})
             t == TookOn(ps, took, l)
  <1>0. "picked" \in PickStates
    BY DEF PickStates
  <1>1. Took(ps, took) /\ DOMAIN took = D /\ IsFiniteSet(D)
    BY FoundTook, PicksAre
  <1>2. ASSUME NEW i \in D
        PROVE  f[i] \in Int /\ t[i] \in Int /\ g[i] \in Int /\ g[i] = f[i] + t[i]
    <2>1. f[i] = AfterOf(ps, took, "picked", l, {"shipped"}, i) /\ g[i] = Weight(ps[i], l, {"shipped"})
      BY DEF After, Weights
    <2>2. ps[i].qty \in Nat
      BY PicksAre
    <2>3. took[i] \in Nat /\ took[i] <= ps[i].qty /\ (ps[i].state # "shipped" => took[i] = 0)
      BY TakenIs
    <2>4. t[i] = IF ps[i].line = l THEN took[i] ELSE 0
      BY <1>1 DEF TookOn
    <2> HIDE DEF took, t, f, g
    <2>5. i \in DOMAIN took /\ i \notin Split(ps, took) /\ took[i] > 0 => took[i] >= ps[i].qty
      BY <1>1, TookIs
    <2>6. i \in Split(ps, took) => took[i] > 0 /\ ps[i].state = "shipped"
      BY <1>1, <2>3, TookIs
    <2>7. AfterOf(ps, took, "picked", l, {"shipped"}, i) =
           IF ps[i].line # l THEN 0
           ELSE IF i \in Split(ps, took)
                THEN (IF ps[i].state \in {"shipped"} THEN ps[i].qty - took[i] ELSE 0)
                     + (IF "picked" \in {"shipped"} THEN took[i] ELSE 0)
           ELSE IF i \in DOMAIN took /\ took[i] > 0 THEN (IF "picked" \in {"shipped"} THEN ps[i].qty ELSE 0)
           ELSE IF ps[i].state \in {"shipped"} THEN ps[i].qty ELSE 0
      BY <1>0, <1>1, AfterCases
    <2>8. Weight(ps[i], l, {"shipped"}) = IF ps[i].line = l /\ ps[i].state = "shipped" THEN ps[i].qty ELSE 0
      BY DEF Weight
    <2> QED BY <1>1, <2>1, <2>2, <2>3, <2>4, <2>5, <2>6, <2>7, <2>8
  <1>3. /\ PickSum(Converted(ps, took, "picked"), l, {"shipped"}) = SumFunctionOnSet(f, D)
        /\ PickSum(ps, l, {"shipped"}) = SumFunctionOnSet(g, D)
        /\ TookSum(ps, took, l) = SumFunctionOnSet(t, D)
    BY <1>0, <1>1, ConvertedPicks, PickSumWeights DEF TookSum
  <1>4. TookSum(ps, took, l) = Smaller(parts[l], PickSum(ps, l, {"shipped"}))
    BY FoundTook
  <1> HIDE DEF f, g, t, D, took
  <1>5. SumFunctionOnSet(g, D) = SumFunctionOnSet(f, D) + SumFunctionOnSet(t, D)
    BY <1>1, <1>2, SumPlus
  <1>6. SumFunctionOnSet(f, D) \in Int /\ SumFunctionOnSet(t, D) \in Int
    <2>1. (\A i \in D : f[i] \in Int) /\ (\A i \in D : t[i] \in Int)
      BY <1>2
    <2> QED BY <1>1, <2>1, SumType
  <1> QED BY <1>3, <1>4, <1>5, <1>6 DEF took

(* When others add picks and cancel some before it commits, less stays     *)
(* shipped.                                                                *)
LineKept(ps, qs, l) ==
  /\ DOMAIN ps \subseteq DOMAIN qs
  /\ \A i \in DOMAIN ps :
       /\ qs[i].line = ps[i].line
       /\ ps[i].line = l =>
            qs[i] = ps[i] \/ (qs[i].qty = ps[i].qty /\ qs[i].state = "cancelled")
  /\ \A i \in DOMAIN qs \ DOMAIN ps : qs[i].line = l => qs[i].state = "picked"

LEMMA AfterLess ==
  ASSUME NEW ps \in Seq(Pick), NEW qs \in Seq(Pick), NEW took, Took(ps, took), Took(qs, took),
         NEW l, LineKept(ps, qs, l)
  PROVE  PickSum(Converted(qs, took, "picked"), l, {"shipped"})
           <= PickSum(Converted(ps, took, "picked"), l, {"shipped"})
  <1> DEFINE D == DOMAIN ps
             E == DOMAIN qs
             f == After(ps, took, "picked", l, {"shipped"})
             g == After(qs, took, "picked", l, {"shipped"})
             h == [i \in E |-> IF i \in D THEN f[i] ELSE 0]
  <1>0. "picked" \in PickStates
    BY DEF PickStates
  <1>1. IsFiniteSet(D) /\ IsFiniteSet(E) /\ D \in SUBSET E /\ DOMAIN took \subseteq D
    BY PicksAre DEF LineKept, Took
  <1>2. /\ \A i \in D : f[i] = AfterOf(ps, took, "picked", l, {"shipped"}, i)
        /\ \A i \in E : g[i] = AfterOf(qs, took, "picked", l, {"shipped"}, i)
    BY DEF After
  <1>3. (\A i \in D : f[i] \in Nat) /\ (\A i \in E : g[i] \in Nat)
    BY <1>0, <1>2, ConvertedPicks
  <1>4. ASSUME NEW i \in D PROVE g[i] <= f[i]
    <2>0. i \in E
      BY <1>1
    <2>1. qs[i].line = ps[i].line
      BY DEF LineKept
    <2> HIDE DEF f, g
    <2>2. CASE ps[i].line # l
      <3>1. AfterOf(qs, took, "picked", l, {"shipped"}, i) = 0
        BY <1>0, <2>0, <2>1, <2>2, AfterCases
      <3> QED BY <1>2, <1>3, <2>0, <3>1
    <2>3. CASE ps[i].line = l /\ qs[i] = ps[i]
      <3>1. i \in Split(qs, took) <=> i \in Split(ps, took)
        BY <2>3 DEF Split, SplitPicks
      <3>2. AfterOf(qs, took, "picked", l, {"shipped"}, i) = AfterOf(ps, took, "picked", l, {"shipped"}, i)
        BY <2>3, <3>1 DEF AfterOf, KeptAs, Piece
      <3> QED BY <1>2, <1>3, <2>0, <3>2
    <2>4. CASE ps[i].line = l /\ qs[i].state = "cancelled"
      <3>1. AfterOf(qs, took, "picked", l, {"shipped"}, i) = 0
        BY <1>0, <2>0, <2>4, AfterCases
      <3> QED BY <1>2, <1>3, <2>0, <3>1
    <2> QED BY <2>2, <2>3, <2>4 DEF LineKept
  <1>5. ASSUME NEW i \in E \ D PROVE g[i] = 0
    <2>1. i \notin DOMAIN took /\ i \notin Split(qs, took)
      BY <1>1, <1>5, TookIs
    <2>2. qs[i].line = l => qs[i].state = "picked"
      BY <1>5 DEF LineKept
    <2>3. AfterOf(qs, took, "picked", l, {"shipped"}, i) = 0
      BY <1>0, <1>5, <2>1, <2>2, AfterCases
    <2> QED BY <1>2, <1>5, <2>3
  <1>6. /\ PickSum(Converted(ps, took, "picked"), l, {"shipped"}) = SumFunctionOnSet(f, D)
        /\ PickSum(Converted(qs, took, "picked"), l, {"shipped"}) = SumFunctionOnSet(g, E)
    BY <1>0, ConvertedPicks
  <1>7. (\A i \in D : h[i] = f[i]) /\ (\A i \in E \ D : h[i] = 0)
    BY <1>1
  <1> HIDE DEF f, g, h, D, E
  <1>8. SumFunctionOnSet(h, E) = SumFunctionOnSet(f, D)
    <2>1. \A i \in D : f[i] \in Int
      BY <1>3
    <2> QED BY <1>1, <1>7, <2>1, SumWhere
  <1>9. SumFunctionOnSet(g, E) <= SumFunctionOnSet(h, E)
    <2>1. \A i \in E : g[i] \in Int /\ h[i] \in Int /\ g[i] <= h[i]
      BY <1>3, <1>4, <1>5, <1>7
    <2> QED BY <1>1, <2>1, SumOrder
  <1> QED BY <1>6, <1>8, <1>9

(***************************************************************************)
(* One pick or shipment more, and one that changes.                        *)
(***************************************************************************)
LEMMA SumLonger ==
  ASSUME NEW n \in Nat, NEW f, NEW g,
         \A i \in 1..n : f[i] \in Int /\ g[i] = f[i], g[n + 1] \in Int
  PROVE  SumFunctionOnSet(g, 1..(n + 1)) = SumFunctionOnSet(f, 1..n) + g[n + 1]
  <1> DEFINE S == 1..n
             U == 1..(n + 1)
             last == g[n + 1]
  <1>1. IsFiniteSet(S)
    BY FS_Interval
  <1>2. U = S \cup {n + 1} /\ n + 1 \notin S
    OBVIOUS
  <1>3. (\A i \in S : f[i] \in Int /\ g[i] = f[i]) /\ \A i \in S \cup {n + 1} : g[i] \in Int
    OBVIOUS
  <1> HIDE DEF S, U
  <1>4. SumFunctionOnSet(g, S \cup {n + 1}) = g[n + 1] + SumFunctionOnSet(g, S)
    BY <1>1, <1>2, <1>3, SumAdd
  <1>5. SumFunctionOnSet(g, S) = SumFunctionOnSet(f, S) /\ SumFunctionOnSet(f, S) \in Int
    BY <1>1, <1>3, SumSame, SumType
  <1>6. SumFunctionOnSet(g, U) = last + SumFunctionOnSet(g, S) /\ last \in Int
    BY <1>2, <1>4
  <1> HIDE DEF last
  <1>7. SumFunctionOnSet(g, U) = SumFunctionOnSet(f, S) + last
    BY <1>5, <1>6
  <1> QED BY <1>7 DEF S, U, last

LEMMA Appended ==
  ASSUME NEW S, NEW s \in Seq(S), NEW x \in S
  PROVE  /\ Append(s, x) \in Seq(S) /\ Len(s) \in Nat /\ DOMAIN s = 1..Len(s)
         /\ DOMAIN Append(s, x) = 1..(Len(s) + 1)
         /\ \A i \in 1..Len(s) : Append(s, x)[i] = s[i]
         /\ Append(s, x)[Len(s) + 1] = x
  BY AppendProperties, LenProperties

LEMMA Replaced ==
  ASSUME NEW S, NEW s \in Seq(S), NEW i \in DOMAIN s, NEW x \in S
  PROVE  /\ [s EXCEPT ![i] = x] \in Seq(S)
         /\ DOMAIN [s EXCEPT ![i] = x] = DOMAIN s
         /\ [s EXCEPT ![i] = x][i] = x
         /\ \A j \in DOMAIN s \ {i} : [s EXCEPT ![i] = x][j] = s[j]
  BY ExceptSeq, LenProperties

LEMMA PickSumAppend ==
  ASSUME NEW ps \in Seq(Pick), NEW x \in Pick, NEW l, NEW states
  PROVE  PickSum(Append(ps, x), l, states) = PickSum(ps, l, states) + Weight(x, l, states)
  <1> DEFINE qs == Append(ps, x)
             n == Len(ps)
             f == Weights(ps, l, states)
             g == Weights(qs, l, states)
  <1>1. /\ qs \in Seq(Pick) /\ n \in Nat /\ DOMAIN ps = 1..n /\ DOMAIN qs = 1..(n + 1)
        /\ \A i \in 1..n : qs[i] = ps[i]
        /\ qs[n + 1] = x
    BY Appended
  <1>2. /\ PickSum(qs, l, states) = SumFunctionOnSet(g, 1..(n + 1))
        /\ PickSum(ps, l, states) = SumFunctionOnSet(f, 1..n)
    <2> HIDE DEF qs, n
    <2> QED BY <1>1, PickSumWeights
  <1>3. \A i \in 1..n : f[i] \in Int
    BY <1>1, PicksAre DEF Weights, Weight
  <1>4. \A i \in 1..n : g[i] = f[i]
    <2> HIDE DEF qs, n
    <2>1. \A i \in 1..n : i \in 1..(n + 1)
      BY <1>1
    <2> QED BY <1>1, <2>1 DEF Weights
  <1>5. g[n + 1] = Weight(x, l, states) /\ g[n + 1] \in Int
    <2> HIDE DEF qs, n
    <2>1. n + 1 \in 1..(n + 1)
      BY <1>1
    <2>2. g[n + 1] = Weight(x, l, states)
      BY <1>1, <2>1 DEF Weights
    <2> HIDE DEF g
    <2> QED BY <2>2 DEF Weight, Pick
  <1> HIDE DEF f, g, qs, n
  <1> QED BY <1>1, <1>2, <1>3, <1>4, <1>5, SumLonger DEF qs

LEMMA PickSumReplace ==
  ASSUME NEW ps \in Seq(Pick), NEW i \in DOMAIN ps, NEW x \in Pick, NEW l, NEW states
  PROVE  PickSum([ps EXCEPT ![i] = x], l, states) =
           PickSum(ps, l, states) - Weight(ps[i], l, states) + Weight(x, l, states)
  <1> DEFINE qs == [ps EXCEPT ![i] = x]
             D == DOMAIN ps
             f == Weights(ps, l, states)
             g == Weights(qs, l, states)
  <1>1. /\ qs \in Seq(Pick) /\ DOMAIN qs = D /\ IsFiniteSet(D) /\ i \in D
        /\ qs[i] = x /\ \A j \in D \ {i} : qs[j] = ps[j]
    BY Replaced, PicksAre
  <1>2. /\ PickSum(qs, l, states) = SumFunctionOnSet(g, D)
        /\ PickSum(ps, l, states) = SumFunctionOnSet(f, D)
    <2> HIDE DEF qs
    <2> QED BY <1>1, PickSumWeights
  <1>3. \A j \in D : f[j] \in Int
    BY PicksAre DEF Weights, Weight
  <1>4. \A j \in D : g[j] \in Int
    <2> HIDE DEF qs
    <2> QED BY <1>1, PicksAre DEF Weights, Weight
  <1>5. (\A j \in D \ {i} : g[j] = f[j]) /\ g[i] = Weight(x, l, states) /\ f[i] = Weight(ps[i], l, states)
    <2> HIDE DEF qs
    <2> QED BY <1>1 DEF Weights
  <1> HIDE DEF f, g, qs, D
  <1>6. SumFunctionOnSet(g, D) = SumFunctionOnSet(f, D) - f[i] + g[i]
    <2>1. \A j \in D : f[j] \in Int /\ g[j] \in Int
      BY <1>3, <1>4
    <2> QED BY <1>1, <1>5, <2>1, SumExcept
  <1> QED BY <1>2, <1>5, <1>6 DEF qs

Load(x, l) == IF x.state # "cancelled" THEN x.parts[l] ELSE 0
Loads(ss, l) == [i \in DOMAIN ss |-> Load(ss[i], l)]

LEMMA ShipmentsAre ==
  ASSUME NEW ss \in Seq(Shipment)
  PROVE  /\ Len(ss) \in Nat /\ DOMAIN ss = 1..Len(ss) /\ IsFiniteSet(DOMAIN ss)
         /\ \A i \in DOMAIN ss :
              ss[i] \in Shipment /\ ss[i].parts \in Parts /\ ss[i].state \in ShipmentStates
  <1>1. Len(ss) \in Nat /\ DOMAIN ss = 1..Len(ss)
    BY LenProperties
  <1>2. \A i \in DOMAIN ss : ss[i] \in Shipment
    BY <1>1, ElementOfSeq
  <1>3. IsFiniteSet(1..Len(ss))
    BY <1>1, FS_Interval
  <1> QED BY <1>1, <1>2, <1>3 DEF Shipment

LEMMA LoadType ==
  ASSUME NEW x \in Shipment, NEW l \in Lines
  PROVE  Load(x, l) \in Nat
  BY DEF Load, Shipment, Parts

LEMMA ShipmentSumLoads ==
  ASSUME NEW ss \in Seq(Shipment), NEW l \in Lines
  PROVE  /\ ShipmentSum(ss, l) = SumFunctionOnSet(Loads(ss, l), DOMAIN ss)
         /\ ShipmentSum(ss, l) \in Nat
  <1> DEFINE S == DOMAIN ss
             T == {i \in DOMAIN ss : ss[i].state # "cancelled"}
             f == [i \in DOMAIN ss |-> ss[i].parts[l]]
             g == Loads(ss, l)
  <1>1. IsFiniteSet(S) /\ \A i \in S : g[i] \in Nat
    BY ShipmentsAre, LoadType DEF Loads
  <1>2. T \in SUBSET S /\ (\A i \in T : g[i] = f[i]) /\ (\A i \in S \ T : g[i] = 0)
    BY DEF Loads, Load
  <1>3. ShipmentSum(ss, l) = SumFunctionOnSet(f, T)
    BY DEF ShipmentSum
  <1> HIDE DEF f, g, T, S
  <1>4. \A i \in T : f[i] \in Nat
    BY <1>1, <1>2
  <1>5. SumFunctionOnSet(g, S) = SumFunctionOnSet(f, T)
    BY <1>1, <1>2, <1>4, SumWhere
  <1>6. SumFunctionOnSet(g, S) \in Nat
    BY <1>1, SumNatural
  <1> QED BY <1>3, <1>5, <1>6 DEF g, S

LEMMA ShipmentSumAppend ==
  ASSUME NEW ss \in Seq(Shipment), NEW x \in Shipment, NEW l \in Lines
  PROVE  ShipmentSum(Append(ss, x), l) = ShipmentSum(ss, l) + Load(x, l)
  <1> DEFINE rs == Append(ss, x)
             n == Len(ss)
             f == Loads(ss, l)
             g == Loads(rs, l)
  <1>1. /\ rs \in Seq(Shipment) /\ n \in Nat /\ DOMAIN ss = 1..n /\ DOMAIN rs = 1..(n + 1)
        /\ \A i \in 1..n : rs[i] = ss[i]
        /\ rs[n + 1] = x
    BY Appended
  <1>2. /\ ShipmentSum(rs, l) = SumFunctionOnSet(g, 1..(n + 1))
        /\ ShipmentSum(ss, l) = SumFunctionOnSet(f, 1..n)
    <2> HIDE DEF rs, n
    <2> QED BY <1>1, ShipmentSumLoads
  <1>3. \A i \in 1..n : f[i] \in Int
    BY <1>1, ShipmentsAre, LoadType DEF Loads
  <1>4. \A i \in 1..n : g[i] = f[i]
    <2> HIDE DEF rs, n
    <2>1. \A i \in 1..n : i \in 1..(n + 1)
      BY <1>1
    <2> QED BY <1>1, <2>1 DEF Loads
  <1>5. g[n + 1] = Load(x, l) /\ g[n + 1] \in Int
    <2> HIDE DEF rs, n
    <2>1. n + 1 \in 1..(n + 1)
      BY <1>1
    <2>2. g[n + 1] = Load(x, l)
      BY <1>1, <2>1 DEF Loads
    <2> HIDE DEF g
    <2> QED BY <2>2, LoadType
  <1> HIDE DEF f, g, rs, n
  <1> QED BY <1>1, <1>2, <1>3, <1>4, <1>5, SumLonger DEF rs

LEMMA ShipmentSumReplace ==
  ASSUME NEW ss \in Seq(Shipment), NEW i \in DOMAIN ss, NEW x \in Shipment, NEW l \in Lines
  PROVE  /\ ShipmentSum([ss EXCEPT ![i] = x], l) = ShipmentSum(ss, l) - Load(ss[i], l) + Load(x, l)
         /\ Load(ss[i], l) <= ShipmentSum(ss, l)
  <1> DEFINE rs == [ss EXCEPT ![i] = x]
             D == DOMAIN ss
             f == Loads(ss, l)
             g == Loads(rs, l)
  <1>1. /\ rs \in Seq(Shipment) /\ DOMAIN rs = D /\ IsFiniteSet(D) /\ i \in D
        /\ rs[i] = x /\ \A j \in D \ {i} : rs[j] = ss[j]
    BY Replaced, ShipmentsAre
  <1>2. /\ ShipmentSum(rs, l) = SumFunctionOnSet(g, D)
        /\ ShipmentSum(ss, l) = SumFunctionOnSet(f, D)
    <2> HIDE DEF rs
    <2> QED BY <1>1, ShipmentSumLoads
  <1>3. \A j \in D : f[j] \in Nat
    BY ShipmentsAre, LoadType DEF Loads
  <1>4. \A j \in D : g[j] \in Nat
    <2> HIDE DEF rs
    <2> QED BY <1>1, ShipmentsAre, LoadType DEF Loads
  <1>5. (\A j \in D \ {i} : g[j] = f[j]) /\ g[i] = Load(x, l) /\ f[i] = Load(ss[i], l)
    <2> HIDE DEF rs
    <2> QED BY <1>1 DEF Loads
  <1> HIDE DEF f, g, rs, D
  <1>6. SumFunctionOnSet(g, D) = SumFunctionOnSet(f, D) - f[i] + g[i]
    <2>1. \A j \in D : f[j] \in Int /\ g[j] \in Int
      BY <1>3, <1>4
    <2> QED BY <1>1, <1>5, <2>1, SumExcept
  <1>7. f[i] <= SumFunctionOnSet(f, D)
    <2>1. IsFiniteSet(D \ {i})
      BY <1>1, FS_RemoveElement
    <2>2. SumFunctionOnSet(f, D) = f[i] + SumFunctionOnSet(f, D \ {i})
      <3>1. \A j \in D : f[j] \in Int
        BY <1>3
      <3> QED BY <1>1, <3>1, SumRemove
    <2>3. SumFunctionOnSet(f, D \ {i}) \in Nat
      BY <1>3, <2>1, SumNatural
    <2> QED BY <1>1, <1>3, <2>2, <2>3
  <1> QED BY <1>2, <1>5, <1>6, <1>7 DEF rs

(***************************************************************************)
(* Requests and the programs that run them.                                *)
(***************************************************************************)
LEMMA RequestTyped ==
  ASSUME NEW r \in Requests
  PROVE  /\ r.kind \in {"pick", "unpick", "ship", "unship"}
         /\ r.kind = "pick" => /\ r.line \in Lines /\ r.from \in Locations
                               /\ r.qty \in Nat /\ r.qty > 0
         /\ r.kind = "ship" => r.parts \in Parts
         /\ r.kind \in {"unpick", "unship"} => r.id \in Nat
  <1>1. r \in Request
    BY FulfilmentAssumption
  <1> QED BY <1>1 DEF Request

LEMMA RequestChosen == NoRequest \in Requests
  BY FulfilmentAssumption DEF NoRequest

LEMMA HomeIs == \A l \in Lines : Home[l] \in Locations
  BY FulfilmentAssumption

Started(w) == pc[w] \in Active \ {"check"}
Ships(w) == Kind(w) \in {"ship", "unship"}
ControlOf(w) ==
  /\ pc[w] = "ledger" => Perpetual /\ Kind(w) \in {"ship", "unship"}
  /\ pc[w] = "change" => Kind(w) # "pick"
  /\ Started(w) /\ Kind(w) = "unpick" => request[w].id \in DOMAIN picks
  /\ Started(w) /\ Kind(w) = "unship" => request[w].id \in DOMAIN shipments
  /\ pc[w] \in {"order", "commit"} /\ Ships(w) => Took(picks, taken[w])
ControlOK == \A w \in Workers : ControlOf(w)

Acts(w) == Begin(w) \/ Step(w) \/ ResolveDeadlock(w) \/ Lose(w)

LEMMA Finished ==
  ASSUME TypeOK, NEW w \in Workers, Finish(w)
  PROVE  /\ pc'[w] = "idle" /\ request'[w] = NoRequest /\ seen'[w] = 0
         /\ taken'[w] = <<>> /\ held'[w] = {}
  BY DEF Finish, Goto, TypeOK

(* A step of one worker leaves alone what is local to the others.          *)
LEMMA Frame ==
  ASSUME TypeOK, NEW w \in Workers, Acts(w), NEW u \in Workers, u # w
  PROVE  /\ pc'[u] = pc[u] /\ request'[u] = request[u]
         /\ seen'[u] = seen[u] /\ taken'[u] = taken[u] /\ held'[u] = held[u]
  <1>1. ASSUME Finish(w)
        PROVE  /\ pc'[u] = pc[u] /\ request'[u] = request[u]
               /\ seen'[u] = seen[u] /\ taken'[u] = taken[u] /\ held'[u] = held[u]
    BY <1>1 DEF Finish, Goto, TypeOK
  <1>2. CASE Begin(w)
    BY <1>2 DEF Begin, Goto, TypeOK
  <1>3. CASE Check(w) \/ Moved(w) \/ TakeLedger(w) \/ Change(w)
    BY <1>3 DEF Check, Moved, TakeLedger, Change, Goto, TypeOK
  <1>4. CASE LockRow(w) \/ LockOrder(w)
    BY <1>4 DEF LockRow, LockOrder, Take, Goto, TypeOK
  <1>5. CASE Refuse(w) \/ RefuseChange(w) \/ Commit(w) \/ ResolveDeadlock(w) \/ Lose(w)
    BY <1>1, <1>5 DEF Refuse, RefuseChange, Commit, ResolveDeadlock, Lose, Abort
  <1> QED BY <1>2, <1>3, <1>4, <1>5 DEF Acts, Step

(* The tables change by commits only.                                      *)
LEMMA TablesChange ==
  ASSUME NEW w \in Workers, Acts(w)
  PROVE  UNCHANGED tables \/ Commit(w)
  BY DEF Acts, Step, Begin, Check, Refuse, LockRow, Moved, TakeLedger, Change, RefuseChange,
         LockOrder, ResolveDeadlock, Lose, Abort

(* What its own step does to a worker.                                     *)
LEMMA OwnStep ==
  ASSUME TypeOK, NEW w \in Workers, Acts(w)
  PROVE  \/ /\ pc[w] = "idle" /\ pc'[w] = "check" /\ request'[w] \in Requests
            /\ held'[w] = held[w] /\ UNCHANGED tables
         \/ /\ pc'[w] = "idle" /\ request'[w] = NoRequest /\ held'[w] = {}
            /\ UNCHANGED tables \/ Commit(w)
         \/ /\ request'[w] = request[w] /\ UNCHANGED tables
            /\ \/ /\ pc[w] = "check" /\ pc'[w] = "move" /\ Accepted(w)
                  /\ held'[w] = held[w] /\ taken'[w] = taken[w]
                  /\ seen'[w] = IF Kind(w) = "unpick" THEN picks[request[w].id].qty ELSE 0
               \/ /\ seen'[w] = seen[w] /\ taken'[w] = taken[w]
                  /\ \/ /\ pc[w] = "move" /\ pc'[w] = "move"
                        /\ \E r \in NextRows(w) : Blockers(w, r) = {} /\ held'[w] = held[w] \cup {r}
                     \/ /\ pc[w] = "move" /\ RowsLeft(w) = {} /\ held'[w] = held[w]
                        /\ pc'[w] = CASE Kind(w) = "pick" -> "order"
                                      [] Kind(w) \in {"ship", "unship"} /\ Perpetual -> "ledger"
                                      [] OTHER -> "change"
                     \/ /\ pc[w] = "ledger" /\ pc'[w] = "change" /\ Blockers(w, Ledger) = {}
                        /\ held'[w] = held[w] \cup {Ledger}
                     \/ /\ pc[w] = "order" /\ pc'[w] = "commit" /\ Blockers(w, Order) = {}
                        /\ held'[w] = held[w] \cup {Order}
               \/ /\ pc[w] = "change" /\ StillAllowed(w)
                  /\ held'[w] = held[w] /\ seen'[w] = seen[w] /\ taken'[w] = Found(w)
                  /\ pc'[w] = IF Kind(w) = "unpick" \/ RuleFires(w) THEN "order" ELSE "commit"
  <1>1. CASE Begin(w)
    BY <1>1 DEF Begin, Goto, TypeOK
  <1>2. CASE Check(w)
    BY <1>2 DEF Check, Goto, TypeOK
  <1>3. CASE LockRow(w)
    BY <1>3 DEF LockRow, Take, TypeOK
  <1>4. CASE Moved(w)
    BY <1>4 DEF Moved, Goto, TypeOK
  <1>5. CASE TakeLedger(w)
    BY <1>5 DEF TakeLedger, LedgerBlockers, Goto, TypeOK
  <1>6. CASE Change(w)
    BY <1>6 DEF Change, Goto, TypeOK
  <1>7. CASE LockOrder(w)
    BY <1>7 DEF LockOrder, Take, Goto, TypeOK
  <1>8. CASE Refuse(w) \/ RefuseChange(w) \/ Commit(w) \/ ResolveDeadlock(w) \/ Lose(w)
    <2>1. Finish(w)
      BY <1>8 DEF Refuse, RefuseChange, Commit, ResolveDeadlock, Lose, Abort
    <2>2. UNCHANGED tables \/ Commit(w)
      BY TablesChange
    <2> QED BY <2>1, <2>2, Finished
  <1> QED BY <1>1, <1>2, <1>3, <1>4, <1>5, <1>6, <1>7, <1>8 DEF Acts, Step

(***************************************************************************)
(* Commits.                                                                *)
(***************************************************************************)
(* What a request makes of picks and shipments, by its kind.               *)
NewIs(w, took) ==
  /\ Kind(w) = "pick" =>
       /\ NewPick(request[w]) \in Pick /\ request[w].line \in Lines
       /\ NewPicks(w, took) = Append(picks, NewPick(request[w])) /\ NewShipments(w) = shipments
  /\ Kind(w) = "unpick" =>
       /\ request[w].id \in DOMAIN picks /\ NewShipments(w) = shipments
       /\ NewPicks(w, took) =
            [picks EXCEPT ![request[w].id] = [picks[request[w].id] EXCEPT !.state = "cancelled"]]
       /\ [picks[request[w].id] EXCEPT !.state = "cancelled"] \in Pick
  /\ Kind(w) = "ship" =>
       /\ PartsOf(w) \in Parts
       /\ NewPicks(w, took) = Converted(picks, took, "shipped")
       /\ NewShipments(w) = Append(shipments, [parts |-> PartsOf(w), state |-> "dispatched"])
       /\ [parts |-> PartsOf(w), state |-> "dispatched"] \in Shipment
  /\ Kind(w) = "unship" =>
       /\ PartsOf(w) \in Parts /\ request[w].id \in DOMAIN shipments
       /\ PartsOf(w) = shipments[request[w].id].parts
       /\ NewPicks(w, took) = Converted(picks, took, "picked")
       /\ NewShipments(w) =
            [shipments EXCEPT ![request[w].id] = [shipments[request[w].id] EXCEPT !.state = "cancelled"]]
       /\ [shipments[request[w].id] EXCEPT !.state = "cancelled"] \in Shipment

LEMMA NewAre ==
  ASSUME TypeOK, ControlOK, NEW w \in Workers, Started(w), NEW took
  PROVE  NewIs(w, took) /\ Kind(w) \in {"pick", "unpick", "ship", "unship"}
  <1>1. /\ request[w] \in Requests /\ picks \in Seq(Pick) /\ shipments \in Seq(Shipment)
        /\ ControlOf(w)
    BY DEF TypeOK, ControlOK
  <1>4. CASE Kind(w) = "pick"
    <2>1. NewPick(request[w]) \in Pick /\ request[w].line \in Lines
      BY <1>1, <1>4, RequestTyped DEF Kind, NewPick, Pick, PickStates
    <2> QED BY <1>4, <2>1 DEF NewIs, NewPicks, NewShipments
  <1>5. CASE Kind(w) = "unpick"
    <2>1. request[w].id \in DOMAIN picks
      BY <1>1, <1>5 DEF ControlOf
    <2>2. picks[request[w].id] \in Pick
      BY <1>1, <2>1, PicksAre
    <2>3. [picks[request[w].id] EXCEPT !.state = "cancelled"] \in Pick
      BY <2>2 DEF Pick, PickStates
    <2> QED BY <1>5, <2>1, <2>3 DEF NewIs, NewPicks, NewShipments
  <1>6. CASE Kind(w) = "ship"
    <2>1. PartsOf(w) \in Parts
      BY <1>1, <1>6, RequestTyped DEF Kind, PartsOf
    <2>2. [parts |-> PartsOf(w), state |-> "dispatched"] \in Shipment
      BY <2>1 DEF Shipment, ShipmentStates
    <2>3. NewPicks(w, took) = Converted(picks, took, "shipped")
      BY <1>6 DEF NewPicks
    <2> QED BY <1>6, <2>1, <2>2, <2>3 DEF NewIs, NewShipments
  <1>7. CASE Kind(w) = "unship"
    <2>1. request[w].id \in DOMAIN shipments
      BY <1>1, <1>7 DEF ControlOf
    <2>2. shipments[request[w].id] \in Shipment
      BY <1>1, <2>1, ShipmentsAre
    <2>3. [shipments[request[w].id] EXCEPT !.state = "cancelled"] \in Shipment
      BY <2>2 DEF Shipment, ShipmentStates
    <2>4. PartsOf(w) = shipments[request[w].id].parts /\ PartsOf(w) \in Parts
      BY <1>7, <2>2 DEF PartsOf, Shipment
    <2>5. NewPicks(w, took) = Converted(picks, took, "picked")
      BY <1>7 DEF NewPicks
    <2> QED BY <1>7, <2>1, <2>3, <2>4, <2>5 DEF NewIs, NewShipments
  <1> QED BY <1>1, <1>4, <1>5, <1>6, <1>7, RequestTyped DEF Kind

LEMMA ReplacedPick ==
  ASSUME NEW ps \in Seq(Pick), NEW id \in DOMAIN ps
  PROVE  LET x == [ps[id] EXCEPT !.state = "cancelled"] IN
         /\ x.line = ps[id].line /\ x.from = ps[id].from /\ x.qty = ps[id].qty
         /\ x.state = "cancelled" /\ x \in Pick
         /\ [ps EXCEPT ![id] = x] \in Seq(Pick) /\ DOMAIN [ps EXCEPT ![id] = x] = DOMAIN ps
         /\ [ps EXCEPT ![id] = x][id] = x
         /\ \A j \in DOMAIN ps \ {id} : [ps EXCEPT ![id] = x][j] = ps[j]
  <1> DEFINE x == [ps[id] EXCEPT !.state = "cancelled"]
  <1>1. ps[id] \in Pick
    BY PicksAre
  <1>2. /\ x.line = ps[id].line /\ x.from = ps[id].from /\ x.qty = ps[id].qty
        /\ x.state = "cancelled" /\ x \in Pick
    BY <1>1 DEF Pick, PickStates
  <1> HIDE DEF x
  <1>3. /\ [ps EXCEPT ![id] = x] \in Seq(Pick) /\ DOMAIN [ps EXCEPT ![id] = x] = DOMAIN ps
        /\ [ps EXCEPT ![id] = x][id] = x
        /\ \A j \in DOMAIN ps \ {id} : [ps EXCEPT ![id] = x][j] = ps[j]
    BY <1>2, Replaced
  <1> QED BY <1>2, <1>3 DEF x

LEMMA CommitPicks ==
  ASSUME TypeOK, ControlOK, NEW w \in Workers, Started(w), NEW took,
         Ships(w) => Took(picks, took)
  PROVE  /\ NewPicks(w, took) \in Seq(Pick) /\ DOMAIN picks \subseteq DOMAIN NewPicks(w, took)
         /\ \A i \in DOMAIN picks :
              /\ NewPicks(w, took)[i].line = picks[i].line
              /\ NewPicks(w, took)[i].from = picks[i].from
              /\ NewPicks(w, took)[i].qty <= picks[i].qty
         /\ NewShipments(w) \in Seq(Shipment) /\ DOMAIN shipments \subseteq DOMAIN NewShipments(w)
         /\ \A i \in DOMAIN shipments : NewShipments(w)[i].parts = shipments[i].parts
         /\ Ships(w) => PartsOf(w) \in Parts
  <1>1. /\ picks \in Seq(Pick) /\ shipments \in Seq(Shipment)
        /\ NewIs(w, took) /\ Kind(w) \in {"pick", "unpick", "ship", "unship"}
    BY NewAre DEF TypeOK
  <1>0. \A i \in DOMAIN picks : picks[i].qty \in Nat
    BY <1>1, PicksAre
  <1> HIDE DEF TypeOK
  <1>2. CASE Kind(w) = "pick"
    <2> DEFINE x == NewPick(request[w])
    <2>1. x \in Pick /\ NewPicks(w, took) = Append(picks, x) /\ NewShipments(w) = shipments
      BY <1>1, <1>2 DEF NewIs
    <2> HIDE DEF x
    <2>2. /\ Append(picks, x) \in Seq(Pick) /\ DOMAIN picks \subseteq DOMAIN Append(picks, x)
          /\ \A i \in DOMAIN picks : Append(picks, x)[i] = picks[i]
      BY <1>1, <2>1, Appended
    <2> QED BY <1>0, <1>1, <1>2, <2>1, <2>2 DEF Ships
  <1>3. CASE Kind(w) = "unpick"
    <2> DEFINE id == request[w].id
               x == [picks[id] EXCEPT !.state = "cancelled"]
    <2>1. id \in DOMAIN picks /\ NewPicks(w, took) = [picks EXCEPT ![id] = x] /\ NewShipments(w) = shipments
      BY <1>1, <1>3 DEF NewIs
    <2>2. /\ x.line = picks[id].line /\ x.from = picks[id].from /\ x.qty = picks[id].qty
          /\ [picks EXCEPT ![id] = x] \in Seq(Pick)
          /\ DOMAIN [picks EXCEPT ![id] = x] = DOMAIN picks
          /\ [picks EXCEPT ![id] = x][id] = x
          /\ \A j \in DOMAIN picks \ {id} : [picks EXCEPT ![id] = x][j] = picks[j]
      BY <1>1, <2>1, ReplacedPick
    <2> HIDE DEF x, id
    <2> QED BY <1>0, <1>1, <1>3, <2>1, <2>2 DEF Ships
  <1>4. CASE Ships(w)
    <2>1. PICK to \in {"picked", "shipped"} : NewPicks(w, took) = Converted(picks, took, to)
      BY <1>1, <1>4 DEF NewIs, Ships
    <2>2. to \in PickStates
      BY DEF PickStates
    <2>3. /\ Converted(picks, took, to) \in Seq(Pick)
          /\ DOMAIN picks \subseteq DOMAIN Converted(picks, took, to)
          /\ \A i \in DOMAIN picks : Converted(picks, took, to)[i] = KeptAs(picks, took, to, i)
      BY <1>1, <1>4, <2>2, ConvertedPicks
    <2>4. \A i \in DOMAIN picks :
            /\ KeptAs(picks, took, to, i).line = picks[i].line
            /\ KeptAs(picks, took, to, i).from = picks[i].from
            /\ KeptAs(picks, took, to, i).qty <= picks[i].qty
      BY <1>1, <1>4, <2>2, KeptIs
    <2>5. /\ NewShipments(w) \in Seq(Shipment) /\ DOMAIN shipments \subseteq DOMAIN NewShipments(w)
          /\ \A i \in DOMAIN shipments : NewShipments(w)[i].parts = shipments[i].parts
          /\ PartsOf(w) \in Parts
      <3>1. CASE Kind(w) = "ship"
        <4> DEFINE x == [parts |-> PartsOf(w), state |-> "dispatched"]
        <4>1. x \in Shipment /\ NewShipments(w) = Append(shipments, x) /\ PartsOf(w) \in Parts
          BY <1>1, <3>1 DEF NewIs
        <4> HIDE DEF x
        <4> QED BY <1>1, <4>1, Appended
      <3>2. CASE Kind(w) = "unship"
        <4> DEFINE id == request[w].id
                   x == [shipments[id] EXCEPT !.state = "cancelled"]
        <4>1. /\ x \in Shipment /\ id \in DOMAIN shipments /\ PartsOf(w) \in Parts
              /\ NewShipments(w) = [shipments EXCEPT ![id] = x]
          BY <1>1, <3>2 DEF NewIs
        <4>2. x.parts = shipments[id].parts
          <5>1. shipments[id] \in Shipment
            BY <1>1, <4>1, ShipmentsAre
          <5> QED BY <5>1 DEF Shipment
        <4> HIDE DEF x, id
        <4>3. /\ [shipments EXCEPT ![id] = x] \in Seq(Shipment)
              /\ DOMAIN [shipments EXCEPT ![id] = x] = DOMAIN shipments
              /\ [shipments EXCEPT ![id] = x][id] = x
              /\ \A j \in DOMAIN shipments \ {id} : [shipments EXCEPT ![id] = x][j] = shipments[j]
          BY <1>1, <4>1, Replaced
        <4> QED BY <4>1, <4>2, <4>3
      <3> QED BY <1>4, <3>1, <3>2 DEF Ships
    <2> QED BY <2>1, <2>3, <2>4, <2>5
  <1> QED BY <1>1, <1>2, <1>3, <1>4 DEF Ships

(***************************************************************************)
(* Types.                                                                  *)
(***************************************************************************)
LEMMA CostType ==
  ASSUME NEW parts \in Parts
  PROVE  CostOf(parts) \in Int
  <1> DEFINE f == [l \in Lines |-> parts[l] * UnitCost[l]]
  <1>1. CostOf(parts) = SumFunctionOnSet(f, Lines)
    BY DEF CostOf, SumFunction, SumFunctionOnSet, FoldFunction
  <1>2. IsFiniteSet(Lines)
    BY FulfilmentAssumption
  <1>3. \A l \in Lines : f[l] \in Int
    BY FulfilmentAssumption DEF Parts
  <1> HIDE DEF f
  <1> QED BY <1>1, <1>2, <1>3, SumType

LEMMA CommitTyped ==
  ASSUME TypeOK, ControlOK, NEW w \in Workers, Commit(w)
  PROVE  /\ orderState' \in OrderStates /\ picks' \in Seq(Pick) /\ shipments' \in Seq(Shipment)
         /\ staged' \in [Lines -> [Locations -> Int]] /\ netPicked' \in [Lines -> [Locations -> Int]]
         /\ cogs' \in Int
         /\ DOMAIN picks \subseteq DOMAIN picks' /\ DOMAIN shipments \subseteq DOMAIN shipments'
         /\ \A i \in DOMAIN picks : picks'[i].line = picks[i].line /\ picks'[i].from = picks[i].from
         /\ \A i \in DOMAIN shipments : shipments'[i].parts = shipments[i].parts
  <1>0. /\ orderState \in OrderStates
        /\ staged \in [Lines -> [Locations -> Int]] /\ netPicked \in [Lines -> [Locations -> Int]]
        /\ cogs \in Int /\ request[w] \in Requests /\ seen[w] \in Nat /\ picks \in Seq(Pick)
        /\ ControlOf(w) /\ pc[w] = "commit"
    BY DEF TypeOK, ControlOK, Commit
  <1>1. /\ picks' = NewPicks(w, taken[w]) /\ shipments' = NewShipments(w)
        /\ staged' = [l \in Lines |-> [c \in Locations |-> staged[l][c] + StagedChange(w, l, c)]]
        /\ netPicked' = [l \in Lines |-> [c \in Locations |->
             IF Kind(w) \in {"pick", "unpick"} THEN netPicked[l][c] + StagedChange(w, l, c)
             ELSE netPicked[l][c]]]
        /\ cogs' = cogs + CogsChange(w) /\ orderState' = NewOrderState(w)
    BY DEF Commit
  <1>2. Started(w) /\ (Ships(w) => Took(picks, taken[w]))
    BY <1>0 DEF ControlOf, Started, Active
  <1>3. /\ picks' \in Seq(Pick) /\ shipments' \in Seq(Shipment)
        /\ DOMAIN picks \subseteq DOMAIN picks' /\ DOMAIN shipments \subseteq DOMAIN shipments'
        /\ \A i \in DOMAIN picks : picks'[i].line = picks[i].line /\ picks'[i].from = picks[i].from
        /\ \A i \in DOMAIN shipments : shipments'[i].parts = shipments[i].parts
        /\ Ships(w) => PartsOf(w) \in Parts
    BY <1>1, <1>2, CommitPicks
  <1>4. \A l \in Lines, c \in Locations : StagedChange(w, l, c) \in Int
    <2> SUFFICES ASSUME NEW l \in Lines, NEW c \in Locations PROVE StagedChange(w, l, c) \in Int
      OBVIOUS
    <2>1. CASE Kind(w) = "pick"
      BY <1>0, <2>1, RequestTyped DEF StagedChange, Kind
    <2>2. CASE Kind(w) = "unpick"
      BY <1>0, <2>2 DEF StagedChange
    <2>3. CASE Kind(w) \in {"ship", "unship"}
      <3>1. PartsOf(w)[l] \in Nat
        BY <1>3, <2>3 DEF Parts, Ships
      <3> QED BY <2>3, <3>1 DEF StagedChange
    <2> QED BY <1>0, <2>1, <2>2, <2>3, RequestTyped DEF Kind
  <1>5. staged' \in [Lines -> [Locations -> Int]] /\ netPicked' \in [Lines -> [Locations -> Int]]
    BY <1>0, <1>1, <1>4
  <1>6. CogsChange(w) \in Int
    BY <1>3, CostType DEF CogsChange, Ships
  <1>7. orderState' \in OrderStates
    BY <1>0, <1>1 DEF NewOrderState, OrderStates
  <1> QED BY <1>0, <1>1, <1>3, <1>5, <1>6, <1>7

(* What a transaction finds to take is of the quantity of its parts.       *)
LEMMA FoundIs ==
  ASSUME TypeOK, ControlOK, NEW w \in Workers, Started(w)
  PROVE  /\ Found(w) \in Seq(Nat)
         /\ Ships(w) =>
              \E from \in {"picked", "shipped"} :
                /\ from = IF Kind(w) = "ship" THEN "picked" ELSE "shipped"
                /\ PartsOf(w) \in Parts /\ Found(w) = TakenOf(picks, PartsOf(w), from)
                /\ Took(picks, Found(w))
  <1>1. picks \in Seq(Pick) /\ NewIs(w, <<>>) /\ Kind(w) \in {"pick", "unpick", "ship", "unship"}
    BY NewAre DEF TypeOK
  <1>2. CASE Ships(w)
    <2>1. PICK from \in {"picked", "shipped"} :
            /\ from = IF Kind(w) = "ship" THEN "picked" ELSE "shipped"
            /\ Found(w) = TakenOf(picks, PartsOf(w), from)
      BY <1>2 DEF Found, Ships
    <2>2. PartsOf(w) \in Parts
      BY <1>1, <1>2 DEF NewIs, Ships
    <2>3. Took(picks, Found(w))
      BY <1>1, <2>1, <2>2, FoundTook
    <2>4. Found(w) \in Seq(Nat)
      BY <2>3 DEF Took
    <2> QED BY <2>1, <2>2, <2>3, <2>4
  <1>3. CASE ~Ships(w)
    <2>1. Found(w) = <<>>
      BY <1>1, <1>3 DEF Found, Ships
    <2> QED BY <1>3, <2>1, EmptySeq
  <1> QED BY <1>2, <1>3

LEMMA OwnControl ==
  ASSUME TypeOK, ControlOK, NEW w \in Workers, Acts(w)
  PROVE  ControlOf(w)'
  <1> USE DEF ControlOf, Started, Active, Kind, Ships
  <1>1. ControlOf(w) /\ request[w] \in Requests
    BY DEF ControlOK, TypeOK
  <1>2. CASE pc'[w] \in {"idle", "check"}
    BY <1>2
  <1>3. CASE pc'[w] \notin {"idle", "check"}
    <2>1. request'[w] = request[w] /\ picks' = picks /\ shipments' = shipments
      BY <1>3, OwnStep DEF tables
    <2>2. CASE pc[w] = "check"
      <3>1. Accepted(w) /\ pc'[w] = "move"
        BY <1>3, <2>2, OwnStep
      <3> QED BY <2>1, <3>1 DEF Accepted, UnpickAccepted, Dispatched
    <2>3. CASE pc[w] = "move"
      <3>1. pc'[w] = "ledger" => Kind(w) \in {"ship", "unship"} /\ Perpetual
        BY <1>3, <2>3, OwnStep
      <3>2. pc'[w] = "change" => Kind(w) # "pick"
        BY <1>3, <2>3, OwnStep
      <3>3. pc'[w] # "commit" /\ (pc'[w] = "order" => Kind(w) = "pick")
        BY <1>3, <2>3, OwnStep
      <3> QED BY <1>1, <2>1, <2>3, <3>1, <3>2, <3>3
    <2>4. CASE pc[w] \notin {"check", "move"}
      <3>1. pc[w] \in {"ledger", "change", "order"} /\ pc'[w] # "ledger"
        BY <1>3, <2>4, OwnStep
      <3>2. pc'[w] = "change" => pc[w] = "ledger"
        BY <1>3, <2>4, OwnStep
      <3>3. pc'[w] \in {"order", "commit"} =>
              \/ pc[w] = "order" /\ taken'[w] = taken[w]
              \/ pc[w] = "change" /\ taken'[w] = Found(w)
        BY <1>3, <2>4, OwnStep
      <3>4. pc[w] = "change" /\ Ships(w) => Took(picks, Found(w))
        BY FoundIs
      <3> QED BY <1>1, <2>1, <3>1, <3>2, <3>3, <3>4
    <2> QED BY <2>2, <2>3, <2>4
  <1> QED BY <1>2, <1>3

LEMMA TablesTyped ==
  ASSUME TypeOK, ControlOK, NEW w \in Workers, Acts(w)
  PROVE  /\ orderState' \in OrderStates /\ picks' \in Seq(Pick) /\ shipments' \in Seq(Shipment)
         /\ staged' \in [Lines -> [Locations -> Int]] /\ netPicked' \in [Lines -> [Locations -> Int]]
         /\ cogs' \in Int
         /\ DOMAIN picks \subseteq DOMAIN picks' /\ DOMAIN shipments \subseteq DOMAIN shipments'
         /\ \A i \in DOMAIN picks : picks'[i].line = picks[i].line /\ picks'[i].from = picks[i].from
         /\ \A i \in DOMAIN shipments : shipments'[i].parts = shipments[i].parts
  <1>1. CASE UNCHANGED tables
    BY <1>1 DEF tables, TypeOK
  <1> QED BY <1>1, TablesChange, CommitTyped

LEMMA NeededAreRows ==
  ASSUME TypeOK, ControlOK, NEW w \in Workers, pc[w] = "move", NEW r \in Needed(w)
  PROVE  r \in Resources
  <1>1. request[w] \in Requests /\ picks \in Seq(Pick) /\ ControlOf(w)
    BY DEF TypeOK, ControlOK
  <1>2. Kind(w) = "unpick" =>
          picks[request[w].id].line \in Lines /\ picks[request[w].id].from \in Locations
    BY <1>1, PicksAre DEF ControlOf, Started, Active
  <1>3. \A l \in Lines, c \in Locations : Shelf(l, c) \in Resources /\ Staging(l, c) \in Resources
    BY DEF Shelf, Staging, Resources
  <1>4. CASE Kind(w) = "pick"
    <2>1. request[w].line \in Lines /\ request[w].from \in Locations
      BY <1>1, <1>4, RequestTyped DEF Kind
    <2> HIDE DEF Resources
    <2> QED BY <1>3, <1>4, <2>1, HomeIs DEF Needed
  <1>5. CASE Kind(w) = "unpick"
    BY <1>2, <1>3, <1>5 DEF Needed
  <1>6. CASE Kind(w) \notin {"pick", "unpick"}
    BY <1>3, <1>6, HomeIs DEF Needed
  <1> QED BY <1>4, <1>5, <1>6

LEMMA TypeStep ==
  ASSUME TypeOK, ControlOK, [Next]_vars
  PROVE  TypeOK' /\ ControlOK'
  <1>1. CASE UNCHANGED vars
    BY <1>1 DEF vars, tables, TypeOK, ControlOK, ControlOf, Started, Kind, Ships
  <1>2. ASSUME NEW w \in Workers, Acts(w)
        PROVE  TypeOK' /\ ControlOK'
    <2>1. /\ orderState' \in OrderStates /\ picks' \in Seq(Pick) /\ shipments' \in Seq(Shipment)
          /\ staged' \in [Lines -> [Locations -> Int]] /\ netPicked' \in [Lines -> [Locations -> Int]]
         /\ cogs' \in Int
          /\ DOMAIN picks \subseteq DOMAIN picks' /\ DOMAIN shipments \subseteq DOMAIN shipments'
      BY <1>2, TablesTyped
    <2>2. /\ pc' \in [Workers -> {"idle"} \cup Active] /\ request' \in [Workers -> Requests]
          /\ seen' \in [Workers -> Nat] /\ held' \in [Workers -> SUBSET Resources]
          /\ taken' \in [Workers -> Seq(Nat)]
      <3>0. <<>> \in Seq(Nat)
        BY EmptySeq
      <3>1. ASSUME Finish(w)
            PROVE  /\ pc' \in [Workers -> {"idle"} \cup Active]
                   /\ request' \in [Workers -> Requests]
                   /\ seen' \in [Workers -> Nat] /\ held' \in [Workers -> SUBSET Resources]
                   /\ taken' \in [Workers -> Seq(Nat)]
        BY <3>0, <3>1, RequestChosen DEF Finish, Goto, TypeOK
      <3>2. CASE Begin(w)
        BY <3>2 DEF Begin, Goto, TypeOK, Active
      <3>3. CASE Check(w)
        <4>1. Kind(w) = "unpick" => picks[request[w].id].qty \in Nat
          BY <3>3, PicksAre DEF Check, Accepted, UnpickAccepted, TypeOK
        <4>2. (IF Kind(w) = "unpick" THEN picks[request[w].id].qty ELSE 0) \in Nat
          BY <4>1
        <4> QED BY <3>3, <4>2 DEF Check, Goto, TypeOK, Active
      <3>4. CASE LockRow(w)
        <4>1. PICK r \in NextRows(w) : held' = [held EXCEPT ![w] = @ \cup {r}]
          BY <3>4 DEF LockRow, Take
        <4>2. r \in Needed(w)
          BY <4>1 DEF NextRows, RowsLeft
        <4>3. r \in Resources
          BY <3>4, <4>2, NeededAreRows DEF LockRow
        <4> QED BY <3>4, <4>1, <4>3 DEF LockRow, TypeOK
      <3>5. CASE Moved(w)
        BY <3>5 DEF Moved, Goto, TypeOK, Active
      <3>8. CASE Change(w)
        <4>1. Found(w) \in Seq(Nat)
          BY <3>8, FoundIs DEF Change, Started, Active
        <4> QED BY <3>8, <4>1 DEF Change, Goto, TypeOK, Active
      <3>6. CASE TakeLedger(w) \/ LockOrder(w)
        <4>1. Ledger \in Resources /\ Order \in Resources
          BY DEF Resources
        <4>2. PICK r \in {Ledger, Order} : held' = [held EXCEPT ![w] = @ \cup {r}]
          BY <3>6 DEF TakeLedger, LockOrder, Take
        <4>3. held' \in [Workers -> SUBSET Resources]
          BY <4>1, <4>2 DEF TypeOK
        <4> QED BY <3>6, <4>3 DEF TakeLedger, LockOrder, Goto, TypeOK, Active
      <3>7. CASE Refuse(w) \/ RefuseChange(w) \/ Commit(w) \/ ResolveDeadlock(w) \/ Lose(w)
        BY <3>1, <3>7 DEF Refuse, RefuseChange, Commit, ResolveDeadlock, Lose, Abort
      <3> QED BY <1>2, <3>2, <3>3, <3>4, <3>5, <3>6, <3>7, <3>8 DEF Acts, Step
    <2>3. ControlOf(w)'
      BY <1>2, OwnControl
    <2>4. ASSUME NEW u \in Workers, u # w
          PROVE  ControlOf(u)'
      <3>1. pc'[u] = pc[u] /\ request'[u] = request[u] /\ taken'[u] = taken[u]
        BY <1>2, <2>4, Frame
      <3>2. ControlOf(u)
        BY DEF ControlOK
      <3>3. Took(picks, taken[u]) => Took(picks', taken[u])
        BY <2>1 DEF Took
      <3> QED BY <2>1, <3>1, <3>2, <3>3 DEF ControlOf, Started, Kind, Ships
    <2>5. TypeOK'
      BY <2>1, <2>2 DEF TypeOK
    <2>6. ControlOK'
      BY <2>3, <2>4 DEF ControlOK
    <2> QED BY <2>5, <2>6
  <1> QED BY <1>1, <1>2 DEF Next, Acts

LEMMA TypeInit == Init => TypeOK /\ ControlOK
  <1> SUFFICES ASSUME Init PROVE TypeOK /\ ControlOK
    OBVIOUS
  <1>1. <<>> \in Seq(Pick) /\ <<>> \in Seq(Shipment)
    BY EmptySeq
  <1>2. TypeOK
    BY <1>1, EmptySeq, RequestChosen DEF Init, TypeOK, OrderStates
  <1>3. ControlOK
    BY DEF Init, ControlOK, ControlOf, Started, Active
  <1> QED BY <1>2, <1>3

LEMMA TypedAlways == Spec => [](TypeOK /\ ControlOK)
  <1>1. Init => TypeOK /\ ControlOK
    BY TypeInit
  <1>2. (TypeOK /\ ControlOK) /\ [Next]_vars => (TypeOK /\ ControlOK)'
    BY TypeStep
  <1> QED BY <1>1, <1>2, PTL DEF Spec

(* Tables, programs and locks have their types.                            *)
THEOREM Typing == Spec => []TypeOK
  BY TypedAlways, PTL

(***************************************************************************)
(* Locks: whose rows are moved holds them to the end, and no two hold the  *)
(* same one.                                                               *)
(***************************************************************************)
Late == {"ledger", "change", "order", "commit"}
LocksOK ==
  /\ \A v, w \in Workers : v # w => held[v] \cap held[w] = {}
  /\ \A w \in Workers : pc[w] \in Late => Needed(w) \subseteq held[w]

LEMMA NeededSame ==
  ASSUME TypeOK, ControlOK, NEW u \in Workers, Started(u), request'[u] = request[u],
         NEW w \in Workers, Acts(w)
  PROVE  Needed(u)' = Needed(u) /\ (Kind(u) \in {"ship", "unship"} => PartsOf(u)' = PartsOf(u))
  <1>1. /\ \A i \in DOMAIN picks : picks'[i].line = picks[i].line /\ picks'[i].from = picks[i].from
        /\ \A i \in DOMAIN shipments : shipments'[i].parts = shipments[i].parts
    BY TablesTyped
  <1>2. /\ Kind(u) = "unpick" => request[u].id \in DOMAIN picks
        /\ Kind(u) = "unship" => request[u].id \in DOMAIN shipments
    BY DEF ControlOK, ControlOf
  <1>3. Kind(u)' = Kind(u) /\ Kind(u) \in {"pick", "unpick", "ship", "unship"}
    BY RequestTyped DEF Kind, TypeOK
  <1>4. CASE Kind(u) = "pick"
    BY <1>3, <1>4 DEF Needed
  <1>5. CASE Kind(u) = "unpick"
    <2>1. /\ picks'[request[u].id].line = picks[request[u].id].line
          /\ picks'[request[u].id].from = picks[request[u].id].from
      BY <1>1, <1>2, <1>5
    <2> QED BY <1>3, <1>5, <2>1 DEF Needed
  <1>6. CASE Kind(u) \in {"ship", "unship"}
    <2>1. PartsOf(u)' = PartsOf(u)
      BY <1>1, <1>2, <1>3, <1>6 DEF PartsOf
    <2> QED BY <1>3, <1>6, <2>1 DEF Needed
  <1> QED BY <1>3, <1>4, <1>5, <1>6

LEMMA LocksStep ==
  ASSUME TypeOK, ControlOK, LocksOK, NEW w \in Workers, Acts(w)
  PROVE  LocksOK'
  <1>1. /\ \A u \in Workers \ {w} :
             /\ pc'[u] = pc[u] /\ request'[u] = request[u] /\ held'[u] = held[u]
        /\ \A u \in Workers \ {w} : held'[w] \cap held'[u] = {}
    <2>1. \A u \in Workers \ {w} :
            pc'[u] = pc[u] /\ request'[u] = request[u] /\ held'[u] = held[u]
      BY Frame
    <2>2. \/ held'[w] \in {held[w], {}}
          \/ \E r : Blockers(w, r) = {} /\ held'[w] = held[w] \cup {r}
      BY OwnStep
    <2>3. \A u \in Workers \ {w} : held[w] \cap held[u] = {}
      BY DEF LocksOK
    <2> QED BY <2>1, <2>2, <2>3 DEF Blockers
  <1>2. \A u, v \in Workers : u # v => held'[u] \cap held'[v] = {}
    BY <1>1 DEF LocksOK
  <1>3. ASSUME NEW u \in Workers, u # w, pc'[u] \in Late
        PROVE  Needed(u)' \subseteq held'[u]
    <2>1. pc[u] \in Late /\ held'[u] = held[u] /\ request'[u] = request[u]
      BY <1>1, <1>3
    <2>2. Needed(u)' = Needed(u)
      BY <2>1, NeededSame DEF Started, Late, Active
    <2> QED BY <2>1, <2>2 DEF LocksOK
  <1>4. ASSUME pc'[w] \in Late
        PROVE  Needed(w)' \subseteq held'[w]
    <2>1. /\ request'[w] = request[w] /\ UNCHANGED tables /\ held[w] \subseteq held'[w]
          /\ pc[w] \in Late \/ (pc[w] = "move" /\ RowsLeft(w) = {})
      BY <1>4, OwnStep DEF Late
    <2>2. Needed(w) \subseteq held[w]
      BY <2>1 DEF LocksOK, RowsLeft
    <2>3. Needed(w)' = Needed(w)
      BY <2>1, NeededSame DEF Started, Late, Active
    <2> QED BY <2>1, <2>2, <2>3
  <1> QED BY <1>2, <1>3, <1>4 DEF LocksOK

BaseInv == TypeOK /\ ControlOK /\ LocksOK

LEMMA BaseStep ==
  ASSUME BaseInv, [Next]_vars
  PROVE  BaseInv'
  <1>1. TypeOK' /\ ControlOK'
    BY TypeStep DEF BaseInv
  <1>2. CASE UNCHANGED vars
    BY <1>1, <1>2 DEF BaseInv, LocksOK, Needed, PartsOf, Kind, vars, tables
  <1>3. ASSUME NEW w \in Workers, Acts(w) PROVE BaseInv'
    BY <1>1, <1>3, LocksStep DEF BaseInv
  <1> QED BY <1>2, <1>3 DEF Next, Acts

LEMMA BaseInit == Init => BaseInv
  <1> SUFFICES ASSUME Init PROVE BaseInv
    OBVIOUS
  <1>1. LocksOK
    BY DEF Init, LocksOK, Late
  <1> QED BY <1>1, TypeInit DEF BaseInv

(***************************************************************************)
(* Claims: what a request has found stays true until it commits.           *)
(*                                                                         *)
(* Who cancels a dispatch holds the SHIPPING bins of its lines, so that    *)
(* meanwhile nobody dispatches of them or cancels: picks may be added and  *)
(* reversed.  A dispatch takes from each line no more than it sends,       *)
(* whatever becomes of the picks.                                          *)
(***************************************************************************)
Takes(w, took) ==
  Ships(w) =>
    /\ Took(picks, took)
    /\ \A i \in DOMAIN took : took[i] <= PartsOf(w)[picks[i].line]
    /\ Kind(w) = "ship" => \A l \in Lines : TookSum(picks, took, l) <= PartsOf(w)[l]
    /\ Kind(w) = "unship" =>
         \A l \in Lines : PartsOf(w)[l] > 0 =>
           /\ Dispatched(request[w].id)
           /\ PickSum(Converted(picks, took, "picked"), l, {"shipped"})
                <= ShipmentSum(shipments, l) - PartsOf(w)[l]
Reverses(w) ==
  Started(w) /\ Kind(w) = "unpick" =>
    /\ seen[w] >= picks[request[w].id].qty
    /\ NeverDispatched(shipments, picks[request[w].id].line) =>
         seen[w] = picks[request[w].id].qty
ClaimsOf(w) ==
  /\ Reverses(w)
  /\ pc[w] \in {"order", "commit"} =>
       /\ Takes(w, taken[w])
       /\ Kind(w) = "unpick" => picks[request[w].id].state \in {"picked", "shipped"}
ClaimsOK == \A w \in Workers : ClaimsOf(w)

Ready(w, took) ==
  /\ Takes(w, took)
  /\ Kind(w) = "unpick" =>
       /\ picks[request[w].id].state \in {"picked", "shipped"}
       /\ Reverses(w)

LEMMA DispatchedIsSent ==
  ASSUME TypeOK, NEW w \in Workers, Kind(w) = "unship", Dispatched(request[w].id), NEW l \in Lines
  PROVE  PartsOf(w)[l] <= ShipmentSum(shipments, l)
  <1> DEFINE x == shipments[request[w].id]
  <1>1. x \in Shipment /\ request[w].id \in DOMAIN shipments /\ shipments \in Seq(Shipment)
    BY ShipmentsAre DEF TypeOK, Dispatched
  <1>2. Load(x, l) <= ShipmentSum(shipments, l)
    BY <1>1, ShipmentSumReplace
  <1>3. Load(x, l) = PartsOf(w)[l]
    BY DEF Load, Dispatched, PartsOf
  <1> QED BY <1>2, <1>3

LEMMA FoundTakes ==
  ASSUME TypeOK, ControlOK, PicksCover, NEW w \in Workers, pc[w] = "change", StillAllowed(w)
  PROVE  Takes(w, Found(w))
  <1> SUFFICES ASSUME Ships(w) PROVE Takes(w, Found(w))
    BY DEF Takes
  <1>1. Started(w) /\ picks \in Seq(Pick) /\ shipments \in Seq(Shipment)
    BY DEF Started, Active, TypeOK
  <1>2. PICK from \in {"picked", "shipped"} :
          /\ from = IF Kind(w) = "ship" THEN "picked" ELSE "shipped"
          /\ PartsOf(w) \in Parts /\ Found(w) = TakenOf(picks, PartsOf(w), from)
          /\ Took(picks, Found(w))
    BY <1>1, FoundIs
  <1>3. /\ DOMAIN Found(w) = DOMAIN picks
        /\ \A i \in DOMAIN picks : Found(w)[i] <= PartsOf(w)[picks[i].line]
        /\ \A l \in Lines :
             TookSum(picks, Found(w), l) = Smaller(PartsOf(w)[l], PickSum(picks, l, {from}))
    <2> DEFINE t == TakenOf(picks, PartsOf(w), from)
    <2>1. /\ DOMAIN t = DOMAIN picks
          /\ \A i \in DOMAIN picks : t[i] <= PartsOf(w)[picks[i].line]
          /\ \A l \in Lines :
               TookSum(picks, t, l) = Smaller(PartsOf(w)[l], PickSum(picks, l, {from}))
      BY <1>1, <1>2, FoundTook
    <2>2. Found(w) = t
      BY <1>2
    <2> HIDE DEF t
    <2> QED BY <2>1, <2>2
  <1>4. ASSUME NEW l \in Lines
        PROVE  /\ PartsOf(w)[l] \in Nat /\ PickSum(picks, l, {from}) \in Nat
               /\ PickSum(picks, l, {"shipped"}) \in Nat /\ ShipmentSum(shipments, l) \in Nat
               /\ PickSum(picks, l, {"shipped"}) <= ShipmentSum(shipments, l)
    BY <1>1, <1>2, PickSumWeights, ShipmentSumLoads DEF Parts, PicksCover
  <1>5. \A l \in Lines : TookSum(picks, Found(w), l) <= PartsOf(w)[l]
    BY <1>3, <1>4 DEF Smaller
  <1>6. ASSUME Kind(w) = "unship", NEW l \in Lines
        PROVE  /\ Dispatched(request[w].id)
               /\ PickSum(Converted(picks, Found(w), "picked"), l, {"shipped"})
                    <= ShipmentSum(shipments, l) - PartsOf(w)[l]
    <2>1. Dispatched(request[w].id)
      BY <1>6 DEF StillAllowed
    <2>2. PartsOf(w)[l] <= ShipmentSum(shipments, l)
      BY <1>6, <2>1, DispatchedIsSent
    <2>3. Found(w) = TakenOf(picks, PartsOf(w), "shipped")
      BY <1>2, <1>6
    <2>4. PickSum(Converted(picks, Found(w), "picked"), l, {"shipped"}) =
            PickSum(picks, l, {"shipped"}) - Smaller(PartsOf(w)[l], PickSum(picks, l, {"shipped"}))
      BY <1>1, <1>2, <2>3, AfterUnship
    <2> QED BY <1>4, <2>1, <2>2, <2>4 DEF Smaller
  <1> QED BY <1>2, <1>3, <1>5, <1>6 DEF Takes

LEMMA ReadyNow ==
  ASSUME TypeOK, ControlOK, PicksCover, ClaimsOK, NEW w \in Workers
  PROVE  /\ pc[w] \in {"order", "commit"} => Ready(w, taken[w])
         /\ pc[w] = "change" /\ StillAllowed(w) => Ready(w, Found(w))
  <1>1. ClaimsOf(w)
    BY DEF ClaimsOK
  <1>2. CASE pc[w] \in {"order", "commit"}
    BY <1>1, <1>2 DEF ClaimsOf, Ready
  <1>3. CASE pc[w] = "change" /\ StillAllowed(w)
    <2>1. Takes(w, Found(w))
      BY <1>3, FoundTakes
    <2>2. Kind(w) = "unpick" => picks[request[w].id].state \in {"picked", "shipped"}
      <3>1. Kind(w) = "unpick" => picks[request[w].id].state \in PickStates
        BY <1>3, PicksAre DEF TypeOK, ControlOK, ControlOf, Started, Active
      <3> QED BY <1>3, <3>1 DEF StillAllowed, PickTransitions, PickStates
    <2> QED BY <1>1, <1>3, <2>1, <2>2 DEF ClaimsOf, Ready
  <1> QED BY <1>2, <1>3

(* Then it moves as much as its request says.                              *)
Sent(w, l) ==
  CASE Kind(w) = "ship" -> PartsOf(w)[l]
    [] Kind(w) = "unship" -> -PartsOf(w)[l]
    [] OTHER -> 0
Gained(w, l) ==
  CASE Kind(w) = "pick" -> IF request[w].line = l THEN request[w].qty ELSE 0
    [] Kind(w) = "unpick" -> IF picks[request[w].id].line = l THEN -seen[w] ELSE 0
    [] OTHER -> 0
NewShipmentSums(w, l) ==
  /\ Sent(w, l) \in Int
  /\ ShipmentSum(NewShipments(w), l) = ShipmentSum(shipments, l) + Sent(w, l)
  /\ ShipmentSum(shipments, l) \in Nat /\ ShipmentSum(NewShipments(w), l) \in Nat
NewPickSums(w, took, l) ==
  /\ Gained(w, l) \in Int
  /\ PickSum(NewPicks(w, took), l, {"shipped"}) <= ShipmentSum(NewShipments(w), l)
  /\ PickSum(NewPicks(w, took), l, {"picked", "shipped"})
       >= PickSum(picks, l, {"picked", "shipped"}) + Gained(w, l)
  /\ NeverDispatched(NewShipments(w), l) =>
       /\ NeverDispatched(shipments, l)
       /\ PickSum(NewPicks(w, took), l, {"picked", "shipped"})
            = PickSum(picks, l, {"picked", "shipped"}) + Gained(w, l)

LEMMA ShipmentSumsAre ==
  ASSUME TypeOK, ControlOK, NEW w \in Workers, Started(w), NEW took, Takes(w, took),
         NEW l \in Lines
  PROVE  NewShipmentSums(w, l)
  <1>1. /\ shipments \in Seq(Shipment) /\ NewIs(w, took)
        /\ Kind(w) \in {"pick", "unpick", "ship", "unship"}
    BY NewAre DEF TypeOK
  <1>2. NewShipments(w) \in Seq(Shipment) /\ (Ships(w) => PartsOf(w) \in Parts)
    <2>1. Ships(w) => Took(picks, took)
      BY DEF Takes
    <2> QED BY <2>1, CommitPicks
  <1>3. ShipmentSum(shipments, l) \in Nat /\ ShipmentSum(NewShipments(w), l) \in Nat
    BY <1>1, <1>2, ShipmentSumLoads
  <1>4. CASE Kind(w) \in {"pick", "unpick"}
    BY <1>1, <1>3, <1>4 DEF NewIs, NewShipmentSums, Sent
  <1>5. CASE Kind(w) = "ship"
    <2> DEFINE x == [parts |-> PartsOf(w), state |-> "dispatched"]
    <2>1. x \in Shipment /\ NewShipments(w) = Append(shipments, x)
      BY <1>1, <1>5 DEF NewIs
    <2>2. Load(x, l) = PartsOf(w)[l] /\ PartsOf(w)[l] \in Nat
      BY <1>2, <1>5 DEF Load, Parts, Ships
    <2> HIDE DEF x
    <2>3. ShipmentSum(NewShipments(w), l) = ShipmentSum(shipments, l) + Load(x, l)
      BY <1>1, <2>1, ShipmentSumAppend
    <2>4. Sent(w, l) = PartsOf(w)[l]
      BY <1>5 DEF Sent
    <2> QED BY <1>3, <2>2, <2>3, <2>4 DEF NewShipmentSums
  <1>6. CASE Kind(w) = "unship"
    <2> DEFINE id == request[w].id
               x == [shipments[id] EXCEPT !.state = "cancelled"]
    <2>1. /\ x \in Shipment /\ id \in DOMAIN shipments
          /\ PartsOf(w) = shipments[id].parts
          /\ NewShipments(w) = [shipments EXCEPT ![id] = x]
      BY <1>1, <1>6 DEF NewIs
    <2>2. shipments[id] \in Shipment
      BY <1>1, <2>1, ShipmentsAre
    <2>3. Load(x, l) = 0
      BY <2>2 DEF Load, Shipment
    <2>4. PartsOf(w)[l] \in Nat
      BY <1>2, <1>6 DEF Parts, Ships
    <2>5. Load(shipments[id], l) = PartsOf(w)[l]
      <3>1. CASE PartsOf(w)[l] > 0
        <4>1. shipments[id].state = "dispatched"
          BY <1>6, <3>1 DEF Takes, Ships, Dispatched
        <4> QED BY <2>1, <4>1 DEF Load
      <3>2. CASE PartsOf(w)[l] = 0
        BY <2>1, <3>2 DEF Load
      <3> QED BY <2>4, <3>1, <3>2
    <2> HIDE DEF x, id
    <2>6. ShipmentSum([shipments EXCEPT ![id] = x], l) =
            ShipmentSum(shipments, l) - Load(shipments[id], l) + Load(x, l)
      BY <1>1, <2>1, ShipmentSumReplace
    <2>7. Sent(w, l) = -PartsOf(w)[l]
      BY <1>6 DEF Sent
    <2> QED BY <1>3, <2>1, <2>3, <2>4, <2>5, <2>6, <2>7 DEF NewShipmentSums
  <1> QED BY <1>1, <1>4, <1>5, <1>6

LEMMA DispatchedOnce ==
  ASSUME TypeOK, ControlOK, NEW w \in Workers, Started(w), NEW took, Takes(w, took), NEW l \in Lines
  PROVE  /\ NeverDispatched(NewShipments(w), l) => NeverDispatched(shipments, l)
         /\ Ships(w) /\ NeverDispatched(NewShipments(w), l) => PartsOf(w)[l] = 0
  <1>1. /\ shipments \in Seq(Shipment) /\ NewIs(w, took)
        /\ Kind(w) \in {"pick", "unpick", "ship", "unship"}
    BY NewAre DEF TypeOK
  <1>2. /\ DOMAIN shipments \subseteq DOMAIN NewShipments(w)
        /\ \A i \in DOMAIN shipments : NewShipments(w)[i].parts = shipments[i].parts
    <2>1. Ships(w) => Took(picks, took)
      BY DEF Takes
    <2> QED BY <2>1, CommitPicks
  <1>3. NeverDispatched(NewShipments(w), l) => NeverDispatched(shipments, l)
    BY <1>2 DEF NeverDispatched
  <1>4. ASSUME Kind(w) = "ship", NeverDispatched(NewShipments(w), l) PROVE PartsOf(w)[l] = 0
    <2> DEFINE x == [parts |-> PartsOf(w), state |-> "dispatched"]
    <2>1. x \in Shipment /\ NewShipments(w) = Append(shipments, x) /\ x.parts = PartsOf(w)
      BY <1>1, <1>4 DEF NewIs
    <2> HIDE DEF x
    <2>2. /\ Len(shipments) + 1 \in DOMAIN NewShipments(w)
          /\ NewShipments(w)[Len(shipments) + 1] = x
      BY <1>1, <2>1, Appended
    <2> QED BY <1>4, <2>1, <2>2 DEF NeverDispatched
  <1>5. ASSUME Kind(w) = "unship", NeverDispatched(NewShipments(w), l) PROVE PartsOf(w)[l] = 0
    BY <1>1, <1>3, <1>5 DEF NewIs, NeverDispatched
  <1> QED BY <1>3, <1>4, <1>5 DEF Ships

LEMMA PickSumsAre ==
  ASSUME TypeOK, ControlOK, PicksCover, NEW w \in Workers, Started(w), NEW took, Ready(w, took),
         NEW l \in Lines
  PROVE  NewPickSums(w, took, l)
  <1>1. /\ picks \in Seq(Pick) /\ NewIs(w, took) /\ request[w] \in Requests /\ seen[w] \in Nat
        /\ Kind(w) \in {"pick", "unpick", "ship", "unship"}
    BY NewAre DEF TypeOK
  <1>2. Takes(w, took) /\ (Ships(w) => Took(picks, took))
    BY DEF Ready, Takes
  <1>3. NewShipmentSums(w, l)
    BY <1>2, ShipmentSumsAre
  <1>4. /\ NeverDispatched(NewShipments(w), l) => NeverDispatched(shipments, l)
        /\ Ships(w) /\ NeverDispatched(NewShipments(w), l) => PartsOf(w)[l] = 0
    BY <1>2, DispatchedOnce
  <1>5. /\ PickSum(picks, l, {"shipped"}) \in Nat
        /\ PickSum(picks, l, {"picked", "shipped"}) \in Nat
        /\ PickSum(picks, l, {"shipped"}) <= ShipmentSum(shipments, l)
    BY <1>1, PickSumWeights DEF PicksCover
  <1>6. CASE Kind(w) = "pick"
    <2> DEFINE x == NewPick(request[w])
    <2>1. x \in Pick /\ NewPicks(w, took) = Append(picks, x)
      BY <1>1, <1>6 DEF NewIs
    <2>2. \A states : PickSum(NewPicks(w, took), l, states) = PickSum(picks, l, states) + Weight(x, l, states)
      BY <1>1, <2>1, PickSumAppend
    <2>3. request[w].qty \in Nat
      BY <1>1, <1>6, RequestTyped DEF Kind
    <2>4. Weight(x, l, {"shipped"}) = 0 /\ Weight(x, l, {"picked", "shipped"}) = Gained(w, l)
      BY <1>6 DEF Weight, NewPick, Gained
    <2>5. Sent(w, l) = 0 /\ Gained(w, l) \in Int
      BY <1>6, <2>3 DEF Sent, Gained
    <2> HIDE DEF x
    <2> QED BY <1>3, <1>4, <1>5, <2>2, <2>4, <2>5 DEF NewPickSums, NewShipmentSums
  <1>7. CASE Kind(w) = "unpick"
    <2> DEFINE id == request[w].id
               x == [picks[id] EXCEPT !.state = "cancelled"]
    <2>1. /\ x \in Pick /\ id \in DOMAIN picks
          /\ NewPicks(w, took) = [picks EXCEPT ![id] = x] /\ NewShipments(w) = shipments
      BY <1>1, <1>7 DEF NewIs
    <2>2. \A states :
            PickSum(NewPicks(w, took), l, states) =
              PickSum(picks, l, states) - Weight(picks[id], l, states) + Weight(x, l, states)
      <3> HIDE DEF x, id
      <3>1. ASSUME NEW states
            PROVE  PickSum([picks EXCEPT ![id] = x], l, states) =
                     PickSum(picks, l, states) - Weight(picks[id], l, states) + Weight(x, l, states)
        <4>1. picks \in Seq(Pick) /\ id \in DOMAIN picks /\ x \in Pick
          BY <1>1, <2>1
        <4> QED BY <4>1, PickSumReplace
      <3> QED BY <2>1, <3>1
    <2>3. /\ picks[id] \in Pick /\ picks[id].qty \in Nat /\ picks[id].line \in Lines
          /\ picks[id].state \in {"picked", "shipped"}
          /\ seen[w] >= picks[id].qty
          /\ NeverDispatched(shipments, picks[id].line) => seen[w] = picks[id].qty
      BY <1>1, <1>7, <2>1, PicksAre DEF Ready, Reverses
    <2>4. Weight(x, l, {"shipped"}) = 0 /\ Weight(x, l, {"picked", "shipped"}) = 0
      <3>1. x.state = "cancelled"
        BY <2>3 DEF Pick
      <3> HIDE DEF x
      <3> QED BY <3>1 DEF Weight
    <2>5. /\ Weight(picks[id], l, {"shipped"}) \in Nat
          /\ Weight(picks[id], l, {"picked", "shipped"}) = IF picks[id].line = l THEN picks[id].qty ELSE 0
      BY <2>3 DEF Weight
    <2>6. Sent(w, l) = 0 /\ Gained(w, l) = (IF picks[id].line = l THEN -seen[w] ELSE 0)
      BY <1>7 DEF Sent, Gained
    <2> HIDE DEF x, id
    <2>7. /\ PickSum(NewPicks(w, took), l, {"shipped"}) =
               PickSum(picks, l, {"shipped"}) - Weight(picks[id], l, {"shipped"}) + 0
          /\ PickSum(NewPicks(w, took), l, {"picked", "shipped"}) =
               PickSum(picks, l, {"picked", "shipped"})
               - (IF picks[id].line = l THEN picks[id].qty ELSE 0) + 0
      BY <2>2, <2>4, <2>5
    <2> QED BY <1>1, <1>3, <1>4, <1>5, <2>1, <2>3, <2>5, <2>6, <2>7 DEF NewPickSums, NewShipmentSums
  <1>8. CASE Ships(w)
    <2>1. PICK to \in {"picked", "shipped"} :
            /\ to = IF Kind(w) = "ship" THEN "shipped" ELSE "picked"
            /\ NewPicks(w, took) = Converted(picks, took, to) /\ PartsOf(w) \in Parts
      BY <1>1, <1>8 DEF NewIs, Ships
    <2>2. to \in PickStates /\ PartsOf(w)[l] \in Nat
      BY <2>1 DEF PickStates, Parts
    <2>3. Gained(w, l) = 0
      BY <1>8 DEF Gained, Ships
    <2>4. PickSum(Converted(picks, took, to), l, {"picked", "shipped"}) >= PickSum(picks, l, {"picked", "shipped"})
      BY <1>1, <1>2, <1>8, AfterActive
    <2>5. Converted(picks, took, to) \in Seq(Pick)
      BY <1>1, <1>2, <1>8, <2>2, ConvertedPicks
    <2>6. PickSum(Converted(picks, took, to), l, {"picked", "shipped"}) \in Nat
      BY <2>5, PickSumWeights
    <2>7. PartsOf(w)[l] = 0 => TookNone(picks, took, l)
      <3>1. \A i \in DOMAIN took : took[i] \in Nat /\ took[i] <= PartsOf(w)[picks[i].line]
        BY <1>1, <1>2, <1>8, TookIs DEF Takes
      <3> QED BY <3>1 DEF TookNone
    <2>8. PartsOf(w)[l] = 0 =>
            \A states : PickSum(Converted(picks, took, to), l, states) = PickSum(picks, l, states)
      BY <1>1, <1>2, <1>8, <2>2, <2>7, AfterNone
    <2>9. PickSum(NewPicks(w, took), l, {"shipped"}) <= ShipmentSum(NewShipments(w), l)
      <3>1. CASE Kind(w) = "ship"
        <4>1. /\ PickSum(Converted(picks, took, "shipped"), l, {"shipped"})
                   <= PickSum(picks, l, {"shipped"}) + TookSum(picks, took, l)
              /\ PickSum(Converted(picks, took, "shipped"), l, {"shipped"}) \in Int
              /\ TookSum(picks, took, l) \in Int
          BY <1>1, <1>2, <1>8, AfterShip
        <4>2. TookSum(picks, took, l) <= PartsOf(w)[l]
          BY <1>2, <1>8, <3>1 DEF Takes
        <4>3. Sent(w, l) = PartsOf(w)[l]
          BY <3>1 DEF Sent
        <4>4. NewPicks(w, took) = Converted(picks, took, "shipped")
          BY <2>1, <3>1
        <4> QED BY <1>3, <1>5, <2>2, <4>1, <4>2, <4>3, <4>4 DEF NewShipmentSums
      <3>2. CASE Kind(w) = "unship"
        <4>1. NewPicks(w, took) = Converted(picks, took, "picked")
          BY <2>1, <3>2
        <4>2. Sent(w, l) = -PartsOf(w)[l]
          BY <3>2 DEF Sent
        <4>3. CASE PartsOf(w)[l] > 0
          <5>1. PickSum(Converted(picks, took, "picked"), l, {"shipped"})
                  <= ShipmentSum(shipments, l) - PartsOf(w)[l]
            BY <1>2, <1>8, <3>2, <4>3 DEF Takes
          <5>2. ShipmentSum(NewShipments(w), l) = ShipmentSum(shipments, l) - PartsOf(w)[l]
            BY <1>3, <2>2, <4>2 DEF NewShipmentSums
          <5> QED BY <4>1, <5>1, <5>2
        <4>4. CASE PartsOf(w)[l] = 0
          <5>1. PickSum(Converted(picks, took, "picked"), l, {"shipped"}) = PickSum(picks, l, {"shipped"})
            BY <2>1, <2>8, <3>2, <4>4
          <5>2. ShipmentSum(NewShipments(w), l) = ShipmentSum(shipments, l)
            BY <1>3, <4>2, <4>4 DEF NewShipmentSums
          <5> QED BY <1>5, <4>1, <5>1, <5>2
        <4> QED BY <2>2, <4>3, <4>4
      <3> QED BY <1>8, <3>1, <3>2 DEF Ships
    <2>10. NeverDispatched(NewShipments(w), l) =>
             PickSum(NewPicks(w, took), l, {"picked", "shipped"}) = PickSum(picks, l, {"picked", "shipped"})
      BY <1>4, <1>8, <2>1, <2>8
    <2> QED BY <1>4, <1>5, <2>1, <2>3, <2>4, <2>6, <2>9, <2>10 DEF NewPickSums
  <1> QED BY <1>1, <1>6, <1>7, <1>8 DEF Ships

(***************************************************************************)
(* The quantities agree after each commit.                                 *)
(***************************************************************************)
Value(ss) == SumFunctionOnSet([l \in Lines |-> ShipmentSum(ss, l) * UnitCost[l]], Lines)

LEMMA Products ==
  \A a, b, c \in Int : /\ a * c \in Int /\ (a + b) * c = a * c + b * c
                       /\ (-a) * c = (-1) * (a * c) /\ 0 * c = 0
  OBVIOUS

LEMMA ValueChanges ==
  ASSUME TypeOK, ControlOK, NEW w \in Workers, Started(w), NEW took, Takes(w, took), Perpetual
  PROVE  Value(NewShipments(w)) = Value(shipments) + CogsChange(w)
  <1> DEFINE x == [l \in Lines |-> ShipmentSum(shipments, l) * UnitCost[l]]
             y == [l \in Lines |-> ShipmentSum(NewShipments(w), l) * UnitCost[l]]
             z == [l \in Lines |-> Sent(w, l) * UnitCost[l]]
  <1>1. IsFiniteSet(Lines) /\ \A l \in Lines : UnitCost[l] \in Int
    BY FulfilmentAssumption
  <1>2. \A l \in Lines :
          /\ ShipmentSum(shipments, l) \in Int /\ Sent(w, l) \in Int
          /\ ShipmentSum(NewShipments(w), l) = ShipmentSum(shipments, l) + Sent(w, l)
    BY ShipmentSumsAre DEF NewShipmentSums
  <1>3. \A l \in Lines : x[l] \in Int /\ z[l] \in Int /\ y[l] = x[l] + z[l]
    BY <1>1, <1>2, Products
  <1>4. SumFunctionOnSet(z, Lines) = CogsChange(w)
    <2>1. CASE Kind(w) \in {"ship", "unship"}
      <3> DEFINE f == [l \in Lines |-> PartsOf(w)[l] * UnitCost[l]]
      <3>1. PartsOf(w) \in Parts
        BY <2>1, CommitPicks DEF Takes, Ships
      <3>2. \A l \in Lines : PartsOf(w)[l] \in Int
        BY <3>1 DEF Parts
      <3>3. CostOf(PartsOf(w)) = SumFunctionOnSet(f, Lines)
        BY DEF CostOf, SumFunction, SumFunctionOnSet, FoldFunction
      <3>4. CASE Kind(w) = "ship"
        <4>1. z = f
          BY <3>4 DEF Sent
        <4> QED BY <3>3, <3>4, <4>1 DEF CogsChange
      <3>5. CASE Kind(w) = "unship"
        <4>1. \A l \in Lines : f[l] \in Int /\ z[l] = (-1) * f[l]
          <5>1. \A l \in Lines : z[l] = (-PartsOf(w)[l]) * UnitCost[l]
            BY <3>5 DEF Sent
          <5> QED BY <1>1, <3>2, <5>1, Products
        <4> HIDE DEF z, f
        <4>2. SumFunctionOnSet(z, Lines) = (-1) * SumFunctionOnSet(f, Lines)
          BY <1>1, <4>1, SumScale
        <4>3. SumFunctionOnSet(f, Lines) \in Int
          BY <1>1, <4>1, SumType
        <4>4. SumFunctionOnSet(z, Lines) = -SumFunctionOnSet(f, Lines)
          BY <4>2, <4>3
        <4>5. CogsChange(w) = -CostOf(PartsOf(w))
          BY <3>5 DEF CogsChange
        <4> QED BY <3>3, <4>4, <4>5
      <3> QED BY <2>1, <3>4, <3>5
    <2>2. CASE Kind(w) \notin {"ship", "unship"}
      <3>1. \A l \in Lines : z[l] = 0
        BY <1>1, <2>2, Products DEF Sent
      <3>2. CogsChange(w) = 0
        BY <2>2 DEF CogsChange
      <3> HIDE DEF z
      <3>3. SumFunctionOnSet(z, Lines) = 0
        BY <1>1, <3>1, SumZero
      <3> QED BY <3>2, <3>3
    <2> QED BY <2>1, <2>2
  <1> HIDE DEF x, y, z
  <1>5. SumFunctionOnSet(y, Lines) = SumFunctionOnSet(x, Lines) + SumFunctionOnSet(z, Lines)
    BY <1>1, <1>3, SumPlus
  <1> QED BY <1>4, <1>5 DEF Value, x, y

LEMMA ValueIs ==
  ASSUME NEW ss
  PROVE  SumFunction([l \in Lines |-> ShipmentSum(ss, l) * UnitCost[l]]) = Value(ss)
  BY DEF Value, SumFunction, SumFunctionOnSet, FoldFunction

LEMMA CogsMean ==
  CogsIsDispatched <=> (Perpetual => cogs = Value(shipments))
  BY DEF CogsIsDispatched, Value, SumFunction, SumFunctionOnSet, FoldFunction

(* The history of picks, which a pick adds to in one bin and its reversal   *)
(* takes from in another.                                                  *)
LEMMA NetPickedIs ==
  ASSUME NEW f \in [Lines -> [Locations -> Int]], NEW l \in Lines
  PROVE  SumFunction(f[l]) = SumFunctionOnSet(f[l], Locations) /\ SumFunction(f[l]) \in Int
  <1>1. f[l] \in [Locations -> Int] /\ IsFiniteSet(Locations)
    BY FulfilmentAssumption
  <1>2. DOMAIN f[l] = Locations /\ \A c \in Locations : f[l][c] \in Int
    BY <1>1
  <1>3. SumFunction(f[l]) = SumFunctionOnSet(f[l], Locations)
    BY <1>2 DEF SumFunction, SumFunctionOnSet, FoldFunction
  <1>4. SumFunctionOnSet(f[l], Locations) \in Int
    BY <1>1, <1>2, SumType
  <1> QED BY <1>3, <1>4

LEMMA NetPickedChanges ==
  ASSUME TypeOK, ControlOK, NEW w \in Workers, Commit(w), NEW l \in Lines
  PROVE  SumFunction(netPicked'[l]) = NetPicked(l) + Gained(w, l)
  <1> DEFINE place == IF Kind(w) = "unpick" THEN picks[request[w].id].from ELSE Home[l]
             f == netPicked[l]
             g == netPicked'[l]
  <1>1. /\ netPicked \in [Lines -> [Locations -> Int]] /\ seen[w] \in Nat /\ request[w] \in Requests
        /\ picks \in Seq(Pick) /\ ControlOf(w) /\ Started(w)
        /\ Kind(w) \in {"pick", "unpick", "ship", "unship"}
    BY RequestTyped DEF TypeOK, ControlOK, Commit, Started, Active, Kind
  <1>2. netPicked' \in [Lines -> [Locations -> Int]]
    BY CommitTyped
  <1>3. \A c \in Locations :
          g[c] = IF Kind(w) \in {"pick", "unpick"} THEN f[c] + StagedChange(w, l, c) ELSE f[c]
    BY DEF Commit
  <1>4. place \in Locations
    BY <1>1, HomeIs, PicksAre DEF ControlOf
  <1>5. Gained(w, l) \in Int
    BY <1>1, RequestTyped DEF Gained, Kind
  <1>6. \A c \in Locations : f[c] \in Int /\ g[c] \in Int
    BY <1>1, <1>2
  <1>7. \A c \in Locations \ {place} : g[c] = f[c]
    <2> SUFFICES ASSUME NEW c \in Locations \ {place} PROVE g[c] = f[c]
      OBVIOUS
    <2>1. Kind(w) \in {"pick", "unpick"} => StagedChange(w, l, c) = 0
      BY DEF StagedChange
    <2> HIDE DEF f, g
    <2> QED BY <1>3, <1>6, <2>1
  <1>8. g[place] = f[place] + Gained(w, l)
    <2>1. Kind(w) \in {"pick", "unpick"} => StagedChange(w, l, place) = Gained(w, l)
      BY <1>1 DEF StagedChange, Gained
    <2>2. Kind(w) \notin {"pick", "unpick"} => Gained(w, l) = 0
      BY DEF Gained
    <2> HIDE DEF f, g, place
    <2> QED BY <1>3, <1>4, <1>6, <2>1, <2>2
  <1>9. IsFiniteSet(Locations)
    BY FulfilmentAssumption
  <1>10. /\ NetPicked(l) = SumFunctionOnSet(f, Locations) /\ NetPicked(l) \in Int
         /\ SumFunction(g) = SumFunctionOnSet(g, Locations)
    BY <1>1, <1>2, NetPickedIs DEF NetPicked
  <1> HIDE DEF f, g, place
  <1>11. SumFunctionOnSet(g, Locations) = SumFunctionOnSet(f, Locations) - f[place] + g[place]
    BY <1>4, <1>6, <1>7, <1>9, SumExcept
  <1>12. SumFunction(g) = NetPicked(l) + Gained(w, l)
    BY <1>4, <1>5, <1>6, <1>8, <1>10, <1>11
  <1> QED BY <1>12 DEF g

LEMMA SumsStep ==
  ASSUME BaseInv, ClaimsOK, PicksAgree, NEW w \in Workers, Acts(w)
  PROVE  PicksAgree'
  <1>1. CASE UNCHANGED tables
    BY <1>1 DEF PicksAgree, StagedAgrees, Departed, CogsIsDispatched, PicksCover, NetPicked,
                NeverDispatched, tables
  <1>2. CASE Commit(w)
    <2>1. /\ TypeOK /\ ControlOK /\ StagedAgrees /\ CogsIsDispatched /\ PicksCover
          /\ pc[w] = "commit" /\ Started(w) /\ request[w] \in Requests
          /\ Kind(w) \in {"pick", "unpick", "ship", "unship"}
      BY <1>2, RequestTyped DEF BaseInv, PicksAgree, Commit, Started, Active, TypeOK, Kind
    <2>2. Ready(w, taken[w]) /\ Takes(w, taken[w])
      BY <2>1, ReadyNow DEF Ready
    <2>3. \A l \in Lines : NewShipmentSums(w, l) /\ NewPickSums(w, taken[w], l)
      BY <2>1, <2>2, ShipmentSumsAre, PickSumsAre
    <2>4. /\ picks' = NewPicks(w, taken[w]) /\ shipments' = NewShipments(w)
          /\ cogs' = cogs + CogsChange(w)
          /\ \A l \in Lines, c \in Locations :
               /\ staged'[l][c] = staged[l][c] + StagedChange(w, l, c)
               /\ netPicked'[l][c] =
                    IF Kind(w) \in {"pick", "unpick"} THEN netPicked[l][c] + StagedChange(w, l, c)
                    ELSE netPicked[l][c]
      BY <1>2 DEF Commit
    <2>5. StagedAgrees'
      <3>1. ASSUME NEW l \in Lines, NEW c \in Locations
            PROVE  staged'[l][c] =
                     netPicked'[l][c] - (IF c = Home[l] THEN ShipmentSum(NewShipments(w), l) ELSE 0)
        <4>1. staged[l][c] = netPicked[l][c] - (IF c = Home[l] THEN ShipmentSum(shipments, l) ELSE 0)
          BY <2>1 DEF StagedAgrees, Departed
        <4>2. staged[l][c] \in Int /\ netPicked[l][c] \in Int /\ seen[w] \in Nat
          BY <2>1 DEF TypeOK
        <4>3. /\ Sent(w, l) \in Int
              /\ ShipmentSum(NewShipments(w), l) = ShipmentSum(shipments, l) + Sent(w, l)
              /\ ShipmentSum(shipments, l) \in Nat
          BY <2>3 DEF NewShipmentSums
        <4>4. CASE Kind(w) \in {"pick", "unpick"}
          <5>1. Sent(w, l) = 0
            BY <4>4 DEF Sent
          <5>2. StagedChange(w, l, c) \in Int
            BY <2>1, <4>2, <4>4, RequestTyped DEF StagedChange, Kind
          <5> QED BY <2>4, <4>1, <4>2, <4>3, <4>4, <5>1, <5>2
        <4>5. CASE Ships(w)
          <5>1. PartsOf(w) \in Parts
            BY <2>1, <2>2, <4>5, CommitPicks DEF Takes
          <5>2. PartsOf(w)[l] \in Nat
            BY <5>1 DEF Parts
          <5>3. StagedChange(w, l, c) = IF c = Home[l] THEN -Sent(w, l) ELSE 0
            BY <4>5, <5>2 DEF StagedChange, Sent, Ships
          <5> QED BY <2>4, <4>1, <4>2, <4>3, <4>5, <5>3 DEF Ships
        <4> QED BY <2>1, <4>4, <4>5 DEF Ships
      <3> QED BY <2>4, <3>1 DEF StagedAgrees, Departed
    <2>6. PicksCover'
      <3>1. ASSUME NEW l \in Lines
            PROVE  /\ PickSum(NewPicks(w, taken[w]), l, {"shipped"}) <= ShipmentSum(NewShipments(w), l)
                   /\ SumFunction(netPicked'[l]) <= PickSum(NewPicks(w, taken[w]), l, {"picked", "shipped"})
                   /\ NeverDispatched(NewShipments(w), l) =>
                        SumFunction(netPicked'[l]) =
                          PickSum(NewPicks(w, taken[w]), l, {"picked", "shipped"})
        <4>1. NewPickSums(w, taken[w], l)
          BY <2>3
        <4>2. SumFunction(netPicked'[l]) = NetPicked(l) + Gained(w, l)
          BY <1>2, <2>1, NetPickedChanges
        <4>3. /\ NetPicked(l) <= PickSum(picks, l, {"picked", "shipped"})
              /\ NeverDispatched(shipments, l) => NetPicked(l) = PickSum(picks, l, {"picked", "shipped"})
          BY <2>1 DEF PicksCover
        <4>4. NetPicked(l) \in Int /\ PickSum(picks, l, {"picked", "shipped"}) \in Nat
          BY <2>1, NetPickedIs, PickSumWeights DEF TypeOK, NetPicked
        <4>5. PickSum(NewPicks(w, taken[w]), l, {"picked", "shipped"}) \in Nat
          <5>1. NewPicks(w, taken[w]) \in Seq(Pick)
            BY <2>1, <2>2, CommitPicks DEF Takes
          <5> QED BY <5>1, PickSumWeights
        <4> QED BY <4>1, <4>2, <4>3, <4>4, <4>5 DEF NewPickSums
      <3> QED BY <2>4, <3>1 DEF PicksCover, NetPicked, NeverDispatched
    <2>7. CogsIsDispatched'
      <3>1. Perpetual => Value(NewShipments(w)) = Value(shipments) + CogsChange(w)
        BY <2>1, <2>2, ValueChanges
      <3>2. Perpetual => cogs' = Value(shipments')
        BY <2>1, <2>4, <3>1, CogsMean
      <3>3. SumFunction([l \in Lines |-> ShipmentSum(shipments', l) * UnitCost[l]]) = Value(shipments')
        BY ValueIs
      <3> QED BY <3>2, <3>3 DEF CogsIsDispatched
    <2> QED BY <2>5, <2>6, <2>7 DEF PicksAgree
  <1> QED BY <1>1, <1>2, TablesChange

(***************************************************************************)
(* Claims stay true.                                                       *)
(***************************************************************************)
LEMMA OwnClaims ==
  ASSUME BaseInv, ClaimsOK, PicksCover, NEW w \in Workers, Acts(w)
  PROVE  ClaimsOf(w)'
  <1>1. /\ TypeOK /\ ControlOK /\ ClaimsOf(w) /\ request[w] \in Requests
        /\ Kind(w) \in {"pick", "unpick", "ship", "unship"}
    BY RequestTyped DEF BaseInv, TypeOK, ClaimsOK, Kind
  <1>2. CASE pc'[w] \in {"idle", "check"}
    BY <1>2 DEF ClaimsOf, Reverses, Started, Active
  <1>3. CASE pc'[w] \notin {"idle", "check"}
    <2>1. /\ request'[w] = request[w] /\ picks' = picks /\ shipments' = shipments
          /\ Kind(w)' = Kind(w) /\ PartsOf(w)' = PartsOf(w)
      BY <1>1, <1>3, OwnStep DEF Kind, PartsOf, tables
    <2>2. Reverses(w)'
      <3>1. CASE pc[w] = "check"
        <4>1. seen'[w] = IF Kind(w) = "unpick" THEN picks[request[w].id].qty ELSE 0
          BY <1>1, <1>3, <3>1, OwnStep
        <4>2. Kind(w) = "unpick" => picks[request[w].id].qty \in Nat
          <5>1. pc[w] = "check" /\ pc'[w] = "move" /\ Accepted(w)
            BY <1>1, <1>3, <3>1, OwnStep
          <5>2. Kind(w) = "unpick" => request[w].id \in DOMAIN picks
            BY <5>1 DEF Accepted, UnpickAccepted
          <5> QED BY <1>1, <5>2, PicksAre DEF TypeOK
        <4> QED BY <2>1, <4>1, <4>2 DEF Reverses
      <3>2. CASE pc[w] # "check"
        <4>1. Started(w) /\ seen'[w] = seen[w]
          BY <1>1, <1>3, <3>2, OwnStep DEF Started, Active
        <4> QED BY <1>1, <2>1, <4>1 DEF ClaimsOf, Reverses, NeverDispatched
      <3> QED BY <3>1, <3>2
    <2>3. ASSUME pc'[w] \in {"order", "commit"}
          PROVE  /\ Takes(w, taken'[w])
                 /\ Kind(w) = "unpick" => picks[request[w].id].state \in {"picked", "shipped"}
      <3>1. \/ pc[w] = "move" /\ Kind(w) = "pick"
            \/ pc[w] = "change" /\ StillAllowed(w) /\ taken'[w] = Found(w)
            \/ pc[w] = "order" /\ taken'[w] = taken[w]
        BY <1>1, <1>3, <2>3, OwnStep
      <3>2. CASE pc[w] = "move" /\ Kind(w) = "pick"
        BY <3>2 DEF Takes, Ships
      <3>3. CASE pc[w] = "change" /\ StillAllowed(w) /\ taken'[w] = Found(w)
        <4>1. Ready(w, Found(w))
          BY <1>1, <3>3, ReadyNow
        <4> QED BY <3>3, <4>1 DEF Ready
      <3>4. CASE pc[w] = "order" /\ taken'[w] = taken[w]
        BY <1>1, <3>4 DEF ClaimsOf
      <3> QED BY <3>1, <3>2, <3>3, <3>4
    <2>4. pc'[w] \in {"order", "commit"} => Takes(w, taken[w])'
      <3>1. Dispatched(request[w].id)' <=> Dispatched(request[w].id)
        BY <2>1 DEF Dispatched
      <3> HIDE DEF Dispatched
      <3> QED BY <2>1, <2>3, <3>1 DEF Takes, Ships
    <2> QED BY <2>1, <2>2, <2>3, <2>4 DEF ClaimsOf
  <1> QED BY <1>2, <1>3

(* Two that hold the same row are one.                                     *)
LEMMA RowsOnce ==
  ASSUME LocksOK, NEW u \in Workers, NEW w \in Workers, u # w, pc[u] \in Late, pc[w] \in Late
  PROVE  Needed(u) \cap Needed(w) = {}
  BY DEF LocksOK

(* A commit that takes nothing from a line leaves what was shipped of it.  *)
LEMMA LineStays ==
  ASSUME TypeOK, ControlOK, NEW w \in Workers, Started(w), NEW took, Takes(w, took),
         NEW l \in Lines, Ships(w) => PartsOf(w)[l] = 0
  PROVE  /\ LineKept(picks, NewPicks(w, took), l)
         /\ ShipmentSum(NewShipments(w), l) = ShipmentSum(shipments, l)
         /\ Ships(w) => \A i \in DOMAIN picks :
              picks[i].line = l => NewPicks(w, took)[i] = picks[i]
  <1>1. /\ picks \in Seq(Pick) /\ NewIs(w, took)
        /\ Kind(w) \in {"pick", "unpick", "ship", "unship"}
    BY NewAre DEF TypeOK
  <1>2. ShipmentSum(NewShipments(w), l) = ShipmentSum(shipments, l)
    <2>1. NewShipmentSums(w, l)
      BY ShipmentSumsAre
    <2>2. Sent(w, l) = 0
      BY <1>1 DEF Sent, Ships
    <2> QED BY <2>1, <2>2 DEF NewShipmentSums
  <1>3. CASE Kind(w) = "pick"
    <2> DEFINE x == NewPick(request[w])
    <2>1. x \in Pick /\ NewPicks(w, took) = Append(picks, x)
      BY <1>1, <1>3 DEF NewIs
    <2>2. x.state = "picked"
      BY DEF NewPick
    <2> HIDE DEF x
    <2>3. /\ Len(picks) \in Nat /\ DOMAIN picks = 1..Len(picks)
          /\ DOMAIN Append(picks, x) = 1..(Len(picks) + 1)
          /\ \A i \in 1..Len(picks) : Append(picks, x)[i] = picks[i]
          /\ Append(picks, x)[Len(picks) + 1] = x
      BY <1>1, <2>1, Appended
    <2>4. /\ DOMAIN picks \subseteq DOMAIN Append(picks, x)
          /\ \A i \in DOMAIN Append(picks, x) \ DOMAIN picks : i = Len(picks) + 1
      BY <2>3
    <2> QED BY <1>2, <1>3, <2>1, <2>2, <2>3, <2>4 DEF LineKept, Ships
  <1>4. CASE Kind(w) = "unpick"
    <2> DEFINE id == request[w].id
               x == [picks[id] EXCEPT !.state = "cancelled"]
    <2>1. id \in DOMAIN picks /\ NewPicks(w, took) = [picks EXCEPT ![id] = x]
      BY <1>1, <1>4 DEF NewIs
    <2>2. /\ x.line = picks[id].line /\ x.qty = picks[id].qty /\ x.state = "cancelled"
          /\ DOMAIN [picks EXCEPT ![id] = x] = DOMAIN picks
          /\ [picks EXCEPT ![id] = x][id] = x
          /\ \A j \in DOMAIN picks \ {id} : [picks EXCEPT ![id] = x][j] = picks[j]
      BY <1>1, <2>1, ReplacedPick
    <2> HIDE DEF x, id
    <2> QED BY <1>2, <1>4, <2>1, <2>2 DEF LineKept, Ships
  <1>5. CASE Ships(w)
    <2>1. PICK to \in {"picked", "shipped"} : NewPicks(w, took) = Converted(picks, took, to)
      BY <1>1, <1>5 DEF NewIs, Ships
    <2>2. to \in PickStates /\ Took(picks, took)
      BY <1>5 DEF PickStates, Takes
    <2>3. /\ DOMAIN picks \subseteq DOMAIN Converted(picks, took, to)
          /\ \A i \in DOMAIN picks : Converted(picks, took, to)[i] = KeptAs(picks, took, to, i)
          /\ \A i \in DOMAIN Converted(picks, took, to) \ DOMAIN picks :
               \E j \in Split(picks, took) : Converted(picks, took, to)[i] = Piece(picks, took, to, j)
      BY <1>1, <2>2, ConvertedPicks
    <2>4. \A i \in DOMAIN took :
            took[i] \in Nat /\ took[i] <= PartsOf(w)[picks[i].line] /\ i \in DOMAIN picks
      BY <1>1, <1>5, <2>2, TookIs DEF Takes
    <2>5. \A i \in DOMAIN picks : picks[i].line = l => KeptAs(picks, took, to, i) = picks[i]
      <3>1. ASSUME NEW i \in DOMAIN picks, picks[i].line = l PROVE ~(i \in DOMAIN took /\ took[i] > 0)
        BY <1>5, <2>4, <3>1
      <3> QED BY <1>1, <2>2, <3>1, KeptIs
    <2>6. \A i \in DOMAIN picks : KeptAs(picks, took, to, i).line = picks[i].line
      BY <1>1, <2>2, KeptIs
    <2>7. ASSUME NEW j \in Split(picks, took) PROVE Piece(picks, took, to, j).line # l
      <3>1. j \in DOMAIN took /\ took[j] > 0
        BY <1>1, <2>2, TookIs
      <3>2. picks[j].line # l
        BY <1>5, <2>4, <3>1
      <3>3. Piece(picks, took, to, j).line = picks[j].line
        BY <1>1, <2>2, PiecesAre
      <3> QED BY <3>2, <3>3
    <2> QED BY <1>2, <2>1, <2>3, <2>5, <2>6, <2>7 DEF LineKept
  <1> QED BY <1>1, <1>3, <1>4, <1>5 DEF Ships

LEMMA StagingOf ==
  ASSUME NEW w \in Workers
  PROVE  /\ Ships(w) => \A l \in Lines : PartsOf(w)[l] > 0 => Staging(l, Home[l]) \in Needed(w)
         /\ Kind(w) = "unpick" => Staging(picks[request[w].id].line, picks[request[w].id].from) \in Needed(w)
  BY DEF Needed, Ships

(* Another's commit.                                                       *)
LEMMA ReversesOn ==
  ASSUME TypeOK, ControlOK, NEW w \in Workers, Started(w), NEW took, Takes(w, took),
         NEW id \in DOMAIN picks, NEW q \in Nat, q >= picks[id].qty,
         NeverDispatched(shipments, picks[id].line) => q = picks[id].qty
  PROVE  /\ q >= NewPicks(w, took)[id].qty
         /\ NeverDispatched(NewShipments(w), NewPicks(w, took)[id].line) => q = NewPicks(w, took)[id].qty
  <1> DEFINE l == picks[id].line
             qs == NewPicks(w, took)
  <1>1. picks \in Seq(Pick) /\ picks[id] \in Pick /\ l \in Lines /\ picks[id].qty \in Nat
    BY PicksAre DEF TypeOK, Pick
  <1>2. /\ qs \in Seq(Pick) /\ id \in DOMAIN qs
        /\ qs[id].line = l /\ qs[id].qty <= picks[id].qty
    <2>1. Ships(w) => Took(picks, took)
      BY DEF Takes
    <2> QED BY <2>1, CommitPicks
  <1>3. qs[id].qty \in Nat
    BY <1>2, PicksAre
  <1>4. q >= qs[id].qty
    BY <1>1, <1>2, <1>3
  <1>5. ASSUME NeverDispatched(NewShipments(w), l) PROVE q = qs[id].qty
    <2>1. NeverDispatched(shipments, l) /\ (Ships(w) => PartsOf(w)[l] = 0)
      BY <1>1, <1>5, DispatchedOnce
    <2>2. LineKept(picks, qs, l)
      BY <1>1, <2>1, LineStays
    <2>3. qs[id].qty = picks[id].qty
      BY <2>2 DEF LineKept
    <2> QED BY <2>1, <2>3
  <1> QED BY <1>2, <1>4, <1>5

(* A dispatch that it does not cancel stays one.                           *)
LEMMA DispatchedStays ==
  ASSUME TypeOK, ControlOK, NEW w \in Workers, Started(w), NEW took, Takes(w, took),
         NEW id, Dispatched(id), Kind(w) = "unship" => request[w].id # id
  PROVE  id \in DOMAIN NewShipments(w) /\ NewShipments(w)[id].state = "dispatched"
  <1>1. /\ shipments \in Seq(Shipment) /\ NewIs(w, took)
        /\ Kind(w) \in {"pick", "unpick", "ship", "unship"}
        /\ id \in DOMAIN shipments /\ shipments[id].state = "dispatched"
    BY NewAre DEF TypeOK, Dispatched
  <1>2. CASE Kind(w) \in {"pick", "unpick"}
    BY <1>1, <1>2 DEF NewIs
  <1>3. CASE Kind(w) = "ship"
    <2> DEFINE x == [parts |-> PartsOf(w), state |-> "dispatched"]
    <2>1. NewShipments(w) = Append(shipments, x) /\ x \in Shipment
      BY <1>1, <1>3 DEF NewIs
    <2> HIDE DEF x
    <2> QED BY <1>1, <2>1, Appended
  <1>4. CASE Kind(w) = "unship"
    <2>1. NewShipments(w) =
            [shipments EXCEPT ![request[w].id] = [shipments[request[w].id] EXCEPT !.state = "cancelled"]]
      BY <1>1, <1>4 DEF NewIs
    <2> QED BY <1>1, <1>4, <2>1
  <1> QED BY <1>1, <1>2, <1>3, <1>4

(* What was found stays to be taken, if the lines of a cancelled dispatch  *)
(* are left alone.                                                         *)
TakesIn(ps, ss, took, parts, kind, id) ==
  /\ Took(ps, took)
  /\ \A i \in DOMAIN took : took[i] <= parts[ps[i].line]
  /\ kind = "ship" => \A l \in Lines : TookSum(ps, took, l) <= parts[l]
  /\ kind = "unship" =>
       \A l \in Lines : parts[l] > 0 =>
         /\ id \in DOMAIN ss /\ ss[id].state = "dispatched"
         /\ PickSum(Converted(ps, took, "picked"), l, {"shipped"}) <= ShipmentSum(ss, l) - parts[l]

LEMMA TakesOn ==
  ASSUME TypeOK, ControlOK, NEW w \in Workers, Started(w), NEW took, Takes(w, took),
         NEW t, NEW parts \in Parts, NEW kind, NEW id,
         TakesIn(picks, shipments, t, parts, kind, id),
         kind = "unship" => \A l \in Lines : parts[l] > 0 =>
           /\ Ships(w) => PartsOf(w)[l] = 0
           /\ Kind(w) = "unship" => request[w].id # id
  PROVE  TakesIn(NewPicks(w, took), NewShipments(w), t, parts, kind, id)
  <1> DEFINE qs == NewPicks(w, took)
             ss == NewShipments(w)
  <1>1. picks \in Seq(Pick) /\ shipments \in Seq(Shipment) /\ Took(picks, t)
    BY DEF TypeOK, TakesIn
  <1>2. /\ qs \in Seq(Pick) /\ DOMAIN picks \subseteq DOMAIN qs
        /\ \A i \in DOMAIN picks : qs[i].line = picks[i].line
    <2>1. Ships(w) => Took(picks, took)
      BY DEF Takes
    <2> QED BY <2>1, CommitPicks
  <1>3. Took(qs, t) /\ \A i \in DOMAIN t : qs[i].line = picks[i].line
    BY <1>1, <1>2 DEF Took
  <1>4. \A i \in DOMAIN t : t[i] <= parts[qs[i].line]
    BY <1>3 DEF TakesIn
  <1>5. \A l : TookSum(qs, t, l) = TookSum(picks, t, l)
    <2>1. \A l : TookOn(qs, t, l) = TookOn(picks, t, l)
      BY <1>3 DEF TookOn
    <2> QED BY <2>1 DEF TookSum
  <1>6. ASSUME kind = "unship", NEW l \in Lines, parts[l] > 0
        PROVE  /\ id \in DOMAIN ss /\ ss[id].state = "dispatched"
               /\ PickSum(Converted(qs, t, "picked"), l, {"shipped"}) <= ShipmentSum(ss, l) - parts[l]
    <2>1. /\ Dispatched(id)
          /\ PickSum(Converted(picks, t, "picked"), l, {"shipped"}) <= ShipmentSum(shipments, l) - parts[l]
          /\ Ships(w) => PartsOf(w)[l] = 0
          /\ Kind(w) = "unship" => request[w].id # id
      BY <1>6 DEF TakesIn, Dispatched
    <2>2. id \in DOMAIN ss /\ ss[id].state = "dispatched"
      BY <2>1, DispatchedStays
    <2>3. LineKept(picks, qs, l) /\ ShipmentSum(ss, l) = ShipmentSum(shipments, l)
      BY <2>1, LineStays
    <2>4. PickSum(Converted(qs, t, "picked"), l, {"shipped"})
            <= PickSum(Converted(picks, t, "picked"), l, {"shipped"})
      BY <1>1, <1>2, <1>3, <2>3, AfterLess
    <2>5. "picked" \in PickStates
      BY DEF PickStates
    <2>6. /\ Converted(qs, t, "picked") \in Seq(Pick) /\ Converted(picks, t, "picked") \in Seq(Pick)
      BY <1>1, <1>2, <1>3, <2>5, ConvertedPicks
    <2>7. /\ PickSum(Converted(qs, t, "picked"), l, {"shipped"}) \in Nat
          /\ PickSum(Converted(picks, t, "picked"), l, {"shipped"}) \in Nat
          /\ ShipmentSum(shipments, l) \in Nat /\ parts[l] \in Nat
      BY <1>1, <2>6, PickSumWeights, ShipmentSumLoads DEF Parts
    <2> QED BY <2>1, <2>2, <2>3, <2>4, <2>7
  <1>7. kind = "ship" => \A l \in Lines : TookSum(qs, t, l) <= parts[l]
    BY <1>5 DEF TakesIn
  <1> QED BY <1>3, <1>4, <1>6, <1>7 DEF TakesIn

LEMMA OthersClaims ==
  ASSUME BaseInv, ClaimsOK, PicksCover, NEW w \in Workers, Commit(w),
         NEW u \in Workers, u # w
  PROVE  ClaimsOf(u)'
  <1>1. /\ TypeOK /\ ControlOK /\ LocksOK /\ PicksCover /\ ClaimsOf(u) /\ ControlOf(u)
        /\ request[w] \in Requests /\ request[u] \in Requests
        /\ picks \in Seq(Pick) /\ shipments \in Seq(Shipment) /\ seen[u] \in Nat
        /\ pc[w] = "commit" /\ Started(w) /\ pc[w] \in Late
    BY DEF BaseInv, ClaimsOK, ControlOK, TypeOK, Commit, Started, Active, Late
  <1>2. /\ pc'[u] = pc[u] /\ request'[u] = request[u] /\ seen'[u] = seen[u] /\ taken'[u] = taken[u]
        /\ Kind(u)' = Kind(u) /\ (Started(u)' <=> Started(u)) /\ (Ships(u)' <=> Ships(u))
    BY <1>1, Frame DEF Acts, Step, Kind, Started, Ships
  <1> DEFINE took == taken[w]
  <1>3. picks' = NewPicks(w, took) /\ shipments' = NewShipments(w)
    BY DEF Commit
  <1>4. Ready(w, took) /\ Takes(w, took) /\ (Ships(w) => Took(picks, took))
    BY <1>1, ReadyNow DEF Ready, Takes
  <1>5. NewIs(w, took) /\ Kind(w) \in {"pick", "unpick", "ship", "unship"}
    BY <1>1, NewAre
  <1>6. Started(u) /\ Ships(u) => PartsOf(u)' = PartsOf(u) /\ PartsOf(u) \in Parts
    <2>1. ASSUME Started(u), Ships(u) PROVE PartsOf(u)' = PartsOf(u)
      BY <1>1, <1>2, <2>1, NeededSame DEF Acts, Step, Ships
    <2>2. ASSUME Started(u), Ships(u) PROVE PartsOf(u) \in Parts
      BY <1>1, <2>2, NewAre DEF NewIs, Ships
    <2> QED BY <2>1, <2>2
  <1> HIDE DEF took
  <1>7. Reverses(u)'
    <2>1. ASSUME Started(u), Kind(u) = "unpick"
          PROVE  /\ seen[u] >= NewPicks(w, took)[request[u].id].qty
                 /\ NeverDispatched(NewShipments(w), NewPicks(w, took)[request[u].id].line) =>
                      seen[u] = NewPicks(w, took)[request[u].id].qty
      <3>1. request[u].id \in DOMAIN picks
        BY <1>1, <2>1 DEF ControlOf
      <3>2. /\ seen[u] >= picks[request[u].id].qty
            /\ NeverDispatched(shipments, picks[request[u].id].line) => seen[u] = picks[request[u].id].qty
        BY <1>1, <2>1 DEF ClaimsOf, Reverses
      <3> QED BY <1>1, <1>4, <3>1, <3>2, ReversesOn
    <2> QED BY <1>2, <1>3, <2>1 DEF Reverses, NeverDispatched
  <1>8. ASSUME pc[u] \in {"order", "commit"}, Kind(u) = "unpick"
        PROVE  NewPicks(w, took)[request[u].id].state \in {"picked", "shipped"}
    <2> DEFINE id == request[u].id
    <2>0. Started(u) /\ pc[u] \in Late
      BY <1>8 DEF Started, Active, Late
    <2>1. id \in DOMAIN picks /\ picks[id].state \in {"picked", "shipped"}
      BY <1>1, <1>8, <2>0 DEF ControlOf, ClaimsOf
    <2>2. CASE Kind(w) = "pick"
      <3> DEFINE x == NewPick(request[w])
      <3>1. NewPicks(w, took) = Append(picks, x) /\ x \in Pick
        BY <1>5, <2>2 DEF NewIs
      <3> HIDE DEF x
      <3> QED BY <1>1, <2>1, <3>1, Appended
    <2>3. CASE Kind(w) = "unpick"
      <3>1. /\ NewPicks(w, took) =
                 [picks EXCEPT ![request[w].id] = [picks[request[w].id] EXCEPT !.state = "cancelled"]]
            /\ request[w].id \in DOMAIN picks
        BY <1>5, <2>3 DEF NewIs
      <3>2. request[w].id # id
        <4>1. ASSUME request[w].id = id PROVE FALSE
          <5>1. /\ Staging(picks[id].line, picks[id].from) \in Needed(u)
                /\ Staging(picks[id].line, picks[id].from) \in Needed(w)
            BY <1>8, <2>3, <4>1, StagingOf
          <5> QED BY <1>1, <2>0, <5>1, RowsOnce
        <4> QED BY <4>1
      <3> QED BY <2>1, <3>1, <3>2
    <2>4. CASE Ships(w)
      <3>1. PICK to \in {"picked", "shipped"} : NewPicks(w, took) = Converted(picks, took, to)
        BY <1>5, <2>4 DEF NewIs, Ships
      <3>2. to \in PickStates /\ Took(picks, took)
        BY <1>4, <2>4 DEF PickStates
      <3>3. Converted(picks, took, to)[id] = KeptAs(picks, took, to, id)
        BY <1>1, <2>1, <3>2, ConvertedPicks
      <3>4. KeptAs(picks, took, to, id).state \in {picks[id].state, to}
        BY <1>1, <2>1, <3>2, KeptIs
      <3> QED BY <2>1, <3>1, <3>3, <3>4
    <2> QED BY <1>5, <2>2, <2>3, <2>4 DEF Ships
  <1>9. ASSUME pc[u] \in {"order", "commit"}, Ships(u)
        PROVE  TakesIn(NewPicks(w, took), NewShipments(w), taken[u], PartsOf(u), Kind(u), request[u].id)
    <2>0. Started(u) /\ pc[u] \in Late
      BY <1>9 DEF Started, Active, Late
    <2>1. PartsOf(u) \in Parts
      BY <1>6, <1>9, <2>0
    <2>2. TakesIn(picks, shipments, taken[u], PartsOf(u), Kind(u), request[u].id)
      BY <1>1, <1>9 DEF ClaimsOf, Takes, TakesIn, Dispatched
    <2>3. ASSUME NEW l \in Lines, PartsOf(u)[l] > 0
          PROVE  /\ Ships(w) => PartsOf(w)[l] = 0
                 /\ Kind(u) = "unship" /\ Kind(w) = "unship" => request[w].id # request[u].id
      <3>1. Staging(l, Home[l]) \in Needed(u)
        BY <1>9, <2>3, StagingOf
      <3>2. Staging(l, Home[l]) \notin Needed(w)
        BY <1>1, <2>0, <3>1, RowsOnce
      <3>3. ASSUME Ships(w) PROVE PartsOf(w)[l] = 0
        <4>1. ~(PartsOf(w)[l] > 0)
          BY <3>2, <3>3, StagingOf
        <4>2. PartsOf(w) \in Parts
          BY <1>5, <3>3 DEF NewIs, Ships
        <4>3. PartsOf(w)[l] \in Nat
          BY <4>2 DEF Parts
        <4> QED BY <4>1, <4>3
      <3>4. ASSUME Kind(u) = "unship", Kind(w) = "unship", request[w].id = request[u].id PROVE FALSE
        <4>1. PartsOf(w) = PartsOf(u)
          BY <3>4 DEF PartsOf
        <4> QED BY <2>3, <3>3, <3>4, <4>1 DEF Ships
      <3> QED BY <3>3, <3>4
    <2>4. Kind(u) = "unship" => \A l \in Lines : PartsOf(u)[l] > 0 =>
            /\ Ships(w) => PartsOf(w)[l] = 0
            /\ Kind(w) = "unship" => request[w].id # request[u].id
      BY <2>3
    <2> QED BY <1>1, <1>4, <2>1, <2>2, <2>4, TakesOn
  <1>10. ASSUME pc[u] \in {"order", "commit"} PROVE Takes(u, taken[u])'
    <2>1. CASE ~Ships(u)
      BY <1>2, <2>1 DEF Takes
    <2>2. CASE Ships(u)
      <3>1. Started(u)
        BY <1>10 DEF Started, Active
      <3>2. TakesIn(picks', shipments', taken'[u], PartsOf(u)', Kind(u)', request'[u].id)
        BY <1>2, <1>3, <1>6, <1>9, <1>10, <2>2, <3>1
      <3> QED BY <3>2 DEF TakesIn, Takes, Dispatched
    <2> QED BY <2>1, <2>2
  <1> QED BY <1>2, <1>3, <1>7, <1>8, <1>10 DEF ClaimsOf

LEMMA ClaimsStep ==
  ASSUME BaseInv, ClaimsOK, PicksAgree, NEW w \in Workers, Acts(w)
  PROVE  ClaimsOK'
  <1>0. PicksCover /\ TypeOK
    BY DEF PicksAgree, BaseInv
  <1>1. ASSUME NEW u \in Workers, u # w PROVE ClaimsOf(u)'
    <2>1. CASE Commit(w)
      BY <1>0, <1>1, <2>1, OthersClaims
    <2>2. CASE UNCHANGED tables
      <3>1. /\ pc'[u] = pc[u] /\ request'[u] = request[u] /\ seen'[u] = seen[u] /\ taken'[u] = taken[u]
            /\ picks' = picks /\ shipments' = shipments
        BY <1>0, <1>1, <2>2, Frame DEF tables
      <3>2. ClaimsOf(u)
        BY DEF ClaimsOK
      <3>3. (Reverses(u)' <=> Reverses(u)) /\ (Takes(u, taken[u])' <=> Takes(u, taken[u]))
        BY <3>1 DEF Reverses, Takes, NeverDispatched, Started, Ships, Kind, PartsOf, Dispatched
      <3> QED BY <3>1, <3>2, <3>3 DEF ClaimsOf, Kind
    <2> QED BY <2>1, <2>2, TablesChange
  <1> QED BY <1>0, <1>1, OwnClaims DEF ClaimsOK

LEMMA NothingYet ==
  ASSUME NEW l \in Lines
  PROVE  /\ \A states : PickSum(<<>>, l, states) = 0
         /\ ShipmentSum(<<>>, l) = 0
  <1>1. <<>> \in Seq(Pick) /\ <<>> \in Seq(Shipment) /\ DOMAIN <<>> = {}
    BY EmptySeq
  <1>2. ASSUME NEW states PROVE PickSum(<<>>, l, states) = 0
    <2>1. PickSum(<<>>, l, states) = SumFunctionOnSet(Weights(<<>>, l, states), DOMAIN <<>>)
      BY <1>1, PickSumWeights
    <2> QED BY <1>1, <2>1, SumEmpty
  <1>3. ShipmentSum(<<>>, l) = SumFunctionOnSet(Loads(<<>>, l), DOMAIN <<>>)
    BY <1>1, ShipmentSumLoads
  <1> QED BY <1>1, <1>2, <1>3, SumEmpty

LEMMA SumsInit == Init => ClaimsOK /\ PicksAgree
  <1> SUFFICES ASSUME Init PROVE ClaimsOK /\ PicksAgree
    OBVIOUS
  <1>1. ClaimsOK
    BY DEF Init, ClaimsOK, ClaimsOf, Reverses, Started, Active
  <1>2. ASSUME NEW l \in Lines PROVE NetPicked(l) = 0
    <2>1. netPicked \in [Lines -> [Locations -> Int]] /\ \A c \in Locations : netPicked[l][c] = 0
      BY <1>2 DEF Init
    <2>2. NetPicked(l) = SumFunctionOnSet(netPicked[l], Locations)
      BY <2>1, NetPickedIs DEF NetPicked
    <2>3. IsFiniteSet(Locations)
      BY FulfilmentAssumption
    <2> QED BY <2>1, <2>2, <2>3, SumZero
  <1>3. PicksCover
    BY <1>2, NothingYet DEF Init, PicksCover
  <1>4. StagedAgrees
    <2>1. ASSUME NEW l \in Lines, NEW c \in Locations PROVE staged[l][c] = netPicked[l][c] - Departed(l, c)
      <3>1. Departed(l, c) = 0
        BY NothingYet DEF Init, Departed
      <3> QED BY <3>1 DEF Init
    <2> QED BY <2>1 DEF StagedAgrees
  <1>5. Value(<<>>) = 0
    <2> DEFINE f == [l \in Lines |-> ShipmentSum(<<>>, l) * UnitCost[l]]
    <2>1. IsFiniteSet(Lines) /\ \A l \in Lines : UnitCost[l] \in Int
      BY FulfilmentAssumption
    <2>2. \A l \in Lines : f[l] = 0
      BY <2>1, NothingYet, Products
    <2> HIDE DEF f
    <2>3. SumFunctionOnSet(f, Lines) = 0
      BY <2>1, <2>2, SumZero
    <2> QED BY <2>3 DEF Value, f
  <1>6. CogsIsDispatched
    BY <1>5, CogsMean DEF Init
  <1> QED BY <1>1, <1>3, <1>4, <1>6 DEF PicksAgree

FulfilmentInv == BaseInv /\ ClaimsOK /\ PicksAgree

LEMMA FulfilmentStep ==
  ASSUME FulfilmentInv, [Next]_vars
  PROVE  FulfilmentInv'
  <1>1. BaseInv'
    BY BaseStep DEF FulfilmentInv
  <1>2. CASE UNCHANGED vars
    <2>1. ClaimsOK'
      BY <1>2 DEF FulfilmentInv, ClaimsOK, ClaimsOf, Reverses, Takes, NeverDispatched, Started,
                  Ships, Kind, PartsOf, Dispatched, vars, tables
    <2>2. PicksAgree'
      BY <1>2 DEF FulfilmentInv, PicksAgree, StagedAgrees, Departed, CogsIsDispatched, PicksCover,
                  NetPicked, NeverDispatched, vars, tables
    <2> QED BY <1>1, <2>1, <2>2 DEF FulfilmentInv
  <1>3. ASSUME NEW w \in Workers, Acts(w) PROVE FulfilmentInv'
    BY <1>1, <1>3, ClaimsStep, SumsStep DEF FulfilmentInv
  <1> QED BY <1>2, <1>3 DEF Next, Acts

LEMMA FulfilmentAlways == Spec => []FulfilmentInv
  <1>1. Init => FulfilmentInv
    BY BaseInit, SumsInit DEF FulfilmentInv
  <1>2. FulfilmentInv /\ [Next]_vars => FulfilmentInv'
    BY FulfilmentStep
  <1> QED BY <1>1, <1>2, PTL DEF Spec

(* Whatever picks, dispatches and their cancellations interleave, each     *)
(* SHIPPING bin holds what was picked and not dispatched, no more picks    *)
(* are shipped than shipments took, the history of picks never shows more  *)
(* than the picks do, and the cost of goods sold is that of the shipments. *)
THEOREM PicksAgreeAlways == Spec => []PicksAgree
  <1>1. FulfilmentInv => PicksAgree
    BY DEF FulfilmentInv
  <1> QED BY <1>1, FulfilmentAlways, PTL

(***************************************************************************)
(* The order and its shipments: who dispatches or cancels under perpetual  *)
(* accounting holds the lock of the general ledger from the evaluation of  *)
(* the rules to the commit, and so finds the shipments that it evaluated.  *)
(***************************************************************************)
Full(ss) == \A l \in Lines : ShipmentSum(ss, l) >= Ordered[l]
RulesOf(w) ==
  /\ pc[w] \in {"change", "order", "commit"} /\ Ships(w) => Ledger \in held[w]
  /\ Order \in held[w] => pc[w] = "commit"
  /\ pc[w] = "order" /\ Ships(w) => (Kind(w) = "ship" <=> Full(NewShipments(w)))
  /\ pc[w] = "commit" /\ Kind(w) = "ship" =>
       IF Order \in held[w] THEN Full(NewShipments(w))
       ELSE orderState = "shipped" \/ ~Full(NewShipments(w))
  /\ pc[w] = "commit" /\ Kind(w) = "unship" =>
       IF Order \in held[w] THEN ~Full(NewShipments(w))
       ELSE orderState = "picking" \/ Full(NewShipments(w))
RulesOK == \A w \in Workers : RulesOf(w)

LEMMA FullIs ==
  ASSUME NEW ps \in Seq(Pick), NEW ss \in Seq(Shipment),
         \A l \in Lines : PickSum(ps, l, {"shipped"}) <= ShipmentSum(ss, l)
  PROVE  FullyShipped(ps, ss) <=> Full(ss)
  <1>1. ASSUME NEW l \in Lines PROVE Committed(ps, ss, l) = ShipmentSum(ss, l)
    <2>1. /\ PickSum(ps, l, {"shipped"}) \in Nat /\ ShipmentSum(ss, l) \in Nat
          /\ PickSum(ps, l, {"shipped"}) <= ShipmentSum(ss, l)
      BY PickSumWeights, ShipmentSumLoads
    <2> QED BY <2>1 DEF Committed, Larger
  <1> QED BY <1>1 DEF FullyShipped, Full

LEMMA FullAfterIs ==
  ASSUME TypeOK, ControlOK, PicksCover, NEW w \in Workers, Started(w), NEW took, Ready(w, took)
  PROVE  /\ FullyShipped(NewPicks(w, took), NewShipments(w)) <=> Full(NewShipments(w))
         /\ Kind(w) = "ship" /\ Full(shipments) => Full(NewShipments(w))
         /\ Kind(w) = "unship" /\ Full(NewShipments(w)) => Full(shipments)
  <1>1. Takes(w, took) /\ (Ships(w) => Took(picks, took))
    BY DEF Ready, Takes
  <1>2. \A l \in Lines : NewShipmentSums(w, l) /\ NewPickSums(w, took, l)
    BY <1>1, ShipmentSumsAre, PickSumsAre
  <1>3. /\ NewPicks(w, took) \in Seq(Pick) /\ NewShipments(w) \in Seq(Shipment)
        /\ Ships(w) => PartsOf(w) \in Parts
    BY <1>1, CommitPicks
  <1>4. FullyShipped(NewPicks(w, took), NewShipments(w)) <=> Full(NewShipments(w))
    <2>1. \A l \in Lines : PickSum(NewPicks(w, took), l, {"shipped"}) <= ShipmentSum(NewShipments(w), l)
      BY <1>2 DEF NewPickSums
    <2> QED BY <1>3, <2>1, FullIs
  <1>5. ASSUME NEW l \in Lines
        PROVE  /\ ShipmentSum(shipments, l) \in Nat /\ ShipmentSum(NewShipments(w), l) \in Nat
               /\ Ordered[l] \in Nat
               /\ Kind(w) = "ship" => ShipmentSum(shipments, l) <= ShipmentSum(NewShipments(w), l)
               /\ Kind(w) = "unship" => ShipmentSum(NewShipments(w), l) <= ShipmentSum(shipments, l)
    <2>1. /\ ShipmentSum(shipments, l) \in Nat /\ ShipmentSum(NewShipments(w), l) \in Nat
          /\ ShipmentSum(NewShipments(w), l) = ShipmentSum(shipments, l) + Sent(w, l)
          /\ Ordered[l] \in Nat
      BY <1>2, FulfilmentAssumption DEF NewShipmentSums
    <2>2. Ships(w) => PartsOf(w)[l] \in Nat
      BY <1>3 DEF Parts
    <2>3. Kind(w) = "ship" => ShipmentSum(shipments, l) <= ShipmentSum(NewShipments(w), l)
      BY <2>1, <2>2 DEF Sent, Ships
    <2>4. Kind(w) = "unship" => ShipmentSum(NewShipments(w), l) <= ShipmentSum(shipments, l)
      BY <2>1, <2>2 DEF Sent, Ships
    <2> QED BY <2>1, <2>3, <2>4
  <1>6. Kind(w) = "ship" /\ Full(shipments) => Full(NewShipments(w))
    BY <1>5 DEF Full
  <1>7. Kind(w) = "unship" /\ Full(NewShipments(w)) => Full(shipments)
    BY <1>5 DEF Full
  <1> QED BY <1>4, <1>6, <1>7

LEMMA RowsApart ==
  Ledger # Order /\ \A l \in Lines, c \in Locations : Shelf(l, c) # Order /\ Staging(l, c) # Order
  <1>1. <<"ledger">>[1] # <<"order">>[1]
    OBVIOUS
  <1>2. \A l \in Lines, c \in Locations :
          <<"shelf", l, c>>[1] # <<"order">>[1] /\ <<"staging", l, c>>[1] # <<"order">>[1]
    OBVIOUS
  <1> QED BY <1>1, <1>2 DEF Shelf, Staging, Order, Ledger

LEMMA NeededNotOrder ==
  ASSUME NEW w \in Workers, request[w] \in Requests, ControlOf(w), Started(w), picks \in Seq(Pick)
  PROVE  Order \notin Needed(w)
  <1>1. Kind(w) = "unpick" =>
          picks[request[w].id].line \in Lines /\ picks[request[w].id].from \in Locations
    BY PicksAre DEF ControlOf
  <1>2. Kind(w) = "pick" => request[w].line \in Lines /\ request[w].from \in Locations
    BY RequestTyped DEF Kind
  <1> HIDE DEF Order, Staging, Shelf
  <1> QED BY <1>1, <1>2, RowsApart, HomeIs DEF Needed

OrderInv == FulfilmentInv /\ RulesOK /\ OrderStateAgrees

LEMMA OwnRules ==
  ASSUME Perpetual, OrderInv, NEW w \in Workers, Acts(w)
  PROVE  RulesOf(w)'
  <1>1. /\ TypeOK /\ ControlOK /\ ControlOf(w) /\ ClaimsOK /\ PicksCover /\ RulesOf(w)
        /\ request[w] \in Requests /\ picks \in Seq(Pick) /\ orderState \in OrderStates
    BY DEF OrderInv, FulfilmentInv, BaseInv, TypeOK, ControlOK, PicksAgree, RulesOK
  <1>2. Kind(w) \in {"pick", "unpick", "ship", "unship"}
    BY <1>1, RequestTyped DEF Kind
  <1>3. CASE pc[w] = "idle" /\ pc'[w] = "check" /\ held'[w] = held[w]
    BY <1>1, <1>3 DEF RulesOf
  <1>4. CASE pc'[w] = "idle" /\ held'[w] = {}
    BY <1>4 DEF RulesOf
  <1>5. CASE request'[w] = request[w] /\ UNCHANGED tables /\ pc'[w] \notin {"idle", "check"}
    <2>1. /\ Kind(w)' = Kind(w) /\ NewShipments(w)' = NewShipments(w) /\ orderState' = orderState
          /\ (Ships(w)' <=> Ships(w))
      BY <1>2, <1>5 DEF Kind, NewShipments, PartsOf, tables, Ships
    <2>2. CASE pc[w] = "check" /\ pc'[w] = "move"
      <3>1. held'[w] = held[w]
        BY <1>1, <2>2, OwnStep
      <3> QED BY <1>1, <2>1, <2>2, <3>1 DEF RulesOf
    <2>3. CASE pc[w] = "move" /\ pc'[w] = "move"
      <3>1. held'[w] = held[w] \/ \E r \in NextRows(w) : held'[w] = held[w] \cup {r}
        BY <1>1, <2>3, OwnStep
      <3>2. Order \notin Needed(w)
        BY <1>1, <2>3, NeededNotOrder DEF Started, Active
      <3>3. Order \notin held'[w]
        BY <1>1, <2>3, <3>1, <3>2 DEF RulesOf, NextRows, RowsLeft
      <3> QED BY <1>1, <2>1, <2>3, <3>3 DEF RulesOf
    <2>4. CASE pc[w] = "move" /\ pc'[w] # "move"
      <3>1. /\ held'[w] = held[w]
            /\ pc'[w] = CASE Kind(w) = "pick" -> "order"
                          [] Kind(w) \in {"ship", "unship"} /\ Perpetual -> "ledger"
                          [] OTHER -> "change"
        BY <1>1, <1>5, <2>4, OwnStep
      <3>2. pc'[w] \in {"order", "change", "ledger"} /\ (Ships(w) => pc'[w] = "ledger")
        BY <1>2, <3>1 DEF Ships
      <3> QED BY <1>1, <2>1, <2>4, <3>1, <3>2 DEF RulesOf, Ships
    <2>5. CASE pc[w] = "ledger"
      <3>1. pc'[w] = "change" /\ held'[w] = held[w] \cup {Ledger}
        BY <1>1, <1>5, <2>5, OwnStep
      <3> QED BY <1>1, <2>1, <2>5, <3>1, RowsApart DEF RulesOf
    <2>6. CASE pc[w] = "change"
      <3>1. /\ StillAllowed(w) /\ held'[w] = held[w]
            /\ pc'[w] = IF Kind(w) = "unpick" \/ RuleFires(w) THEN "order" ELSE "commit"
        BY <1>1, <1>5, <2>6, OwnStep
      <3>2. Ready(w, Found(w)) /\ Started(w)
        BY <1>1, <2>6, <3>1, ReadyNow DEF Started, Active
      <3>3. FullAfter(w) <=> Full(NewShipments(w))
        BY <1>1, <3>2, FullAfterIs DEF FullAfter
      <3>4. Order \notin held'[w]
        BY <1>1, <2>6, <3>1 DEF RulesOf
      <3>5. Open <=> orderState # "shipped"
        BY <1>1 DEF Open, OrderStates
      <3>6. Ships(w) => Ledger \in held'[w]
        BY <1>1, <2>6, <3>1 DEF RulesOf
      <3>7. Kind(w) = "ship" =>
              /\ pc'[w] \in {"order", "commit"}
              /\ pc'[w] = "order" => Full(NewShipments(w))
              /\ pc'[w] = "commit" => orderState = "shipped" \/ ~Full(NewShipments(w))
        BY <3>1, <3>3, <3>5 DEF RuleFires
      <3>8. Kind(w) = "unship" =>
              /\ pc'[w] \in {"order", "commit"}
              /\ pc'[w] = "order" => ~Full(NewShipments(w))
              /\ pc'[w] = "commit" => orderState = "picking" \/ Full(NewShipments(w))
        BY <3>1, <3>3 DEF RuleFires
      <3> HIDE DEF Ledger, Order
      <3> QED BY <1>1, <2>1, <3>1, <3>2, <3>4, <3>6, <3>7, <3>8 DEF RulesOf, Ships
    <2>7. CASE pc[w] = "order"
      <3>1. pc'[w] = "commit" /\ held'[w] = held[w] \cup {Order}
        BY <1>1, <1>5, <2>7, OwnStep
      <3> QED BY <1>1, <2>1, <2>7, <3>1 DEF RulesOf, Ships
    <2> QED BY <1>1, <1>5, <2>2, <2>3, <2>4, <2>5, <2>6, <2>7, OwnStep
  <1> QED BY <1>1, <1>3, <1>4, <1>5, OwnStep

LEMMA OthersRules ==
  ASSUME Perpetual, OrderInv, NEW w \in Workers, Commit(w), NEW u \in Workers, u # w
  PROVE  RulesOf(u)'
  <1>1. /\ TypeOK /\ LocksOK /\ RulesOf(u) /\ RulesOf(w)
        /\ request[w] \in Requests /\ pc[w] = "commit"
    BY DEF OrderInv, FulfilmentInv, BaseInv, TypeOK, RulesOK, Commit
  <1>2. Kind(w) \in {"pick", "unpick", "ship", "unship"}
    BY <1>1, RequestTyped DEF Kind
  <1>3. /\ pc'[u] = pc[u] /\ request'[u] = request[u] /\ held'[u] = held[u]
        /\ Kind(u)' = Kind(u) /\ (Ships(u)' <=> Ships(u))
    BY <1>1, Frame DEF Acts, Step, Kind, Ships
  <1>4. shipments' = NewShipments(w) /\ orderState' = NewOrderState(w)
    BY DEF Commit
  <1>5. pc[u] \in {"change", "order", "commit"} /\ Ships(u) => ~Ships(w)
    BY <1>1 DEF RulesOf, LocksOK
  <1>6. ASSUME pc[u] \in {"order", "commit"}, Ships(u)
        PROVE  /\ NewShipments(u)' = NewShipments(u)
               /\ orderState = "picking" => orderState' = "picking"
               /\ orderState = "shipped" => orderState' = "shipped"
    <2>1. Kind(w) \in {"pick", "unpick"}
      BY <1>2, <1>5, <1>6 DEF Ships
    <2>2. shipments' = shipments
      BY <1>4, <2>1 DEF NewShipments
    <2>3. NewShipments(u)' = NewShipments(u)
      BY <1>3, <2>2 DEF NewShipments, PartsOf, Kind
    <2>4. /\ orderState = "picking" => orderState' = "picking"
          /\ orderState = "shipped" => orderState' = "shipped"
      BY <1>4, <2>1 DEF NewOrderState
    <2> QED BY <2>3, <2>4
  <1> HIDE DEF Order, Ledger
  <1>7. /\ pc'[u] = "order" /\ Ships(u)' => (Kind(u)' = "ship" <=> Full(NewShipments(u)'))
        /\ pc'[u] = "commit" /\ Kind(u)' = "ship" =>
             IF Order \in held'[u] THEN Full(NewShipments(u)')
             ELSE orderState' = "shipped" \/ ~Full(NewShipments(u)')
        /\ pc'[u] = "commit" /\ Kind(u)' = "unship" =>
             IF Order \in held'[u] THEN ~Full(NewShipments(u)')
             ELSE orderState' = "picking" \/ Full(NewShipments(u)')
    BY <1>1, <1>3, <1>6 DEF RulesOf, Ships
  <1>8. /\ pc'[u] \in {"change", "order", "commit"} /\ Ships(u)' => Ledger \in held'[u]
        /\ Order \in held'[u] => pc'[u] = "commit"
    BY <1>1, <1>3 DEF RulesOf
  <1> QED BY <1>7, <1>8 DEF RulesOf, Full, Order, Ledger

LEMMA AgreeStep ==
  ASSUME OrderInv, FulfilmentInv', NEW w \in Workers, Commit(w)
  PROVE  OrderStateAgrees'
  <1>1. /\ TypeOK /\ ControlOK /\ ClaimsOK /\ PicksCover /\ RulesOf(w)
        /\ request[w] \in Requests /\ pc[w] = "commit" /\ Started(w) /\ OrderStateAgrees
        /\ picks \in Seq(Pick) /\ shipments \in Seq(Shipment)
    BY DEF OrderInv, FulfilmentInv, BaseInv, TypeOK, PicksAgree, RulesOK, Commit, Started, Active
  <1>2. Kind(w) \in {"pick", "unpick", "ship", "unship"}
    BY <1>1, RequestTyped DEF Kind
  <1>3. /\ Kind(w) = "ship" /\ Full(shipments) => Full(NewShipments(w))
        /\ Kind(w) = "unship" /\ Full(NewShipments(w)) => Full(shipments)
    <2>1. Ready(w, taken[w])
      BY <1>1, ReadyNow
    <2> QED BY <1>1, <2>1, FullAfterIs
  <1>4. shipments' = NewShipments(w) /\ orderState' = NewOrderState(w)
    BY DEF Commit
  <1>5. orderState = "shipped" <=> Full(shipments)
    <2>1. \A l \in Lines : PickSum(picks, l, {"shipped"}) <= ShipmentSum(shipments, l)
      BY <1>1 DEF PicksCover
    <2>2. FullyShipped(picks, shipments) <=> Full(shipments)
      BY <1>1, <2>1, FullIs
    <2> QED BY <1>1, <2>2 DEF OrderStateAgrees
  <1>6. FullyShipped(picks', shipments') <=> Full(shipments')
    <2>1. /\ picks' \in Seq(Pick) /\ shipments' \in Seq(Shipment)
          /\ \A l \in Lines : PickSum(picks', l, {"shipped"}) <= ShipmentSum(shipments', l)
      BY DEF FulfilmentInv, BaseInv, TypeOK, PicksAgree, PicksCover
    <2> QED BY <2>1, FullIs
  <1>7. NewOrderState(w) = "shipped" <=> Full(NewShipments(w))
    <2>1. CASE Kind(w) \in {"pick", "unpick"}
      <3>1. NewShipments(w) = shipments
        BY <2>1 DEF NewShipments
      <3> QED BY <1>5, <2>1, <3>1 DEF NewOrderState
    <2>2. CASE Kind(w) = "ship"
      <3>1. IF Order \in held[w] THEN Full(NewShipments(w))
            ELSE orderState = "shipped" \/ ~Full(NewShipments(w))
        BY <1>1, <2>2 DEF RulesOf
      <3> HIDE DEF Order
      <3> QED BY <1>3, <1>5, <2>2, <3>1 DEF NewOrderState
    <2>3. CASE Kind(w) = "unship"
      <3>1. IF Order \in held[w] THEN ~Full(NewShipments(w))
            ELSE orderState = "picking" \/ Full(NewShipments(w))
        BY <1>1, <2>3 DEF RulesOf
      <3> HIDE DEF Order
      <3> QED BY <1>3, <1>5, <2>3, <3>1 DEF NewOrderState
    <2> QED BY <1>2, <2>1, <2>2, <2>3
  <1> QED BY <1>4, <1>6, <1>7 DEF OrderStateAgrees

LEMMA OrderInit == Init => RulesOK /\ OrderStateAgrees
  <1> SUFFICES ASSUME Init PROVE RulesOK /\ OrderStateAgrees
    OBVIOUS
  <1>1. RulesOK
    BY DEF Init, RulesOK, RulesOf
  <1>2. PICK l \in Lines : Ordered[l] > 0 /\ Ordered[l] \in Nat
    BY FulfilmentAssumption
  <1>3. PickSum(<<>>, l, {"shipped"}) = 0 /\ ShipmentSum(<<>>, l) = 0
    BY NothingYet
  <1>4. ~(Committed(<<>>, <<>>, l) >= Ordered[l])
    BY <1>2, <1>3 DEF Committed, Larger
  <1>5. OrderStateAgrees
    BY <1>4 DEF Init, OrderStateAgrees, FullyShipped
  <1> QED BY <1>1, <1>5

LEMMA OrderStep ==
  ASSUME Perpetual, OrderInv, [Next]_vars
  PROVE  OrderInv'
  <1>1. FulfilmentInv'
    BY FulfilmentStep DEF OrderInv
  <1>2. CASE UNCHANGED vars
    <2>1. RulesOK'
      BY <1>2 DEF OrderInv, RulesOK, RulesOf, Ships, Full, NewShipments, PartsOf, Kind, vars, tables
    <2>2. OrderStateAgrees'
      BY <1>2 DEF OrderInv, OrderStateAgrees, vars, tables
    <2> QED BY <1>1, <2>1, <2>2 DEF OrderInv
  <1>3. ASSUME NEW w \in Workers, Acts(w) PROVE OrderInv'
    <2>1. RulesOf(w)'
      BY <1>3, OwnRules
    <2>2. ASSUME NEW u \in Workers, u # w, UNCHANGED tables PROVE RulesOf(u)'
      <3>1. /\ pc'[u] = pc[u] /\ request'[u] = request[u] /\ held'[u] = held[u]
            /\ orderState' = orderState /\ shipments' = shipments
        BY <1>3, <2>2, Frame DEF OrderInv, FulfilmentInv, BaseInv, tables
      <3>2. RulesOf(u)
        BY DEF OrderInv, RulesOK
      <3> QED BY <3>1, <3>2 DEF RulesOf, Ships, Full, NewShipments, PartsOf, Kind
    <2>3. RulesOK'
      BY <1>3, <2>1, <2>2, OthersRules, TablesChange DEF RulesOK
    <2>4. OrderStateAgrees'
      <3>1. CASE UNCHANGED tables
        BY <3>1 DEF OrderInv, OrderStateAgrees, tables
      <3> QED BY <1>1, <1>3, <3>1, AgreeStep, TablesChange
    <2> QED BY <1>1, <2>3, <2>4 DEF OrderInv
  <1> QED BY <1>2, <1>3 DEF Next, Acts

(* Under perpetual accounting the order is shipped exactly when all its    *)
(* lines are, whatever dispatches and cancellations of it run at once:     *)
(* the lock of the general ledger serialises what they do to shipments.    *)
THEOREM OrderFollowsShipments ==
  ASSUME Perpetual
  PROVE  Spec => []OrderStateAgrees
  <1>1. Init => OrderInv
    BY BaseInit, SumsInit, OrderInit DEF OrderInv, FulfilmentInv
  <1>2. OrderInv /\ [Next]_vars => OrderInv'
    BY OrderStep
  <1>3. OrderInv => OrderStateAgrees
    BY DEF OrderInv
  <1> QED BY <1>1, <1>2, <1>3, PTL DEF Spec

===============================================================================
