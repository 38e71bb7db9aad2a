----------------------- MODULE ChunkAssignmentProofs -----------------------
(***************************************************************************)
(* Proofs about what is settled before any thread starts: how              *)
(* assign_chunks deals the chunks to the lanes; how the file is cut into   *)
(* chunks and what the receiver checks of one (ChunkFrames, below); and    *)
(* what the command line lets through (CommandLine, at the end). They hold *)
(* for every number of lanes, all positive weights, every file and every   *)
(* width of the integers.                                                  *)
(*                                                                         *)
(* That no lane is ever ahead by a chunk rests on one fact: the credits    *)
(* always sum to zero, so after every lane has earned its weight they sum  *)
(* to the total, and the richest lane has something to pay with.  The sum  *)
(* of a family indexed by the lanes is stated by its partial sums.         *)
(***************************************************************************)
EXTENDS ChunkAssignment, ChunkFrames, CommandLine, SequenceTheorems, FiniteSetTheorems,
        WellFoundedInduction, TLAPS

\* S lists the partial sums of f[1], ..., f[n].
PartialSums(S, f, n) ==
    /\ S \in [0..n -> Int]
    /\ S[0] = 0
    /\ \A l \in 1..n : S[l] = S[l-1] + f[l]

\* totalWeight is the sum of the weights the first loop has seen.
TotalIsSum ==
    /\ \E S : PartialSums(S, weight, summed) /\ S[summed] = totalWeight
    /\ summed > 0 => totalWeight > 0
    /\ summed < NumLanes => /\ chunk = 0
                            /\ current = [l \in Lane |-> 0]
                            /\ out = [l \in Lane |-> <<>>]

CreditsSumToZero ==
    \E S : PartialSums(S, current, NumLanes) /\ S[NumLanes] = 0

\* What a lane has earned less what it has paid.
Ledger ==
    \A l \in Lane : current[l] = chunk * weight[l] - totalWeight * Len(out[l])

NoLaneBroke == summed = NumLanes => \A l \in Lane : current[l] > -totalWeight

\* The chunks in the lists are the ones dealt so far, none of them twice.
OnlyDealtChunks ==
    \A l \in Lane : \A i \in 1..Len(out[l]) : out[l][i] < chunk

Inv ==
    /\ TypeOK
    /\ TotalIsSum
    /\ CreditsSumToZero
    /\ Ledger
    /\ NoLaneBroke
    /\ OnlyDealtChunks
    /\ ExactlyOneLane
----------------------------------------------------------------------------
(* Every set of naturals that is not empty has a least element.            *)

NatOrder == {p \in Nat \X Nat : p[1] < p[2]}

LEMMA NatOrderWellFounded == IsWellFoundedOn(NatOrder, Nat)
BY NatLessThanWellFounded DEF OpToRel, NatOrder

LEMMA LeastElement ==
    ASSUME NEW T, T \subseteq Nat, T # {}
    PROVE  \E m \in T : \A k \in T : m <= k
<1>1. PICK m \in T : \A k \in T : ~(<<k, m>> \in NatOrder)
  BY WFMin, NatOrderWellFounded
<1>2. ASSUME NEW k \in T PROVE m <= k
  <2>1. k \in Nat /\ m \in Nat
    OBVIOUS
  <2>2. <<k, m>> \in Nat \X Nat /\ <<k, m>>[1] = k /\ <<k, m>>[2] = m
    BY <2>1
  <2>3. ~(k < m)
    BY <1>1, <2>2 DEF NatOrder
  <2> QED BY <2>1, <2>3
<1> QED BY <1>1, <1>2

(***************************************************************************)
(* A sum that is positive has a positive term: the first partial sum that  *)
(* is positive exceeds the one before it.                                  *)
(***************************************************************************)
LEMMA PositiveTerm ==
    ASSUME NEW n \in Nat, NEW f, \A l \in 1..n : f[l] \in Int,
           NEW S, PartialSums(S, f, n), S[n] > 0
    PROVE  \E l \in 1..n : f[l] > 0
<1> DEFINE T == {j \in 0..n : S[j] > 0}
<1>1. T \subseteq Nat /\ n \in T
  OBVIOUS
<1>2. PICK m \in T : \A k \in T : m <= k
  <2> HIDE DEF T
  <2> QED BY <1>1, LeastElement
<1>3. m \in 1..n /\ S[m] > 0
  BY DEF PartialSums
<1>4. ~(S[m-1] > 0)
  <2>1. m - 1 \in 0..n
    BY <1>3
  <2> QED BY <1>2, <1>3, <2>1
<1>5. S[m] = S[m-1] + f[m] /\ S[m-1] \in Int /\ f[m] \in Int
  BY <1>3 DEF PartialSums
<1> QED BY <1>3, <1>4, <1>5

\* The same with the signs exchanged.
LEMMA NegativeTerm ==
    ASSUME NEW n \in Nat, NEW f, \A l \in 1..n : f[l] \in Int,
           NEW S, PartialSums(S, f, n), S[n] < 0
    PROVE  \E l \in 1..n : f[l] < 0
<1> DEFINE g == [l \in 1..n |-> -f[l]]
           R == [j \in 0..n |-> -S[j]]
<1>1. PartialSums(R, g, n)
  <2>1. R \in [0..n -> Int] /\ R[0] = 0
    BY DEF PartialSums
  <2>2. ASSUME NEW l \in 1..n PROVE R[l] = R[l-1] + g[l]
    <3>1. l \in 0..n /\ l - 1 \in 0..n
      OBVIOUS
    <3>2. S[l] \in Int /\ S[l-1] \in Int /\ f[l] \in Int /\ S[l] = S[l-1] + f[l]
      BY <3>1 DEF PartialSums
    <3> QED BY <3>1, <3>2
  <2> QED BY <2>1, <2>2 DEF PartialSums
<1>2. R[n] > 0
  <2>1. S[n] \in Int /\ n \in 0..n
    BY DEF PartialSums
  <2> QED BY <2>1
<1>3. PICK l \in 1..n : g[l] > 0
  <2>1. \A l \in 1..n : g[l] \in Int
    OBVIOUS
  <2> HIDE DEF g, R
  <2> QED BY <1>1, <1>2, <2>1, PositiveTerm
<1> QED BY <1>3
----------------------------------------------------------------------------
LEMMA WeightPositive == TypeOK => \A l \in Lane : weight[l] \in Nat /\ weight[l] > 0
<1> SUFFICES ASSUME TypeOK, NEW l \in Lane
             PROVE  weight[l] \in Nat /\ weight[l] > 0
  OBVIOUS
<1>1. weight[l] \in Weights
  BY DEF TypeOK
<1>2. weight[l] \in Nat \ {0}
  BY <1>1, WeightsAssumption
<1> QED BY <1>2

LEMMA InitInv == Init => Inv
<1> SUFFICES ASSUME Init PROVE Inv
  OBVIOUS
<1> USE NumLanesAssumption, TotalChunksAssumption
<1>1. TypeOK
  BY DEF Init, TypeOK, Lane
<1>2. TotalIsSum
  <2>1. PartialSums([j \in 0..0 |-> 0], weight, 0)
    BY DEF PartialSums
  <2> QED BY <2>1 DEF Init, TotalIsSum
<1>3. CreditsSumToZero
  <2> DEFINE S == [j \in 0..NumLanes |-> 0]
  <2>1. PartialSums(S, current, NumLanes) /\ S[NumLanes] = 0
    BY DEF PartialSums, Init, Lane
  <2> QED BY <2>1 DEF CreditsSumToZero
<1>4. Ledger
  <2>1. \A l \in Lane : weight[l] \in Int
    BY <1>1, WeightPositive
  <2> QED BY <2>1 DEF Init, Ledger
<1>5. NoLaneBroke /\ OnlyDealtChunks /\ ExactlyOneLane
  BY DEF Init, NoLaneBroke, OnlyDealtChunks, ExactlyOneLane, Lane
<1> QED BY <1>1, <1>2, <1>3, <1>4, <1>5 DEF Inv

\* The first loop adds one weight; nothing is dealt meanwhile.
LEMMA AddWeightInv == Inv /\ AddWeight => Inv'
<1> SUFFICES ASSUME Inv, AddWeight PROVE Inv'
  OBVIOUS
<1> USE NumLanesAssumption, TotalChunksAssumption
<1>1. /\ summed + 1 \in Lane
      /\ weight[summed + 1] \in Nat /\ weight[summed + 1] > 0
  <2>1. summed + 1 \in Lane
    BY DEF Inv, TypeOK, AddWeight, Lane
  <2> QED BY <2>1, WeightPositive DEF Inv
<1>2. TypeOK'
  BY <1>1 DEF Inv, TypeOK, AddWeight, Lane
<1>3. chunk = 0 /\ current = [l \in Lane |-> 0] /\ out = [l \in Lane |-> <<>>]
  BY DEF Inv, TotalIsSum, AddWeight
<1>4. TotalIsSum'
  <2>1. PICK S : PartialSums(S, weight, summed) /\ S[summed] = totalWeight
    BY DEF Inv, TotalIsSum
  <2> DEFINE R == [j \in 0..summed + 1 |->
                      IF j = summed + 1 THEN totalWeight + weight[summed + 1]
                                        ELSE S[j]]
  <2>0. summed \in Nat /\ totalWeight \in Int
    BY DEF Inv, TypeOK
  <2>2. PartialSums(R, weight, summed + 1)
    <3>1. /\ S \in [0..summed -> Int] /\ S[0] = 0
          /\ \A l \in 1..summed : S[l] = S[l-1] + weight[l]
      BY <2>1 DEF PartialSums
    <3>2. R \in [0..summed + 1 -> Int] /\ R[0] = 0
      BY <1>1, <2>0, <3>1
    <3>3. ASSUME NEW l \in 1..summed + 1 PROVE R[l] = R[l-1] + weight[l]
      <4>1. CASE l = summed + 1
        <5>1. R[l] = totalWeight + weight[summed + 1]
          BY <2>0, <4>1
        <5>2. R[l-1] = totalWeight
          BY <2>0, <2>1, <4>1
        <5> HIDE DEF R
        <5> QED BY <4>1, <5>1, <5>2
      <4>2. CASE l # summed + 1
        <5>1. l \in 1..summed /\ l \in 0..summed + 1 /\ l - 1 \in 0..summed + 1
              /\ l - 1 # summed + 1
          BY <2>0, <4>2
        <5>2. R[l] = S[l] /\ R[l-1] = S[l-1]
          BY <4>2, <5>1
        <5> HIDE DEF R
        <5> QED BY <3>1, <5>1, <5>2
      <4> QED BY <4>1, <4>2
    <3> HIDE DEF R
    <3> QED BY <3>2, <3>3 DEF PartialSums
  <2>3. R[summed + 1] = totalWeight'
    BY DEF AddWeight, Inv, TypeOK
  <2>4. totalWeight' > 0
    BY <1>1 DEF AddWeight, Inv, TypeOK
  <2> HIDE DEF R
  <2> QED BY <1>3, <2>2, <2>3, <2>4 DEF TotalIsSum, AddWeight
<1>5. CreditsSumToZero'
  BY DEF Inv, CreditsSumToZero, AddWeight
<1>6. Ledger'
  <2>1. \A l \in Lane : weight[l] \in Int
    BY WeightPositive DEF Inv
  <2>2. totalWeight' \in Int
    BY <1>2 DEF TypeOK
  <2> QED BY <1>3, <2>1, <2>2 DEF Ledger, AddWeight
<1>7. NoLaneBroke'
  BY <1>2, <1>3, <1>4 DEF NoLaneBroke, AddWeight, TotalIsSum, TypeOK
<1>8. OnlyDealtChunks' /\ ExactlyOneLane'
  BY DEF Inv, OnlyDealtChunks, ExactlyOneLane, AddWeight
<1> QED BY <1>2, <1>4, <1>5, <1>6, <1>7, <1>8 DEF Inv

LEMMA Distribute ==
    ASSUME NEW c \in Int, NEW w \in Int, NEW W \in Int, NEW n \in Int
    PROVE  /\ (c + 1) * w - W * n = (c * w - W * n) + w
           /\ (c + 1) * w - W * (n + 1) = (c * w - W * n) + w - W
<1>1. (c + 1) * w = c * w + w
  OBVIOUS
<1>2. W * (n + 1) = W * n + W
  OBVIOUS
<1>3. c * w \in Int /\ W * n \in Int
  OBVIOUS
<1> QED BY <1>1, <1>2, <1>3

\* What the second loop knows about the lane it chooses, and what it does.
LEMMA AssignStep ==
    ASSUME Inv, AssignChunk
    PROVE  /\ summed = NumLanes /\ chunk \in Nat /\ chunk < TotalChunks
           /\ totalWeight \in Nat /\ totalWeight > 0
           /\ Credit \in [Lane -> Int]
           /\ \E best \in Lane :
                 /\ Credit[best] > 0
                 /\ current' = [Credit EXCEPT ![best] = @ - totalWeight]
                 /\ out' = [out EXCEPT ![best] = Append(@, chunk)]
<1> USE NumLanesAssumption, TotalChunksAssumption
<1>1. /\ summed = NumLanes /\ chunk \in Nat /\ chunk < TotalChunks
      /\ totalWeight \in Nat /\ totalWeight > 0
  BY DEF Inv, TypeOK, TotalIsSum, AssignChunk
<1>2. Credit \in [Lane -> Int]
  BY WeightPositive DEF Inv, TypeOK, Credit
<1>3. PICK best \in Lane :
        IsRichest(best) /\ current' = Pays(best) /\ out' = Pushes(best)
  BY DEF AssignChunk
<1>4. \E l \in 1..NumLanes : Credit[l] > 0
  <2>1. PICK P : PartialSums(P, current, NumLanes) /\ P[NumLanes] = 0
    BY DEF Inv, CreditsSumToZero
  <2>2. PICK Q : PartialSums(Q, weight, NumLanes) /\ Q[NumLanes] = totalWeight
    BY <1>1 DEF Inv, TotalIsSum
  <2> DEFINE S == [j \in 0..NumLanes |-> P[j] + Q[j]]
  <2>3. PartialSums(S, Credit, NumLanes)
    <3>1. S \in [0..NumLanes -> Int] /\ S[0] = 0
      BY <2>1, <2>2 DEF PartialSums
    <3>2. ASSUME NEW l \in 1..NumLanes PROVE S[l] = S[l-1] + Credit[l]
      <4>1. l \in 0..NumLanes /\ l - 1 \in 0..NumLanes
        OBVIOUS
      <4>2. /\ P[l] = P[l-1] + current[l] /\ P[l-1] \in Int
            /\ Q[l] = Q[l-1] + weight[l] /\ Q[l-1] \in Int
        BY <2>1, <2>2, <4>1 DEF PartialSums
      <4>3. /\ current[l] \in Int /\ weight[l] \in Int
            /\ Credit[l] = current[l] + weight[l]
        BY WeightPositive DEF Inv, TypeOK, Lane, Credit
      <4> QED BY <4>1, <4>2, <4>3
    <3> HIDE DEF S
    <3> QED BY <3>1, <3>2 DEF PartialSums
  <2>4. S[NumLanes] > 0
    BY <1>1, <2>1, <2>2
  <2> HIDE DEF S
  <2> QED BY <1>2, <2>3, <2>4, PositiveTerm DEF Lane
<1>5. Credit[best] > 0
  <2>1. PICK l \in Lane : Credit[l] > 0
    BY <1>4 DEF Lane
  <2> QED BY <1>2, <1>3, <2>1 DEF IsRichest
<1> QED BY <1>1, <1>2, <1>3, <1>5 DEF Pays, Pushes

LEMMA AssignChunkInv == Inv /\ AssignChunk => Inv'
<1> SUFFICES ASSUME Inv, AssignChunk PROVE Inv'
  OBVIOUS
<1> USE NumLanesAssumption, TotalChunksAssumption
<1>1. PICK best \in Lane :
        /\ Credit[best] > 0
        /\ current' = [Credit EXCEPT ![best] = @ - totalWeight]
        /\ out' = [out EXCEPT ![best] = Append(@, chunk)]
  BY AssignStep
<1>2. /\ summed = NumLanes /\ chunk \in Nat /\ chunk < TotalChunks
      /\ totalWeight \in Nat /\ totalWeight > 0
      /\ Credit \in [Lane -> Int]
  BY AssignStep
<1>3. /\ chunk' = chunk + 1 /\ weight' = weight
      /\ summed' = summed /\ totalWeight' = totalWeight
  BY DEF AssignChunk
<1>4. \A l \in Lane :
        /\ weight[l] \in Nat /\ weight[l] > 0
        /\ current[l] \in Int
        /\ Credit[l] = current[l] + weight[l]
        /\ current'[l] = IF l = best THEN Credit[l] - totalWeight ELSE Credit[l]
  BY <1>1, <1>2, WeightPositive DEF Inv, TypeOK, Credit
<1>5. \A l \in Lane :
        /\ out[l] \in Seq(0..TotalChunks-1)
        /\ out'[l] = IF l = best THEN Append(out[l], chunk) ELSE out[l]
  BY <1>1 DEF Inv, TypeOK
<1>6. \A l \in Lane :
        /\ Len(out[l]) \in Nat
        /\ Len(out'[l]) = IF l = best THEN Len(out[l]) + 1 ELSE Len(out[l])
        /\ \A i \in 1..Len(out[l]) :
              /\ out'[l][i] = out[l][i]
              /\ out[l][i] \in Int /\ out[l][i] < chunk
        /\ l = best => out'[l][Len(out[l]) + 1] = chunk
  <2> SUFFICES ASSUME NEW l \in Lane
               PROVE  /\ Len(out[l]) \in Nat
                      /\ Len(out'[l]) = IF l = best THEN Len(out[l]) + 1
                                                   ELSE Len(out[l])
                      /\ \A i \in 1..Len(out[l]) :
                            /\ out'[l][i] = out[l][i]
                            /\ out[l][i] \in Int /\ out[l][i] < chunk
                      /\ l = best => out'[l][Len(out[l]) + 1] = chunk
    OBVIOUS
  <2>1. out[l] \in Seq(0..TotalChunks-1) /\ chunk \in 0..TotalChunks-1
    BY <1>2, <1>5
  <2>2. Len(out[l]) \in Nat
    BY <2>1
  <2>3. ASSUME NEW i \in 1..Len(out[l])
        PROVE  out[l][i] \in Int /\ out[l][i] < chunk
    <3>1. out[l][i] \in 0..TotalChunks-1
      BY <2>1, ElementOfSeq
    <3>2. out[l][i] < chunk
      BY DEF Inv, OnlyDealtChunks
    <3> QED BY <3>1, <3>2
  <2>4. CASE l = best
    <3>1. out'[l] = Append(out[l], chunk)
      BY <1>5, <2>4
    <3>2. /\ Len(out'[l]) = Len(out[l]) + 1
          /\ \A i \in 1..Len(out[l]) : out'[l][i] = out[l][i]
          /\ out'[l][Len(out[l]) + 1] = chunk
      BY <2>1, <3>1
    <3> QED BY <2>2, <2>3, <2>4, <3>2
  <2>5. CASE l # best
    BY <1>5, <2>2, <2>3, <2>5
  <2> QED BY <2>4, <2>5
<1>7. TypeOK'
  <2>1. current' \in [Lane -> Int]
    BY <1>1, <1>2
  <2>2. out' \in [Lane -> Seq(0..TotalChunks-1)]
    BY <1>1, <1>2 DEF Inv, TypeOK
  <2> QED BY <1>2, <1>3, <2>1, <2>2 DEF Inv, TypeOK
<1>8. TotalIsSum'
  BY <1>2, <1>3 DEF Inv, TotalIsSum
<1>9. CreditsSumToZero'
  <2>1. PICK P : PartialSums(P, current, NumLanes) /\ P[NumLanes] = 0
    BY DEF Inv, CreditsSumToZero
  <2>2. PICK Q : PartialSums(Q, weight, NumLanes) /\ Q[NumLanes] = totalWeight
    BY <1>2 DEF Inv, TotalIsSum
  <2> DEFINE paid(j) == IF j >= best THEN totalWeight ELSE 0
             S == [j \in 0..NumLanes |-> P[j] + Q[j] - paid(j)]
  <2>3. best \in 1..NumLanes
    BY DEF Lane
  <2>4. S \in [0..NumLanes -> Int] /\ S[0] = 0 /\ S[NumLanes] = 0
    <3>1. P \in [0..NumLanes -> Int] /\ P[0] = 0 /\ P[NumLanes] = 0
      BY <2>1 DEF PartialSums
    <3>2. Q \in [0..NumLanes -> Int] /\ Q[0] = 0 /\ Q[NumLanes] = totalWeight
      BY <2>2 DEF PartialSums
    <3>3. \A j \in 0..NumLanes : paid(j) \in Int
      BY <1>2
    <3>4. paid(0) = 0 /\ paid(NumLanes) = totalWeight
      BY <2>3, NumLanesAssumption
    <3>5. 0 \in 0..NumLanes /\ NumLanes \in 0..NumLanes
      BY NumLanesAssumption
    <3> HIDE DEF paid
    <3> QED BY <1>2, <3>1, <3>2, <3>3, <3>4, <3>5
  <2>5. ASSUME NEW l \in 1..NumLanes PROVE S[l] = S[l-1] + current'[l]
    <3>1. l \in 0..NumLanes /\ l - 1 \in 0..NumLanes /\ l \in Lane
      BY DEF Lane
    <3>2. /\ P[l] = P[l-1] + current[l] /\ P[l-1] \in Int
          /\ Q[l] = Q[l-1] + weight[l] /\ Q[l-1] \in Int
      BY <2>1, <2>2, <3>1 DEF PartialSums
    <3>3. /\ S[l] = P[l] + Q[l] - paid(l)
          /\ S[l-1] = P[l-1] + Q[l-1] - paid(l-1)
      BY <3>1
    <3> QED BY <1>2, <1>4, <2>3, <3>1, <3>2, <3>3
  <2> HIDE DEF S
  <2>6. PartialSums(S, current', NumLanes)
    BY <2>4, <2>5 DEF PartialSums
  <2> QED BY <2>4, <2>6 DEF CreditsSumToZero
<1>10. Ledger'
  <2> SUFFICES ASSUME NEW l \in Lane
               PROVE  current'[l] =
                        (chunk + 1) * weight[l] - totalWeight * Len(out'[l])
    BY <1>3 DEF Ledger
  <2> DEFINE n == Len(out[l])
             w == weight[l]
             old == chunk * w - totalWeight * n
  <2>1. current[l] = old
    BY DEF Inv, Ledger
  <2>2. chunk \in Int /\ w \in Int /\ totalWeight \in Int /\ n \in Int
    BY <1>2, <1>4, <1>6
  <2>3. /\ (chunk + 1) * w - totalWeight * n = old + w
        /\ (chunk + 1) * w - totalWeight * (n + 1) = old + w - totalWeight
    BY <2>2, Distribute
  <2>4. current'[l] = IF l = best THEN old + w - totalWeight ELSE old + w
    <3>1. current'[l] = IF l = best THEN current[l] + w - totalWeight
                                    ELSE current[l] + w
      BY <1>2, <1>4
    <3> HIDE DEF old
    <3> QED BY <2>1, <3>1
  <2>5. Len(out'[l]) = IF l = best THEN n + 1 ELSE n
    BY <1>6
  <2> HIDE DEF old, w, n
  <2>6. CASE l = best
    BY <2>3, <2>4, <2>5, <2>6 DEF w
  <2>7. CASE l # best
    BY <2>3, <2>4, <2>5, <2>7 DEF w
  <2> QED BY <2>6, <2>7
<1>11. NoLaneBroke'
  BY <1>1, <1>2, <1>3, <1>4 DEF Inv, NoLaneBroke
<1>12. OnlyDealtChunks'
  <2> SUFFICES ASSUME NEW l \in Lane, NEW i \in 1..Len(out'[l])
               PROVE  out'[l][i] < chunk + 1
    BY <1>3 DEF OnlyDealtChunks
  <2>1. CASE i \in 1..Len(out[l])
    <3>1. out'[l][i] = out[l][i] /\ out[l][i] < chunk /\ out[l][i] \in Int
      BY <1>2, <1>6, <2>1
    <3> QED BY <1>2, <3>1
  <2>2. CASE i \notin 1..Len(out[l])
    <3>1. l = best /\ i = Len(out[l]) + 1
      BY <1>6, <2>2
    <3> QED BY <1>2, <1>6, <3>1
  <2> QED BY <2>1, <2>2
<1>13. ExactlyOneLane'
  <2>0. 0..chunk'-1 = 0..chunk
    BY <1>2, <1>3
  <2> SUFFICES ASSUME NEW c \in 0..chunk
               PROVE  \E l \in Lane : \E i \in 1..Len(out'[l]) :
                        /\ out'[l][i] = c
                        /\ \A m \in Lane : \A j \in 1..Len(out'[m]) :
                              out'[m][j] = c => m = l /\ j = i
    BY <2>0 DEF ExactlyOneLane
  <2>1. ASSUME NEW m \in Lane, NEW j \in 1..Len(out'[m]), j \notin 1..Len(out[m])
        PROVE  m = best /\ j = Len(out[m]) + 1 /\ out'[m][j] = chunk
    BY <1>6, <2>1
  <2>2. CASE c = chunk
    <3>1. Len(out[best]) + 1 \in 1..Len(out'[best])
      BY <1>6
    <3>2. out'[best][Len(out[best]) + 1] = c
      BY <1>6, <2>2
    <3>3. ASSUME NEW m \in Lane, NEW j \in 1..Len(out'[m]), out'[m][j] = c
          PROVE  m = best /\ j = Len(out[best]) + 1
      <4>1. j \notin 1..Len(out[m])
        <5> SUFFICES ASSUME j \in 1..Len(out[m]) PROVE FALSE
          OBVIOUS
        <5>1. out'[m][j] = out[m][j] /\ out[m][j] < chunk
          BY <1>2, <1>6
        <5> QED BY <1>2, <2>2, <3>3, <5>1
      <4> QED BY <2>1, <4>1
    <3> QED BY <3>1, <3>2, <3>3
  <2>3. CASE c # chunk
    <3>1. c \in 0..chunk-1
      BY <1>2, <2>3
    <3>1a. PICK l \in Lane :
            \E i \in 1..Len(out[l]) :
               /\ out[l][i] = c
               /\ \A m \in Lane : \A j \in 1..Len(out[m]) :
                     out[m][j] = c => m = l /\ j = i
      BY <3>1 DEF Inv, ExactlyOneLane
    <3>2. PICK i \in 1..Len(out[l]) :
             /\ out[l][i] = c
             /\ \A m \in Lane : \A j \in 1..Len(out[m]) :
                   out[m][j] = c => m = l /\ j = i
      BY <3>1a
    <3>3. i \in 1..Len(out'[l]) /\ out'[l][i] = c
      BY <1>6, <3>2
    <3>4. ASSUME NEW m \in Lane, NEW j \in 1..Len(out'[m]), out'[m][j] = c
          PROVE  m = l /\ j = i
      <4>1. j \in 1..Len(out[m])
        BY <2>1, <2>3, <3>4
      <4>2. out[m][j] = c
        BY <1>6, <3>4, <4>1
      <4> QED BY <3>2, <4>1, <4>2
    <3> QED BY <3>3, <3>4
  <2> QED BY <2>2, <2>3
<1> QED BY <1>7, <1>8, <1>9, <1>10, <1>11, <1>12, <1>13 DEF Inv
----------------------------------------------------------------------------
THEOREM InvHolds == Spec => []Inv
<1>1. Inv /\ [Next]_vars => Inv'
  <2> SUFFICES ASSUME Inv, [Next]_vars PROVE Inv'
    OBVIOUS
  <2>1. CASE AddWeight
    BY <2>1, AddWeightInv
  <2>2. CASE AssignChunk
    BY <2>2, AssignChunkInv
  <2>3. CASE UNCHANGED vars
    <3> USE <2>3 DEF vars
    <3>1. TypeOK'
      BY DEF Inv, TypeOK
    <3>2. TotalIsSum' /\ CreditsSumToZero'
      BY DEF Inv, TotalIsSum, CreditsSumToZero
    <3>3. Ledger' /\ NoLaneBroke'
      BY DEF Inv, Ledger, NoLaneBroke
    <3>4. OnlyDealtChunks' /\ ExactlyOneLane'
      BY DEF Inv, OnlyDealtChunks, ExactlyOneLane
    <3> QED BY <3>1, <3>2, <3>3, <3>4 DEF Inv
  <2> QED BY <2>1, <2>2, <2>3 DEF Next, Assigned
<1> QED BY InitInv, <1>1, PTL DEF Spec

(***************************************************************************)
(* The variables of assign_chunks keep their types.                        *)
(***************************************************************************)
THEOREM TypeCorrect == Spec => []TypeOK
<1>1. Inv => TypeOK
  BY DEF Inv
<1> QED BY <1>1, InvHolds, PTL

(***************************************************************************)
(* assign_chunks deals every chunk to exactly one lane, whatever the       *)
(* weights: the lanes together send each chunk once.                       *)
(***************************************************************************)
THEOREM DealsEveryChunkOnce == Spec => []ExactlyOneLane
<1>1. Inv => ExactlyOneLane
  BY DEF Inv
<1> QED BY <1>1, InvHolds, PTL

(***************************************************************************)
(* A lane is never a whole chunk ahead of what its weight entitles it to.  *)
(***************************************************************************)
THEOREM DealsNoLaneAhead == Spec => []NeverAheadByAChunk
<1>1. Inv => NeverAheadByAChunk
  <2> SUFFICES ASSUME Inv, summed = NumLanes, NEW l \in Lane
               PROVE  totalWeight * Len(out[l]) < chunk * weight[l] + totalWeight
    BY DEF NeverAheadByAChunk
  <2>1. weight[l] \in Nat /\ chunk \in Nat /\ totalWeight \in Nat
    BY WeightPositive DEF Inv, TypeOK
  <2>2. Len(out[l]) \in Nat
    BY DEF Inv, TypeOK
  <2>3. totalWeight * Len(out[l]) \in Int /\ chunk * weight[l] \in Int
    BY <2>1, <2>2
  <2>4. chunk * weight[l] - totalWeight * Len(out[l]) > -totalWeight
    BY DEF Inv, Ledger, NoLaneBroke
  <2>5. \A p, q \in Int : \A W \in Nat : q - p > -W => p < q + W
    OBVIOUS
  <2> QED BY <2>1, <2>3, <2>4, <2>5
<1> QED BY <1>1, InvHolds, PTL

(***************************************************************************)
(* Terms that are not negative and sum to zero are all zero: without the   *)
(* m-th they would sum to -f[m].                                           *)
(***************************************************************************)
LEMMA ZeroTerms ==
    ASSUME NEW n \in Nat, NEW f, \A l \in 1..n : f[l] \in Int /\ f[l] >= 0,
           NEW S, PartialSums(S, f, n), S[n] = 0
    PROVE  \A l \in 1..n : f[l] = 0
<1> SUFFICES ASSUME NEW m \in 1..n, f[m] > 0 PROVE FALSE
  OBVIOUS
<1> DEFINE g == [l \in 1..n |-> IF l = m THEN 0 ELSE f[l]]
           R == [j \in 0..n |-> IF j >= m THEN S[j] - f[m] ELSE S[j]]
<1>1. R \in [0..n -> Int] /\ R[0] = 0 /\ R[n] < 0
  BY DEF PartialSums
<1>2. ASSUME NEW l \in 1..n PROVE R[l] = R[l-1] + g[l]
  <2>1. l \in 0..n /\ l - 1 \in 0..n
    OBVIOUS
  <2>2. S[l] \in Int /\ S[l-1] \in Int /\ S[l] = S[l-1] + f[l]
    BY <2>1 DEF PartialSums
  <2>3. R[l] = IF l >= m THEN S[l] - f[m] ELSE S[l]
    BY <2>1
  <2>4. R[l-1] = IF l - 1 >= m THEN S[l-1] - f[m] ELSE S[l-1]
    BY <2>1
  <2>5. g[l] = IF l = m THEN 0 ELSE f[l]
    OBVIOUS
  <2> HIDE DEF g, R
  <2> QED BY <2>2, <2>3, <2>4, <2>5
<1>3. \A l \in 1..n : g[l] \in Int /\ ~(g[l] < 0)
  OBVIOUS
<1>4. PartialSums(R, g, n)
  <2> HIDE DEF g, R
  <2> QED BY <1>1, <1>2 DEF PartialSums
<1> HIDE DEF g, R
<1> QED BY <1>1, <1>3, <1>4, NegativeTerm

(***************************************************************************)
(* A multiple of W that is greater than -W is not negative.                *)
(***************************************************************************)
LEMMA MultipleAbove ==
    ASSUME NEW W \in Nat, NEW q \in Int, W * q > -W
    PROVE  W * q >= 0
<1>1. CASE q <= -1
  <2>1. W * q <= W * (-1)
    BY <1>1
  <2> QED BY <1>1, <2>1
<1>2. CASE q >= 0
  BY <1>2
<1> QED BY <1>1, <1>2

(***************************************************************************)
(* After k times the total weight every lane has exactly k times its       *)
(* weight.  Its credit is then a multiple of the total that is not below   *)
(* minus the total, hence not negative, and the credits sum to zero.       *)
(***************************************************************************)
THEOREM DealsExactShares == Spec => []ExactShareEveryRound
<1>1. Inv => ExactShareEveryRound
  <2> SUFFICES ASSUME Inv, summed = NumLanes,
                      NEW k \in 0..chunk, chunk = k * totalWeight, NEW l \in Lane
               PROVE  Len(out[l]) = k * weight[l]
    BY DEF ExactShareEveryRound
  <2>1. /\ k \in Nat /\ totalWeight \in Nat /\ totalWeight > 0
        /\ NumLanes \in Nat
    BY NumLanesAssumption DEF Inv, TypeOK, TotalIsSum
  <2>2. \A m \in Lane :
          /\ weight[m] \in Nat /\ Len(out[m]) \in Nat
          /\ current[m] = totalWeight * (k * weight[m] - Len(out[m]))
    <3> SUFFICES ASSUME NEW m \in Lane
                 PROVE  /\ weight[m] \in Nat /\ Len(out[m]) \in Nat
                        /\ current[m] = totalWeight * (k * weight[m] - Len(out[m]))
      OBVIOUS
    <3>1. weight[m] \in Nat
      BY WeightPositive DEF Inv
    <3>2. Len(out[m]) \in Nat
      BY DEF Inv, TypeOK
    <3>3. \A a, b, c, d \in Int : (a * b) * c - b * d = b * (a * c - d)
      OBVIOUS
    <3>4. (k * totalWeight) * weight[m] - totalWeight * Len(out[m])
              = totalWeight * (k * weight[m] - Len(out[m]))
      BY <2>1, <3>1, <3>2, <3>3
    <3>5. current[m] = chunk * weight[m] - totalWeight * Len(out[m])
      BY DEF Inv, Ledger
    <3> QED BY <3>1, <3>2, <3>4, <3>5
  <2>3. \A m \in Lane : current[m] \in Int /\ current[m] >= 0
    <3> SUFFICES ASSUME NEW m \in Lane PROVE current[m] \in Int /\ current[m] >= 0
      OBVIOUS
    <3>1. current[m] \in Int /\ current[m] > -totalWeight
      BY DEF Inv, TypeOK, NoLaneBroke
    <3>2. k * weight[m] - Len(out[m]) \in Int
      <4>1. k * weight[m] \in Int /\ Len(out[m]) \in Int
        BY <2>1, <2>2
      <4> QED BY <4>1
    <3> QED BY <2>1, <2>2, <3>1, <3>2, MultipleAbove
  <2>4. PICK S : PartialSums(S, current, NumLanes) /\ S[NumLanes] = 0
    BY DEF Inv, CreditsSumToZero
  <2>5. current[l] = 0
    BY <2>1, <2>3, <2>4, ZeroTerms DEF Lane
  <2>6. k * weight[l] - Len(out[l]) = 0
    <3>1. k * weight[l] - Len(out[l]) \in Int
      <4>1. k * weight[l] \in Int /\ Len(out[l]) \in Int
        BY <2>1, <2>2
      <4> QED BY <4>1
    <3>2. \A q \in Int : totalWeight * q = 0 => q = 0
      BY <2>1
    <3> QED BY <2>2, <2>5, <3>1, <3>2
  <2>7. k * weight[l] \in Int /\ Len(out[l]) \in Int
    BY <2>1, <2>2
  <2> QED BY <2>6, <2>7
<1> QED BY <1>1, InvHolds, PTL
----------------------------------------------------------------------------
(* How the file is cut into those chunks, and the frames that carry them,  *)
(* in arithmetic modulo any Wrap (ChunkFrames).                            *)
(*                                                                         *)
(* The arithmetic of a chunk that exists never wraps, even where that of   *)
(* their number does: there are no chunks then (PieceFits).  A header      *)
(* whose fields are damaged still has the length that has come             *)
(* (bytes), which is what keeps the sum in the receiver's check from       *)
(* wrapping.                                                               *)

Options ==
    /\ size \in 0..Wrap-1 /\ chunkSize \in 1..Wrap-1 /\ sink \in BOOLEAN
    /\ ~sink => size < Wrap \div 2

\* The frame of chunk c, and what the receiver makes of it.
Header(c) ==
    [tag |-> (c + 1) % Wrap, chunk_id |-> c, offset |-> Offset(c),
     length |-> Length(c), bytes |-> HeaderSize + Length(c)]
Piece(c) == [offset |-> Offset(c), length |-> Length(c)]

\* The frame sent last, as it was sent.
Sent == Header(id - 1)

\* How many frames the receiver has taken from the wire.
Arrived == IF wire = None THEN id ELSE id - 1

\* Only the fields of the header may be damaged, not the length of the message.
WireOk ==
    wire # None =>
        /\ id > 0
        /\ wire \in [tag : 0..Wrap-1, chunk_id : 0..Wrap-1, offset : 0..Wrap-1,
                     length : 0..Wrap-1, bytes : Nat]
        /\ wire.bytes = Sent.bytes

\* As long as nothing is damaged.
Undamaged ==
    faults = 0 =>
        /\ ~refused
        /\ wire # None => wire = Sent
        /\ accepted = {Piece(c) : c \in 0..Arrived-1}
        /\ IsFiniteSet(accepted) /\ Cardinality(accepted) = Arrived

FramesInv ==
    /\ Options
    /\ id \in 0..NumChunks /\ faults \in Nat
    /\ WireOk
    /\ WritesInsideFile
    /\ Undamaged
----------------------------------------------------------------------------
(* Arithmetic.                                                             *)

LEMMA Quotient ==
    ASSUME NEW x \in Nat, NEW n \in Nat \ {0}
    PROVE  x \div n \in Nat /\ (x \div n) * n <= x /\ x < (x \div n) * n + n
OBVIOUS

LEMMA QuotientUnique ==
    ASSUME NEW x \in Nat, NEW n \in Nat \ {0}, NEW q \in Nat, q * n <= x, x < q * n + n
    PROVE  q = x \div n
OBVIOUS

LEMMA NoWrap == ASSUME NEW w \in Nat \ {0}, NEW x \in 0..w-1 PROVE x % w = x
OBVIOUS

LEMMA WrapsOnce == ASSUME NEW w \in Nat \ {0}, NEW x \in w..2*w-1 PROVE x % w = x - w
OBVIOUS

LEMMA Remainder == ASSUME NEW w \in Nat \ {0}, NEW x \in Int PROVE x % w \in 0..w-1
OBVIOUS

LEMMA Multiples ==
    ASSUME NEW a \in Nat, NEW b \in Nat, NEW n \in Nat \ {0}, a < b
    PROVE  a * n \in Nat /\ a * n + n <= b * n
OBVIOUS

\* The chunks begin inside the file; where the sum that counts them wraps,
\* there are none.
LEMMA ChunksBeginInside ==
    ASSUME Options
    PROVE  /\ NumChunks \in Nat
           /\ \A c \in 0..NumChunks-1 : c * chunkSize \in 0..size-1
<1> DEFINE sum == size + chunkSize - 1
           T == NumChunks
<1>1. /\ Wrap \in Nat \ {0} /\ chunkSize \in Nat \ {0} /\ size \in Nat
      /\ size < Wrap /\ chunkSize < Wrap /\ sum \in Nat
  BY WrapAssumption DEF Options
<1>2. T = (sum % Wrap) \div chunkSize
  BY DEF NumChunks
<1>3. sum % Wrap \in Nat
  BY <1>1, Remainder
<1>4. T \in Nat /\ T * chunkSize <= sum % Wrap
  BY <1>1, <1>2, <1>3, Quotient
<1>5. ASSUME NEW c \in 0..T-1 PROVE c * chunkSize \in 0..size-1
  <2>1. c \in Nat /\ c < T
    BY <1>4, <1>5
  <2>2. c * chunkSize \in Nat /\ c * chunkSize + chunkSize <= T * chunkSize
    BY <1>1, <1>4, <2>1, Multiples
  <2>3. sum % Wrap <= sum
    <3>1. CASE sum < Wrap
      BY <1>1, <3>1, NoWrap
    <3>2. CASE sum >= Wrap
      <4>1. sum \in Wrap..2*Wrap-1
        BY <1>1, <3>2
      <4> QED BY <1>1, <4>1, WrapsOnce
    <3> QED BY <1>1, <3>1, <3>2
  <2>4. c * chunkSize + chunkSize <= size + chunkSize - 1
    <3>1. T * chunkSize \in Int
      BY <1>1, <1>4
    <3> HIDE DEF T
    <3> QED BY <1>1, <1>3, <1>4, <2>2, <2>3, <3>1
  <2> QED BY <1>1, <2>2, <2>4
<1> QED BY <1>4, <1>5

\* Nothing about a chunk wraps: it is where it should be, not empty, and ends
\* inside the file.
LEMMA PieceFits ==
    ASSUME Options, NEW c \in 0..NumChunks-1
    PROVE  /\ c \in 0..Wrap-1
           /\ Offset(c) = c * chunkSize /\ Offset(c) \in 0..size-1
           /\ Length(c) = (IF size - c * chunkSize < chunkSize
                                  THEN size - c * chunkSize ELSE chunkSize)
           /\ Length(c) \in 1..chunkSize
           /\ Offset(c) + Length(c) <= size
<1>1. /\ Wrap \in Nat \ {0} /\ chunkSize \in Nat \ {0} /\ size \in Nat
      /\ size < Wrap /\ chunkSize < Wrap
  BY WrapAssumption DEF Options
<1>2. c * chunkSize \in 0..size-1 /\ c \in Nat
  BY ChunksBeginInside
<1>3. Offset(c) = c * chunkSize
  <2>1. c * chunkSize \in 0..Wrap-1
    BY <1>1, <1>2
  <2> QED BY <1>1, <2>1, NoWrap DEF Offset
<1>4. (size - c * chunkSize) % Wrap = size - c * chunkSize
  <2>1. size - c * chunkSize \in 0..Wrap-1
    BY <1>1, <1>2
  <2> QED BY <1>1, <2>1, NoWrap
<1>5. Length(c) = IF size - c * chunkSize < chunkSize
                  THEN size - c * chunkSize ELSE chunkSize
  BY <1>3, <1>4 DEF Length
<1>6. c <= c * chunkSize
  BY <1>1, <1>2
<1> QED BY <1>1, <1>2, <1>3, <1>5, <1>6
----------------------------------------------------------------------------
(* The frames on their way.                                                *)

\* What the sender makes of a chunk depends on the file and the chunk size only.
LEMMA SameFile ==
    ASSUME UNCHANGED <<size, chunkSize>>, NEW c
    PROVE  /\ Piece(c)' = Piece(c)
           /\ id' - 1 = c => Sent' = Header(c)
<1>1. Offset(c)' = Offset(c) /\ Length(c)' = Length(c)
  BY DEF Length, Offset
<1>2. Piece(c)' = Piece(c) /\ Header(c)' = Header(c)
  BY <1>1 DEF Piece, Header
<1>3. ASSUME id' - 1 = c PROVE Sent' = Header(c)
  BY <1>3 DEF Sent, Header, Length, Offset
<1> QED BY <1>2, <1>3

LEMMA FramesInvInit == ASSUME FramesInit PROVE FramesInv
<1>1. Options
  BY WrapAssumption, ChunkSizesAssumption DEF FramesInit, Word, Options
<1>2. NumChunks \in Nat
  BY <1>1, ChunksBeginInside
<1>3. WireOk /\ WritesInsideFile
  BY DEF FramesInit, WireOk, WritesInsideFile
<1>4. Undamaged
  <2>1. Arrived = 0
    BY DEF FramesInit, Arrived
  <2>2. accepted = {Piece(c) : c \in 0..Arrived-1}
    BY <2>1 DEF FramesInit
  <2>3. IsFiniteSet(accepted) /\ Cardinality(accepted) = 0
    BY FS_EmptySet DEF FramesInit
  <2> QED BY <2>1, <2>2, <2>3 DEF FramesInit, Undamaged
<1> QED BY <1>1, <1>2, <1>3, <1>4 DEF FramesInit, FramesInv

LEMMA SendKeeps == ASSUME FramesInv, Send PROVE FramesInv'
<1>1. /\ id < NumChunks /\ wire = None
      /\ wire' = Header(id) /\ id' = id + 1
      /\ UNCHANGED <<size, chunkSize, sink, accepted, refused, faults>>
  BY DEF Send, meta, Header
<1>2. Options /\ Options' /\ NumChunks' = NumChunks
  BY <1>1 DEF FramesInv, Options, NumChunks
<1>3. NumChunks \in Nat /\ id \in 0..NumChunks-1
  BY <1>1, <1>2, ChunksBeginInside DEF FramesInv
<1>4. Sent' = Header(id) /\ \A c : Piece(c)' = Piece(c)
  <2>1. id' - 1 = id
    BY <1>1, <1>3
  <2> QED BY <1>1, <2>1, SameFile
<1>5. wire' # None
  <2>1. DOMAIN wire' = {"tag", "chunk_id", "offset", "length", "bytes"}
    BY <1>1 DEF Header
  <2>2. DOMAIN None = {"tag"}
    BY DEF None
  <2> QED BY <2>1, <2>2
<1>6. WireOk'
  <2>1. (id + 1) % Wrap \in 0..Wrap-1
    BY <1>3, Remainder, WrapAssumption
  <2>2. /\ id \in 0..Wrap-1 /\ Offset(id) \in 0..Wrap-1
        /\ Length(id) \in 0..Wrap-1 /\ HeaderSize + Length(id) \in Nat
    BY <1>2, <1>3, PieceFits, WrapAssumption, HeaderSizeAssumption DEF Options
  <2>3. wire' \in [tag : 0..Wrap-1, chunk_id : 0..Wrap-1, offset : 0..Wrap-1,
                   length : 0..Wrap-1, bytes : Nat]
    BY <1>1, <2>1, <2>2 DEF Header
  <2>4. id' > 0 /\ wire'.bytes = Sent'.bytes
    BY <1>1, <1>3, <1>4
  <2> QED BY <2>3, <2>4 DEF WireOk
<1>7. Undamaged'
  <2> SUFFICES ASSUME faults = 0
               PROVE  /\ ~refused /\ wire' = Sent'
                      /\ accepted = {Piece(c) : c \in 0..Arrived'-1}
                      /\ IsFiniteSet(accepted) /\ Cardinality(accepted) = Arrived'
    BY <1>1, <1>4 DEF Undamaged
  <2>1. id' - 1 = id
    BY <1>1, <1>3
  <2>2. Arrived = id /\ Arrived' = id
    BY <1>1, <1>5, <2>1 DEF Arrived, None
  <2> QED BY <1>1, <1>4, <2>2 DEF FramesInv, Undamaged
<1>8. WritesInsideFile'
  BY <1>1 DEF FramesInv, WritesInsideFile
<1>9. id' \in 0..NumChunks'
  BY <1>1, <1>2, <1>3
<1> QED BY <1>1, <1>2, <1>6, <1>7, <1>8, <1>9 DEF FramesInv

LEMMA DamageKeeps == ASSUME FramesInv, Damage PROVE FramesInv'
<1>1. /\ wire # None /\ faults' = faults + 1
      /\ UNCHANGED <<size, chunkSize, sink, id, accepted, refused>>
  BY DEF Damage, meta
<1>2. PICK field \in {"chunk_id", "offset", "length"}, v \in 0..Wrap-1 :
          wire' = [wire EXCEPT ![field] = v]
  BY DEF Damage, Word
<1>3. WireOk'
  <2>1. /\ id > 0
        /\ wire \in [tag : 0..Wrap-1, chunk_id : 0..Wrap-1, offset : 0..Wrap-1,
                     length : 0..Wrap-1, bytes : Nat]
        /\ wire.bytes = Sent.bytes
    BY <1>1 DEF FramesInv, WireOk
  <2>2. /\ wire' \in [tag : 0..Wrap-1, chunk_id : 0..Wrap-1, offset : 0..Wrap-1,
                      length : 0..Wrap-1, bytes : Nat]
        /\ wire'.bytes = wire.bytes
    <3>1. CASE field = "chunk_id"
      BY <1>2, <2>1, <3>1
    <3>2. CASE field = "offset"
      BY <1>2, <2>1, <3>2
    <3>3. CASE field = "length"
      BY <1>2, <2>1, <3>3
    <3> QED BY <1>2, <3>1, <3>2, <3>3
  <2>3. Sent' = Sent
    BY <1>1, SameFile DEF Sent
  <2> QED BY <1>1, <2>1, <2>2, <2>3 DEF WireOk
<1>4. Options' /\ NumChunks' = NumChunks
  BY <1>1 DEF FramesInv, Options, NumChunks
<1>5. faults' \in Nat /\ faults' # 0
  BY <1>1 DEF FramesInv
<1> QED BY <1>1, <1>3, <1>4, <1>5 DEF FramesInv, WritesInsideFile, Undamaged

\* A frame the checks accept ends inside the file although their sum wraps:
\* it is no longer than the chunk that was sent, and begins where off_t is
\* not negative.
LEMMA AcceptedInside ==
    ASSUME FramesInv, wire # None, HeaderOk(wire),
           CanWrite(wire), ~sink
    PROVE  wire.offset + wire.length <= size
<1>1. /\ id \in 1..NumChunks /\ wire.offset \in 0..Wrap-1 /\ wire.length \in 0..Wrap-1
      /\ wire.bytes = HeaderSize + Length(id - 1)
  <2>1. NumChunks \in Nat
    BY ChunksBeginInside DEF FramesInv
  <2> QED BY <2>1 DEF FramesInv, WireOk, Sent, Header
<1>2. /\ Wrap \in Nat \ {0} /\ HeaderSize \in Nat /\ size \in Nat /\ size < Wrap \div 2
  BY WrapAssumption, HeaderSizeAssumption DEF FramesInv, Options
<1>3. Length(id - 1) \in Nat /\ Length(id - 1) <= size
  <2>1. id - 1 \in 0..NumChunks-1
    BY <1>1, ChunksBeginInside DEF FramesInv
  <2>2. /\ Offset(id - 1) \in 0..size-1 /\ Length(id - 1) \in 1..chunkSize
        /\ Offset(id - 1) + Length(id - 1) <= size
    BY <2>1, PieceFits DEF FramesInv
  <2> QED BY <1>2, <2>2 DEF FramesInv, Options
<1>4. wire.length <= size
  BY <1>1, <1>2, <1>3 DEF HeaderOk
<1>5. wire.offset < Wrap \div 2
  BY DEF CanWrite
<1>6. wire.offset + wire.length \in 0..Wrap-1
  BY <1>1, <1>2, <1>4, <1>5
<1>7. (wire.offset + wire.length) % Wrap = wire.offset + wire.length
  BY <1>2, <1>6, NoWrap
<1> QED BY <1>7 DEF HeaderOk, InFile

\* A frame as it was sent passes the checks.
LEMMA OwnFrameOk ==
    ASSUME Options, NEW c \in 0..NumChunks-1, wire = Header(c)
    PROVE  HeaderOk(wire) /\ CanWrite(wire)
<1>1. /\ wire.tag = (wire.chunk_id + 1) % Wrap /\ wire.bytes = HeaderSize + wire.length
      /\ wire.offset = Offset(c) /\ wire.length = Length(c)
  BY DEF Header
<1>2. /\ Offset(c) \in 0..size-1 /\ Length(c) \in 1..chunkSize
      /\ Offset(c) + Length(c) <= size
  BY PieceFits
<1>3. Offset(c) + Length(c) \in 0..Wrap-1 /\ Wrap \in Nat \ {0}
      /\ chunkSize \in Nat /\ size \in Nat
  BY <1>2, WrapAssumption DEF Options
<1>4. (wire.offset + wire.length) % Wrap <= size
  BY <1>1, <1>2, <1>3, NoWrap
<1>5. sink \/ wire.offset < Wrap \div 2
  BY <1>1, <1>2, <1>3, WrapAssumption DEF Options
<1> QED BY <1>1, <1>2, <1>3, <1>4, <1>5 DEF HeaderOk, InFile, CanWrite

\* The next piece is none of those that have arrived.
LEMMA PieceAdds ==
    ASSUME Options, NEW n \in 0..NumChunks-1,
           accepted = {Piece(c) : c \in 0..n-1},
           IsFiniteSet(accepted), Cardinality(accepted) = n
    PROVE  /\ accepted \cup {Piece(n)} = {Piece(c) : c \in 0..n}
           /\ IsFiniteSet(accepted \cup {Piece(n)})
           /\ Cardinality(accepted \cup {Piece(n)}) = n + 1
<1>1. chunkSize \in Nat \ {0} /\ n \in Nat
  BY ChunksBeginInside DEF Options
<1>2. Piece(n) \notin accepted
  <2> SUFFICES ASSUME NEW c \in 0..n-1, Piece(c) = Piece(n) PROVE FALSE
    OBVIOUS
  <2>1. c \in 0..NumChunks-1
    BY ChunksBeginInside
  <2>2. Offset(c) = Offset(n)
    BY DEF Piece
  <2>3. c * chunkSize = n * chunkSize
    BY <2>1, <2>2, PieceFits
  <2>4. c * chunkSize \in Nat /\ c * chunkSize + chunkSize <= n * chunkSize
    BY <1>1, Multiples
  <2> QED BY <1>1, <2>3, <2>4
<1>3. 0..n = (0..n-1) \cup {n}
  BY <1>1
<1>4. accepted \cup {Piece(n)} = {Piece(c) : c \in 0..n}
  BY <1>3
<1> QED BY <1>2, <1>4, FS_AddElement

LEMMA ReceiveKeeps == ASSUME FramesInv, Receive PROVE FramesInv'
<1>1. wire # None /\ ~refused /\ UNCHANGED <<size, chunkSize, sink, id, faults>>
  BY DEF Receive, meta
<1>2. Options' /\ NumChunks' = NumChunks
  BY <1>1 DEF FramesInv, Options, NumChunks
<1>3. id - 1 \in 0..NumChunks-1 /\ id \in Int
  BY <1>1, ChunksBeginInside DEF FramesInv, WireOk
<1>4. Sent' = Sent /\ \A c : Piece(c)' = Piece(c)
  BY <1>1, SameFile DEF Sent
<1>5. CASE /\ HeaderOk(wire) /\ CanWrite(wire)
           /\ accepted' = accepted \cup {[offset |-> wire.offset, length |-> wire.length]}
           /\ wire' = None
           /\ UNCHANGED refused
  <2>1. WireOk'
    BY <1>5 DEF WireOk, None
  <2>2. WritesInsideFile'
    BY <1>1, <1>5, AcceptedInside DEF FramesInv, WritesInsideFile
  <2>3. Undamaged'
    <3> SUFFICES ASSUME faults = 0
                 PROVE  /\ ~refused
                        /\ accepted' = {Piece(c) : c \in 0..Arrived'-1}
                        /\ IsFiniteSet(accepted') /\ Cardinality(accepted') = Arrived'
      BY <1>1, <1>4, <1>5 DEF Undamaged, None
    <3>1. Arrived = id - 1 /\ Arrived' = id
      BY <1>1, <1>5 DEF Arrived, None
    <3>2. /\ wire = Header(id - 1)
          /\ accepted = {Piece(c) : c \in 0..id-1-1}
          /\ IsFiniteSet(accepted) /\ Cardinality(accepted) = id - 1
      BY <1>1, <3>1 DEF FramesInv, Undamaged, Sent
    <3>3. accepted' = accepted \cup {Piece(id - 1)}
      BY <1>5, <3>2 DEF Header, Piece
    <3>4. /\ accepted' = {Piece(c) : c \in 0..id-1}
          /\ IsFiniteSet(accepted') /\ Cardinality(accepted') = id - 1 + 1
      BY <1>3, <3>2, <3>3, PieceAdds DEF FramesInv
    <3> QED BY <1>1, <1>3, <3>1, <3>4
  <2> QED BY <1>1, <1>2, <2>1, <2>2, <2>3 DEF FramesInv
<1>6. CASE /\ ~(HeaderOk(wire) /\ CanWrite(wire))
           /\ refused' = TRUE
           /\ UNCHANGED <<accepted, wire>>
  <2>1. faults # 0
    BY <1>1, <1>3, <1>6, OwnFrameOk DEF FramesInv, Undamaged, Sent
  <2>2. WireOk'
    BY <1>1, <1>4, <1>6 DEF FramesInv, WireOk
  <2> QED BY <1>1, <1>2, <1>6, <2>1, <2>2 DEF FramesInv, WritesInsideFile, Undamaged
<1> QED BY <1>5, <1>6 DEF Receive

LEMMA FramesInvNext ==
    ASSUME FramesInv, [FramesNext]_framesVars PROVE FramesInv'
<1>1. CASE UNCHANGED framesVars
  <2>1. UNCHANGED <<size, chunkSize, sink, id, wire, accepted, refused, faults>>
    BY <1>1 DEF framesVars, meta
  <2>2. Sent' = Sent /\ \A c : Piece(c)' = Piece(c)
    BY <2>1, SameFile DEF Sent
  <2>3. Arrived' = Arrived /\ NumChunks' = NumChunks /\ (Options <=> Options')
    BY <2>1 DEF Arrived, None, NumChunks, Options
  <2>4. WireOk' /\ Undamaged' /\ WritesInsideFile'
    BY <2>1, <2>2, <2>3 DEF FramesInv, WireOk, None, WritesInsideFile, Undamaged
  <2> QED BY <2>1, <2>3, <2>4 DEF FramesInv
<1>2. CASE Done
  BY <1>1, <1>2 DEF Done
<1> QED BY <1>1, <1>2, SendKeeps, DamageKeeps, ReceiveKeeps DEF FramesNext

LEMMA FramesInvariance == FramesSpec => []FramesInv
<1>1. FramesInit => FramesInv
  BY FramesInvInit
<1>2. FramesInv /\ [FramesNext]_framesVars => FramesInv'
  BY FramesInvNext
<1> QED BY <1>1, <1>2, PTL DEF FramesSpec

\* Nothing is written outside the file, whatever a damaged header says.
THEOREM WrittenInside == FramesSpec => []WritesInsideFile
<1>1. FramesInv => WritesInsideFile
  BY DEF FramesInv
<1> QED BY <1>1, FramesInvariance, PTL

\* The two programs compute alike.
THEOREM OwnFramesPass == FramesSpec => []OwnFramesAccepted
<1>1. FramesInv => OwnFramesAccepted
  BY DEF FramesInv, Undamaged, OwnFramesAccepted
<1> QED BY <1>1, FramesInvariance, PTL

\* A byte of the file is in the piece its quotient names, and no other.
LEMMA PieceOfByte ==
    ASSUME Options, size + chunkSize <= Wrap, NEW p \in 0..size-1
    PROVE  /\ p \div chunkSize \in 0..NumChunks-1
           /\ \A c \in 0..NumChunks-1 :
                  In(p, Piece(c)) <=> c = p \div chunkSize
<1> DEFINE q == p \div chunkSize
           T == NumChunks
<1>1. chunkSize \in Nat \ {0} /\ size \in Nat /\ Wrap \in Nat \ {0} /\ p \in Nat /\ p < size
  BY WrapAssumption DEF Options
<1>2. q \in Nat /\ q * chunkSize <= p /\ p < q * chunkSize + chunkSize
  BY <1>1, Quotient
<1>3. T \in Nat
  BY ChunksBeginInside
<1>4. q < T
  <2>1. size + chunkSize - 1 \in 0..Wrap-1
    BY <1>1
  <2>2. T = (size + chunkSize - 1) \div chunkSize
    BY <1>1, <2>1, NoWrap DEF NumChunks
  <2>3. size + chunkSize - 1 < T * chunkSize + chunkSize
    BY <1>1, <2>1, <2>2, Quotient
  <2>4. q * chunkSize < T * chunkSize
    <3>1. T * chunkSize \in Int /\ q * chunkSize \in Int
      BY <1>1, <1>2, <1>3
    <3> HIDE DEF q, T
    <3> QED BY <1>1, <1>2, <2>3, <3>1
  <2>5. ASSUME T <= q PROVE FALSE
    <3>1. CASE T = q
      BY <2>4, <3>1, <1>1, <1>2
    <3>2. CASE T < q
      <4>1. T * chunkSize \in Nat /\ T * chunkSize + chunkSize <= q * chunkSize
        BY <1>1, <1>2, <1>3, <3>2, Multiples
      <4>2. q * chunkSize \in Int
        BY <1>1, <1>2
      <4> HIDE DEF q, T
      <4> QED BY <1>1, <2>4, <4>1, <4>2
    <3> QED BY <1>2, <1>3, <2>5, <3>1, <3>2
  <2> QED BY <1>2, <1>3, <2>5
<1>5. ASSUME NEW c \in 0..T-1 PROVE In(p, Piece(c)) <=> c = q
  <2>1. /\ Offset(c) = c * chunkSize /\ c * chunkSize \in Nat /\ c \in Nat
        /\ Length(c) = (IF size - c * chunkSize < chunkSize
                               THEN size - c * chunkSize ELSE chunkSize)
    BY <1>5, PieceFits, ChunksBeginInside
  <2>2. In(p, Piece(c)) <=> c * chunkSize <= p /\ p < c * chunkSize + chunkSize
    BY <1>1, <2>1 DEF In, Piece
  <2>3. c * chunkSize <= p /\ p < c * chunkSize + chunkSize => c = q
    BY <1>1, <2>1, QuotientUnique
  <2>4. c = q => c * chunkSize <= p /\ p < c * chunkSize + chunkSize
    BY <1>2
  <2> QED BY <2>2, <2>3, <2>4
<1> QED BY <1>2, <1>3, <1>4, <1>5

\* The pieces are the file, every byte once, for every size and chunk size
\* whose sum does not pass the end of the range.
THEOREM PiecesTile == FramesSpec => []ChunksTileFile
<1>1. FramesInv => ChunksTileFile
  <2> SUFFICES ASSUME FramesInv, wire = None, id = NumChunks, faults = 0,
                      size + chunkSize <= Wrap
               PROVE  /\ \A p \in 0..size-1 :
                             Cardinality({a \in accepted : In(p, a)}) = 1
                      /\ \A a \in accepted : a.offset + a.length <= size
                      /\ Cardinality(accepted) = NumChunks
    BY DEF ChunksTileFile, Cardinality, Cardinality
  <2>1. /\ accepted = {Piece(c) : c \in 0..NumChunks-1}
        /\ Cardinality(accepted) = NumChunks /\ Options
    BY DEF FramesInv, Undamaged, Arrived
  <2>2. \A a \in accepted : a.offset + a.length <= size
    BY <2>1, PieceFits DEF Piece
  <2>3. ASSUME NEW p \in 0..size-1
        PROVE  Cardinality({a \in accepted : In(p, a)}) = 1
    <3>1. {a \in accepted : In(p, a)} = {Piece(p \div chunkSize)}
      BY <2>1, <2>3, PieceOfByte
    <3>2. Cardinality({Piece(p \div chunkSize)}) = 1
      BY FS_Singleton
    <3> QED BY <3>1, <3>2
  <2> QED BY <2>1, <2>2, <2>3
<1> QED BY <1>1, FramesInvariance, PTL
----------------------------------------------------------------------------
(* What the options leave of the assumptions above: the weights, the chunk *)
(* size and the lanes are those parse_args has let through (CommandLine).  *)

\* The members of struct Options.
Members == {"size", "chunk_size", "depth", "source", "input", "output", "verify", "engine",
            "register_buffers", "sink", "lanes"}

ParsedLane == [port : 1..W16-1, weight : 1..W32-1]

Entry == [name : Members \cup {"lane"},
          value : Numbers \cup BOOLEAN \cup LaneTexts \cup UNION {Strings[name] : name \in Members}]

\* What is left of value v of an option.
TakenAs(name, v) ==
    IF name \in NumberOptions THEN v \in Int /\ opt[name] = Cast(name, v)
                              ELSE opt[name] = v

\* The last time an option was given is the one that counts.
LastCounts ==
    \A name \in NumberOptions \cup StringOptions :
        GivenFor(name) # {} =>
            \E k \in GivenFor(name) :
                (\A j \in GivenFor(name) : j <= k) /\ TakenAs(name, given[k].value)

\* The checks after the loop that matter for what follows.
Checked ==
    outcome \in {"accepted", "started"} =>
        /\ ~Fails("depth") /\ ~Fails("chunk_size") /\ ~Fails("lane")
        /\ ~Fails("engine") /\ ~Fails("source") /\ ~Fails("size")

\* Each option --lane has left its lane, at its place.
LanesAddUp ==
    /\ IsFiniteSet(GivenFor("lane"))
    /\ Len(opt["lanes"]) = Cardinality(GivenFor("lane"))
    /\ \A k \in GivenFor("lane") :
          /\ Position(k) \in 1..Len(opt["lanes"])
          /\ given[k].value \in LaneTexts
          /\ opt["lanes"][Position(k)] = LaneOf(given[k].value)

ArgsInv ==
    /\ program \in {"send", "recv"}
    /\ DOMAIN opt = Members
    /\ opt["depth"] \in 0..W32-1 /\ opt["chunk_size"] \in 0..W32-1
    /\ opt["lanes"] \in Seq(ParsedLane)
    /\ given \in Seq(Entry)
    /\ LastCounts
    /\ LanesAddUp
    /\ Checked

LEMMA Names ==
    /\ NumberOptions \subseteq {"size", "chunk_size", "depth"}
    /\ StringOptions \subseteq {"source", "input", "output", "verify", "engine"}
    /\ Flags \subseteq {"register_buffers", "sink"}
BY DEF NumberOptions, StringOptions, Flags

\* A number is cut to its type, and taken as it is if it fits.
LEMMA CastFits ==
    ASSUME NEW name, NEW v \in Int
    PROVE  /\ name # "size" => Cast(name, v) \in 0..W32-1
           /\ v \in 0..Width(name)-1 => Cast(name, v) = v
<1>1. W32 \in Nat \ {0} /\ W64 \in Nat \ {0} /\ W32 <= W64
  BY WidthAssumption
<1>2. v % W64 \in 0..W64-1 /\ (v % W64) % W32 \in 0..W32-1
  BY <1>1, Remainder
<1>3. v \in 0..W32-1 => v % W64 = v /\ v % W32 = v
  <2>1. v \in 0..W32-1 => v \in 0..W64-1
    BY <1>1
  <2> QED BY <1>1, <2>1, NoWrap
<1>4. v \in 0..W64-1 => v % W64 = v
  BY <1>1, NoWrap
<1> QED BY <1>2, <1>3, <1>4 DEF Cast, Width, Stoul, Uint32

\* So are the port and the weight of a lane.
LEMMA LaneAsGiven ==
    ASSUME NEW text \in LaneTexts
    PROVE  /\ text.port \in 0..W16-1 => LaneOf(text).port = text.port
           /\ program = "send" /\ text.weight \in 0..W32-1 => LaneOf(text).weight = text.weight
<1>1. text.port \in Int /\ text.weight \in Int
  BY LaneTextsAssumption
<1>2. W16 \in Nat \ {0} /\ W32 \in Nat \ {0} /\ W64 \in Nat \ {0} /\ W32 <= W64 /\ W16 <= W64
  BY WidthAssumption
<1>3. ASSUME text.port \in 0..W16-1 PROVE Uint16(Stoul(text.port)) = text.port
  <2>1. text.port \in 0..W64-1
    BY <1>2, <1>3
  <2> QED BY <1>2, <1>3, <2>1, NoWrap DEF Uint16, Stoul
<1>4. ASSUME text.weight \in 0..W32-1 PROVE Uint32(Stoul(text.weight)) = text.weight
  <2>1. text.weight \in 0..W64-1
    BY <1>2, <1>4
  <2> QED BY <1>2, <1>4, <2>1, NoWrap DEF Uint32, Stoul
<1> QED BY <1>3, <1>4 DEF LaneOf, Weight

\* A lane that is accepted has a port and a weight.
LEMMA LaneFits ==
    ASSUME NEW text \in LaneTexts, LaneOk(text)
    PROVE  LaneOf(text) \in ParsedLane
<1>1. text.port \in Int /\ text.weight \in Int
  BY LaneTextsAssumption
<1>2. W16 \in Nat \ {0} /\ W32 \in Nat \ {0} /\ W64 \in Nat \ {0} /\ 4 < W32
  BY WidthAssumption
<1>3. Uint16(Stoul(text.port)) \in 0..W16-1
  <2>1. text.port % W64 \in Int
    BY <1>1, <1>2, Remainder
  <2> QED BY <1>2, <2>1, Remainder DEF Uint16, Stoul
<1>4. Uint32(Stoul(text.weight)) \in 0..W32-1
  <2>1. text.weight % W64 \in Int
    BY <1>1, <1>2, Remainder
  <2> QED BY <1>2, <2>1, Remainder DEF Uint32, Stoul
<1>5. Weight(text) \in 0..W32-1
  BY <1>2, <1>4 DEF Weight
<1>6. Uint16(Stoul(text.port)) # 0 /\ Weight(text) # 0
  BY Zenon DEF LaneOk
<1>7. Uint16(Stoul(text.port)) \in 1..W16-1 /\ Weight(text) \in 1..W32-1
  BY <1>2, <1>3, <1>5, <1>6
<1> QED BY <1>7 DEF LaneOf, ParsedLane

LEMMA SetSets ==
    ASSUME DOMAIN opt = Members, NEW name \in Members, NEW v
    PROVE  /\ DOMAIN Set(name, v) = Members
           /\ Set(name, v)[name] = v
           /\ \A other \in Members \ {name} : Set(name, v)[other] = opt[other]
BY DEF Set

\* An option is read: it is the last one given, the others are where they were.
LEMMA ReadOne ==
    ASSUME given \in Seq(Entry), NEW name, NEW v, [name |-> name, value |-> v] \in Entry,
           given' = Append(given, [name |-> name, value |-> v])
    PROVE  /\ given' \in Seq(Entry)
           /\ GivenFor(name)' = GivenFor(name) \cup {Len(given) + 1}
           /\ given'[Len(given) + 1].value = v
           /\ \A other : other # name => GivenFor(other)' = GivenFor(other)
           /\ \A k \in DOMAIN given : given'[k] = given[k] /\ k <= Len(given) + 1
           /\ Len(given) + 1 \notin DOMAIN given
<1> DEFINE e == [name |-> name, value |-> v]
<1>1. Len(given) \in Nat /\ DOMAIN given = 1..Len(given)
  BY LenProperties
<1>2. /\ given' \in Seq(Entry) /\ Len(given') = Len(given) + 1
      /\ \A i \in 1..Len(given) : given'[i] = given[i]
      /\ given'[Len(given) + 1] = e
  BY AppendProperties
<1>3. DOMAIN given' = 1..Len(given)+1
  BY <1>2, LenProperties
<1>4. e.name = name /\ e.value = v
  OBVIOUS
<1> HIDE DEF e
<1>5. GivenFor(name)' = GivenFor(name) \cup {Len(given) + 1}
  BY <1>1, <1>2, <1>3, <1>4 DEF GivenFor
<1>6. ASSUME NEW other, other # name PROVE GivenFor(other)' = GivenFor(other)
  BY <1>1, <1>2, <1>3, <1>4, <1>6 DEF GivenFor
<1> QED BY <1>1, <1>2, <1>4, <1>5, <1>6

LEMMA ArgsInvInit == ASSUME ArgsInit PROVE ArgsInv
<1>1. /\ DOMAIN opt = Members /\ opt["depth"] = 3 /\ opt["chunk_size"] = 4
      /\ opt["lanes"] = <<>> /\ given = <<>>
  BY Zenon DEF ArgsInit, Members
<1>2. program \in {"send", "recv"} /\ outcome = "parsing"
  BY Zenon DEF ArgsInit
<1>3. \A name : GivenFor(name) = {}
  BY <1>1 DEF GivenFor
<1>4. LastCounts
  BY <1>3 DEF LastCounts
<1>5. LanesAddUp
  BY <1>1, <1>3, FS_EmptySet DEF LanesAddUp
<1>6. Checked
  BY <1>2 DEF Checked
<1> QED BY <1>1, <1>2, <1>4, <1>5, <1>6, WidthAssumption DEF ArgsInv

\* One turn of the loop that sets an option which has one value.
LEMMA SetKeeps ==
    ASSUME ArgsInv,
           NEW name \in NumberOptions \cup StringOptions \cup Flags,
           NEW v, NEW w, Take(name, v, Set(name, w)), outcome = "parsing",
           [name |-> name, value |-> v] \in Entry,
           name \in NumberOptions => v \in Int /\ w = Cast(name, v),
           name \notin NumberOptions => w = v
    PROVE  ArgsInv'
<1>0. name \in Members \ {"lanes"} /\ name # "lane"
  BY Names DEF Members
<1>1. /\ given' = Append(given, [name |-> name, value |-> v]) /\ opt' = Set(name, w)
      /\ UNCHANGED <<program, outcome>>
  BY DEF Take
<1>2. /\ DOMAIN opt' = Members /\ opt'[name] = w
      /\ \A other \in Members \ {name} : opt'[other] = opt[other]
  BY <1>0, <1>1, SetSets DEF ArgsInv
<1>3. /\ given' \in Seq(Entry)
      /\ GivenFor(name)' = GivenFor(name) \cup {Len(given) + 1}
      /\ given'[Len(given) + 1].value = v
      /\ \A other : other # name => GivenFor(other)' = GivenFor(other)
      /\ \A k \in DOMAIN given : given'[k] = given[k] /\ k <= Len(given) + 1
  BY <1>1, ReadOne DEF ArgsInv
<1>4. /\ NumberOptions' = NumberOptions /\ StringOptions' = StringOptions
      /\ \A n, x : Cast(n, x)' = Cast(n, x)
  BY <1>1 DEF NumberOptions, StringOptions, Cast, Stoul, Uint32
<1>5. opt'["depth"] \in 0..W32-1 /\ opt'["chunk_size"] \in 0..W32-1
  <2>1. ASSUME NEW n \in {"depth", "chunk_size"} PROVE opt'[n] \in 0..W32-1
    <3>1. CASE n = name
      <4>1. name \in NumberOptions /\ name # "size"
        BY <2>1, <3>1, Names
      <4> QED BY <1>0, <1>2, <3>1, <4>1, CastFits
    <3>2. CASE n # name
      <4>1. n \in Members
        BY <2>1 DEF Members
      <4> QED BY <1>2, <2>1, <3>2, <4>1 DEF ArgsInv
    <3> QED BY <3>1, <3>2
  <2> QED BY <2>1
<1>6. opt'["lanes"] = opt["lanes"]
  BY <1>0, <1>2 DEF Members
<1>7. LastCounts'
  <2> SUFFICES ASSUME NEW n \in NumberOptions \cup StringOptions,
                      GivenFor(n)' # {}
               PROVE  \E k \in GivenFor(n)' :
                          (\A j \in GivenFor(n)' : j <= k) /\ TakenAs(n, given[k].value)'
    BY <1>4 DEF LastCounts
  <2>1. n \in Members /\ n # "lanes"
    BY Names DEF Members
  <2>2. CASE n = name
    <3>1. Len(given) + 1 \in GivenFor(n)'
      BY <1>3, <2>2
    <3>2. \A j \in GivenFor(n)' : j <= Len(given) + 1
      <4>1. Len(given) \in Nat
        BY LenProperties DEF ArgsInv
      <4> QED BY <1>3, <2>2, <4>1 DEF GivenFor
    <3>3. IF n \in NumberOptions THEN v \in Int /\ opt'[n] = Cast(n, v)
                                 ELSE opt'[n] = v
      BY <1>2, <2>2
    <3> QED BY <1>3, <1>4, <3>1, <3>2, <3>3 DEF TakenAs
  <2>3. CASE n # name
    <3>1. GivenFor(n)' = GivenFor(n)
      BY <1>3, <2>3
    <3>2. PICK k \in GivenFor(n) :
              (\A j \in GivenFor(n) : j <= k) /\ TakenAs(n, given[k].value)
      BY <3>1 DEF ArgsInv, LastCounts
    <3>3. given'[k] = given[k] /\ opt'[n] = opt[n]
      BY <1>2, <1>3, <2>1, <2>3 DEF GivenFor
    <3>4. TakenAs(n, given[k].value)'
      BY <1>4, <3>2, <3>3 DEF TakenAs
    <3> QED BY <3>1, <3>2, <3>4
  <2> QED BY <2>2, <2>3
<1>8. /\ GivenFor("lane")' = GivenFor("lane")
      /\ \A k \in GivenFor("lane") : given'[k] = given[k]
      /\ \A k : Position(k)' = Position(k)
      /\ \A text : LaneOf(text)' = LaneOf(text)
  <2>1. GivenFor("lane")' = GivenFor("lane")
    BY <1>0, <1>3
  <2>2. \A k \in GivenFor("lane") : given'[k] = given[k]
    BY <1>3 DEF GivenFor
  <2>3. \A k : Position(k)' = Position(k)
    BY <2>1 DEF Position
  <2>4. \A text : LaneOf(text)' = LaneOf(text)
    BY <1>1 DEF LaneOf, Weight
  <2> QED BY <2>1, <2>2, <2>3, <2>4
<1>9. program' \in {"send", "recv"} /\ opt'["lanes"] \in Seq(ParsedLane)
  BY <1>1, <1>6 DEF ArgsInv
<1>10. LanesAddUp' /\ Checked'
  <2>1. LanesAddUp'
    BY <1>6, <1>8 DEF ArgsInv, LanesAddUp
  <2> QED BY <1>1, <2>1 DEF Checked
<1> QED BY <1>2, <1>3, <1>5, <1>7, <1>9, <1>10 DEF ArgsInv

\* A lane is added.
LEMMA LaneKeeps ==
    ASSUME ArgsInv, NEW text \in LaneTexts, LaneOk(text),
           outcome = "parsing",
           Take("lane", text, Set("lanes", Append(opt.lanes, LaneOf(text))))
    PROVE  ArgsInv'
<1>1. /\ given' = Append(given, [name |-> "lane", value |-> text])
      /\ opt' = Set("lanes", Append(opt["lanes"], LaneOf(text)))
      /\ UNCHANGED <<program, outcome>>
  BY DEF Take
<1>2. /\ DOMAIN opt' = Members /\ opt'["lanes"] = Append(opt["lanes"], LaneOf(text))
      /\ \A other \in Members \ {"lanes"} : opt'[other] = opt[other]
  <2>1. "lanes" \in Members /\ DOMAIN opt = Members
    BY DEF Members, ArgsInv
  <2> QED BY <1>1, <2>1 DEF Set
<1>3. /\ given' \in Seq(Entry)
      /\ GivenFor("lane")' = GivenFor("lane") \cup {Len(given) + 1}
      /\ \A other : other # "lane" => GivenFor(other)' = GivenFor(other)
      /\ \A k \in DOMAIN given : given'[k] = given[k] /\ k <= Len(given) + 1
      /\ given'[Len(given) + 1].value = text
      /\ Len(given) + 1 \notin DOMAIN given
  <2>1. [name |-> "lane", value |-> text] \in Entry
    BY DEF Entry
  <2> QED BY <1>1, <2>1, ReadOne DEF ArgsInv
<1>4. /\ NumberOptions' = NumberOptions /\ StringOptions' = StringOptions
      /\ \A n, x : Cast(n, x)' = Cast(n, x)
  BY <1>1 DEF NumberOptions, StringOptions, Cast, Stoul, Uint32
<1>5. LastCounts'
  <2> SUFFICES ASSUME NEW n \in NumberOptions \cup StringOptions,
                      GivenFor(n)' # {}
               PROVE  \E k \in GivenFor(n)' :
                          (\A j \in GivenFor(n)' : j <= k) /\ TakenAs(n, given[k].value)'
    BY <1>4 DEF LastCounts
  <2>1. n \in Members \ {"lanes"} /\ n # "lane"
    BY Names DEF Members
  <2>2. GivenFor(n)' = GivenFor(n)
    BY <1>3, <2>1
  <2>3. PICK k \in GivenFor(n) :
            (\A j \in GivenFor(n) : j <= k) /\ TakenAs(n, given[k].value)
    BY <2>2 DEF ArgsInv, LastCounts
  <2>4. given'[k] = given[k] /\ opt'[n] = opt[n]
    BY <1>2, <1>3, <2>1 DEF GivenFor
  <2>5. TakenAs(n, given[k].value)'
    BY <1>4, <2>3, <2>4 DEF TakenAs
  <2> QED BY <2>2, <2>3, <2>5
<1>6. opt'["depth"] = opt["depth"] /\ opt'["chunk_size"] = opt["chunk_size"]
  BY <1>2 DEF Members
<1>7. opt'["lanes"] \in Seq(ParsedLane) /\ Len(opt'["lanes"]) = Len(opt["lanes"]) + 1
  <2>1. LaneOf(text) \in ParsedLane
    BY LaneFits
  <2> QED BY <1>2, <2>1, AppendProperties DEF ArgsInv
<1>8. /\ IsFiniteSet(GivenFor("lane")')
      /\ Cardinality(GivenFor("lane")') = Cardinality(GivenFor("lane")) + 1
  <2>1. Len(given) + 1 \notin GivenFor("lane")
    BY <1>3 DEF GivenFor
  <2>2. IsFiniteSet(GivenFor("lane"))
    BY DEF ArgsInv, LanesAddUp
  <2> QED BY <1>3, <2>1, <2>2, FS_AddElement
<1>9. /\ program' \in {"send", "recv"}
      /\ opt'["depth"] \in 0..W32-1 /\ opt'["chunk_size"] \in 0..W32-1
  BY <1>1, <1>6 DEF ArgsInv
<1>10. ASSUME NEW k \in GivenFor("lane")'
       PROVE  /\ Position(k)' \in 1..Len(opt'["lanes"])
              /\ given'[k].value \in LaneTexts
              /\ opt'["lanes"][Position(k)'] = LaneOf(given'[k].value)
  <2> DEFINE new == Len(given) + 1
             old == GivenFor("lane")
  <2>1. /\ new \in Nat /\ \A j \in old : j \in DOMAIN given /\ j \in Nat /\ j < new
        /\ old \cup {new} = GivenFor("lane")'
    <3>1. Len(given) \in Nat /\ DOMAIN given = 1..Len(given)
      BY LenProperties DEF ArgsInv
    <3> QED BY <1>3, <3>1 DEF GivenFor
  <2>2. /\ Len(opt["lanes"]) \in Nat
        /\ \A i \in 1..Len(opt["lanes"]) : opt'["lanes"][i] = opt["lanes"][i]
        /\ opt'["lanes"][Len(opt["lanes"]) + 1] = LaneOf(text)
    <3>1. LaneOf(text) \in ParsedLane
      BY LaneFits
    <3> QED BY <1>2, <3>1, AppendProperties, LenProperties DEF ArgsInv
  <2> HIDE DEF new
  <2>4. CASE k = new
    <3>1. {j \in GivenFor("lane")' : j <= k} = GivenFor("lane")'
      BY <2>1, <2>4
    <3>2. Position(k)' = Len(opt["lanes"]) + 1
      BY <1>8, <3>1 DEF Position, ArgsInv, LanesAddUp
    <3>3. given'[k].value = text
      BY <1>3, <2>4 DEF new
    <3> QED BY <1>7, <2>2, <3>2, <3>3
  <2>5. CASE k # new
    <3>1. k \in old
      BY <2>1, <2>5
    <3>2. {j \in GivenFor("lane")' : j <= k} = {j \in old : j <= k}
      BY <2>1, <3>1
    <3>3. Position(k)' = Position(k)
      BY <3>2 DEF Position
    <3>4. given'[k] = given[k]
      BY <1>3, <2>1, <3>1
    <3>5. /\ Position(k) \in 1..Len(opt["lanes"]) /\ given[k].value \in LaneTexts
          /\ opt["lanes"][Position(k)] = LaneOf(given[k].value)
      BY <3>1 DEF ArgsInv, LanesAddUp
    <3> QED BY <1>7, <2>2, <3>3, <3>4, <3>5
  <2> QED BY <2>4, <2>5
<1>11. LanesAddUp' /\ Checked'
  <2>1. \A t : LaneOf(t)' = LaneOf(t)
    BY <1>1 DEF LaneOf, Weight
  <2>2. Len(opt'["lanes"]) = Cardinality(GivenFor("lane")')
    BY <1>7, <1>8 DEF ArgsInv, LanesAddUp
  <2>3. LanesAddUp'
    BY <1>8, <1>10, <2>1, <2>2 DEF LanesAddUp
  <2> QED BY <1>1, <2>3 DEF Checked
<1> QED BY <1>2, <1>3, <1>5, <1>7, <1>8, <1>9, <1>11 DEF ArgsInv

\* The loop ends, or reads something that leaves the options alone.
LEMMA VerdictOnArgs ==
    ASSUME ArgsInv, UNCHANGED <<program, given, opt>>,
           outcome' \in {"accepted", "started"} =>
               /\ ~Fails("depth") /\ ~Fails("chunk_size") /\ ~Fails("lane")
               /\ ~Fails("engine") /\ ~Fails("source") /\ ~Fails("size")
    PROVE  ArgsInv'
<1>1. /\ NumberOptions' = NumberOptions /\ StringOptions' = StringOptions
      /\ \A n, x : Cast(n, x)' = Cast(n, x)
      /\ \A n : GivenFor(n)' = GivenFor(n)
  BY DEF NumberOptions, StringOptions, Cast, Stoul, Uint32,
         GivenFor
<1>2. LastCounts'
  BY <1>1 DEF ArgsInv, LastCounts, TakenAs
<1>3. Checked'
  BY DEF Checked, Fails
<1>4. LanesAddUp'
  <2>1. /\ \A k : Position(k)' = Position(k)
        /\ \A text : LaneOf(text)' = LaneOf(text)
    BY <1>1 DEF Position, LaneOf, Weight
  <2> QED BY <1>1, <2>1 DEF ArgsInv, LanesAddUp
<1> QED BY <1>2, <1>3, <1>4 DEF ArgsInv

LEMMA ArgsInvNext == ASSUME ArgsInv, [ArgsNext]_argVars PROVE ArgsInv'
<1>1. CASE UNCHANGED argVars
  BY <1>1, VerdictOnArgs DEF argVars, ArgsInv, Checked
<1>2. ASSUME NEW name, Refuse(name) PROVE ArgsInv'
  <2>1. UNCHANGED <<program, given, opt>> /\ outcome' = "refused"
    BY <1>2 DEF Refuse
  <2> QED BY <2>1, VerdictOnArgs
<1>3. ASSUME NEW name \in NumberOptions, NEW v \in Numbers, outcome = "parsing",
             Take(name, v, Set(name, Cast(name, v)))
      PROVE  ArgsInv'
  <2>1. [name |-> name, value |-> v] \in Entry
    BY Names DEF Entry, Members
  <2>2. v \in Int
    BY NumbersAssumption
  <2> QED BY <1>3, <2>1, <2>2, SetKeeps
<1>4. ASSUME NEW name \in StringOptions, NEW v \in Strings[name], outcome = "parsing",
             Take(name, v, Set(name, v))
      PROVE  ArgsInv'
  <2>1. name \in Members /\ name \notin NumberOptions
    BY Names DEF Members
  <2>2. [name |-> name, value |-> v] \in Entry
    BY <2>1 DEF Entry
  <2> QED BY <1>4, <2>1, <2>2, SetKeeps
<1>5. ASSUME NEW name \in Flags, outcome = "parsing",
             Take(name, TRUE, Set(name, TRUE))
      PROVE  ArgsInv'
  <2>1. name \in Members /\ name \notin NumberOptions
    BY Names DEF Members
  <2>2. [name |-> name, value |-> TRUE] \in Entry
    BY <2>1 DEF Entry
  <2> QED BY <1>5, <2>1, <2>2, SetKeeps
<1>6. CASE ReadNumber
  BY <1>2, <1>3, <1>6 DEF ReadNumber, More
<1>7. CASE ReadString
  BY <1>4, <1>7 DEF ReadString, More
<1>8. CASE ReadFlag
  BY <1>5, <1>8 DEF ReadFlag, More
<1>9. CASE ReadLane
  BY <1>2, <1>9, LaneKeeps DEF ReadLane, More
<1>10. CASE ReadOther
  BY <1>2, <1>10 DEF ReadOther
<1>11. CASE ReadHelp
  BY <1>11, VerdictOnArgs DEF ReadHelp
<1>12. CASE Check
  <2>1. CASE \E k \in DOMAIN Checks : Refuse(Checks[k])
    BY <1>2, <2>1
  <2>2. CASE /\ \A k \in DOMAIN Checks : ~Fails(Checks[k])
             /\ UNCHANGED <<program, given, opt>>
    <3>1. /\ DOMAIN Checks = 1..9
          /\ Checks[5] = "lane" /\ Checks[6] = "chunk_size"
          /\ Checks[7] = "depth" /\ Checks[9] = "engine"
          /\ Checks[1] = "source" /\ Checks[3] = "size"
      BY DEF Checks
    <3>2. /\ ~Fails("depth") /\ ~Fails("chunk_size") /\ ~Fails("lane")
          /\ ~Fails("engine") /\ ~Fails("source") /\ ~Fails("size")
      BY <2>2, <3>1
    <3> QED BY <2>2, <3>2, VerdictOnArgs
  <2> QED BY <1>12, <2>1, <2>2 DEF Check
<1>13. CASE Main
  <2>1. UNCHANGED <<program, given, opt>> /\ outcome = "accepted"
    BY <1>13 DEF Main, Refuse
  <2> QED BY <2>1, VerdictOnArgs DEF ArgsInv, Checked
<1>14. CASE Ended
  BY <1>1, <1>14 DEF Ended
<1> QED BY <1>1, <1>6, <1>7, <1>8, <1>9, <1>10, <1>11, <1>12, <1>13, <1>14 DEF ArgsNext

LEMMA ArgsInvariance == ArgsSpec => []ArgsInv
<1>1. ArgsInit => ArgsInv
  BY ArgsInvInit
<1>2. ArgsInv /\ [ArgsNext]_argVars => ArgsInv'
  BY ArgsInvNext
<1> QED BY <1>1, <1>2, PTL DEF ArgsSpec

\* A program that starts has a window, a chunk, lanes, weights and ports that
\* are not zero and fit their types, whatever it was given.
THEOREM StartsUsable == ArgsSpec => []OptionsUsable
<1>1. ASSUME ArgsInv PROVE OptionsUsable
  <2> SUFFICES ASSUME outcome \in {"accepted", "started"}
               PROVE  /\ opt["depth"] \in 1..W32-1 /\ opt["chunk_size"] \in 1..W32-1
                      /\ opt["lanes"] # <<>>
                      /\ \A l \in DOMAIN opt["lanes"] :
                             /\ opt["lanes"][l].port \in 1..W16-1
                             /\ opt["lanes"][l].weight \in 1..W32-1
                      /\ opt["engine"] = "rma" =>
                             /\ opt["verify"] = "none"
                             /\ IF program = "send"
                                  THEN opt["source"] = "zero" /\ opt["size"] # 0
                                  ELSE opt["sink"]
    BY DEF OptionsUsable
  <2>1. ~Fails("depth") /\ ~Fails("chunk_size") /\ ~Fails("lane")
    BY <1>1 DEF ArgsInv, Checked
  <2>2. opt["depth"] # 0 /\ opt["chunk_size"] # 0 /\ opt["lanes"] # <<>>
    BY <2>1, Zenon DEF Fails
  <2>3. opt["depth"] \in 0..W32-1 /\ opt["chunk_size"] \in 0..W32-1
    BY <1>1 DEF ArgsInv
  <2>4. \A l \in DOMAIN opt["lanes"] : opt["lanes"][l] \in ParsedLane
    BY <1>1, LenProperties DEF ArgsInv
  <2>5. opt["depth"] \in 1..W32-1 /\ opt["chunk_size"] \in 1..W32-1
    BY <2>2, <2>3
  <2>6. opt["engine"] = "rma" =>
           /\ opt["verify"] = "none"
           /\ IF program = "send" THEN opt["source"] = "zero" /\ opt["size"] # 0
                                 ELSE opt["sink"]
    <3>1. ~Fails("engine") /\ ~Fails("size") /\ program \in {"send", "recv"}
      BY <1>1 DEF ArgsInv, Checked
    <3> QED BY <3>1, Zenon DEF Fails
  <2> QED BY <2>2, <2>4, <2>5, <2>6 DEF ParsedLane
<1> QED BY <1>1, ArgsInvariance, PTL

\* The last value of an option is the one that counts, and a number that fits
\* its type is taken as it is; lanes add up in the order given, with the ports
\* and weights given.
THEOREM TakenAsGiven == ArgsSpec => []AsGiven
<1>1. ASSUME ArgsInv PROVE AsGiven
  <2>1. ASSUME NEW name \in NumberOptions \cup StringOptions,
               GivenFor(name) # {},
               \/ name \in StringOptions
               \/ given[Last(GivenFor(name))].value \in 0..Width(name)-1
        PROVE  opt[name] = given[Last(GivenFor(name))].value
    <3>1. PICK k \in GivenFor(name) :
              (\A j \in GivenFor(name) : j <= k) /\ TakenAs(name, given[k].value)
      BY <1>1, <2>1 DEF ArgsInv, LastCounts
    <3>2. Last(GivenFor(name)) = k
      <4>1. \A j \in GivenFor(name) : j \in Int
        BY <1>1, LenProperties DEF ArgsInv, GivenFor
      <4> QED BY <3>1, <4>1 DEF Last
    <3>3. CASE name \in NumberOptions
      <4>1. name \notin StringOptions
        BY <3>3, Names
      <4> QED BY <2>1, <3>1, <3>2, <3>3, <4>1, CastFits DEF TakenAs
    <3>4. CASE name \notin NumberOptions
      BY <3>1, <3>2, <3>4 DEF TakenAs
    <3> QED BY <3>3, <3>4
  <2>2. Len(opt["lanes"]) = Cardinality(GivenFor("lane"))
    BY <1>1 DEF ArgsInv, LanesAddUp, Cardinality, Cardinality
  <2>3. ASSUME NEW k \in GivenFor("lane")
        PROVE  /\ given[k].value.port \in 0..W16-1
                      => opt["lanes"][Position(k)].port = given[k].value.port
               /\ program = "send" /\ given[k].value.weight \in 0..W32-1
                      => opt["lanes"][Position(k)].weight = given[k].value.weight
    <3>1. /\ given[k].value \in LaneTexts
          /\ opt["lanes"][Position(k)] = LaneOf(given[k].value)
      BY <1>1 DEF ArgsInv, LanesAddUp
    <3> QED BY <3>1, LaneAsGiven
  <2> QED BY <2>1, <2>2, <2>3 DEF AsGiven
<1> QED BY <1>1, ArgsInvariance, PTL
=============================================================================
