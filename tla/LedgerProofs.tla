---------------------------- MODULE LedgerProofs ----------------------------
(***************************************************************************)
(* What is counted and recorded, for every value of the constants: the     *)
(* audit chain, the ledger of budgets and the quotas.                      *)
(*                                                                         *)
(* Totals: the fold over a set that the models use is the recursive        *)
(* function one expects, and does not depend on the order of the members.  *)
(* A family of finite sets has a smallest member, and the smallest set for *)
(* which a claim fails stands for induction.                               *)
(*                                                                         *)
(* Audit chain: two appends that were never in flight together are ordered *)
(* by their timestamps, so the latest event an append reads is its         *)
(* predecessor. Budgets: who holds the row has compared its amount with    *)
(* the row as it is, and every grant adds its amount to the total. Quotas: *)
(* the counters move together, but for what was spent over estimate; a     *)
(* token that is settled leaves the total it is in or joins that of the    *)
(* tokens given back for nothing.                                          *)
(***************************************************************************)
EXTENDS AuditChain, BudgetLedger, SpendQuota, FiniteSetTheorems, WellFoundedInduction, TLAPS

\* What A is for the members of S, added up.
Total(A, S) == MapThenSumSet(LAMBDA x : A[x], S)

\* The member of s that is added first.
First(s) == CHOOSE x \in s : TRUE

\* g holds the totals of A over the subsets of S.
IsTotals(g, A, S) == g = [s \in SUBSET S |-> IF s = {} THEN 0 ELSE A[First(s)] + g[s \ {First(s)}]]

\* Such a function, which the fold evaluates.
Totals(A, S) == CHOOSE g : IsTotals(g, A, S)

\* A set of finite sets has one that includes no other: what induction over sets rests on.
LEMMA SmallestSet ==
    ASSUME NEW S, NEW T, T \subseteq FiniteSubsetsOf(S), T # {}
    PROVE  \E x \in T : \A y \in T : ~ (y \subseteq x /\ y # x)
<1>1. \E x \in T : \A y \in T : ~ (<<y, x>> \in StrictSubsetOrdering(S))
  BY FS_StrictSubsetOrderingWellFounded, WFMin
<1> QED BY <1>1 DEF StrictSubsetOrdering, FiniteSubsetsOf

\* The fold is the recursive function.
LEMMA TotalIsTotals == \A A, S : Total(A, S) = Totals(A, S)[S]
  BY Zenon DEF Total, Totals, IsTotals, MapThenSumSet, MapThenFoldSet, First

\* A set that is not empty loses its first member.
LEMMA FirstIn == \A s : s # {} => First(s) \in s /\ s \ {First(s)} \subseteq s /\ s \ {First(s)} # s
<1> SUFFICES ASSUME NEW s, s # {} PROVE First(s) \in s
  OBVIOUS
<1> QED BY DEF First

\* What such a function holds.
LEMMA TotalsHold ==
    ASSUME NEW A, NEW S, NEW g, IsTotals(g, A, S), NEW s \in SUBSET S
    PROVE  g[s] = IF s = {} THEN 0 ELSE A[First(s)] + g[s \ {First(s)}]
  BY DEF IsTotals

\* Two such functions agree where they are both defined.
LEMMA TotalsAgree ==
    ASSUME NEW A, NEW U, NEW V, IsFiniteSet(U), NEW g, NEW h, IsTotals(g, A, U), IsTotals(h, A, V)
    PROVE  \A s \in SUBSET (U \cap V) : g[s] = h[s]
<1> DEFINE T == {s \in SUBSET (U \cap V) : g[s] # h[s]}
<1> SUFFICES ASSUME T # {} PROVE FALSE
  OBVIOUS
<1>1. T \subseteq FiniteSubsetsOf(U)
  <2>1. \A s \in SUBSET U : IsFiniteSet(s)
    BY FS_Subset
  <2> QED BY <2>1 DEF FiniteSubsetsOf
<1> HIDE DEF T
<1>2. PICK s \in T : \A y \in T : ~ (y \subseteq s /\ y # s)
  BY <1>1, SmallestSet
<1>0. s \in SUBSET U /\ s \in SUBSET V /\ g[s] # h[s]
  BY DEF T
<1>3. g[s] = IF s = {} THEN 0 ELSE A[First(s)] + g[s \ {First(s)}]
  BY <1>0 DEF IsTotals
<1>4. h[s] = IF s = {} THEN 0 ELSE A[First(s)] + h[s \ {First(s)}]
  BY <1>0 DEF IsTotals
<1>5. s # {}
  BY <1>0, <1>3, <1>4
<1>6. g[s \ {First(s)}] = h[s \ {First(s)}]
  BY <1>0, <1>2, <1>5, FirstIn DEF T
<1> QED BY <1>0, <1>3, <1>4, <1>5, <1>6

\* There is such a function for every finite set.
LEMMA TotalsExist ==
    ASSUME NEW A, NEW S, IsFiniteSet(S)
    PROVE  IsTotals(Totals(A, S), A, S)
<1> DEFINE T == {s \in SUBSET S : ~ IsTotals(Totals(A, s), A, s)}
<1>1. T \subseteq FiniteSubsetsOf(S)
  <2>1. \A s \in SUBSET S : IsFiniteSet(s)
    BY FS_Subset
  <2> QED BY <2>1 DEF FiniteSubsetsOf
<1> SUFFICES ASSUME T # {} PROVE FALSE
  OBVIOUS
<1> HIDE DEF T
<1>2. PICK U \in T : \A y \in T : ~ (y \subseteq U /\ y # U)
  BY <1>1, SmallestSet
<1> USE DEF T
<1>3. \A s : s \subseteq U /\ s # U => IsTotals(Totals(A, s), A, s) /\ IsFiniteSet(s)
  BY <1>1, <1>2, FS_Subset DEF FiniteSubsetsOf
<1> DEFINE h(s) == Totals(A, s)[s]
           g == [s \in SUBSET U |-> IF s = {} THEN 0 ELSE A[First(s)] + h(s \ {First(s)})]
<1>4. ASSUME NEW s, s \subseteq U, s # U PROVE g[s] = h(s)
  <2>1. IsTotals(Totals(A, s), A, s)
    BY <1>3, <1>4
  <2>2. h(s) = IF s = {} THEN 0 ELSE A[First(s)] + Totals(A, s)[s \ {First(s)}]
    BY <2>1, TotalsHold
  <2>3. CASE s = {}
    BY <1>4, <2>2, <2>3
  <2>4. CASE s # {}
    <3> DEFINE r == s \ {First(s)}
    <3>1. r \subseteq s /\ r \subseteq U /\ r # U
      BY <1>4, <2>4, FirstIn
    <3>2. IsTotals(Totals(A, r), A, r) /\ IsFiniteSet(s)
      BY <1>3, <1>4, <3>1
    <3>3. r \in SUBSET (s \cap r)
      BY <3>1
    <3> HIDE DEF r
    <3>4. Totals(A, s)[r] = Totals(A, r)[r]
      BY <2>1, <3>2, <3>3, TotalsAgree
    <3> USE DEF r
    <3> QED BY <1>4, <2>2, <2>4, <3>4
  <2> QED BY <2>3, <2>4
<1>5. \A s \in SUBSET U : s # {} => g[s \ {First(s)}] = h(s \ {First(s)})
  BY <1>4, FirstIn
<1>6. IsTotals(g, A, U)
  <2> HIDE DEF h
  <2>1. \A s \in SUBSET U : g[s] = IF s = {} THEN 0 ELSE A[First(s)] + g[s \ {First(s)}]
    BY <1>5
  <2>2. g = [s \in SUBSET U |-> g[s]]
    OBVIOUS
  <2> HIDE DEF g
  <2> QED BY <2>1, <2>2 DEF IsTotals
<1> HIDE DEF g
<1>7. IsTotals(Totals(A, U), A, U)
  BY <1>6 DEF Totals
<1> QED BY <1>2, <1>7

\* A total is that of its first member and that of the others.
LEMMA TotalUnfolds ==
    ASSUME NEW A, NEW S, IsFiniteSet(S)
    PROVE  Total(A, S) = IF S = {} THEN 0 ELSE A[First(S)] + Total(A, S \ {First(S)})
<1>1. Totals(A, S)[S] = IF S = {} THEN 0 ELSE A[First(S)] + Totals(A, S)[S \ {First(S)}]
  BY TotalsExist, TotalsHold
<1>2. ASSUME S # {} PROVE Totals(A, S)[S \ {First(S)}] = Totals(A, S \ {First(S)})[S \ {First(S)}]
  <2>1. PICK r : r = S \ {First(S)}
    OBVIOUS
  <2>2. IsFiniteSet(r) /\ r \in SUBSET (S \cap r)
    BY <2>1, FS_Subset
  <2>3. IsTotals(Totals(A, S), A, S) /\ IsTotals(Totals(A, r), A, r)
    BY <2>2, TotalsExist
  <2> QED BY <2>1, <2>2, <2>3, TotalsAgree
<1> QED BY <1>1, <1>2, TotalIsTotals

\* A total of integers is an integer.
LEMMA TotalIsInt ==
    ASSUME NEW A, NEW S, IsFiniteSet(S), \A x \in S : A[x] \in Int
    PROVE  Total(A, S) \in Int
<1> DEFINE T == {s \in SUBSET S : Total(A, s) \notin Int}
<1>1. T \subseteq FiniteSubsetsOf(S)
  <2>1. \A s \in SUBSET S : IsFiniteSet(s)
    BY FS_Subset
  <2> QED BY <2>1 DEF FiniteSubsetsOf
<1> SUFFICES ASSUME T # {} PROVE FALSE
  OBVIOUS
<1> HIDE DEF T
<1>2. PICK U \in T : \A y \in T : ~ (y \subseteq U /\ y # U)
  BY <1>1, SmallestSet
<1>3. U \subseteq S /\ IsFiniteSet(U) /\ Total(A, U) \notin Int
  BY <1>1 DEF T, FiniteSubsetsOf
<1>4. Total(A, U) = IF U = {} THEN 0 ELSE A[First(U)] + Total(A, U \ {First(U)})
  BY <1>3, TotalUnfolds
<1>5. U # {} => Total(A, U \ {First(U)}) \in Int /\ A[First(U)] \in Int
  BY <1>2, <1>3, FirstIn DEF T
<1> QED BY <1>3, <1>4, <1>5

\* Nor is a total of natural numbers negative.
LEMMA TotalIsNat ==
    ASSUME NEW A, NEW S, IsFiniteSet(S), \A x \in S : A[x] \in Nat
    PROVE  Total(A, S) \in Nat
<1> DEFINE T == {s \in SUBSET S : Total(A, s) \notin Nat}
<1>1. T \subseteq FiniteSubsetsOf(S)
  <2>1. \A s \in SUBSET S : IsFiniteSet(s)
    BY FS_Subset
  <2> QED BY <2>1 DEF FiniteSubsetsOf
<1> SUFFICES ASSUME T # {} PROVE FALSE
  OBVIOUS
<1> HIDE DEF T
<1>2. PICK U \in T : \A y \in T : ~ (y \subseteq U /\ y # U)
  BY <1>1, SmallestSet
<1>3. U \subseteq S /\ IsFiniteSet(U) /\ Total(A, U) \notin Nat
  BY <1>1 DEF T, FiniteSubsetsOf
<1>4. Total(A, U) = IF U = {} THEN 0 ELSE A[First(U)] + Total(A, U \ {First(U)})
  BY <1>3, TotalUnfolds
<1>5. U # {} => Total(A, U \ {First(U)}) \in Nat /\ A[First(U)] \in Nat
  BY <1>2, <1>3, FirstIn DEF T
<1> QED BY <1>3, <1>4, <1>5

\* A total grows by what a new member is, in whatever order the members are added.
LEMMA TotalAdds ==
    ASSUME NEW A, NEW S, IsFiniteSet(S), NEW a, a \notin S, \A x \in S \cup {a} : A[x] \in Int
    PROVE  Total(A, S \cup {a}) = Total(A, S) + A[a]
<1> DEFINE Adds(s, x) == Total(A, s \cup {x}) = Total(A, s) + A[x]
           R == S \cup {a}
           T == {s \in SUBSET R : \E x \in R \ s : ~ Adds(s, x)}
<1>1. IsFiniteSet(R) /\ \A s \in SUBSET R : IsFiniteSet(s)
  BY FS_AddElement, FS_Subset
<1>2. T \subseteq FiniteSubsetsOf(R)
  BY <1>1 DEF FiniteSubsetsOf
<1> SUFFICES ASSUME T # {} PROVE FALSE
  OBVIOUS
<1> HIDE DEF T
<1>3. PICK U \in T : \A y \in T : ~ (y \subseteq U /\ y # U)
  BY <1>2, SmallestSet
<1>4. PICK x \in R \ U : ~ Adds(U, x)
  BY DEF T
<1>5. U \subseteq R /\ \A y : y \subseteq U /\ y # U => \A z \in R \ y : Adds(y, z)
  BY <1>3 DEF T
<1> HIDE DEF R
<1> DEFINE V == U \cup {x}
           f == First(V)
<1>6. V \subseteq R /\ V # {} /\ f \in V /\ A[f] \in Int /\ A[x] \in Int
  BY <1>5, FirstIn DEF R
<1>7. Total(A, V) = A[f] + Total(A, V \ {f})
  BY <1>1, <1>6, TotalUnfolds
<1>8. \A s \in SUBSET R : Total(A, s) \in Int
  BY <1>1, TotalIsInt DEF R
<1>9. CASE f = x
  <2>1. V \ {f} = U
    BY <1>9
  <2>2. Total(A, U) \in Int
    BY <1>5, <1>8
  <2>3. Total(A, V) = A[x] + Total(A, U)
    BY <1>7, <1>9, <2>1
  <2>4. A[x] + Total(A, U) = Total(A, U) + A[x]
    BY <1>6, <2>2
  <2> QED BY <1>4, <2>3, <2>4
<1>10. CASE f # x
  <2> DEFINE W == U \ {f}
  <2>1. f \in U /\ W \subseteq U /\ W # U /\ V \ {f} = W \cup {x} /\ U = W \cup {f} /\ x \in R \ W /\ f \in R \ W
    BY <1>5, <1>6, <1>10
  <2>2. Adds(W, x) /\ Adds(W, f)
    BY <1>5, <2>1
  <2>3. Total(A, W) \in Int
    BY <1>5, <1>8, <2>1
  <2> HIDE DEF W, f
  <2>4. Total(A, V \ {f}) = Total(A, W) + A[x] /\ Total(A, U) = Total(A, W) + A[f]
    BY <2>1, <2>2
  <2> QED BY <1>4, <1>6, <1>7, <2>3, <2>4
<1> QED BY <1>9, <1>10

\* Totals of what is the same on the members are the same.
LEMMA TotalSame ==
    ASSUME NEW A, NEW B, NEW S, IsFiniteSet(S), \A x \in S : A[x] = B[x]
    PROVE  Total(A, S) = Total(B, S)
<1> DEFINE T == {s \in SUBSET S : Total(A, s) # Total(B, s)}
<1>1. T \subseteq FiniteSubsetsOf(S)
  <2>1. \A s \in SUBSET S : IsFiniteSet(s)
    BY FS_Subset
  <2> QED BY <2>1 DEF FiniteSubsetsOf
<1> SUFFICES ASSUME T # {} PROVE FALSE
  OBVIOUS
<1> HIDE DEF T
<1>2. PICK U \in T : \A y \in T : ~ (y \subseteq U /\ y # U)
  BY <1>1, SmallestSet
<1>3. U \subseteq S /\ IsFiniteSet(U) /\ Total(A, U) # Total(B, U)
  BY <1>1 DEF T, FiniteSubsetsOf
<1>4. Total(A, U) = IF U = {} THEN 0 ELSE A[First(U)] + Total(A, U \ {First(U)})
  BY <1>3, TotalUnfolds
<1>5. Total(B, U) = IF U = {} THEN 0 ELSE B[First(U)] + Total(B, U \ {First(U)})
  BY <1>3, TotalUnfolds
<1>6. U # {} => Total(A, U \ {First(U)}) = Total(B, U \ {First(U)}) /\ A[First(U)] = B[First(U)]
  BY <1>2, <1>3, FirstIn DEF T
<1> QED BY <1>3, <1>4, <1>5, <1>6

-----------------------------------------------------------------------------
\* The appends that have taken their time.
AcBegun == {a \in AcAppends : acPhase[a] # "new"}

\* The times that were taken are distinct and lie behind the clock.
AcTimesOrdered ==
    /\ \A a \in AcBegun : acTime[a] <= acNow
    /\ \A a, b \in AcBegun : acTime[a] = acTime[b] => a = b

\* Two appends of which one began while the other was in flight have met: an append knows those
\* before it that are not over, and those after it as long as it is not over itself.
AcMeetingsKept ==
    /\ \A a, b \in AcBegun : acTime[b] < acTime[a] /\ b \in AcInFlight => b \in acMet[a]
    /\ \A a \in AcInFlight, b \in AcBegun : acTime[a] < acTime[b] => b \in acMet[a]

\* The log has a latest event, unless it is empty.
AcLogHasEnd == AcStored # {} => \E a \in AcStored : \A b \in AcStored : acTime[b] <= acTime[a]

\* An append that has read the end of the log, and has met nobody, follows its predecessor.
AcFollows(a) ==
    /\ acPrevious[a] \in AcStored \cup {AcGenesis}
    /\ acMet[a] = {} =>
          IF AcBefore(a) = {} THEN acPrevious[a] = AcGenesis
          ELSE /\ acPrevious[a] \in AcBefore(a)
               /\ \A b \in AcBefore(a) : acTime[b] <= acTime[acPrevious[a]]
\* Every append that has read follows.
AcReadersFollow == \A a \in AcAppends : acPhase[a] \in {"read", "stored"} => AcFollows(a)

\* What every step of the chain keeps.
AcInductive == AcTypeOK /\ AcTimesOrdered /\ AcMeetingsKept /\ AcLogHasEnd /\ AcReadersFollow

\* An append that begins meets all that are in flight.
LEMMA AcBegins ==
    ASSUME AcInductive, NEW a \in AcAppends, AcBegin(a)
    PROVE  AcInductive'
<1> USE DEF AcInductive, AcTypeOK
<1>1. /\ acPhase[a] = "new"
      /\ acPhase' = [acPhase EXCEPT ![a] = "timed"]
      /\ acNow' = acNow + 1
      /\ acTime' = [acTime EXCEPT ![a] = acNow + 1]
      /\ acSecond' = [acSecond EXCEPT ![a] = acClock]
      /\ acMet' = [b \in AcAppends |-> IF b = a THEN AcInFlight
                                       ELSE IF b \in AcInFlight THEN acMet[b] \cup {a} ELSE acMet[b]]
      /\ UNCHANGED <<acPrevious, acClock>>
  BY DEF AcBegin
<1>2. /\ AcBegun' = AcBegun \cup {a} /\ a \notin AcBegun
      /\ AcInFlight' = AcInFlight \cup {a} /\ a \notin AcInFlight
      /\ AcInFlight \subseteq AcBegun
      /\ AcStored' = AcStored /\ a \notin AcStored
  BY <1>1 DEF AcBegun, AcInFlight, AcStored
<1>3. /\ \A b \in AcBegun : acTime'[b] = acTime[b] /\ acTime[b] <= acNow /\ b \in AcAppends
      /\ acTime'[a] = acNow + 1
  BY <1>1, <1>2 DEF AcTimesOrdered, AcBegun
<1>4. AcTypeOK'
  BY <1>1 DEF AcInFlight
<1>5. AcTimesOrdered'
  BY <1>1, <1>2, <1>3 DEF AcTimesOrdered
<1>6. AcMeetingsKept'
  <2>1. ASSUME NEW x \in AcBegun', NEW y \in AcBegun', acTime'[y] < acTime'[x], y \in AcInFlight'
        PROVE  y \in acMet'[x]
    BY <1>1, <1>2, <1>3, <2>1 DEF AcMeetingsKept, AcTimesOrdered
  <2>2. ASSUME NEW x \in AcInFlight', NEW y \in AcBegun', acTime'[x] < acTime'[y]
        PROVE  y \in acMet'[x]
    BY <1>1, <1>2, <1>3, <2>2 DEF AcMeetingsKept, AcTimesOrdered
  <2> QED BY <2>1, <2>2 DEF AcMeetingsKept
<1>7. AcStored \subseteq AcBegun
  BY DEF AcStored, AcBegun
<1>8. AcLogHasEnd'
  BY <1>2, <1>3, <1>7 DEF AcLogHasEnd
<1>9. AcReadersFollow'
  <2> SUFFICES ASSUME NEW x \in AcAppends, acPhase'[x] \in {"read", "stored"} PROVE AcFollows(x)'
    BY DEF AcReadersFollow
  <2>1. /\ x # a /\ acPhase[x] \in {"read", "stored"} /\ x \in AcBegun
        /\ acTime'[x] = acTime[x]
        /\ acMet'[x] = {} => acMet[x] = {}
    BY <1>1, <1>3 DEF AcBegun
  <2>2. AcBefore(x)' = AcBefore(x) /\ AcBefore(x) \subseteq AcBegun
    BY <1>2, <1>3, <1>7, <2>1 DEF AcBefore
  <2>3. AcFollows(x) /\ acPrevious'[x] = acPrevious[x]
    BY <1>1, <2>1 DEF AcReadersFollow
  <2> QED BY <1>2, <1>3, <2>1, <2>2, <2>3 DEF AcFollows
<1> QED BY <1>4, <1>5, <1>6, <1>8, <1>9

\* The latest of the events there are.
LEMMA AcLatestIsLast ==
    ASSUME AcInductive, AcStored # {}
    PROVE  AcLatest(AcStored) \in AcStored /\ \A b \in AcStored : acTime[b] <= acTime[AcLatest(AcStored)]
  BY DEF AcInductive, AcLogHasEnd, AcLatest

\* A read finds the latest event that is stored.
LEMMA AcReads ==
    ASSUME AcInductive, NEW a \in AcAppends, AcRead(a)
    PROVE  AcInductive'
<1> USE DEF AcInductive, AcTypeOK
<1>1. PICK end \in AcStored \cup {AcGenesis} :
          /\ end = IF AcStored = {} THEN AcGenesis ELSE AcLatest(AcStored)
          /\ AcStored # {} => end \in AcStored /\ \A b \in AcStored : acTime[b] <= acTime[end]
  BY AcLatestIsLast
<1>2. /\ acPhase[a] = "timed"
      /\ acPhase' = [acPhase EXCEPT ![a] = "read"]
      /\ acPrevious' = [acPrevious EXCEPT ![a] = end]
      /\ UNCHANGED <<acTime, acSecond, acNow, acClock, acMet>>
  BY <1>1 DEF AcRead
<1>3. /\ AcBegun' = AcBegun /\ AcInFlight' = AcInFlight /\ AcStored' = AcStored
      /\ AcStored \subseteq AcBegun /\ AcStored \subseteq AcAppends
      /\ a \in AcInFlight /\ a \in AcBegun /\ a \notin AcStored
  BY <1>2 DEF AcBegun, AcInFlight, AcStored
<1>4. AcTypeOK'
  BY <1>2, <1>3
<1>5. AcTimesOrdered' /\ AcMeetingsKept' /\ AcLogHasEnd'
  BY <1>2, <1>3 DEF AcTimesOrdered, AcMeetingsKept, AcLogHasEnd
<1>6. AcReadersFollow'
  <2> SUFFICES ASSUME NEW x \in AcAppends, acPhase'[x] \in {"read", "stored"} PROVE AcFollows(x)'
    BY DEF AcReadersFollow
  <2>1. AcBefore(x)' = AcBefore(x)
    BY <1>2, <1>3 DEF AcBefore
  <2>2. CASE x # a
    <3>1. AcFollows(x) /\ acPrevious'[x] = acPrevious[x]
      BY <1>2, <2>2 DEF AcReadersFollow
    <3> QED BY <1>2, <1>3, <2>1, <3>1 DEF AcFollows
  <2>3. CASE x = a
    <3>1. acPrevious'[a] = end
      BY <1>2
    <3>2. acMet[a] = {} => AcBefore(a) = AcStored
      <4> SUFFICES ASSUME acMet[a] = {}, NEW b \in AcStored PROVE acTime[b] < acTime[a]
        BY DEF AcBefore
      <4>1. ~(acTime[a] < acTime[b]) /\ acTime[a] # acTime[b]
        BY <1>3 DEF AcMeetingsKept, AcTimesOrdered
      <4> QED BY <1>3, <4>1
    <3> QED BY <1>1, <1>2, <1>3, <2>1, <2>3, <3>1, <3>2 DEF AcFollows
  <2> QED BY <2>2, <2>3
<1> QED BY <1>4, <1>5, <1>6

\* An event that is stored was in flight: whoever it comes before has met it.
LEMMA AcInserts ==
    ASSUME AcInductive, NEW a \in AcAppends, AcInsert(a)
    PROVE  AcInductive'
<1> USE DEF AcInductive, AcTypeOK
<1>1. /\ acPhase[a] = "read"
      /\ acPhase' = [acPhase EXCEPT ![a] = "stored"]
      /\ UNCHANGED <<acTime, acSecond, acPrevious, acNow, acClock, acMet>>
  BY DEF AcInsert
<1>2. /\ AcBegun' = AcBegun /\ AcInFlight' = AcInFlight \ {a} /\ AcStored' = AcStored \cup {a}
      /\ AcStored \subseteq AcBegun /\ AcBegun \subseteq AcAppends
      /\ a \in AcInFlight /\ a \in AcBegun /\ a \notin AcStored
  BY <1>1 DEF AcBegun, AcInFlight, AcStored
<1>3. AcTypeOK'
  BY <1>1
<1>4. AcTimesOrdered' /\ AcMeetingsKept'
  BY <1>1, <1>2 DEF AcTimesOrdered, AcMeetingsKept
<1>5. AcLogHasEnd'
  <2>1. CASE AcStored = {}
    BY <1>1, <1>2, <2>1 DEF AcLogHasEnd
  <2>2. CASE AcStored # {}
    <3>1. PICK e \in AcStored : \A b \in AcStored : acTime[b] <= acTime[e]
      BY <2>2 DEF AcLogHasEnd
    <3>2. CASE acTime[a] <= acTime[e]
      BY <1>1, <1>2, <3>1, <3>2 DEF AcLogHasEnd
    <3>3. CASE acTime[e] < acTime[a]
      BY <1>1, <1>2, <3>1, <3>3 DEF AcLogHasEnd
    <3>4. e \in AcAppends
      BY <1>2
    <3> QED BY <3>2, <3>3, <3>4
  <2> QED BY <2>1, <2>2
<1>6. AcReadersFollow'
  <2> SUFFICES ASSUME NEW x \in AcAppends, acPhase'[x] \in {"read", "stored"} PROVE AcFollows(x)'
    BY DEF AcReadersFollow
  <2>1. acPhase[x] \in {"read", "stored"} /\ x \in AcBegun /\ AcFollows(x)
    BY <1>1 DEF AcBegun, AcReadersFollow
  <2>2. acMet[x] = {} => ~(acTime[a] < acTime[x])
    BY <1>2, <2>1 DEF AcMeetingsKept
  <2>3. acMet[x] = {} => AcBefore(x)' = AcBefore(x)
    BY <1>1, <1>2, <2>2 DEF AcBefore
  <2>4. acPrevious'[x] = acPrevious[x] /\ acMet'[x] = acMet[x] /\ acTime' = acTime
    BY <1>1
  <2>5. acPrevious[x] \in AcStored' \cup {AcGenesis}
    BY <1>2, <2>1 DEF AcFollows
  <2>6. CASE acMet[x] = {}
    BY <2>1, <2>3, <2>4, <2>5, <2>6 DEF AcFollows
  <2>7. CASE acMet[x] # {}
    BY <2>4, <2>5, <2>7 DEF AcFollows
  <2> QED BY <2>6, <2>7
<1> QED BY <1>3, <1>4, <1>5, <1>6

\* An append that fails leaves the log as it was.
LEMMA AcLoses ==
    ASSUME AcInductive, NEW a \in AcAppends, AcLose(a)
    PROVE  AcInductive'
<1> USE DEF AcInductive, AcTypeOK
<1>1. /\ acPhase[a] \in {"timed", "read"}
      /\ acPhase' = [acPhase EXCEPT ![a] = "lost"]
      /\ UNCHANGED <<acTime, acSecond, acPrevious, acNow, acClock, acMet>>
  BY DEF AcLose
<1>2. AcBegun' = AcBegun /\ AcInFlight' = AcInFlight \ {a} /\ AcStored' = AcStored
  BY <1>1 DEF AcBegun, AcInFlight, AcStored
<1>3. AcTypeOK'
  BY <1>1
<1>4. AcTimesOrdered' /\ AcMeetingsKept' /\ AcLogHasEnd'
  BY <1>1, <1>2 DEF AcTimesOrdered, AcMeetingsKept, AcLogHasEnd
<1>5. AcReadersFollow'
  BY <1>1, <1>2 DEF AcReadersFollow, AcFollows, AcBefore
<1> QED BY <1>3, <1>4, <1>5

\* Appends follow the log unless they met another, in every state.
LEMMA AcInvariant == AcSpec => []AcInductive
<1>1. AcInit => AcInductive
  <2> SUFFICES ASSUME AcInit PROVE AcInductive
    OBVIOUS
  <2>1. AcBegun = {} /\ AcInFlight = {} /\ AcStored = {}
    BY DEF AcInit, AcBegun, AcInFlight, AcStored
  <2>2. AcTypeOK
    BY AcMaxSecondsAssumption DEF AcInit, AcTypeOK
  <2>3. AcReadersFollow
    BY DEF AcInit, AcReadersFollow
  <2> QED BY <2>1, <2>2, <2>3 DEF AcInductive, AcTimesOrdered, AcMeetingsKept, AcLogHasEnd
<1>2. AcInductive /\ [AcNext]_acVars => AcInductive'
  <2> SUFFICES ASSUME AcInductive, [AcNext]_acVars PROVE AcInductive'
    OBVIOUS
  <2>1. ASSUME NEW a \in AcAppends, AcBegin(a) \/ AcRead(a) \/ AcInsert(a) \/ AcLose(a)
        PROVE  AcInductive'
    BY <2>1, AcBegins, AcReads, AcInserts, AcLoses
  <2>2. CASE AcNextSecond \/ UNCHANGED acVars
    <3>1. /\ UNCHANGED <<acPhase, acTime, acSecond, acPrevious, acNow, acMet>>
          /\ acClock' \in 0..AcMaxSeconds
      BY <2>2, AcMaxSecondsAssumption DEF AcInductive, AcTypeOK, AcNextSecond, acVars
    <3>2. AcBegun' = AcBegun /\ AcInFlight' = AcInFlight /\ AcStored' = AcStored
      BY <3>1 DEF AcBegun, AcInFlight, AcStored
    <3> QED BY <3>1, <3>2 DEF AcInductive, AcTypeOK, AcTimesOrdered, AcMeetingsKept, AcLogHasEnd,
                              AcReadersFollow, AcFollows, AcBefore
  <2> QED BY <2>1, <2>2 DEF AcNext
<1> QED BY <1>1, <1>2, PTL DEF AcSpec

\* For any number of appends that overlap, fail and repeat identifiers: an event appended alone
\* is chained to its predecessor in the log (finops/adapters/postgres_audit_log.py:28-88).
THEOREM AcForksOverlap == AcSpec => []AcForksNeedOverlap
<1>1. AcInductive => AcForksNeedOverlap
  BY DEF AcInductive, AcReadersFollow, AcFollows, AcForksNeedOverlap, AcStored
<1> QED BY <1>1, AcInvariant, PTL

\* Every fork has a witness: of two stored events with the same predecessor, one was appended
\* while another append was in flight.  So the log of appends that never overlap is one chain
\* (postgres_audit_log.py:48-52 reads the end of the log outside of the insert).
THEOREM AcForksHaveWitness ==
    AcSpec => [](\A a, b \in AcStored :
                    a # b /\ acPrevious[a] = acPrevious[b] => acMet[a] # {} \/ acMet[b] # {})
<1>1. ASSUME AcInductive, AcForksNeedOverlap, NEW a \in AcStored, NEW b \in AcStored,
             acTime[a] < acTime[b], acMet[a] = {}, acMet[b] = {}
      PROVE  acPrevious[a] # acPrevious[b]
  <2>1. a \in AcBefore(b) /\ AcStored \subseteq AcAppends
    BY <1>1 DEF AcBefore, AcStored
  <2>2. acPrevious[b] \in AcStored /\ acTime[a] <= acTime[acPrevious[b]]
    BY <1>1, <2>1 DEF AcForksNeedOverlap, AcBefore
  <2>3. acPrevious[a] \in AcBefore(a) \/ acPrevious[a] = AcGenesis
    BY <1>1 DEF AcForksNeedOverlap
  <2>4. acPrevious[a] # AcGenesis => acTime[acPrevious[a]] < acTime[a] /\ acPrevious[a] \in AcAppends
    BY <2>1, <2>3 DEF AcBefore
  <2> QED BY <1>1, <2>1, <2>2, <2>4, AcGenesisAssumption DEF AcInductive, AcTypeOK
<1>2. ASSUME AcInductive, AcForksNeedOverlap, NEW a \in AcStored, NEW b \in AcStored,
             a # b, acPrevious[a] = acPrevious[b]
      PROVE  acMet[a] # {} \/ acMet[b] # {}
  <2>1. a \in AcBegun /\ b \in AcBegun /\ acTime[a] \in Nat /\ acTime[b] \in Nat
    BY <1>2 DEF AcStored, AcBegun, AcInductive, AcTypeOK
  <2>2. acTime[a] < acTime[b] \/ acTime[b] < acTime[a]
    BY <1>2, <2>1 DEF AcInductive, AcTimesOrdered
  <2>3. CASE acTime[a] < acTime[b]
    BY <1>1, <1>2, <2>3
  <2>4. CASE acTime[b] < acTime[a]
    BY <1>1, <1>2, <2>4
  <2> QED BY <2>2, <2>3, <2>4
<1>3. AcInductive /\ AcForksNeedOverlap =>
        \A a, b \in AcStored :
            a # b /\ acPrevious[a] = acPrevious[b] => acMet[a] # {} \/ acMet[b] # {}
  BY <1>2
<1> QED BY <1>3, AcInvariant, AcForksOverlap, PTL

-----------------------------------------------------------------------------
\* Who holds the row has found it, who has an uncommitted row has inserted it, and while there
\* is no row nobody can have found one.
BlLocksAgree ==
    /\ \A c \in BlCalls : blPhase[c] = "found" => blLock = c /\ blReserved # BlNoRow
    /\ \A c \in BlCalls : blPhase[c] = "inserted" => blPending = c /\ blReserved = BlNoRow

\* Whoever created the row is known.
BlCreatorKnown == blReserved # BlNoRow => blFirst \in BlCalls

\* What every step of the ledger keeps.
BlInductive == BlTypeOK /\ BlLocksAgree /\ BlCreatorKnown /\ BlWithinBudget

\* A call that looks for the row holds it if it finds it.
LEMMA BlFinds ==
    ASSUME BlInductive, NEW c \in BlCalls, BlFindNone(c) \/ BlFind(c) \/ BlConflict(c)
    PROVE  BlInductive'
<1> USE BlNobodyAssumption DEF BlInductive, BlTypeOK, BlLocksAgree, BlCreatorKnown, BlWithinBudget
<1>1. CASE BlFindNone(c)
  BY <1>1 DEF BlFindNone
<1>2. CASE BlFind(c)
  <2>1. PICK seen : seen = [reserved |-> blReserved, version |-> blVersion]
    OBVIOUS
  <2>2. /\ seen \in [reserved : Nat, version : Nat]
        /\ blSeen' = [blSeen EXCEPT ![c] = seen]
    BY <1>2, <2>1 DEF BlFind
  <2>3. BlTypeOK'
    BY <1>2, <2>2 DEF BlFind
  <2>4. BlLocksAgree'
    BY <1>2 DEF BlFind
  <2>5. \A d \in BlCalls : blPhase'[d] = "found" => blSeen'[d] = seen
    BY <1>2, <2>2 DEF BlFind
  <2>6. BlWithinBudget' /\ BlCreatorKnown'
    BY <1>2, <2>1, <2>5 DEF BlFind
  <2> QED BY <2>3, <2>4, <2>6
<1>3. CASE BlConflict(c)
  BY <1>3 DEF BlConflict
<1> QED BY <1>1, <1>2, <1>3

\* A call that creates the row, which no other call can have found.
LEMMA BlCreates ==
    ASSUME BlInductive, NEW c \in BlCalls, BlInsert(c) \/ BlCommitInsert(c)
    PROVE  BlInductive'
<1> USE BlNobodyAssumption, BlAmountAssumption
    DEF BlInductive, BlTypeOK, BlLocksAgree, BlCreatorKnown, BlWithinBudget, BlNoRow
<1>1. CASE BlInsert(c)
  BY <1>1 DEF BlInsert
<1>2. CASE BlCommitInsert(c)
  <2>1. blReserved = BlNoRow /\ \A d \in BlCalls : blPhase[d] # "found"
    BY <1>2 DEF BlCommitInsert
  <2>2. BlTypeOK'
    BY <1>2 DEF BlCommitInsert
  <2>3. BlLocksAgree'
    BY <1>2, <2>1 DEF BlCommitInsert
  <2>4. BlCreatorKnown' /\ BlWithinBudget'
    BY <1>2, <2>1 DEF BlCommitInsert
  <2> QED BY <2>2, <2>3, <2>4
<1> QED BY <1>1, <1>2

\* The update adds what was compared with the row as it still is.
LEMMA BlUpdates ==
    ASSUME BlInductive, NEW c \in BlCalls, BlUpdate(c)
    PROVE  BlInductive'
<1> USE BlNobodyAssumption, BlAmountAssumption, BlBudgetAssumption
    DEF BlInductive, BlTypeOK, BlNoRow
<1>1. /\ blLock = c /\ blReserved \in Nat
      /\ blSeen[c].reserved = blReserved
  BY DEF BlUpdate, BlLocksAgree, BlWithinBudget
<1>2. blReserved + BlAmount[c] <= BlBudget
  <2>1. BlAmount[c] <= BlBudget - blSeen[c].reserved
    BY DEF BlUpdate, BlFits
  <2> QED BY <1>1, <2>1
<1>3. \A d \in BlCalls : blPhase'[d] # "found"
  BY <1>1 DEF BlUpdate, BlLocksAgree
<1>4. BlTypeOK'
  <2>1. blReserved + BlAmount[c] \in Nat /\ blVersion + 1 \in Nat
    BY <1>1
  <2> QED BY <2>1 DEF BlUpdate
<1>5. BlLocksAgree'
  BY <1>1, <1>3 DEF BlUpdate, BlLocksAgree
<1>6. BlCreatorKnown' /\ BlWithinBudget'
  BY <1>1, <1>2, <1>3 DEF BlUpdate, BlCreatorKnown, BlWithinBudget
<1> QED BY <1>4, <1>5, <1>6

\* A call that fails leaves the row as it was.
LEMMA BlUndone ==
    ASSUME BlInductive, NEW c \in BlCalls, BlUndo(c)
    PROVE  BlInductive'
<1> USE BlNobodyAssumption DEF BlInductive, BlTypeOK, BlUndo
<1>1. BlTypeOK'
  OBVIOUS
<1>2. BlLocksAgree'
  BY DEF BlLocksAgree
<1>3. BlCreatorKnown' /\ BlWithinBudget'
  BY DEF BlCreatorKnown, BlWithinBudget
<1> QED BY <1>1, <1>2, <1>3

\* Calls agree with the lock on the row in every state.
LEMMA BlInvariant == BlSpec => []BlInductive
<1>1. BlInit => BlInductive
  <2> SUFFICES ASSUME BlInit PROVE BlInductive
    OBVIOUS
  <2>1. PICK nothing \in [reserved : Nat, version : Nat] : nothing = [reserved |-> 0, version |-> 0]
    OBVIOUS
  <2>2. blSeen = [c \in BlCalls |-> nothing] /\ blPhase = [c \in BlCalls |-> "new"]
    BY <2>1 DEF BlInit
  <2>3. BlTypeOK
    BY <2>2 DEF BlInit, BlTypeOK
  <2> QED BY <2>2, <2>3 DEF BlInit, BlInductive, BlLocksAgree, BlCreatorKnown, BlWithinBudget
<1>2. BlInductive /\ [BlNext]_blVars => BlInductive'
  <2> SUFFICES ASSUME BlInductive, [BlNext]_blVars PROVE BlInductive'
    OBVIOUS
  <2>1. CASE BlNext
    BY <2>1, BlFinds, BlCreates, BlUpdates, BlUndone DEF BlNext
  <2>2. CASE UNCHANGED blVars
    BY <2>2 DEF BlInductive, BlTypeOK, BlLocksAgree, BlCreatorKnown, BlWithinBudget, blVars
  <2> QED BY <2>1, <2>2
<1> QED BY <1>1, <1>2, PTL DEF BlSpec

\* The row is what was granted, and nothing was granted while there is none.
BlSums ==
    /\ IsFiniteSet(BlGranted)
    /\ IF blReserved = BlNoRow THEN BlGranted = {} ELSE blReserved = Total(BlAmount, BlGranted)

\* A grant adds one call and its amount.
LEMMA BlGrantAdds ==
    ASSUME BlInductive, BlSums, NEW c \in BlCalls, BlCommitInsert(c) \/ BlUpdate(c)
    PROVE  BlSums'
<1> USE BlAmountAssumption DEF BlInductive, BlTypeOK, BlNoRow
<1>1. BlGranted' = BlGranted \cup {c} /\ c \notin BlGranted
  BY DEF BlGranted, BlCommitInsert, BlUpdate
<1>2. IsFiniteSet(BlGranted) /\ IsFiniteSet(BlGranted')
  BY <1>1, FS_AddElement DEF BlSums
<1>3. \A d \in BlGranted \cup {c} : BlAmount[d] \in Int
  BY DEF BlGranted
<1>4. Total(BlAmount, BlGranted') = Total(BlAmount, BlGranted) + BlAmount[c]
  BY <1>1, <1>2, <1>3, TotalAdds
<1>5. CASE BlCommitInsert(c)
  <2>1. blReserved = BlNoRow /\ blReserved' = BlAmount[c]
    BY <1>5 DEF BlCommitInsert, BlLocksAgree
  <2>2. Total(BlAmount, BlGranted) = 0
    BY <1>2, <2>1, TotalUnfolds DEF BlSums
  <2>3. blReserved' = Total(BlAmount, BlGranted')
    BY <1>3, <1>4, <2>1, <2>2
  <2>4. blReserved' # BlNoRow
    BY <2>1
  <2> QED BY <1>2, <2>3, <2>4 DEF BlSums
<1>6. CASE BlUpdate(c)
  <2>1. blReserved \in Nat /\ blReserved' = blReserved + BlAmount[c]
    BY <1>6 DEF BlUpdate, BlLocksAgree
  <2>2. blReserved = Total(BlAmount, BlGranted)
    BY <2>1 DEF BlSums
  <2>3. blReserved' # BlNoRow
    BY <2>1
  <2>4. blReserved' = Total(BlAmount, BlGranted')
    BY <1>4, <2>1, <2>2
  <2> QED BY <1>2, <2>3, <2>4 DEF BlSums
<1> QED BY <1>5, <1>6

\* The row is the sum of the grants in every state.
LEMMA BlSumsInvariant == BlSpec => []BlSums
<1>1. BlInit => BlSums
  <2> SUFFICES ASSUME BlInit PROVE BlSums
    OBVIOUS
  <2>1. BlGranted = {} /\ blReserved = BlNoRow
    BY DEF BlInit, BlGranted
  <2> QED BY <2>1, FS_EmptySet DEF BlSums
<1>2. BlInductive /\ BlSums /\ [BlNext]_blVars => BlSums'
  <2> SUFFICES ASSUME BlInductive, BlSums, [BlNext]_blVars PROVE BlSums'
    OBVIOUS
  <2>1. ASSUME NEW c \in BlCalls, BlCommitInsert(c) \/ BlUpdate(c) PROVE BlSums'
    BY <2>1, BlGrantAdds
  <2>2. ASSUME BlGranted' = BlGranted, blReserved' = blReserved PROVE BlSums'
    BY <2>2 DEF BlSums
  <2>3. ASSUME NEW c \in BlCalls, BlFindNone(c) \/ BlFind(c) \/ BlInsert(c) \/ BlConflict(c) \/ BlUndo(c)
        PROVE  BlSums'
    <3>1. blReserved' = blReserved
      BY <2>3 DEF BlFindNone, BlFind, BlInsert, BlConflict, BlUndo
    <3>2. PICK p \in {"absent", "found", "inserted", "unrecorded", "refused"} :
              blPhase' = [blPhase EXCEPT ![c] = p] /\ blPhase[c] # "granted"
      BY <2>3 DEF BlFindNone, BlFind, BlInsert, BlConflict, BlUndo
    <3>3. BlGranted' = BlGranted
      BY <3>2 DEF BlGranted, BlInductive, BlTypeOK
    <3> QED BY <2>2, <3>1, <3>3
  <2>4. CASE UNCHANGED blVars
    BY <2>2, <2>4 DEF blVars, BlGranted
  <2> QED BY <2>1, <2>3, <2>4 DEF BlNext
<1> QED BY <1>1, <1>2, BlInvariant, PTL DEF BlSpec

\* For any number of transactions, amounts and failures: the row is the sum of what was granted
\* to the calls it records, within the day's budget unless the amount that created it was not
\* (postgres_budget_ledger.py:35-95).
THEOREM BlReservedAlwaysFits == BlSpec => []BlReservedFits
<1>1. Total(BlAmount, BlGranted) = MapThenSumSet(LAMBDA c : BlAmount[c], BlGranted)
  BY Zenon DEF Total
<1>2. BlInductive /\ BlSums => BlReservedFits
  BY <1>1 DEF BlInductive, BlSums, BlReservedFits
<1> QED BY <1>2, BlInvariant, BlSumsInvariant, PTL

\* No overdraft, where the first call of the day asks for no more than the day's budget: what
\* was granted to all the calls the row records is within it, although nothing compares the
\* amount that creates the row (BUDGET-CONSTRAINT-SPEC.md:78; postgres_budget_ledger.py:47).
THEOREM BlNoOverdraft ==
    ASSUME \A c \in BlCalls : BlAmount[c] <= BlBudget
    PROVE  BlSpec => [](blReserved <= BlBudget /\ MapThenSumSet(LAMBDA c : BlAmount[c], BlGranted) <= BlBudget)
<1>1. Total(BlAmount, BlGranted) = MapThenSumSet(LAMBDA c : BlAmount[c], BlGranted)
  BY Zenon DEF Total
<1>2. Total(BlAmount, {}) = 0
  BY FS_EmptySet, TotalUnfolds
<1>3. BlInductive /\ BlSums => blReserved <= BlBudget /\ Total(BlAmount, BlGranted) <= BlBudget
  BY <1>2, BlBudgetAssumption
     DEF BlInductive, BlTypeOK, BlCreatorKnown, BlWithinBudget, BlSums, BlNoRow
<1>4. BlInductive /\ BlSums
        => blReserved <= BlBudget /\ MapThenSumSet(LAMBDA c : BlAmount[c], BlGranted) <= BlBudget
  BY <1>1, <1>3
<1> QED BY <1>4, BlInvariant, BlSumsInvariant, PTL

-----------------------------------------------------------------------------
\* Before there is a policy there is nothing that could be counted.
QtInductive ==
    /\ QtTypeOK
    /\ QtWithinLimit
    /\ qtLimit = QtUnset => qtOverrun = 0 /\ \A t \in QtTokens : qtToken[t] = "unused"

\* Counters stay within the limit and what was forgiven in every state.
LEMMA QtInvariant == QtSpec => []QtInductive
<1> USE QtAmountsAssumption, QtBoundsAssumption
<1>1. QtInit => QtInductive
  BY DEF QtInit, QtInductive, QtTypeOK, QtWithinLimit, QtUnset
<1>2. QtInductive /\ [QtNext]_qtVars => QtInductive'
  <2> SUFFICES ASSUME QtInductive, [QtNext]_qtVars PROVE QtInductive'
    OBVIOUS
  <2> USE DEF QtInductive, QtTypeOK, QtWithinLimit, QtUnset, QtLimit
  <2>1. ASSUME NEW limit \in QtLimits, QtSetPolicy(limit) PROVE QtInductive'
    BY <2>1 DEF QtSetPolicy, QtOpen
  <2>2. ASSUME NEW t \in QtTokens, NEW a \in QtAmounts, QtReserve(t, a) PROVE QtInductive'
    <3>1. QtTypeOK'
      BY <2>2 DEF QtReserve
    <3>2. QtWithinLimit'
      BY <2>2 DEF QtReserve
    <3> QED BY <2>2, <3>1, <3>2 DEF QtReserve
  <2>3. ASSUME NEW t \in QtTokens, NEW a \in QtAmounts, QtFinalize(t, a) PROVE QtInductive'
    <3>1. PICK over \in Nat : over = IF a > qtAmount[t] THEN a - qtAmount[t] ELSE 0
      OBVIOUS
    <3>2. /\ qtCommitted' = qtCommitted + a /\ qtOverrun' = qtOverrun + over
          /\ qtReserved' = qtReserved - qtAmount[t] /\ qtToken' = [qtToken EXCEPT ![t] = "finalized"]
          /\ UNCHANGED <<qtLimit, qtAmount, qtOverdue, qtUsage, qtSettings, qtForgiven>>
          /\ qtLimit # QtUnset
      BY <2>3, <3>1 DEF QtFinalize, QtSettle
    <3>3. a <= qtAmount[t] + over /\ a \in Nat /\ qtAmount[t] \in Nat
      BY <3>1
    <3> QED BY <3>2, <3>3
  <2>4. CASE QtLookUp
    BY <2>4 DEF QtLookUp
  <2>5. CASE QtCount
    BY <2>5 DEF QtCount
  <2>6. ASSUME NEW t \in QtTokens, QtFinalizeLate(t) \/ QtRelease(t) PROVE QtInductive'
    <3>1. /\ qtReserved' = qtReserved - qtAmount[t] /\ qtToken' = [qtToken EXCEPT ![t] = "released"]
          /\ UNCHANGED <<qtLimit, qtCommitted, qtAmount, qtOverdue, qtUsage, qtSettings, qtForgiven,
                         qtOverrun>>
          /\ qtLimit # QtUnset
      BY <2>6 DEF QtFinalizeLate, QtRelease, QtSettle
    <3>2. qtAmount[t] \in Nat
      OBVIOUS
    <3> QED BY <3>1, <3>2
  <2>7. ASSUME NEW t \in QtTokens, QtLapse(t) PROVE QtInductive'
    BY <2>7 DEF QtLapse
  <2>8. CASE UNCHANGED qtVars
    BY <2>8 DEF qtVars
  <2> QED BY <2>1, <2>2, <2>3, <2>4, <2>5, <2>6, <2>7, <2>8 DEF QtNext
<1> QED BY <1>1, <1>2, PTL DEF QtSpec

\* The tokens that were ever reserved.
QtUsed == {t \in QtTokens : qtToken[t] # "unused"}

\* What the counter of reservations is, in totals of the amounts of tokens; tokens that the last
\* setting of the policy found open were reserved before.
QtSums ==
    /\ IsFiniteSet(QtUsed)
    /\ qtForgiven \subseteq QtUsed
    /\ qtReserved = Total(qtAmount, QtOpen \ qtForgiven) - Total(qtAmount, QtRefunded)

\* The sets that are added up are finite, and so are their totals.
LEMMA QtFinite ==
    ASSUME QtTypeOK, QtSums
    PROVE  \A S \in SUBSET QtUsed : IsFiniteSet(S) /\ Total(qtAmount, S) \in Int
<1> SUFFICES ASSUME NEW S \in SUBSET QtUsed PROVE IsFiniteSet(S) /\ Total(qtAmount, S) \in Int
  OBVIOUS
<1>1. IsFiniteSet(S)
  BY FS_Subset DEF QtSums
<1>2. \A t \in S : qtAmount[t] \in Int
  BY DEF QtTypeOK, QtUsed
<1> QED BY <1>1, <1>2, TotalIsInt

\* A reservation is one more amount, of a token that was in no total.
LEMMA QtReserveAdds ==
    ASSUME QtTypeOK, QtSums, NEW t \in QtTokens, NEW a \in Nat, QtReserve(t, a)
    PROVE  QtSums'
<1> USE DEF QtTypeOK
<1> DEFINE S == QtOpen \ qtForgiven
<1>1. /\ qtToken[t] = "unused" /\ qtReserved' = qtReserved + a
      /\ qtToken' = [qtToken EXCEPT ![t] = "open"]
      /\ qtAmount' = [qtAmount EXCEPT ![t] = a]
      /\ qtForgiven' = qtForgiven
  BY DEF QtReserve
<1>2. /\ QtUsed' = QtUsed \cup {t} /\ t \notin QtUsed /\ t \notin qtForgiven
      /\ S' = S \cup {t} /\ QtRefunded' = QtRefunded
      /\ S \subseteq QtUsed /\ QtRefunded \subseteq QtUsed
  BY <1>1 DEF QtUsed, QtOpen, QtRefunded, QtSums
<1>3. IsFiniteSet(QtUsed') /\ IsFiniteSet(S) /\ IsFiniteSet(QtRefunded)
  BY <1>2, QtFinite, FS_AddElement DEF QtSums
<1>4. \A x \in QtUsed : qtAmount'[x] = qtAmount[x] /\ qtAmount[x] \in Int
  BY <1>1, <1>2 DEF QtUsed
<1>5. qtAmount'[t] = a
  BY <1>1
<1> HIDE DEF S
<1>6. Total(qtAmount', S) = Total(qtAmount, S) /\ Total(qtAmount', QtRefunded) = Total(qtAmount, QtRefunded)
  BY <1>2, <1>3, <1>4, TotalSame
<1>7. t \notin S /\ \A x \in S \cup {t} : qtAmount'[x] \in Int
  BY <1>2, <1>4, <1>5
<1>8. Total(qtAmount', S \cup {t}) = Total(qtAmount', S) + a
  BY <1>3, <1>5, <1>7, TotalAdds
<1>9. Total(qtAmount, S) \in Int /\ Total(qtAmount, QtRefunded) \in Int
  BY <1>2, QtFinite
<1>10. qtReserved = Total(qtAmount, S) - Total(qtAmount, QtRefunded)
  BY DEF QtSums, S
<1>11. qtReserved' = Total(qtAmount', S \cup {t}) - Total(qtAmount', QtRefunded)
  BY <1>1, <1>6, <1>8, <1>9, <1>10
<1>12. S' = S \cup {t}
  BY <1>2 
<1>13. qtReserved' = Total(qtAmount', S') - Total(qtAmount', QtRefunded')
  BY <1>2, <1>11, <1>12
<1>14. qtForgiven' \subseteq QtUsed'
  BY <1>1, <1>2 DEF QtSums
<1> QED BY <1>3, <1>13, <1>14 DEF QtSums, S

\* A token that is settled leaves the reservations of the policy, or joins those that were given
\* back to it for nothing.
LEMMA QtSettleSubtracts ==
    ASSUME QtTypeOK, QtSums, NEW t \in QtTokens, NEW s \in {"finalized", "released"},
           qtToken[t] = "open", QtSettle(t, s)
    PROVE  QtSums'
<1> USE DEF QtTypeOK
<1> DEFINE S == QtOpen \ qtForgiven
<1>1. /\ qtReserved' = qtReserved - qtAmount[t]
      /\ qtToken' = [qtToken EXCEPT ![t] = s]
      /\ UNCHANGED <<qtAmount, qtForgiven>>
  BY DEF QtSettle
<1>2. /\ QtUsed' = QtUsed /\ t \in QtUsed
      /\ S' = S \ {t}
      /\ QtRefunded' = IF t \in qtForgiven THEN QtRefunded \cup {t} ELSE QtRefunded
      /\ t \notin QtRefunded
      /\ S \subseteq QtUsed /\ QtRefunded \subseteq QtUsed
      /\ t \in S <=> t \notin qtForgiven
  BY <1>1 DEF QtUsed, QtOpen, QtRefunded, QtSums
<1>3. \A x \in QtUsed : qtAmount[x] \in Int
  BY DEF QtUsed
<1>4. qtReserved = Total(qtAmount, S) - Total(qtAmount, QtRefunded)
  BY DEF QtSums
<1> HIDE DEF S
<1>5. qtReserved' = Total(qtAmount, S') - Total(qtAmount, QtRefunded')
  <2>1. CASE t \in qtForgiven
    <3>1. Total(qtAmount, QtRefunded \cup {t}) = Total(qtAmount, QtRefunded) + qtAmount[t]
      BY <1>2, <1>3, QtFinite, TotalAdds
    <3>2. S' = S /\ QtRefunded' = QtRefunded \cup {t}
      BY <1>2, <2>1
    <3>3. Total(qtAmount, S) \in Int /\ Total(qtAmount, QtRefunded) \in Int /\ qtAmount[t] \in Int
      BY <1>2, <1>3, QtFinite
    <3> QED BY <1>1, <1>4, <3>1, <3>2, <3>3
  <2>2. CASE t \notin qtForgiven
    <3>1. PICK r : r = S \ {t}
      OBVIOUS
    <3>2. r \in SUBSET QtUsed /\ t \notin r /\ S = r \cup {t}
      BY <1>2, <2>2, <3>1
    <3>3. Total(qtAmount, r \cup {t}) = Total(qtAmount, r) + qtAmount[t]
      BY <1>2, <1>3, <3>2, QtFinite, TotalAdds
    <3>4. Total(qtAmount, r) \in Int /\ Total(qtAmount, QtRefunded) \in Int /\ qtAmount[t] \in Int
      BY <1>2, <1>3, <3>2, QtFinite
    <3>5. S' = r /\ QtRefunded' = QtRefunded
      BY <1>2, <2>2, <3>1
    <3> QED BY <1>1, <1>4, <3>2, <3>3, <3>4, <3>5
  <2> QED BY <2>1, <2>2
<1> QED BY <1>1, <1>2, <1>5 DEF QtSums, S

\* The counter of reservations adds up in every state.
LEMMA QtSumsInvariant == QtSpec => []QtSums
<1> USE QtAmountsAssumption, QtBoundsAssumption
<1>1. QtInit => QtSums
  <2> SUFFICES ASSUME QtInit PROVE QtSums
    OBVIOUS
  <2>1. QtUsed = {} /\ QtOpen \ qtForgiven = {} /\ QtRefunded = {} /\ qtForgiven = {} /\ qtReserved = 0
    BY DEF QtInit, QtUsed, QtOpen, QtRefunded
  <2>2. IsFiniteSet({}) /\ Total(qtAmount, {}) = 0
    BY FS_EmptySet, TotalUnfolds
  <2> QED BY <2>1, <2>2 DEF QtSums
<1>2. QtInductive /\ QtSums /\ [QtNext]_qtVars => QtSums'
  <2> SUFFICES ASSUME QtInductive, QtSums, [QtNext]_qtVars PROVE QtSums'
    OBVIOUS
  <2> USE DEF QtInductive
  <2>1. ASSUME NEW limit \in QtLimits, QtSetPolicy(limit) PROVE QtSums'
    <3>1. /\ qtReserved' = 0 /\ qtForgiven' = QtOpen
          /\ UNCHANGED <<qtToken, qtAmount>>
      BY <2>1 DEF QtSetPolicy
    <3>2. /\ (QtOpen \ qtForgiven)' = {} /\ QtRefunded' = {}
          /\ QtUsed' = QtUsed /\ QtOpen \subseteq QtUsed
      BY <3>1 DEF QtOpen, QtRefunded, QtUsed
    <3>3. Total(qtAmount', {}) = 0
      BY FS_EmptySet, TotalUnfolds
    <3> QED BY <3>1, <3>2, <3>3 DEF QtSums
  <2>2. ASSUME NEW t \in QtTokens, NEW a \in QtAmounts, QtReserve(t, a) PROVE QtSums'
    BY <2>2, QtReserveAdds
  <2>3. ASSUME NEW t \in QtTokens, NEW a \in QtAmounts, QtFinalize(t, a) PROVE QtSums'
    BY <2>3, QtSettleSubtracts DEF QtFinalize
  <2>4. ASSUME NEW t \in QtTokens, QtFinalizeLate(t) \/ QtRelease(t) PROVE QtSums'
    BY <2>4, QtSettleSubtracts DEF QtFinalizeLate, QtRelease
  <2>5. ASSUME UNCHANGED <<qtReserved, qtToken, qtAmount, qtForgiven>> PROVE QtSums'
    BY <2>5 DEF QtSums, QtUsed, QtOpen, QtRefunded
  <2>6. CASE QtLookUp \/ QtCount \/ UNCHANGED qtVars
    BY <2>5, <2>6 DEF QtLookUp, QtCount, qtVars
  <2>7. ASSUME NEW t \in QtTokens, QtLapse(t) PROVE QtSums'
    BY <2>5, <2>7 DEF QtLapse
  <2> QED BY <2>1, <2>2, <2>3, <2>4, <2>6, <2>7 DEF QtNext
<1> QED BY <1>1, <1>2, QtInvariant, PTL DEF QtSpec

\* For any tokens, amounts, limits and settings of the policy: what is reserved is what open
\* tokens of this policy hold, less what tokens of an earlier one gave back, and the limit holds
\* (finops/quota.py:79-188).
THEOREM QtBooksAlwaysBalance == QtSpec => []QtBooksBalance
<1>1. \A S : QtTotal(S) = Total(qtAmount, S)
  BY DEF QtTotal, Total
<1>2. QtInductive /\ QtSums => QtBooksBalance
  BY <1>1 DEF QtInductive, QtSums, QtBooksBalance
<1> QED BY <1>2, QtInvariant, QtSumsInvariant, PTL

\* A policy is set only while no reservation is open.
QtCalmSpec == QtInit /\ [][QtNext /\ (qtSettings' # qtSettings => QtOpen = {})]_qtVars

\* What it takes for a quota to be exact: if nobody sets the policy under an open reservation,
\* the counter of reservations is what the open tokens hold, and never negative, through all
\* late, repeated and refused calls (quota.py:92 replaces the counters with the policy).
THEOREM QtCalmBooksAreExact ==
    QtCalmSpec => [](qtReserved = QtTotal(QtOpen) /\ qtReserved >= 0)
<1> DEFINE Exact == qtForgiven = {}
<1>1. QtInit => Exact
  BY DEF QtInit
<1>2. Exact /\ [QtNext /\ (qtSettings' # qtSettings => QtOpen = {})]_qtVars /\ QtTypeOK => Exact'
  <2> SUFFICES ASSUME Exact, QtTypeOK, [QtNext /\ (qtSettings' # qtSettings => QtOpen = {})]_qtVars
               PROVE  Exact'
    OBVIOUS
  <2>1. ASSUME NEW limit \in QtLimits, QtSetPolicy(limit) PROVE Exact'
    BY <2>1 DEF QtSetPolicy, QtTypeOK, qtVars
  <2>2. ASSUME UNCHANGED qtForgiven PROVE Exact'
    BY <2>2
  <2>3. ASSUME NEW t \in QtTokens, NEW a \in QtAmounts, QtReserve(t, a) \/ QtFinalize(t, a) PROVE Exact'
    BY <2>2, <2>3 DEF QtReserve, QtFinalize, QtSettle
  <2>4. ASSUME NEW t \in QtTokens, QtFinalizeLate(t) \/ QtRelease(t) \/ QtLapse(t) PROVE Exact'
    BY <2>2, <2>4 DEF QtFinalizeLate, QtRelease, QtLapse, QtSettle
  <2>5. CASE QtLookUp \/ QtCount \/ UNCHANGED qtVars
    BY <2>2, <2>5 DEF QtLookUp, QtCount, qtVars
  <2> QED BY <2>1, <2>3, <2>4, <2>5 DEF QtNext
<1>3. \A S : QtTotal(S) = Total(qtAmount, S)
  BY DEF QtTotal, Total
<1>4. QtTypeOK /\ QtSums /\ Exact => qtReserved = QtTotal(QtOpen) /\ qtReserved >= 0
  <2> SUFFICES ASSUME QtTypeOK, QtSums, Exact PROVE qtReserved = QtTotal(QtOpen) /\ qtReserved >= 0
    OBVIOUS
  <2>1. QtOpen \ qtForgiven = QtOpen /\ QtRefunded = {} /\ QtOpen \subseteq QtUsed
    BY DEF QtRefunded, QtOpen, QtUsed
  <2>2. Total(qtAmount, {}) = 0
    BY FS_EmptySet, TotalUnfolds
  <2>3. IsFiniteSet(QtOpen) /\ \A t \in QtOpen : qtAmount[t] \in Nat
    BY <2>1, FS_Subset DEF QtSums, QtTypeOK, QtOpen
  <2>4. Total(qtAmount, QtOpen) \in Nat
    BY <2>3, TotalIsNat
  <2>5. qtReserved = Total(qtAmount, QtOpen)
    BY <2>1, <2>2, <2>4 DEF QtSums
  <2> QED BY <1>3, <2>4, <2>5
<1>5. QtCalmSpec => QtSpec
  BY PTL DEF QtCalmSpec, QtSpec
<1>6. QtInductive => QtTypeOK
  BY DEF QtInductive
<1> QED BY <1>1, <1>2, <1>4, <1>5, <1>6, QtInvariant, QtSumsInvariant, PTL DEF QtCalmSpec

=============================================================================
