--------------------------- MODULE Network_proofs ---------------------------
(***************************************************************************)
(* Proofs about MessageIdDuplicateChecker, for every array size and every  *)
(* order of arrival: no message identifier passes it twice, and only old   *)
(* ones are refused.  And about SessionConnection, for packets and queues  *)
(* of any size, any limits and any plans: what is queued is timed, and     *)
(* what was asked stays asked for.                                         *)
(***************************************************************************)
EXTENDS MessageIdDuplicateChecker, SessionConnection, SequenceTheorems, FiniteSetTheorems,
        WellFoundedInduction, TLAPS

----------------------------------------------------------------------------
(* MessageIdDuplicateChecker. *)

\* What IInv says of an array s after the identifiers in acc were accepted.
Good(s, acc) ==
  /\ s \in Seq(MessageIds)
  /\ \A i, j \in 1..Len(s) : i < j => s[i] < s[j]
  /\ \A i \in 1..Len(s) : s[i] \in acc
  /\ \A a \in acc : \/ \E i \in 1..Len(s) : s[i] = a
                    \/ Len(s) >= MaxSize /\ a < s[1]

\* A nonempty set of naturals has a least element.
LEMMA LeastElement ==
  ASSUME NEW T \in SUBSET Nat, T # {}
  PROVE  \E x \in T : \A y \in T : x <= y
<1>1. PICK x \in T : \A y \in T : ~(<<y, x>> \in OpToRel(<, Nat))
  BY WFMin, NatLessThanWellFounded, Zenon
<1>2. OpToRel(<, Nat) = {ss \in Nat \X Nat : ss[1] < ss[2]}
  BY Zenon DEF OpToRel
<1>3. ASSUME NEW y \in T, y < x PROVE FALSE
  <2>1. <<y, x>> \in OpToRel(<, Nat)
    BY <1>2, <1>3, Zenon
  <2> QED BY <1>1, <2>1, Zenon
<1> QED BY <1>3, SMTT(60)

\* A function over 1..n is a sequence of length n.
LEMMA FunctionIsSeq ==
  ASSUME NEW S, NEW n \in Nat, NEW f \in [1..n -> S]
  PROVE  f \in Seq(S) /\ Len(f) = n
<1>1. f \in Seq(S)
  BY SeqDef, Zenon
<1>2. Len(f) = n
  BY <1>1, LenProperties, SMTT(60)
<1> QED BY <1>1, <1>2, Zenon

\* lower_bound finds the first position not below id: one exists whenever id is
\* not above the last element, as the fast path has made sure.
LEMMA LowerBoundIsFirst ==
  ASSUME NEW s \in Seq(MessageIds), NEW id \in MessageIds, ~IsNewest(s, id)
  PROVE  /\ LowerBound(s, id) \in 1..Len(s)
         /\ s[LowerBound(s, id)] >= id
         /\ \A j \in 1..(LowerBound(s, id) - 1) : s[j] < id
<1> DEFINE T == {i \in 1..Len(s) : s[i] >= id}
<1>1. Len(s) \in Nat /\ \A i \in 1..Len(s) : s[i] \in Nat
  BY LenProperties, ElementOfSeq, MessageIdsAssumption, Zenon
<1>2. id \in Nat
  BY MessageIdsAssumption, Zenon
<1>3. Len(s) \in T
  BY <1>1, <1>2, SMTT(60) DEF IsNewest
<1>4. T \in SUBSET Nat
  BY <1>1, SMTT(60)
<1>5. PICK x \in T : \A y \in T : x <= y
  <2> HIDE DEF T
  <2> QED BY <1>3, <1>4, LeastElement, Zenon
<1>6. x \in 1..Len(s) /\ s[x] >= id /\ \A j \in 1..(x - 1) : s[j] < id
  BY <1>1, <1>2, <1>5, SMTT(60)
<1> QED BY <1>6, Zenon DEF LowerBound

\* Keeping the upper half of a full array keeps it Good.
LEMMA CompactGood ==
  ASSUME NEW s, NEW acc \in SUBSET MessageIds, Good(s, acc), Len(s) <= 2 * MaxSize
  PROVE  Good(Compact(s), acc) /\ Len(Compact(s)) < 2 * MaxSize
<1> USE MaxSizeAssumption, MessageIdsAssumption
<1> DEFINE t == [i \in 1..MaxSize |-> s[i + MaxSize]]
<1>1. s \in Seq(MessageIds) /\ Len(s) \in Nat
  BY LenProperties, Zenon DEF Good
<1>2. CASE Len(s) # 2 * MaxSize
  BY <1>1, <1>2, SMTT(60) DEF Compact
<1>3. CASE Len(s) = 2 * MaxSize
  <2>1. \A i \in 1..Len(s) : s[i] \in MessageIds /\ s[i] \in Nat
    BY <1>1, ElementOfSeq, Zenon
  <2>2. t \in [1..MaxSize -> MessageIds]
    BY <1>3, <2>1, SMTT(60)
  <2>3. t \in Seq(MessageIds) /\ Len(t) = MaxSize
    BY <2>2, FunctionIsSeq, Zenon
  <2>4. \A i, j \in 1..Len(t) : i < j => t[i] < t[j]
    BY <1>3, <2>3, SMTT(60) DEF Good
  <2>5. \A i \in 1..Len(t) : t[i] \in acc
    BY <1>3, <2>3, SMTT(60) DEF Good
  <2>6. ASSUME NEW a \in acc
        PROVE  (\E i \in 1..Len(t) : t[i] = a) \/ (Len(t) >= MaxSize /\ a < t[1])
    <3>1. t[1] = s[1 + MaxSize] /\ t[1] \in Nat /\ a \in Nat /\ s[1] \in Nat
      BY <1>3, <2>1, <2>3, SMTT(60)
    <3>2. CASE a < s[1]
      <4>1. s[1] < s[1 + MaxSize]
        BY <1>3, SMTT(60) DEF Good
      <4> QED BY <3>1, <3>2, <4>1, <2>3, SMTT(60)
    <3>3. ASSUME NEW i \in 1..Len(s), s[i] = a
          PROVE  (\E k \in 1..Len(t) : t[k] = a) \/ (Len(t) >= MaxSize /\ a < t[1])
      <4>1. CASE i <= MaxSize
        <5>1. s[i] < s[1 + MaxSize]
          BY <1>3, <4>1, SMTT(60) DEF Good
        <5> QED BY <5>1, <3>1, <3>3, <2>3, SMTT(60)
      <4>2. CASE i > MaxSize
        <5>1. i - MaxSize \in 1..Len(t) /\ t[i - MaxSize] = a
          BY <1>3, <3>3, <4>2, <2>3, SMTT(60)
        <5> QED BY <5>1, Zenon
      <4> QED BY <4>1, <4>2, SMTT(60)
    <3> QED BY <3>2, <3>3, Zenon DEF Good
  <2>7. Compact(s) = t
    BY <1>3, Zenon DEF Compact
  <2> HIDE DEF t
  <2>8. Good(t, acc)
    BY <2>3, <2>4, <2>5, <2>6, Zenon DEF Good
  <2> QED BY <2>3, <2>7, <2>8, SMTT(60)
<1> QED BY <1>2, <1>3, Zenon

\* The fast path keeps the array Good and meets only new identifiers.
LEMMA AppendGood ==
  ASSUME NEW s, NEW acc \in SUBSET MessageIds, Good(s, acc),
         NEW id \in MessageIds, IsNewest(s, id)
  PROVE  Good(Append(s, id), acc \union {id}) /\ id \notin acc
<1> USE MaxSizeAssumption, MessageIdsAssumption
<1>1. s \in Seq(MessageIds) /\ Len(s) \in Nat /\ \A i \in 1..Len(s) : s[i] \in Nat
  BY LenProperties, ElementOfSeq, Zenon DEF Good
<1>2. \A i \in 1..Len(s) : s[i] < id
  BY <1>1, SMTT(60) DEF Good, IsNewest
<1> DEFINE t == Append(s, id)
<1>3. /\ t \in Seq(MessageIds) /\ Len(t) = Len(s) + 1 /\ t[Len(s) + 1] = id
      /\ \A i \in 1..Len(s) : t[i] = s[i]
  BY <1>1, SMTT(60)
<1> HIDE DEF t
<1>4. \A i, j \in 1..Len(t) : i < j => t[i] < t[j]
  <2> SUFFICES ASSUME NEW i \in 1..Len(t), NEW j \in 1..Len(t), i < j
               PROVE  t[i] < t[j]
    BY Zenon
  <2>1. i \in 1..Len(s) /\ t[i] = s[i]
    BY <1>1, <1>3, SMTT(60)
  <2>2. CASE j = Len(s) + 1
    BY <2>1, <2>2, <1>2, <1>3, Zenon
  <2>3. CASE j \in 1..Len(s)
    BY <2>1, <2>3, <1>3, Zenon DEF Good
  <2> QED BY <2>2, <2>3, <1>1, <1>3, SMTT(60)
<1>5. \A i \in 1..Len(t) : t[i] \in acc \union {id}
  <2> SUFFICES ASSUME NEW i \in 1..Len(t) PROVE t[i] \in acc \union {id}
    BY Zenon
  <2>1. CASE i \in 1..Len(s)
    BY <2>1, <1>3, Zenon DEF Good
  <2>2. CASE i = Len(s) + 1
    BY <2>2, <1>3, Zenon
  <2> QED BY <2>1, <2>2, <1>1, <1>3, SMTT(60)
<1>6. ASSUME NEW a \in acc \union {id}
      PROVE  (\E i \in 1..Len(t) : t[i] = a) \/ (Len(t) >= MaxSize /\ a < t[1])
  <2>1. CASE a = id
    BY <2>1, <1>1, <1>3, SMTT(60)
  <2>2. CASE \E i \in 1..Len(s) : s[i] = a
    BY <2>2, <1>1, <1>3, SMTT(60)
  <2>3. CASE Len(s) >= MaxSize /\ a < s[1]
    BY <2>3, <1>1, <1>3, SMTT(60)
  <2> QED BY <2>1, <2>2, <2>3, Zenon DEF Good
<1>7. id \notin acc
  BY <1>1, <1>2, SMTT(60) DEF Good
<1> QED BY <1>3, <1>4, <1>5, <1>6, <1>7, ZenonT(60) DEF Good, t

\* The sorted insertion keeps the array Good and meets only new identifiers.
LEMMA InsertGood ==
  ASSUME NEW s, NEW acc \in SUBSET MessageIds, Good(s, acc), NEW id \in MessageIds,
         ~IsNewest(s, id), ~TooOld(s, id), s[LowerBound(s, id)] # id
  PROVE  /\ Good(InsertAt(s, LowerBound(s, id), id), acc \union {id})
         /\ Len(InsertAt(s, LowerBound(s, id), id)) = Len(s) + 1
         /\ id \notin acc
<1> USE MaxSizeAssumption, MessageIdsAssumption
<1>1. s \in Seq(MessageIds) /\ Len(s) \in Nat
      /\ \A i \in 1..Len(s) : s[i] \in Nat /\ s[i] \in MessageIds
  BY LenProperties, ElementOfSeq, Zenon DEF Good
<1> DEFINE p == LowerBound(s, id)
           t == InsertAt(s, p, id)
<1>2. p \in 1..Len(s) /\ s[p] > id /\ \A j \in 1..(p - 1) : s[j] < id
  BY <1>1, LowerBoundIsFirst, SMTT(60)
<1> HIDE DEF p
<1>3. \A i \in 1..Len(s) : (i < p => s[i] < id) /\ (i >= p => s[i] > id)
  BY <1>1, <1>2, SMTT(60) DEF Good
<1>4. t \in [1..(Len(s) + 1) -> MessageIds]
  BY <1>1, <1>2, SMTT(60) DEF InsertAt
<1>5. t \in Seq(MessageIds) /\ Len(t) = Len(s) + 1
  BY <1>1, <1>4, FunctionIsSeq, SMTT(60)
<1>6. /\ \A i \in 1..(p - 1) : t[i] = s[i]
      /\ t[p] = id
      /\ \A i \in p..Len(s) : t[i + 1] = s[i]
      /\ \A i \in (p + 1)..(Len(s) + 1) : t[i] = s[i - 1]
  BY <1>1, <1>2, SMTT(60) DEF InsertAt
<1> HIDE DEF t
<1>7. \A i, j \in 1..Len(t) : i < j => t[i] < t[j]
  <2> SUFFICES ASSUME NEW i \in 1..Len(t), NEW j \in 1..Len(t), i < j
               PROVE  t[i] < t[j]
    BY Zenon
  <2>1. CASE j < p
    <3>1. /\ i \in 1..Len(s) /\ j \in 1..Len(s)
          /\ t[i] = s[i] /\ t[j] = s[j]
      BY <2>1, <1>1, <1>2, <1>5, <1>6, SMTT(60)
    <3> QED BY <3>1, <1>1, Zenon DEF Good
  <2>2. CASE j = p
    <3>1. t[j] = id /\ i \in 1..(p - 1)
      BY <2>2, <1>1, <1>2, <1>5, <1>6, SMTT(60)
    <3> QED BY <3>1, <1>2, <1>6, ZenonT(60)
  <2>3. CASE j > p /\ i < p
    <3>1. t[i] = s[i] /\ t[j] = s[j - 1] /\ i < j - 1 /\ j - 1 \in 1..Len(s)
      BY <2>3, <1>1, <1>2, <1>5, <1>6, SMTT(60)
    <3> QED BY <3>1, <1>1, <1>2, <2>3, SMTT(60) DEF Good
  <2>4. CASE j > p /\ i = p
    <3>1. t[i] = id /\ t[j] = s[j - 1] /\ j - 1 \in 1..Len(s) /\ j - 1 >= p
      BY <2>4, <1>1, <1>2, <1>5, <1>6, SMTT(60)
    <3> QED BY <3>1, <1>1, <1>3, Zenon
  <2>5. CASE j > p /\ i > p
    <3>1. /\ t[i] = s[i - 1] /\ t[j] = s[j - 1] /\ i - 1 < j - 1
          /\ i - 1 \in 1..Len(s) /\ j - 1 \in 1..Len(s)
      BY <2>5, <1>1, <1>2, <1>5, <1>6, SMTT(60)
    <3> QED BY <3>1, <1>1, Zenon DEF Good
  <2> QED BY <2>1, <2>2, <2>3, <2>4, <2>5, <1>1, <1>2, <1>5, SMTT(60)
<1>8. \A i \in 1..Len(t) : t[i] \in acc \union {id}
  <2> SUFFICES ASSUME NEW i \in 1..Len(t) PROVE t[i] \in acc \union {id}
    BY Zenon
  <2>1. CASE i < p
    BY <2>1, <1>1, <1>2, <1>5, <1>6, SMTT(60) DEF Good
  <2>2. CASE i = p
    BY <2>2, <1>6, Zenon
  <2>3. CASE i > p
    <3>1. t[i] = s[i - 1] /\ i - 1 \in 1..Len(s)
      BY <2>3, <1>1, <1>2, <1>5, <1>6, SMTT(60)
    <3> QED BY <3>1, Zenon DEF Good
  <2> QED BY <2>1, <2>2, <2>3, <1>1, <1>2, <1>5, SMTT(60)
<1>9. \A i \in 1..Len(s) : \E k \in 1..Len(t) : t[k] = s[i]
  <2> SUFFICES ASSUME NEW i \in 1..Len(s) PROVE \E k \in 1..Len(t) : t[k] = s[i]
    BY Zenon
  <2>1. CASE i < p
    BY <2>1, <1>1, <1>2, <1>5, <1>6, SMTT(60)
  <2>2. CASE i >= p
    <3>1. i + 1 \in 1..Len(t) /\ t[i + 1] = s[i]
      BY <2>2, <1>1, <1>2, <1>5, <1>6, SMTT(60)
    <3> QED BY <3>1, Zenon
  <2> QED BY <2>1, <2>2, <1>1, <1>2, SMTT(60)
<1>10. ~(Len(s) >= MaxSize /\ id < s[1])
  BY Zenon DEF TooOld
<1>11. Len(s) >= MaxSize => p > 1 /\ t[1] = s[1]
  BY <1>1, <1>2, <1>6, <1>10, SMTT(60)
<1>12. ASSUME NEW a \in acc \union {id}
       PROVE  (\E i \in 1..Len(t) : t[i] = a) \/ (Len(t) >= MaxSize /\ a < t[1])
  <2>1. CASE a = id
    BY <2>1, <1>1, <1>2, <1>5, <1>6, SMTT(60)
  <2>2. CASE \E i \in 1..Len(s) : s[i] = a
    BY <2>2, <1>9, Zenon
  <2>3. CASE Len(s) >= MaxSize /\ a < s[1]
    BY <2>3, <1>1, <1>5, <1>11, SMTT(60)
  <2> QED BY <2>1, <2>2, <2>3, Zenon DEF Good
<1>13. id \notin acc
  <2>1. \A i \in 1..Len(s) : s[i] # id
    BY <1>1, <1>2, <1>3, SMTT(60)
  <2> QED BY <2>1, <1>10, Zenon DEF Good
<1>14. Good(t, acc \union {id})
  BY <1>5, <1>7, <1>8, <1>12, Zenon DEF Good
<1> QED BY <1>5, <1>13, <1>14, Zenon DEF t, p

\* IInv in terms of Good.
LEMMA IInvGood ==
  IInv <=> /\ Good(saved, accepted) /\ Len(saved) <= 2 * MaxSize
           /\ accepted \subseteq MessageIds /\ wronglyOld \subseteq MessageIds
           /\ replayed = {}
  BY Zenon DEF IInv, TypeOK, Sorted, ForgottenIsOld, StoredWasAccepted,
         NeverAcceptedTwice, Good, Stored

\* One call of check_message_id_duplicates preserves the inductive invariant.
LEMMA CheckPreserves ==
  ASSUME IInv, NEW id \in MessageIds, Check(id)
  PROVE  IInv'
<1> USE MaxSizeAssumption
<1> DEFINE s == Compact(saved)
<1>1. /\ Good(saved, accepted) /\ Len(saved) <= 2 * MaxSize
      /\ accepted \subseteq MessageIds /\ wronglyOld \subseteq MessageIds
      /\ replayed = {}
  BY IInvGood, Zenon
<1>2. Good(s, accepted) /\ Len(s) < 2 * MaxSize
  BY <1>1, CompactGood, Zenon
<1>3. s \in Seq(MessageIds) /\ Len(s) \in Nat
  BY <1>2, LenProperties, Zenon DEF Good
<1> SUFFICES /\ Good(saved', accepted') /\ Len(saved') <= 2 * MaxSize
             /\ accepted' \subseteq MessageIds /\ wronglyOld' \subseteq MessageIds
             /\ replayed' = {}
  BY Zenon DEF IInv, TypeOK, Sorted, ForgottenIsOld, StoredWasAccepted,
         NeverAcceptedTwice, Good, Stored
<1> HIDE DEF s
<1>4. CASE IsNewest(s, id) /\ Accept(Append(s, id), id)
  <2>1. Len(Append(s, id)) = Len(s) + 1
    BY <1>3, SMTT(60)
  <2>2. Good(Append(s, id), accepted \union {id}) /\ id \notin accepted
    BY <1>1, <1>2, <1>4, AppendGood, Zenon
  <2> QED BY <1>1, <1>2, <1>3, <1>4, <2>1, <2>2, SMTT(60) DEF Accept
<1>5. ASSUME Refuse(s, id)
      PROVE  /\ Good(saved', accepted') /\ Len(saved') <= 2 * MaxSize
             /\ accepted' \subseteq MessageIds /\ wronglyOld' \subseteq MessageIds
             /\ replayed' = {}
  BY <1>1, <1>2, <1>3, <1>5, SMTT(60) DEF Refuse
<1>6. CASE /\ ~IsNewest(s, id) /\ ~TooOld(s, id)
           /\ s[LowerBound(s, id)] # id
           /\ Accept(InsertAt(s, LowerBound(s, id), id), id)
  <2> DEFINE t == InsertAt(s, LowerBound(s, id), id)
  <2>1. Good(t, accepted \union {id}) /\ Len(t) = Len(s) + 1 /\ id \notin accepted
    BY <1>1, <1>2, <1>6, InsertGood, Zenon
  <2> QED BY <1>1, <1>2, <1>3, <1>6, <2>1, SMTT(60) DEF Accept
<1> QED BY <1>4, <1>5, <1>6, Zenon DEF Check, s

\* The initial array satisfies the inductive invariant.
LEMMA InitCheckerInv == Init => IInv
  BY EmptySeq, MaxSizeAssumption, SMTT(60)
     DEF Init, IInv, TypeOK, Sorted, ForgottenIsOld, StoredWasAccepted,
         NeverAcceptedTwice, Stored

\* Every step of the filter preserves the inductive invariant.
LEMMA NextCheckerInv == IInv /\ [Next]_vars => IInv'
<1> SUFFICES ASSUME IInv, [Next]_vars PROVE IInv'
  BY Zenon
<1>1. CASE Next
  BY <1>1, CheckPreserves, Zenon DEF Next
<1>2. CASE UNCHANGED vars
  BY <1>2, Zenon DEF vars, IInv, TypeOK, Sorted, ForgottenIsOld, StoredWasAccepted,
              NeverAcceptedTwice, Stored
<1> QED BY <1>1, <1>2, Zenon

\* check_message_id_duplicates keeps its array within bounds and sorted, and
\* never returns OK twice for one identifier, for every max_size.
THEOREM DuplicateCheckerSafe ==
  Spec => [](TypeOK /\ Sorted /\ ForgottenIsOld /\ NeverAcceptedTwice)
<1>1. IInv => TypeOK /\ Sorted /\ ForgottenIsOld /\ NeverAcceptedTwice
  BY Zenon DEF IInv
<1> QED BY InitCheckerInv, NextCheckerInv, <1>1, PTL DEF Spec

----------------------------------------------------------------------------
\* An identifier below a Good array of at least MaxSize entries has at least
\* MaxSize accepted identifiers above it.
LEMMA TooOldHasMany ==
  ASSUME NEW s, NEW acc \in SUBSET MessageIds, Good(s, acc), IsFiniteSet(acc),
         NEW id \in MessageIds, TooOld(s, id)
  PROVE  ~(Cardinality({a \in acc : a > id}) < MaxSize)
<1> USE MaxSizeAssumption, MessageIdsAssumption
<1> DEFINE T == {a \in acc : a > id}
<1>1. s \in Seq(MessageIds) /\ Len(s) \in Nat /\ s \in [1..Len(s) -> MessageIds]
      /\ \A i \in 1..Len(s) : s[i] \in Nat /\ s[i] \in acc
  BY LenProperties, ElementOfSeq, Zenon DEF Good
<1>2. Len(s) >= MaxSize /\ id < s[1]
  BY Zenon DEF TooOld
<1>3. ASSUME NEW i \in 1..Len(s) PROVE s[i] \in T
  <2>1. i = 1 \/ s[1] < s[i]
    BY <1>1, SMTT(60) DEF Good
  <2> QED BY <1>1, <1>2, <2>1, SMTT(60)
<1>4. \A i, j \in 1..Len(s) : s[i] = s[j] => i = j
  BY <1>1, SMTT(60) DEF Good
<1>5. s \in Injection(1..Len(s), T)
  <2>1. s \in [1..Len(s) -> T]
    BY <1>1, <1>3, Zenon
  <2> QED BY <2>1, <1>4, Zenon DEF Injection, IsInjective
<1>6. IsFiniteSet(T)
  BY FS_Subset, Zenon
<1>7. Cardinality(1..Len(s)) <= Cardinality(T)
  <2> HIDE DEF T
  <2> QED BY <1>5, <1>6, FS_Injection, Zenon
<1>8. Cardinality(1..Len(s)) = Len(s)
  <2> DEFINE n == Len(s)
  <2>1. 1 \in Int /\ n \in Int /\ n >= 1
    BY <1>1, <1>2, SMTT(60)
  <2> HIDE DEF n
  <2>2. Cardinality(1..n) = IF 1 > n THEN 0 ELSE n - 1 + 1
    BY <2>1, FS_Interval, Zenon
  <2>3. Cardinality(1..n) = n
    BY <2>1, <2>2, SMTT(60)
  <2> QED BY <2>3, Zenon DEF n
<1>9. Cardinality(T) \in Nat
  BY <1>6, FS_CardinalityType, Zenon
<1> QED BY <1>1, <1>2, <1>7, <1>8, <1>9, SMTT(60)

\* The strengthening for OnlyOldRefused: finitely many messages have come.
Finite == IsFiniteSet(accepted)

\* One call refuses a new identifier only if it is old.
LEMMA CheckOnlyOld ==
  ASSUME IInv, Finite, OnlyOldRefused, NEW id \in MessageIds, Check(id)
  PROVE  Finite' /\ OnlyOldRefused'
<1> DEFINE s == Compact(saved)
<1>1. Good(saved, accepted) /\ Len(saved) <= 2 * MaxSize /\ accepted \subseteq MessageIds
  BY IInvGood, Zenon
<1>2. Good(s, accepted)
  BY <1>1, CompactGood, Zenon
<1>3. s \in Seq(MessageIds)
  BY <1>2, Zenon DEF Good
<1> HIDE DEF s
<1>4. ASSUME NEW t, Accept(t, id) PROVE Finite' /\ OnlyOldRefused'
  BY <1>4, FS_AddElement, Zenon DEF Accept, Finite, OnlyOldRefused
<1>5. CASE TooOld(s, id) /\ Refuse(s, id)
  BY <1>1, <1>2, <1>5, TooOldHasMany, Zenon DEF Refuse, Finite, OnlyOldRefused
<1>6. CASE ~IsNewest(s, id) /\ s[LowerBound(s, id)] = id /\ Refuse(s, id)
  <2>1. id \in accepted
    BY <1>2, <1>3, <1>6, LowerBoundIsFirst, Zenon DEF Good
  <2> QED BY <1>6, <2>1, Zenon DEF Refuse, Finite, OnlyOldRefused
<1> QED BY <1>4, <1>5, <1>6, Zenon DEF Check, s

\* check_message_id_duplicates refuses a new identifier only when max_size
\* accepted ones are higher, as the comment above it requires.
THEOREM OnlyOldRefusedAlways == Spec => []OnlyOldRefused
<1> DEFINE J == IInv /\ Finite /\ OnlyOldRefused
<1>1. Init => J
  BY InitCheckerInv, FS_EmptySet, Zenon DEF Init, Finite, OnlyOldRefused
<1>2. J /\ [Next]_vars => J'
  <2> SUFFICES ASSUME J, [Next]_vars PROVE J'
    BY Zenon
  <2>1. CASE Next
    BY <2>1, NextCheckerInv, CheckOnlyOld, Zenon DEF Next
  <2>2. CASE UNCHANGED vars
    BY <2>2, NextCheckerInv, Zenon DEF vars, Finite, OnlyOldRefused
  <2> QED BY <2>1, <2>2, Zenon
<1>3. J => OnlyOldRefused
  BY Zenon
<1> QED BY <1>1, <1>2, <1>3, PTL DEF Spec

\* check_message_id_duplicates accepts no identifier a second time, in whatever
\* order identifiers come and however many have been forgotten.
THEOREM NeverAcceptedTwiceAlways == Spec => []NeverAcceptedTwice
BY DuplicateCheckerSafe, PTL

----------------------------------------------------------------------------
(* SessionConnection. *)

(* The inductive invariant. *)

Deadlines == 0..AckDelay \cup {Unset}

QueuesTypeOK ==
  /\ toSend \in Nat /\ toAck \in Nat /\ toCancel \in Nat
  /\ sendIn \in Deadlines
  /\ pongAge \in Int /\ readAge \in Int /\ pingAge \in Int
  /\ plan \in PlanRecords

FlightTypeOK ==
  /\ flight \in [PacketIds -> SUBSET Kinds]
  /\ service \in [PacketIds -> [info : SUBSET Messages, resend : SUBSET Messages]]
  /\ toInfo \subseteq Messages /\ toResend \subseteq Messages

Queued == toSend + toAck + toCancel > 0 \/ toInfo # {} \/ toResend # {}

\* The common deadline is set while anything is queued.
DeadlineSet == Queued => sendIn # Unset

\* The timer that EndFlush arms stays ahead of the deadline.
TimerInTime == wireAt = "idle" /\ HasSalt => wakeIn \in Int /\ wakeIn <= sendIn

\* What a packet asks for is on its way in that packet.
AskedInFlight ==
  server = "live" => \A p \in PacketIds : service[p].info # {} => "info" \in flight[p]

ConnectionInv ==
  /\ QueuesTypeOK /\ FlightTypeOK
  /\ DeadlineSet /\ TimerInTime
  /\ AskedInFlight /\ AsksKept

----------------------------------------------------------------------------
(* The operators. *)

\* The sooner of two instants.
LEMMA SoonerIs ==
  ASSUME NEW a \in Int, NEW b \in Int
  PROVE  Sooner(a, b) = IF a <= b THEN a ELSE b
BY SMTT(60) DEF Sooner, Min

\* Of four instants none is before the soonest.
LEMMA MinOfFour ==
  ASSUME NEW a \in Int, NEW b \in Int, NEW c \in Int, NEW d \in Int
  PROVE  /\ Min({a, b} \cup {c, d}) \in Int
         /\ Min({a, b} \cup {c, d}) <= c
<1> DEFINE S == {a, b} \cup {c, d}
<1>1. \E x \in S : \A y \in S : x <= y
  <2>1. CASE a <= b /\ a <= c /\ a <= d
    BY <2>1, SMTT(60)
  <2>2. CASE b <= a /\ b <= c /\ b <= d
    BY <2>2, SMTT(60)
  <2>3. CASE c <= a /\ c <= b /\ c <= d
    BY <2>3, SMTT(60)
  <2>4. CASE d <= a /\ d <= b /\ d <= c
    BY <2>4, SMTT(60)
  <2> QED BY <2>1, <2>2, <2>3, <2>4, SMTT(60)
<1>2. Min(S) \in S /\ \A y \in S : Min(S) <= y
  <2> HIDE DEF S
  <2> QED BY <1>1, Zenon DEF Min
<1> QED BY <1>2, Zenon

\* A plan that is drawn on stays a plan, and asks the same.
LEMMA SpendKeeps ==
  ASSUME plan \in PlanRecords,
         NEW item \in {"cancels", "switches", "failures", "news", "salts"}, Spend(item)
  PROVE  plan' \in PlanRecords /\ plan'.asked = plan.asked
BY SMTT(60) DEF PlanRecords, Spend

\* send_ack gives what it queues a deadline.
LEMMA AckDeadlineSet ==
  ASSUME QueuesTypeOK, DeadlineSet, NEW n \in Nat
  PROVE  /\ AckDeadline(n, sendIn) \in Deadlines
         /\ Queued \/ n > 0 => AckDeadline(n, sendIn) # Unset
<1>1. /\ toAck \in Nat /\ sendIn \in Deadlines /\ MaxUnacked \in Nat
      /\ toAck > 0 => Queued
  BY WireAssumption, SMTT(60) DEF WireAssumption, QueuesTypeOK, Queued
<1>2. sendIn \in Int /\ AckDelay \in Int
  BY <1>1, SMTT(60) DEF Deadlines, AckDelay, Unset
<1>3. Sooner(sendIn, AckDelay) = IF sendIn <= AckDelay THEN sendIn ELSE AckDelay
  BY <1>2, SoonerIs, Zenon
<1> QED BY <1>1, <1>3, SMTT(60) DEF AckDeadline, DeadlineSet, Deadlines, AckDelay, Unset

\* A packet takes no more out of a queue than is there.
LEMMA PacketSizes ==
  ASSUME QueuesTypeOK
  PROVE  /\ QueriesOut \in Nat /\ QueriesOut <= toSend
         /\ CancelsOut \in Nat /\ CancelsOut <= toCancel
<1>1. toSend \in Nat /\ toCancel \in Nat /\ MaxQueryCount \in Nat
  BY WireAssumption, Zenon DEF WireAssumption, QueuesTypeOK
<1>2. QueriesOut \in Nat /\ QueriesOut <= toSend /\ QueriesOut <= MaxQueryCount
  BY <1>1, SoonerIs, SMTT(60) DEF QueriesOut
<1>3. MaxQueryCount - QueriesOut \in Nat
  BY <1>1, <1>2, SMTT(60)
<1>4. CancelsOut \in Nat /\ CancelsOut <= toCancel
  BY <1>1, <1>3, SoonerIs, SMTT(60) DEF CancelsOut
<1> QED BY <1>2, <1>4, Zenon

----------------------------------------------------------------------------
(* The steps. *)

\* A new connection satisfies the invariant.
LEMMA InitIInv == WireInit => ConnectionInv
<1> SUFFICES ASSUME WireInit PROVE ConnectionInv
  BY Zenon
<1>1. plan \in PlanRecords /\ plan.asked \subseteq Messages
  BY WireAssumption, Zenon DEF WireAssumption, WireInit, NewConnection, PlanRecords
<1>2. QueuesTypeOK /\ FlightTypeOK
  BY <1>1, SMTT(60) DEF WireInit, NewConnection, QueuesTypeOK, FlightTypeOK, Deadlines, AckDelay, Unset, LongAgo,
     NoService
<1>3. DeadlineSet /\ TimerInTime
  BY SMTT(60) DEF WireInit, NewConnection, DeadlineSet, Queued, TimerInTime, Unset
<1>4. AskedInFlight /\ AsksKept
  BY Zenon DEF WireInit, NewConnection, AskedInFlight, AsksKept, NoService
<1> QED BY <1>2, <1>3, <1>4, Zenon DEF ConnectionInv

\* What the other steps leave alone.
LEMMA FlightKeeps ==
  ASSUME ConnectionInv, UNCHANGED <<flight, service, server, answered, toInfo>>, plan'.asked = plan.asked,
         toResend' \subseteq Messages, wireAt' # "closed" => wireAt # "closed"
  PROVE  FlightTypeOK' /\ AskedInFlight' /\ AsksKept'
BY ZenonT(60) DEF ConnectionInv, FlightTypeOK, AskedInFlight, AsksKept

\* A connection that is closed keeps what the invariant says of the queues.
LEMMA CloseKeeps == ASSUME ConnectionInv, NEW why, CloseBy(why) PROVE ConnectionInv'
<1>1. UNCHANGED <<flight, service, server, answered, toInfo, toResend, plan>>
  BY Zenon DEF CloseBy, flightVars, queueVars
<1>2. FlightTypeOK' /\ AskedInFlight' /\ AsksKept'
  BY <1>1, Zenon DEF CloseBy, ConnectionInv, FlightTypeOK, AskedInFlight, AsksKept
<1>3. QueuesTypeOK' /\ DeadlineSet' /\ TimerInTime'
  BY Zenon DEF CloseBy, queueVars, timeVars, ConnectionInv, QueuesTypeOK, DeadlineSet, Queued, TimerInTime
<1> QED BY <1>2, <1>3, Zenon DEF ConnectionInv

\* flush_packet: the deadline goes only when every queue is written whole, and
\* the identifiers asked about go into the packet.
LEMMA FlushPacketKeeps == ASSUME ConnectionInv, FlushPacket PROVE ConnectionInv'
<1>1. QueuesTypeOK /\ FlightTypeOK /\ DeadlineSet /\ AskedInFlight /\ AsksKept
  BY Zenon DEF ConnectionInv
<1>2. /\ QueriesOut \in Nat /\ QueriesOut <= toSend
      /\ CancelsOut \in Nat /\ CancelsOut <= toCancel
  BY <1>1, PacketSizes, ZenonT(60)
<1>3. /\ toSend' = toSend - QueriesOut /\ toCancel' = toCancel - CancelsOut /\ toAck' = 0
      /\ toInfo' = {} /\ toResend' = {} /\ sendIn' = DeadlineLeft
      /\ pingAge' \in {0, pingAge} /\ wireAt = "writing"
      /\ UNCHANGED <<wireAt, pongAge, readAge, server, answered, plan>>
  BY Zenon DEF FlushPacket
<1>4. QueuesTypeOK'
  BY <1>1, <1>2, <1>3, SMTT(60) DEF QueuesTypeOK, DeadlineLeft, Deadlines
<1>5. DeadlineSet' /\ TimerInTime'
  BY <1>1, <1>2, <1>3, SMTT(60) DEF QueuesTypeOK, DeadlineSet, Queued, TimerInTime, DeadlineLeft
<1>6. CASE server = "live"
  <2>1. PICK p \in PacketIds : p = FreeId /\ flight[p] = {}
    BY Zenon DEF FlushPacket, FreeId
  <2>2. /\ flight' = [flight EXCEPT ![p] = NextPacket]
        /\ service' = [service EXCEPT ![p] = [info |-> toInfo, resend |-> toResend]]
    BY <1>6, <2>1, Zenon DEF FlushPacket, SendCrypto
  <2>3. service[p].info = {}
    BY <1>1, <1>6, <2>1, Zenon DEF AskedInFlight
  <2>4. NextPacket \subseteq Kinds /\ (toInfo # {} => "info" \in NextPacket)
    BY Zenon DEF NextPacket, Kinds
  <2>5. FlightTypeOK'
    BY <1>1, <1>3, <2>2, <2>4, ZenonT(60) DEF FlightTypeOK
  <2>6. AskedInFlight'
    <3> SUFFICES ASSUME NEW o \in PacketIds, service'[o].info # {} PROVE "info" \in flight'[o]
      BY Zenon DEF AskedInFlight
    <3>1. CASE o = p
      BY <1>1, <2>2, <2>4, <3>1, ZenonT(60) DEF FlightTypeOK
    <3>2. CASE o # p
      BY <1>1, <1>6, <2>2, <3>2, ZenonT(60) DEF FlightTypeOK, AskedInFlight
    <3> QED BY <3>1, <3>2, Zenon
  <2>7. AsksKept'
    <3> SUFFICES ASSUME NEW m \in plan.asked
                 PROVE  m \in answered \/ \E o \in PacketIds : m \in service'[o].info
      BY <1>3, Zenon DEF AsksKept
    <3>1. \/ m \in answered \/ m \in toInfo
          \/ \E o \in PacketIds : m \in service[o].info
      BY <1>1, <1>3, <1>6, Zenon DEF AsksKept
    <3>2. ASSUME NEW o \in PacketIds, m \in service[o].info PROVE m \in service'[o].info
      BY <1>1, <2>2, <2>3, <3>2, Zenon DEF FlightTypeOK
    <3>3. service'[p].info = toInfo
      BY <1>1, <2>2, Zenon DEF FlightTypeOK
    <3> QED BY <3>1, <3>2, <3>3, ZenonT(60)
  <2> QED BY <1>4, <1>5, <2>5, <2>6, <2>7, ZenonT(60) DEF ConnectionInv
<1>7. CASE server # "live"
  <2>1. UNCHANGED <<flight, service>>
    BY <1>7, Zenon DEF FlushPacket, SendCrypto
  <2>2. FlightTypeOK' /\ AskedInFlight' /\ AsksKept'
    BY <1>1, <1>3, <1>7, <2>1, ZenonT(60) DEF FlightTypeOK, AskedInFlight, AsksKept
  <2> QED BY <1>4, <1>5, <2>2, Zenon DEF ConnectionInv
<1> QED BY <1>6, <1>7, Zenon

\* The end of do_flush arms the timer for the deadline, if there is a salt.
LEMMA EndFlushKeeps == ASSUME ConnectionInv, EndFlush PROVE ConnectionInv'
<1>1. CASE CloseBy("timeout")
  BY <1>1, CloseKeeps, Zenon
<1>2. CASE ~CloseBy("timeout")
  <2> DEFINE a == PingDisconnectDelay(online) - pongAge
             b == ReadDisconnectDelay(online) - readAge
             d == PingMustDelay - pingAge
  <2>1. /\ wireAt = "writing" /\ wireAt' = "idle"
        /\ wakeIn' = Min({a, b} \cup FlushPacketIn)
        /\ UNCHANGED <<online, timeVars, salt, queueVars, flightVars, server, answered, plan>>
    BY <1>2, Zenon DEF EndFlush
  <2>2. QueuesTypeOK' /\ DeadlineSet'
    BY <2>1, Zenon DEF ConnectionInv, QueuesTypeOK, DeadlineSet, Queued, queueVars, timeVars
  <2>3. FlightTypeOK' /\ AskedInFlight' /\ AsksKept'
    BY <2>1, FlightKeeps, Zenon DEF ConnectionInv, FlightTypeOK, queueVars, flightVars
  <2>4. TimerInTime'
    <3> SUFFICES ASSUME HasSalt PROVE wakeIn' \in Int /\ wakeIn' <= sendIn
      BY <2>1, Zenon DEF TimerInTime, HasSalt, queueVars
    <3>1. a \in Int /\ b \in Int /\ d \in Int /\ sendIn \in Int
      BY SMTT(60) DEF ConnectionInv, QueuesTypeOK, Deadlines, AckDelay, Unset, PingDisconnectDelay, ReadDisconnectDelay,
         PingMustDelay, Rtt
    <3>2. wakeIn' = Min({a, b} \cup {sendIn, d})
      BY <2>1, Zenon DEF FlushPacketIn
    <3> HIDE DEF a, b, d
    <3> QED BY <3>1, <3>2, MinOfFour, Zenon
  <2> QED BY <2>2, <2>3, <2>4, Zenon DEF ConnectionInv
<1> QED BY <1>1, <1>2, Zenon

\* connection_send_query, cancel_answer and what the server sends on its own
\* begin a flush with a deadline for what they queue.
LEMMA QueueingKeeps ==
  ASSUME ConnectionInv, SendQueries \/ CancelAnswer \/ ReceiveUpdate \/ ReceiveDetailedInfo \/ ReceiveDuplicate
  PROVE  ConnectionInv'
<1>1. /\ QueuesTypeOK /\ DeadlineSet /\ plan \in PlanRecords /\ plan.queries \in Nat
      /\ toResend \subseteq Messages
  BY Zenon DEF ConnectionInv, QueuesTypeOK, FlightTypeOK, PlanRecords
<1>2. /\ wireAt = "idle" /\ wireAt' = "writing"
      /\ UNCHANGED <<flight, service, server, answered, toInfo>>
  BY Zenon DEF SendQueries, CancelAnswer, ReceiveUpdate, ReceiveDetailedInfo, ReceiveDuplicate, OnMainPacket,
     flightVars
<1>3. TimerInTime'
  BY <1>2, Zenon DEF TimerInTime
<1>4. CASE SendQueries
  <2> PICK n \in 1..plan.queries :
        /\ plan' = [plan EXCEPT !.queries = @ - n]
        /\ toSend' = toSend + n /\ sendIn' = IF toSend = 0 THEN 0 ELSE sendIn
    BY <1>4, Zenon DEF SendQueries
  <2>1. plan' \in PlanRecords /\ plan'.asked = plan.asked
    BY <1>1, SMTT(60) DEF PlanRecords
  <2>2. QueuesTypeOK' /\ DeadlineSet'
    BY <1>1, <1>4, <2>1, SMTT(60) DEF SendQueries, QueuesTypeOK, DeadlineSet, Queued, Deadlines, timeVars, AckDelay,
       Unset
  <2>3. toResend' = toResend
    BY <1>4, Zenon DEF SendQueries
  <2> QED BY <1>1, <1>2, <1>3, <2>1, <2>2, <2>3, FlightKeeps, Zenon DEF ConnectionInv
<1>5. CASE CancelAnswer
  <2>1. plan' \in PlanRecords /\ plan'.asked = plan.asked
    BY <1>1, <1>5, SpendKeeps, Zenon DEF CancelAnswer
  <2>2. QueuesTypeOK' /\ DeadlineSet'
    BY <1>1, <1>5, <2>1, SMTT(60) DEF CancelAnswer, QueuesTypeOK, DeadlineSet, Queued, Deadlines, timeVars,
       AckDelay, Unset
  <2>3. toResend' = toResend
    BY <1>5, Zenon DEF CancelAnswer
  <2> QED BY <1>1, <1>2, <1>3, <2>1, <2>2, <2>3, FlightKeeps, Zenon DEF ConnectionInv
<1>6. CASE ReceiveUpdate \/ ReceiveDuplicate
  <2>1. plan' \in PlanRecords /\ plan'.asked = plan.asked
    BY <1>1, <1>6, SpendKeeps, Zenon DEF ReceiveUpdate, ReceiveDuplicate
  <2>2. AckDeadline(1, sendIn) \in Deadlines /\ AckDeadline(1, sendIn) # Unset
    BY <1>1, AckDeadlineSet, SMTT(60)
  <2>3. /\ sendIn' = AckDeadline(1, sendIn) /\ toAck' = toAck + 1
        /\ UNCHANGED <<toSend, toCancel, toInfo, toResend, pingAge>>
        /\ readAge' = 0 /\ pongAge' \in {0, pongAge}
    BY <1>6, Zenon DEF ReceiveUpdate, ReceiveDuplicate, OnMainPacket
  <2>4. QueuesTypeOK' /\ DeadlineSet'
    BY <1>1, <2>1, <2>2, <2>3, SMTT(60) DEF QueuesTypeOK, DeadlineSet
  <2> QED BY <1>1, <1>2, <1>3, <2>1, <2>3, <2>4, FlightKeeps, Zenon DEF ConnectionInv
<1>7. CASE ReceiveDetailedInfo
  <2>1. plan' \in PlanRecords /\ plan'.asked = plan.asked
    BY <1>1, <1>7, SpendKeeps, Zenon DEF ReceiveDetailedInfo
  <2> PICK m \in Messages :
        toResend' = toResend \cup {m} /\ sendIn' = QueueDeadline({m}, toResend, sendIn)
    BY <1>7, Zenon DEF ReceiveDetailedInfo
  <2>2. sendIn' = IF toResend = {} THEN 0 ELSE sendIn
    BY Zenon DEF QueueDeadline
  <2>3. QueuesTypeOK'
    BY <1>1, <1>7, <2>1, <2>2, SMTT(60) DEF ReceiveDetailedInfo, OnMainPacket, QueuesTypeOK, Deadlines, AckDelay
  <2>4. DeadlineSet'
    BY <1>1, <2>2, SMTT(60) DEF DeadlineSet, Queued, Unset
  <2>5. toResend' \subseteq Messages
    BY <1>1, Zenon
  <2> QED BY <1>1, <1>2, <1>3, <2>1, <2>3, <2>4, <2>5, FlightKeeps, ZenonT(60) DEF ConnectionInv
<1> QED BY <1>4, <1>5, <1>6, <1>7, Zenon

\* An answer counts what packet p asked about as told, and what has to be
\* acknowledged gets a deadline.
LEMMA AnswerKeeps == ASSUME ConnectionInv, NEW p \in PacketIds, Answer(p) PROVE ConnectionInv'
<1> DEFINE acks == Cardinality(flight[p] \cap {"query", "cancel", "resend"})
           due  == AckDeadline(acks, sendIn)
<1>0. QueuesTypeOK /\ FlightTypeOK /\ DeadlineSet /\ AskedInFlight /\ AsksKept
  BY Zenon DEF ConnectionInv
<1>1. acks \in Nat
  <2>1. IsFiniteSet({"query"} \cup {"cancel"} \cup {"resend"})
    BY FS_Singleton, FS_AddElement, ZenonT(60)
  <2>2. IsFiniteSet({"query", "cancel", "resend"})
    <3>1. {"query", "cancel", "resend"} = {"query"} \cup {"cancel"} \cup {"resend"}
      BY Zenon
    <3> QED BY <2>1, <3>1, Zenon
  <2>3. IsFiniteSet(flight[p] \cap {"query", "cancel", "resend"})
    BY <2>2, FS_Intersection, Zenon
  <2> QED BY <2>3, FS_CardinalityType, Zenon
<1>2. due \in Deadlines /\ (Queued \/ acks > 0 => due # Unset)
  BY <1>0, <1>1, AckDeadlineSet, Zenon
<1>3. CASE CloseBy("no answer")
  BY <1>3, CloseKeeps, Zenon
<1>4. CASE ~CloseBy("no answer")
  <2>1. /\ wireAt' = "writing" /\ wireAt = "idle" /\ server = "live"
        /\ readAge' = 0 /\ pongAge' = 0
        /\ flight' = [flight EXCEPT ![p] = {}]
        /\ service' = [service EXCEPT ![p] = NoService]
        /\ answered' = answered \cup service[p].info
        /\ toAck' = toAck + acks
        /\ sendIn' = due \/ sendIn' = 0
        /\ UNCHANGED <<pingAge, toSend, toCancel, toInfo, toResend, server, plan>>
    BY <1>4, Zenon DEF Answer, OnMainPacket, Forget
  <2> HIDE DEF acks, due
  <2>2. QueuesTypeOK'
    BY <1>0, <1>1, <1>2, <2>1, SMTT(60) DEF QueuesTypeOK, Deadlines, AckDelay
  <2>3. DeadlineSet' /\ TimerInTime'
    <3>1. Queued' => Queued \/ acks > 0
      BY <1>0, <1>1, <2>1, SMTT(60) DEF Queued, QueuesTypeOK
    <3> QED BY <1>2, <2>1, <3>1, SMTT(60) DEF DeadlineSet, TimerInTime, Unset
  <2>4. FlightTypeOK' /\ AskedInFlight'
    BY <1>0, <2>1, Zenon DEF FlightTypeOK, AskedInFlight, NoService
  <2>5. AsksKept'
    <3> SUFFICES ASSUME NEW m \in plan.asked
                 PROVE  m \in answered' \cup toInfo \/ \E o \in PacketIds : m \in service'[o].info
      BY <2>1, Zenon DEF AsksKept
    <3>1. \/ m \in answered \/ m \in toInfo
          \/ \E o \in PacketIds : m \in service[o].info
      BY <1>0, <2>1, Zenon DEF AsksKept
    <3>2. ASSUME NEW o \in PacketIds, m \in service[o].info
          PROVE  m \in answered' \/ m \in service'[o].info
      BY <1>0, <2>1, <3>2, Zenon DEF FlightTypeOK
    <3> QED BY <2>1, <3>1, <3>2, Zenon
  <2> QED BY <2>2, <2>3, <2>4, <2>5, Zenon DEF ConnectionInv
<1> QED BY <1>3, <1>4, Zenon

\* A packet that nothing answers asks about nothing.
LEMMA AbsorbKeeps == ASSUME ConnectionInv, NEW p \in PacketIds, Absorb(p) PROVE ConnectionInv'
<1>0. FlightTypeOK /\ AskedInFlight /\ AsksKept /\ server = "live"
  BY Zenon DEF ConnectionInv, Absorb
<1>1. service[p].info = {}
  <2>1. "info" \notin flight[p]
    BY Zenon DEF Absorb, Unanswered
  <2> QED BY <1>0, <2>1, Zenon DEF AskedInFlight
<1>2. /\ flight' = [flight EXCEPT ![p] = {}]
      /\ service' = [service EXCEPT ![p] = NoService]
      /\ UNCHANGED <<wireAt, timeVars, salt, queueVars, wakeIn, server, answered, plan>>
  BY Zenon DEF Absorb, Forget
<1>3. QueuesTypeOK' /\ DeadlineSet' /\ TimerInTime'
  BY <1>2, Zenon DEF ConnectionInv, QueuesTypeOK, DeadlineSet, Queued, TimerInTime, HasSalt, queueVars, timeVars
<1>4. FlightTypeOK' /\ AskedInFlight'
  BY <1>0, <1>2, ZenonT(60) DEF FlightTypeOK, AskedInFlight, NoService, queueVars
<1>5. AsksKept'
  <2>1. ASSUME NEW o \in PacketIds PROVE service'[o].info = service[o].info
    BY <1>0, <1>1, <1>2, Zenon DEF FlightTypeOK, NoService
  <2>2. toInfo' = toInfo
    BY <1>2, Zenon DEF queueVars
  <2> QED BY <1>0, <1>2, <2>1, <2>2, ZenonT(60) DEF AsksKept
<1> QED BY <1>3, <1>4, <1>5, Zenon DEF ConnectionInv

\* on_message_failed puts the identifiers of a refused request back into the
\* queue, with a deadline.
LEMMA MessageFailedKeeps ==
  ASSUME ConnectionInv, NEW p \in PacketIds, NEW badSalt \in BOOLEAN, NEW failed \in Failures(p),
         MessageFailed(p, badSalt, failed)
  PROVE  ConnectionInv'
<1> DEFINE info   == FailedService(p, "info", failed)
           resend == FailedService(p, "resend", failed)
<1>0. /\ QueuesTypeOK /\ FlightTypeOK /\ DeadlineSet /\ AskedInFlight /\ AsksKept
      /\ plan \in PlanRecords
  BY Zenon DEF ConnectionInv, QueuesTypeOK
<1>1. plan' \in PlanRecords /\ plan'.asked = plan.asked
  BY <1>0, SpendKeeps, Zenon DEF MessageFailed
<1>2. /\ info = IF "info" \in failed THEN service[p].info ELSE {}
      /\ resend = IF "resend" \in failed THEN service[p].resend ELSE {}
      /\ info \subseteq Messages /\ resend \subseteq Messages
  BY <1>0, Zenon DEF FailedService, FlightTypeOK
<1>3. /\ wireAt' = "writing" /\ wireAt = "idle" /\ server = "live"
      /\ readAge' = 0 /\ pongAge' = 0 /\ pingAge' \in {LongAgo, pingAge}
      /\ flight' = [flight EXCEPT ![p] = @ \ failed]
      /\ service' = [service EXCEPT ![p] =
             [info   |-> IF "info" \in failed THEN {} ELSE @.info,
              resend |-> IF "resend" \in failed THEN {} ELSE @.resend]]
      /\ toInfo' = toInfo \cup info /\ toResend' = toResend \cup resend
      /\ sendIn' = QueueDeadline(info, toInfo, QueueDeadline(resend, toResend, sendIn))
      /\ UNCHANGED <<toSend, toAck, toCancel, server, answered>>
  BY Zenon DEF MessageFailed, OnMainPacket
<1> HIDE DEF info, resend
<1>4. sendIn' = IF (info # {} /\ toInfo = {}) \/ (resend # {} /\ toResend = {}) THEN 0 ELSE sendIn
  BY <1>3, ZenonT(60) DEF QueueDeadline
<1>5. QueuesTypeOK'
  BY <1>0, <1>1, <1>3, <1>4, SMTT(60) DEF QueuesTypeOK, Deadlines, AckDelay, LongAgo
<1>6. DeadlineSet' /\ TimerInTime'
  <2>1. CASE sendIn' = 0
    BY <1>3, <2>1, SMTT(60) DEF DeadlineSet, TimerInTime, Unset
  <2>2. CASE sendIn' # 0
    <3>1. (info # {} => toInfo # {}) /\ (resend # {} => toResend # {}) /\ sendIn' = sendIn
      BY <1>4, <2>2, Zenon
    <3>2. Queued' => Queued
      BY <1>3, <3>1, Zenon DEF Queued
    <3> QED BY <1>0, <1>3, <3>1, <3>2, Zenon DEF DeadlineSet, TimerInTime
  <2> QED BY <2>1, <2>2, ZenonT(60)
<1>7. FlightTypeOK'
  BY <1>0, <1>2, <1>3, Zenon DEF FlightTypeOK
<1>8. AskedInFlight'
  <2> SUFFICES ASSUME NEW o \in PacketIds, service'[o].info # {} PROVE "info" \in flight'[o]
    BY Zenon DEF AskedInFlight
  <2>1. CASE o = p
    <3>1. "info" \notin failed /\ service[p].info # {}
      BY <1>0, <1>3, <2>1, Zenon DEF FlightTypeOK
    <3> QED BY <1>0, <1>3, <2>1, <3>1, Zenon DEF FlightTypeOK, AskedInFlight
  <2>2. CASE o # p
    BY <1>0, <1>3, <2>2, Zenon DEF FlightTypeOK, AskedInFlight
  <2> QED BY <2>1, <2>2, Zenon
<1>9. AsksKept'
  <2> SUFFICES ASSUME NEW m \in plan.asked
               PROVE  m \in answered \cup toInfo' \/ \E o \in PacketIds : m \in service'[o].info
    BY <1>1, <1>3, Zenon DEF AsksKept
  <2>1. \/ m \in answered \/ m \in toInfo
        \/ \E o \in PacketIds : m \in service[o].info
    BY <1>0, <1>3, Zenon DEF AsksKept
  <2>2. ASSUME NEW o \in PacketIds, m \in service[o].info
        PROVE  m \in toInfo' \/ m \in service'[o].info
    BY <1>0, <1>2, <1>3, <2>2, Zenon DEF FlightTypeOK
  <2> QED BY <1>3, <2>1, <2>2, Zenon
<1> QED BY <1>5, <1>6, <1>7, <1>8, <1>9, ZenonT(60) DEF ConnectionInv

\* A tick brings the timer and the deadline nearer by the same time.
LEMMA TickKeeps == ASSUME ConnectionInv, Tick PROVE ConnectionInv'
<1>0. QueuesTypeOK /\ DeadlineSet /\ TimerInTime
  BY Zenon DEF ConnectionInv
<1>1. sendIn \in Int /\ pingAge \in Int
  BY <1>0, SMTT(60) DEF QueuesTypeOK, Deadlines, AckDelay, Unset
<1>2. pingAge' \in Int
  <2>1. Sooner(pingAge + 1, 4) \in Int
    BY <1>1, SoonerIs, SMTT(60)
  <2> QED BY <2>1, SMTT(60) DEF Tick, Aged, LongAgo
<1>3. sendIn' = IF sendIn = Unset THEN Unset ELSE IF sendIn = 0 THEN 0 ELSE sendIn - 1
  <2>1. sendIn # Unset => Max({0, sendIn - 1}) = IF sendIn = 0 THEN 0 ELSE sendIn - 1
    BY <1>0, SMTT(60) DEF QueuesTypeOK, Deadlines, AckDelay, Max
  <2> QED BY <2>1, Zenon DEF Tick
<1>4. QueuesTypeOK'
  BY <1>0, <1>2, <1>3, SMTT(60) DEF Tick, QueuesTypeOK, Deadlines, AckDelay, Unset
<1>5. DeadlineSet'
  <2>1. Queued' => Queued
    BY Zenon DEF Tick, Queued
  <2> QED BY <1>0, <1>3, <2>1, SMTT(60) DEF QueuesTypeOK, DeadlineSet, Deadlines, AckDelay, Unset
<1>6. TimerInTime'
  <2> SUFFICES ASSUME HasSalt PROVE wakeIn' \in Int /\ wakeIn' <= sendIn'
    BY Zenon DEF Tick, TimerInTime, HasSalt
  <2>1. wakeIn \in Int /\ wakeIn <= sendIn /\ wakeIn' = wakeIn - 1
    BY <1>0, Zenon DEF Tick, TimerInTime
  <2> QED BY <1>0, <1>3, <2>1, SMTT(60) DEF QueuesTypeOK, Deadlines, AckDelay, Unset
<1>7. FlightTypeOK' /\ AskedInFlight' /\ AsksKept'
  BY FlightKeeps, Zenon DEF Tick, ConnectionInv, FlightTypeOK
<1> QED BY <1>4, <1>5, <1>6, <1>7, Zenon DEF ConnectionInv

\* The steps that touch neither queues nor requests.
LEMMA OthersKeep ==
  ASSUME ConnectionInv, TimerRings \/ SetOnline \/ SaltRuns \/ FallSilent \/ UNCHANGED wireVars
  PROVE  ConnectionInv'
<1>0. /\ QueuesTypeOK /\ FlightTypeOK /\ DeadlineSet /\ TimerInTime /\ AskedInFlight /\ AsksKept
      /\ plan \in PlanRecords
  BY Zenon DEF ConnectionInv, QueuesTypeOK
<1>1. plan' \in PlanRecords /\ plan'.asked = plan.asked
  BY <1>0, SpendKeeps, Zenon DEF TimerRings, SetOnline, SaltRuns, FallSilent, wireVars
<1>2. UNCHANGED queueVars
  BY ZenonT(60) DEF TimerRings, SetOnline, SaltRuns, FallSilent, wireVars, queueVars
<1>3. pongAge' \in Int /\ readAge' \in Int /\ pingAge' \in Int
  BY <1>0, SMTT(60) DEF TimerRings, SetOnline, SaltRuns, FallSilent, wireVars, timeVars, QueuesTypeOK, LongAgo,
     PingDisconnectDelay, ReadDisconnectDelay, Rtt
<1>4. QueuesTypeOK' /\ DeadlineSet'
  BY <1>0, <1>1, <1>2, <1>3, Zenon DEF queueVars, QueuesTypeOK, DeadlineSet, Queued
<1>5. TimerInTime'
  BY <1>0, <1>2, Zenon DEF TimerRings, SetOnline, SaltRuns, FallSilent, wireVars, queueVars, TimerInTime, HasSalt
<1>6. CASE ~FallSilent
  <2>1. /\ UNCHANGED <<flight, service, server, answered>>
        /\ wireAt' # "closed" => wireAt # "closed"
    BY <1>6, Zenon DEF TimerRings, SetOnline, SaltRuns, wireVars, flightVars
  <2>2. FlightTypeOK' /\ AskedInFlight' /\ AsksKept'
    BY <1>0, <1>1, <1>2, <2>1, FlightKeeps, ZenonT(60) DEF queueVars, FlightTypeOK
  <2> QED BY <1>4, <1>5, <2>2, Zenon DEF ConnectionInv
<1>7. CASE FallSilent
  <2>1. FlightTypeOK' /\ AskedInFlight' /\ AsksKept'
    BY <1>0, <1>2, <1>7, Zenon DEF FallSilent, queueVars, FlightTypeOK, AskedInFlight, AsksKept
  <2> QED BY <1>4, <1>5, <2>1, Zenon DEF ConnectionInv
<1> QED BY <1>6, <1>7, Zenon

\* Every step keeps the invariant.
LEMMA NextIInv == ConnectionInv /\ [WireNext]_wireVars => ConnectionInv'
<1> SUFFICES ASSUME ConnectionInv, [WireNext]_wireVars PROVE ConnectionInv'
  BY Zenon
<1>1. CASE Flushing
  BY <1>1, FlushPacketKeeps, EndFlushKeeps, OthersKeep, Zenon DEF Flushing
<1>2. CASE SendQueries \/ CancelAnswer \/ ReceiveUpdate \/ ReceiveDetailedInfo \/ ReceiveDuplicate
  BY <1>2, QueueingKeeps, Zenon
<1>3. CASE ServerReacts
  <2> PICK p \in PacketIds :
        \/ Answer(p) \/ Absorb(p) \/ KeyDestroyed(p)
        \/ \E badSalt \in BOOLEAN, failed \in Failures(p) : MessageFailed(p, badSalt, failed)
    BY <1>3, Zenon DEF ServerReacts
  <2>1. CASE Answer(p)
    BY <2>1, AnswerKeeps, Zenon
  <2>2. CASE KeyDestroyed(p)
    BY <2>2, CloseKeeps, Zenon DEF KeyDestroyed
  <2>3. CASE \E badSalt \in BOOLEAN, failed \in Failures(p) : MessageFailed(p, badSalt, failed)
    BY <2>3, MessageFailedKeeps, Zenon
  <2>4. CASE Absorb(p)
    BY <2>4, AbsorbKeeps, Zenon
  <2> QED BY <2>1, <2>2, <2>3, <2>4, Zenon
<1>4. CASE ReceiveFatal
  BY <1>4, CloseKeeps, Zenon DEF ReceiveFatal
<1>5. CASE Tick
  BY <1>5, TickKeeps, Zenon
<1>6. CASE SetOnline \/ SaltRuns \/ FallSilent \/ UNCHANGED wireVars
  BY <1>6, OthersKeep, Zenon
<1> QED BY <1>1, <1>2, <1>3, <1>4, <1>5, <1>6, ZenonT(60) DEF WireNext

----------------------------------------------------------------------------
\* Nothing that send_query, send_ack, cancel_answer, resend_answer or
\* get_state_info queues is left without a deadline or behind the timer, even
\* when flush_packet cannot take a whole queue.
THEOREM QueuedIsTimedAlways == WireSpec => []QueuedIsTimed
<1>1. ConnectionInv => QueuedIsTimed
  BY Zenon DEF ConnectionInv, DeadlineSet, Queued, TimerInTime, QueuedIsTimed
<1> QED BY InitIInv, NextIInv, <1>1, PTL DEF WireSpec

\* No identifier whose state was asked for when the connection was opened is
\* dropped by flush_packet, on_message_failed or an answer before the server has
\* told its state, in packets of any number and content.
THEOREM AsksKeptAlways == WireSpec => []AsksKept
<1>1. ConnectionInv => AsksKept
  BY Zenon DEF ConnectionInv
<1> QED BY InitIInv, NextIInv, <1>1, PTL DEF WireSpec

----------------------------------------------------------------------------
(* A live server is not given up.  The timeouts leave at least rtt() from  *)
(* the moment a ping is written, and its answer comes before that; while   *)
(* no ping is on its way, the next one is due before the timeouts are.     *)

AgesTypeOK ==
  /\ pingAge \in 0..4 \cup {LongAgo}
  /\ flightAge \in [PacketIds -> {0, 1}]
  /\ online \in BOOLEAN
  /\ wireAt = "closed" \/ closedBy = "open"

\* The timer rings no later than a ping must be sent.
PingInTime ==
  wireAt = "idle" /\ HasSalt => wakeIn \in Int /\ wakeIn <= PingMustDelay - pingAge

\* The ping in packet p was written early enough to be answered in time.
PingOnWay(p) ==
  /\ "ping" \in flight[p]
  /\ pongAge <= PingDisconnectDelay(online) - Rtt + flightAge[p]
  /\ readAge <= ReadDisconnectDelay(online) - Rtt + flightAge[p]

\* The next ping is written early enough: since the last one the server was
\* heard of, or a flush that pings is under way.
PingAhead ==
  /\ pongAge <= pingAge /\ readAge <= pingAge
  /\ pongAge <= PingDisconnectDelay(online) - Rtt
  /\ readAge <= ReadDisconnectDelay(online) - Rtt
  /\ pingAge = LongAgo => wireAt = "writing"

TimeLeft ==
  wireAt # "closed" /\ HasSalt /\ server = "live" =>
      PingAhead \/ \E p \in PacketIds : PingOnWay(p)

PatienceInv == AgesTypeOK /\ PingInTime /\ TimeLeft /\ LiveServerKept

\* The delays are whole numbers in this order.
LEMMA DelaysAre ==
  ASSUME online \in BOOLEAN
  PROVE  /\ PingMustDelay \in 2..4 /\ PingMayDelay \in 1..2 /\ PingMayDelay <= PingMustDelay
         /\ PingDisconnectDelay(online) \in Nat /\ ReadDisconnectDelay(online) \in Nat
         /\ PingMustDelay <= PingDisconnectDelay(online) - Rtt
         /\ PingMustDelay <= ReadDisconnectDelay(online) - Rtt
         /\ Rtt = 2
BY SMTT(60) DEF PingMustDelay, PingMayDelay, PingDisconnectDelay, ReadDisconnectDelay, Rtt

\* A server just heard of leaves time for the next ping.
LEMMA HeardIsAhead ==
  ASSUME online' \in BOOLEAN, pingAge' \in 0..4 \cup {LongAgo}, pongAge' = 0, readAge' = 0, wireAt' = "writing"
  PROVE  PingAhead'
<1>1. /\ PingDisconnectDelay(online') \in {5, 9} /\ ReadDisconnectDelay(online') \in {7, 9} /\ Rtt = 2
  BY SMTT(60) DEF PingDisconnectDelay, ReadDisconnectDelay, Rtt
<1> QED BY <1>1, SMTT(60) DEF PingAhead, LongAgo

\* A new connection has time.
LEMMA InitPatience == WireInit => PatienceInv
<1> SUFFICES ASSUME WireInit PROVE PatienceInv
  BY Zenon
<1>1. online \in BOOLEAN
  BY WireAssumption, Zenon DEF WireAssumption, WireInit, NewConnection, PlanRecords
<1>2. AgesTypeOK /\ PingInTime /\ LiveServerKept
  BY <1>1, SMTT(60) DEF WireInit, NewConnection, AgesTypeOK, PingInTime, LiveServerKept, LongAgo
<1>3. PingAhead
  BY <1>1, DelaysAre, SMTT(60) DEF WireInit, NewConnection, PingAhead, LongAgo
<1> QED BY <1>2, <1>3, Zenon DEF TimeLeft, PatienceInv

\* A connection closed for another reason than silence is no claim about it.
LEMMA ClosePatience ==
  ASSUME PatienceInv, NEW why, CloseBy(why), why # "timeout"
  PROVE  PatienceInv'
BY Zenon DEF PatienceInv, AgesTypeOK, PingInTime, TimeLeft, LiveServerKept, CloseBy, timeVars, flightVars

\* flush_packet: a ping starts its round trip with the time that is left.
LEMMA FlushPacketPatience == ASSUME ConnectionInv, PatienceInv, FlushPacket PROVE PatienceInv'
<1>0. /\ AgesTypeOK /\ TimeLeft /\ LiveServerKept /\ QueuesTypeOK /\ FlightTypeOK
  BY Zenon DEF PatienceInv, ConnectionInv
<1>1. /\ wireAt = "writing" /\ pingAge' = IF "ping" \in NextPacket THEN 0 ELSE pingAge
      /\ UNCHANGED <<wireAt, closedBy, online, pongAge, readAge, salt, wakeIn, server, answered, plan>>
  BY Zenon DEF FlushPacket
<1>2. PingInTime' /\ LiveServerKept'
  BY <1>0, <1>1, Zenon DEF PingInTime, LiveServerKept, HasSalt
<1>3. CASE server = "live"
  <2>1. PICK p \in PacketIds : p = FreeId /\ flight[p] = {}
    BY Zenon DEF FlushPacket, FreeId
  <2>2. /\ flight' = [flight EXCEPT ![p] = NextPacket]
        /\ flightAge' = [flightAge EXCEPT ![p] = 0]
    BY <1>3, <2>1, Zenon DEF FlushPacket, SendCrypto
  <2>3. AgesTypeOK'
    BY <1>0, <1>1, <2>2, SMTT(60) DEF AgesTypeOK
  <2>4. TimeLeft'
    <3> SUFFICES ASSUME HasSalt PROVE PingAhead' \/ \E o \in PacketIds : PingOnWay(o)'
      BY <1>1, Zenon DEF TimeLeft, HasSalt
    <3>1. PingAhead \/ \E o \in PacketIds : PingOnWay(o)
      BY <1>0, <1>1, <1>3, Zenon DEF TimeLeft
    <3>2. ASSUME NEW o \in PacketIds, PingOnWay(o) PROVE PingOnWay(o)'
      <4>1. o # p
        BY <2>1, <3>2, Zenon DEF PingOnWay
      <4>2. flight'[o] = flight[o] /\ flightAge'[o] = flightAge[o]
        BY <1>0, <2>2, <4>1, Zenon DEF FlightTypeOK, AgesTypeOK
      <4> QED BY <1>1, <3>2, <4>2, Zenon DEF PingOnWay
    <3>3. CASE PingAhead /\ "ping" \in NextPacket
      <4>1. flight'[p] = NextPacket /\ flightAge'[p] = 0
        BY <1>0, <2>2, Zenon DEF FlightTypeOK, AgesTypeOK
      <4>2. PingDisconnectDelay(online) - Rtt + 0 = PingDisconnectDelay(online) - Rtt
        BY <1>0, DelaysAre, SMTT(60) DEF AgesTypeOK
      <4>3. ReadDisconnectDelay(online) - Rtt + 0 = ReadDisconnectDelay(online) - Rtt
        BY <1>0, DelaysAre, SMTT(60) DEF AgesTypeOK
      <4>4. PingOnWay(p)'
        BY <1>1, <3>3, <4>1, <4>2, <4>3, Zenon DEF PingOnWay, PingAhead
      <4> QED BY <4>4, Zenon
    <3>4. CASE PingAhead /\ "ping" \notin NextPacket
      BY <1>1, <3>4, Zenon DEF PingAhead
    <3> QED BY <3>1, <3>2, <3>3, <3>4, Zenon
  <2> QED BY <1>2, <2>3, <2>4, Zenon DEF PatienceInv
<1>4. CASE server # "live"
  <2>1. flightAge' = flightAge
    BY <1>4, Zenon DEF FlushPacket, SendCrypto
  <2>2. AgesTypeOK'
    BY <1>0, <1>1, <2>1, SMTT(60) DEF AgesTypeOK
  <2> QED BY <1>1, <1>2, <1>4, <2>2, Zenon DEF TimeLeft, PatienceInv
<1> QED BY <1>3, <1>4, Zenon

\* The end of do_flush finds no timeout passed, and arms the timer for the ping.
LEMMA EndFlushPatience == ASSUME ConnectionInv, PatienceInv, EndFlush PROVE PatienceInv'
<1>0. AgesTypeOK /\ TimeLeft /\ QueuesTypeOK
  BY Zenon DEF PatienceInv, ConnectionInv
<1>1. HasSalt => pingAge < PingMustDelay /\ pingAge \in 0..4
  <2>1. HasSalt => ~(pingAge >= PingMustDelay)
    BY Zenon DEF EndFlush, MustFlushPacket, MustPing
  <2> QED BY <1>0, <2>1, DelaysAre, SMTT(60) DEF AgesTypeOK, LongAgo
<1>2. CASE \/ pongAge >= PingDisconnectDelay(online)
           \/ readAge >= ReadDisconnectDelay(online)
  <2>1. CloseBy("timeout") /\ wireAt = "writing"
    BY <1>2, Zenon DEF EndFlush
  <2>2. server = "live" => ~HasSalt
    <3> SUFFICES ASSUME server = "live", HasSalt PROVE FALSE
      BY Zenon
    <3>1. PingAhead \/ \E p \in PacketIds : PingOnWay(p)
      BY <1>0, <2>1, Zenon DEF TimeLeft
    <3>2. CASE PingAhead
      BY <1>0, <1>2, <3>2, DelaysAre, SMTT(60) DEF PingAhead, AgesTypeOK, QueuesTypeOK
    <3>3. CASE \E p \in PacketIds : PingOnWay(p)
      <4> PICK p \in PacketIds : PingOnWay(p)
        BY <3>3, Zenon
      <4>1. flightAge[p] \in {0, 1}
        BY <1>0, Zenon DEF AgesTypeOK
      <4> QED BY <1>0, <1>2, <4>1, DelaysAre, SMTT(60) DEF PingOnWay, AgesTypeOK, QueuesTypeOK
    <3> QED BY <3>1, <3>2, <3>3, Zenon
  <2> QED BY <1>0, <2>1, <2>2, Zenon DEF PatienceInv, AgesTypeOK, PingInTime, TimeLeft, LiveServerKept, CloseBy,
       timeVars, flightVars, HasSalt
<1>3. CASE ~(\/ pongAge >= PingDisconnectDelay(online)
             \/ readAge >= ReadDisconnectDelay(online))
  <2> DEFINE a == PingDisconnectDelay(online) - pongAge
             b == ReadDisconnectDelay(online) - readAge
             d == PingMustDelay - pingAge
  <2>1. /\ wireAt = "writing" /\ wireAt' = "idle"
        /\ wakeIn' = Min({a, b} \cup FlushPacketIn)
        /\ UNCHANGED <<closedBy, online, timeVars, salt, queueVars, flightVars, server, answered, plan>>
    BY <1>3, Zenon DEF EndFlush
  <2>2. PingInTime'
    <3> SUFFICES ASSUME HasSalt PROVE wakeIn' \in Int /\ wakeIn' <= d
      BY <2>1, Zenon DEF PingInTime, HasSalt, PingMustDelay, timeVars
    <3>1. a \in Int /\ b \in Int /\ d \in Int /\ sendIn \in Int
      BY <1>0, SMTT(60) DEF QueuesTypeOK, Deadlines, AckDelay, Unset, PingDisconnectDelay, ReadDisconnectDelay,
         PingMustDelay, Rtt
    <3>2. wakeIn' = Min({a, b} \cup {d, sendIn})
      <4>1. {sendIn, d} = {d, sendIn}
        BY Zenon
      <4> QED BY <2>1, <4>1, Zenon DEF FlushPacketIn
    <3> HIDE DEF a, b, d
    <3> QED BY <3>1, <3>2, MinOfFour, Zenon
  <2>3. AgesTypeOK' /\ LiveServerKept'
    BY <1>0, <2>1, Zenon DEF PatienceInv, AgesTypeOK, LiveServerKept, HasSalt, timeVars, flightVars
  <2>4. TimeLeft'
    <3> SUFFICES ASSUME HasSalt, server = "live" PROVE PingAhead' \/ \E p \in PacketIds : PingOnWay(p)'
      BY <2>1, Zenon DEF TimeLeft, HasSalt
    <3>1. PingAhead \/ \E p \in PacketIds : PingOnWay(p)
      BY <1>0, <2>1, Zenon DEF TimeLeft
    <3>2. pingAge # LongAgo
      BY <1>1, SMTT(60) DEF LongAgo
    <3> QED BY <2>1, <3>1, <3>2, ZenonT(60) DEF PingAhead, PingOnWay, timeVars, flightVars
  <2> QED BY <2>2, <2>3, <2>4, Zenon DEF PatienceInv
<1> QED BY <1>2, <1>3, Zenon

\* An answer, a refusal and news: the server is heard of, and a flush begins.
LEMMA HeardPatience ==
  ASSUME PatienceInv, OnMainPacket, wireAt' = "writing", UNCHANGED <<closedBy, online, server>>,
         pingAge' \in {LongAgo, pingAge}, flightAge' \in [PacketIds -> {0, 1}]
  PROVE  PatienceInv'
<1>1. AgesTypeOK /\ wireAt = "idle" /\ pongAge' = 0 /\ readAge' = 0 /\ closedBy = "open"
  BY Zenon DEF PatienceInv, AgesTypeOK, OnMainPacket
<1>2. AgesTypeOK'
  BY <1>1, Zenon DEF AgesTypeOK
<1>3. PingAhead'
  BY <1>1, <1>2, HeardIsAhead, Zenon DEF AgesTypeOK
<1> QED BY <1>1, <1>2, <1>3, Zenon DEF PatienceInv, PingInTime, TimeLeft, LiveServerKept

\* What begins a flush and leaves the ages alone, or makes them less.
LEMMA QueueingPatience ==
  ASSUME ConnectionInv, PatienceInv, wireAt \in {"idle", "writing"},
         wireAt' = "writing" \/ (wireAt' = wireAt /\ wakeIn' = wakeIn),
         UNCHANGED <<closedBy, online, server, pongAge, pingAge, flightAge>>, HasSalt' = HasSalt,
         readAge' \in {0, readAge},
         \A p \in PacketIds : "ping" \in flight[p] => "ping" \in flight'[p]
  PROVE  PatienceInv'
<1>0. AgesTypeOK /\ PingInTime /\ TimeLeft /\ QueuesTypeOK /\ closedBy = "open"
  BY Zenon DEF PatienceInv, AgesTypeOK, ConnectionInv
<1>1. AgesTypeOK' /\ LiveServerKept'
  BY <1>0, Zenon DEF AgesTypeOK, LiveServerKept
<1>2. PingInTime'
  BY <1>0, Zenon DEF PingInTime, PingMustDelay
<1>3. TimeLeft'
  <2> SUFFICES ASSUME HasSalt, server = "live" PROVE PingAhead' \/ \E p \in PacketIds : PingOnWay(p)'
    BY Zenon DEF TimeLeft
  <2>1. PingAhead \/ \E p \in PacketIds : PingOnWay(p)
    BY <1>0, Zenon DEF TimeLeft
  <2>2. CASE PingAhead
    <3>1. 0 <= pingAge /\ 0 <= ReadDisconnectDelay(online) - Rtt
      BY <1>0, DelaysAre, SMTT(60) DEF AgesTypeOK, LongAgo
    <3> QED BY <2>2, <3>1, Zenon DEF PingAhead
  <2>3. ASSUME NEW p \in PacketIds, PingOnWay(p) PROVE PingOnWay(p)'
    <3>1. flightAge[p] \in {0, 1}
      BY <1>0, Zenon DEF AgesTypeOK
    <3>2. 0 <= ReadDisconnectDelay(online) - Rtt + flightAge[p]
      BY <1>0, <3>1, DelaysAre, SMTT(60) DEF AgesTypeOK
    <3> QED BY <2>3, <3>2, Zenon DEF PingOnWay
  <2> QED BY <2>1, <2>2, <2>3, Zenon
<1> QED BY <1>1, <1>2, <1>3, Zenon DEF PatienceInv

\* set_online leaves a round trip of every timeout, and asks for a ping.
LEMMA SetOnlinePatience == ASSUME PatienceInv, SetOnline PROVE PatienceInv'
<1>0. AgesTypeOK
  BY Zenon DEF PatienceInv
<1>1. PICK flag \in BOOLEAN :
        /\ online' = flag
        /\ IF flag \/ ~online
           THEN /\ pongAge' = PingDisconnectDelay(flag) - Rtt
                /\ readAge' = ReadDisconnectDelay(flag) - Rtt
           ELSE pongAge' = 0 /\ readAge' = 0
  BY Zenon DEF SetOnline
<1>2. /\ wireAt' = "writing" /\ pingAge' = LongAgo /\ wireAt = "idle" /\ closedBy = "open"
      /\ UNCHANGED <<closedBy, flightAge>>
  BY <1>0, Zenon DEF SetOnline, AgesTypeOK
<1>3. AgesTypeOK' /\ PingInTime' /\ LiveServerKept'
  BY <1>0, <1>1, <1>2, Zenon DEF AgesTypeOK, PingInTime, LiveServerKept
<1>4. PingDisconnectDelay(flag) \in {5, 9} /\ ReadDisconnectDelay(flag) \in {7, 9} /\ Rtt = 2
  BY SMTT(60) DEF PingDisconnectDelay, ReadDisconnectDelay, Rtt
<1>5. \/ pongAge' = PingDisconnectDelay(flag) - Rtt /\ readAge' = ReadDisconnectDelay(flag) - Rtt
      \/ pongAge' = 0 /\ readAge' = 0
  BY <1>1, Zenon
<1>6. PingAhead'
  BY <1>1, <1>2, <1>4, <1>5, SMTT(60) DEF PingAhead, LongAgo
<1> QED BY <1>3, <1>6, Zenon DEF TimeLeft, PatienceInv

\* A tick takes one of the two ticks of a round trip, or brings the ping nearer.
LEMMA TickPatience == ASSUME ConnectionInv, PatienceInv, Tick PROVE PatienceInv'
<1>0. AgesTypeOK /\ PingInTime /\ TimeLeft /\ LiveServerKept /\ QueuesTypeOK /\ TimerInTime
  BY Zenon DEF PatienceInv, ConnectionInv
<1>1. /\ wireAt = "idle" /\ wakeIn > 0 /\ wakeIn' = wakeIn - 1
      /\ pongAge' = pongAge + 1 /\ readAge' = readAge + 1 /\ pingAge' = Aged(pingAge, 4)
      /\ \A p \in PacketIds : flight[p] # {} => flightAge[p] = 0
      /\ flightAge' = [p \in PacketIds |-> IF flight[p] # {} THEN 1 ELSE 0]
      /\ UNCHANGED <<wireAt, closedBy, online, salt, flight, server>>
  BY Zenon DEF Tick
<1>2. /\ pingAge = LongAgo => pingAge' = LongAgo
      /\ pingAge \in 0..4 => pingAge' = IF pingAge + 1 <= 4 THEN pingAge + 1 ELSE 4
  <2>1. pingAge \in 0..4 => Sooner(pingAge + 1, 4) = IF pingAge + 1 <= 4 THEN pingAge + 1 ELSE 4
    BY SoonerIs, SMTT(60)
  <2>2. pingAge \in 0..4 => pingAge # LongAgo
    BY SMTT(60) DEF LongAgo
  <2> QED BY <1>1, <2>1, <2>2, Zenon DEF Aged
<1>3. AgesTypeOK' /\ LiveServerKept'
  <2>1. pingAge' \in 0..4 \cup {LongAgo}
    BY <1>0, <1>2, SMTT(60) DEF AgesTypeOK
  <2> QED BY <1>0, <1>1, <2>1, Zenon DEF AgesTypeOK, LiveServerKept, HasSalt
<1>4. HasSalt => pingAge \in 0..4 /\ pingAge < PingMustDelay /\ wakeIn \in Int /\ pingAge' = pingAge + 1
  BY <1>0, <1>1, <1>2, DelaysAre, SMTT(60) DEF PingInTime, AgesTypeOK, LongAgo
<1>5. PingInTime'
  <2>1. PingMustDelay' = PingMustDelay
    BY <1>1, Zenon DEF PingMustDelay
  <2>2. HasSalt => wakeIn' \in Int /\ wakeIn' <= PingMustDelay - pingAge'
    BY <1>0, <1>1, <1>4, DelaysAre, SMTT(60) DEF PingInTime, AgesTypeOK
  <2> QED BY <1>1, <2>1, <2>2, Zenon DEF PingInTime, HasSalt
<1>6. TimeLeft'
  <2> SUFFICES ASSUME HasSalt, server = "live" PROVE PingAhead' \/ \E p \in PacketIds : PingOnWay(p)'
    BY <1>1, Zenon DEF TimeLeft, HasSalt
  <2>1. PingAhead \/ \E p \in PacketIds : PingOnWay(p)
    BY <1>0, <1>1, Zenon DEF TimeLeft
  <2>2. CASE PingAhead
    <3>1. /\ pongAge + 1 <= pingAge + 1 /\ readAge + 1 <= pingAge + 1
          /\ pingAge + 1 <= PingDisconnectDelay(online) - Rtt
          /\ pingAge + 1 <= ReadDisconnectDelay(online) - Rtt
          /\ pingAge + 1 # LongAgo
          /\ pongAge + 1 <= PingDisconnectDelay(online) - Rtt
          /\ readAge + 1 <= ReadDisconnectDelay(online) - Rtt
      BY <1>0, <1>4, <2>2, DelaysAre, SMTT(60) DEF PingAhead, QueuesTypeOK, AgesTypeOK, LongAgo
    <3> QED BY <1>1, <1>4, <3>1, Zenon DEF PingAhead
  <2>3. ASSUME NEW p \in PacketIds, PingOnWay(p) PROVE PingOnWay(p)'
    <3>1. flightAge[p] = 0 /\ flightAge'[p] = 1 /\ "ping" \in flight'[p]
      BY <1>1, <2>3, Zenon DEF PingOnWay
    <3>2. /\ pongAge' <= PingDisconnectDelay(online) - Rtt + 1
          /\ readAge' <= ReadDisconnectDelay(online) - Rtt + 1
      BY <1>0, <1>1, <2>3, <3>1, DelaysAre, SMTT(60) DEF PingOnWay, QueuesTypeOK, AgesTypeOK
    <3> QED BY <1>1, <3>1, <3>2, Zenon DEF PingOnWay
  <2> QED BY <2>1, <2>2, <2>3, Zenon
<1> QED BY <1>3, <1>5, <1>6, Zenon DEF PatienceInv

\* What the server does about a packet.
LEMMA ReactionPatience == ASSUME ConnectionInv, PatienceInv, ServerReacts PROVE PatienceInv'
<1> PICK p \in PacketIds :
      \/ Answer(p) \/ Absorb(p) \/ KeyDestroyed(p)
      \/ \E badSalt \in BOOLEAN, failed \in Failures(p) : MessageFailed(p, badSalt, failed)
  BY Zenon DEF ServerReacts
<1>0. AgesTypeOK /\ FlightTypeOK
  BY Zenon DEF PatienceInv, ConnectionInv
<1>1. CASE Answer(p)
  <2>1. CASE CloseBy("no answer")
    BY <2>1, ClosePatience, Zenon
  <2>2. CASE ~CloseBy("no answer")
    <3>1. /\ OnMainPacket /\ Forget(p) /\ wireAt' = "writing"
          /\ UNCHANGED <<closedBy, online, pingAge, server>>
      BY <1>1, <2>2, Zenon DEF Answer
    <3>2. flightAge' \in [PacketIds -> {0, 1}]
      BY <1>0, <3>1, SMTT(60) DEF Forget, AgesTypeOK
    <3> QED BY <3>1, <3>2, HeardPatience, Zenon
  <2> QED BY <2>1, <2>2, Zenon
<1>2. CASE Absorb(p)
  <2>1. /\ UNCHANGED <<wireAt, wakeIn, closedBy, online, server, pongAge, readAge, pingAge>>
        /\ HasSalt' = HasSalt /\ wireAt = "idle" /\ Forget(p)
    BY <1>2, Zenon DEF Absorb, timeVars, HasSalt
  <2>2. "ping" \notin flight[p]
    BY <1>2, Zenon DEF Absorb, Unanswered
  <2>3. AgesTypeOK'
    BY <1>0, <2>1, SMTT(60) DEF Forget, AgesTypeOK
  <2>4. ASSUME NEW o \in PacketIds, PingOnWay(o) PROVE PingOnWay(o)'
    <3>1. o # p
      BY <2>2, <2>4, Zenon DEF PingOnWay
    <3>2. flight'[o] = flight[o] /\ flightAge'[o] = flightAge[o]
      BY <1>0, <2>1, <3>1, Zenon DEF Forget, FlightTypeOK, AgesTypeOK
    <3> QED BY <2>1, <2>4, <3>2, Zenon DEF PingOnWay
  <2>5. TimeLeft'
    BY <2>1, <2>4, Zenon DEF PatienceInv, TimeLeft, PingAhead
  <2> QED BY <2>1, <2>3, <2>5, Zenon DEF PatienceInv, PingInTime, PingMustDelay, LiveServerKept
<1>3. CASE KeyDestroyed(p)
  BY <1>3, ClosePatience, Zenon DEF KeyDestroyed
<1>4. ASSUME NEW badSalt \in BOOLEAN, NEW failed \in Failures(p), MessageFailed(p, badSalt, failed)
      PROVE  PatienceInv'
  <2>1. /\ OnMainPacket /\ wireAt' = "writing" /\ pingAge' \in {LongAgo, pingAge}
        /\ UNCHANGED <<closedBy, online, flightAge, server>>
    BY <1>4, Zenon DEF MessageFailed
  <2> QED BY <1>0, <2>1, HeardPatience, Zenon DEF AgesTypeOK
<1> QED BY <1>1, <1>2, <1>3, <1>4, Zenon

\* Every step leaves a live server time.
LEMMA NextPatience == ConnectionInv /\ PatienceInv /\ [WireNext]_wireVars => PatienceInv'
<1> SUFFICES ASSUME ConnectionInv, PatienceInv, [WireNext]_wireVars PROVE PatienceInv'
  BY Zenon
<1>1. CASE Flushing
  <2>1. CASE TimerRings
    <3>1. /\ wireAt = "idle" /\ wireAt' = "writing" /\ HasSalt' = HasSalt
          /\ UNCHANGED <<closedBy, online, server, pongAge, readAge, pingAge, flight, flightAge>>
      BY <2>1, Zenon DEF TimerRings, timeVars, flightVars, HasSalt
    <3>2. /\ wireAt \in {"idle", "writing"} /\ readAge' \in {0, readAge}
          /\ \A p \in PacketIds : "ping" \in flight[p] => "ping" \in flight'[p]
      BY <3>1, Zenon
    <3> QED BY <3>1, <3>2, QueueingPatience, ZenonT(60)
  <2> QED BY <1>1, <2>1, FlushPacketPatience, EndFlushPatience, Zenon DEF Flushing
<1>2. CASE SendQueries \/ CancelAnswer \/ ReceiveDuplicate
  <2>1. /\ wireAt = "idle" /\ wireAt' = "writing" /\ HasSalt' = HasSalt /\ readAge' \in {0, readAge}
        /\ UNCHANGED <<closedBy, online, server, pongAge, pingAge, flight, flightAge>>
    BY <1>2, Zenon DEF SendQueries, CancelAnswer, ReceiveDuplicate, timeVars, flightVars, HasSalt
  <2>2. /\ wireAt \in {"idle", "writing"}
        /\ \A p \in PacketIds : "ping" \in flight[p] => "ping" \in flight'[p]
    BY <2>1, ZenonT(60)
  <2> QED BY <2>1, <2>2, QueueingPatience, ZenonT(60)
<1>3. CASE ReceiveUpdate \/ ReceiveDetailedInfo
  <2>1. /\ OnMainPacket /\ wireAt' = "writing"
        /\ UNCHANGED <<closedBy, online, server, pingAge, flightAge>>
    BY <1>3, Zenon DEF ReceiveUpdate, ReceiveDetailedInfo, flightVars
  <2>2. flightAge' \in [PacketIds -> {0, 1}]
    BY <2>1, Zenon DEF PatienceInv, AgesTypeOK
  <2> QED BY <2>1, <2>2, HeardPatience, Zenon
<1>4. CASE SaltRuns
  <2>1. /\ wireAt = "idle" /\ UNCHANGED <<wireAt, wakeIn>> /\ HasSalt /\ HasSalt'
        /\ UNCHANGED <<closedBy, online, server, pongAge, readAge, pingAge, flight, flightAge>>
    BY <1>4, Zenon DEF SaltRuns, timeVars, flightVars, HasSalt
  <2> QED BY <2>1, QueueingPatience, Zenon
<1>5. CASE FallSilent
  <2>1. /\ wireAt = "idle" /\ UNCHANGED <<wireAt, wakeIn, closedBy, online, salt, pingAge>>
        /\ server' = "silent" /\ flightAge' = [p \in PacketIds |-> 0]
    BY <1>5, Zenon DEF FallSilent, timeVars
  <2>2. AgesTypeOK'
    BY <2>1, Zenon DEF PatienceInv, AgesTypeOK
  <2>3. PingInTime'
    BY <2>1, Zenon DEF PatienceInv, PingInTime, PingMustDelay, HasSalt
  <2> QED BY <2>1, <2>2, <2>3, Zenon DEF PatienceInv, TimeLeft, LiveServerKept
<1>6. CASE UNCHANGED wireVars
  BY <1>6, ZenonT(60) DEF wireVars, timeVars, flightVars, PatienceInv, AgesTypeOK, PingInTime, TimeLeft, PingAhead,
     PingOnWay, LiveServerKept, HasSalt, PingMustDelay
<1>7. CASE ReceiveFatal
  BY <1>7, ClosePatience, Zenon DEF ReceiveFatal
<1> QED BY <1>1, <1>2, <1>3, <1>4, <1>5, <1>6, <1>7, ReactionPatience, TickPatience, SetOnlinePatience, ZenonT(60)
     DEF WireNext

\* A server that reacts to everything within a round trip is never given up for
\* silence: do_flush closes a connection that has a salt by a timeout only when
\* the server fell silent, for any queries, refusals and switches of set_online.
THEOREM LiveServerKeptAlways == WireSpec => []LiveServerKept
<1>1. PatienceInv => LiveServerKept
  BY Zenon DEF PatienceInv
<1> QED BY InitIInv, NextIInv, InitPatience, NextPatience, <1>1, PTL DEF WireSpec

=============================================================================
