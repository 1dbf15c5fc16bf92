--------------------------- MODULE TaskQueueProofs --------------------------
(***************************************************************************)
(* Facts about lists of tasks, as TaskQueue has them, and about the natural    *)
(* numbers that count along them.                                            *)
(***************************************************************************)
EXTENDS TaskQueue, SequenceTheorems, WellFoundedInduction, TLAPS

-----------------------------------------------------------------------------
(* Induction, stated with sets.                                             *)

LessThan == {pair \in Nat \X Nat : pair[1] < pair[2]}

\* There is no infinite descent in the natural numbers.
LEMMA LessThanWellFounded == IsWellFoundedOn(LessThan, Nat)
BY NatLessThanWellFounded, Zenon DEF OpToRel, LessThan

\* A set of natural numbers has a least element.
LEMMA LeastElement ==
  ASSUME NEW N, N \subseteq Nat, N # {}
  PROVE  \E x \in N : \A y \in N : x <= y
<1>1. \A x, y \in Nat : y < x => <<y, x>> \in LessThan
  BY DEF LessThan
<1>2. PICK x \in N : \A y \in N : ~ (<<y, x>> \in LessThan)
  BY LessThanWellFounded, WFMin
<1>3. ASSUME NEW y \in N PROVE x <= y
  <2>1. x \in Nat /\ y \in Nat /\ ~ (y < x)
    BY <1>1, <1>2
  <2>. QED
    BY <2>1
<1>. QED
  BY <1>3

\* A set that has 0, and the successor of each number it has, has them all.
LEMMA SetInduction ==
  ASSUME NEW N, 0 \in N, \A n \in Nat : n \in N => n + 1 \in N
  PROVE  \A n \in Nat : n \in N
<1>. SUFFICES ASSUME Nat \ N # {} PROVE FALSE
  OBVIOUS
<1>1. PICK x \in Nat \ N : \A y \in Nat \ N : x <= y
  BY LeastElement
<1>2. x # 0 /\ x - 1 \in Nat
  BY <1>1
<1>3. x - 1 \in N
  BY <1>1, <1>2
<1>. QED
  BY <1>1, <1>2, <1>3

-----------------------------------------------------------------------------
(* The task lists.                                                          *)

\* The elements of a list after task_list_insert_back.
LEMMA InListAppend ==
  ASSUME NEW S, NEW s \in Seq(S), NEW x \in S, NEW y
  PROVE  InList(y, Append(s, x)) <=> InList(y, s) \/ y = x
<1>. DEFINE a == Append(s, x)
<1>1. /\ a \in Seq(S) /\ Len(a) = Len(s) + 1 /\ a[Len(s) + 1] = x
      /\ \A i \in 1..Len(s) : a[i] = s[i]
  BY AppendProperties
<1>. HIDE DEF a
<1>2. InList(y, s) => InList(y, a)
  BY <1>1 DEF InList
<1>3. y = x => InList(y, a)
  <2>1. Len(s) + 1 \in DOMAIN a
    BY <1>1
  <2>. QED
    BY <1>1, <2>1 DEF InList
<1>4. InList(y, a) => InList(y, s) \/ y = x
  BY <1>1 DEF InList
<1>. QED
  BY <1>2, <1>3, <1>4 DEF a

\* Inserting a task that is not in a list keeps the list free of duplicates.
LEMMA InjectiveAppend ==
  ASSUME NEW S, NEW s \in Seq(S), NEW x \in S, IsInjective(s), ~InList(x, s)
  PROVE  IsInjective(Append(s, x))
BY DEF InList, IsInjective

\* The empty list has no elements.
LEMMA EmptyList ==
  /\ IsInjective(<<>>)
  /\ \A t : ~InList(t, <<>>)
BY DEF InList, IsInjective

\* In a list without duplicates there is one place where a member is.
LEMMA FirstIndexOfMember ==
  ASSUME NEW S, NEW s \in Seq(S), NEW x, IsInjective(s), InList(x, s)
  PROVE  /\ FirstIndex(x, s) \in 1..Len(s)
         /\ s[FirstIndex(x, s)] = x
<1>1. PICK i \in DOMAIN s : s[i] = x
  BY DEF InList
<1>2. \A j \in 1..(i - 1) : s[j] # x
  BY <1>1 DEF IsInjective
<1>. QED
  BY <1>1, <1>2 DEF FirstIndex

\* The elements of a list without duplicates after RemoveAt.
LEMMA RemoveAtElements ==
  ASSUME NEW S, NEW s \in Seq(S), NEW i \in 1..Len(s)
  PROVE  /\ RemoveAt(s, i) \in Seq(S)
         /\ Len(RemoveAt(s, i)) = Len(s) - 1
         /\ \A j \in 1..(Len(s) - 1) :
              RemoveAt(s, i)[j] = IF j < i THEN s[j] ELSE s[j + 1]
<1>. DEFINE l == SubSeq(s, 1, i - 1)
            r == SubSeq(s, i + 1, Len(s))
<1>1. l \in Seq(S) /\ Len(l) = i - 1 /\ \A j \in 1..(i - 1) : l[j] = s[j]
  OBVIOUS
<1>2. r \in Seq(S) /\ Len(r) = Len(s) - i /\ \A j \in 1..(Len(s) - i) : r[j] = s[i + j]
  OBVIOUS
<1>3. RemoveAt(s, i) = l \o r
  BY DEF RemoveAt
<1>. HIDE DEF l, r
<1>4. /\ l \o r \in Seq(S)
      /\ Len(l \o r) = Len(l) + Len(r)
      /\ \A j \in 1..(Len(l) + Len(r)) :
           (l \o r)[j] = IF j <= Len(l) THEN l[j] ELSE r[j - Len(l)]
  BY <1>1, <1>2, ConcatProperties
<1>. QED
  BY <1>1, <1>2, <1>3, <1>4

\* task_list_remove_task takes out the task it is given, and nothing else.
LEMMA RemoveTaskElements ==
  ASSUME NEW S, NEW s \in Seq(S), NEW x, IsInjective(s)
  PROVE  /\ RemoveTask(s, x) \in Seq(S)
         /\ IsInjective(RemoveTask(s, x))
         /\ \A y : InList(y, RemoveTask(s, x)) <=> InList(y, s) /\ y # x
<1>1. CASE ~InList(x, s)
  BY <1>1 DEF RemoveTask, InList
<1>2. CASE InList(x, s)
  <2>. DEFINE i == FirstIndex(x, s)
              r == RemoveAt(s, i)
  <2>1. i \in 1..Len(s) /\ s[i] = x
    BY <1>2, FirstIndexOfMember
  <2>2. RemoveTask(s, x) = r
    BY <1>2 DEF RemoveTask
  <2>. HIDE DEF i
  <2>3. /\ r \in Seq(S) /\ Len(r) = Len(s) - 1
        /\ \A j \in 1..(Len(s) - 1) : r[j] = IF j < i THEN s[j] ELSE s[j + 1]
    BY <2>1, RemoveAtElements
  <2>. HIDE DEF r
  <2>4. IsInjective(r)
    <3>1. ASSUME NEW j \in 1..(Len(s) - 1), NEW k \in 1..(Len(s) - 1), r[j] = r[k]
          PROVE  j = k
      <4>. DEFINE old(n) == IF n < i THEN n ELSE n + 1
      <4>1. old(j) \in 1..Len(s) /\ old(k) \in 1..Len(s)
        BY <2>1
      <4>2. s[old(j)] = s[old(k)]
        BY <2>1, <2>3, <3>1
      <4>3. old(j) = old(k)
        BY <4>1, <4>2 DEF IsInjective
      <4>. QED
        BY <2>1, <4>3
    <3>2. DOMAIN r = 1..(Len(s) - 1)
      BY <2>3
    <3>. QED
      BY <3>1, <3>2 DEF IsInjective
  <2>5. ASSUME NEW y, InList(y, r) PROVE InList(y, s) /\ y # x
    BY <2>1, <2>3, <2>5 DEF InList, IsInjective
  <2>6. ASSUME NEW y, InList(y, s), y # x PROVE InList(y, r)
    <3>1. PICK j \in 1..Len(s) : s[j] = y /\ j # i
      BY <2>1, <2>6 DEF InList
    <3>2. CASE j < i
      BY <2>1, <2>3, <3>1, <3>2 DEF InList
    <3>3. CASE j > i
      <4>1. j - 1 \in 1..(Len(s) - 1) /\ r[j - 1] = s[j]
        BY <2>1, <2>3, <3>1, <3>3
      <4>. QED
        BY <2>3, <3>1, <4>1 DEF InList
    <3>. QED
      BY <2>1, <3>1, <3>2, <3>3
  <2>. QED
    BY <2>2, <2>3, <2>4, <2>5, <2>6
<1>. QED
  BY <1>1, <1>2

\* In a list without duplicates every place is the first one of its task.
LEMMA FirstIndexAt ==
  ASSUME NEW S, NEW s \in Seq(S), IsInjective(s), NEW i \in 1..Len(s)
  PROVE  FirstIndex(s[i], s) = i /\ InList(s[i], s)
<1>1. InList(s[i], s)
  BY DEF InList
<1>2. FirstIndex(s[i], s) \in 1..Len(s) /\ s[FirstIndex(s[i], s)] = s[i]
  BY <1>1, FirstIndexOfMember
<1>. QED
  BY <1>1, <1>2 DEF IsInjective

\* The list without a task it holds is the list without the place where it is.
LEMMA RemoveTaskAt ==
  ASSUME NEW S, NEW s \in Seq(S), IsInjective(s), NEW i \in 1..Len(s)
  PROVE  RemoveTask(s, s[i]) = RemoveAt(s, i)
BY FirstIndexAt DEF RemoveTask
=============================================================================
