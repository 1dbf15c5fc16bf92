-------------------------- MODULE TaskListsProofs --------------------------
(***************************************************************************)
(* The linked lists of TaskLists implement the queues of TaskQueues, for any   *)
(* finite set of tasks and any set of lists.                                 *)
(***************************************************************************)
EXTENDS TaskLists, TaskQueueProofs, FiniteSetTheorems

-----------------------------------------------------------------------------
(* The sequence a list stands for.                                          *)

\* Place i of a sequence, where there is one.
At(s, i) == IF i \in 1..Len(s) THEN s[i] ELSE NoTask

\* Every flink of the sequence leads to the next place, and the last one nowhere.
Linked(s, fl) == \A i \in 1..Len(s) : fl[s[i]] = At(s, i + 1)

\* The list [head, tail] holds the sequence s, under the flinks fl.
Represents(s, list, fl) ==
  /\ IsInjective(s)
  /\ list = [head |-> At(s, 1), tail |-> At(s, Len(s))]
  /\ Linked(s, fl)

\* A list without duplicates is no longer than there are tasks, and as long as it has
\* elements.
LEMMA ElementsCount ==
  ASSUME NEW s \in Seq(Tasks), IsInjective(s)
  PROVE  /\ Len(s) <= Cardinality(Tasks) /\ Cardinality(Tasks) \in Nat
         /\ Cardinality({t \in Tasks : InList(t, s)}) = Len(s)
<1>. DEFINE T == {t \in Tasks : InList(t, s)}
            N == 1..Len(s)
<1>1. IsFiniteSet(N) /\ Cardinality(N) = Len(s)
  <2>1. 1 \in Int /\ Len(s) \in Int /\ Len(s) >= 0
    OBVIOUS
  <2>2. IsFiniteSet(N) /\ Cardinality(N) = IF 1 > Len(s) THEN 0 ELSE Len(s) - 1 + 1
    BY <2>1, FS_Interval
  <2>. HIDE DEF N
  <2>. QED
    BY <2>1, <2>2
<1>2. s \in Injection(N, Tasks)
  BY DEF Injection
<1>3. s \in Injection(N, T) /\ s \in Surjection(N, T)
  BY DEF Injection, Surjection, InList
<1>. HIDE DEF N, T
<1>4. Cardinality(N) <= Cardinality(Tasks) /\ Cardinality(Tasks) \in Nat
  BY <1>2, FS_Injection, FS_CardinalityType, ListAssumption
<1>5. Cardinality(T) = Cardinality(N)
  BY <1>1, <1>3, FS_Surjection
<1>. QED
  BY <1>1, <1>4, <1>5 DEF T

\* f is a solution of the recursion of Follow.
Solves(f, h, n, fl) ==
  f = [i \in 0..n |-> IF i = 0 THEN h
                      ELSE IF f[i - 1] = NoTask THEN NoTask ELSE fl[f[i - 1]]]

\* The flink of the task at a place leads to the next place.
LEMMA NextPlace ==
  ASSUME NEW s \in Seq(Tasks), NEW fl, Linked(s, fl), NEW i \in Nat \ {0}
  PROVE  At(s, i + 1) = IF At(s, i) = NoTask THEN NoTask ELSE fl[At(s, i)]
<1>1. CASE i \in 1..Len(s)
  <2>1. At(s, i) = s[i] /\ s[i] \in Tasks /\ fl[s[i]] = At(s, i + 1)
    BY <1>1 DEF At, Linked
  <2>. QED
    BY <2>1, ListAssumption
<1>2. CASE i \notin 1..Len(s)
  BY <1>2 DEF At
<1>. QED
  BY <1>1, <1>2

\* On a linked sequence it has one solution at most: its places.
LEMMA FollowSolution ==
  ASSUME NEW s \in Seq(Tasks), NEW fl, Linked(s, fl), NEW n \in Nat, NEW f,
         Solves(f, At(s, 1), n, fl)
  PROVE  f = [i \in 0..n |-> At(s, i + 1)]
<1>1. /\ f = [i \in 0..n |-> f[i]]
      /\ f[0] = At(s, 1)
      /\ \A i \in 1..n : f[i] = IF f[i - 1] = NoTask THEN NoTask ELSE fl[f[i - 1]]
  BY DEF Solves
<1>2. ASSUME NEW i \in 0..n, f[i] # At(s, i + 1) PROVE FALSE
  <2>. DEFINE N == {j \in 0..n : f[j] # At(s, j + 1)}
  <2>1. N \subseteq Nat /\ N # {}
    BY <1>2
  <2>2. PICK j \in N : \A k \in N : j <= k
    BY <2>1, LeastElement
  <2>3. j \in 0..n /\ f[j] # At(s, j + 1)
    BY <2>2
  <2>4. j # 0
    BY <1>1, <2>3
  <2>5. j \in 1..n /\ j - 1 \in 0..n /\ j - 1 \notin N
    BY <2>2, <2>3, <2>4
  <2>6. f[j - 1] = At(s, j)
    BY <2>5
  <2>7. f[j] = At(s, j + 1)
    BY <1>1, <2>5, <2>6, NextPlace
  <2>. QED
    BY <2>3, <2>7
<1>. QED
  BY <1>1, <1>2

\* And the places solve it.
LEMMA FollowSolves ==
  ASSUME NEW s \in Seq(Tasks), NEW fl, Linked(s, fl), NEW n \in Nat
  PROVE  Solves([i \in 0..n |-> At(s, i + 1)], At(s, 1), n, fl)
<1>. DEFINE g == [i \in 0..n |-> At(s, i + 1)]
<1>1. ASSUME NEW i \in 0..n
      PROVE  At(s, i + 1) = IF i = 0 THEN At(s, 1)
                            ELSE IF g[i - 1] = NoTask THEN NoTask ELSE fl[g[i - 1]]
  <2>1. CASE i = 0
    BY <2>1
  <2>2. CASE i # 0
    <3>1. i \in Nat \ {0} /\ i - 1 \in 0..n /\ g[i - 1] = At(s, i)
      BY <2>2
    <3>. QED
      BY <2>2, <3>1, NextPlace
  <2>. QED
    BY <2>1, <2>2
<1>. QED
  BY <1>1 DEF Solves

\* Following n flinks from the head leads to place n + 1.
LEMMA FollowAt ==
  ASSUME NEW s \in Seq(Tasks), NEW fl, Linked(s, fl), NEW n \in Nat
  PROVE  Follow(At(s, 1), n, fl) = At(s, n + 1)
<1>. DEFINE g == [i \in 0..n |-> At(s, i + 1)]
            h == At(s, 1)
<1>1. Solves(g, h, n, fl)
  BY FollowSolves
<1>2. \A f : Solves(f, h, n, fl) => f = g
  BY FollowSolution
<1>3. Follow(h, n, fl) = (CHOOSE f : Solves(f, h, n, fl))[n]
  BY DEF Follow, Solves
<1>. HIDE DEF g, h
<1>4. (CHOOSE f : Solves(f, h, n, fl)) = g
  BY <1>1, <1>2
<1>5. g[n] = At(s, n + 1)
  BY DEF g
<1>. QED
  BY <1>3, <1>4, <1>5 DEF h

\* The places of a list are within reach of its head.
LEMMA WithinReach ==
  ASSUME NEW s \in Seq(Tasks), NEW fl, IsInjective(s), Linked(s, fl), NEW t \in Tasks
  PROVE  (\E n \in Reach : Follow(At(s, 1), n, fl) = t) <=> InList(t, s)
<1>1. Len(s) <= Cardinality(Tasks) /\ Cardinality(Tasks) \in Nat
  BY ElementsCount
<1>2. \A n \in Reach : n \in Nat /\ Follow(At(s, 1), n, fl) = At(s, n + 1)
  BY <1>1, FollowAt DEF Reach
<1>3. ASSUME NEW n \in Reach, At(s, n + 1) = t PROVE InList(t, s)
  BY <1>3, ListAssumption DEF At, InList
<1>4. ASSUME InList(t, s) PROVE \E n \in Reach : At(s, n + 1) = t
  <2>1. PICK i \in 1..Len(s) : s[i] = t
    BY <1>4 DEF InList
  <2>2. i - 1 \in Reach /\ At(s, (i - 1) + 1) = t
    BY <1>1, <2>1 DEF Reach, At
  <2>. QED
    BY <2>2
<1>. QED
  BY <1>2, <1>3, <1>4

\* Searching a list finds the tasks of the sequence it holds.
LEMMA HoldsElements ==
  ASSUME NEW s \in Seq(Tasks), NEW list, NEW fl, Represents(s, list, fl), NEW t \in Tasks
  PROVE  Holds(list, t, fl) <=> InList(t, s)
BY WithinReach DEF Represents, Holds

\* The walk to the tail ends at the last place.
LEMMA LastFromPlace ==
  ASSUME NEW s \in Seq(Tasks), NEW fl, IsInjective(s), Linked(s, fl)
  PROVE  LastFrom(At(s, 1), fl) = At(s, Len(s))
<1>1. CASE s = <<>>
  BY <1>1 DEF LastFrom, At
<1>2. CASE s # <<>>
  <2>1. Len(s) \in 1..Len(s) /\ 1 \in 1..Len(s)
    BY <1>2
  <2>2. At(s, 1) # NoTask /\ At(s, Len(s)) = s[Len(s)] /\ s[Len(s)] \in Tasks
    BY <2>1, ListAssumption DEF At
  <2>. DEFINE Ends(t) == fl[t] = NoTask /\ \E n \in Reach : Follow(At(s, 1), n, fl) = t
  <2>3. \A t \in Tasks : Ends(t) <=> t = s[Len(s)]
    <3>1. \A i \in 1..Len(s) : fl[s[i]] = NoTask <=> i = Len(s)
      <4>1. \A i \in 1..Len(s) : fl[s[i]] = At(s, i + 1)
        BY DEF Linked
      <4>2. \A i \in 1..Len(s) : At(s, i + 1) = NoTask <=> i = Len(s)
        BY ListAssumption DEF At
      <4>. QED
        BY <4>1, <4>2
    <3>2. \A t \in Tasks : Ends(t) <=> fl[t] = NoTask /\ InList(t, s)
      BY WithinReach
    <3>3. \A t : InList(t, s) <=> \E i \in 1..Len(s) : s[i] = t
      BY DEF InList
    <3>. HIDE DEF Ends
    <3>. QED
      BY <2>1, <3>1, <3>2, <3>3
  <2>4. LastFrom(At(s, 1), fl) = CHOOSE t \in Tasks : Ends(t)
    BY <2>2 DEF LastFrom
  <2>. HIDE DEF Ends
  <2>. QED
    BY <2>2, <2>3, <2>4
<1>. QED
  BY <1>1, <1>2

\* The walk from the head reads the sequence.
LEMMA ContentsRepresented ==
  ASSUME NEW s \in Seq(Tasks), NEW list, NEW fl, Represents(s, list, fl)
  PROVE  Contents(list, fl) = s
<1>. DEFINE n == Cardinality({t \in Tasks : Holds(list, t, fl)})
<1>1. n = Len(s)
  <2>1. {t \in Tasks : Holds(list, t, fl)} = {t \in Tasks : InList(t, s)}
    BY HoldsElements
  <2>. QED
    BY <2>1, ElementsCount DEF Represents
<1>2. list.head = At(s, 1) /\ Linked(s, fl)
  BY DEF Represents
<1>3. \A i \in 1..Len(s) : Follow(list.head, i - 1, fl) = s[i]
  <2>1. ASSUME NEW i \in 1..Len(s) PROVE Follow(At(s, 1), i - 1, fl) = At(s, (i - 1) + 1)
    BY <1>2, FollowAt
  <2>. QED
    BY <1>2, <2>1 DEF At
<1>4. Contents(list, fl) = [i \in 1..n |-> Follow(list.head, i - 1, fl)]
  BY DEF Contents
<1>. HIDE DEF n
<1>5. Contents(list, fl) = [i \in 1..Len(s) |-> s[i]]
  BY <1>1, <1>3, <1>4
<1>. QED
  BY <1>5

-----------------------------------------------------------------------------
(* The operations.                                                          *)

Flinks == [Tasks -> Tasks \cup {NoTask}]

\* A list stands for the same sequence as long as the flinks of its tasks do not move.
LEMMA RepresentsKept ==
  ASSUME NEW s \in Seq(Tasks), NEW list, NEW fl, NEW fl2, Represents(s, list, fl),
         \A u \in Tasks : InList(u, s) => fl2[u] = fl[u]
  PROVE  Represents(s, list, fl2)
<1>1. \A i \in 1..Len(s) : s[i] \in Tasks /\ InList(s[i], s)
  BY DEF InList
<1>. QED
  BY <1>1 DEF Represents, Linked

\* task_list_insert_back adds a task that is not in the list at the end of its sequence,
\* and moves only the flinks of the list and the task.
LEMMA InsertBackRepresents ==
  ASSUME NEW s \in Seq(Tasks), NEW list, NEW fl \in Flinks, Represents(s, list, fl),
         NEW t \in Tasks, ~InList(t, s)
  PROVE  LET r == InsertBack(list, t, fl)
         IN  /\ Represents(Append(s, t), r.list, r.flink)
             /\ r.flink \in Flinks
             /\ \A u \in Tasks : u # t /\ ~InList(u, s) => r.flink[u] = fl[u]
<1>. DEFINE r == InsertBack(list, t, fl)
            a == Append(s, t)
<1>1. /\ a \in Seq(Tasks) /\ Len(a) = Len(s) + 1 /\ a[Len(s) + 1] = t
      /\ \A i \in 1..Len(s) : a[i] = s[i]
  BY AppendProperties
<1>2. IsInjective(a)
  BY InjectiveAppend DEF Represents
<1>3. /\ list = [head |-> At(s, 1), tail |-> At(s, Len(s))] /\ Linked(s, fl)
      /\ IsInjective(s)
  BY DEF Represents
<1>. HIDE DEF a
<1>4. CASE s = <<>>
  <2>1. r = [list |-> [head |-> t, tail |-> t], flink |-> [fl EXCEPT ![t] = NoTask]]
    BY <1>3, <1>4 DEF InsertBack, At
  <2>2. Len(a) = 1 /\ a[1] = t
    BY <1>1, <1>4
  <2>3. r.list = [head |-> At(a, 1), tail |-> At(a, Len(a))]
    BY <2>1, <2>2 DEF At
  <2>4. r.flink[t] = NoTask /\ \A u \in Tasks : u # t => r.flink[u] = fl[u]
    BY <2>1 DEF Flinks
  <2>5. r.flink \in Flinks
    BY <2>1 DEF Flinks
  <2>6. Linked(a, r.flink)
    BY <2>2, <2>4 DEF Linked, At
  <2>. QED
    BY <1>2, <2>3, <2>4, <2>5, <2>6 DEF Represents, a
<1>5. CASE s # <<>>
  <2>. DEFINE z == s[Len(s)]
  <2>1. Len(s) \in 1..Len(s) /\ 1 \in 1..Len(s) /\ z \in Tasks /\ InList(z, s) /\ z # t
    BY <1>5 DEF InList
  <2>2. list.tail = z /\ list.tail # NoTask
    BY <1>3, <2>1, ListAssumption DEF At
  <2>. HIDE DEF z
  <2>3. /\ r.list = [list EXCEPT !.tail = t]
        /\ r.flink = [[fl EXCEPT ![z] = t] EXCEPT ![t] = NoTask]
    BY <2>2 DEF InsertBack
  <2>4. r.list = [head |-> At(a, 1), tail |-> At(a, Len(a))]
    <3>1. At(a, 1) = At(s, 1) /\ At(a, Len(a)) = t
      BY <1>1, <2>1 DEF At
    <3>. QED
      BY <1>3, <2>3, <3>1
  <2>5. /\ r.flink[t] = NoTask /\ r.flink[z] = t
        /\ \A u \in Tasks : u # t /\ u # z => r.flink[u] = fl[u]
    BY <2>1, <2>3 DEF Flinks
  <2>6. r.flink \in Flinks
    BY <2>3 DEF Flinks
  <2>7. ASSUME NEW i \in 1..Len(a) PROVE r.flink[a[i]] = At(a, i + 1)
    <3>1. CASE i = Len(s) + 1
      BY <1>1, <2>5, <3>1 DEF At
    <3>2. CASE i = Len(s)
      BY <1>1, <2>1, <2>5, <3>2 DEF At, z
    <3>3. CASE i < Len(s)
      <4>1. i \in 1..Len(s) /\ s[i] \in Tasks /\ s[i] # z /\ s[i] # t
        BY <1>3, <2>1, <3>3 DEF z, IsInjective, InList
      <4>2. fl[s[i]] = At(s, i + 1)
        BY <1>3, <4>1 DEF Linked
      <4>3. At(s, i + 1) = At(a, i + 1)
        BY <1>1, <3>3 DEF At
      <4>. QED
        BY <1>1, <2>5, <4>1, <4>2, <4>3
    <3>. QED
      BY <1>1, <3>1, <3>2, <3>3
  <2>. QED
    BY <1>2, <2>1, <2>4, <2>5, <2>6, <2>7 DEF Represents, Linked, a
<1>. QED
  BY <1>4, <1>5

\* task_list_insert_front adds it at the front.
LEMMA InsertFrontRepresents ==
  ASSUME NEW s \in Seq(Tasks), NEW list, NEW fl \in Flinks, Represents(s, list, fl),
         NEW t \in Tasks, ~InList(t, s)
  PROVE  LET r == InsertFront(list, t, fl)
         IN  /\ Represents(<<t>> \o s, r.list, r.flink)
             /\ r.flink \in Flinks
             /\ \A u \in Tasks : u # t /\ ~InList(u, s) => r.flink[u] = fl[u]
<1>. DEFINE r == InsertFront(list, t, fl)
            a == <<t>> \o s
<1>1. /\ a \in Seq(Tasks) /\ Len(a) = Len(s) + 1 /\ a[1] = t
      /\ \A i \in 1..Len(s) : a[i + 1] = s[i]
      /\ \A i \in 2..Len(a) : a[i] = s[i - 1]
  OBVIOUS
<1>2. /\ list = [head |-> At(s, 1), tail |-> At(s, Len(s))] /\ Linked(s, fl)
      /\ IsInjective(s)
  BY DEF Represents
<1>. HIDE DEF a
<1>3. IsInjective(a)
  <2>1. \A i \in 2..Len(a) : i - 1 \in 1..Len(s) /\ a[i] # t
    BY <1>1 DEF InList
  <2>2. ASSUME NEW i \in 1..Len(a), NEW j \in 1..Len(a), a[i] = a[j] PROVE i = j
    <3>1. CASE i = 1 \/ j = 1
      BY <1>1, <2>1, <2>2, <3>1
    <3>2. CASE i # 1 /\ j # 1
      <4>1. i - 1 \in 1..Len(s) /\ j - 1 \in 1..Len(s) /\ s[i - 1] = s[j - 1]
        BY <1>1, <2>2, <3>2
      <4>2. i - 1 = j - 1
        BY <1>2, <4>1 DEF IsInjective
      <4>. QED
        BY <4>2
    <3>. QED
      BY <3>1, <3>2
  <2>. QED
    BY <1>1, <2>2 DEF IsInjective
<1>4. r.flink = [fl EXCEPT ![t] = At(s, 1)]
  BY <1>2 DEF InsertFront
<1>5. r.list = [head |-> At(a, 1), tail |-> At(a, Len(a))]
  <2>1. CASE s = <<>>
    <3>1. At(s, 1) = NoTask /\ Len(a) = 1
      BY <1>1, <2>1 DEF At
    <3>. QED
      BY <1>1, <1>2, <3>1 DEF InsertFront, At
  <2>2. CASE s # <<>>
    <3>1. 1 \in 1..Len(s) /\ Len(s) \in 1..Len(s) /\ At(s, 1) # NoTask
      BY <2>2, ListAssumption DEF At
    <3>2. At(a, 1) = t /\ At(a, Len(a)) = At(s, Len(s))
      BY <1>1, <3>1 DEF At
    <3>3. r.list = [list EXCEPT !.head = t]
      BY <1>2, <3>1 DEF InsertFront
    <3>. QED
      BY <1>2, <3>2, <3>3
  <2>. QED
    BY <2>1, <2>2
<1>6. r.flink[t] = At(s, 1) /\ \A u \in Tasks : u # t => r.flink[u] = fl[u]
  BY <1>4 DEF Flinks
<1>7. r.flink \in Flinks
  BY <1>4 DEF Flinks, At
<1>8. ASSUME NEW i \in 1..Len(a) PROVE r.flink[a[i]] = At(a, i + 1)
  <2>1. At(a, i + 1) = At(s, i)
    BY <1>1 DEF At
  <2>2. CASE i = 1
    BY <1>1, <1>6, <2>1, <2>2
  <2>3. CASE i # 1
    <3>1. i - 1 \in 1..Len(s) /\ a[i] = s[i - 1] /\ s[i - 1] # t
      BY <1>1, <2>3 DEF InList
    <3>2. fl[s[i - 1]] = At(s, (i - 1) + 1)
      BY <1>2, <3>1 DEF Linked
    <3>. QED
      BY <1>6, <2>1, <3>1, <3>2
  <2>. QED
    BY <2>2, <2>3
<1>. QED
  BY <1>3, <1>5, <1>6, <1>7, <1>8 DEF Represents, Linked, a

\* task_list_remove_task takes the task out of the sequence, and moves only the flinks of
\* the list.
LEMMA RemoveFromRepresents ==
  ASSUME NEW s \in Seq(Tasks), NEW list, NEW fl \in Flinks, Represents(s, list, fl),
         NEW t \in Tasks
  PROVE  LET r == RemoveFrom(list, t, fl)
         IN  /\ Represents(RemoveTask(s, t), r.list, r.flink)
             /\ r.flink \in Flinks
             /\ \A u \in Tasks : ~InList(u, s) => r.flink[u] = fl[u]
<1>. DEFINE r == RemoveFrom(list, t, fl)
<1>1. CASE ~InList(t, s)
  <2>1. RemoveTask(s, t) = s /\ ~Holds(list, t, fl)
    BY <1>1, HoldsElements DEF RemoveTask
  <2>2. r = [list |-> list, flink |-> fl]
    BY <2>1 DEF RemoveFrom
  <2>. QED
    BY <2>1, <2>2
<1>2. CASE InList(t, s)
  <2>1. PICK k \in 1..Len(s) : s[k] = t
    BY <1>2 DEF InList
  <2>2. /\ list = [head |-> At(s, 1), tail |-> At(s, Len(s))] /\ Linked(s, fl)
        /\ IsInjective(s)
    BY DEF Represents
  <2>. DEFINE Place(i) == /\ Follow(list.head, i, fl) = t
                          /\ \A j \in 0..(i - 1) : Follow(list.head, j, fl) # t
              n  == CHOOSE i \in Reach : Place(i)
              f2 == IF n = 0 THEN fl
                    ELSE [fl EXCEPT ![Follow(list.head, n - 1, fl)] = fl[t]]
              h  == IF n = 0 THEN fl[t] ELSE list.head
  <2>3. Holds(list, t, fl)
    BY <1>2, HoldsElements
  <2>4. r = [list |-> [head |-> h, tail |-> LastFrom(h, f2)], flink |-> f2]
    BY <2>3 DEF RemoveFrom
  <2>5. n = k - 1
    <3>1. k - 1 \in Reach /\ Reach \subseteq Nat
      <4>1. Len(s) <= Cardinality(Tasks) /\ Cardinality(Tasks) \in Nat
        BY <2>2, ElementsCount
      <4>. QED
        BY <4>1 DEF Reach
    <3>2. \A i \in Nat : Follow(list.head, i, fl) = At(s, i + 1)
      BY <2>2, FollowAt
    <3>3. \A i \in Nat : At(s, i + 1) = t <=> i = k - 1
      BY <2>1, <2>2, ListAssumption DEF At, IsInjective
    <3>4. \A i \in Nat : Follow(list.head, i, fl) = t <=> i = k - 1
      BY <3>2, <3>3
    <3>5. ASSUME NEW i \in Nat, i = k - 1 PROVE Place(i)
      <4>1. \A j \in 0..(i - 1) : j \in Nat /\ j # k - 1
        BY <3>5
      <4>. QED
        BY <3>4, <3>5, <4>1
    <3>6. \A i \in Reach : Place(i) <=> i = k - 1
      BY <3>1, <3>4, <3>5
    <3>. HIDE DEF Place
    <3>. QED
      BY <3>1, <3>6
  <2>6. fl[t] = At(s, k + 1)
    BY <2>1, <2>2 DEF Linked
  <2>7. f2 = IF k = 1 THEN fl ELSE [fl EXCEPT ![s[k - 1]] = At(s, k + 1)]
    <3>1. k # 1 => Follow(list.head, (k - 1) - 1, fl) = s[k - 1]
      <4>1. ASSUME k # 1 PROVE Follow(At(s, 1), k - 2, fl) = At(s, (k - 2) + 1)
        BY <2>2, <4>1, FollowAt
      <4>. QED
        BY <2>2, <4>1 DEF At
    <3>. HIDE DEF n
    <3>2. n = 0 <=> k = 1
      BY <2>5
    <3>3. k # 1 => Follow(list.head, n - 1, fl) = s[k - 1]
      BY <2>5, <3>1
    <3>. QED
      BY <2>6, <3>2, <3>3
  <2>8. h = IF k = 1 THEN At(s, 2) ELSE At(s, 1)
    <3>. HIDE DEF n
    <3>. QED
      BY <2>2, <2>5, <2>6
  <2>. HIDE DEF n, f2, h
  <2>. DEFINE s2 == RemoveTask(s, t)
  <2>9. /\ s2 \in Seq(Tasks) /\ IsInjective(s2) /\ Len(s2) = Len(s) - 1
        /\ \A j \in 1..(Len(s) - 1) : s2[j] = IF j < k THEN s[j] ELSE s[j + 1]
    <3>1. s2 = RemoveAt(s, k)
      BY <2>1, <2>2, RemoveTaskAt
    <3>2. s2 \in Seq(Tasks) /\ IsInjective(s2)
      BY <2>2, RemoveTaskElements
    <3>. QED
      BY <3>1, <3>2, RemoveAtElements
  <2>. HIDE DEF s2
  <2>10. \A i \in Nat \ {0} : At(s2, i) = IF i < k THEN At(s, i) ELSE At(s, i + 1)
    BY <2>9 DEF At
  <2>11. h = At(s2, 1)
    BY <2>8, <2>10
  <2>12. f2 \in Flinks /\ \A u \in Tasks : (k = 1 \/ u # s[k - 1]) => f2[u] = fl[u]
    BY <2>7 DEF Flinks, At
  <2>13. k # 1 => k - 1 \in 1..Len(s) /\ f2[s[k - 1]] = At(s, k + 1)
    BY <2>7 DEF Flinks
  <2>14. ASSUME NEW i \in 1..Len(s2) PROVE f2[s2[i]] = At(s2, i + 1)
    <3>1. /\ i \in 1..Len(s) /\ i + 1 \in 1..Len(s) /\ i + 1 \in Nat \ {0}
          /\ s[i] \in Tasks /\ s[i + 1] \in Tasks
      BY <2>9
    <3>2. At(s2, i + 1) = IF i + 1 < k THEN At(s, i + 1) ELSE At(s, (i + 1) + 1)
      BY <2>10, <3>1
    <3>3. fl[s[i]] = At(s, i + 1) /\ fl[s[i + 1]] = At(s, (i + 1) + 1)
      BY <2>2, <3>1 DEF Linked
    <3>4. s2[i] = IF i < k THEN s[i] ELSE s[i + 1]
      BY <2>9
    <3>5. CASE i + 1 < k
      <4>1. i < k /\ s[i] # s[k - 1]
        BY <2>2, <3>1, <3>5 DEF IsInjective
      <4>. QED
        BY <2>12, <3>1, <3>2, <3>3, <3>4, <3>5, <4>1
    <3>6. CASE i + 1 = k
      <4>1. i < k /\ k # 1 /\ i = k - 1 /\ ~(i + 1 < k)
        BY <3>1, <3>6
      <4>. QED
        BY <2>13, <3>2, <3>4, <3>6, <4>1
    <3>7. CASE i + 1 > k
      <4>1. ~(i + 1 < k) /\ ~(i < k) /\ (k = 1 \/ s[i + 1] # s[k - 1])
        BY <2>2, <3>1, <3>7 DEF IsInjective
      <4>. QED
        BY <2>12, <3>1, <3>2, <3>3, <3>4, <4>1
    <3>. QED
      BY <3>1, <3>5, <3>6, <3>7
  <2>15. Linked(s2, f2)
    BY <2>14 DEF Linked
  <2>16. LastFrom(h, f2) = At(s2, Len(s2))
    BY <2>9, <2>11, <2>15, LastFromPlace
  <2>17. \A u \in Tasks : ~InList(u, s) => f2[u] = fl[u]
    BY <2>12, <2>13 DEF InList
  <2>. QED
    BY <2>4, <2>9, <2>11, <2>12, <2>15, <2>16, <2>17 DEF Represents, s2
<1>. QED
  BY <1>1, <1>2

-----------------------------------------------------------------------------
(* The inductive invariant.                                                 *)

\* The lists ls hold the queues q, no task twice, under the flinks fl.
StandFor(q, ls, fl) ==
  /\ fl \in Flinks
  /\ ls \in [Lists -> [head : Tasks \cup {NoTask}, tail : Tasks \cup {NoTask}]]
  /\ \A l \in Lists : Represents(q[l], ls[l], fl)
  /\ \A k, l \in Lists : \A t \in Tasks : InList(t, q[k]) /\ InList(t, q[l]) => k = l

\* There are such queues.
ListsInv == \E q \in [Lists -> Seq(Tasks)] : StandFor(q, lists, flink)

\* They are the contents of the lists.
LEMMA ContentsStand ==
  ASSUME NEW q \in [Lists -> Seq(Tasks)], NEW ls, NEW fl, StandFor(q, ls, fl)
  PROVE  [l \in Lists |-> Contents(ls[l], fl)] = q
<1>1. \A l \in Lists : Contents(ls[l], fl) = q[l]
  BY ContentsRepresented DEF StandFor
<1>. QED
  BY <1>1

\* A task is queued in the lists when it is in a queue.
LEMMA QueuedStand ==
  ASSUME NEW q \in [Lists -> Seq(Tasks)], StandFor(q, lists, flink), NEW t \in Tasks
  PROVE  Queued(t) <=> \E l \in Lists : InList(t, q[l])
BY HoldsElements DEF StandFor, Queued

\* An operation on one list changes its queue alone, as long as it touches no flink of
\* another list and takes no task from one.
LEMMA UpdateStands ==
  ASSUME NEW q \in [Lists -> Seq(Tasks)], StandFor(q, lists, flink),
         NEW l \in Lists, NEW s \in Seq(Tasks), NEW r, r.flink \in Flinks,
         Represents(s, r.list, r.flink), Update(l, r),
         \A k \in Lists \ {l}, u \in Tasks :
           InList(u, q[k]) => r.flink[u] = flink[u] /\ ~InList(u, s)
  PROVE  StandFor([q EXCEPT ![l] = s], lists', flink')
<1>. DEFINE q2 == [q EXCEPT ![l] = s]
<1>1. lists' = [lists EXCEPT ![l] = r.list] /\ flink' = r.flink
  BY DEF Update
<1>2. r.list \in [head : Tasks \cup {NoTask}, tail : Tasks \cup {NoTask}]
  BY DEF Represents, At
<1>3. lists' \in [Lists -> [head : Tasks \cup {NoTask}, tail : Tasks \cup {NoTask}]]
  BY <1>1, <1>2 DEF StandFor
<1>4. q2[l] = s /\ lists'[l] = r.list
  BY <1>1 DEF StandFor
<1>5. ASSUME NEW k \in Lists, k # l
      PROVE  /\ q2[k] = q[k] /\ lists'[k] = lists[k]
             /\ Represents(q[k], lists[k], r.flink)
  <2>1. q2[k] = q[k] /\ lists'[k] = lists[k]
    BY <1>1, <1>5 DEF StandFor
  <2>2. q[k] \in Seq(Tasks) /\ Represents(q[k], lists[k], flink)
    BY DEF StandFor
  <2>3. \A u \in Tasks : InList(u, q[k]) => r.flink[u] = flink[u]
    BY <1>5
  <2>. QED
    BY <2>1, <2>2, <2>3, RepresentsKept
<1>6. \A k \in Lists : Represents(q2[k], lists'[k], r.flink)
  BY <1>4, <1>5
<1>7. ASSUME NEW j \in Lists, NEW k \in Lists, NEW t \in Tasks,
             InList(t, q2[j]), InList(t, q2[k])
      PROVE  j = k
  BY <1>4, <1>5, <1>7 DEF StandFor
<1>. HIDE DEF q2
<1>8. StandFor(q2, lists', flink')
  BY <1>1, <1>3, <1>6, <1>7 DEF StandFor
<1>. QED
  BY <1>8 DEF q2

\* Each operation on the lists is the same operation on the queues they stand for.
LEMMA StepStands ==
  ASSUME NEW q \in [Lists -> Seq(Tasks)], StandFor(q, lists, flink),
         NEW l \in Lists, NEW t \in Tasks
  PROVE  /\ PushBack(l, t) =>
              /\ \A k \in Lists : ~InList(t, q[k])
              /\ StandFor([q EXCEPT ![l] = Append(q[l], t)], lists', flink')
         /\ PushFront(l, t) =>
              /\ \A k \in Lists : ~InList(t, q[k])
              /\ StandFor([q EXCEPT ![l] = <<t>> \o q[l]], lists', flink')
         /\ TakeOut(l, t) => StandFor([q EXCEPT ![l] = RemoveTask(q[l], t)], lists', flink')
<1>. DEFINE s == q[l]
            list == lists[l]
<1>1. s \in Seq(Tasks) /\ Represents(s, list, flink) /\ flink \in Flinks /\ IsInjective(s)
  BY DEF StandFor, Represents
<1>2. \A k \in Lists \ {l}, u \in Tasks : InList(u, q[k]) => ~InList(u, s)
  BY DEF StandFor
<1>3. Queued(t) <=> \E k \in Lists : InList(t, q[k])
  BY QueuedStand
<1>. HIDE DEF s, list
<1>4. ASSUME PushBack(l, t)
      PROVE  /\ \A k \in Lists : ~InList(t, q[k])
             /\ StandFor([q EXCEPT ![l] = Append(s, t)], lists', flink')
  <2>. DEFINE r == InsertBack(list, t, flink)
              a == Append(s, t)
  <2>1. Update(l, r) /\ \A k \in Lists : ~InList(t, q[k])
    BY <1>3, <1>4 DEF PushBack, list
  <2>2. /\ Represents(a, r.list, r.flink) /\ r.flink \in Flinks
        /\ \A u \in Tasks : u # t /\ ~InList(u, s) => r.flink[u] = flink[u]
    BY <1>1, <2>1, InsertBackRepresents DEF s
  <2>3. a \in Seq(Tasks) /\ \A u : InList(u, a) <=> InList(u, s) \/ u = t
    BY <1>1, InListAppend
  <2>. HIDE DEF r, a
  <2>4. StandFor([q EXCEPT ![l] = a], lists', flink')
    BY <1>2, <2>1, <2>2, <2>3, UpdateStands
  <2>. QED
    BY <2>1, <2>4 DEF a
<1>5. ASSUME PushFront(l, t)
      PROVE  /\ \A k \in Lists : ~InList(t, q[k])
             /\ StandFor([q EXCEPT ![l] = <<t>> \o s], lists', flink')
  <2>. DEFINE r == InsertFront(list, t, flink)
              a == <<t>> \o s
  <2>1. Update(l, r) /\ \A k \in Lists : ~InList(t, q[k])
    BY <1>3, <1>5 DEF PushFront, list
  <2>2. /\ Represents(a, r.list, r.flink) /\ r.flink \in Flinks
        /\ \A u \in Tasks : u # t /\ ~InList(u, s) => r.flink[u] = flink[u]
    BY <1>1, <2>1, InsertFrontRepresents DEF s
  <2>3. a \in Seq(Tasks) /\ \A u : InList(u, a) => InList(u, s) \/ u = t
    BY <1>1 DEF InList
  <2>. HIDE DEF r, a
  <2>4. StandFor([q EXCEPT ![l] = a], lists', flink')
    BY <1>2, <2>1, <2>2, <2>3, UpdateStands
  <2>. QED
    BY <2>1, <2>4 DEF a
<1>6. ASSUME TakeOut(l, t)
      PROVE  StandFor([q EXCEPT ![l] = RemoveTask(s, t)], lists', flink')
  <2>. DEFINE r == RemoveFrom(list, t, flink)
              a == RemoveTask(s, t)
  <2>1. Update(l, r)
    BY <1>6 DEF TakeOut, list
  <2>2. /\ Represents(a, r.list, r.flink) /\ r.flink \in Flinks
        /\ \A u \in Tasks : ~InList(u, s) => r.flink[u] = flink[u]
    BY <1>1, RemoveFromRepresents
  <2>3. a \in Seq(Tasks) /\ \A u : InList(u, a) => InList(u, s)
    BY <1>1, RemoveTaskElements
  <2>. HIDE DEF r, a
  <2>4. StandFor([q EXCEPT ![l] = a], lists', flink')
    BY <1>2, <2>1, <2>2, <2>3, UpdateStands
  <2>. QED
    BY <2>4 DEF a
<1>. QED
  BY <1>4, <1>5, <1>6 DEF s

\* A step of TaskQueues, from the queues q to the queues q2.
QueuesStep(q, q2, l, t) ==
  \/ /\ \A k \in Lists : ~InList(t, q[k])
     /\ q2 = [q EXCEPT ![l] = Append(q[l], t)] \/ q2 = [q EXCEPT ![l] = <<t>> \o q[l]]
  \/ q2 = [q EXCEPT ![l] = RemoveTask(q[l], t)]

\* Every step of the lists is one, or leaves the queues as they are.
LEMMA StepRefines ==
  ASSUME NEW q \in [Lists -> Seq(Tasks)], StandFor(q, lists, flink), [Next]_listVars
  PROVE  \E q2 \in [Lists -> Seq(Tasks)] :
           /\ StandFor(q2, lists', flink')
           /\ q2 = q \/ \E l \in Lists, t \in Tasks : QueuesStep(q, q2, l, t)
<1>1. CASE UNCHANGED listVars
  BY <1>1 DEF listVars
<1>2. ASSUME NEW l \in Lists, NEW t \in Tasks,
             PushFront(l, t) \/ PushBack(l, t) \/ TakeOut(l, t)
      PROVE  \E q2 \in [Lists -> Seq(Tasks)] :
               StandFor(q2, lists', flink') /\ QueuesStep(q, q2, l, t)
  <2>1. /\ [q EXCEPT ![l] = Append(q[l], t)] \in [Lists -> Seq(Tasks)]
        /\ [q EXCEPT ![l] = <<t>> \o q[l]] \in [Lists -> Seq(Tasks)]
        /\ [q EXCEPT ![l] = RemoveTask(q[l], t)] \in [Lists -> Seq(Tasks)]
    <3>1. /\ Append(q[l], t) \in Seq(Tasks) /\ <<t>> \o q[l] \in Seq(Tasks)
          /\ IsInjective(q[l])
      BY DEF StandFor, Represents
    <3>2. RemoveTask(q[l], t) \in Seq(Tasks)
      BY <3>1, RemoveTaskElements
    <3>. QED
      BY <3>1, <3>2
  <2>. QED
    BY <1>2, <2>1, StepStands DEF QueuesStep
<1>3. CASE Next
  <2>1. PICK l \in Lists, t \in Tasks : PushFront(l, t) \/ PushBack(l, t) \/ TakeOut(l, t)
    BY <1>3 DEF Next
  <2>. QED
    BY <1>2, <2>1
<1>. QED
  BY <1>1, <1>3

\* No list holds a task after boot.
LEMMA InitStands ==
  ASSUME Init
  PROVE  StandFor([l \in Lists |-> <<>>], lists, flink)
<1>1. Represents(<<>>, EmptyTaskList, flink)
  BY EmptyList DEF Represents, Linked, At, EmptyTaskList
<1>2. flink \in Flinks
  BY DEF Init, Flinks
<1>. QED
  BY <1>1, <1>2, EmptyList DEF Init, StandFor, EmptyTaskList

-----------------------------------------------------------------------------
(* The theorems.                                                            *)

\* The inductive invariant holds of every reachable state.
THEOREM ListsInvariant == Spec => []ListsInv
<1>1. Init => ListsInv
  <2>1. [l \in Lists |-> <<>>] \in [Lists -> Seq(Tasks)]
    OBVIOUS
  <2>. QED
    BY <2>1, InitStands DEF ListsInv
<1>2. ListsInv /\ [Next]_listVars => ListsInv'
  BY StepRefines DEF ListsInv
<1>. QED
  BY <1>1, <1>2, PTL DEF Spec

\* The pointers of the lists lead to control blocks or are NULL.
THEOREM PointersCorrect == Spec => []TypeOK
<1>1. ListsInv => TypeOK
  BY DEF ListsInv, StandFor, Flinks, TypeOK
<1>. QED
  BY <1>1, ListsInvariant, PTL

\* Insertion at the tail, removal and the search for the new tail keep the tail pointer
\* at the end of the walk from the head, which ends.
THEOREM TailsCorrect == Spec => []TailEndsTheWalk
<1>1. ASSUME NEW q \in [Lists -> Seq(Tasks)], StandFor(q, lists, flink), NEW l \in Lists
      PROVE  LET list == lists[l]
             IN  /\ list.head = NoTask <=> list.tail = NoTask
                 /\ list.tail # NoTask =>
                      Holds(list, list.tail, flink) /\ flink[list.tail] = NoTask
  <2>. DEFINE s == q[l]
              list == lists[l]
  <2>1. s \in Seq(Tasks) /\ Represents(s, list, flink)
    BY <1>1 DEF StandFor
  <2>. HIDE DEF s, list
  <2>2. list.head = At(s, 1) /\ list.tail = At(s, Len(s)) /\ Linked(s, flink)
    BY <2>1 DEF Represents
  <2>3. CASE s = <<>>
    BY <2>2, <2>3 DEF At, list
  <2>4. CASE s # <<>>
    <3>1. 1 \in 1..Len(s) /\ Len(s) \in 1..Len(s) /\ s[Len(s)] \in Tasks /\ s[1] \in Tasks
      BY <2>1, <2>4
    <3>2. list.tail = s[Len(s)] /\ list.tail \in Tasks /\ list.head \in Tasks
      BY <2>2, <3>1 DEF At
    <3>3. Holds(list, list.tail, flink)
      BY <2>1, <3>1, <3>2, HoldsElements DEF InList
    <3>4. flink[s[Len(s)]] = NoTask
      <4>1. flink[s[Len(s)]] = At(s, Len(s) + 1)
        BY <2>2, <3>1 DEF Linked
      <4>. QED
        BY <2>1, <4>1 DEF At
    <3>. QED
      BY <3>2, <3>3, <3>4, ListAssumption DEF list
  <2>. QED
    BY <2>3, <2>4
<1>2. ListsInv => TailEndsTheWalk
  BY <1>1 DEF ListsInv, TailEndsTheWalk
<1>. QED
  BY <1>2, ListsInvariant, PTL

\* One flink serves all lists, and yet no operation on a list reaches another.
THEOREM ListsStayDisjoint == Spec => []ListsDisjoint
<1>1. ListsInv => ListsDisjoint
  BY HoldsElements DEF ListsInv, StandFor, ListsDisjoint
<1>. QED
  BY <1>1, ListsInvariant, PTL

\* The queues the lists stand for.
Queues == [l \in Lists |-> Contents(lists[l], flink)]

\* The linked lists implement the queues Scheduler takes them for: the initial state maps
\* to empty queues, and every operation on the pointers to the same one on the queues.
THEOREM ListsImplementQueues == Spec => ImplementsQueues
<1>1. ASSUME NEW q \in [Lists -> Seq(Tasks)], StandFor(q, lists, flink) PROVE Queues = q
  BY <1>1, ContentsStand DEF Queues
<1>2. ASSUME NEW q \in [Lists -> Seq(Tasks)], StandFor(q, lists', flink') PROVE Queues' = q
  <2>1. Queues' = [l \in Lists |-> Contents(lists'[l], flink')]
    BY DEF Queues, Contents
  <2>. QED
    BY <1>2, <2>1, ContentsStand
<1>3. ASSUME NEW s, NEW t
      PROVE  /\ Abstract!InList(t, s) <=> InList(t, s)
             /\ Abstract!RemoveTask(s, t) = RemoveTask(s, t)
  BY DEF Abstract!InList, InList, Abstract!RemoveTask, RemoveTask, Abstract!FirstIndex,
         FirstIndex, Abstract!RemoveAt, RemoveAt
<1>4. Init => Abstract!Init
  <2>1. [l \in Lists |-> <<>>] \in [Lists -> Seq(Tasks)]
    OBVIOUS
  <2>2. Init => Queues = [l \in Lists |-> <<>>]
    BY <1>1, <2>1, InitStands
  <2>. QED
    BY <2>2 DEF Abstract!Init, Queues
<1>5. ASSUME ListsInv, [Next]_listVars PROVE [Abstract!Next]_Queues
  <2>1. PICK q \in [Lists -> Seq(Tasks)] : StandFor(q, lists, flink)
    BY <1>5 DEF ListsInv
  <2>2. PICK q2 \in [Lists -> Seq(Tasks)] :
          /\ StandFor(q2, lists', flink')
          /\ q2 = q \/ \E l \in Lists, t \in Tasks : QueuesStep(q, q2, l, t)
    BY <1>5, <2>1, StepRefines
  <2>3. Queues = q /\ Queues' = q2
    BY <1>1, <1>2, <2>1, <2>2
  <2>4. ASSUME NEW l \in Lists, NEW t \in Tasks, QueuesStep(q, q2, l, t)
        PROVE  Abstract!PushBack(l, t) \/ Abstract!PushFront(l, t) \/ Abstract!TakeOut(l, t)
    <3>1. Abstract!Queued(t) <=> \E k \in Lists : InList(t, Queues[k])
      BY <1>3 DEF Abstract!Queued, Queues
    <3>2. QueuesStep(Queues, Queues', l, t)
      BY <2>3, <2>4
    <3>. QED
      BY <1>3, <3>1, <3>2 DEF QueuesStep, Abstract!PushBack, Abstract!PushFront,
                              Abstract!TakeOut, Queues
  <2>. QED
    BY <2>2, <2>3, <2>4 DEF Abstract!Next
<1>. QED
  BY <1>4, <1>5, ListsInvariant, PTL DEF Spec, ImplementsQueues, Abstract!Spec, Queues
=============================================================================
