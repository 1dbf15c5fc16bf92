-------------------------- MODULE FileSystemProofs --------------------------
(***************************************************************************)
(* Proofs about FileSystem, for every size of the disk, of a sector and of   *)
(* the root directory, and for every sequence of calls, writes and crashes.   *)
(*                                                                         *)
(* The invariant is that a kernel that runs has in memory what the disk will  *)
(* be when its writes are there (Ready), and that this disk holds a tree of   *)
(* files (Held): every directory in it has a number of entries, D, and a rank, *)
(* R, that grows along every path.  A call is followed from its path to the    *)
(* directory it leads to, through the writes it makes, to the tree it leaves   *)
(* (Outcome).  A write is added to the trace only when an entry it brings to   *)
(* the disk has its cluster marked there, or when the table there is full.     *)
(***************************************************************************)
EXTENDS FileSystem, TaskQueueProofs, FiniteSetTheorems

\* The constants.
LEMMA Constants ==
  /\ ClusterCount \in Nat /\ ClusterCount >= 1
  /\ EntriesPerSector \in Nat /\ EntriesPerSector >= 1
  /\ RootEntries \in Nat /\ RootEntries >= 1
  /\ Clusters = 1..ClusterCount /\ EOC = ClusterCount + 1 /\ FAT_SIGNATURE = ClusterCount + 2
  /\ FatSector = 0 /\ RootSector = ClusterCount + 3
BY SizesAssumption DEF Clusters, EOC, FAT_SIGNATURE, FatSector, RootSector

\* Division by a number above 0.
LEMMA Division ==
  ASSUME NEW x \in Nat, NEW n \in Nat \ {0}
  PROVE  /\ x \div n \in Nat /\ x % n \in 0..(n - 1)
         /\ n * (x \div n) \in Nat /\ x = n * (x \div n) + (x % n)
         /\ n * (x \div n) <= x /\ x < n * (x \div n) + n
OBVIOUS

\* A product grows with a factor.
LEMMA ProductMonotone ==
  ASSUME NEW n \in Nat, NEW x \in Nat, NEW y \in Nat, x <= y
  PROVE  n * x \in Nat /\ n * y \in Nat /\ n * x <= n * y
OBVIOUS

\* The quotient is the only one.
LEMMA Quotient ==
  ASSUME NEW x \in Nat, NEW n \in Nat \ {0}, NEW q \in Nat, n * q <= x, x < n * q + n
  PROVE  x \div n = q /\ x % n = x - n * q
<1>. DEFINE d == x \div n
<1>1. d \in Nat /\ n * d <= x /\ x < n * d + n /\ x % n = x - n * d
  OBVIOUS
<1>. HIDE DEF d
<1>2. ~ (d + 1 <= q)
  <2>1. n * (d + 1) = n * d + n
    BY <1>1
  <2>. QED
    BY <1>1, <2>1, ProductMonotone
<1>3. ~ (q + 1 <= d)
  <2>1. n * (q + 1) = n * q + n
    OBVIOUS
  <2>. QED
    BY <1>1, <2>1, ProductMonotone
<1>4. d = q
  BY <1>1, <1>2, <1>3
<1>. QED
  BY <1>1, <1>4 DEF d

\* The same, for a multiple that is known.
LEMMA QuotientOf ==
  ASSUME NEW x \in Nat, NEW n \in Nat \ {0}, NEW q \in Nat, NEW p, p = n * q,
         p <= x, x < p + n
  PROVE  x \div n = q /\ x % n = x - p
BY Quotient

\* The entries in the sectors of a directory of n entries, as the root directory is
\* read and written, and the places it keeps there.
Sectored(n) == EntriesPerSector * EntriesToSectors(n)
Stored(k) == k <= EntriesPerSector \/ k % EntriesPerSector = 0

\* The sectors of the root directory hold its entries up to the last that is stored.
LEMMA SectoredEntries ==
  ASSUME NEW n \in Nat
  PROVE  /\ Sectored(n) \in Nat
         /\ Sectored(n) = 0 <=> n = 0
         /\ n > 0 => Sectored(n) >= EntriesPerSector
         /\ n >= EntriesPerSector => Sectored(n) <= n
         /\ n < Sectored(n) + EntriesPerSector
         /\ \A k \in 1..n : k > Sectored(n) => ~Stored(k)
<1>. DEFINE E == EntriesPerSector
            q == n \div E
<1>1. E \in Nat \ {0}
  BY Constants
<1>2. q \in Nat /\ E * q \in Nat /\ E * q <= n /\ n < E * q + E
  BY <1>1, Division
<1>3. n > 0 /\ n < E => Sectored(n) = E
  BY <1>1 DEF Sectored, EntriesToSectors
<1>4. ~ (n > 0 /\ n < E) => Sectored(n) = E * q
  BY DEF Sectored, EntriesToSectors
<1>5. n >= E => q >= 1 /\ E * q >= E
  <2>1. q = 0 => E * q = 0
    BY <1>1
  <2>2. q >= 1 => E * 1 <= E * q
    BY <1>1, <1>2, ProductMonotone
  <2>. QED
    BY <1>1, <1>2, <2>1, <2>2
<1>6. n = 0 => E * q = 0
  BY <1>1, <1>2
<1>7. ASSUME NEW k \in 1..n, k > Sectored(n) PROVE ~Stored(k)
  <2>. HIDE DEF E, q
  <2>1. n >= E
    BY <1>1, <1>3, <1>7
  <2>2. E * q < k /\ k < E * q + E
    BY <1>1, <1>2, <1>4, <1>7, <2>1
  <2>. DEFINE p == E * q
  <2>3. p = E * q /\ p <= k /\ k < p + E /\ k \in Nat
    BY <1>2, <2>2
  <2>. HIDE DEF p
  <2>4. k % E = k - p
    BY <1>1, <1>2, <2>3, QuotientOf, Zenon
  <2>5. k > E /\ k % E # 0
    BY <1>1, <1>2, <1>5, <2>1, <2>2, <2>3, <2>4
  <2>. QED
    BY <1>1, <2>5 DEF Stored, E
<1>. HIDE DEF q
<1>. QED
  BY <1>1, <1>2, <1>3, <1>4, <1>5, <1>6, <1>7

\* One more entry.
LEMMA SectoredNext ==
  ASSUME NEW n \in Nat
  PROVE  /\ Sectored(n) <= Sectored(n + 1)
         /\ n + 1 <= Sectored(n + 1) <=> Stored(n + 1)
<1>. DEFINE E == EntriesPerSector
            q == n \div E
<1>1. E \in Nat \ {0}
  BY Constants
<1>2. q \in Nat /\ E * q \in Nat /\ E * q <= n /\ n < E * q + E
  BY <1>1, Division
<1>3. /\ n > 0 /\ n < E => Sectored(n) = E
      /\ n + 1 < E => Sectored(n + 1) = E
  BY <1>1 DEF Sectored, EntriesToSectors
<1>4. /\ ~ (n > 0 /\ n < E) => Sectored(n) = E * q
      /\ n + 1 >= E => Sectored(n + 1) = E * ((n + 1) \div E)
  <2>1. n + 1 >= E => ~ (n + 1 > 0 /\ n + 1 < E)
    BY <1>1
  <2>. QED
    BY <2>1, Zenon DEF Sectored, EntriesToSectors
<1>5. E * (q + 1) = E * q + E
  BY <1>1, <1>2
<1>6. ASSUME n + 1 < E * q + E PROVE (n + 1) \div E = q /\ (n + 1) % E = n + 1 - E * q
  <2>. HIDE DEF q, E
  <2>. DEFINE p == E * q
              m == n + 1
  <2>1. m \in Nat /\ p = E * q /\ p <= m /\ m < p + E
    BY <1>1, <1>2, <1>6
  <2>. HIDE DEF p, m
  <2>2. m \div E = q /\ m % E = m - p
    BY <1>1, <1>2, <2>1, QuotientOf
  <2>. QED
    BY <2>1, <2>2 DEF m
<1>7. ASSUME n + 1 = E * q + E PROVE (n + 1) \div E = q + 1 /\ (n + 1) % E = 0
  <2>. HIDE DEF q, E
  <2>1. /\ n + 1 \in Nat /\ q + 1 \in Nat /\ E * (q + 1) <= n + 1
        /\ n + 1 < E * (q + 1) + E /\ (n + 1) - E * (q + 1) = 0
    BY <1>1, <1>2, <1>5, <1>7
  <2>. QED
    BY <1>1, <2>1, Quotient
<1>8. n < E => q = 0 /\ E * q = 0
  BY <1>1, <1>2, Quotient
<1>9. n >= E => E * q >= E
  <2>1. q = 0 => E * q = 0
    BY <1>1
  <2>2. q >= 1 => E * 1 <= E * q
    BY <1>1, <1>2, ProductMonotone
  <2>. QED
    BY <1>1, <1>2, <2>1, <2>2
<1>10. Stored(n + 1) <=> n + 1 <= E \/ (n + 1) % E = 0
  BY DEF Stored
<1>. HIDE DEF q, E
<1>11. CASE n + 1 < E
  BY <1>1, <1>2, <1>3, <1>4, <1>8, <1>10, <1>11
<1>12. CASE n + 1 >= E /\ n + 1 = E * q + E
  BY <1>1, <1>2, <1>3, <1>4, <1>5, <1>7, <1>8, <1>10, <1>12
<1>13. CASE n + 1 >= E /\ n + 1 < E * q + E
  BY <1>1, <1>2, <1>3, <1>4, <1>6, <1>8, <1>9, <1>10, <1>13
<1>. QED
  BY <1>1, <1>2, <1>11, <1>12, <1>13

\* A root directory that has its sectors is not much larger than they are.
LEMMA RootFits ==
  ASSUME NEW n \in Nat, Sectored(n) <= RootEntries
  PROVE  n \in 0..(RootEntries + EntriesPerSector - 1)
BY SectoredEntries, Constants

\* The room of a buffer for n units, and what a directory of one sector needs.
LEMMA SizeSectors ==
  ASSUME NEW n \in Nat
  PROVE  /\ SizeToSectors(n) \in Nat /\ EntriesPerSector * SizeToSectors(n) \in Nat
         /\ n <= EntriesPerSector * SizeToSectors(n)
         /\ EntriesPerSector * SizeToSectors(n) < n + EntriesPerSector
         /\ EntriesPerSector * SizeToSectors(n) = 0 <=> n = 0
         /\ n > 0 => EntriesPerSector <= EntriesPerSector * SizeToSectors(n)
<1>. DEFINE E == EntriesPerSector
            x == n + E - 1
            q == x \div E
<1>1. E \in Nat \ {0} /\ x \in Nat
  BY Constants
<1>2. q \in Nat /\ E * q \in Nat /\ E * q <= x /\ x < E * q + E
  BY <1>1, Division
<1>3. SizeToSectors(n) = q
  BY DEF SizeToSectors
<1>4. n = 0 => q = 0
  <2>1. n = 0 => E * 0 <= x /\ x < E * 0 + E
    BY <1>1
  <2>. QED
    BY <1>1, <2>1, Quotient
<1>5. q = 0 => E * q = 0
  BY <1>1
<1>6. q >= 1 => E * 1 <= E * q
  BY <1>1, <1>2, ProductMonotone
<1>7. n > 0 => q >= 1
  BY <1>1, <1>2, <1>5
<1>. HIDE DEF q
<1>. QED
  BY <1>1, <1>2, <1>3, <1>4, <1>5, <1>6, <1>7

-----------------------------------------------------------------------------
\* Sequences of anything.
IsSeq(q) == \E S : q \in Seq(S)

\* A function on 1..n is a sequence.
LEMMA FunctionIsSeq ==
  ASSUME NEW n \in Nat, NEW q, q = [k \in 1..n |-> q[k]]
  PROVE  IsSeq(q) /\ Len(q) = n /\ DOMAIN q = 1..n
<1>. DEFINE S == {q[k] : k \in 1..n}
<1>1. q \in [1..n -> S]
  OBVIOUS
<1>2. q \in Seq(S)
  BY <1>1
<1>3. Len(q) = n
  BY <1>1, <1>2
<1>. QED
  BY <1>1, <1>2, <1>3 DEF IsSeq

\* A sequence is a function on 1..n.
LEMMA SeqIsFunction ==
  ASSUME NEW q, IsSeq(q)
  PROVE  Len(q) \in Nat /\ DOMAIN q = 1..Len(q) /\ q = [k \in 1..Len(q) |-> q[k]]
<1>1. PICK S : q \in Seq(S)
  BY DEF IsSeq
<1>. QED
  BY <1>1

\* Append, whatever the elements are.
LEMMA SeqAppend ==
  ASSUME NEW q, IsSeq(q), NEW x
  PROVE  /\ IsSeq(Append(q, x)) /\ Len(Append(q, x)) = Len(q) + 1
         /\ Append(q, x)[Len(q) + 1] = x
         /\ \A k \in 1..Len(q) : Append(q, x)[k] = q[k]
<1>1. PICK S : q \in Seq(S)
  BY DEF IsSeq
<1>2. q \in Seq(S \cup {x}) /\ x \in S \cup {x}
  BY <1>1
<1>3. Append(q, x) \in Seq(S \cup {x})
  BY <1>2
<1>. QED
  BY <1>2, <1>3 DEF IsSeq

\* The tail, whatever the elements are.
LEMMA SeqTail ==
  ASSUME NEW q, IsSeq(q), q # <<>>
  PROVE  /\ Len(q) >= 1 /\ IsSeq(Tail(q)) /\ Len(Tail(q)) = Len(q) - 1 /\ Head(q) = q[1]
         /\ \A k \in 1..(Len(q) - 1) : Tail(q)[k] = q[k + 1]
<1>1. PICK S : q \in Seq(S)
  BY DEF IsSeq
<1>2. Len(q) >= 1 /\ Tail(q) \in Seq(S)
  BY <1>1
<1>. QED
  BY <1>1, <1>2 DEF IsSeq

\* The beginning of a sequence.
LEMMA SeqPrefix ==
  ASSUME NEW q, NEW n \in Nat
  PROVE  /\ SubSeq(q, 1, n) = [k \in 1..n |-> q[k]]
         /\ IsSeq(SubSeq(q, 1, n)) /\ Len(SubSeq(q, 1, n)) = n
<1>1. SubSeq(q, 1, n) = [k \in 1..n |-> q[k]]
  OBVIOUS
<1>. QED
  BY <1>1, FunctionIsSeq

-----------------------------------------------------------------------------
(* What the memory and the disk are made of.                                *)

\* The clusters that are given out, with those that the table has no entry for.
Given == Clusters \cup BehindTable

EntryType ==
  [name : Names, attributes : {"file", "directory"}, cluster : Given, size : Nat]

\* An entry of a file or of a directory: the one has an extension, the other has none.
Good(e) ==
  /\ e \in EntryType /\ e.name # NoName
  /\ e.attributes = "file" <=> HasExtension(e.name)

MaybeEntry(u) == u = Blank \/ Good(u)

\* No cluster ever leads to another one.
FatOK(f) ==
  /\ f \in [0..ClusterCount -> {0, EOC, FAT_SIGNATURE}]
  /\ \A c \in Clusters : f[c] \in {0, EOC}

\* The entries that are not stored stay blank.
RootOK(r) ==
  /\ r = [k \in 1..RootEntries |-> r[k]]
  /\ \A k \in 1..RootEntries : MaybeEntry(r[k]) /\ (~Stored(k) => r[k] = Blank)

DataOK(a) ==
  /\ a = [c \in Clusters |-> a[c]]
  /\ \A c \in Clusters : a[c] = [k \in 1..EntriesPerSector |-> a[c][k]]

DiskFields == {"fat", "root", "data"}

DiskOK(v) ==
  /\ v = [field \in DiskFields |-> v[field]]
  /\ FatOK(v.fat) /\ RootOK(v.root) /\ DataOK(v.data)

Fields == {"fat", "was_fat_read", "root", "was_root_read", "root_entries", "view", "writes",
           "written", "status", "calls"}
Statuses == {"running", "panic", "fault", "undefined"}

MemoryOK(s) ==
  /\ s = [field \in Fields |-> s[field]]
  /\ FatOK(s.fat) /\ RootOK(s.root) /\ DiskOK(s.view)
  /\ s.was_fat_read \in BOOLEAN /\ s.was_root_read \in BOOLEAN
  /\ s.root_entries \in Nat /\ s.status \in Statuses
  /\ s.written = [c \in Clusters |-> s.written[c]]

\* A buffer that is said to be valid has what is on the disk.
Coherent(s) ==
  /\ s.was_fat_read => s.fat = s.view.fat
  /\ s.was_root_read => \A k \in 1..Sectored(s.root_entries) : s.root[k] = s.view.root[k]

\* No entry of the table is free.
Full(fat) == \A c \in Clusters : fat[c] # 0

\* Entries that reach the disk find their clusters marked, or the table full.
NewMarked(old, new) ==
  \A e \in Listed(new) \ Listed(old) :
    IF e.cluster \in Clusters THEN new.fat[e.cluster] # 0 ELSE Full(new.fat)

\* What may be written to a disk.
Step(old, new) ==
  DiskOK(new) /\ new.fat[0] = FAT_SIGNATURE /\ NewMarked(old, new)

\* The disk d becomes v, one write after the other.
Trace(d, writes, v) ==
  \E img :
    /\ img[0] = d /\ img[Len(writes)] = v
    /\ \A i \in 1..Len(writes) :
         img[i] = Written(img[i - 1], writes[i]) /\ Step(img[i - 1], img[i])

\* The memory is a record.
IsMemory(s) == s = [field \in Fields |-> s[field]]

Traced(d, s) ==
  /\ IsMemory(s) /\ s.status \in Statuses
  /\ IsSeq(s.writes) /\ Trace(d, s.writes, s.view)

\* A kernel that has stopped, with nothing but writes that are allowed.
Lost(d, s) == Traced(d, s) /\ IsMemory(s) /\ s.status # "running"

\* The memory of a kernel that runs on a formatted disk, d at the moment.
Ready(d, s) ==
  /\ MemoryOK(s) /\ Coherent(s) /\ Traced(d, s)
  /\ s.status = "running" /\ s.view.fat[0] = FAT_SIGNATURE
  /\ Sectored(s.root_entries) <= RootEntries

\* The tree of files is the same, in memory and on the disk.
Same(s, t) ==
  /\ t.view = s.view /\ t.written = s.written
  /\ t.root_entries = s.root_entries /\ t.calls = s.calls

-----------------------------------------------------------------------------
(* Writes.                                                                  *)

\* Listed, of the root directory and the clusters.
ListedOf(root, data) ==
  LET In(e) ==
        IF e.attributes # "directory" \/ e.cluster \notin Clusters THEN {}
        ELSE {data[e.cluster][k] : k \in 1..Min({e.size, EntriesPerSector})}
      InRoot == ToSet(root) \ {Blank}
      Below(S) == (UNION {In(e) : e \in S}) \ {Blank}
  IN InRoot \cup Below(InRoot) \cup Below(Below(InRoot))

\* Nothing new is on a disk of the same directories.
LEMMA NothingNew ==
  ASSUME NEW old, NEW new, new.root = old.root, new.data = old.data
  PROVE  Listed(new) = Listed(old) /\ NewMarked(old, new)
<1>1. \A d : Listed(d) = ListedOf(d.root, d.data)
  BY DEF Listed, ListedOf
<1>2. Listed(new) = Listed(old)
  BY <1>1
<1>. QED
  BY <1>2 DEF NewMarked

\* One more write.
LEMMA TraceAppend ==
  ASSUME NEW d, NEW q, IsSeq(q), NEW v, Trace(d, q, v), NEW w, NEW new,
         new = Written(v, w), Step(v, new)
  PROVE  IsSeq(Append(q, w)) /\ Trace(d, Append(q, w), new)
<1>. DEFINE n == Len(q)
            r == Append(q, w)
<1>1. /\ IsSeq(r) /\ Len(r) = n + 1 /\ r[n + 1] = w /\ n \in Nat
      /\ \A k \in 1..n : r[k] = q[k]
  BY SeqAppend, SeqIsFunction
<1>2. PICK img : /\ img[0] = d /\ img[n] = v
                 /\ \A i \in 1..n : img[i] = Written(img[i - 1], q[i]) /\ Step(img[i - 1], img[i])
  BY DEF Trace
<1>. HIDE DEF n, r
<1>. DEFINE f == [i \in 0..(n + 1) |-> IF i = n + 1 THEN new ELSE img[i]]
<1>3. f[0] = d /\ f[n + 1] = new
  BY <1>1, <1>2
<1>4. ASSUME NEW i \in 1..(n + 1)
      PROVE  f[i] = Written(f[i - 1], r[i]) /\ Step(f[i - 1], f[i])
  <2>1. CASE i = n + 1
    <3>1. f[i] = new /\ f[i - 1] = v /\ r[i] = w
      BY <1>1, <1>2, <2>1
    <3>. QED
      BY <3>1
  <2>2. CASE i \in 1..n
    <3>1. f[i] = img[i] /\ f[i - 1] = img[i - 1] /\ r[i] = q[i]
      BY <1>1, <2>2
    <3>. QED
      BY <1>2, <2>2, <3>1
  <2>. QED
    BY <1>1, <2>1, <2>2
<1>. HIDE DEF f
<1>5. Trace(d, r, new)
  BY <1>1, <1>3, <1>4 DEF Trace
<1>. QED
  BY <1>1, <1>5 DEF r

\* The first write reaches the disk.
LEMMA TraceHead ==
  ASSUME NEW d, NEW q, IsSeq(q), NEW v, Trace(d, q, v), q # <<>>
  PROVE  LET new == Written(d, Head(q))
         IN Step(d, new) /\ IsSeq(Tail(q)) /\ Trace(new, Tail(q), v)
<1>. DEFINE n == Len(q)
            r == Tail(q)
            new == Written(d, Head(q))
<1>1. /\ n >= 1 /\ IsSeq(r) /\ Len(r) = n - 1 /\ Head(q) = q[1] /\ n \in Nat
      /\ \A k \in 1..(n - 1) : r[k] = q[k + 1]
  BY SeqTail, SeqIsFunction
<1>2. PICK img : /\ img[0] = d /\ img[n] = v
                 /\ \A i \in 1..n : img[i] = Written(img[i - 1], q[i]) /\ Step(img[i - 1], img[i])
  BY DEF Trace
<1>. HIDE DEF n, r
<1>3. img[1] = new /\ Step(d, img[1])
  BY <1>1, <1>2
<1>. DEFINE f == [i \in 0..(n - 1) |-> img[i + 1]]
<1>4. f[0] = new /\ f[n - 1] = v
  BY <1>1, <1>2, <1>3
<1>5. ASSUME NEW i \in 1..(n - 1)
      PROVE  f[i] = Written(f[i - 1], r[i]) /\ Step(f[i - 1], f[i])
  <2>1. f[i] = img[i + 1] /\ f[i - 1] = img[i] /\ r[i] = q[i + 1]
    BY <1>1
  <2>2. i + 1 \in 1..n /\ (i + 1) - 1 = i
    BY <1>1
  <2>. QED
    BY <1>2, <2>1, <2>2
<1>. HIDE DEF f
<1>6. Trace(new, r, v)
  BY <1>1, <1>4, <1>5 DEF Trace
<1>. QED
  BY <1>1, <1>3, <1>6 DEF r

\* No writes.
LEMMA TraceEmpty ==
  ASSUME NEW d
  PROVE  Trace(d, <<>>, d) /\ IsSeq(<<>>)
<1>. DEFINE f == [i \in {0} |-> d]
<1>1. Len(<<>>) = 0 /\ f[0] = d
  OBVIOUS
<1>. HIDE DEF f
<1>2. Trace(d, <<>>, d)
  BY <1>1 DEF Trace
<1>. QED
  BY <1>2 DEF IsSeq

\* With no write left the disk is as it will be.
LEMMA TraceDone ==
  ASSUME NEW d, NEW v, Trace(d, <<>>, v)
  PROVE  v = d
BY DEF Trace

\* The parts of the disk that a write changes.
LEMMA WrittenParts ==
  ASSUME NEW v, DiskOK(v), NEW u
  PROVE  /\ Written(v, [to |-> FatSector, units |-> u]) = [v EXCEPT !.fat = u]
         /\ Written(v, [to |-> RootSector, units |-> u]) = [v EXCEPT !.root = Overwrite(@, u)]
         /\ Written(v, [to |-> EOC, units |-> u]) = v
<1>1. /\ RootSector # FatSector /\ EOC # FatSector /\ EOC # RootSector /\ EOC \notin Clusters
      /\ FatSector \notin Clusters /\ RootSector \notin Clusters
  BY Constants
<1>. QED
  BY <1>1 DEF Written

\* A least element.
LEMMA MinOf ==
  ASSUME NEW N, N \subseteq Nat, N # {}
  PROVE  Min(N) \in N /\ \A y \in N : Min(N) <= y
<1>1. \E x \in N : \A y \in N : x <= y
  BY LeastElement
<1>. QED
  BY <1>1, Zenon DEF Min

\* The lesser of two numbers.
LEMMA MinOfTwo ==
  ASSUME NEW m \in Nat, NEW n \in Nat
  PROVE  Min({m, n}) = IF m <= n THEN m ELSE n
<1>. DEFINE N == {m, n}
<1>1. N \subseteq Nat /\ N # {}
  OBVIOUS
<1>2. Min(N) \in N /\ \A y \in N : Min(N) <= y
  BY <1>1, MinOf
<1>. QED
  BY <1>2

\* What ata_write changes.
LEMMA AtaWriteReady ==
  ASSUME NEW d, NEW s, MemoryOK(s), Traced(d, s), s.status = "running", NEW to, NEW u,
         NEW new, new = Written(s.view, [to |-> to, units |-> u]), Step(s.view, new)
  PROVE  LET t == AtaWrite(s, to, u)
         IN /\ MemoryOK(t) /\ Traced(d, t) /\ t.status = "running" /\ t.view = new
            /\ t.fat = s.fat /\ t.was_fat_read = s.was_fat_read
            /\ t.root = s.root /\ t.was_root_read = s.was_root_read
            /\ t.root_entries = s.root_entries /\ t.written = s.written /\ t.calls = s.calls
<1>. DEFINE w == [to |-> to, units |-> u]
            t == AtaWrite(s, to, u)
<1>1. t = [s EXCEPT !.view = new, !.writes = Append(s.writes, w)]
  BY DEF AtaWrite
<1>2. s = [field \in Fields |-> s[field]]
  BY DEF MemoryOK
<1>. HIDE DEF t
<1>3. /\ t = [field \in Fields |-> t[field]]
      /\ t.status = "running" /\ t.view = new
      /\ t.fat = s.fat /\ t.was_fat_read = s.was_fat_read
      /\ t.root = s.root /\ t.was_root_read = s.was_root_read
      /\ t.root_entries = s.root_entries /\ t.written = s.written /\ t.calls = s.calls
      /\ t.writes = Append(s.writes, w)
  BY <1>1, <1>2 DEF Fields
<1>4. MemoryOK(t)
  BY <1>3 DEF MemoryOK, Step, Statuses
<1>5. Traced(d, t)
  <2>1. IsSeq(s.writes) /\ Trace(d, s.writes, s.view)
    BY DEF Traced, IsMemory
  <2>2. IsSeq(t.writes) /\ Trace(d, t.writes, t.view)
    BY <1>3, <2>1, TraceAppend
  <2>. QED
    BY <1>3, <2>2 DEF Traced, IsMemory, Statuses
<1>. QED
  BY <1>3, <1>4, <1>5 DEF t

\* A kernel that has stopped writes nothing.
LEMMA AtaWriteStopped ==
  ASSUME NEW s, s.status # "running", NEW to, NEW u
  PROVE  AtaWrite(s, to, u) = s
BY DEF AtaWrite

\* The buffer of the root directory does not lie.
RootCoherent(s) ==
  s.was_root_read => \A k \in 1..Sectored(s.root_entries) : s.root[k] = s.view.root[k]

\* A write of the table as it is.
LEMMA FatWriteReady ==
  ASSUME NEW d, NEW s, MemoryOK(s), Traced(d, s), s.status = "running", RootCoherent(s),
         Sectored(s.root_entries) <= RootEntries, s.fat[0] = FAT_SIGNATURE
  PROVE  LET t == FatWrite(s)
         IN /\ Ready(d, t) /\ t.view = [s.view EXCEPT !.fat = s.fat]
            /\ t.written = s.written /\ t.root_entries = s.root_entries /\ t.calls = s.calls
<1>. DEFINE new == [s.view EXCEPT !.fat = s.fat]
            a == AtaWrite(s, FatSector, s.fat)
            t == FatWrite(s)
<1>1. DiskOK(s.view) /\ FatOK(s.fat) /\ RootOK(s.root)
  BY DEF MemoryOK
<1>2. /\ new = [field \in DiskFields |-> new[field]]
      /\ new.fat = s.fat /\ new.root = s.view.root /\ new.data = s.view.data
  BY <1>1 DEF DiskOK, DiskFields
<1>3. new = Written(s.view, [to |-> FatSector, units |-> s.fat])
  BY <1>1, WrittenParts
<1>. HIDE DEF new
<1>4. NewMarked(s.view, new)
  BY <1>2, NothingNew
<1>5. Step(s.view, new)
  BY <1>1, <1>2, <1>4 DEF Step, DiskOK
<1>6. /\ MemoryOK(a) /\ Traced(d, a) /\ a.status = "running" /\ a.view = new
      /\ a.fat = s.fat /\ a.was_fat_read = s.was_fat_read
      /\ a.root = s.root /\ a.was_root_read = s.was_root_read
      /\ a.root_entries = s.root_entries /\ a.written = s.written /\ a.calls = s.calls
  BY <1>3, <1>5, AtaWriteReady
<1>7. t = [a EXCEPT !.was_fat_read = FALSE]
  BY DEF FatWrite
<1>. HIDE DEF a, t
<1>8. a = [field \in Fields |-> a[field]]
  BY <1>6 DEF MemoryOK
<1>9. /\ t = [field \in Fields |-> t[field]]
      /\ t.status = a.status /\ t.view = a.view
      /\ t.fat = a.fat /\ t.was_fat_read = FALSE
      /\ t.root = a.root /\ t.was_root_read = a.was_root_read
      /\ t.root_entries = a.root_entries /\ t.written = a.written /\ t.calls = a.calls
      /\ t.writes = a.writes
  BY <1>7, <1>8 DEF Fields
<1>10. MemoryOK(t)
  BY <1>6, <1>9 DEF MemoryOK
<1>11. Traced(d, t)
  BY <1>6, <1>9 DEF Traced, IsMemory
<1>12. Coherent(t)
  BY <1>2, <1>6, <1>9 DEF Coherent, RootCoherent
<1>. QED
  BY <1>2, <1>6, <1>9, <1>10, <1>11, <1>12 DEF Ready, t, new

\* The parts of Ready.
LEMMA ReadyParts ==
  ASSUME NEW d, NEW s, Ready(d, s)
  PROVE  /\ MemoryOK(s) /\ Coherent(s) /\ RootCoherent(s) /\ Traced(d, s)
         /\ s.status = "running" /\ s.view.fat[0] = FAT_SIGNATURE
         /\ Sectored(s.root_entries) <= RootEntries /\ s.root_entries \in Nat
         /\ DiskOK(s.view) /\ FatOK(s.fat) /\ RootOK(s.root)
         /\ FatOK(s.view.fat) /\ RootOK(s.view.root) /\ DataOK(s.view.data)
         /\ s = [field \in Fields |-> s[field]]
BY DEF Ready, MemoryOK, Coherent, RootCoherent, DiskOK

\* fat_read
LEMMA FatReadReady ==
  ASSUME NEW d, NEW s, Ready(d, s)
  PROVE  LET t == FatRead(s)
         IN /\ Ready(d, t) /\ Same(s, t) /\ t.was_fat_read = TRUE /\ t.fat = s.view.fat
<1>. DEFINE t == FatRead(s)
<1>. USE ReadyParts
<1>1. CASE s.was_fat_read
  <2>1. t = s
    BY <1>1 DEF FatRead
  <2>2. s.was_fat_read = TRUE /\ s.fat = s.view.fat
    BY <1>1 DEF Coherent, MemoryOK
  <2>. QED
    BY <2>1, <2>2 DEF Same
<1>2. CASE ~s.was_fat_read
  <2>1. t = [s EXCEPT !.was_fat_read = TRUE, !.fat = s.view.fat]
    BY <1>2 DEF FatRead
  <2>2. s = [field \in Fields |-> s[field]]
    OBVIOUS
  <2>. HIDE DEF t
  <2>3. /\ t = [field \in Fields |-> t[field]]
        /\ t.status = s.status /\ t.view = s.view
        /\ t.fat = s.view.fat /\ t.was_fat_read = TRUE
        /\ t.root = s.root /\ t.was_root_read = s.was_root_read
        /\ t.root_entries = s.root_entries /\ t.written = s.written /\ t.calls = s.calls
        /\ t.writes = s.writes
    BY <2>1, <2>2 DEF Fields
  <2>4. MemoryOK(t)
    BY <2>3 DEF MemoryOK
  <2>5. Traced(d, t)
    BY <2>3 DEF Traced, IsMemory
  <2>6. Coherent(t)
    BY <2>3 DEF Coherent
  <2>. QED
    BY <2>3, <2>4, <2>5, <2>6 DEF Ready, Same, t
<1>. QED
  BY <1>1, <1>2

\* A table that is read and written again is as it was.
LEMMA FatRefresh ==
  ASSUME NEW d, NEW s, Ready(d, s)
  PROVE  LET t == FatWrite(FatRead(s)) IN Ready(d, t) /\ Same(s, t)
<1>. DEFINE r == FatRead(s)
            t == FatWrite(r)
<1>1. Ready(d, r) /\ Same(s, r) /\ r.fat = s.view.fat
  BY FatReadReady
<1>2. s.view.fat[0] = FAT_SIGNATURE /\ DiskOK(s.view)
  BY ReadyParts
<1>. HIDE DEF r
<1>3. /\ Ready(d, t) /\ t.view = [r.view EXCEPT !.fat = r.fat]
      /\ t.written = r.written /\ t.root_entries = r.root_entries /\ t.calls = r.calls
  BY <1>1, <1>2, ReadyParts, FatWriteReady
<1>4. [s.view EXCEPT !.fat = s.view.fat] = s.view
  BY <1>2 DEF DiskOK
<1>. QED
  BY <1>1, <1>3, <1>4 DEF Same, r

\* fat_resize_file, and the table as it is read afterwards.
LEMMA ResizeReady ==
  ASSUME NEW d, NEW s, Ready(d, s), NEW e, NEW n
  PROVE  LET t == FatRead(ResizeFile(s, e, n))
         IN Ready(d, t) /\ Same(s, t) /\ t.fat = t.view.fat
<1>. DEFINE r == ResizeFile(s, e, n)
<1>1. r = s \/ r = FatWrite(FatRead(s))
  BY Zenon DEF ResizeFile
<1>2. Same(s, s)
  BY DEF Same
<1>3. Ready(d, r) /\ Same(s, r)
  BY <1>1, <1>2, FatRefresh
<1>. HIDE DEF r
<1>4. LET t == FatRead(r) IN Ready(d, t) /\ Same(r, t) /\ t.fat = r.view.fat
  BY <1>3, FatReadReady
<1>. QED
  BY <1>3, <1>4 DEF Same, r

\* The sectors of the root directory, without the state.
LEMMA InSectorsIs ==
  \A s : InSectors(s) = Sectored(s.root_entries)
BY DEF InSectors, Sectored

\* Overwrite, place by place.
LEMMA OverwriteIs ==
  ASSUME NEW n \in Nat, NEW old, old = [k \in 1..n |-> old[k]],
         NEW m \in Nat, NEW u, u = [k \in 1..m |-> u[k]]
  PROVE  LET r == Overwrite(old, u)
         IN /\ r = [k \in 1..n |-> r[k]]
            /\ \A k \in 1..n : r[k] = IF k <= m THEN u[k] ELSE old[k]
<1>1. Len(u) = m /\ DOMAIN old = 1..n
  BY FunctionIsSeq
<1>. QED
  BY <1>1 DEF Overwrite

\* root_read, whatever the buffer holds.
LEMMA RootReadMemory ==
  ASSUME NEW d, NEW s, MemoryOK(s), Traced(d, s), Sectored(s.root_entries) <= RootEntries
  PROVE  LET t == RootRead(s)
             n == Sectored(s.root_entries)
         IN /\ MemoryOK(t) /\ Traced(d, t) /\ Same(s, t) /\ t.status = s.status
            /\ t.fat = s.fat /\ t.was_fat_read = s.was_fat_read
            /\ s.was_root_read \/ n = 0 => t = s
            /\ ~ (s.was_root_read \/ n = 0) => \A k \in 1..n : t.root[k] = s.view.root[k]
<1>. DEFINE t == RootRead(s)
            n == Sectored(s.root_entries)
<1>0. n \in Nat /\ n <= RootEntries /\ InSectors(s) = n
  BY SectoredEntries, InSectorsIs DEF MemoryOK
<1>3. RootOK(s.root) /\ RootOK(s.view.root) /\ s = [field \in Fields |-> s[field]]
  BY DEF MemoryOK, DiskOK
<1>1. CASE s.was_root_read \/ n = 0
  <2>1. t = s
    BY <1>0, <1>1 DEF RootRead
  <2>. QED
    BY <1>1, <2>1 DEF Same
<1>2. CASE ~ (s.was_root_read \/ n = 0)
  <2>. DEFINE new == Overwrite(s.root, SubSeq(s.view.root, 1, n))
  <2>1. t = [s EXCEPT !.was_root_read = TRUE, !.root = new]
    BY <1>0, <1>2 DEF RootRead
  <2>2. s = [field \in Fields |-> s[field]]
    BY <1>3
  <2>3. /\ new = [k \in 1..RootEntries |-> new[k]]
        /\ \A k \in 1..RootEntries : new[k] = IF k <= n THEN s.view.root[k] ELSE s.root[k]
    <3>. DEFINE u == SubSeq(s.view.root, 1, n)
    <3>1. u = [k \in 1..n |-> s.view.root[k]]
      BY <1>0, SeqPrefix
    <3>. HIDE DEF u, n
    <3>2. u = [k \in 1..n |-> u[k]] /\ \A k \in 1..n : u[k] = s.view.root[k]
      BY <3>1
    <3>3. s.root = [k \in 1..RootEntries |-> s.root[k]] /\ RootEntries \in Nat
      BY <1>3, Constants DEF RootOK
    <3>. DEFINE r == Overwrite(s.root, u)
    <3>4. new = r
      BY DEF u
    <3>5. /\ r = [k \in 1..RootEntries |-> r[k]]
          /\ \A k \in 1..RootEntries : r[k] = IF k <= n THEN u[k] ELSE s.root[k]
      <4>1. Len(u) = n
        BY <1>0, <3>2, FunctionIsSeq
      <4>2. DOMAIN s.root = 1..RootEntries
        BY <3>3
      <4>. QED
        BY <4>1, <4>2 DEF Overwrite
    <3>. HIDE DEF r, new
    <3>6. \A k \in 1..RootEntries : r[k] = IF k <= n THEN s.view.root[k] ELSE s.root[k]
      BY <1>0, <3>2, <3>5, Constants
    <3>. QED
      BY <3>4, <3>5, <3>6
  <2>. HIDE DEF t, new
  <2>4. /\ t = [field \in Fields |-> t[field]]
        /\ t.status = s.status /\ t.view = s.view
        /\ t.fat = s.fat /\ t.was_fat_read = s.was_fat_read
        /\ t.root = new /\ t.was_root_read = TRUE
        /\ t.root_entries = s.root_entries /\ t.written = s.written /\ t.calls = s.calls
        /\ t.writes = s.writes
    BY <2>1, <2>2 DEF Fields
  <2>5. RootOK(new)
    <3>. HIDE DEF n
    <3>. QED
      BY <1>3, <2>3 DEF RootOK
  <2>6. MemoryOK(t)
    BY <2>4, <2>5 DEF MemoryOK
  <2>7. Traced(d, t)
    BY <2>4 DEF Traced, IsMemory
  <2>. HIDE DEF n
  <2>8. \A k \in 1..n : t.root[k] = s.view.root[k]
    BY <1>0, <2>3, <2>4, Constants
  <2>. QED
    BY <1>2, <2>4, <2>6, <2>7, <2>8 DEF Same, t, n
<1>. QED
  BY <1>1, <1>2

\* root_read
LEMMA RootReadReady ==
  ASSUME NEW d, NEW s, Ready(d, s)
  PROVE  LET t == RootRead(s)
         IN /\ Ready(d, t) /\ Same(s, t)
            /\ \A k \in 1..Sectored(s.root_entries) : t.root[k] = s.view.root[k]
<1>. DEFINE t == RootRead(s)
            n == Sectored(s.root_entries)
<1>0. /\ MemoryOK(s) /\ Traced(d, s) /\ Coherent(s) /\ s.status = "running"
      /\ s.view.fat[0] = FAT_SIGNATURE /\ n <= RootEntries /\ n \in Nat
  BY ReadyParts, SectoredEntries
<1>1. /\ MemoryOK(t) /\ Traced(d, t) /\ Same(s, t) /\ t.status = s.status
      /\ t.fat = s.fat /\ t.was_fat_read = s.was_fat_read
      /\ s.was_root_read \/ n = 0 => t = s
      /\ ~ (s.was_root_read \/ n = 0) => \A k \in 1..n : t.root[k] = s.view.root[k]
  BY <1>0, RootReadMemory
<1>. HIDE DEF t
<1>2. \A k \in 1..n : t.root[k] = s.view.root[k]
  BY <1>0, <1>1 DEF Coherent
<1>3. Coherent(t)
  BY <1>0, <1>1, <1>2 DEF Coherent, Same
<1>4. Ready(d, t)
  BY <1>0, <1>1, <1>3 DEF Ready, Same
<1>. QED
  BY <1>1, <1>2, <1>4 DEF t

\* A disk on which the sectors of a root directory of n entries were written.
RootWritten(v, u, n) == [v EXCEPT !.root = Overwrite(@, Padded(u, Sectored(n)))]

\* root_write
LEMMA RootWriteReady ==
  ASSUME NEW d, NEW s, MemoryOK(s), Traced(d, s), s.status = "running",
         s.was_fat_read => s.fat = s.view.fat, s.view.fat[0] = FAT_SIGNATURE,
         Sectored(s.root_entries) <= RootEntries, NEW u, NEW new,
         new = RootWritten(s.view, u, s.root_entries), RootOK(new.root), NewMarked(s.view, new)
  PROVE  LET t == RootWrite(s, u)
         IN /\ Ready(d, t) /\ t.view = new
            /\ t.written = s.written /\ t.root_entries = s.root_entries /\ t.calls = s.calls
<1>. DEFINE p == Padded(u, Sectored(s.root_entries))
            a == AtaWrite(s, RootSector, p)
            t == RootWrite(s, u)
<1>0. new = [s.view EXCEPT !.root = Overwrite(@, Padded(u, Sectored(s.root_entries)))]
  BY DEF RootWritten
<1>1. DiskOK(s.view) /\ FatOK(s.fat) /\ RootOK(s.root) /\ s.root_entries \in Nat
  BY DEF MemoryOK
<1>2. /\ new = [field \in DiskFields |-> new[field]]
      /\ new.fat = s.view.fat /\ new.data = s.view.data
  BY <1>0, <1>1 DEF DiskOK, DiskFields
<1>3. new = Written(s.view, [to |-> RootSector, units |-> p])
  BY <1>0, <1>1, WrittenParts
<1>4. t = [a EXCEPT !.was_root_read = FALSE]
  <2>1. ~ (InSectors(s) > RootEntries) /\ InSectors(s) = Sectored(s.root_entries)
    BY <1>1, InSectorsIs, SectoredEntries, Constants
  <2>. QED
    BY <2>1 DEF RootWrite
<1>5. Step(s.view, new)
  BY <1>1, <1>2 DEF Step, DiskOK
<1>6. /\ MemoryOK(a) /\ Traced(d, a) /\ a.status = "running" /\ a.view = new
      /\ a.fat = s.fat /\ a.was_fat_read = s.was_fat_read
      /\ a.root = s.root /\ a.was_root_read = s.was_root_read
      /\ a.root_entries = s.root_entries /\ a.written = s.written /\ a.calls = s.calls
  BY <1>3, <1>5, AtaWriteReady
<1>. HIDE DEF a, t
<1>8. a = [field \in Fields |-> a[field]]
  BY <1>6 DEF MemoryOK
<1>9. /\ t = [field \in Fields |-> t[field]]
      /\ t.status = a.status /\ t.view = a.view
      /\ t.fat = a.fat /\ t.was_fat_read = a.was_fat_read
      /\ t.root = a.root /\ t.was_root_read = FALSE
      /\ t.root_entries = a.root_entries /\ t.written = a.written /\ t.calls = a.calls
      /\ t.writes = a.writes
  BY <1>4, <1>8 DEF Fields
<1>10. MemoryOK(t)
  BY <1>6, <1>9 DEF MemoryOK
<1>11. Traced(d, t)
  BY <1>6, <1>9 DEF Traced, IsMemory
<1>12. Coherent(t)
  BY <1>2, <1>6, <1>9 DEF Coherent
<1>. QED
  BY <1>2, <1>6, <1>9, <1>10, <1>11, <1>12 DEF Ready, t

\* A root directory that has outgrown its sectors stops the kernel.
LEMMA RootWriteFull ==
  ASSUME NEW d, NEW s, Traced(d, s), s.status = "running", s.root_entries \in Nat,
         ~ (Sectored(s.root_entries) <= RootEntries), NEW u,
         s = [field \in Fields |-> s[field]]
  PROVE  LET t == RootWrite(s, u) IN Traced(d, t) /\ t.status # "running"
<1>. DEFINE t == RootWrite(s, u)
<1>1. InSectors(s) > RootEntries
  BY InSectorsIs, SectoredEntries, Constants
<1>2. t = [s EXCEPT !.status = "undefined"]
  BY <1>1 DEF RootWrite, Stop
<1>. HIDE DEF t
<1>3. t.status = "undefined" /\ t.writes = s.writes /\ t.view = s.view /\ IsMemory(t)
  BY <1>2 DEF Fields, IsMemory
<1>4. Traced(d, t)
  BY <1>3 DEF Traced, Statuses
<1>. QED
  BY <1>3, <1>4 DEF t

\* What Chain computes.
SolvesChain(f, fat) ==
  f = [c \in 0..FAT_SIGNATURE |-> IF c \in Clusters THEN <<c>> \o f[fat[c]] ELSE <<>>]

\* A chain is one cluster long.
LEMMA ChainIs ==
  ASSUME NEW fat, FatOK(fat), NEW c \in Clusters
  PROVE  Chain(fat, c) = <<c>>
<1>. DEFINE f == [x \in 0..FAT_SIGNATURE |-> IF x \in Clusters THEN <<x>> ELSE <<>>]
            g == CHOOSE h : SolvesChain(h, fat)
<1>1. Chain(fat, c) = g[c]
  BY DEF Chain, SolvesChain
<1>2. \A x : <<x>> \o <<>> = <<x>>
  OBVIOUS
<1>3. /\ Clusters \subseteq 0..FAT_SIGNATURE
      /\ \A x \in Clusters : fat[x] \in 0..FAT_SIGNATURE /\ fat[x] \notin Clusters
  BY Constants DEF FatOK
<1>4. \A x \in 0..FAT_SIGNATURE : f[x] = IF x \in Clusters THEN <<x>> \o f[fat[x]] ELSE <<>>
  BY <1>2, <1>3
<1>5. f = [x \in 0..FAT_SIGNATURE |-> f[x]]
  OBVIOUS
<1>. HIDE DEF f
<1>6. SolvesChain(f, fat)
  BY <1>4, <1>5 DEF SolvesChain
<1>7. SolvesChain(g, fat)
  BY <1>6, Zenon
<1>. HIDE DEF g
<1>8. \A x \in 0..FAT_SIGNATURE : g[x] = IF x \in Clusters THEN <<x>> \o g[fat[x]] ELSE <<>>
  BY <1>7 DEF SolvesChain
<1>9. g[fat[c]] = <<>>
  BY <1>3, <1>8
<1>. QED
  BY <1>1, <1>2, <1>3, <1>8, <1>9

\* What write_file_data computes on the way.
SolvesPut(f, s, chain, whole, units) ==
  f = [k \in 0..whole |->
         IF k = 0 THEN s
         ELSE AtaWrite(f[k - 1], chain[k],
                       SubSeq(units, EntriesPerSector * (k - 1) + 1,
                                     EntriesPerSector * (k - 1) + EntriesPerSector))]

\* write_file_data, for a chain of one cluster: what is too long for it is lost.
LEMMA WriteClustersIs ==
  ASSUME NEW s, NEW c, Chain(s.fat, c) = <<c>>, NEW units, IsSeq(units)
  PROVE  LET n == Len(units)
             t == AtaWrite(s, c, Padded(units, EntriesPerSector))
         IN WriteClusters(s, c, units) =
              IF n = 0 THEN s
              ELSE IF n >= EntriesPerSector /\ n % EntriesPerSector # 0
                THEN AtaWrite(t, EOC, Padded(SubSeq(units, EntriesPerSector + 1,
                                EntriesPerSector + (n % EntriesPerSector)), EntriesPerSector))
              ELSE t
<1>. DEFINE E == EntriesPerSector
            n == Len(units)
            chain == Chain(s.fat, c)
            whole == Min({n \div E, Len(chain)})
            rest == n % E
            From(k, m) == SubSeq(units, E * k + 1, E * k + m)
            t == AtaWrite(s, c, Padded(units, E))
            g == CHOOSE h : SolvesPut(h, s, chain, whole, units)
            next == IF whole < Len(chain) THEN chain[whole + 1] ELSE EOC
<1>1. n \in Nat /\ units = [k \in 1..n |-> units[k]] /\ E \in Nat \ {0}
  BY SeqIsFunction, Constants
<1>2. /\ n \div E \in Nat /\ rest \in 0..(E - 1) /\ E * (n \div E) \in Nat
      /\ n = E * (n \div E) + rest /\ E * (n \div E) <= n /\ n < E * (n \div E) + E
  BY <1>1, Division
<1>3. whole = (IF n >= E THEN 1 ELSE 0) /\ (n < E => rest = n)
  <2>. DEFINE q == n \div E
  <2>1. n < E => E * 0 <= n /\ n < E * 0 + E
    BY <1>1
  <2>2. n < E => q = 0 /\ rest = n
    BY <1>1, <2>1, Quotient
  <2>3. q = 0 => E * q = 0
    BY <1>1
  <2>4. n >= E => q >= 1
    BY <1>1, <1>2, <2>3
  <2>5. whole = IF q <= 1 THEN q ELSE 1
    BY <1>2, MinOfTwo
  <2>. HIDE DEF q, rest, whole
  <2>6. q \in Nat
    BY <1>2 DEF q
  <2>. QED
    BY <1>1, <2>2, <2>4, <2>5, <2>6
<1>4. WriteClusters(s, c, units) =
        IF rest = 0 THEN g[whole]
        ELSE AtaWrite(g[whole], next, Padded(From(whole, rest), E))
  BY Zenon DEF WriteClusters, SolvesPut
<1>. HIDE DEF whole, rest
<1>5. chain[1] = c /\ Len(chain) = 1
  OBVIOUS
<1>. HIDE DEF chain
<1>6. E * 0 = 0 /\ E * 1 = E /\ E * (1 - 1) = 0
  BY <1>1
<1>7. n >= E => SubSeq(units, E * (1 - 1) + 1, E * (1 - 1) + E) = Padded(units, E)
  <2>1. SubSeq(units, E * (1 - 1) + 1, E * (1 - 1) + E) = SubSeq(units, 1, E)
    BY <1>1, <1>6
  <2>2. SubSeq(units, 1, E) = [k \in 1..E |-> units[k]]
    BY <1>1, SeqPrefix
  <2>. QED
    BY <1>1, <2>1, <2>2 DEF Padded
<1>8. n < E => Padded(From(0, n), E) = Padded(units, E)
  <2>1. From(0, n) = SubSeq(units, 1, n)
    BY <1>1, <1>6
  <2>2. SubSeq(units, 1, n) = [k \in 1..n |-> units[k]] /\ Len(SubSeq(units, 1, n)) = n
    BY <1>1, SeqPrefix
  <2>3. SubSeq(units, 1, n) = units
    BY <1>1, <2>2
  <2>. QED
    BY <2>1, <2>3
<1>9. From(1, rest) = SubSeq(units, E + 1, E + rest)
  BY <1>6
<1>. DEFINE f == [k \in 0..whole |-> IF k = 0 THEN s ELSE t]
<1>10. \A k \in 0..whole :
         f[k] = IF k = 0 THEN s
                ELSE AtaWrite(f[k - 1], chain[k], SubSeq(units, E * (k - 1) + 1, E * (k - 1) + E))
  <2>. HIDE DEF t
  <2>1. ASSUME NEW k \in 0..whole, k # 0
        PROVE  f[k] = AtaWrite(f[k - 1], chain[k], SubSeq(units, E * (k - 1) + 1, E * (k - 1) + E))
    <3>1. k = 1 /\ n >= E /\ f[1] = t /\ f[0] = s
      BY <1>1, <1>3, <2>1
    <3>2. f[k - 1] = s
      BY <3>1
    <3>. HIDE DEF f
    <3>3. t = AtaWrite(s, chain[1], SubSeq(units, E * (1 - 1) + 1, E * (1 - 1) + E))
      BY <1>5, <1>7, <3>1 DEF t
    <3>. QED
      BY <3>1, <3>2, <3>3
  <2>2. f[0] = s
    BY <1>3
  <2>. HIDE DEF f
  <2>. QED
    BY <2>1, <2>2
<1>11. f = [k \in 0..whole |-> f[k]]
  OBVIOUS
<1>12. f[0] = s /\ (n >= E => f[1] = t)
  BY <1>3
<1>. HIDE DEF f, t
<1>13. SolvesPut(f, s, chain, whole, units)
  BY <1>10, <1>11 DEF SolvesPut
<1>14. SolvesPut(g, s, chain, whole, units)
  BY <1>13, Zenon
<1>. HIDE DEF g
<1>15. /\ g[0] = s
       /\ n >= E => g[1] = t
  <2>1. \A k \in 0..whole :
         g[k] = IF k = 0 THEN s
                ELSE AtaWrite(g[k - 1], chain[k], SubSeq(units, E * (k - 1) + 1, E * (k - 1) + E))
    BY <1>14 DEF SolvesPut
  <2>2. g[0] = s
    BY <1>3, <2>1
  <2>3. ASSUME n >= E PROVE g[1] = t
    <3>1. 1 \in 0..whole /\ 1 # 0
      BY <1>3, <2>3
    <3>2. g[1] = AtaWrite(g[1 - 1], chain[1], SubSeq(units, E * (1 - 1) + 1, E * (1 - 1) + E))
      BY <2>1, <3>1, Zenon
    <3>3. g[1 - 1] = s
      BY <2>2
    <3>. QED
      BY <1>5, <1>7, <2>3, <3>2, <3>3 DEF t
  <2>. QED
    BY <2>2, <2>3
<1>16. CASE n = 0
  BY <1>1, <1>3, <1>4, <1>15, <1>16
<1>17. CASE n # 0 /\ n < E
  <2>1. whole = 0 /\ rest = n /\ next = c
    BY <1>1, <1>3, <1>5, <1>17
  <2>2. WriteClusters(s, c, units) = AtaWrite(s, c, Padded(From(0, n), E))
    BY <1>4, <1>15, <1>17, <2>1
  <2>3. ~ (n >= E)
    BY <1>1, <1>17
  <2>. QED
    BY <1>8, <1>17, <2>2, <2>3 DEF t
<1>18. CASE n >= E
  <2>1. whole = 1 /\ next = EOC /\ n # 0
    BY <1>1, <1>3, <1>5, <1>18
  <2>. QED
    BY <1>4, <1>9, <1>15, <1>18, <2>1 DEF rest, t
<1>. QED
  BY <1>1, <1>16, <1>17, <1>18

\* A write to a cluster.
LEMMA ReadyAgain ==
  ASSUME NEW d, NEW s, Ready(d, s), NEW t, MemoryOK(t), Traced(d, t), t.status = "running",
         t.view.fat = s.view.fat, t.view.root = s.view.root,
         t.fat = s.fat, t.was_fat_read = s.was_fat_read, t.root = s.root,
         t.was_root_read = s.was_root_read, t.root_entries = s.root_entries
  PROVE  Ready(d, t)
<1>1. Coherent(s) /\ Sectored(s.root_entries) <= RootEntries /\ s.view.fat[0] = FAT_SIGNATURE
  BY DEF Ready
<1>2. Coherent(t)
  BY <1>1 DEF Coherent
<1>. QED
  BY <1>1, <1>2 DEF Ready

\* A disk on which a file was written.
FileWritten(v, c, u) ==
  IF Len(u) = 0 THEN v ELSE [v EXCEPT !.data[c] = Padded(u, EntriesPerSector)]

\* More than the disk has sectors.
TooLarge(units) == Len(units) \div EntriesPerSector > SYSTEM_SECTORS

\* A kernel that has stopped, whose table is still one.
Ended(d, s) == Lost(d, s) /\ FatOK(s.fat) /\ FatOK(s.view.fat)

\* A kernel that stops has made only the writes it had made.
LEMMA StopLost ==
  ASSUME NEW d, NEW s, Ready(d, s), NEW why \in Statuses, why # "running"
  PROVE  Ended(d, Stop(s, why))
<1>. DEFINE t == Stop(s, why)
<1>1. /\ s.status = "running" /\ Traced(d, s) /\ s = [field \in Fields |-> s[field]]
      /\ FatOK(s.fat) /\ FatOK(s.view.fat)
  BY ReadyParts
<1>2. t = [s EXCEPT !.status = why]
  BY <1>1 DEF Stop
<1>. HIDE DEF t
<1>3. /\ t = [field \in Fields |-> t[field]] /\ t.status = why
      /\ t.view = s.view /\ t.writes = s.writes /\ t.fat = s.fat
  BY <1>1, <1>2 DEF Fields
<1>. QED
  BY <1>1, <1>3 DEF Ended, Lost, Traced, IsMemory, t

\* What a kernel that has stopped does to the table in its memory.
LEMMA FatStopped ==
  ASSUME NEW d, NEW s, Ended(d, s)
  PROVE  Ended(d, FatRead(s)) /\ Ended(d, FatWrite(s))
<1>1. /\ s.status # "running" /\ Traced(d, s) /\ s = [field \in Fields |-> s[field]]
      /\ FatOK(s.fat) /\ FatOK(s.view.fat)
  BY DEF Ended, Lost, IsMemory
<1>2. ASSUME NEW t, t = [field \in Fields |-> t[field]], t.status = s.status,
             t.view = s.view, t.writes = s.writes, t.fat \in {s.fat, s.view.fat}
      PROVE  Ended(d, t)
  BY <1>1, <1>2 DEF Ended, Lost, Traced, IsMemory
<1>3. /\ LET t == FatRead(s)
         IN /\ t = [field \in Fields |-> t[field]] /\ t.status = s.status
            /\ t.view = s.view /\ t.writes = s.writes /\ t.fat \in {s.fat, s.view.fat}
  <2>. DEFINE t == FatRead(s)
  <2>1. t = s \/ t = [s EXCEPT !.was_fat_read = TRUE, !.fat = s.view.fat]
    BY DEF FatRead
  <2>. HIDE DEF t
  <2>2. /\ t = [field \in Fields |-> t[field]] /\ t.status = s.status
        /\ t.view = s.view /\ t.writes = s.writes /\ t.fat \in {s.fat, s.view.fat}
    BY <1>1, <2>1 DEF Fields
  <2>. QED
    BY <2>2 DEF t
<1>4. /\ LET t == FatWrite(s)
         IN /\ t = [field \in Fields |-> t[field]] /\ t.status = s.status
            /\ t.view = s.view /\ t.writes = s.writes /\ t.fat \in {s.fat, s.view.fat}
  <2>. DEFINE t == FatWrite(s)
  <2>1. AtaWrite(s, FatSector, s.fat) = s
    BY <1>1, AtaWriteStopped
  <2>2. t = [s EXCEPT !.was_fat_read = FALSE]
    BY <2>1 DEF FatWrite
  <2>. HIDE DEF t
  <2>3. /\ t = [field \in Fields |-> t[field]] /\ t.status = s.status
        /\ t.view = s.view /\ t.writes = s.writes /\ t.fat \in {s.fat, s.view.fat}
    BY <1>1, <2>2 DEF Fields
  <2>. QED
    BY <2>3 DEF t
<1>. QED
  BY <1>2, <1>3, <1>4

\* It writes nothing.
LEMMA WriteClustersLost ==
  ASSUME NEW d, NEW s, Ended(d, s), NEW e, e.cluster \in Clusters, NEW units, IsSeq(units)
  PROVE  Ended(d, WriteClusters(FatRead(ResizeFile(s, e, Len(units))), e.cluster, units))
<1>. DEFINE c == e.cluster
            q == ResizeFile(s, e, Len(units))
            r == FatRead(q)
<1>1. q = s \/ q = FatWrite(FatRead(s))
  BY Zenon DEF ResizeFile
<1>2. Ended(d, q)
  BY <1>1, FatStopped
<1>. HIDE DEF q
<1>3. Ended(d, r)
  BY <1>2, FatStopped
<1>. HIDE DEF r
<1>4. Chain(r.fat, c) = <<c>>
  BY <1>3, ChainIs DEF Ended
<1>5. \A to, u : AtaWrite(r, to, u) = r
  BY <1>3, AtaWriteStopped DEF Ended, Lost
<1>6. WriteClusters(r, c, units) = r
  BY <1>4, <1>5, WriteClustersIs
<1>. QED
  BY <1>3, <1>6 DEF r, q

\* Data that is too large for the disk is not written.
LEMMA WriteFileDataStops ==
  ASSUME NEW d, NEW s, Ready(d, s), NEW e, e.cluster \in Clusters, NEW units, IsSeq(units),
         TooLarge(units)
  PROVE  Ended(d, WriteFileData(s, e, units).s)
<1>. DEFINE p == Stop(s, "panic")
<1>1. Ended(d, p)
  BY StopLost DEF Statuses
<1>2. WriteFileData(s, e, units).s =
        WriteClusters(FatRead(ResizeFile(p, e, Len(units))), e.cluster, units)
  BY DEF WriteFileData, TooLarge
<1>. HIDE DEF p
<1>. QED
  BY <1>1, <1>2, WriteClustersLost

\* Nor is any by a kernel that has stopped.
LEMMA WriteFileDataLost ==
  ASSUME NEW d, NEW s, Ended(d, s), NEW e, e.cluster \in Clusters, NEW units, IsSeq(units)
  PROVE  Ended(d, WriteFileData(s, e, units).s)
<1>1. Stop(s, "panic") = s
  BY DEF Stop, Ended, Lost
<1>2. WriteFileData(s, e, units).s =
        WriteClusters(FatRead(ResizeFile(s, e, Len(units))), e.cluster, units)
  BY <1>1 DEF WriteFileData
<1>. QED
  BY <1>2, WriteClustersLost

\* write_file, the data: a file keeps what fits in its cluster, and nothing is written
\* for an empty one.
LEMMA WriteFileDataFits ==
  ASSUME NEW d, NEW s, Ready(d, s), NEW e, e.cluster \in Clusters, NEW units, IsSeq(units),
         ~TooLarge(units), NEW new, new = FileWritten(s.view, e.cluster, units), NewMarked(s.view, new)
  PROVE  LET t == WriteFileData(s, e, units).s
         IN /\ Ready(d, t) /\ t.view = new
            /\ t.written = s.written /\ t.root_entries = s.root_entries /\ t.calls = s.calls
<1>. DEFINE c == e.cluster
            E == EntriesPerSector
            n == Len(units)
            r == FatRead(ResizeFile(s, e, n))
            t == WriteFileData(s, e, units).s
            a == AtaWrite(r, c, Padded(units, E))
            X == Padded(SubSeq(units, EntriesPerSector + 1,
                                EntriesPerSector + (n % EntriesPerSector)), EntriesPerSector)
            b == AtaWrite(a, EOC, X)
<1>0. new = IF Len(units) = 0 THEN s.view
            ELSE [s.view EXCEPT !.data[e.cluster] = Padded(units, EntriesPerSector)]
  BY DEF FileWritten
<1>1. Ready(d, r) /\ Same(s, r) /\ r.fat = r.view.fat
  BY ResizeReady
<1>2. t = WriteClusters(r, c, units)
  BY DEF WriteFileData, TooLarge
<1>. HIDE DEF r
<1>3. Chain(r.fat, c) = <<c>>
  BY <1>1, ReadyParts, ChainIs
<1>4. t = IF n = 0 THEN r
          ELSE IF n >= EntriesPerSector /\ n % EntriesPerSector # 0 THEN b ELSE a
  BY <1>2, <1>3, WriteClustersIs
<1>. HIDE DEF t, X
<1>5. CASE n = 0
  BY <1>0, <1>1, <1>4, <1>5 DEF Same, t
<1>6. CASE n # 0
  <2>1. new = [r.view EXCEPT !.data[c] = Padded(units, E)]
    BY <1>0, <1>1, <1>6 DEF Same
  <2>2. new = Written(r.view, [to |-> c, units |-> Padded(units, E)])
    <3>1. \A u : Written(r.view, [to |-> c, units |-> u]) = [r.view EXCEPT !.data[c] = u]
      <4>1. c # FatSector /\ c # RootSector
        BY Constants
      <4>. QED
        BY <4>1 DEF Written
    <3>. QED
      BY <2>1, <3>1
  <2>3. DiskOK(r.view) /\ r.view.fat[0] = FAT_SIGNATURE
    BY <1>1, ReadyParts
  <2>4. /\ new = [field \in DiskFields |-> new[field]]
        /\ new.fat = r.view.fat /\ new.root = r.view.root
        /\ new.data = [r.view.data EXCEPT ![c] = Padded(units, E)]
    BY <2>1, <2>3 DEF DiskOK, DiskFields
  <2>5. DataOK(new.data)
    <3>1. DataOK(r.view.data)
      BY <2>3 DEF DiskOK
    <3>2. Padded(units, E) = [k \in 1..E |-> Padded(units, E)[k]]
      BY DEF Padded
    <3>. HIDE DEF E
    <3>3. new.data = [x \in Clusters |-> IF x = c THEN Padded(units, E) ELSE r.view.data[x]]
      BY <2>4, <3>1 DEF DataOK
    <3>4. ASSUME NEW x \in Clusters
          PROVE  new.data[x] = [k \in 1..EntriesPerSector |-> new.data[x][k]]
      <4>. DEFINE p == Padded(units, E)
      <4>1. CASE x = c
        <5>1. new.data[x] = p
          BY <3>3, <4>1
        <5>. HIDE DEF p
        <5>. QED
          BY <3>2, <5>1 DEF p, E
      <4>2. CASE x # c
        <5>1. new.data[x] = r.view.data[x]
          BY <3>3, <4>2
        <5>2. r.view.data[x] = [k \in 1..EntriesPerSector |-> r.view.data[x][k]]
          BY <3>1 DEF DataOK
        <5>. QED
          BY <5>1, <5>2
      <4>. QED
        BY <4>1, <4>2
    <3>5. new.data = [x \in Clusters |-> new.data[x]]
      BY <3>3
    <3>. QED
      BY <3>4, <3>5 DEF DataOK
  <2>6. Step(r.view, new)
    BY <1>1, <2>3, <2>4, <2>5 DEF Step, DiskOK, Same
  <2>7. /\ MemoryOK(a) /\ Traced(d, a) /\ a.status = "running" /\ a.view = new
        /\ a.fat = r.fat /\ a.was_fat_read = r.was_fat_read
        /\ a.root = r.root /\ a.was_root_read = r.was_root_read
        /\ a.root_entries = r.root_entries /\ a.written = r.written /\ a.calls = r.calls
    BY <1>1, <2>2, <2>6, ReadyParts, AtaWriteReady
  <2>. HIDE DEF a
  <2>9. Ready(d, a)
    BY <1>1, <2>3, <2>4, <2>7, ReadyAgain
  <2>10. new = Written(new, [to |-> EOC, units |-> X])
    BY <2>6, WrittenParts DEF Step
  <2>11. Step(new, new)
    BY <2>6, NothingNew DEF Step
  <2>12. /\ MemoryOK(b) /\ Traced(d, b) /\ b.status = "running" /\ b.view = new
         /\ b.fat = a.fat /\ b.was_fat_read = a.was_fat_read
         /\ b.root = a.root /\ b.was_root_read = a.was_root_read
         /\ b.root_entries = a.root_entries /\ b.written = a.written /\ b.calls = a.calls
    BY <2>7, <2>10, <2>11, AtaWriteReady
  <2>. HIDE DEF b
  <2>13. Ready(d, b)
    BY <2>7, <2>9, <2>12, ReadyAgain
  <2>. QED
    BY <1>1, <1>4, <1>6, <2>7, <2>9, <2>12, <2>13 DEF Same, t
<1>. QED
  BY <1>5, <1>6

\* It is written, or the kernel stops.
LEMMA WriteFileDataReady ==
  ASSUME NEW d, NEW s, Ready(d, s), NEW e, e.cluster \in Clusters, NEW units, IsSeq(units),
         NEW new, new = FileWritten(s.view, e.cluster, units), NewMarked(s.view, new)
  PROVE  LET t == WriteFileData(s, e, units).s
         IN \/ Lost(d, t) /\ Ended(d, t)
            \/ /\ Ready(d, t) /\ t.view = new /\ t.written = s.written
               /\ t.root_entries = s.root_entries /\ t.calls = s.calls
BY WriteFileDataFits, WriteFileDataStops DEF Ended

-----------------------------------------------------------------------------
(* The tree of files.  D has the number of entries of each directory, by its      *)
(* cluster; the root directory is 0.  A directory in D may be out of reach: what    *)
(* lay in one that was deleted.  R[d] grows along every path.                     *)

Room(d) == IF d = 0 THEN RootEntries ELSE EntriesPerSector
Unit(v, d, k) == IF d = 0 THEN v.root[k] ELSE v.data[d][k]

\* The k-th place of directory d is in use.
At(D, d, k) == d \in DOMAIN D /\ k \in 1..Room(d) /\ k <= D[d]

\* e is the entry there.
Lies(v, D, d, k, e) == At(D, d, k) /\ Unit(v, d, k) = e /\ e # Blank

IsTree(D, R) ==
  /\ D \in [DOMAIN D -> Nat] /\ 0 \in DOMAIN D /\ DOMAIN D \subseteq {0} \cup Clusters
  /\ R \in [{0} \cup Clusters -> Nat]

Typed(v, D) == \A d, k : At(D, d, k) => MaybeEntry(Unit(v, d, k))

\* An entry of a directory that has a place on the disk.
Enterable(e) == e.attributes = "directory" /\ e.cluster \in Clusters

\* The entries of directories lead to directories of their size, but for those in X.
Linked(v, D, R, X) ==
  \A d, k, e :
    Lies(v, D, d, k, e) =>
      IF Enterable(e)
        THEN /\ e.cluster \in DOMAIN D /\ R[e.cluster] > R[d]
             /\ e.cluster \notin X => D[e.cluster] = e.size
        ELSE e.cluster \notin DOMAIN D

\* No two entries have a cluster in common.
Apart(v, D) ==
  \A d, k, e, f, l, g :
    Lies(v, D, d, k, e) /\ Lies(v, D, f, l, g) /\ e.cluster = g.cluster => d = f /\ k = l

\* There is nothing after the last entry of a directory that was ever written.
Tidy(v, D) ==
  \A d \in DOMAIN D : \A k \in 1..Room(d) :
    k > D[d] /\ (d = 0 \/ D[d] > 0) => Unit(v, d, k) = Blank

\* The root directory has the entries that are stored.
RootKept(v, D) == \A k \in 1..RootEntries : k <= D[0] /\ Stored(k) => v.root[k] # Blank

Shape(v, D, R, X) ==
  /\ IsTree(D, R) /\ Typed(v, D) /\ Linked(v, D, R, X) /\ Apart(v, D)
  /\ Tidy(v, D) /\ RootKept(v, D)

\* The cluster is marked, where it can be.
Taken(fat, c) == IF c \in Clusters THEN fat[c] = EOC ELSE Full(fat)

\* The clusters of entries and of directories are marked, but for those in X.
Marked(v, D, X) ==
  /\ \A d, k, e : Lies(v, D, d, k, e) /\ e.cluster \notin X => Taken(v.fat, e.cluster)
  /\ \A d \in DOMAIN D : d # 0 /\ d \notin X => v.fat[d] = EOC

\* No cluster is behind the table.
Sound(v, D) == \A d, k, e : Lies(v, D, d, k, e) => e.cluster \in Clusters

\* Files have what was written to them, but for those in X.
ReadBack(v, D, written, X) ==
  /\ Sound(v, D)
  /\ \A d, k, e :
       /\ Lies(v, D, d, k, e) /\ e.attributes = "file" /\ e.size <= EntriesPerSector
       /\ e.cluster \notin X
       => SubSeq(v.data[e.cluster], 1, e.size) = written[e.cluster]

Held(s, D, R) ==
  /\ D[0] = s.root_entries
  /\ Shape(s.view, D, R, {}) /\ Marked(s.view, D, {}) /\ ReadBack(s.view, D, s.written, {})

\* What is listed is in D.
Covers(v, D) ==
  /\ Typed(v, D) /\ Tidy(v, D)
  /\ \A d, k, e : Lies(v, D, d, k, e) /\ Enterable(e) =>
       e.cluster \in DOMAIN D /\ (e.size <= D[e.cluster] \/ D[e.cluster] > 0)

\* An entry is a good one.
LEMMA LiesGood ==
  ASSUME NEW v, NEW D, Typed(v, D), NEW d, NEW k, NEW e, Lies(v, D, d, k, e)
  PROVE  /\ Good(e) /\ e \in EntryType /\ e.cluster \in Given /\ e.size \in Nat
         /\ e.attributes \in {"file", "directory"} /\ e.name \in Names
<1>1. Good(e)
  BY DEF Lies, Typed, MaybeEntry
<1>. QED
  BY <1>1 DEF Good, EntryType

\* Directories in which nothing is linked wrongly cover what is listed.
LEMMA ShapeCovers ==
  ASSUME NEW v, NEW D, NEW R, Shape(v, D, R, {})
  PROVE  Covers(v, D)
<1>1. Typed(v, D) /\ Tidy(v, D) /\ Linked(v, D, R, {}) /\ IsTree(D, R)
  BY DEF Shape
<1>2. ASSUME NEW d, NEW k, NEW e, Lies(v, D, d, k, e), Enterable(e)
      PROVE  e.cluster \in DOMAIN D /\ (e.size <= D[e.cluster] \/ D[e.cluster] > 0)
  <2>1. e.cluster \in DOMAIN D /\ D[e.cluster] = e.size
    BY <1>1, <1>2 DEF Linked
  <2>2. e.size \in Nat
    BY <1>1, <1>2, LiesGood
  <2>. QED
    BY <2>1, <2>2
<1>. QED
  BY <1>1, <1>2 DEF Covers

\* Whatever is listed is an entry.
LEMMA ListedLies ==
  ASSUME NEW v, DiskOK(v), NEW D, NEW R, IsTree(D, R), Covers(v, D), NEW e \in Listed(v)
  PROVE  \E d, k : Lies(v, D, d, k, e)
<1>. DEFINE L(x) == \E d, k : Lies(v, D, d, k, x)
            In(x) == IF x.attributes # "directory" \/ x.cluster \notin Clusters THEN {}
                     ELSE {v.data[x.cluster][k] : k \in 1..Min({x.size, EntriesPerSector})}
            InRoot == ToSet(v.root) \ {Blank}
            Below(S) == (UNION {In(x) : x \in S}) \ {Blank}
<1>1. ASSUME NEW x \in InRoot PROVE L(x)
  <2>1. v.root = [k \in 1..RootEntries |-> v.root[k]]
    BY DEF DiskOK, RootOK
  <2>2. PICK k \in 1..RootEntries : v.root[k] = x
    BY <2>1 DEF ToSet
  <2>3. Unit(v, 0, k) = x /\ k \in 1..Room(0) /\ 0 \in DOMAIN D /\ D[0] \in Nat
    BY <2>2 DEF Unit, Room, IsTree
  <2>4. k <= D[0]
    BY <2>3, Constants DEF Covers, Tidy
  <2>5. Lies(v, D, 0, k, x)
    BY <2>3, <2>4 DEF Lies, At
  <2>. QED
    BY <2>5
<1>2. ASSUME NEW x, L(x), NEW y \in In(x), y # Blank PROVE L(y)
  <2>1. PICK d, k : Lies(v, D, d, k, x)
    BY <1>2
  <2>2. x.cluster \in Clusters /\ x.size \in Nat
    BY <1>2, <2>1, LiesGood DEF Covers
  <2>3. x.attributes = "directory" /\ Enterable(x)
    BY <1>2 DEF Enterable
  <2>4. PICK l \in 1..Min({x.size, EntriesPerSector}) : v.data[x.cluster][l] = y
    BY <1>2, <2>3
  <2>5. l \in 1..EntriesPerSector /\ l <= x.size
    BY <2>2, <2>4, MinOfTwo, Constants
  <2>6. x.cluster \in DOMAIN D /\ (x.size <= D[x.cluster] \/ D[x.cluster] > 0)
    BY <2>1, <2>3 DEF Covers
  <2>7. /\ x.cluster # 0 /\ Unit(v, x.cluster, l) = y /\ l \in 1..Room(x.cluster)
        /\ D[x.cluster] \in Nat
    BY <2>2, <2>4, <2>5, <2>6, Constants DEF Unit, Room, IsTree
  <2>8. ~ (l > D[x.cluster] /\ D[x.cluster] > 0)
    BY <1>2, <2>6, <2>7 DEF Covers, Tidy
  <2>9. l <= D[x.cluster]
    BY <2>2, <2>5, <2>6, <2>7, <2>8
  <2>10. Lies(v, D, x.cluster, l, y)
    BY <1>2, <2>6, <2>7, <2>9 DEF Lies, At
  <2>. QED
    BY <2>10
<1>3. Listed(v) = InRoot \cup Below(InRoot) \cup Below(Below(InRoot))
  BY DEF Listed
<1>. HIDE DEF InRoot, L, In
<1>4. ASSUME NEW S, \A x \in S : L(x), NEW y \in Below(S) PROVE L(y)
  <2>1. PICK x \in S : y \in In(x)
    BY <1>4
  <2>. QED
    BY <1>2, <1>4, <2>1
<1>5. \A y \in Below(InRoot) : L(y)
  <2>. HIDE DEF Below
  <2>. QED
    BY <1>1, <1>4
<1>6. \A y \in Below(Below(InRoot)) : L(y)
  <2>. DEFINE S == Below(InRoot)
  <2>1. \A y \in S : L(y)
    BY <1>5
  <2>. HIDE DEF S
  <2>2. \A y \in Below(S) : L(y)
    BY <1>4, <2>1
  <2>. QED
    BY <2>2 DEF S
<1>7. L(e)
  <2>. HIDE DEF Below
  <2>. QED
    BY <1>1, <1>3, <1>5, <1>6
<1>. QED
  BY <1>7 DEF L

\* Entries whose clusters are marked.
LEMMA MarkedNew ==
  ASSUME NEW old, NEW v, DiskOK(v), NEW D, NEW R, IsTree(D, R), Covers(v, D),
         Marked(v, D, {})
  PROVE  NewMarked(old, v)
<1>1. ASSUME NEW e \in Listed(v)
      PROVE  IF e.cluster \in Clusters THEN v.fat[e.cluster] # 0 ELSE Full(v.fat)
  <2>1. PICK d, k : Lies(v, D, d, k, e)
    BY ListedLies
  <2>2. Taken(v.fat, e.cluster)
    BY <2>1 DEF Marked
  <2>. QED
    BY <2>2, Constants DEF Taken
<1>. QED
  BY <1>1 DEF NewMarked

\* What the tree says of the entries that are listed, and of the root directory.
LEMMA HeldListed ==
  ASSUME NEW d, NEW s, Ready(d, s), NEW D, NEW R, Held(s, D, R)
  PROVE  /\ \A e \in Listed(s.view) : e.cluster \in Clusters /\ s.view.fat[e.cluster] = EOC
         /\ \A e, f \in Listed(s.view) : e.cluster = f.cluster => e = f
         /\ \A e \in Listed(s.view) :
              e.attributes = "file" /\ e.size <= EntriesPerSector =>
                SubSeq(s.view.data[e.cluster], 1, e.size) = s.written[e.cluster]
         /\ \A k \in 1..Min({s.root_entries, RootEntries}) :
              s.view.root[k] = Blank <=> (k > EntriesPerSector /\ k % EntriesPerSector # 0)
<1>1. /\ DiskOK(s.view) /\ s.root_entries \in Nat /\ IsTree(D, R) /\ Typed(s.view, D)
      /\ Apart(s.view, D) /\ RootKept(s.view, D) /\ Covers(s.view, D)
      /\ Marked(s.view, D, {}) /\ ReadBack(s.view, D, s.written, {}) /\ D[0] = s.root_entries
      /\ RootOK(s.view.root)
  BY ReadyParts, ShapeCovers DEF Held, Shape
<1>2. ASSUME NEW e \in Listed(s.view)
      PROVE  /\ e.cluster \in Clusters /\ s.view.fat[e.cluster] = EOC
             /\ e.attributes = "file" /\ e.size <= EntriesPerSector =>
                  SubSeq(s.view.data[e.cluster], 1, e.size) = s.written[e.cluster]
  <2>1. PICK f, k : Lies(s.view, D, f, k, e)
    BY <1>1, ListedLies
  <2>2. e.cluster \in Clusters
    BY <1>1, <2>1 DEF ReadBack, Sound
  <2>. QED
    BY <1>1, <2>1, <2>2 DEF Marked, Taken, ReadBack
<1>3. ASSUME NEW e \in Listed(s.view), NEW f \in Listed(s.view), e.cluster = f.cluster
      PROVE  e = f
  <2>1. PICK x, k : Lies(s.view, D, x, k, e)
    BY <1>1, ListedLies
  <2>2. PICK y, l : Lies(s.view, D, y, l, f)
    BY <1>1, ListedLies
  <2>3. x = y /\ k = l
    BY <1>1, <1>3, <2>1, <2>2 DEF Apart
  <2>. QED
    BY <2>1, <2>2, <2>3 DEF Lies
<1>4. ASSUME NEW k \in 1..Min({s.root_entries, RootEntries})
      PROVE  s.view.root[k] = Blank <=> (k > EntriesPerSector /\ k % EntriesPerSector # 0)
  <2>1. k \in 1..RootEntries /\ k <= D[0]
    BY <1>1, MinOfTwo, Constants
  <2>2. s.view.root[k] = Blank <=> ~Stored(k)
    BY <1>1, <2>1 DEF RootOK, RootKept
  <2>. QED
    BY <2>1, <2>2, Constants DEF Stored
<1>. QED
  BY <1>2, <1>3, <1>4

-----------------------------------------------------------------------------
(* Reading directories, and the way to them.                                *)

Counted(s, D, R) == IsTree(D, R) /\ D[0] = s.root_entries

\* u is what is read of directory d.
Buffer(v, D, d, u) ==
  /\ IsSeq(u) /\ D[d] <= Len(u) /\ (d = 0 => Len(u) = D[0])
  /\ \A k \in 1..Len(u) : u[k] = IF k <= Room(d) THEN Unit(v, d, k) ELSE Junk

\* dir is a place where directory d is entered.
Stands(dir, D, d) ==
  /\ d \in DOMAIN D
  /\ IF d = 0 THEN dir.i = 0
     ELSE /\ dir.i \in Nat /\ dir.i # 0
          /\ dir.buf[dir.i].cluster = d /\ dir.buf[dir.i].size = D[d]

\* read_file, of a chain of one cluster.
LEMMA ReadFileReady ==
  ASSUME NEW d, NEW s, Ready(d, s), NEW e, e.cluster \in Clusters, e.size \in Nat
  PROVE  LET r == ReadFile(s, e)
         IN /\ Ready(d, r.s) /\ Same(s, r.s) /\ IsSeq(r.units)
            /\ Len(r.units) = EntriesPerSector * SizeToSectors(e.size)
            /\ \A k \in 1..Len(r.units) :
                 r.units[k] = IF k <= EntriesPerSector THEN s.view.data[e.cluster][k] ELSE Junk
<1>. DEFINE E == EntriesPerSector
            length == E * SizeToSectors(e.size)
            read == FatRead(s)
            chain == Chain(read.fat, e.cluster)
            U(n, k) == IF n <= Len(chain) THEN read.view.data[chain[n]][k] ELSE Junk
            u == [k \in 1..length |-> U(((k - 1) \div E) + 1, ((k - 1) % E) + 1)]
            r == ReadFile(s, e)
<1>1. length \in Nat /\ E \in Nat \ {0}
  <2>1. length \in Nat
    BY SizeSectors, Zenon
  <2>. QED
    BY <2>1, Constants
<1>2. r = IF length = 0 THEN [s |-> s, units |-> <<>>] ELSE [s |-> read, units |-> u]
  BY Zenon DEF ReadFile
<1>3. Ready(d, read) /\ Same(s, read) /\ read.fat = s.view.fat
  BY FatReadReady
<1>4. chain = <<e.cluster>>
  <2>1. FatOK(read.fat)
    BY <1>3, ReadyParts
  <2>. QED
    BY <2>1, ChainIs
<1>. HIDE DEF read, length
<1>5. read.view = s.view
  BY <1>3 DEF Same
<1>6. CASE length = 0
  <2>1. r.s = s /\ r.units = <<>> /\ Same(s, s)
    BY <1>2, <1>6 DEF Same
  <2>2. IsSeq(<<>>) /\ Len(<<>>) = 0
    BY TraceEmpty
  <2>. QED
    BY <1>6, <2>1, <2>2 DEF length
<1>7. CASE length # 0
  <2>1. r.s = read /\ r.units = u
    BY <1>2, <1>7
  <2>2. u = [k \in 1..length |-> u[k]]
    OBVIOUS
  <2>3. ASSUME NEW k \in 1..length
        PROVE  u[k] = IF k <= E THEN s.view.data[e.cluster][k] ELSE Junk
    <3>. DEFINE n == (k - 1) \div E
                m == (k - 1) % E
                j == k - 1
    <3>1. u[k] = U(n + 1, m + 1)
      OBVIOUS
    <3>2. j \in Nat
      OBVIOUS
    <3>. HIDE DEF u
    <3>3. CASE k <= E
      <4>1. E * 0 = 0 /\ 0 <= j /\ j < 0 + E
        BY <1>1, <3>3
      <4>. HIDE DEF j
      <4>2. j \div E = 0 /\ j % E = j - 0
        BY <1>1, <3>2, <4>1, QuotientOf
      <4>3. n + 1 = 1 /\ m + 1 = k
        BY <3>2, <4>2 DEF j
      <4>. QED
        BY <1>4, <1>5, <3>1, <3>3, <4>3
    <3>4. CASE k > E
      <4>1. n # 0
        <5>. HIDE DEF j
        <5>1. /\ j \div E \in Nat /\ j < E * (j \div E) + E /\ E * 0 = 0
          BY <1>1, <3>2, Division
        <5>. QED
          BY <1>1, <3>2, <3>4, <5>1 DEF j
      <4>2. n \in Nat
        BY <1>1, <3>2, Division
      <4>. HIDE DEF n, m
      <4>3. ~ (n + 1 <= 1) /\ Len(chain) = 1
        BY <1>4, <4>1, <4>2
      <4>4. ~ (k <= E)
        BY <1>1, <3>4
      <4>. QED
        BY <3>1, <4>3, <4>4
    <3>. QED
      BY <1>1, <3>3, <3>4
  <2>. HIDE DEF u, r
  <2>4. IsSeq(u) /\ Len(u) = length
    BY <1>1, <2>2, FunctionIsSeq
  <2>. QED
    BY <1>3, <2>1, <2>3, <2>4 DEF length, r
<1>. QED
  BY <1>6, <1>7

\* kread_file, of a directory.
LEMMA KreadFileReady ==
  ASSUME NEW x, NEW dir, Ready(x, dir.s), NEW D, NEW R, Counted(dir.s, D, R),
         NEW d, Stands(dir, D, d)
  PROVE  LET r == KreadFile(dir.s, dir)
         IN /\ Ready(x, r.s) /\ Same(dir.s, r.s) /\ Buffer(dir.s.view, D, d, r.units)
            /\ D[d] = Size(r.s, dir)
<1>. DEFINE s == dir.s
            r == KreadFile(s, dir)
            E == EntriesPerSector
<1>0. D[d] \in Nat /\ d \in {0} \cup Clusters
  BY DEF Stands, Counted, IsTree
<1>1. CASE d = 0
  <2>1. dir.i = 0 /\ s.root_entries = D[0] /\ s.root_entries \in Nat
    BY <1>1, ReadyParts DEF Stands, Counted
  <2>. DEFINE t == RootRead(s)
              n == s.root_entries
              u == [k \in 1..n |-> IF k <= RootEntries THEN t.root[k] ELSE Junk]
  <2>2. r.s = t /\ r.units = u
    BY <2>1 DEF KreadFile
  <2>3. /\ Ready(x, t) /\ Same(s, t)
        /\ \A k \in 1..Sectored(n) : t.root[k] = s.view.root[k]
    BY RootReadReady
  <2>4. RootOK(t.root) /\ RootOK(s.view.root)
    BY <2>3, ReadyParts
  <2>. HIDE DEF t
  <2>5. ASSUME NEW k \in 1..n
        PROVE  u[k] = IF k <= Room(d) THEN Unit(s.view, d, k) ELSE Junk
    <3>1. u[k] = IF k <= RootEntries THEN t.root[k] ELSE Junk
      OBVIOUS
    <3>2. Room(d) = RootEntries /\ Unit(s.view, d, k) = s.view.root[k]
      BY <1>1 DEF Room, Unit
    <3>3. k \in 1..Sectored(n) => t.root[k] = s.view.root[k]
      BY <2>3
    <3>4. k > Sectored(n) => ~Stored(k)
      BY <2>1, SectoredEntries
    <3>5. k <= RootEntries /\ ~Stored(k) => t.root[k] = Blank /\ s.view.root[k] = Blank
      BY <2>1, <2>4, Constants DEF RootOK
    <3>6. Sectored(n) \in Nat
      BY <2>1, SectoredEntries
    <3>. HIDE DEF n, u
    <3>. QED
      BY <2>1, <3>1, <3>2, <3>3, <3>4, <3>5, <3>6
  <2>6. u = [k \in 1..n |-> u[k]]
    OBVIOUS
  <2>. HIDE DEF u
  <2>7. IsSeq(u) /\ Len(u) = n
    BY <2>1, <2>6, FunctionIsSeq
  <2>8. Buffer(s.view, D, d, u)
    BY <1>1, <2>1, <2>5, <2>7 DEF Buffer
  <2>9. Size(r.s, dir) = D[d]
    BY <1>1, <2>1, <2>2, <2>3 DEF Size, Same
  <2>. QED
    BY <2>2, <2>3, <2>8, <2>9
<1>2. CASE d # 0
  <2>. DEFINE e == dir.buf[dir.i]
  <2>1. dir.i # 0 /\ e.cluster = d /\ e.size = D[d] /\ d \in Clusters
    BY <1>0, <1>2 DEF Stands
  <2>2. r = ReadFile(s, e)
    BY <2>1 DEF KreadFile
  <2>. HIDE DEF r, e
  <2>3. /\ Ready(x, r.s) /\ Same(s, r.s) /\ IsSeq(r.units)
        /\ Len(r.units) = E * SizeToSectors(e.size)
        /\ \A k \in 1..Len(r.units) :
             r.units[k] = IF k <= E THEN s.view.data[e.cluster][k] ELSE Junk
    BY <1>0, <2>1, <2>2, ReadFileReady
  <2>4. D[d] <= Len(r.units)
    BY <1>0, <2>1, <2>3, SizeSectors
  <2>5. Buffer(s.view, D, d, r.units)
    BY <1>2, <2>1, <2>3, <2>4 DEF Buffer, Room, Unit
  <2>6. Size(r.s, dir) = D[d]
    BY <2>1 DEF Size, e
  <2>. QED
    BY <2>3, <2>5, <2>6 DEF r
<1>. QED
  BY <1>1, <1>2

\* The first place of directory d with a name, before anything that was never written.
First(v, D, d, name, k) ==
  /\ At(D, d, k) /\ Unit(v, d, k) # Junk /\ FullName(Unit(v, d, k)) = name
  /\ \A j \in 1..(k - 1) : Unit(v, d, j) # Junk /\ FullName(Unit(v, d, j)) # name

Found(f, v, D, d, name) == Buffer(v, D, d, f.buf) /\ First(v, D, d, name, f.i)

\* The kernel has stopped, and looks no further.
Stopped(x, s, f) ==
  Traced(x, f.s) /\ IsMemory(f.s) /\ Same(s, f.s) /\ f.s.status # "running" /\ f.i = 0

\* Stop
LEMMA StopReady ==
  ASSUME NEW x, NEW s, Ready(x, s), NEW status \in Statuses, status # "running"
  PROVE  LET t == Stop(s, status)
         IN Traced(x, t) /\ IsMemory(t) /\ Same(s, t) /\ t.status = status
<1>. DEFINE t == Stop(s, status)
<1>1. t = [s EXCEPT !.status = status] /\ s = [field \in Fields |-> s[field]]
  BY ReadyParts DEF Stop
<1>. HIDE DEF t
<1>2. /\ t.view = s.view /\ t.writes = s.writes /\ t.written = s.written
      /\ t.root_entries = s.root_entries /\ t.calls = s.calls /\ t.status = status
      /\ t = [field \in Fields |-> t[field]]
  BY <1>1 DEF Fields
<1>3. Traced(x, s)
  BY ReadyParts
<1>. QED
  BY <1>2, <1>3 DEF Traced, Same, IsMemory, t

\* find_file
LEMMA FindFileReady ==
  ASSUME NEW x, NEW dir, Ready(x, dir.s), NEW D, NEW R, Counted(dir.s, D, R),
         NEW d, Stands(dir, D, d), NEW name
  PROVE  LET f == FindFile(dir, name)
         IN /\ Same(dir.s, f.s) /\ Traced(x, f.s)
            /\ IF f.s.status = "running"
                 THEN Ready(x, f.s) /\ Found(f, dir.s.view, D, d, name)
                 ELSE Stopped(x, dir.s, f)
<1>. DEFINE v == dir.s.view
            read == KreadFile(dir.s, dir)
            hits == {k \in 1..Size(read.s, dir) :
                       read.units[k] = Junk \/ FullName(read.units[k]) = name}
            found == hits # {} /\ read.units[Min(hits)] # Junk
            fate == IF hits = {} THEN "panic" ELSE "undefined"
            f == FindFile(dir, name)
<1>1. f = [s |-> IF found THEN read.s ELSE Stop(read.s, fate),
           buf |-> read.units, i |-> IF found THEN Min(hits) ELSE 0]
  BY ReadyParts DEF FindFile, EntryIn
<1>2. /\ Ready(x, read.s) /\ Same(dir.s, read.s) /\ Buffer(v, D, d, read.units)
      /\ Size(read.s, dir) = D[d]
  <2>1. D[d] = Size(read.s, dir)
    BY KreadFileReady
  <2>. QED
    BY <2>1, KreadFileReady
<1>3. D[d] \in Nat /\ d \in DOMAIN D
  BY DEF Stands, Counted, IsTree
<1>. HIDE DEF f
<1>4. CASE found
  <2>1. f.s = read.s /\ f.buf = read.units /\ f.i = Min(hits)
    BY <1>1, <1>4
  <2>2. hits \subseteq Nat /\ hits # {}
    BY <1>4
  <2>3. Min(hits) \in hits /\ \A k \in hits : Min(hits) <= k
    BY <2>2, MinOf
  <2>. DEFINE i == Min(hits)
  <2>. HIDE DEF i
  <2>4. i \in 1..D[d] /\ read.units[i] # Junk /\ FullName(read.units[i]) = name
    BY <1>2, <1>4, <2>3 DEF i
  <2>5. \A j \in 1..(i - 1) : read.units[j] # Junk /\ FullName(read.units[j]) # name
    BY <1>2, <1>3, <2>3, <2>4 DEF i
  <2>. HIDE DEF hits, read
  <2>6. Len(read.units) \in Nat /\ D[d] <= Len(read.units)
    BY <1>2, SeqIsFunction DEF Buffer
  <2>7. Room(d) \in Nat
    BY Constants DEF Room
  <2>8. /\ i \in 1..Len(read.units) /\ i <= Room(d)
    BY <1>2, <1>3, <2>4, <2>6, <2>7 DEF Buffer
  <2>9. \A j \in 1..i : read.units[j] = Unit(v, d, j)
    BY <1>2, <2>6, <2>7, <2>8 DEF Buffer
  <2>10. At(D, d, i)
    BY <1>3, <2>4, <2>7, <2>8 DEF At
  <2>11. First(v, D, d, name, i)
    BY <2>4, <2>5, <2>9, <2>10 DEF First
  <2>12. Found(f, v, D, d, name)
    BY <1>2, <2>1, <2>11 DEF Found, i
  <2>. QED
    BY <1>2, <2>1, <2>12, ReadyParts DEF f
<1>5. CASE ~found
  <2>1. f.s = Stop(read.s, fate) /\ f.i = 0
    BY <1>1, <1>5
  <2>2. fate \in Statuses /\ fate # "running"
    BY DEF Statuses
  <2>. HIDE DEF fate, read
  <2>3. Traced(x, f.s) /\ IsMemory(f.s) /\ Same(read.s, f.s) /\ f.s.status = fate
    BY <1>2, <2>1, <2>2, StopReady
  <2>4. Same(dir.s, f.s)
    BY <1>2, <2>3 DEF Same
  <2>. QED
    BY <2>1, <2>2, <2>3, <2>4 DEF Stopped, f
<1>. QED
  BY <1>4, <1>5

\* A full name has an extension when the name has.
LEMMA FullNameOf ==
  ASSUME NEW e \in EntryType
  PROVE  HasExtension(FullName(e)) <=> HasExtension(e.name)
<1>1. e.name \in [base : Seq(STRING), ext : Seq(STRING)]
  BY DEF EntryType, Names
<1>2. CASE Len(e.name.base) = FilenameSize /\ e.name.ext # <<>>
  <2>. DEFINE b == e.name.base \o e.name.ext
  <2>1. FullName(e) = [e.name EXCEPT !.base = b]
    BY <1>2 DEF FullName
  <2>. HIDE DEF b
  <2>2. FullName(e).ext = e.name.ext
    BY <1>1, <2>1
  <2>. QED
    BY <2>2 DEF HasExtension
<1>3. CASE ~ (Len(e.name.base) = FilenameSize /\ e.name.ext # <<>>)
  <2>1. FullName(e) = e.name
    BY <1>3 DEF FullName
  <2>. QED
    BY <1>1, <2>1
<1>. QED
  BY <1>2, <1>3

\* A blank place has no name.
LEMMA FullNameBlank == FullName(Blank) = NoName
BY DEF FullName, Blank, NoName

\* The first place with a name has an entry, of the kind the name says.
LEMMA FirstLies ==
  ASSUME NEW v, NEW D, Typed(v, D), NEW d, NEW name, name # NoName, NEW k,
         First(v, D, d, name, k)
  PROVE  LET e == Unit(v, d, k)
         IN /\ Lies(v, D, d, k, e) /\ Good(e)
            /\ e.attributes = "directory" <=> ~HasExtension(name)
            /\ e.attributes = "file" <=> HasExtension(name)
<1>. DEFINE e == Unit(v, d, k)
<1>1. At(D, d, k) /\ FullName(e) = name
  BY DEF First
<1>2. e # Blank
  BY <1>1, FullNameBlank
<1>3. Lies(v, D, d, k, e)
  BY <1>1, <1>2 DEF Lies
<1>. HIDE DEF e
<1>4. Good(e) /\ e \in EntryType /\ e.attributes \in {"file", "directory"}
  BY <1>3, LiesGood
<1>5. HasExtension(name) <=> HasExtension(e.name)
  BY <1>1, <1>4, FullNameOf
<1>. QED
  BY <1>3, <1>4, <1>5 DEF Good, e

\* Two disks on which directory d is the same.
SameDirectory(v, D, w, F, d) ==
  /\ d \in DOMAIN D <=> d \in DOMAIN F
  /\ d \in DOMAIN D => D[d] = F[d]
  /\ \A k \in 1..Room(d) : Unit(v, d, k) = Unit(w, d, k)

\* The first place with a name is the only one.
LEMMA FirstUnique ==
  ASSUME NEW v, NEW D, NEW w, NEW F, NEW d, SameDirectory(v, D, w, F, d), NEW name,
         NEW k, First(v, D, d, name, k), NEW l, First(w, F, d, name, l)
  PROVE  k = l /\ Unit(v, d, k) = Unit(w, d, l)
<1>1. /\ k \in 1..Room(d) /\ l \in 1..Room(d) /\ Room(d) \in Nat
      /\ FullName(Unit(v, d, k)) = name /\ FullName(Unit(w, d, l)) = name
  BY Constants DEF First, At, Room
<1>2. /\ \A j \in 1..(k - 1) : FullName(Unit(v, d, j)) # name
      /\ \A j \in 1..(l - 1) : FullName(Unit(w, d, j)) # name
  BY DEF First
<1>3. ~ (k < l)
  <2>1. k < l => k \in 1..(l - 1)
    BY <1>1
  <2>. QED
    BY <1>1, <1>2, <2>1 DEF SameDirectory
<1>4. ~ (l < k)
  <2>1. l < k => l \in 1..(k - 1)
    BY <1>1
  <2>. QED
    BY <1>1, <1>2, <2>1 DEF SameDirectory
<1>5. k = l
  BY <1>1, <1>3, <1>4
<1>. QED
  BY <1>1, <1>5 DEF SameDirectory

\* g has the directories that the names lead through.
Trail(v, D, names, n, g) ==
  /\ g[0] = 0
  /\ \A m \in 1..n : \E k :
       First(v, D, g[m - 1], names[m], k) /\ Unit(v, g[m - 1], k).cluster = g[m]

\* Names of directories.
Plain(names) ==
  IsSeq(names) /\ \A m \in 1..Len(names) : ~HasExtension(names[m]) /\ names[m] # NoName

\* A part of a trail.
LEMMA TrailPrefix ==
  ASSUME NEW v, NEW D, NEW names, NEW n \in Nat, NEW g, Trail(v, D, names, n, g),
         NEW m \in 0..n
  PROVE  Trail(v, D, names, m, g)
<1>1. 1..m \subseteq 1..n
  OBVIOUS
<1>. QED
  BY <1>1 DEF Trail

\* The directories on the way are the same.
SameWay(v, D, w, F, g, n) == \A m \in 0..(n - 1) : SameDirectory(v, D, w, F, g[m])

\* Two trails with the same names are the same, as long as the directories are.
LEMMA TrailUnique ==
  ASSUME NEW v, NEW D, NEW w, NEW F, NEW names, NEW n \in Nat,
         NEW g, Trail(v, D, names, n, g), NEW h, Trail(w, F, names, n, h),
         SameWay(v, D, w, F, g, n)
  PROVE  \A m \in 0..n : g[m] = h[m]
<1>. DEFINE N == {m \in Nat : m <= n => g[m] = h[m]}
<1>1. 0 \in N
  BY DEF Trail
<1>2. ASSUME NEW m \in Nat, m \in N PROVE m + 1 \in N
  <2>. SUFFICES ASSUME m + 1 <= n PROVE g[m + 1] = h[m + 1]
    OBVIOUS
  <2>1. g[m] = h[m] /\ m \in 0..(n - 1) /\ m + 1 \in 1..n /\ (m + 1) - 1 = m
    BY <1>2
  <2>2. PICK k : /\ First(v, D, g[m], names[m + 1], k)
                 /\ Unit(v, g[m], k).cluster = g[m + 1]
    BY <2>1 DEF Trail
  <2>3. PICK l : /\ First(w, F, g[m], names[m + 1], l)
                 /\ Unit(w, g[m], l).cluster = h[m + 1]
    BY <2>1 DEF Trail
  <2>4. Unit(v, g[m], k) = Unit(w, g[m], l)
    BY <2>1, <2>2, <2>3, FirstUnique DEF SameWay
  <2>. QED
    BY <2>2, <2>3, <2>4
<1>. HIDE DEF N
<1>3. \A m \in Nat : m \in N
  BY <1>1, <1>2, SetInduction
<1>. QED
  BY <1>3 DEF N

\* They end in the same place.
LEMMA TrailEnd ==
  ASSUME NEW v, NEW D, NEW w, NEW F, NEW names, NEW n \in Nat,
         NEW g, Trail(v, D, names, n, g), NEW h, Trail(w, F, names, n, h),
         SameWay(v, D, w, F, g, n)
  PROVE  g[n] = h[n]
<1>1. \A m \in 0..n : g[m] = h[m]
  BY TrailUnique
<1>. QED
  BY <1>1

\* Ranks grow along a trail.
LEMMA TrailRanks ==
  ASSUME NEW v, NEW D, NEW R, NEW X, IsTree(D, R), Typed(v, D), Linked(v, D, R, X),
         Sound(v, D), NEW names, Plain(names), NEW n \in 0..Len(names), NEW g,
         Trail(v, D, names, n, g)
  PROVE  /\ \A m \in 0..n : g[m] \in DOMAIN D /\ R[g[m]] \in Nat
         /\ \A m \in 0..(n - 1) : R[g[m]] < R[g[n]]
<1>0. Len(names) \in Nat /\ n \in Nat
  BY SeqIsFunction DEF Plain
<1>. DEFINE N == {m \in Nat : m <= n =>
                    /\ \A j \in 0..m : g[j] \in DOMAIN D
                    /\ \A j \in 0..(m - 1) : R[g[j]] < R[g[m]]}
<1>1. \A c \in DOMAIN D : R[c] \in Nat
  BY DEF IsTree
<1>2. 0 \in N
  BY DEF Trail, IsTree
<1>3. ASSUME NEW m \in Nat, m \in N PROVE m + 1 \in N
  <2>. SUFFICES ASSUME m + 1 <= n
                PROVE  /\ \A j \in 0..(m + 1) : g[j] \in DOMAIN D
                       /\ \A j \in 0..m : R[g[j]] < R[g[m + 1]]
    OBVIOUS
  <2>1. /\ \A j \in 0..m : g[j] \in DOMAIN D
        /\ \A j \in 0..(m - 1) : R[g[j]] < R[g[m]]
        /\ m + 1 \in 1..n /\ (m + 1) - 1 = m
    BY <1>0, <1>3
  <2>2. PICK k : /\ First(v, D, g[m], names[m + 1], k)
                 /\ Unit(v, g[m], k).cluster = g[m + 1]
    BY <2>1 DEF Trail
  <2>3. ~HasExtension(names[m + 1]) /\ names[m + 1] # NoName
    BY <1>0, <2>1 DEF Plain
  <2>. DEFINE e == Unit(v, g[m], k)
  <2>4. Lies(v, D, g[m], k, e) /\ e.attributes = "directory"
    BY <2>2, <2>3, FirstLies
  <2>5. e.cluster \in DOMAIN D /\ R[e.cluster] > R[g[m]]
    BY <2>4 DEF Linked, Enterable, Sound
  <2>6. g[m + 1] \in DOMAIN D /\ R[g[m + 1]] > R[g[m]]
    BY <2>2, <2>5
  <2>7. ASSUME NEW j \in 0..m PROVE R[g[j]] < R[g[m + 1]]
    <3>1. CASE j = m
      BY <1>1, <2>1, <2>6, <3>1
    <3>2. CASE j \in 0..(m - 1)
      <4>1. g[j] \in DOMAIN D /\ g[m] \in DOMAIN D /\ R[g[j]] < R[g[m]]
        BY <2>1, <3>2
      <4>. QED
        BY <1>1, <2>6, <4>1
    <3>. QED
      BY <3>1, <3>2
  <2>8. \A j \in 0..(m + 1) : g[j] \in DOMAIN D
    BY <2>1, <2>6
  <2>. QED
    BY <2>7, <2>8
<1>. HIDE DEF N
<1>4. \A m \in Nat : m \in N
  BY <1>2, <1>3, SetInduction
<1>5. \A m \in 0..n : g[m] \in DOMAIN D
  BY <1>0, <1>4 DEF N
<1>. QED
  BY <1>0, <1>1, <1>4, <1>5 DEF N

\* The names of directories in a path to a directory, and in one to a file.
LEMMA DirectoryNamesIs ==
  ASSUME NEW path \in Seq(Directories)
  PROVE  /\ DirectoryNames(path) = path /\ Plain(path)
         /\ \A name : HasExtension(name) => DirectoryNames(Append(path, name)) = path
<1>1. \A m \in 1..Len(path) : ~HasExtension(path[m]) /\ path[m] # NoName
  BY NamesAssumption
<1>2. Plain(path)
  BY <1>1 DEF Plain, IsSeq
<1>. DEFINE H(p) == {k - 1 : k \in {n \in DOMAIN p : HasExtension(p[n])}}
<1>3. DirectoryNames(path) = path
  <2>1. H(path) = {}
    BY <1>1
  <2>2. {Len(path)} \cup H(path) = {Len(path), Len(path)}
    BY <2>1
  <2>3. Min({Len(path), Len(path)}) = Len(path)
    BY MinOfTwo
  <2>4. DirectoryNames(path) = SubSeq(path, 1, Min({Len(path)} \cup H(path)))
    BY DEF DirectoryNames
  <2>. HIDE DEF H
  <2>5. DirectoryNames(path) = SubSeq(path, 1, Len(path))
    BY <2>2, <2>3, <2>4
  <2>. QED
    BY <2>5
<1>4. ASSUME NEW name, HasExtension(name)
      PROVE  DirectoryNames(Append(path, name)) = path
  <2>. DEFINE p == Append(path, name)
              n == Len(path)
  <2>1. /\ IsSeq(path) /\ IsSeq(p) /\ Len(p) = n + 1 /\ p[n + 1] = name /\ n \in Nat
        /\ \A k \in 1..n : p[k] = path[k]
    <3>1. IsSeq(path)
      BY DEF IsSeq
    <3>. QED
      BY <3>1, SeqAppend
  <2>2. DOMAIN p = 1..(n + 1)
    BY <2>1, SeqIsFunction
  <2>. HIDE DEF p
  <2>3. {k \in DOMAIN p : HasExtension(p[k])} = {n + 1}
    BY <1>1, <1>4, <2>1, <2>2
  <2>4. H(p) = {n}
    BY <2>1, <2>3
  <2>5. DirectoryNames(p) = SubSeq(p, 1, Min({Len(p)} \cup H(p)))
    BY DEF DirectoryNames
  <2>. HIDE DEF H
  <2>6. Min({Len(p)} \cup H(p)) = n
    <3>1. {Len(p)} \cup H(p) = {n + 1, n}
      BY <2>1, <2>4
    <3>2. Min({n + 1, n}) = n
      BY <2>1, MinOfTwo
    <3>. QED
      BY <3>1, <3>2
  <2>7. SubSeq(p, 1, n) = [k \in 1..n |-> p[k]]
    BY <2>1, SeqPrefix
  <2>8. path = [k \in 1..n |-> path[k]]
    BY <2>1, SeqIsFunction
  <2>9. SubSeq(p, 1, n) = path
    BY <2>1, <2>7, <2>8
  <2>. QED
    BY <2>5, <2>6, <2>9 DEF p
<1>. QED
  BY <1>2, <1>3, <1>4

\* A path and its last name.
LEMMA PathEnds ==
  ASSUME NEW path, IsSeq(path), NEW name
  PROVE  /\ LastName(Append(path, name)) = name /\ ParentPath(Append(path, name)) = path
         /\ Append(path, name) # <<>>
<1>. DEFINE p == Append(path, name)
            n == Len(path)
<1>1. /\ IsSeq(p) /\ Len(p) = n + 1 /\ p[n + 1] = name /\ n \in Nat
      /\ \A k \in 1..n : p[k] = path[k]
  BY SeqAppend, SeqIsFunction
<1>. HIDE DEF p, n
<1>2. LastName(p) = name
  BY <1>1 DEF LastName, Last
<1>3. SubSeq(p, 1, n) = [k \in 1..n |-> p[k]] /\ Len(p) - 1 = n
  BY <1>1, SeqPrefix
<1>4. path = [k \in 1..n |-> path[k]]
  BY SeqIsFunction DEF n
<1>5. SubSeq(p, 1, n) = path
  BY <1>1, <1>3, <1>4
<1>6. ParentPath(p) = path
  BY <1>3, <1>5 DEF ParentPath, Front
<1>7. p # <<>>
  BY <1>1
<1>. QED
  BY <1>2, <1>6, <1>7 DEF p

\* The entry that was found, in the buffer and on the disk.
Shown(f, v, D, d, name) ==
  LET e == f.buf[f.i]
  IN /\ d \in DOMAIN D /\ f.i \in 1..Len(f.buf) /\ f.i \in 1..Room(d) /\ f.i <= D[d]
     /\ e = Unit(v, d, f.i) /\ Lies(v, D, d, f.i, e) /\ Good(e)
     /\ e.attributes = "directory" <=> ~HasExtension(name)
     /\ e.attributes = "file" <=> HasExtension(name)

\* What is found by a name is an entry, of a directory or of a file as the name says.
LEMMA FoundEntry ==
  ASSUME NEW v, NEW D, NEW R, IsTree(D, R), Typed(v, D), NEW d, NEW name, name # NoName,
         NEW f, Found(f, v, D, d, name)
  PROVE  Shown(f, v, D, d, name)
<1>. DEFINE e == f.buf[f.i]
<1>1. Buffer(v, D, d, f.buf) /\ First(v, D, d, name, f.i)
  BY DEF Found
<1>2. At(D, d, f.i)
  BY <1>1 DEF First
<1>3. /\ d \in DOMAIN D /\ f.i \in 1..Room(d) /\ f.i <= D[d] /\ D[d] \in Nat /\ Room(d) \in Nat
  BY <1>2, Constants DEF At, IsTree, Room
<1>4. Len(f.buf) \in Nat /\ D[d] <= Len(f.buf)
  BY <1>1, SeqIsFunction DEF Buffer
<1>5. f.i \in 1..Len(f.buf)
  BY <1>3, <1>4
<1>6. Unit(v, d, f.i) = e
  BY <1>1, <1>3, <1>5 DEF Buffer
<1>. HIDE DEF e
<1>7. /\ Lies(v, D, d, f.i, e) /\ Good(e)
      /\ e.attributes = "directory" <=> ~HasExtension(name)
      /\ e.attributes = "file" <=> HasExtension(name)
  BY <1>1, <1>6, FirstLies
<1>. QED
  BY <1>3, <1>5, <1>6, <1>7 DEF e, Shown

\* The entry of a directory that was found is a place where it is entered.
LEMMA FoundStands ==
  ASSUME NEW v, NEW D, NEW R, IsTree(D, R), NEW X, Typed(v, D), Linked(v, D, R, X), NEW d,
         NEW name, name # NoName, ~HasExtension(name), NEW f, Found(f, v, D, d, name),
         f.buf[f.i].cluster \in ({0} \cup Clusters) \ X
  PROVE  Stands(f, D, f.buf[f.i].cluster)
<1>. DEFINE e == f.buf[f.i]
<1>1. Lies(v, D, d, f.i, e) /\ e.attributes = "directory" /\ f.i \in 1..Room(d)
  <2>1. Shown(f, v, D, d, name)
    BY FoundEntry
  <2>. QED
    BY <2>1 DEF Shown
<1>2. e.cluster \in Clusters
  BY <1>1, LiesGood, Constants DEF Given, BehindTable
<1>3. e.cluster \in DOMAIN D /\ D[e.cluster] = e.size
  BY <1>1, <1>2 DEF Linked, Enterable
<1>4. f.i \in Nat /\ f.i # 0 /\ e.cluster # 0
  BY <1>1, <1>2, Constants DEF Room
<1>. QED
  BY <1>3, <1>4 DEF Stands

\* What NavigateDir computes.
RootPlace(s) == [s |-> RootRead(s), buf |-> <<>>, i |-> 0]
SolvesAt(f, s, names) ==
  f = [n \in 0..Len(names) |-> IF n = 0 THEN RootPlace(s) ELSE FindFile(f[n - 1], names[n])]

\* There is such a function.
LEMMA AtExists ==
  ASSUME NEW s, NEW names, Len(names) \in Nat
  PROVE  \E f : SolvesAt(f, s, names)
<1>. DEFINE Solves(f, l) ==
              f = [n \in 0..l |-> IF n = 0 THEN RootPlace(s) ELSE FindFile(f[n - 1], names[n])]
            N == {l \in Nat : \E f : Solves(f, l)}
<1>1. 0 \in N
  <2>. DEFINE f == [n \in 0..0 |-> RootPlace(s)]
  <2>1. \A n \in 0..0 : f[n] = IF n = 0 THEN RootPlace(s) ELSE FindFile(f[n - 1], names[n])
    OBVIOUS
  <2>2. f = [n \in 0..0 |-> f[n]]
    OBVIOUS
  <2>. HIDE DEF f
  <2>3. Solves(f, 0)
    BY <2>1, <2>2
  <2>. HIDE DEF Solves
  <2>. QED
    BY <2>3
<1>2. ASSUME NEW l \in Nat, l \in N PROVE l + 1 \in N
  <2>1. PICK f : Solves(f, l)
    BY <1>2
  <2>2. \A n \in 0..l : f[n] = IF n = 0 THEN RootPlace(s) ELSE FindFile(f[n - 1], names[n])
    BY <2>1
  <2>. DEFINE g == [n \in 0..(l + 1) |->
                      IF n = l + 1 THEN FindFile(f[l], names[l + 1]) ELSE f[n]]
  <2>3. ASSUME NEW n \in 0..(l + 1)
        PROVE  g[n] = IF n = 0 THEN RootPlace(s) ELSE FindFile(g[n - 1], names[n])
    <3>1. CASE n = l + 1
      <4>1. g[n] = FindFile(f[l], names[n]) /\ g[n - 1] = f[l] /\ n # 0
        BY <3>1
      <4>. QED
        BY <4>1
    <3>2. CASE n \in 0..l
      <4>1. g[n] = f[n] /\ (n # 0 => g[n - 1] = f[n - 1])
        BY <3>2
      <4>. HIDE DEF g
      <4>. QED
        BY <2>2, <3>2, <4>1
    <3>. QED
      BY <3>1, <3>2
  <2>4. g = [n \in 0..(l + 1) |-> g[n]]
    OBVIOUS
  <2>. HIDE DEF g
  <2>5. Solves(g, l + 1)
    BY <2>3, <2>4
  <2>. HIDE DEF Solves
  <2>. QED
    BY <2>5
<1>. HIDE DEF N
<1>3. \A l \in Nat : l \in N
  BY <1>1, <1>2, SetInduction
<1>. QED
  BY <1>3 DEF N, SolvesAt

\* A place in memory is a record.
PlaceFields == {"s", "buf", "i"}
IsPlace(dir) == dir = [field \in PlaceFields |-> dir[field]]

\* Whatever is found is one.
LEMMA FindPlace ==
  ASSUME NEW dir, IsPlace(dir), NEW name
  PROVE  IsPlace(FindFile(dir, name)) /\ \A s : IsPlace(RootPlace(s))
<1>1. \A s : IsPlace(RootPlace(s))
  BY DEF IsPlace, PlaceFields, RootPlace
<1>2. \A s, buf, i : IsPlace([s |-> s, buf |-> buf, i |-> i])
  BY DEF IsPlace, PlaceFields
<1>3. \A read : IsPlace(EntryIn(dir, read, name))
  BY <1>2, Zenon DEF EntryIn
<1>. QED
  BY <1>1, <1>3 DEF FindFile

\* Where the kernel is after the names of directories.
Arrives(x, s, D, names, n, dir) ==
  /\ Same(s, dir.s) /\ Traced(x, dir.s) /\ IsPlace(dir)
  /\ IF dir.s.status = "running"
       THEN /\ Ready(x, dir.s)
            /\ \E g : /\ Trail(s.view, D, names, n, g) /\ Stands(dir, D, g[n])
                      /\ n > 0 => Found(dir, s.view, D, g[n - 1], names[n])
       ELSE dir.i = 0 /\ IsMemory(dir.s)

\* One name further.
LEMMA ArrivesNext ==
  ASSUME NEW x, NEW s, Ready(x, s), NEW D, NEW R, Counted(s, D, R), NEW X,
         Typed(s.view, D), Linked(s.view, D, R, X), NEW names, Plain(names),
         NEW n \in Nat, n + 1 <= Len(names),
         \A g : Trail(s.view, D, names, n + 1, g) => g[n + 1] \in ({0} \cup Clusters) \ X,
         NEW dir, Arrives(x, s, D, names, n, dir)
  PROVE  Arrives(x, s, D, names, n + 1, FindFile(dir, names[n + 1]))
<1>. DEFINE v == s.view
            name == names[n + 1]
            f == FindFile(dir, name)
<1>0. Len(names) \in Nat /\ n + 1 \in 1..Len(names)
  BY SeqIsFunction DEF Plain
<1>1. ~HasExtension(name) /\ name # NoName /\ IsTree(D, R)
  BY <1>0 DEF Plain, Counted
<1>4. IsPlace(f)
  BY FindPlace DEF Arrives
<1>2. CASE dir.s.status # "running"
  <2>1. f = dir
    BY <1>2 DEF FindFile
  <2>. QED
    BY <1>2, <2>1 DEF Arrives
<1>3. CASE dir.s.status = "running"
  <2>1. Ready(x, dir.s) /\ Same(s, dir.s)
    BY <1>3 DEF Arrives
  <2>2. PICK g : Trail(v, D, names, n, g) /\ Stands(dir, D, g[n])
    BY <1>3 DEF Arrives
  <2>3. dir.s.view = v /\ Counted(dir.s, D, R)
    BY <2>1 DEF Same, Counted
  <2>4. /\ Same(dir.s, f.s) /\ Traced(x, f.s)
        /\ IF f.s.status = "running"
             THEN Ready(x, f.s) /\ Found(f, dir.s.view, D, g[n], name)
             ELSE Stopped(x, dir.s, f)
    BY <2>1, <2>2, <2>3, FindFileReady
  <2>. HIDE DEF f
  <2>5. Same(s, f.s)
    BY <2>1, <2>4 DEF Same
  <2>6. CASE f.s.status # "running"
    BY <1>4, <2>4, <2>5, <2>6 DEF Arrives, Stopped, f
  <2>7. CASE f.s.status = "running"
    <3>1. Ready(x, f.s) /\ Found(f, v, D, g[n], name)
      BY <2>3, <2>4, <2>7
    <3>. DEFINE e == f.buf[f.i]
                h == [m \in 0..(n + 1) |-> IF m = n + 1 THEN e.cluster ELSE g[m]]
    <3>2. e = Unit(v, g[n], f.i)
      <4>1. Shown(f, v, D, g[n], name)
        BY <1>1, <3>1, FoundEntry
      <4>. QED
        BY <4>1 DEF Shown
    <3>. HIDE DEF e
    <3>3. h[n + 1] = e.cluster /\ \A m \in 0..n : h[m] = g[m]
      OBVIOUS
    <3>. HIDE DEF h
    <3>4. ASSUME NEW m \in 1..(n + 1)
          PROVE  \E k : First(v, D, h[m - 1], names[m], k) /\ Unit(v, h[m - 1], k).cluster = h[m]
      <4>1. CASE m = n + 1
        <5>1. h[m - 1] = g[n] /\ h[m] = e.cluster
          BY <3>3, <4>1
        <5>2. First(v, D, g[n], name, f.i)
          BY <3>1 DEF Found
        <5>. QED
          BY <3>2, <4>1, <5>1, <5>2
      <4>2. CASE m \in 1..n
        <5>1. h[m - 1] = g[m - 1] /\ h[m] = g[m]
          BY <3>3, <4>2
        <5>. QED
          BY <2>2, <4>2, <5>1 DEF Trail
      <4>. QED
        BY <4>1, <4>2
    <3>5. Trail(v, D, names, n + 1, h)
      BY <2>2, <3>3, <3>4 DEF Trail
    <3>6. e.cluster \in ({0} \cup Clusters) \ X
      BY <3>3, <3>5
    <3>7. Stands(f, D, e.cluster)
      BY <1>1, <3>1, <3>6, FoundStands DEF e
    <3>8. (n + 1) - 1 = n /\ h[n] = g[n]
      BY <3>3
    <3>. QED
      BY <1>4, <2>4, <2>5, <2>7, <3>1, <3>3, <3>5, <3>7, <3>8 DEF Arrives, f
  <2>. QED
    BY <2>6, <2>7
<1>. QED
  BY <1>2, <1>3

\* The names lead through no directory of X, and none that has no place on the disk.
Clear(v, D, names, X) ==
  \A m \in 0..Len(names) : \A g :
    Trail(v, D, names, m, g) => g[m] \in ({0} \cup Clusters) \ X

\* navigate_dir.  An empty root directory is where every path leads.
LEMMA NavigateDirReady ==
  ASSUME NEW x, NEW s, Ready(x, s), NEW D, NEW R, Counted(s, D, R), NEW X,
         Typed(s.view, D), Linked(s.view, D, R, X), NEW path, NEW names,
         DirectoryNames(path) = names, Plain(names),
         Clear(s.view, D, names, X)
  PROVE  LET dir == NavigateDir(s, path)
         IN IF s.root_entries = 0
              THEN /\ Same(s, dir.s) /\ Ready(x, dir.s) /\ IsPlace(dir)
                   /\ Stands(dir, D, 0) /\ dir.i = 0
              ELSE Arrives(x, s, D, names, Len(names), dir)
<1>. DEFINE at == CHOOSE f : SolvesAt(f, s, names)
            dir == NavigateDir(s, path)
<1>0. Len(names) \in Nat
  BY SeqIsFunction DEF Plain
<1>1. dir = IF s.root_entries = 0 THEN RootPlace(s) ELSE at[Len(names)]
  <2>1. dir = IF s.root_entries = 0 THEN RootPlace(s)
              ELSE (CHOOSE f : SolvesAt(f, s, DirectoryNames(path)))[Len(DirectoryNames(path))]
    BY Zenon DEF NavigateDir, SolvesAt, RootPlace
  <2>. QED
    BY <2>1
<1>2. SolvesAt(at, s, names)
  BY <1>0, AtExists, Zenon
<1>. HIDE DEF at, dir
<1>3. \A n \in 0..Len(names) : at[n] = IF n = 0 THEN RootPlace(s) ELSE FindFile(at[n - 1], names[n])
  BY <1>2 DEF SolvesAt
<1>. DEFINE root == RootPlace(s)
<1>4. root.s = RootRead(s) /\ root.i = 0
  BY DEF RootPlace
<1>5. Ready(x, root.s) /\ Same(s, root.s)
  BY <1>4, RootReadReady
<1>6. Stands(root, D, 0)
  BY <1>4 DEF Stands, Counted, IsTree
<1>13. IsPlace(root)
  BY DEF IsPlace, PlaceFields, RootPlace
<1>. HIDE DEF root
<1>. DEFINE N == {n \in Nat : n <= Len(names) => Arrives(x, s, D, names, n, at[n])}
<1>7. 0 \in N
  <2>1. at[0] = root
    BY <1>0, <1>3 DEF root
  <2>. DEFINE g == [m \in {0} |-> 0]
  <2>2. Trail(s.view, D, names, 0, g) /\ g[0] = 0
    BY DEF Trail
  <2>. HIDE DEF g
  <2>3. Arrives(x, s, D, names, 0, root)
    BY <1>5, <1>6, <1>13, <2>2, ReadyParts DEF Arrives
  <2>. QED
    BY <2>1, <2>3
<1>8. ASSUME NEW n \in Nat, n \in N PROVE n + 1 \in N
  <2>. SUFFICES ASSUME n + 1 <= Len(names) PROVE Arrives(x, s, D, names, n + 1, at[n + 1])
    OBVIOUS
  <2>1. Arrives(x, s, D, names, n, at[n])
    BY <1>0, <1>8
  <2>2. n + 1 \in 0..Len(names) /\ n + 1 # 0 /\ (n + 1) - 1 = n
    BY <1>0
  <2>3. at[n + 1] = FindFile(at[n], names[n + 1])
    BY <1>3, <2>2
  <2>4. \A g : Trail(s.view, D, names, n + 1, g) => g[n + 1] \in ({0} \cup Clusters) \ X
    BY <2>2 DEF Clear
  <2>. HIDE DEF N
  <2>5. Arrives(x, s, D, names, n + 1, FindFile(at[n], names[n + 1]))
    BY <2>1, <2>4, ArrivesNext
  <2>. QED
    BY <2>3, <2>5
<1>. HIDE DEF N
<1>9. \A n \in Nat : n \in N
  BY <1>7, <1>8, SetInduction
<1>10. Arrives(x, s, D, names, Len(names), at[Len(names)])
  BY <1>0, <1>9 DEF N
<1>11. CASE s.root_entries = 0
  <2>1. dir = root
    BY <1>1, <1>11 DEF root
  <2>2. dir.i = 0
    BY <1>6, <2>1 DEF Stands
  <2>. QED
    BY <1>5, <1>6, <1>13, <1>11, <2>1, <2>2 DEF dir
<1>12. CASE s.root_entries # 0
  BY <1>1, <1>10, <1>12 DEF dir
<1>. QED
  BY <1>11, <1>12

-----------------------------------------------------------------------------
(* Changes of the tree.                                                     *)

\* The units of a disk on which a cluster was written.
LEMMA DataUnits ==
  ASSUME NEW v, DiskOK(v), NEW c \in Clusters, NEW b, NEW w, w = [v EXCEPT !.data[c] = b]
  PROVE  /\ w.fat = v.fat /\ w.root = v.root /\ w.data[c] = b
         /\ \A x \in Clusters : x # c => w.data[x] = v.data[x]
         /\ \A k : Unit(w, c, k) = b[k]
         /\ \A x \in {0} \cup Clusters : x # c => \A k : Unit(w, x, k) = Unit(v, x, k)
<1>1. v = [field \in DiskFields |-> v[field]] /\ v.data = [x \in Clusters |-> v.data[x]]
  BY DEF DiskOK, DataOK
<1>2. /\ w.fat = v.fat /\ w.root = v.root /\ w.data[c] = b
      /\ \A x \in Clusters : x # c => w.data[x] = v.data[x]
  BY <1>1 DEF DiskFields
<1>3. c # 0
  BY Constants
<1>. QED
  BY <1>2, <1>3 DEF Unit

\* The units of a disk on which the root directory was written.
LEMMA RootUnits ==
  ASSUME NEW v, DiskOK(v), NEW r, NEW w, w = [v EXCEPT !.root = r]
  PROVE  /\ w.fat = v.fat /\ w.data = v.data /\ w.root = r
         /\ \A k : Unit(w, 0, k) = r[k]
         /\ \A x \in Clusters : \A k : Unit(w, x, k) = Unit(v, x, k)
<1>1. v = [field \in DiskFields |-> v[field]]
  BY DEF DiskOK
<1>2. w.fat = v.fat /\ w.data = v.data /\ w.root = r
  BY <1>1 DEF DiskFields
<1>3. \A x \in Clusters : x # 0
  BY Constants
<1>. QED
  BY <1>2, <1>3 DEF Unit

\* The directories of D have the same units.
SameUnits(v, w, D) == \A d \in DOMAIN D : \A k \in 1..Room(d) : Unit(w, d, k) = Unit(v, d, k)

\* The tree stays as it is when no directory is written.
LEMMA SameTree ==
  ASSUME NEW v, NEW w, NEW D, SameUnits(v, w, D)
  PROVE  /\ \A d, k, e : Lies(w, D, d, k, e) <=> Lies(v, D, d, k, e)
         /\ \A R, X : Shape(v, D, R, X) => Shape(w, D, R, X)
         /\ w.fat = v.fat => \A X : Marked(v, D, X) => Marked(w, D, X)
<1>1. \A d, k : At(D, d, k) => Unit(w, d, k) = Unit(v, d, k)
  BY DEF At, SameUnits
<1>2. ASSUME NEW d, NEW k, NEW e PROVE Lies(w, D, d, k, e) <=> Lies(v, D, d, k, e)
  BY <1>1 DEF Lies
<1>3. ASSUME NEW R, NEW X, Shape(v, D, R, X) PROVE Shape(w, D, R, X)
  <2>1. /\ IsTree(D, R) /\ Typed(v, D) /\ Linked(v, D, R, X) /\ Apart(v, D)
        /\ Tidy(v, D) /\ RootKept(v, D)
    BY <1>3 DEF Shape
  <2>2. Typed(w, D)
    BY <1>1, <2>1 DEF Typed
  <2>3. Linked(w, D, R, X)
    BY <1>2, <2>1 DEF Linked
  <2>4. Apart(w, D)
    BY <1>2, <2>1 DEF Apart
  <2>5. Tidy(w, D)
    BY <2>1 DEF Tidy, SameUnits
  <2>6. RootKept(w, D)
    <3>1. \A k \in 1..RootEntries : w.root[k] = v.root[k]
      <4>1. 0 \in DOMAIN D
        BY <2>1 DEF IsTree
      <4>. QED
        BY <4>1 DEF SameUnits, Room, Unit
    <3>. QED
      BY <2>1, <3>1 DEF RootKept
  <2>. QED
    BY <2>1, <2>2, <2>3, <2>4, <2>5, <2>6 DEF Shape
<1>4. ASSUME w.fat = v.fat, NEW X, Marked(v, D, X) PROVE Marked(w, D, X)
  BY <1>2, <1>4 DEF Marked
<1>. QED
  BY <1>2, <1>3, <1>4

\* w differs from v in one entry: e at the k-th place of d is g.
Edited(v, w, D, d, k, e, g) ==
  /\ Lies(v, D, d, k, e) /\ Good(g) /\ g.cluster = e.cluster /\ g.attributes = e.attributes
  /\ Unit(w, d, k) = g
  /\ \A x \in DOMAIN D : \A j \in 1..Room(x) : ~ (x = d /\ j = k) => Unit(w, x, j) = Unit(v, x, j)

\* An entry that keeps its cluster and is what it was, a file or a directory, may have
\* another name and another size.
LEMMA EditedTree ==
  ASSUME NEW v, NEW w, NEW D, NEW R, NEW X, Shape(v, D, R, X),
         NEW d, NEW k, NEW e, NEW g, Edited(v, w, D, d, k, e, g),
         e.attributes = "directory" => g.size = D[e.cluster]
  PROVE  /\ Shape(w, D, R, X \ {e.cluster})
         /\ \A x, j, f : Lies(w, D, x, j, f) =>
              IF x = d /\ j = k THEN f = g ELSE Lies(v, D, x, j, f)
         /\ w.fat = v.fat => \A Y : Marked(v, D, Y) => Marked(w, D, Y)
<1>1. /\ IsTree(D, R) /\ Typed(v, D) /\ Linked(v, D, R, X) /\ Apart(v, D)
      /\ Tidy(v, D) /\ RootKept(v, D)
  BY DEF Shape
<1>2. /\ Lies(v, D, d, k, e) /\ Good(g) /\ g.cluster = e.cluster /\ g.attributes = e.attributes
      /\ Unit(w, d, k) = g /\ At(D, d, k) /\ Unit(v, d, k) = e
  BY DEF Edited, Lies
<1>3. \A x, j : At(D, x, j) /\ ~ (x = d /\ j = k) => Unit(w, x, j) = Unit(v, x, j)
  BY DEF At, Edited
<1>4. ASSUME NEW x, NEW j, NEW f, Lies(w, D, x, j, f)
      PROVE  IF x = d /\ j = k THEN f = g ELSE Lies(v, D, x, j, f)
  BY <1>2, <1>3, <1>4 DEF Lies
<1>5. g # Blank
  BY <1>2, Constants DEF Good, EntryType, Blank
<1>6. Typed(w, D)
  BY <1>1, <1>2, <1>3 DEF Typed, MaybeEntry
<1>7. ASSUME NEW x, NEW j, NEW f, Lies(w, D, x, j, f)
      PROVE  IF Enterable(f)
               THEN /\ f.cluster \in DOMAIN D /\ R[f.cluster] > R[x]
                    /\ f.cluster \notin X \ {e.cluster} => D[f.cluster] = f.size
               ELSE f.cluster \notin DOMAIN D
  <2>1. CASE x = d /\ j = k
    BY <1>1, <1>2, <1>4, <1>7, <2>1 DEF Linked, Enterable
  <2>2. CASE ~ (x = d /\ j = k)
    <3>1. Lies(v, D, x, j, f)
      BY <1>4, <1>7, <2>2
    <3>2. f.cluster # e.cluster
      BY <1>1, <1>2, <2>2, <3>1 DEF Apart
    <3>. QED
      BY <1>1, <3>1, <3>2 DEF Linked
  <2>. QED
    BY <2>1, <2>2
<1>8. Linked(w, D, R, X \ {e.cluster})
  BY <1>7 DEF Linked
<1>9. ASSUME NEW x, NEW j, NEW f, NEW y, NEW l, NEW h, Lies(w, D, x, j, f),
             Lies(w, D, y, l, h), f.cluster = h.cluster
      PROVE  x = y /\ j = l
  <2>1. \E f1 : Lies(v, D, x, j, f1) /\ f1.cluster = f.cluster
    BY <1>2, <1>4, <1>9
  <2>2. \E h1 : Lies(v, D, y, l, h1) /\ h1.cluster = h.cluster
    BY <1>2, <1>4, <1>9
  <2>. QED
    BY <1>1, <1>9, <2>1, <2>2 DEF Apart
<1>10. Apart(w, D)
  BY <1>9 DEF Apart
<1>11. ASSUME NEW x \in DOMAIN D, NEW j \in 1..Room(x), j > D[x], x = 0 \/ D[x] > 0
       PROVE  Unit(w, x, j) = Blank
  <2>1. ~ (x = d /\ j = k)
    <3>1. k <= D[d] /\ D[d] \in Nat /\ k \in 1..Room(d) /\ Room(d) \in Nat
      BY <1>1, <1>2, Constants DEF At, IsTree, Room
    <3>. QED
      BY <1>11, <3>1
  <2>. QED
    BY <1>1, <1>11, <2>1 DEF Edited, Tidy
<1>12. Tidy(w, D)
  BY <1>11 DEF Tidy
<1>13. RootKept(w, D)
  <2>1. ASSUME NEW j \in 1..RootEntries, j <= D[0], Stored(j) PROVE w.root[j] # Blank
    <3>1. v.root[j] # Blank
      BY <1>1, <2>1 DEF RootKept
    <3>2. Unit(w, 0, j) = w.root[j] /\ Unit(v, 0, j) = v.root[j]
      BY DEF Unit
    <3>3. 0 \in DOMAIN D /\ j \in 1..Room(0)
      BY <1>1 DEF IsTree, Room
    <3>. QED
      BY <1>2, <1>5, <3>1, <3>2, <3>3 DEF Edited
  <2>. QED
    BY <2>1 DEF RootKept
<1>14. ASSUME w.fat = v.fat, NEW Y, Marked(v, D, Y) PROVE Marked(w, D, Y)
  <2>1. ASSUME NEW x, NEW j, NEW f, Lies(w, D, x, j, f), f.cluster \notin Y
        PROVE  Taken(w.fat, f.cluster)
    <3>1. \E f1 : Lies(v, D, x, j, f1) /\ f1.cluster = f.cluster
      BY <1>2, <1>4, <2>1
    <3>. QED
      BY <1>14, <2>1, <3>1 DEF Marked
  <2>. QED
    BY <1>14, <2>1 DEF Marked
<1>15. Shape(w, D, R, X \ {e.cluster})
  BY <1>1, <1>6, <1>8, <1>10, <1>12, <1>13 DEF Shape
<1>. QED
  BY <1>4, <1>14, <1>15

\* Nothing has cluster c.
Fresh(v, D, c) ==
  /\ c \in Given /\ c \notin DOMAIN D
  /\ \A d, k, e : Lies(v, D, d, k, e) => e.cluster # c

\* The tree with one more entry in d, for cluster c.
Grown(D, d, c, attributes) ==
  [x \in DOMAIN D \cup (IF attributes = "directory" /\ c \in Clusters THEN {c} ELSE {}) |->
     IF x = d THEN D[d] + 1 ELSE IF x \in DOMAIN D THEN D[x] ELSE 0]

\* w differs from v in one entry more, e in directory d, if there is a place for it.
Entered(v, w, D, d, e) ==
  /\ \A x \in DOMAIN D : x # d => \A k \in 1..Room(x) : Unit(w, x, k) = Unit(v, x, k)
  /\ \A k \in 1..Room(d) :
       Unit(w, d, k) = IF k <= D[d] THEN Unit(v, d, k)
                       ELSE IF k = D[d] + 1 /\ (d = 0 => Stored(k)) THEN e
                       ELSE Blank

\* A new entry, with a cluster of its own, makes the tree larger.  The entry of the
\* directory it is in has yet to learn of it.
LEMMA EnteredTree ==
  ASSUME NEW v, NEW w, NEW D, NEW R, Shape(v, D, R, {}), Marked(v, D, {}),
         w.fat = v.fat, NEW d \in DOMAIN D, NEW e, Good(e), e.size = 0, Fresh(v, D, e.cluster),
         Taken(v.fat, e.cluster), Entered(v, w, D, d, e)
  PROVE  LET F == Grown(D, d, e.cluster, e.attributes)
             S == [R EXCEPT ![e.cluster] = R[d] + 1]
         IN /\ Shape(w, F, S, {d}) /\ Marked(w, F, {}) /\ Covers(w, F)
            /\ DOMAIN D \subseteq DOMAIN F /\ F[d] = D[d] + 1
            /\ \A x \in DOMAIN D : x # d => F[x] = D[x]
            /\ \A x, k, f : Lies(w, F, x, k, f) =>
                 IF x = d /\ k = D[d] + 1 THEN f = e
                 ELSE Lies(v, D, x, k, f)
<1>. DEFINE c == e.cluster
            F == Grown(D, d, c, e.attributes)
            S == [R EXCEPT ![c] = R[d] + 1]
            n == D[d]
<1>1. /\ IsTree(D, R) /\ Typed(v, D) /\ Linked(v, D, R, {}) /\ Apart(v, D)
      /\ Tidy(v, D) /\ RootKept(v, D)
  BY DEF Shape
<1>2. /\ n \in Nat /\ c \in Given /\ c \notin DOMAIN D /\ c # d /\ c # 0
      /\ e \in EntryType /\ e # Blank /\ e.attributes \in {"file", "directory"}
      /\ \A x : Room(x) \in Nat
  BY <1>1, Constants DEF IsTree, Fresh, Good, EntryType, Blank, Room, Given, BehindTable
<1>3. /\ DOMAIN F = DOMAIN D \cup (IF Enterable(e) THEN {c} ELSE {})
      /\ F[d] = n + 1
      /\ \A x \in DOMAIN D : x # d => F[x] = D[x]
      /\ Enterable(e) => F[c] = 0
  BY <1>2 DEF Grown, Enterable
<1>4. S \in [{0} \cup Clusters -> Nat] /\ (Enterable(e) => S[c] = R[d] + 1)
      /\ (\A x \in DOMAIN D : S[x] = R[x])
  <2>1. R \in [{0} \cup Clusters -> Nat] /\ DOMAIN D \subseteq {0} \cup Clusters
    BY <1>1 DEF IsTree
  <2>2. R[d] + 1 \in Nat
    BY <2>1
  <2>3. S \in [{0} \cup Clusters -> Nat]
    BY <2>1, <2>2
  <2>4. c \in Clusters => S[c] = R[d] + 1
    BY <2>1
  <2>5. \A x \in {0} \cup Clusters : x # c => S[x] = R[x]
    BY <2>1
  <2>6. \A x \in DOMAIN D : S[x] = R[x]
    BY <1>2, <2>1, <2>5
  <2>. QED
    BY <2>3, <2>4, <2>6 DEF Enterable
<1>. HIDE DEF F, S
<1>5. IsTree(F, S)
  BY <1>1, <1>2, <1>3, <1>4 DEF IsTree, Grown, F, Enterable
<1>6. ASSUME NEW x, NEW k, At(F, x, k)
      PROVE  /\ x \in DOMAIN D /\ x # c
             /\ x # d => At(D, x, k) /\ Unit(w, x, k) = Unit(v, x, k)
             /\ x = d /\ k # n + 1 => At(D, x, k) /\ Unit(w, x, k) = Unit(v, x, k)
             /\ x = d /\ k = n + 1 => Unit(w, x, k) \in {e, Blank}
  <2>1. x \in DOMAIN F /\ k \in 1..Room(x) /\ k <= F[x]
    BY <1>6 DEF At
  <2>2. x # c /\ x \in DOMAIN D
    BY <1>2, <1>3, <2>1
  <2>3. CASE x # d
    BY <1>3, <2>1, <2>2, <2>3 DEF At, Entered
  <2>4. CASE x = d /\ k # n + 1
    <3>1. k <= n
      BY <1>2, <1>3, <2>1, <2>4
    <3>. QED
      BY <1>2, <2>1, <2>2, <2>4, <3>1 DEF At, Entered
  <2>5. CASE x = d /\ k = n + 1
    <3>1. ~ (k <= n)
      BY <1>2, <2>5
    <3>. QED
      BY <2>1, <2>2, <2>5, <3>1 DEF Entered
  <2>. QED
    BY <2>2, <2>3, <2>4, <2>5
<1>7. ASSUME NEW x, NEW k, NEW f, Lies(w, F, x, k, f)
      PROVE  /\ x \in DOMAIN D
             /\ IF x = d /\ k = n + 1 THEN f = e ELSE Lies(v, D, x, k, f)
  BY <1>6, <1>7 DEF Lies
<1>8. Typed(w, F)
  <2>1. ASSUME NEW x, NEW k, At(F, x, k) PROVE MaybeEntry(Unit(w, x, k))
    BY <1>1, <1>6, <2>1 DEF Typed, MaybeEntry
  <2>. QED
    BY <2>1 DEF Typed
<1>9. ASSUME NEW x, NEW k, NEW f, Lies(w, F, x, k, f)
      PROVE  IF Enterable(f)
               THEN /\ f.cluster \in DOMAIN F /\ S[f.cluster] > S[x]
                    /\ f.cluster \notin {d} => F[f.cluster] = f.size
                    /\ f.size <= F[f.cluster]
               ELSE f.cluster \notin DOMAIN F
  <2>1. CASE x = d /\ k = n + 1
    <3>1. f = e
      BY <1>7, <1>9, <2>1
    <3>2. R[d] \in Nat /\ S[x] = R[d]
      BY <1>1, <1>4, <2>1 DEF IsTree
    <3>. QED
      BY <1>2, <1>3, <1>4, <3>1, <3>2
  <2>2. CASE ~ (x = d /\ k = n + 1)
    <3>1. Lies(v, D, x, k, f) /\ x \in DOMAIN D
      BY <1>7, <1>9, <2>2
    <3>2. f.cluster # c /\ f.size \in Nat
      BY <1>1, <3>1, LiesGood DEF Fresh
    <3>3. Enterable(f) =>
            f.cluster \in DOMAIN D /\ R[f.cluster] > R[x] /\ D[f.cluster] = f.size
      BY <1>1, <3>1 DEF Linked
    <3>4. ~Enterable(f) => f.cluster \notin DOMAIN D
      BY <1>1, <3>1 DEF Linked
    <3>. QED
      BY <1>2, <1>3, <1>4, <3>1, <3>2, <3>3, <3>4
  <2>. QED
    BY <2>1, <2>2
<1>10. Linked(w, F, S, {d})
  BY <1>9 DEF Linked
<1>11. Apart(w, F)
  <2>1. ASSUME NEW x, NEW k, NEW f, NEW y, NEW l, NEW g, Lies(w, F, x, k, f),
               Lies(w, F, y, l, g), f.cluster = g.cluster
        PROVE  x = y /\ k = l
    <3>1. CASE x = d /\ k = n + 1
      <4>1. f.cluster = c
        BY <1>7, <2>1, <3>1
      <4>. QED
        BY <1>7, <2>1, <3>1, <4>1 DEF Fresh
    <3>2. CASE y = d /\ l = n + 1
      <4>1. g.cluster = c
        BY <1>7, <2>1, <3>2
      <4>. QED
        BY <1>7, <2>1, <3>2, <4>1 DEF Fresh
    <3>3. CASE ~ (x = d /\ k = n + 1) /\ ~ (y = d /\ l = n + 1)
      <4>1. Lies(v, D, x, k, f) /\ Lies(v, D, y, l, g)
        BY <1>7, <2>1, <3>3
      <4>. QED
        BY <1>1, <2>1, <4>1 DEF Apart
    <3>. QED
      BY <3>1, <3>2, <3>3
  <2>. QED
    BY <2>1 DEF Apart
<1>12. Tidy(w, F)
  <2>1. ASSUME NEW x \in DOMAIN F, NEW k \in 1..Room(x), k > F[x], x = 0 \/ F[x] > 0
        PROVE  Unit(w, x, k) = Blank
    <3>1. CASE x = d
      <4>1. ~ (k <= n) /\ k # n + 1
        BY <1>2, <1>3, <2>1, <3>1
      <4>. QED
        BY <3>1, <4>1 DEF Entered
    <3>2. CASE x # d
      <4>1. x # c
        BY <1>2, <1>3, <2>1
      <4>2. x \in DOMAIN D /\ F[x] = D[x]
        BY <1>3, <3>2, <4>1
      <4>. QED
        BY <1>1, <2>1, <3>2, <4>2 DEF Tidy, Entered
    <3>. QED
      BY <3>1, <3>2
  <2>. QED
    BY <2>1 DEF Tidy
<1>13. RootKept(w, F)
  <2>1. ASSUME NEW k \in 1..RootEntries, k <= F[0], Stored(k) PROVE w.root[k] # Blank
    <3>1. 0 \in DOMAIN D /\ k \in 1..Room(0) /\ D[0] \in Nat
      BY <1>1 DEF IsTree, Room
    <3>2. Unit(w, 0, k) = w.root[k] /\ Unit(v, 0, k) = v.root[k]
      BY DEF Unit
    <3>3. CASE d # 0 \/ k # n + 1
      <4>1. k <= D[0]
        BY <1>2, <1>3, <2>1, <3>1, <3>3
      <4>2. v.root[k] # Blank
        BY <1>1, <2>1, <4>1 DEF RootKept
      <4>. QED
        BY <3>1, <3>2, <4>1, <4>2 DEF Entered
    <3>4. CASE d = 0 /\ k = n + 1
      <4>1. ~ (k <= D[d])
        BY <1>2, <3>4
      <4>2. Unit(w, 0, k) = e
        BY <2>1, <3>1, <3>4, <4>1 DEF Entered
      <4>. QED
        BY <1>2, <3>2, <4>2
    <3>. QED
      BY <3>3, <3>4
  <2>. QED
    BY <2>1 DEF RootKept
<1>14. Marked(w, F, {})
  <2>1. ASSUME NEW x, NEW k, NEW f, Lies(w, F, x, k, f) PROVE Taken(w.fat, f.cluster)
    BY <1>7, <2>1 DEF Marked
  <2>2. ASSUME NEW x \in DOMAIN F, x # 0 PROVE w.fat[x] = EOC
    BY <1>3, <2>2 DEF Marked, Taken, Enterable
  <2>. QED
    BY <2>1, <2>2 DEF Marked
<1>15. Covers(w, F)
  BY <1>8, <1>9, <1>12 DEF Covers
<1>16. Shape(w, F, S, {d})
  BY <1>5, <1>8, <1>10, <1>11, <1>12, <1>13 DEF Shape
<1>. QED
  BY <1>3, <1>7, <1>14, <1>15, <1>16 DEF F, S

\* The tree without cluster c, and without one of the entries of d.
Shrunk(D, d, c) == [x \in DOMAIN D \ {c} |-> IF x = d THEN D[d] - 1 ELSE D[x]]

\* Directory d had one entry, or two of which at most the second is left.
Removed(v, w, D, d, i) ==
  /\ D[d] \in {1, 2}
  /\ \A x \in DOMAIN D : x # d => \A k \in 1..Room(x) : Unit(w, x, k) = Unit(v, x, k)
  /\ D[d] = 2 => \A k \in 1..Room(d) :
       \/ Unit(w, d, k) = Blank /\ (d = 0 => k > 1)
       \/ k = 1 /\ i = 1 /\ 2 \in 1..Room(d) /\ Unit(w, d, k) = Unit(v, d, 2)

\* Without the entry of cluster c, at the i-th place of d, the tree is smaller.  Its
\* cluster was given back before; the entry of d has yet to learn of it.
LEMMA RemovedTree ==
  ASSUME NEW v, NEW w, NEW D, NEW R, Shape(v, D, R, {}), NEW d, NEW i, NEW e,
         Lies(v, D, d, i, e), e.cluster \in Clusters, Marked(v, D, {e.cluster}), w.fat = v.fat,
         Removed(v, w, D, d, i), d = 0 => D[d] = 2
  PROVE  LET F == Shrunk(D, d, e.cluster)
         IN /\ Shape(w, F, R, {d}) /\ Marked(w, F, {})
            /\ D[d] = 2 => Covers(w, F)
            /\ DOMAIN F = DOMAIN D \ {e.cluster} /\ d \in DOMAIN F /\ F[d] = D[d] - 1
            /\ \A x \in DOMAIN F : x # d => F[x] = D[x]
            /\ \A x, k, f : Lies(w, F, x, k, f) => \E l : Lies(v, D, x, l, f)
<1>. DEFINE c == e.cluster
            F == Shrunk(D, d, c)
<1>1. /\ IsTree(D, R) /\ Typed(v, D) /\ Linked(v, D, R, {}) /\ Apart(v, D)
      /\ Tidy(v, D) /\ RootKept(v, D)
  BY DEF Shape
<1>2. /\ d \in DOMAIN D /\ c \in Clusters /\ D[d] \in {1, 2}
      /\ \A x : Room(x) \in Nat
  BY <1>1, Constants DEF Lies, At, Removed, Room
<1>3. c # d /\ c # 0
  <2>1. R[d] \in Nat
    BY <1>1, <1>2 DEF IsTree
  <2>2. IF Enterable(e) THEN R[c] > R[d] ELSE c \notin DOMAIN D
    BY <1>1 DEF Linked
  <2>. QED
    BY <1>2, <2>1, <2>2, Constants
<1>4. /\ DOMAIN F = DOMAIN D \ {c} /\ d \in DOMAIN F /\ F[d] = D[d] - 1
      /\ \A x \in DOMAIN F : x # d => F[x] = D[x]
  BY <1>2, <1>3 DEF Shrunk
<1>5. IsTree(F, R)
  <2>1. \A x \in DOMAIN F : F[x] \in Nat
    BY <1>1, <1>2, <1>4 DEF IsTree
  <2>2. F = [x \in DOMAIN F |-> F[x]]
    BY <1>4 DEF Shrunk
  <2>. HIDE DEF F
  <2>. QED
    BY <1>1, <1>3, <1>4, <2>1, <2>2 DEF IsTree
<1>. HIDE DEF F
<1>6. ASSUME NEW x, NEW k, NEW f, Lies(w, F, x, k, f)
      PROVE  /\ x \in DOMAIN F /\ f.cluster # c
             /\ x # d => Lies(v, D, x, k, f)
             /\ x = d => k = 1 /\ D[d] = 2 /\ i = 1 /\ Lies(v, D, x, 2, f)
  <2>1. x \in DOMAIN F /\ k \in 1..Room(x) /\ k <= F[x] /\ Unit(w, x, k) = f /\ f # Blank
    BY <1>6 DEF Lies, At
  <2>2. CASE x # d
    <3>1. Lies(v, D, x, k, f)
      BY <1>4, <2>1, <2>2 DEF Lies, At, Removed
    <3>. QED
      BY <1>1, <2>1, <2>2, <3>1 DEF Apart
  <2>3. CASE x = d
    <3>1. k = 1 /\ D[d] = 2
      BY <1>2, <1>4, <2>1, <2>3
    <3>2. i = 1 /\ 2 \in 1..Room(d) /\ f = Unit(v, d, 2)
      BY <2>1, <2>3, <3>1 DEF Removed
    <3>3. Lies(v, D, x, 2, f)
      BY <1>2, <2>1, <2>3, <3>1, <3>2 DEF Lies, At
    <3>4. f.cluster # c
      BY <1>1, <2>3, <3>2, <3>3 DEF Apart
    <3>. QED
      BY <2>1, <2>3, <3>1, <3>2, <3>3, <3>4
  <2>. QED
    BY <2>2, <2>3
<1>7. \A x, k, f : Lies(w, F, x, k, f) => \E l : Lies(v, D, x, l, f)
  BY <1>6
<1>8. Typed(w, F)
  <2>1. ASSUME NEW x, NEW k, At(F, x, k) PROVE MaybeEntry(Unit(w, x, k))
    <3>. DEFINE u == Unit(w, x, k)
    <3>1. CASE u = Blank
      BY <3>1 DEF MaybeEntry
    <3>2. CASE u # Blank
      <4>1. Lies(w, F, x, k, u)
        BY <2>1, <3>2 DEF Lies
      <4>. HIDE DEF u
      <4>2. PICK l : Lies(v, D, x, l, u)
        BY <1>7, <4>1
      <4>3. Good(u)
        BY <1>1, <4>2, LiesGood
      <4>. QED
        BY <4>3 DEF MaybeEntry, u
    <3>. QED
      BY <3>1, <3>2
  <2>. QED
    BY <2>1 DEF Typed
<1>9. ASSUME NEW x, NEW k, NEW f, Lies(w, F, x, k, f)
      PROVE  IF Enterable(f)
               THEN /\ f.cluster \in DOMAIN F /\ R[f.cluster] > R[x]
                    /\ f.cluster \notin {d} => F[f.cluster] = f.size
                    /\ D[d] = 2 => f.size <= F[f.cluster] \/ F[f.cluster] > 0
               ELSE f.cluster \notin DOMAIN F
  <2>1. PICK l : Lies(v, D, x, l, f)
    BY <1>7, <1>9
  <2>2. f.cluster # c /\ f.size \in Nat
    BY <1>1, <1>6, <1>9, <2>1, LiesGood
  <2>3. IF Enterable(f)
          THEN f.cluster \in DOMAIN D /\ R[f.cluster] > R[x] /\ D[f.cluster] = f.size
          ELSE f.cluster \notin DOMAIN D
    BY <1>1, <2>1 DEF Linked
  <2>. QED
    BY <1>4, <2>2, <2>3
<1>10. Linked(w, F, R, {d})
  BY <1>9 DEF Linked
<1>11. Apart(w, F)
  <2>1. ASSUME NEW x, NEW k, NEW f, NEW y, NEW l, NEW g, Lies(w, F, x, k, f),
               Lies(w, F, y, l, g), f.cluster = g.cluster
        PROVE  x = y /\ k = l
    <3>1. PICK k1 : Lies(v, D, x, k1, f) /\ (x = d => k = 1) /\ (x # d => k1 = k)
      BY <1>6, <2>1
    <3>2. PICK l1 : Lies(v, D, y, l1, g) /\ (y = d => l = 1) /\ (y # d => l1 = l)
      BY <1>6, <2>1
    <3>3. x = y /\ k1 = l1
      BY <1>1, <2>1, <3>1, <3>2 DEF Apart
    <3>. QED
      BY <3>1, <3>2, <3>3
  <2>. QED
    BY <2>1 DEF Apart
<1>12. Tidy(w, F)
  <2>1. ASSUME NEW x \in DOMAIN F, NEW k \in 1..Room(x), k > F[x], x = 0 \/ F[x] > 0
        PROVE  Unit(w, x, k) = Blank
    <3>1. CASE x # d
      BY <1>1, <1>4, <2>1, <3>1 DEF Tidy, Removed
    <3>2. CASE x = d
      <4>1. D[d] = 2 /\ k # 1
        BY <1>2, <1>4, <2>1, <3>2
      <4>. QED
        BY <2>1, <3>2, <4>1 DEF Removed
    <3>. QED
      BY <3>1, <3>2
  <2>. QED
    BY <2>1 DEF Tidy
<1>13. RootKept(w, F)
  <2>1. ASSUME NEW k \in 1..RootEntries, k <= F[0], Stored(k) PROVE w.root[k] # Blank
    <3>1. 0 \in DOMAIN D /\ k \in 1..Room(0) /\ D[0] \in Nat /\ 0 \in DOMAIN F
      BY <1>1, <1>3, <1>4 DEF IsTree, Room
    <3>2. \A j : Unit(w, 0, j) = w.root[j] /\ Unit(v, 0, j) = v.root[j]
      BY DEF Unit
    <3>3. CASE d # 0
      <4>1. k <= D[0] /\ Unit(w, 0, k) = Unit(v, 0, k)
        BY <1>4, <2>1, <3>1, <3>3 DEF Removed
      <4>. QED
        BY <1>1, <2>1, <3>2, <4>1 DEF RootKept
    <3>4. CASE d = 0
      <4>1. k = 1 /\ D[0] = 2
        BY <1>4, <2>1, <3>4
      <4>2. i = 1 /\ 2 \in 1..RootEntries /\ w.root[k] = v.root[2]
        BY <3>1, <3>2, <3>4, <4>1 DEF Removed, Room
      <4>3. Stored(2)
        BY Constants DEF Stored
      <4>. QED
        BY <1>1, <4>1, <4>2, <4>3 DEF RootKept
    <3>. QED
      BY <3>3, <3>4
  <2>. QED
    BY <2>1 DEF RootKept
<1>14. Marked(w, F, {})
  <2>1. ASSUME NEW x, NEW k, NEW f, Lies(w, F, x, k, f) PROVE Taken(w.fat, f.cluster)
    <3>1. (\E l : Lies(v, D, x, l, f)) /\ f.cluster # c
      BY <1>6, <1>7, <2>1
    <3>. QED
      BY <3>1 DEF Marked
  <2>2. ASSUME NEW x \in DOMAIN F, x # 0 PROVE w.fat[x] = EOC
    BY <1>4, <2>2 DEF Marked
  <2>. QED
    BY <2>1, <2>2 DEF Marked
<1>15. D[d] = 2 => Covers(w, F)
  BY <1>8, <1>9, <1>12 DEF Covers
<1>16. Shape(w, F, R, {d})
  BY <1>5, <1>8, <1>10, <1>11, <1>12, <1>13 DEF Shape
<1>. QED
  BY <1>4, <1>7, <1>14, <1>15, <1>16 DEF F

\* A disk that is as good as another, with one part of it written.
LEMMA DiskParts ==
  ASSUME NEW v, DiskOK(v), NEW w
  PROVE  /\ \A r : w = [v EXCEPT !.root = r] /\ RootOK(r) => DiskOK(w)
         /\ \A c \in Clusters : \A u :
              w = [v EXCEPT !.data[c] = Padded(u, EntriesPerSector)] => DiskOK(w)
<1>1. v = [field \in DiskFields |-> v[field]] /\ FatOK(v.fat) /\ RootOK(v.root) /\ DataOK(v.data)
  BY DEF DiskOK
<1>2. ASSUME NEW r, w = [v EXCEPT !.root = r], RootOK(r) PROVE DiskOK(w)
  <2>1. /\ w = [field \in DiskFields |-> w[field]]
        /\ w.fat = v.fat /\ w.root = r /\ w.data = v.data
    BY <1>1, <1>2 DEF DiskFields
  <2>. QED
    BY <1>1, <1>2, <2>1 DEF DiskOK
<1>3. ASSUME NEW c \in Clusters, NEW u, w = [v EXCEPT !.data[c] = Padded(u, EntriesPerSector)]
      PROVE  DiskOK(w)
  <2>. DEFINE b == Padded(u, EntriesPerSector)
  <2>1. b = [k \in 1..EntriesPerSector |-> b[k]]
    BY DEF Padded
  <2>. HIDE DEF b
  <2>2. w = [v EXCEPT !.data = [v.data EXCEPT ![c] = b]]
    BY <1>3 DEF b
  <2>3. /\ w = [field \in DiskFields |-> w[field]]
        /\ w.fat = v.fat /\ w.root = v.root /\ w.data = [v.data EXCEPT ![c] = b]
    BY <1>1, <2>2 DEF DiskFields
  <2>4. DataOK(w.data)
    BY <1>1, <2>1, <2>3 DEF DataOK
  <2>. QED
    BY <1>1, <2>3, <2>4 DEF DiskOK
<1>. QED
  BY <1>2, <1>3

\* Padded, place by place.
LEMMA PaddedIs ==
  ASSUME NEW n \in Nat, NEW u
  PROVE  /\ Padded(u, n) = [k \in 1..n |-> Padded(u, n)[k]]
         /\ \A k \in 1..n : Padded(u, n)[k] = IF k <= Len(u) THEN u[k] ELSE Blank
BY DEF Padded

\* The root directory, written again with one entry changed.
LEMMA EditedRoot ==
  ASSUME NEW v, DiskOK(v), NEW D, NEW R, NEW X, Shape(v, D, R, X),
         NEW k, NEW e, Lies(v, D, 0, k, e), NEW g, Good(g), g.cluster = e.cluster,
         g.attributes = e.attributes, NEW u, Len(u) = D[0],
         \A j \in 1..D[0] : j <= RootEntries => u[j] = IF j = k THEN g ELSE v.root[j],
         NEW w, w = RootWritten(v, u, D[0])
  PROVE  /\ Edited(v, w, D, 0, k, e, g) /\ DiskOK(w) /\ RootOK(w.root)
         /\ w.fat = v.fat /\ w.data = v.data
<1>. DEFINE n == D[0]
            m == Sectored(n)
            b == Padded(u, m)
            r == Overwrite(v.root, b)
<1>1. n \in Nat /\ 0 \in DOMAIN D /\ DOMAIN D \subseteq {0} \cup Clusters
  BY DEF Shape, IsTree
<1>2. /\ k \in 1..RootEntries /\ k <= n /\ v.root[k] = e /\ e # Blank
      /\ RootOK(v.root)
  BY DEF Lies, At, Room, Unit, DiskOK
<1>3. m \in Nat /\ \A j \in 1..n : j > m => ~Stored(j)
  BY <1>1, SectoredEntries
<1>. HIDE DEF m
<1>4. Stored(k)
  BY <1>2 DEF RootOK
<1>5. k <= m
  BY <1>1, <1>2, <1>3, <1>4, Constants
<1>6. b = [j \in 1..m |-> b[j]] /\ \A j \in 1..m : b[j] = IF j <= n THEN u[j] ELSE Blank
  BY <1>3 DEF Padded
<1>. HIDE DEF b
<1>7. v.root = [j \in 1..RootEntries |-> v.root[j]]
  BY <1>2 DEF RootOK
<1>8. /\ r = [j \in 1..RootEntries |-> r[j]]
      /\ \A j \in 1..RootEntries : r[j] = IF j <= m THEN b[j] ELSE v.root[j]
  <2>1. Len(b) = m
    BY <1>3, <1>6, FunctionIsSeq
  <2>2. DOMAIN v.root = 1..RootEntries
    BY <1>7
  <2>3. r = [j \in 1..RootEntries |-> IF j <= m THEN b[j] ELSE v.root[j]]
    BY <2>1, <2>2, Zenon DEF Overwrite
  <2>. QED
    BY <2>3
<1>. HIDE DEF r
<1>9. \A j \in 1..RootEntries : j > n => v.root[j] = Blank
  BY <1>1 DEF Shape, Tidy, Room, Unit
<1>. HIDE DEF n
<1>10. \A j \in 1..RootEntries : r[j] = IF j = k THEN g ELSE v.root[j]
  <2>1. SUFFICES ASSUME NEW j \in 1..RootEntries PROVE r[j] = IF j = k THEN g ELSE v.root[j]
    OBVIOUS
  <2>2. CASE j > m
    BY <1>3, <1>5, <1>8, <2>2, Constants
  <2>3. CASE j <= m /\ j <= n
    BY <1>1, <1>3, <1>6, <1>8, <2>3, Constants DEF n
  <2>4. CASE j <= m /\ j > n
    BY <1>1, <1>2, <1>3, <1>6, <1>8, <1>9, <2>4, Constants
  <2>. QED
    BY <1>1, <1>3, <2>2, <2>3, <2>4, Constants
<1>11. RootOK(r)
  BY <1>2, <1>4, <1>8, <1>10 DEF RootOK, MaybeEntry
<1>12. w = [v EXCEPT !.root = r]
  BY DEF RootWritten, r, b, m, n
<1>13. DiskOK(w)
  BY <1>11, <1>12, DiskParts
<1>14. /\ w.fat = v.fat /\ w.data = v.data /\ w.root = r
       /\ \A j : Unit(w, 0, j) = r[j]
       /\ \A x \in Clusters : \A j : Unit(w, x, j) = Unit(v, x, j)
  BY <1>12, RootUnits
<1>15. \A j \in 1..RootEntries : Unit(w, 0, j) = IF j = k THEN g ELSE Unit(v, 0, j)
  BY <1>10, <1>14 DEF Unit
<1>16. Edited(v, w, D, 0, k, e, g)
  <2>1. Unit(w, 0, k) = g
    BY <1>2, <1>15
  <2>2. ASSUME NEW x \in DOMAIN D, NEW j \in 1..Room(x), ~ (x = 0 /\ j = k)
        PROVE  Unit(w, x, j) = Unit(v, x, j)
    <3>1. CASE x = 0
      BY <1>15, <2>2, <3>1 DEF Room
    <3>2. CASE x # 0
      BY <1>1, <1>14, <3>2
    <3>. QED
      BY <3>1, <3>2
  <2>. QED
    BY <2>1, <2>2 DEF Edited
<1>. QED
  BY <1>11, <1>13, <1>14, <1>16

\* The cluster of a directory, written again with one entry changed.
LEMMA EditedData ==
  ASSUME NEW v, DiskOK(v), NEW D, NEW R, NEW X, Shape(v, D, R, X), NEW d, d # 0,
         NEW k, NEW e, Lies(v, D, d, k, e), NEW g, Good(g), g.cluster = e.cluster,
         g.attributes = e.attributes, NEW u, Len(u) = D[d],
         \A j \in 1..D[d] : j <= EntriesPerSector => u[j] = IF j = k THEN g ELSE Unit(v, d, j),
         NEW w, w = FileWritten(v, d, u)
  PROVE  /\ Edited(v, w, D, d, k, e, g) /\ DiskOK(w)
         /\ w.fat = v.fat /\ \A x \in Clusters : x # d => w.data[x] = v.data[x]
<1>. DEFINE n == D[d]
            b == Padded(u, EntriesPerSector)
<1>1. /\ n \in Nat /\ d \in DOMAIN D /\ DOMAIN D \subseteq {0} \cup Clusters /\ d \in Clusters
      /\ k \in 1..EntriesPerSector /\ k <= n
  BY DEF Shape, IsTree, Lies, At, Room
<1>2. /\ b = [j \in 1..EntriesPerSector |-> b[j]]
      /\ \A j \in 1..EntriesPerSector : b[j] = IF j <= n THEN u[j] ELSE Blank
  BY Constants DEF Padded
<1>3. \A j \in 1..EntriesPerSector : j > n => Unit(v, d, j) = Blank
  BY <1>1 DEF Shape, Tidy, Room
<1>4. w = [v EXCEPT !.data[d] = b]
  BY <1>1 DEF FileWritten
<1>. HIDE DEF b
<1>5. DiskOK(w)
  BY <1>1, <1>4, DiskParts DEF b
<1>6. /\ w.fat = v.fat
      /\ \A x \in Clusters : x # d => w.data[x] = v.data[x]
      /\ \A j : Unit(w, d, j) = b[j]
      /\ \A x \in {0} \cup Clusters : x # d => \A j : Unit(w, x, j) = Unit(v, x, j)
  <2>. HIDE DEF n
  <2>1. /\ w.fat = v.fat /\ w.data[d] = b
        /\ \A x \in Clusters : x # d => w.data[x] = v.data[x]
    <3>1. v = [field \in DiskFields |-> v[field]] /\ v.data = [c \in Clusters |-> v.data[c]]
      BY DEF DiskOK, DataOK
    <3>2. w = [v EXCEPT !.data = [v.data EXCEPT ![d] = b]]
      BY <1>4
    <3>3. w.fat = v.fat /\ w.data = [v.data EXCEPT ![d] = b]
      BY <3>1, <3>2 DEF DiskFields
    <3>. QED
      BY <1>1, <3>1, <3>3
  <2>2. \A j : Unit(w, d, j) = b[j]
    BY <2>1 DEF Unit
  <2>3. ASSUME NEW x \in {0} \cup Clusters, x # d, NEW j PROVE Unit(w, x, j) = Unit(v, x, j)
    <3>1. w.root = v.root
      BY <1>4 DEF DiskOK, DiskFields
    <3>. QED
      BY <2>1, <2>3, <3>1 DEF Unit
  <2>. QED
    BY <2>1, <2>2, <2>3
<1>7. \A j \in 1..EntriesPerSector : Unit(w, d, j) = IF j = k THEN g ELSE Unit(v, d, j)
  <2>. SUFFICES ASSUME NEW j \in 1..EntriesPerSector
               PROVE  Unit(w, d, j) = IF j = k THEN g ELSE Unit(v, d, j)
    OBVIOUS
  <2>. HIDE DEF n
  <2>0. Unit(w, d, j) = b[j] /\ j \in Nat /\ j >= 1
    BY <1>6, Constants
  <2>1. n \in Nat /\ k <= n
    BY <1>1
  <2>2. CASE j <= n
    <3>1. j \in 1..D[d] /\ b[j] = u[j]
      BY <1>2, <2>0, <2>1, <2>2 DEF n
    <3>. QED
      BY <2>0, <3>1, Constants
  <2>3. CASE ~ (j <= n)
    <3>1. b[j] = Blank /\ Unit(v, d, j) = Blank /\ j # k
      BY <1>2, <1>3, <2>0, <2>1, <2>3
    <3>. QED
      BY <2>0, <3>1
  <2>. QED
    BY <2>2, <2>3
<1>8. Unit(w, d, k) = g
  BY <1>1, <1>7
<1>9. ASSUME NEW x \in DOMAIN D, NEW j \in 1..Room(x), ~ (x = d /\ j = k)
      PROVE  Unit(w, x, j) = Unit(v, x, j)
  <2>1. CASE x = d
    BY <1>7, <1>9, <2>1 DEF Room
  <2>2. CASE x # d
    BY <1>1, <1>6, <2>2
  <2>. QED
    BY <2>1, <2>2
<1>10. Edited(v, w, D, d, k, e, g)
  BY <1>8, <1>9 DEF Edited
<1>. QED
  BY <1>5, <1>6, <1>10

\* Nothing new is listed when an entry is changed, and its directory knows its size.
LEMMA EditedNew ==
  ASSUME NEW v, NEW w, DiskOK(w), w.fat = v.fat, NEW D, NEW R, NEW X, Shape(v, D, R, X),
         Marked(v, D, {}), NEW d, NEW k, NEW e, NEW g, Edited(v, w, D, d, k, e, g),
         e.attributes = "directory" => g.size = D[e.cluster], X \subseteq {e.cluster}
  PROVE  Shape(w, D, R, {}) /\ Marked(w, D, {}) /\ NewMarked(v, w)
<1>1. Shape(w, D, R, X \ {e.cluster}) /\ Marked(w, D, {})
  BY EditedTree
<1>2. X \ {e.cluster} = {}
  OBVIOUS
<1>3. Shape(w, D, R, {})
  BY <1>1, <1>2
<1>4. Covers(w, D) /\ IsTree(D, R)
  BY <1>3, ShapeCovers DEF Shape
<1>. QED
  BY <1>1, <1>3, <1>4, MarkedNew

\* s, once an entry is changed on the disk: e at the k-th place of d is g.
Revised(x, s, t, D, R, d, k, e, g) ==
  /\ Ready(x, t) /\ t.written = s.written
  /\ t.root_entries = s.root_entries /\ t.calls = s.calls /\ t.view.fat = s.view.fat
  /\ Edited(s.view, t.view, D, d, k, e, g)
  /\ Shape(t.view, D, R, {}) /\ Marked(t.view, D, {})
  /\ \A c \in Clusters : c \notin DOMAIN D => t.view.data[c] = s.view.data[c]

\* u has the entries of d, but for the k-th, which is g.
Changed(v, D, d, k, g, u) ==
  /\ IsSeq(u) /\ D[d] <= Len(u)
  /\ \A j \in 1..D[d] : j <= Room(d) => u[j] = IF j = k THEN g ELSE Unit(v, d, j)

\* A directory as it was read, with one entry changed.
LEMMA WithEntryIs ==
  ASSUME NEW v, NEW D, NEW d, D[d] \in Nat, NEW buf, Buffer(v, D, d, buf), NEW k, NEW g
  PROVE  Changed(v, D, d, k, g, WithEntry(buf, k, g))
<1>. DEFINE n == Len(buf)
            u == WithEntry(buf, k, g)
<1>1. IsSeq(buf) /\ D[d] <= n /\ n \in Nat /\ DOMAIN buf = 1..n
  BY SeqIsFunction DEF Buffer
<1>. HIDE DEF n
<1>2. u = [j \in 1..n |-> IF j = k THEN g ELSE buf[j]]
  BY <1>1, Zenon DEF WithEntry
<1>. HIDE DEF u
<1>3. u = [j \in 1..n |-> u[j]] /\ \A j \in 1..n : u[j] = IF j = k THEN g ELSE buf[j]
  BY <1>2
<1>4. IsSeq(u) /\ Len(u) = n
  BY <1>1, <1>3, FunctionIsSeq, Zenon
<1>5. \A j \in 1..n : j <= Room(d) => buf[j] = Unit(v, d, j)
  BY DEF Buffer, n
<1>6. \A j \in 1..D[d] : j \in 1..n
  BY <1>1
<1>7. \A j \in 1..D[d] : j <= Room(d) => u[j] = IF j = k THEN g ELSE Unit(v, d, j)
  BY <1>3, <1>5, <1>6
<1>8. Changed(v, D, d, k, g, u)
  BY <1>1, <1>4, <1>7 DEF Changed
<1>. QED
  BY <1>8 DEF u

\* The root directory is written with an entry changed, whatever its buffer holds.
LEMMA EditRootReady ==
  ASSUME NEW x, NEW s, MemoryOK(s), Traced(x, s), s.status = "running",
         s.was_fat_read => s.fat = s.view.fat, s.view.fat[0] = FAT_SIGNATURE,
         Sectored(s.root_entries) <= RootEntries,
         NEW D, NEW R, NEW X, Shape(s.view, D, R, X), Marked(s.view, D, {}),
         D[0] = s.root_entries,
         NEW k, NEW e, Lies(s.view, D, 0, k, e), X \subseteq {e.cluster},
         NEW g, Good(g), g.cluster = e.cluster, g.attributes = e.attributes,
         e.attributes = "directory" => g.size = D[e.cluster],
         NEW u, Changed(s.view, D, 0, k, g, u)
  PROVE  Revised(x, s, RootWrite(s, SubSeq(u, 1, s.root_entries)), D, R, 0, k, e, g)
<1>. DEFINE n == s.root_entries
            b == SubSeq(u, 1, n)
            w == RootWritten(s.view, b, n)
            t == RootWrite(s, b)
<1>1. n \in Nat /\ DiskOK(s.view)
  BY DEF MemoryOK
<1>2. Len(b) = n /\ b = [j \in 1..n |-> u[j]]
  BY <1>1, SeqPrefix
<1>. HIDE DEF b
<1>3. \A j \in 1..n : b[j] = u[j]
  BY <1>2
<1>4. \A j \in 1..D[0] : j <= RootEntries => b[j] = IF j = k THEN g ELSE s.view.root[j]
  BY <1>3 DEF Changed, Room, Unit, n
<1>5. Len(b) = D[0]
  BY <1>2
<1>6. w = RootWritten(s.view, b, D[0])
  BY DEF w, n
<1>. HIDE DEF w, n
<1>7. /\ Edited(s.view, w, D, 0, k, e, g) /\ DiskOK(w) /\ RootOK(w.root)
      /\ w.fat = s.view.fat /\ w.data = s.view.data
  BY <1>1, <1>4, <1>5, <1>6, EditedRoot
<1>8. Shape(w, D, R, {}) /\ Marked(w, D, {}) /\ NewMarked(s.view, w)
  BY <1>7, EditedNew
<1>9. /\ Ready(x, t) /\ t.view = w
      /\ t.written = s.written /\ t.root_entries = s.root_entries /\ t.calls = s.calls
  BY <1>7, <1>8, RootWriteReady DEF w, n
<1>. HIDE DEF t
<1>10. Revised(x, s, t, D, R, 0, k, e, g)
  BY <1>7, <1>8, <1>9 DEF Revised
<1>. QED
  BY <1>10 DEF t, b, n

\* g may take the place of e.
Replaces(e, g, D) ==
  /\ Good(g) /\ g.cluster = e.cluster /\ g.attributes = e.attributes
  /\ e.attributes = "directory" => g.size = D[e.cluster]

\* edit_file, with one entry changed.
LEMMA EditFileReady ==
  ASSUME NEW x, NEW s, Ready(x, s), NEW D, NEW R, NEW X, Shape(s.view, D, R, X),
         Marked(s.view, D, {}), Counted(s, D, R), NEW d, NEW dir, Stands(dir, D, d),
         NEW k, NEW e, Lies(s.view, D, d, k, e), X \subseteq {e.cluster},
         NEW g, Replaces(e, g, D),
         NEW u, Changed(s.view, D, d, k, g, u)
  PROVE  LET t == EditFile(s, dir, u) IN Lost(x, t) \/ Revised(x, s, t, D, R, d, k, e, g)
<1>0. /\ MemoryOK(s) /\ Coherent(s) /\ Traced(x, s)
      /\ s.status = "running" /\ s.view.fat[0] = FAT_SIGNATURE
      /\ Sectored(s.root_entries) <= RootEntries /\ DiskOK(s.view)
      /\ D[0] = s.root_entries
      /\ Good(g) /\ g.cluster = e.cluster /\ g.attributes = e.attributes
      /\ e.attributes = "directory" => g.size = D[e.cluster]
  BY ReadyParts DEF Counted, Replaces
<1>1. d \in {0} \cup Clusters /\ D[d] \in Nat /\ D[d] > 0 /\ k \in 1..Room(d) /\ k <= D[d]
      /\ d \in DOMAIN D
  BY Constants DEF Shape, IsTree, Lies, At, Room
<1>2. CASE d = 0
  <2>1. EditFile(s, dir, u) = RootWrite(s, SubSeq(u, 1, s.root_entries))
    BY <1>2 DEF EditFile, Stands
  <2>2. s.was_fat_read => s.fat = s.view.fat
    BY <1>0 DEF Coherent
  <2>3. Revised(x, s, RootWrite(s, SubSeq(u, 1, s.root_entries)), D, R, 0, k, e, g)
    BY <1>0, <1>2, <2>2, EditRootReady
  <2>. QED
    BY <1>2, <2>1, <2>3
<1>3. CASE d # 0
  <2>. DEFINE n == D[d]
              b == SubSeq(u, 1, n)
              f == dir.buf[dir.i]
              w == FileWritten(s.view, d, b)
              t == WriteFileData(s, f, b).s
  <2>1. EditFile(s, dir, u) = t /\ f.cluster = d
    BY <1>3 DEF EditFile, Stands
  <2>2. IsSeq(b) /\ Len(b) = n /\ b = [j \in 1..n |-> u[j]]
    BY <1>1, SeqPrefix
  <2>. HIDE DEF b
  <2>3. \A j \in 1..n : b[j] = u[j]
    BY <2>2
  <2>4. \A j \in 1..D[d] : j <= EntriesPerSector => b[j] = IF j = k THEN g ELSE Unit(s.view, d, j)
    BY <1>3, <2>3 DEF Changed, Room, n
  <2>5. Len(b) = D[d] /\ Len(b) # 0 /\ f.cluster \in Clusters
    BY <1>1, <1>3, <2>1, <2>2
  <2>6. w = FileWritten(s.view, d, b)
    BY DEF w
  <2>. HIDE DEF w, n
  <2>7. /\ Edited(s.view, w, D, d, k, e, g) /\ DiskOK(w)
        /\ w.fat = s.view.fat /\ \A c \in Clusters : c # d => w.data[c] = s.view.data[c]
    BY <1>0, <1>3, <2>4, <2>5, <2>6, EditedData
  <2>8. Shape(w, D, R, {}) /\ Marked(w, D, {}) /\ NewMarked(s.view, w)
    BY <1>0, <2>7, EditedNew
  <2>. HIDE DEF f
  <2>9. w = FileWritten(s.view, f.cluster, b)
    BY <2>1, <2>6
  <2>10. \/ Lost(x, t)
         \/ /\ Ready(x, t) /\ t.view = w /\ t.written = s.written
            /\ t.root_entries = s.root_entries /\ t.calls = s.calls
    BY <2>2, <2>5, <2>8, <2>9, WriteFileDataReady
  <2>. HIDE DEF t
  <2>11. Lost(x, t) \/ Revised(x, s, t, D, R, d, k, e, g)
    BY <1>1, <2>7, <2>8, <2>10 DEF Revised
  <2>. QED
    BY <2>1, <2>11
<1>. QED
  BY <1>2, <1>3

\* u has the entries of d, and e after them.
Longer(v, D, d, e, u) ==
  /\ IsSeq(u) /\ Len(u) = D[d] + 1 /\ u[D[d] + 1] = e
  /\ \A j \in 1..D[d] : j <= Room(d) => u[j] = Unit(v, d, j)

\* A directory as it was read, with one entry more.
LEMMA LongerIs ==
  ASSUME NEW v, NEW D, NEW d, D[d] \in Nat, NEW buf, Buffer(v, D, d, buf), NEW e
  PROVE  Longer(v, D, d, e, Append(SubSeq(buf, 1, D[d]), e))
<1>. DEFINE n == D[d]
            b == SubSeq(buf, 1, n)
            u == Append(b, e)
<1>1. IsSeq(b) /\ Len(b) = n /\ b = [j \in 1..n |-> buf[j]]
  BY SeqPrefix
<1>2. IsSeq(u) /\ Len(u) = n + 1 /\ u[n + 1] = e /\ \A j \in 1..n : u[j] = b[j]
  BY <1>1, SeqAppend
<1>3. \A j \in 1..n : b[j] = buf[j]
  BY <1>1
<1>4. Len(buf) \in Nat /\ n <= Len(buf)
  BY SeqIsFunction DEF Buffer
<1>5. \A j \in 1..n : j <= Room(d) => buf[j] = Unit(v, d, j)
  BY <1>4 DEF Buffer
<1>. HIDE DEF u, b
<1>6. Longer(v, D, d, e, u)
  BY <1>2, <1>3, <1>5 DEF Longer
<1>. QED
  BY <1>6 DEF u, b

\* The root directory, written with an entry more.
LEMMA EnteredRoot ==
  ASSUME NEW v, DiskOK(v), NEW D, NEW R, NEW X, Shape(v, D, R, X), NEW e, Good(e),
         NEW u, Longer(v, D, 0, e, u), NEW w, w = RootWritten(v, u, D[0] + 1)
  PROVE  /\ Entered(v, w, D, 0, e) /\ DiskOK(w) /\ RootOK(w.root)
         /\ w.fat = v.fat /\ w.data = v.data
<1>. DEFINE n == D[0]
            m == Sectored(n + 1)
            b == Padded(u, m)
            r == Overwrite(v.root, b)
<1>1. n \in Nat /\ 0 \in DOMAIN D /\ DOMAIN D \subseteq {0} \cup Clusters
  BY DEF Shape, IsTree
<1>2. RootOK(v.root)
  BY DEF DiskOK
<1>3. m \in Nat /\ (n + 1 <= m <=> Stored(n + 1))
  BY <1>1, SectoredEntries, SectoredNext
<1>4. /\ Len(u) = n + 1 /\ u[n + 1] = e
      /\ \A j \in 1..n : j <= RootEntries => u[j] = v.root[j]
  BY DEF Longer, Room, Unit
<1>. HIDE DEF m
<1>5. b = [j \in 1..m |-> b[j]] /\ \A j \in 1..m : b[j] = IF j <= n + 1 THEN u[j] ELSE Blank
  BY <1>3, <1>4 DEF Padded
<1>. HIDE DEF b
<1>6. /\ r = [j \in 1..RootEntries |-> r[j]]
      /\ \A j \in 1..RootEntries : r[j] = IF j <= m THEN b[j] ELSE v.root[j]
  <2>1. Len(b) = m
    BY <1>3, <1>5, FunctionIsSeq
  <2>2. DOMAIN v.root = 1..RootEntries
    BY <1>2 DEF RootOK
  <2>3. r = [j \in 1..RootEntries |-> IF j <= m THEN b[j] ELSE v.root[j]]
    BY <2>1, <2>2, Zenon DEF Overwrite
  <2>. QED
    BY <2>3
<1>. HIDE DEF r
<1>7. \A j \in 1..RootEntries : j > n => v.root[j] = Blank
  BY <1>1 DEF Shape, Tidy, Room, Unit
<1>. HIDE DEF n
<1>8. \A j \in 1..RootEntries :
        r[j] = IF j <= n THEN v.root[j] ELSE IF j = n + 1 /\ Stored(j) THEN e ELSE Blank
  <2>1. SUFFICES ASSUME NEW j \in 1..RootEntries
                 PROVE  r[j] = IF j <= n THEN v.root[j]
                               ELSE IF j = n + 1 /\ Stored(j) THEN e ELSE Blank
    OBVIOUS
  <2>2. j \in Nat /\ j >= 1
    BY Constants
  <2>3. CASE j > m
    <3>1. r[j] = v.root[j]
      BY <1>3, <1>6, <2>2, <2>3
    <3>2. j = n + 1 => ~Stored(j)
      BY <1>1, <1>3, <2>2, <2>3
    <3>. QED
      BY <1>1, <1>7, <2>2, <3>1, <3>2
  <2>4. CASE j <= m
    <3>1. j \in 1..m /\ r[j] = b[j]
      BY <1>3, <1>6, <2>2, <2>4
    <3>2. CASE j <= n
      BY <1>1, <1>4, <1>5, <2>2, <3>1, <3>2, Constants
    <3>3. CASE j = n + 1
      BY <1>1, <1>3, <1>4, <1>5, <2>2, <2>4, <3>1, <3>3
    <3>4. CASE j > n + 1
      BY <1>1, <1>5, <2>2, <3>1, <3>4
    <3>. QED
      BY <1>1, <2>2, <3>2, <3>3, <3>4
  <2>. QED
    BY <1>3, <2>2, <2>3, <2>4
<1>9. RootOK(r)
  <2>1. ASSUME NEW j \in 1..RootEntries
        PROVE  MaybeEntry(r[j]) /\ (~Stored(j) => r[j] = Blank)
    <3>1. MaybeEntry(v.root[j]) /\ (~Stored(j) => v.root[j] = Blank)
      BY <1>2 DEF RootOK
    <3>. QED
      BY <1>8, <3>1 DEF MaybeEntry
  <2>. QED
    BY <1>6, <2>1 DEF RootOK
<1>10. w = [v EXCEPT !.root = r]
  BY DEF RootWritten, r, b, m, n
<1>11. DiskOK(w)
  BY <1>9, <1>10, DiskParts
<1>12. /\ w.fat = v.fat /\ w.data = v.data /\ w.root = r
       /\ \A j : Unit(w, 0, j) = r[j]
       /\ \A x \in Clusters : \A j : Unit(w, x, j) = Unit(v, x, j)
  BY <1>10, RootUnits
<1>13. ASSUME NEW x \in DOMAIN D, x # 0, NEW k \in 1..Room(x) PROVE Unit(w, x, k) = Unit(v, x, k)
  BY <1>1, <1>12, <1>13
<1>14. ASSUME NEW k \in 1..Room(0)
       PROVE  Unit(w, 0, k) = IF k <= D[0] THEN Unit(v, 0, k)
                              ELSE IF k = D[0] + 1 /\ (0 = 0 => Stored(k)) THEN e ELSE Blank
  <2>1. k \in 1..RootEntries /\ Unit(w, 0, k) = r[k] /\ Unit(v, 0, k) = v.root[k]
    BY <1>12 DEF Room, Unit
  <2>. QED
    BY <1>8, <2>1 DEF n
<1>15. Entered(v, w, D, 0, e)
  BY <1>13, <1>14 DEF Entered
<1>. QED
  BY <1>9, <1>11, <1>12, <1>15

\* The cluster of a directory, written with an entry more.
LEMMA EnteredData ==
  ASSUME NEW v, DiskOK(v), NEW D, NEW R, NEW X, Shape(v, D, R, X), NEW d \in DOMAIN D, d # 0,
         NEW e, NEW u, Longer(v, D, d, e, u), NEW w, w = FileWritten(v, d, u)
  PROVE  /\ Entered(v, w, D, d, e) /\ DiskOK(w)
         /\ w.fat = v.fat /\ \A x \in Clusters : x # d => w.data[x] = v.data[x]
<1>. DEFINE n == D[d]
            b == Padded(u, EntriesPerSector)
<1>1. n \in Nat /\ DOMAIN D \subseteq {0} \cup Clusters /\ d \in Clusters
  BY DEF Shape, IsTree
<1>2. /\ Len(u) = n + 1 /\ u[n + 1] = e
      /\ \A j \in 1..n : j <= EntriesPerSector => u[j] = Unit(v, d, j)
  BY DEF Longer, Room
<1>3. /\ b = [j \in 1..EntriesPerSector |-> b[j]]
      /\ \A j \in 1..EntriesPerSector : b[j] = IF j <= n + 1 THEN u[j] ELSE Blank
  BY <1>2, Constants DEF Padded
<1>4. w = [v EXCEPT !.data[d] = b]
  BY <1>1, <1>2 DEF FileWritten
<1>5. DiskOK(w)
  BY <1>1, <1>4, DiskParts
<1>. HIDE DEF b, n
<1>6. /\ v = [field \in DiskFields |-> v[field]]
      /\ v.data = [c \in Clusters |-> v.data[c]]
  BY DEF DiskOK, DataOK
<1>7. w = [v EXCEPT !.data = [v.data EXCEPT ![d] = b]]
  BY <1>4
<1>8. w.fat = v.fat /\ w.root = v.root /\ w.data = [v.data EXCEPT ![d] = b]
  BY <1>6, <1>7 DEF DiskFields
<1>9. w.data[d] = b /\ \A x \in Clusters : x # d => w.data[x] = v.data[x]
  BY <1>1, <1>6, <1>8
<1>10. ASSUME NEW x \in DOMAIN D, x # d, NEW k \in 1..Room(x) PROVE Unit(w, x, k) = Unit(v, x, k)
  BY <1>1, <1>8, <1>9, <1>10 DEF Unit
<1>11. ASSUME NEW k \in 1..Room(d)
       PROVE  Unit(w, d, k) = IF k <= D[d] THEN Unit(v, d, k)
                              ELSE IF k = D[d] + 1 /\ (d = 0 => Stored(k)) THEN e ELSE Blank
  <2>1. k \in 1..EntriesPerSector /\ Unit(w, d, k) = b[k] /\ k \in Nat /\ k >= 1
    BY <1>9, Constants DEF Room, Unit
  <2>2. CASE k <= n
    BY <1>1, <1>2, <1>3, <2>1, <2>2, Constants DEF n
  <2>3. CASE k = n + 1
    BY <1>1, <1>2, <1>3, <2>1, <2>3 DEF n
  <2>4. CASE k > n + 1
    BY <1>1, <1>3, <2>1, <2>4 DEF n
  <2>. QED
    BY <1>1, <2>1, <2>2, <2>3, <2>4
<1>12. Entered(v, w, D, d, e)
  BY <1>10, <1>11 DEF Entered
<1>. QED
  BY <1>5, <1>8, <1>9, <1>12

\* t is where the kernel stands after e was entered in d.
Enlarged(x, dir, t, D, d, e) ==
  LET v == dir.s.view
      w == t.s.view
  IN /\ Ready(x, t.s) /\ t.s.written = dir.s.written /\ t.s.calls = dir.s.calls
     /\ w.fat = v.fat /\ Entered(v, w, D, d, e)
     /\ \A c \in Clusters : c \notin DOMAIN D => w.data[c] = v.data[c]
     /\ t.i = dir.i /\ t.s.root_entries = Grown(D, d, e.cluster, e.attributes)[0]
     /\ d # 0 => t.buf = WithEntry(dir.buf, dir.i, [dir.buf[dir.i] EXCEPT !.size = D[d] + 1])

\* Nothing new is listed when the cluster of a new entry is marked.
LEMMA EnteredNew ==
  ASSUME NEW v, NEW w, DiskOK(w), w.fat = v.fat, NEW D, NEW R, Shape(v, D, R, {}),
         Marked(v, D, {}), NEW d \in DOMAIN D, NEW e, Good(e), e.size = 0,
         Fresh(v, D, e.cluster), Taken(v.fat, e.cluster), Entered(v, w, D, d, e)
  PROVE  NewMarked(v, w)
<1>. DEFINE F == Grown(D, d, e.cluster, e.attributes)
            S == [R EXCEPT ![e.cluster] = R[d] + 1]
<1>1. Shape(w, F, S, {d}) /\ Marked(w, F, {}) /\ Covers(w, F)
  BY EnteredTree, Zenon
<1>2. IsTree(F, S)
  BY <1>1 DEF Shape
<1>. HIDE DEF F, S
<1>. QED
  BY <1>1, <1>2, MarkedNew

\* cat_file, in a directory that has an entry.
LEMMA CatFileBelow ==
  ASSUME NEW x, NEW dir, Ready(x, dir.s), IsPlace(dir), NEW D, NEW R,
         D[0] = dir.s.root_entries, Shape(dir.s.view, D, R, {}), Marked(dir.s.view, D, {}),
         NEW d, Stands(dir, D, d), d # 0, NEW e, Good(e), e.size = 0,
         Fresh(dir.s.view, D, e.cluster), Taken(dir.s.view.fat, e.cluster),
         NEW read, Ready(x, read.s), Same(dir.s, read.s),
         Buffer(dir.s.view, D, d, read.units), D[d] = Size(read.s, dir)
  PROVE  LET t == CatFile(dir, read, e) IN Lost(x, t.s) \/ Enlarged(x, dir, t, D, d, e)
<1>. DEFINE v == dir.s.view
            n == D[d]
            u == Append(SubSeq(read.units, 1, n), e)
            f == dir.buf[dir.i]
            w == FileWritten(v, d, u)
            done == WriteFileData(read.s, f, u)
            t == CatFile(dir, read, e)
            F == Grown(D, d, e.cluster, e.attributes)
<1>1. /\ d \in DOMAIN D /\ n \in Nat /\ d \in Clusters /\ dir.i # 0 /\ f.cluster = d
      /\ DOMAIN D \subseteq {0} \cup Clusters /\ 0 \in DOMAIN D
  BY DEF Shape, IsTree, Stands
<1>2. DiskOK(v) /\ read.s.view = v /\ read.s.written = dir.s.written
      /\ read.s.root_entries = dir.s.root_entries /\ read.s.calls = dir.s.calls
  BY ReadyParts DEF Same
<1>3. Longer(v, D, d, e, u)
  BY <1>1, LongerIs
<1>. HIDE DEF u
<1>4. IsSeq(u) /\ Len(u) = n + 1
  BY <1>3 DEF Longer
<1>5. w = FileWritten(read.s.view, f.cluster, u) /\ w = FileWritten(v, d, u)
  BY <1>1, <1>2
<1>. HIDE DEF w
<1>6. /\ Entered(v, w, D, d, e) /\ DiskOK(w)
      /\ w.fat = v.fat /\ \A c \in Clusters : c # d => w.data[c] = v.data[c]
  BY <1>1, <1>2, <1>3, <1>5, EnteredData
<1>7. NewMarked(v, w)
  BY <1>1, <1>6, EnteredNew
<1>8. \/ Lost(x, done.s)
      \/ /\ Ready(x, done.s) /\ done.s.view = w /\ done.s.written = dir.s.written
         /\ done.s.root_entries = dir.s.root_entries /\ done.s.calls = dir.s.calls
  <2>. HIDE DEF f
  <2>1. f.cluster \in Clusters /\ NewMarked(read.s.view, w)
    BY <1>1, <1>2, <1>7
  <2>2. \/ Lost(x, done.s)
        \/ /\ Ready(x, done.s) /\ done.s.view = w /\ done.s.written = read.s.written
           /\ done.s.root_entries = read.s.root_entries /\ done.s.calls = read.s.calls
    <3>1. w = FileWritten(read.s.view, f.cluster, u) /\ IsSeq(u)
      BY <1>4, <1>5
    <3>. HIDE DEF v, n
    <3>. QED
      BY <2>1, <3>1, WriteFileDataReady
  <2>. QED
    BY <1>2, <2>2
<1>9. done.entry = [f EXCEPT !.size = n + 1]
  BY <1>4 DEF WriteFileData
<1>10. t = Rewritten(dir, done)
  BY <1>1 DEF CatFile, u
<1>. HIDE DEF done, f
<1>11. t.s = done.s /\ t.i = dir.i /\ t.buf = WithEntry(dir.buf, dir.i, done.entry)
  BY <1>10 DEF Rewritten, IsPlace, PlaceFields
<1>. HIDE DEF t
<1>12. F[0] = dir.s.root_entries
  BY <1>1 DEF Grown
<1>. HIDE DEF F
<1>13. t.buf = WithEntry(dir.buf, dir.i, [dir.buf[dir.i] EXCEPT !.size = D[d] + 1])
  BY <1>9, <1>11 DEF f
<1>14. Lost(x, t.s) \/ Enlarged(x, dir, t, D, d, e)
  BY <1>1, <1>6, <1>8, <1>11, <1>12, <1>13 DEF Enlarged, F
<1>. QED
  BY <1>14 DEF t

\* cat_file, in the root directory, which may have no sector left for the entry.
LEMMA CatFileRoot ==
  ASSUME NEW x, NEW dir, Ready(x, dir.s), IsPlace(dir), NEW D, NEW R,
         D[0] = dir.s.root_entries, Shape(dir.s.view, D, R, {}), Marked(dir.s.view, D, {}),
         dir.i = 0, NEW e, Good(e), e.size = 0,
         Fresh(dir.s.view, D, e.cluster), Taken(dir.s.view.fat, e.cluster),
         NEW read, Ready(x, read.s), Same(dir.s, read.s),
         Buffer(dir.s.view, D, 0, read.units), D[0] = Size(read.s, dir)
  PROVE  LET t == CatFile(dir, read, e)
         IN (Lost(x, t.s) /\ t.i = 0) \/ Enlarged(x, dir, t, D, 0, e)
<1>. DEFINE v == dir.s.view
            n == D[0]
            u == Append(SubSeq(read.units, 1, n), e)
            s == [read.s EXCEPT !.root_entries = @ + 1]
            w == RootWritten(v, u, n + 1)
            t == CatFile(dir, read, e)
            F == Grown(D, 0, e.cluster, e.attributes)
<1>1. /\ n \in Nat /\ 0 \in DOMAIN D /\ DOMAIN D \subseteq {0} \cup Clusters
      /\ \A c \in Clusters : c # 0
  BY Constants DEF Shape, IsTree
<1>2. DiskOK(v) /\ read.s.view = v /\ read.s.written = dir.s.written
      /\ read.s.root_entries = n /\ read.s.calls = dir.s.calls
  BY ReadyParts DEF Same
<1>3. Longer(v, D, 0, e, u)
  BY <1>1, LongerIs
<1>4. t.s = RootWrite(s, u) /\ t.i = 0
  BY DEF CatFile, IsPlace, PlaceFields
<1>. HIDE DEF u, t
<1>5. w = RootWritten(v, u, D[0] + 1)
  OBVIOUS
<1>6. /\ MemoryOK(read.s) /\ Coherent(read.s) /\ Traced(x, read.s)
      /\ read.s.status = "running" /\ read.s.view.fat[0] = FAT_SIGNATURE
      /\ read.s = [field \in Fields |-> read.s[field]]
  BY ReadyParts
<1>7. /\ s = [field \in Fields |-> s[field]] /\ s.root_entries = n + 1
      /\ s.status = "running" /\ s.view = v /\ s.written = dir.s.written
      /\ s.calls = dir.s.calls /\ s.writes = read.s.writes
      /\ s.fat = read.s.fat /\ s.was_fat_read = read.s.was_fat_read
      /\ s.root = read.s.root /\ s.was_root_read = read.s.was_root_read
  BY <1>2, <1>6 DEF Fields
<1>. HIDE DEF s, w
<1>8. MemoryOK(s)
  BY <1>1, <1>2, <1>6, <1>7 DEF MemoryOK
<1>9. Traced(x, s)
  BY <1>2, <1>6, <1>7 DEF Traced, IsMemory
<1>10. CASE ~ (Sectored(n + 1) <= RootEntries)
  <2>1. Traced(x, t.s) /\ t.s.status # "running"
    BY <1>1, <1>4, <1>7, <1>9, <1>10, RootWriteFull
  <2>. QED
    BY <1>4, <2>1 DEF t, Lost, Traced
<1>11. CASE Sectored(n + 1) <= RootEntries
  <2>1. /\ Entered(v, w, D, 0, e) /\ DiskOK(w) /\ RootOK(w.root)
        /\ w.fat = v.fat /\ w.data = v.data
    BY <1>2, <1>3, <1>5, EnteredRoot
  <2>2. NewMarked(v, w)
    BY <1>1, <2>1, EnteredNew
  <2>3. w = RootWritten(s.view, u, s.root_entries)
    BY <1>5, <1>7
  <2>4. s.was_fat_read => s.fat = s.view.fat
    BY <1>2, <1>6, <1>7 DEF Coherent
  <2>5. /\ Ready(x, t.s) /\ t.s.view = w /\ t.s.written = s.written
        /\ t.s.root_entries = s.root_entries /\ t.s.calls = s.calls
    BY <1>2, <1>4, <1>6, <1>7, <1>8, <1>9, <1>11, <2>1, <2>2, <2>3, <2>4, RootWriteReady
  <2>6. F[0] = n + 1
    BY <1>1 DEF Grown
  <2>. HIDE DEF F
  <2>7. Enlarged(x, dir, t, D, 0, e)
    BY <1>4, <1>7, <2>1, <2>5, <2>6 DEF Enlarged, F
  <2>. QED
    BY <2>7 DEF t
<1>. QED
  BY <1>10, <1>11

\* A new entry, written in the directory where the kernel stands.
LEMMA EnterFileReady ==
  ASSUME NEW x, NEW dir, Ready(x, dir.s), IsPlace(dir), NEW D, NEW R,
         D[0] = dir.s.root_entries, Shape(dir.s.view, D, R, {}), Marked(dir.s.view, D, {}),
         NEW d, Stands(dir, D, d), NEW e, Good(e), e.size = 0,
         Fresh(dir.s.view, D, e.cluster), Taken(dir.s.view.fat, e.cluster)
  PROVE  LET t == EnterFile(dir, e)
         IN (Lost(x, t.s) /\ (d = 0 => t.i = 0)) \/ Enlarged(x, dir, t, D, d, e)
<1>. DEFINE read == KreadFile(dir.s, dir)
            t == EnterFile(dir, e)
<1>1. Counted(dir.s, D, R)
  BY DEF Counted, Shape
<1>2. /\ Ready(x, read.s) /\ Same(dir.s, read.s) /\ Buffer(dir.s.view, D, d, read.units)
      /\ D[d] = Size(read.s, dir)
  BY <1>1, KreadFileReady
<1>3. t = CatFile(dir, read, e)
  BY ReadyParts DEF EnterFile
<1>. HIDE DEF read, t
<1>4. CASE d = 0
  <2>1. dir.i = 0
    BY <1>4 DEF Stands
  <2>2. (Lost(x, t.s) /\ t.i = 0) \/ Enlarged(x, dir, t, D, 0, e)
    BY <1>2, <1>3, <1>4, <2>1, CatFileRoot
  <2>. QED
    BY <1>4, <2>2 DEF t
<1>5. CASE d # 0
  <2>1. Lost(x, t.s) \/ Enlarged(x, dir, t, D, d, e)
    BY <1>2, <1>3, <1>5, CatFileBelow
  <2>. QED
    BY <1>5, <2>1 DEF t
<1>. QED
  BY <1>4, <1>5

\* With no names of directories the kernel stays in the root directory.
LEMMA NavigateEmpty ==
  ASSUME NEW s, NEW path, DirectoryNames(path) = <<>>
  PROVE  NavigateDir(s, path) = RootPlace(s)
<1>. DEFINE at == CHOOSE f : SolvesAt(f, s, <<>>)
<1>1. DirectoryNames(path) = <<>> /\ Len(<<>>) = 0
  OBVIOUS
<1>2. SolvesAt(at, s, <<>>)
  BY <1>1, AtExists, Zenon
<1>3. NavigateDir(s, path) = IF s.root_entries = 0 THEN RootPlace(s) ELSE at[0]
  <2>1. NavigateDir(s, path) =
          IF s.root_entries = 0 THEN RootPlace(s)
          ELSE (CHOOSE f : SolvesAt(f, s, DirectoryNames(path)))[Len(DirectoryNames(path))]
    BY Zenon DEF NavigateDir, SolvesAt, RootPlace
  <2>. QED
    BY <1>1, <2>1
<1>. HIDE DEF at
<1>4. at[0] = RootPlace(s)
  BY <1>1, <1>2 DEF SolvesAt
<1>. QED
  BY <1>3, <1>4

\* The path leads to directory d through the directories of g; the last step is the
\* entry e, the k-th of p.
Leads(v, D, path, g, p, k, e, d) ==
  LET n == Len(path)
  IN /\ path \in Seq(Directories) /\ n >= 1 /\ Trail(v, D, path, n, g)
     /\ g[n] = d /\ g[n - 1] = p /\ First(v, D, p, path[n], k) /\ Unit(v, p, k) = e
     /\ \A m \in 0..(n - 1) : g[m] \in ({0} \cup Clusters) \ {d}
     /\ d \in Clusters

\* The parent, and its entry, on the other disk.
LEMMA LeadsKept ==
  ASSUME NEW v, NEW D, NEW path, NEW g, NEW p, NEW k, NEW e, NEW d,
         Leads(v, D, path, g, p, k, e, d),
         NEW w, NEW F, NEW S, NEW X, Shape(w, F, S, X), SameWay(v, D, w, F, g, Len(path))
  PROVE  /\ SameDirectory(v, D, w, F, p)
         /\ Lies(w, F, p, k, e) /\ Good(e) /\ e.attributes = "directory"
         /\ F[0] # 0 /\ F[0] \in Nat
<1>. DEFINE n == Len(path)
<1>1. /\ n \in Nat /\ n >= 1 /\ n - 1 \in 0..(n - 1) /\ 0 \in 0..(n - 1) /\ 1 \in 1..n
      /\ n \in 1..n
  BY DEF Leads
<1>2. SameDirectory(v, D, w, F, p) /\ SameDirectory(v, D, w, F, g[0])
  BY <1>1 DEF SameWay, Leads
<1>3. First(v, D, p, path[n], k) /\ Unit(v, p, k) = e /\ k \in 1..Room(p) /\ p \in DOMAIN D
  BY DEF Leads, First, At
<1>4. Unit(w, p, k) = e
  BY <1>2, <1>3 DEF SameDirectory
<1>5. Room(p) \in Nat
  BY Constants DEF Room
<1>6. First(w, F, p, path[n], k)
  BY <1>2, <1>3, <1>5 DEF First, At, SameDirectory
<1>7. path[n] # NoName /\ ~HasExtension(path[n])
  <2>1. path \in Seq(Directories)
    BY DEF Leads
  <2>. QED
    BY <1>1, <2>1, NamesAssumption
<1>8. Typed(w, F) /\ F[0] \in Nat
  BY DEF Shape, IsTree
<1>9. Lies(w, F, p, k, e) /\ Good(e) /\ e.attributes = "directory"
  BY <1>4, <1>6, <1>7, <1>8, FirstLies
<1>10. F[0] # 0
  <2>1. PICK l : First(v, D, g[1 - 1], path[1], l)
    BY <1>1 DEF Leads, Trail
  <2>2. g[0] = 0 /\ l \in 1..Room(0) /\ l <= D[0] /\ 0 \in DOMAIN D
    BY <2>1 DEF Leads, Trail, First, At
  <2>3. D[0] = F[0]
    BY <1>2, <2>2 DEF SameDirectory
  <2>. QED
    BY <1>8, <2>2, <2>3, Constants DEF Room
<1>. QED
  BY <1>2, <1>8, <1>9, <1>10

\* The buffer of a directory is the same for the other disk.
LEMMA BufferKept ==
  ASSUME NEW v, NEW D, NEW w, NEW F, NEW p, p \in DOMAIN D, SameDirectory(v, D, w, F, p),
         NEW buf, Buffer(v, D, p, buf)
  PROVE  Buffer(w, F, p, buf)
<1>1. D[p] = F[p] /\ \A k \in 1..Room(p) : Unit(v, p, k) = Unit(w, p, k)
  BY DEF SameDirectory
<1>2. IsSeq(buf) /\ D[p] <= Len(buf) /\ (p = 0 => Len(buf) = D[0]) /\ Room(p) \in Nat
  BY Constants DEF Buffer, Room
<1>3. Len(buf) \in Nat
  BY <1>2, SeqIsFunction
<1>4. ASSUME NEW k \in 1..Len(buf)
      PROVE  buf[k] = IF k <= Room(p) THEN Unit(w, p, k) ELSE Junk
  <2>1. buf[k] = IF k <= Room(p) THEN Unit(v, p, k) ELSE Junk
    BY DEF Buffer
  <2>. QED
    BY <1>1, <1>2, <1>3, <2>1
<1>. QED
  BY <1>1, <1>2, <1>4 DEF Buffer

\* The way to the parent, on the other disk.
LEMMA ParentTrail ==
  ASSUME NEW v, NEW D, NEW path, NEW g, NEW p, NEW k, NEW e, NEW d,
         Leads(v, D, path, g, p, k, e, d),
         NEW w, NEW F, SameWay(v, D, w, F, g, Len(path)),
         NEW q, q \in Seq(Directories), Len(q) = Len(path) - 1,
         \A m \in 1..Len(q) : q[m] = path[m]
  PROVE  \A m \in 0..Len(q) : \A h :
           Trail(w, F, q, m, h) => h[m] \in ({0} \cup Clusters) \ {d} /\ h[m] = g[m]
<1>. DEFINE n == Len(q)
<1>1. n \in Nat /\ Len(path) \in Nat /\ Len(path) - 1 = n
  BY DEF Leads
<1>2. SUFFICES ASSUME NEW m \in 0..n, NEW h, Trail(w, F, q, m, h)
               PROVE  h[m] \in ({0} \cup Clusters) \ {d} /\ h[m] = g[m]
  OBVIOUS
<1>3. Trail(v, D, path, Len(path), g) /\ g[m] \in ({0} \cup Clusters) \ {d}
  BY <1>1 DEF Leads
<1>4. Trail(v, D, q, m, g)
  <2>1. g[0] = 0
    BY <1>3 DEF Trail
  <2>2. ASSUME NEW j \in 1..m
        PROVE  \E l : First(v, D, g[j - 1], q[j], l) /\ Unit(v, g[j - 1], l).cluster = g[j]
    <3>1. j \in 1..Len(path) /\ j \in 1..Len(q)
      BY <1>1
    <3>2. \E l : First(v, D, g[j - 1], path[j], l) /\ Unit(v, g[j - 1], l).cluster = g[j]
      BY <1>3, <3>1 DEF Trail
    <3>. QED
      BY <3>1, <3>2
  <2>. QED
    BY <2>1, <2>2 DEF Trail
<1>5. SameWay(v, D, w, F, g, m)
  BY <1>1 DEF SameWay
<1>6. m \in Nat
  BY <1>1
<1>7. g[m] = h[m]
  <2>1. Trail(w, F, q, m, h)
    BY <1>2
  <2>. HIDE DEF n
  <2>. QED
    BY <1>4, <1>5, <1>6, <2>1, TrailEnd
<1>. QED
  BY <1>3, <1>7

\* A kernel that has stopped writes no directory.
LEMMA EditFileStopped ==
  ASSUME NEW x, NEW dir, Traced(x, dir.s), IsMemory(dir.s), dir.s.status # "running",
         dir.i = 0, NEW u
  PROVE  LET t == EditFile(dir.s, dir, u) IN Traced(x, t) /\ t.status # "running"
<1>. DEFINE s == dir.s
            t == EditFile(s, dir, u)
            b == SubSeq(u, 1, s.root_entries)
<1>1. t = RootWrite(s, b)
  BY DEF EditFile
<1>. HIDE DEF b, t
<1>2. AtaWrite(s, RootSector, Padded(b, InSectors(s))) = s
  BY AtaWriteStopped
<1>3. t = s \/ t = [s EXCEPT !.was_root_read = FALSE]
  BY <1>1, <1>2 DEF RootWrite, Stop
<1>4. t.writes = s.writes /\ t.view = s.view /\ t.status = s.status /\ IsMemory(t)
  BY <1>3 DEF IsMemory, Fields
<1>5. Traced(x, t)
  BY <1>4 DEF Traced
<1>. QED
  BY <1>4, <1>5 DEF t

\* A kernel that has stopped follows no path.
LEMMA NavigateLost ==
  ASSUME NEW x, NEW s, Lost(x, s), NEW path, Len(DirectoryNames(path)) \in Nat
  PROVE  LET dir == NavigateDir(s, path) IN Lost(x, dir.s) /\ dir.i = 0
<1>. DEFINE names == DirectoryNames(path)
            at == CHOOSE f : SolvesAt(f, s, names)
            dir == NavigateDir(s, path)
            root == RootPlace(s)
            t == RootRead(s)
<1>1. dir = IF s.root_entries = 0 THEN root ELSE at[Len(names)]
  <2>1. dir = IF s.root_entries = 0 THEN RootPlace(s)
              ELSE (CHOOSE f : SolvesAt(f, s, DirectoryNames(path)))[Len(DirectoryNames(path))]
    BY Zenon DEF NavigateDir, SolvesAt, RootPlace
  <2>. QED
    BY <2>1
<1>2. SolvesAt(at, s, names)
  BY AtExists, Zenon
<1>3. root.s = t /\ root.i = 0
  BY DEF RootPlace
<1>4. Lost(x, t)
  <2>1. IsMemory(s) /\ Traced(x, s) /\ s.status # "running"
    BY DEF Lost
  <2>2. t = s \/ t = [s EXCEPT !.was_root_read = TRUE,
                        !.root = Overwrite(@, SubSeq(s.view.root, 1, InSectors(s)))]
    BY DEF RootRead
  <2>. HIDE DEF t
  <2>3. IsMemory(t) /\ t.writes = s.writes /\ t.view = s.view /\ t.status = s.status
    BY <2>1, <2>2 DEF IsMemory, Fields
  <2>. QED
    BY <2>1, <2>3 DEF Lost, Traced
<1>5. root.s.status # "running"
  BY <1>3, <1>4 DEF Lost
<1>6. \A n \in 0..Len(names) : at[n] = IF n = 0 THEN root ELSE FindFile(at[n - 1], names[n])
  BY <1>2 DEF SolvesAt
<1>. HIDE DEF at, dir, root, t
<1>. DEFINE N == {n \in Nat : n <= Len(names) => at[n] = root}
<1>7. 0 \in N
  BY <1>6
<1>8. ASSUME NEW n \in Nat, n \in N PROVE n + 1 \in N
  <2>. SUFFICES ASSUME n + 1 <= Len(names) PROVE at[n + 1] = root
    OBVIOUS
  <2>1. at[n] = root
    BY <1>8
  <2>2. n + 1 \in 0..Len(names) /\ n + 1 # 0 /\ (n + 1) - 1 = n
    OBVIOUS
  <2>3. at[n + 1] = FindFile(at[n], names[n + 1])
    BY <1>6, <2>2
  <2>. QED
    BY <1>5, <2>1, <2>3 DEF FindFile
<1>. HIDE DEF N
<1>9. \A n \in Nat : n \in N
  BY <1>7, <1>8, SetInduction
<1>10. at[Len(names)] = root
  BY <1>9 DEF N
<1>. QED
  BY <1>1, <1>3, <1>4, <1>10 DEF dir

\* The path without its last name.
LEMMA ParentPathIs ==
  ASSUME NEW path \in Seq(Directories), Len(path) >= 1
  PROVE  LET q == ParentPath(path)
         IN /\ q \in Seq(Directories) /\ Len(q) = Len(path) - 1
            /\ \A m \in 1..Len(q) : q[m] = path[m]
<1>. DEFINE n == Len(path)
            q == ParentPath(path)
<1>0. n \in Nat /\ n - 1 \in Nat
  OBVIOUS
<1>1. q = SubSeq(path, 1, n - 1)
  BY DEF ParentPath, Front
<1>2. q = [m \in 1..(n - 1) |-> path[m]] /\ Len(q) = n - 1
  BY <1>0, <1>1, SeqPrefix
<1>3. q \in [1..(n - 1) -> Directories]
  <2>1. \A m \in 1..(n - 1) : path[m] \in Directories
    OBVIOUS
  <2>. QED
    BY <1>2, <2>1
<1>4. q \in Seq(Directories)
  BY <1>0, <1>3
<1>. QED
  BY <1>2, <1>4

\* A kernel that has stopped writes no parent.
LEMMA UpdateParentLost ==
  ASSUME NEW x, NEW dir, Lost(x, dir.s), NEW path \in Seq(Directories),
         dir.i = 0 \/ Len(path) >= 1
  PROVE  Lost(x, UpdateParent(dir, path))
<1>. DEFINE s == IF Len(path) = 1 THEN [dir.s EXCEPT !.root = Overwrite(@, dir.buf)] ELSE dir.s
            to == NavigateDir(s, ParentPath(path))
<1>1. CASE dir.i = 0
  BY <1>1 DEF UpdateParent
<1>2. CASE dir.i # 0
  <2>1. UpdateParent(dir, path) = EditFile(to.s, to, dir.buf)
    BY <1>2, Zenon DEF UpdateParent, EditParent
  <2>2. Lost(x, s)
    <3>1. IsMemory(dir.s) /\ Traced(x, dir.s) /\ dir.s.status # "running"
      BY DEF Lost
    <3>2. s = dir.s \/ s = [dir.s EXCEPT !.root = Overwrite(@, dir.buf)]
      OBVIOUS
    <3>. HIDE DEF s
    <3>3. /\ IsMemory(s) /\ s.writes = dir.s.writes /\ s.view = dir.s.view
          /\ s.status = dir.s.status
      BY <3>1, <3>2 DEF IsMemory, Fields
    <3>. QED
      BY <3>1, <3>3 DEF Lost, Traced
  <2>. HIDE DEF s
  <2>3. Len(DirectoryNames(ParentPath(path))) \in Nat
    <3>1. ParentPath(path) \in Seq(Directories)
      BY <1>2, ParentPathIs
    <3>2. DirectoryNames(ParentPath(path)) = ParentPath(path)
      BY <3>1, DirectoryNamesIs
    <3>. QED
      BY <3>1, <3>2
  <2>4. Lost(x, to.s) /\ to.i = 0
    BY <2>2, <2>3, NavigateLost
  <2>. HIDE DEF to
  <2>5. LET t == EditFile(to.s, to, dir.buf) IN Traced(x, t) /\ t.status # "running"
    BY <2>4, EditFileStopped DEF Lost
  <2>. QED
    BY <2>1, <2>5 DEF Lost, Traced
<1>. QED
  BY <1>1, <1>2

\* The entry of a directory that has changed its size.
Resized(e, n) == [e EXCEPT !.size = n]

\* It is as good.
LEMMA ResizedGood ==
  ASSUME NEW e, Good(e), NEW n \in Nat
  PROVE  LET g == Resized(e, n)
         IN /\ Good(g) /\ g.cluster = e.cluster /\ g.attributes = e.attributes
            /\ g.name = e.name /\ g.size = n
BY DEF Good, EntryType, Resized, HasExtension

\* What is changed from a state is changed from one with the same tree.
LEMMA RevisedSame ==
  ASSUME NEW x, NEW s, NEW r, Same(s, r), NEW t, NEW D, NEW R, NEW d, NEW k, NEW e, NEW g,
         Revised(x, r, t, D, R, d, k, e, g)
  PROVE  Revised(x, s, t, D, R, d, k, e, g)
<1>1. r.view = s.view /\ r.written = s.written /\ r.root_entries = s.root_entries
      /\ r.calls = s.calls
  BY DEF Same
<1>. QED
  BY <1>1 DEF Revised

\* The memory once u is copied to the buffer of the root directory.
Overwritten(s, u) == [s EXCEPT !.root = Overwrite(@, u)]

\* The kernel runs on, with the same table.
SameTable(s, t) ==
  t.status = s.status /\ t.fat = s.fat /\ t.was_fat_read = s.was_fat_read

\* The buffer of the root directory may be any that the entries fit in.
LEMMA OverwrittenMemory ==
  ASSUME NEW x, NEW s, Ready(x, s), NEW D, NEW R, NEW X, Shape(s.view, D, R, X),
         D[0] = s.root_entries, NEW k, NEW e, Lies(s.view, D, 0, k, e), NEW g, Good(g),
         NEW u, Changed(s.view, D, 0, k, g, u), Len(u) = D[0]
  PROVE  LET t == Overwritten(s, u)
         IN MemoryOK(t) /\ Traced(x, t) /\ Same(s, t) /\ SameTable(s, t)
<1>. DEFINE r == Overwrite(s.root, u)
            t == Overwritten(s, u)
            n == D[0]
<1>1. /\ MemoryOK(s) /\ Traced(x, s) /\ s.status = "running" /\ RootOK(s.root)
      /\ RootOK(s.view.root) /\ s = [field \in Fields |-> s[field]] /\ n \in Nat
  BY ReadyParts
<1>2. DOMAIN s.root = 1..RootEntries
  BY <1>1 DEF RootOK
<1>3. r = [j \in 1..RootEntries |-> IF j <= n THEN u[j] ELSE s.root[j]]
  BY <1>2, Zenon DEF Overwrite
<1>4. k \in 1..RootEntries /\ Stored(k)
  <2>1. k \in 1..RootEntries /\ s.view.root[k] # Blank
    BY DEF Lies, At, Room, Unit
  <2>. QED
    BY <1>1, <2>1 DEF RootOK
<1>5. \A j \in 1..n : j <= RootEntries => u[j] = IF j = k THEN g ELSE s.view.root[j]
  BY DEF Changed, Room, Unit
<1>. HIDE DEF r, n
<1>6. r = [j \in 1..RootEntries |-> r[j]]
  BY <1>3
<1>7. ASSUME NEW j \in 1..RootEntries
      PROVE  MaybeEntry(r[j]) /\ (~Stored(j) => r[j] = Blank)
  <2>1. /\ MaybeEntry(s.root[j]) /\ (~Stored(j) => s.root[j] = Blank)
        /\ MaybeEntry(s.view.root[j]) /\ (~Stored(j) => s.view.root[j] = Blank)
    BY <1>1 DEF RootOK
  <2>2. r[j] = IF j <= n THEN u[j] ELSE s.root[j]
    BY <1>3
  <2>3. CASE j <= n
    <3>1. j \in 1..n /\ j <= RootEntries
      <4>1. n \in Nat
        BY <1>1
      <4>. QED
        BY <2>3, <4>1, Constants
    <3>2. u[j] = IF j = k THEN g ELSE s.view.root[j]
      BY <1>5, <3>1
    <3>. QED
      BY <1>4, <2>1, <2>2, <2>3, <3>2 DEF MaybeEntry
  <2>4. CASE ~ (j <= n)
    BY <2>1, <2>2, <2>4
  <2>. QED
    BY <2>3, <2>4
<1>8. RootOK(r)
  BY <1>6, <1>7 DEF RootOK
<1>9. t = [s EXCEPT !.root = r]
  BY DEF Overwritten, r
<1>. HIDE DEF t
<1>10. /\ t = [field \in Fields |-> t[field]]
       /\ t.status = s.status /\ t.view = s.view
       /\ t.fat = s.fat /\ t.was_fat_read = s.was_fat_read
       /\ t.root = r /\ t.was_root_read = s.was_root_read
       /\ t.root_entries = s.root_entries /\ t.written = s.written /\ t.calls = s.calls
       /\ t.writes = s.writes
  BY <1>1, <1>9 DEF Fields
<1>11. MemoryOK(t)
  BY <1>1, <1>8, <1>10 DEF MemoryOK
<1>12. Traced(x, t)
  BY <1>1, <1>10 DEF Traced, IsMemory
<1>. QED
  BY <1>1, <1>10, <1>11, <1>12 DEF Same, SameTable, t

\* The parent of a first-level directory is written from the buffer of the root
\* directory, which the entries have just been copied to.
LEMMA UpdateRootReady ==
  ASSUME NEW x, NEW s, Ready(x, s), NEW D, NEW R, NEW X, Shape(s.view, D, R, X),
         Marked(s.view, D, {}), D[0] = s.root_entries,
         NEW k, NEW e, Lies(s.view, D, 0, k, e), X \subseteq {e.cluster},
         NEW g, Good(g), g.cluster = e.cluster, g.attributes = e.attributes,
         e.attributes = "directory" => g.size = D[e.cluster],
         NEW u, Changed(s.view, D, 0, k, g, u), Len(u) = D[0]
  PROVE  LET root == RootPlace(Overwritten(s, u))
         IN Revised(x, s, EditFile(root.s, root, u), D, R, 0, k, e, g)
<1>. DEFINE o == Overwritten(s, u)
            root == RootPlace(o)
            r == RootRead(o)
<1>1. /\ s.view.fat[0] = FAT_SIGNATURE /\ Sectored(s.root_entries) <= RootEntries
      /\ s.status = "running" /\ (s.was_fat_read => s.fat = s.view.fat)
  BY ReadyParts DEF Coherent
<1>2. MemoryOK(o) /\ Traced(x, o) /\ Same(s, o) /\ SameTable(s, o)
  BY OverwrittenMemory
<1>. HIDE DEF o
<1>3. Sectored(o.root_entries) <= RootEntries
  BY <1>1, <1>2 DEF Same
<1>4. /\ MemoryOK(r) /\ Traced(x, r) /\ Same(o, r) /\ r.status = o.status
      /\ r.fat = o.fat /\ r.was_fat_read = o.was_fat_read
  BY <1>2, <1>3, RootReadMemory
<1>5. EditFile(root.s, root, u) = RootWrite(r, SubSeq(u, 1, r.root_entries))
  BY DEF RootPlace, EditFile
<1>. HIDE DEF r, root
<1>6. Same(s, r)
  BY <1>2, <1>4 DEF Same
<1>7. r.view = s.view /\ r.root_entries = s.root_entries /\ r.status = "running"
      /\ r.fat = s.fat /\ r.was_fat_read = s.was_fat_read
  BY <1>1, <1>2, <1>4, <1>6 DEF Same, SameTable
<1>8. Revised(x, r, RootWrite(r, SubSeq(u, 1, r.root_entries)), D, R, 0, k, e, g)
  BY <1>1, <1>4, <1>7, EditRootReady
<1>9. Revised(x, s, EditFile(root.s, root, u), D, R, 0, k, e, g)
  BY <1>5, <1>6, <1>8, RevisedSame
<1>. QED
  BY <1>9 DEF root, o

\* The kernel stands at the k-th entry of p, in whose buffer the new size of d is.
Waits(dir, v, D, F, p, k, e, d) ==
  \E buf : /\ Buffer(v, D, p, buf) /\ dir.i = k /\ k # 0
           /\ dir.buf = WithEntry(buf, k, Resized(e, F[d]))

\* The buffer holds the entries of p as they are on the disk now, but for the one.
LEMMA WaitsChanged ==
  ASSUME NEW v, NEW D, NEW w, NEW F, NEW p \in DOMAIN D, SameDirectory(v, D, w, F, p),
         F[p] \in Nat, NEW k, NEW e, NEW d, NEW dir, Waits(dir, v, D, F, p, k, e, d)
  PROVE  /\ Changed(w, F, p, k, Resized(e, F[d]), dir.buf)
         /\ p = 0 => Len(dir.buf) = F[0]
<1>1. PICK buf : /\ Buffer(v, D, p, buf)
                 /\ dir.buf = WithEntry(buf, k, Resized(e, F[d]))
  BY DEF Waits
<1>2. Buffer(w, F, p, buf)
  BY <1>1, BufferKept
<1>3. Changed(w, F, p, k, Resized(e, F[d]), dir.buf)
  BY <1>1, <1>2, WithEntryIs
<1>4. p = 0 => Len(buf) = F[0]
  BY <1>2 DEF Buffer
<1>5. Len(dir.buf) = Len(buf)
  <2>1. IsSeq(buf)
    BY <1>1 DEF Buffer
  <2>2. Len(buf) \in Nat /\ DOMAIN buf = 1..Len(buf)
    BY <2>1, SeqIsFunction
  <2>. DEFINE u == dir.buf
  <2>3. u = [j \in 1..Len(buf) |-> IF j = k THEN Resized(e, F[d]) ELSE buf[j]]
    BY <1>1, <2>2, Zenon DEF WithEntry
  <2>. HIDE DEF u
  <2>4. u = [j \in 1..Len(buf) |-> u[j]]
    BY <2>3
  <2>5. Len(u) = Len(buf)
    BY <2>2, <2>4, FunctionIsSeq
  <2>. QED
    BY <2>5 DEF u
<1>. QED
  BY <1>3, <1>4, <1>5

\* The directory at the end of the path has changed its size, and is the only one whose
\* entry does not say so.
Owes(s, F, S, d) ==
  Shape(s.view, F, S, {d}) /\ Marked(s.view, F, {}) /\ F[0] = s.root_entries

\* What becomes of the entry of d.
Settles(x, s, t, F, S, p, k, e, d) ==
  IF t.status = "running" THEN Revised(x, s, t, F, S, p, k, e, Resized(e, F[d]))
  ELSE Traced(x, t)

\* The way to the parent is the one the path has.
LEMMA ParentWay ==
  ASSUME NEW v, NEW D, NEW path, NEW g, NEW p, NEW k, NEW e, NEW d,
         Leads(v, D, path, g, p, k, e, d), NEW w, NEW F, SameWay(v, D, w, F, g, Len(path))
  PROVE  LET q == ParentPath(path)
         IN \A m \in 0..Len(q) : \A h :
              Trail(w, F, q, m, h) => h[m] \in ({0} \cup Clusters) \ {d} /\ h[m] = g[m]
<1>. DEFINE q == ParentPath(path)
<1>1. path \in Seq(Directories) /\ Len(path) >= 1
  BY DEF Leads
<1>2. /\ q \in Seq(Directories) /\ Len(q) = Len(path) - 1
      /\ \A m \in 1..Len(q) : q[m] = path[m]
  BY <1>1, ParentPathIs
<1>. HIDE DEF q
<1>3. \A m \in 0..Len(q) : \A h :
        Trail(w, F, q, m, h) => h[m] \in ({0} \cup Clusters) \ {d} /\ h[m] = g[m]
  BY <1>2, ParentTrail
<1>. QED
  BY <1>3 DEF q

\* The kernel follows the path to the parent once more.
LEMMA ParentReady ==
  ASSUME NEW x, NEW s, Ready(x, s), NEW F, NEW S, NEW d, Owes(s, F, S, d),
         NEW v, NEW D, NEW path, NEW g, NEW p, NEW k, NEW e,
         Leads(v, D, path, g, p, k, e, d), SameWay(v, D, s.view, F, g, Len(path)),
         Len(path) # 1, NEW u, Changed(s.view, F, p, k, Resized(e, F[d]), u),
         e.cluster = d, Lies(s.view, F, p, k, e), Good(e), F[d] \in Nat, F[0] # 0
  PROVE  LET dir == NavigateDir(s, ParentPath(path))
         IN Settles(x, s, EditFile(dir.s, dir, u), F, S, p, k, e, d)
<1>. DEFINE n == Len(path)
            q == ParentPath(path)
            dir == NavigateDir(s, q)
            t == EditFile(dir.s, dir, u)
            w == s.view
            E == Resized(e, F[d])
<1>1. path \in Seq(Directories) /\ n \in Nat /\ n - 1 \in Nat /\ n >= 1
  BY DEF Leads
<1>2. /\ q \in Seq(Directories) /\ Len(q) = n - 1
      /\ \A m \in 1..Len(q) : q[m] = path[m]
  BY <1>1, ParentPathIs
<1>. HIDE DEF q, dir, w
<1>3. DirectoryNames(q) = q /\ Plain(q)
  BY <1>2, DirectoryNamesIs
<1>4. \A m \in 0..Len(q) : \A h :
        Trail(s.view, F, q, m, h) => h[m] \in ({0} \cup Clusters) \ {d} /\ h[m] = g[m]
  BY ParentWay DEF q
<1>5. Counted(s, F, S) /\ Typed(s.view, F) /\ Linked(s.view, F, S, {d})
  BY DEF Owes, Counted, Shape
<1>6. Clear(s.view, F, q, {d})
  BY <1>4 DEF Clear
<1>7. Arrives(x, s, F, q, Len(q), dir)
  <2>1. s.root_entries # 0
    BY DEF Owes
  <2>2. IF s.root_entries = 0
        THEN Same(s, dir.s) /\ Ready(x, dir.s) /\ IsPlace(dir) /\ Stands(dir, F, 0) /\ dir.i = 0
        ELSE Arrives(x, s, F, q, Len(q), dir)
    BY <1>3, <1>5, <1>6, NavigateDirReady DEF dir
  <2>. QED
    BY <2>1, <2>2
<1>8. CASE dir.s.status # "running"
  <2>1. Traced(x, dir.s) /\ IsMemory(dir.s) /\ dir.i = 0
    BY <1>7, <1>8 DEF Arrives
  <2>2. Traced(x, t) /\ t.status # "running"
    BY <1>8, <2>1, EditFileStopped
  <2>. QED
    BY <2>2 DEF Settles, dir, q
<1>9. CASE dir.s.status = "running"
  <2>1. Ready(x, dir.s) /\ Same(s, dir.s)
    BY <1>7, <1>9 DEF Arrives
  <2>2. PICK h : Trail(s.view, F, q, Len(q), h) /\ Stands(dir, F, h[Len(q)])
    BY <1>7, <1>9 DEF Arrives
  <2>3. h[Len(q)] = p
    <3>1. Len(q) \in 0..Len(q) /\ g[Len(q)] = p
      BY <1>1, <1>2 DEF Leads
    <3>. QED
      BY <1>4, <2>2, <3>1
  <2>4. Stands(dir, F, p)
    BY <2>2, <2>3
  <2>5. dir.s.view = s.view /\ dir.s.root_entries = s.root_entries
    BY <2>1 DEF Same
  <2>6. /\ Shape(dir.s.view, F, S, {d}) /\ Marked(dir.s.view, F, {})
        /\ Counted(dir.s, F, S)
    BY <2>5 DEF Owes, Counted, Shape
  <2>7. Good(E) /\ E.cluster = e.cluster /\ E.attributes = e.attributes /\ E.size = F[d]
    BY ResizedGood
  <2>. HIDE DEF E
  <2>8. Lost(x, t) \/ Revised(x, dir.s, t, F, S, p, k, e, E)
    <3>1. Lies(dir.s.view, F, p, k, e) /\ {d} \subseteq {e.cluster}
      BY <2>5
    <3>2. Changed(dir.s.view, F, p, k, E, u)
      BY <2>5 DEF E
    <3>3. Replaces(e, E, F)
      BY <2>7 DEF Replaces
    <3>. QED
      BY <2>1, <2>4, <2>6, <3>1, <3>2, <3>3, EditFileReady
  <2>. HIDE DEF t
  <2>9. Lost(x, t) \/ Revised(x, s, t, F, S, p, k, e, E)
    BY <2>1, <2>8, RevisedSame
  <2>10. Revised(x, s, t, F, S, p, k, e, E) => t.status = "running"
    BY ReadyParts DEF Revised
  <2>. QED
    BY <2>9, <2>10 DEF Settles, Lost, E, t, dir, q
<1>. QED
  BY <1>8, <1>9

IsDirectory(e) == Good(e) /\ e.attributes = "directory"

\* update_parent
LEMMA UpdateParentReady ==
  ASSUME NEW x, NEW dir, Ready(x, dir.s), NEW F, NEW S, NEW d, Owes(dir.s, F, S, d),
         NEW v, NEW D, NEW path, NEW g, NEW p, NEW k, NEW e,
         Leads(v, D, path, g, p, k, e, d), SameWay(v, D, dir.s.view, F, g, Len(path)),
         Waits(dir, v, D, F, p, k, e, d), e.cluster = d
  PROVE  /\ Settles(x, dir.s, UpdateParent(dir, path), F, S, p, k, e, d)
         /\ IsDirectory(e)
<1>. DEFINE s == dir.s
            t == UpdateParent(dir, path)
            E == Resized(e, F[d])
<1>1. /\ Shape(s.view, F, S, {d}) /\ Marked(s.view, F, {}) /\ F[0] = s.root_entries
      /\ dir.i # 0
  BY DEF Owes, Waits
<1>2. /\ SameDirectory(v, D, s.view, F, p)
      /\ Lies(s.view, F, p, k, e) /\ Good(e) /\ e.attributes = "directory"
      /\ F[0] # 0 /\ F[0] \in Nat
  BY <1>1, LeadsKept
<1>3. p \in DOMAIN F /\ p \in DOMAIN D /\ d \in DOMAIN F /\ F[p] \in Nat /\ F[d] \in Nat
  <2>1. Enterable(e)
    BY <1>2 DEF Leads, Enterable
  <2>. QED
    BY <1>1, <1>2, <2>1 DEF Shape, IsTree, Linked, Lies, At, SameDirectory
<1>4. Changed(s.view, F, p, k, E, dir.buf) /\ (p = 0 => Len(dir.buf) = F[0])
  BY <1>2, <1>3, WaitsChanged
<1>5. CASE Len(path) = 1
  <2>. DEFINE root == RootPlace(Overwritten(s, dir.buf))
  <2>1. ParentPath(path) = <<>>
    <3>1. ParentPath(path) = SubSeq(path, 1, 0)
      BY <1>5 DEF ParentPath, Front
    <3>2. SubSeq(path, 1, 0) = [m \in 1..0 |-> path[m]]
      BY SeqPrefix
    <3>. QED
      BY <3>1, <3>2
  <2>2. t = EditFile(root.s, root, dir.buf)
    <3>1. t = EditParent(NavigateDir(Overwritten(s, dir.buf), <<>>), dir.buf)
      BY <1>1, <1>5, <2>1 DEF UpdateParent, Overwritten
    <3>2. NavigateDir(Overwritten(s, dir.buf), <<>>) = root
      <4>1. <<>> \in Seq(Directories)
        OBVIOUS
      <4>2. DirectoryNames(<<>>) = <<>>
        BY <4>1, DirectoryNamesIs
      <4>. QED
        BY <4>2, NavigateEmpty
    <3>. QED
      BY <3>1, <3>2 DEF EditParent
  <2>3. p = 0
    BY <1>5 DEF Leads, Trail
  <2>4. Good(E) /\ E.cluster = e.cluster /\ E.attributes = e.attributes /\ E.size = F[d]
    BY <1>2, <1>3, ResizedGood
  <2>. HIDE DEF E, t, root
  <2>5. Revised(x, s, EditFile(root.s, root, dir.buf), F, S, 0, k, e, E)
    <3>1. Lies(s.view, F, 0, k, e) /\ {d} \subseteq {e.cluster}
      BY <1>2, <2>3
    <3>2. Changed(s.view, F, 0, k, E, dir.buf) /\ Len(dir.buf) = F[0]
      BY <1>4, <2>3
    <3>3. e.attributes = "directory" => E.size = F[e.cluster]
      BY <2>4
    <3>. QED
      BY <1>1, <2>4, <3>1, <3>2, <3>3, UpdateRootReady DEF root
  <2>6. t.status = "running"
    BY <2>2, <2>5, ReadyParts DEF Revised
  <2>. QED
    BY <1>2, <2>2, <2>3, <2>5, <2>6 DEF Settles, E, t, IsDirectory
<1>6. CASE Len(path) # 1
  <2>. DEFINE to == NavigateDir(s, ParentPath(path))
  <2>1. t = EditFile(to.s, to, dir.buf)
    BY <1>1, <1>6 DEF UpdateParent, EditParent
  <2>2. Settles(x, s, EditFile(to.s, to, dir.buf), F, S, p, k, e, d)
    BY <1>2, <1>3, <1>4, <1>6, ParentReady
  <2>. QED
    BY <1>2, <2>1, <2>2 DEF IsDirectory
<1>. QED
  BY <1>5, <1>6

-----------------------------------------------------------------------------
(* Calls.                                                                   *)

\* The path led the kernel to the entry e of directory d, in the buffer of p.
Reached(v, D, R, path, dir, g, p, e, d) ==
  /\ Leads(v, D, path, g, p, dir.i, e, d) /\ Buffer(v, D, p, dir.buf)
  /\ dir.i # 0 /\ dir.buf[dir.i] = e /\ e.cluster = d /\ e.size = D[d]
  /\ \A m \in 0..(Len(path) - 1) : g[m] \in DOMAIN D /\ R[g[m]] < R[d]

\* The path leads to d.
Ends(v, D, path, d) == \E g : Trail(v, D, path, Len(path), g) /\ g[Len(path)] = d

\* The kernel runs, and stands where the path leads to.
Placed(x, s, D, R, path, dir, d) ==
  /\ Ready(x, dir.s) /\ Same(s, dir.s) /\ IsPlace(dir) /\ Stands(dir, D, d)
  /\ D[0] # 0 => Ends(s.view, D, path, d)
  /\ d # 0 => \E g, p, e : Reached(s.view, D, R, path, dir, g, p, e, d)

\* The place at the end of the path.
LEMMA ArrivesReached ==
  ASSUME NEW x, NEW s, NEW D, NEW R, NEW X, IsTree(D, R), Typed(s.view, D),
         Linked(s.view, D, R, X), Sound(s.view, D), NEW path \in Seq(Directories), NEW dir,
         Arrives(x, s, D, path, Len(path), dir), dir.s.status = "running"
  PROVE  \E d : Placed(x, s, D, R, path, dir, d)
<1>. DEFINE n == Len(path)
            v == s.view
<1>1. PICK g : /\ Trail(v, D, path, n, g) /\ Stands(dir, D, g[n])
               /\ n > 0 => Found(dir, v, D, g[n - 1], path[n])
  BY DEF Arrives
<1>2. Ready(x, dir.s) /\ Same(s, dir.s) /\ IsPlace(dir)
  BY DEF Arrives
<1>3. n \in Nat /\ Plain(path) /\ n \in 0..Len(path)
  BY DirectoryNamesIs
<1>. DEFINE d == g[n]
<1>4. CASE d = 0
  BY <1>1, <1>2, <1>4 DEF Placed, Ends
<1>5. CASE d # 0
  <2>1. n >= 1 /\ n > 0
    BY <1>1, <1>3, <1>5 DEF Trail
  <2>. DEFINE p == g[n - 1]
              e == dir.buf[dir.i]
  <2>2. Found(dir, v, D, p, path[n])
    BY <1>1, <2>1
  <2>3. path[n] # NoName
    BY <1>3, <2>1 DEF Plain
  <2>4. Shown(dir, v, D, p, path[n])
    BY <2>2, <2>3, FoundEntry
  <2>5. e = Unit(v, p, dir.i) /\ First(v, D, p, path[n], dir.i) /\ Buffer(v, D, p, dir.buf)
    BY <2>2, <2>4 DEF Shown, Found
  <2>6. dir.i # 0 /\ e.cluster = d /\ e.size = D[d]
    BY <1>1, <1>5 DEF Stands
  <2>7. /\ \A m \in 0..n : g[m] \in DOMAIN D /\ R[g[m]] \in Nat
        /\ \A m \in 0..(n - 1) : R[g[m]] < R[g[n]]
    <3>1. Trail(v, D, path, n, g)
      BY <1>1
    <3>. HIDE DEF v
    <3>. QED
      BY <1>3, <3>1, TrailRanks DEF v
  <2>8. \A m \in 0..(n - 1) : g[m] \in DOMAIN D /\ R[g[m]] < R[d] /\ g[m] # d
                             /\ g[m] \in ({0} \cup Clusters) \ {d}
    <3>1. SUFFICES ASSUME NEW m \in 0..(n - 1)
                   PROVE  g[m] \in DOMAIN D /\ R[g[m]] < R[d] /\ g[m] # d
      BY DEF IsTree
    <3>2. m \in 0..n /\ n \in 0..n
      BY <1>3
    <3>. QED
      BY <2>7, <3>2
  <2>11. d \in Clusters
    <3>1. d \in DOMAIN D
      BY <1>3, <2>7
    <3>. QED
      BY <1>5, <3>1 DEF IsTree
  <2>. HIDE DEF e, p, d
  <2>9. Leads(v, D, path, g, p, dir.i, e, d)
    BY <1>1, <2>1, <2>5, <2>8, <2>11 DEF Leads, d, p
  <2>10. Reached(v, D, R, path, dir, g, p, e, d)
    BY <2>5, <2>6, <2>8, <2>9 DEF Reached, e
  <2>. QED
    BY <1>1, <1>2, <2>10 DEF Placed, Ends, d
<1>. QED
  BY <1>4, <1>5

\* navigate_dir, in a tree.
LEMMA NavigatePath ==
  ASSUME NEW x, NEW s, Ready(x, s), NEW D, NEW R, Shape(s.view, D, R, {}),
         Sound(s.view, D), D[0] = s.root_entries,
         NEW path \in Seq(Directories), NEW q, DirectoryNames(q) = path
  PROVE  LET dir == NavigateDir(s, q)
         IN IF dir.s.status = "running" THEN \E d : Placed(x, s, D, R, path, dir, d)
            ELSE Lost(x, dir.s) /\ dir.i = 0
<1>. DEFINE dir == NavigateDir(s, q)
<1>1. Counted(s, D, R) /\ Typed(s.view, D) /\ Linked(s.view, D, R, {}) /\ IsTree(D, R)
  BY DEF Counted, Shape
<1>2. Plain(path)
  BY DirectoryNamesIs
<1>3. Clear(s.view, D, path, {})
  <2>1. ASSUME NEW m \in 0..Len(path), NEW g, Trail(s.view, D, path, m, g)
        PROVE  g[m] \in {0} \cup Clusters
    <3>1. \A j \in 0..m : g[j] \in DOMAIN D
      BY <1>1, <1>2, <2>1, TrailRanks
    <3>. QED
      BY <1>1, <3>1 DEF IsTree
  <2>. QED
    BY <2>1 DEF Clear
<1>4. IF s.root_entries = 0
      THEN Same(s, dir.s) /\ Ready(x, dir.s) /\ IsPlace(dir) /\ Stands(dir, D, 0) /\ dir.i = 0
      ELSE Arrives(x, s, D, path, Len(path), dir)
  BY <1>1, <1>2, <1>3, NavigateDirReady
<1>. HIDE DEF dir
<1>5. CASE s.root_entries = 0
  <2>1. Placed(x, s, D, R, path, dir, 0) /\ dir.s.status = "running"
    BY <1>4, <1>5, ReadyParts DEF Placed
  <2>. QED
    BY <2>1 DEF dir
<1>6. CASE s.root_entries # 0
  <2>1. Arrives(x, s, D, path, Len(path), dir)
    BY <1>4, <1>6
  <2>2. CASE dir.s.status = "running"
    BY <1>1, <2>1, <2>2, ArrivesReached DEF dir
  <2>3. CASE dir.s.status # "running"
    BY <2>1, <2>3 DEF Arrives, Lost, dir
  <2>. QED
    BY <2>2, <2>3
<1>. QED
  BY <1>5, <1>6

\* What a call leaves.
Outcome(x, t) ==
  /\ Traced(x, t)
  /\ t.status = "running" => Ready(x, t) /\ \E D, R : Held(t, D, R)

\* A call that has stopped, or that has changed nothing.
LEMMA OutcomeLost ==
  ASSUME NEW x, NEW s, Lost(x, s)
  PROVE  Outcome(x, s)
BY DEF Lost, Outcome

\* No entry is that of the root directory.
LEMMA RootOwesNothing ==
  ASSUME NEW v, NEW D, NEW R, Shape(v, D, R, {0})
  PROVE  Shape(v, D, R, {})
<1>1. ASSUME NEW d, NEW k, NEW e, Lies(v, D, d, k, e) PROVE e.cluster \notin {0}
  BY <1>1, LiesGood, Constants DEF Shape, Given, BehindTable
<1>2. Linked(v, D, R, {})
  BY <1>1 DEF Shape, Linked
<1>. QED
  BY <1>2 DEF Shape

\* A change of a directory that the root directory has no entry for is complete.
LEMMA RootSettled ==
  ASSUME NEW x, NEW s, Ready(x, s), NEW F, NEW S, Owes(s, F, S, 0),
         ReadBack(s.view, F, s.written, {})
  PROVE  Outcome(x, s)
<1>1. Held(s, F, S)
  BY RootOwesNothing DEF Owes, Held
<1>. QED
  BY <1>1, ReadyParts DEF Outcome

\* A change of another one is complete when its parent is written.
LEMMA Settled1 ==
  ASSUME NEW x, NEW s, NEW t, NEW F, NEW S, NEW p, NEW k, NEW e, NEW d,
         Settles(x, s, t, F, S, p, k, e, d), Owes(s, F, S, d),
         ReadBack(s.view, F, s.written, {}), Good(e), e.attributes = "directory", F[d] \in Nat
  PROVE  Outcome(x, t)
<1>1. CASE t.status # "running"
  BY <1>1 DEF Settles, Outcome
<1>2. CASE t.status = "running"
  <2>. DEFINE g == Resized(e, F[d])
  <2>1. Revised(x, s, t, F, S, p, k, e, g)
    BY <1>2 DEF Settles
  <2>2. g.attributes = "directory" /\ g.cluster = e.cluster /\ g.size = F[d]
    BY ResizedGood
  <2>. HIDE DEF g
  <2>3. /\ Ready(x, t) /\ t.written = s.written /\ t.root_entries = s.root_entries
        /\ Edited(s.view, t.view, F, p, k, e, g) /\ Shape(t.view, F, S, {})
        /\ Marked(t.view, F, {})
        /\ \A c \in Clusters : c \notin DOMAIN F => t.view.data[c] = s.view.data[c]
    BY <2>1 DEF Revised
  <2>4. Shape(s.view, F, S, {d}) /\ F[0] = t.root_entries
    BY <2>3 DEF Owes
  <2>5. ASSUME NEW y, NEW l, NEW f, Lies(t.view, F, y, l, f), f.attributes = "file"
        PROVE  /\ Lies(s.view, F, y, l, f) /\ f.cluster \in Clusters
               /\ t.view.data[f.cluster] = s.view.data[f.cluster]
    <3>1. ~ (y = p /\ l = k)
      BY <2>2, <2>3, <2>5 DEF Edited, Lies
    <3>2. Lies(s.view, F, y, l, f)
      BY <2>3, <2>5, <3>1 DEF Edited, Lies, At
    <3>3. f.cluster \in Clusters
      BY <3>2 DEF ReadBack, Sound
    <3>4. f.cluster \notin DOMAIN F
      BY <2>4, <2>5, <3>2 DEF Shape, Linked, Enterable
    <3>. QED
      BY <2>3, <3>2, <3>3, <3>4
  <2>8. Sound(t.view, F)
    <3>1. ASSUME NEW y, NEW l, NEW f, Lies(t.view, F, y, l, f) PROVE f.cluster \in Clusters
      <4>1. CASE y = p /\ l = k
        <5>1. Lies(s.view, F, p, k, e) /\ f = g
          BY <2>3, <3>1, <4>1 DEF Edited, Lies
        <5>. QED
          BY <2>2, <5>1 DEF ReadBack, Sound
      <4>2. CASE ~ (y = p /\ l = k)
        <5>1. Lies(s.view, F, y, l, f)
          BY <2>3, <3>1, <4>2 DEF Edited, Lies, At
        <5>. QED
          BY <5>1 DEF ReadBack, Sound
      <4>. QED
        BY <4>1, <4>2
    <3>. QED
      BY <3>1 DEF Sound
  <2>6. ReadBack(t.view, F, t.written, {})
    BY <2>3, <2>5, <2>8 DEF ReadBack
  <2>7. Held(t, F, S)
    BY <2>3, <2>4, <2>6 DEF Held
  <2>. QED
    BY <2>3, <2>7, ReadyParts DEF Outcome
<1>. QED
  BY <1>1, <1>2

\* A new part of a name over an old one.
LEMMA OverIs ==
  ASSUME NEW new \in Seq(STRING), NEW old \in Seq(STRING), NEW m \in Nat,
         Len(new) <= m, Len(old) <= m
  PROVE  LET o == new \o SubSeq(old, Len(new) + 1, Len(old))
         IN /\ o \in Seq(STRING) /\ Len(o) <= m /\ (new # <<>> => o # <<>>)
            /\ new = <<>> /\ old = <<>> => o = <<>>
            /\ old = <<>> => o = new
<1>. DEFINE b == SubSeq(old, Len(new) + 1, Len(old))
<1>1. /\ b \in Seq(STRING) /\ (old = <<>> => Len(b) = 0)
      /\ Len(b) = IF Len(new) + 1 <= Len(old) THEN Len(old) - Len(new) ELSE 0
  OBVIOUS
<1>7. Len(new) + Len(b) <= m
  BY <1>1
<1>. HIDE DEF b
<1>2. old = <<>> => b = <<>>
  BY <1>1
<1>3. new \o b \in Seq(STRING) /\ Len(new \o b) = Len(new) + Len(b)
  BY <1>1
<1>4. new # <<>> => Len(new) > 0
  OBVIOUS
<1>5. new # <<>> => new \o b # <<>>
  BY <1>1, <1>3, <1>4
<1>6. new \o <<>> = new
  OBVIOUS
<1>. QED
  BY <1>2, <1>3, <1>5, <1>6, <1>7 DEF b

\* The name that is left of an old one and a new one.
NameOver(old, new) ==
  [base |-> new.base \o SubSeq(old.base, Len(new.base) + 1, Len(old.base)),
   ext |-> new.ext \o SubSeq(old.ext, Len(new.ext) + 1, Len(old.ext))]

\* A name over one of its kind, or over none, is one of its kind.
LEMMA NameReplaced ==
  ASSUME NEW old \in Names, NEW new \in Names, new # NoName,
         HasExtension(old) => HasExtension(new)
  PROVE  /\ NameOver(old, new) \in Names /\ NameOver(old, new) # NoName
         /\ HasExtension(NameOver(old, new)) <=> HasExtension(new)
<1>. DEFINE base == new.base \o SubSeq(old.base, Len(new.base) + 1, Len(old.base))
            ext == new.ext \o SubSeq(old.ext, Len(new.ext) + 1, Len(old.ext))
            name == [base |-> base, ext |-> ext]
<1>1. /\ new.base \in Seq(STRING) /\ old.base \in Seq(STRING)
      /\ new.ext \in Seq(STRING) /\ old.ext \in Seq(STRING)
      /\ Len(new.base) <= FilenameSize /\ Len(old.base) <= FilenameSize
      /\ Len(new.ext) <= ExtensionSize /\ Len(old.ext) <= ExtensionSize
      /\ FilenameSize \in Nat /\ ExtensionSize \in Nat
  BY SizesAssumption DEF Names
<1>2. base \in Seq(STRING) /\ Len(base) <= FilenameSize /\ (new.base # <<>> => base # <<>>)
  BY <1>1, OverIs
<1>3. /\ ext \in Seq(STRING) /\ Len(ext) <= ExtensionSize /\ (new.ext # <<>> => ext # <<>>)
      /\ new.ext = <<>> /\ old.ext = <<>> => ext = <<>>
  BY <1>1, OverIs
<1>4. NameOver(old, new) = name
  BY DEF NameOver
<1>. HIDE DEF base, ext
<1>5. new.ext = <<>> => old.ext = <<>>
  BY DEF HasExtension
<1>6. new.ext = <<>> => new.base # <<>>
  BY DEF NoName, Names
<1>7. name.base = base /\ name.ext = ext /\ NoName.base = <<>> /\ NoName.ext = <<>>
  BY DEF NoName
<1>8. name # NoName
  BY <1>2, <1>3, <1>6, <1>7
<1>9. HasExtension(name) <=> HasExtension(new)
  BY <1>3, <1>5, <1>7 DEF HasExtension
<1>10. name \in Names
  BY <1>2, <1>3 DEF Names
<1>. QED
  BY <1>4, <1>8, <1>9, <1>10

\* The fields of an entry.
EntryFields == {"name", "attributes", "cluster", "size"}

\* fat_create_filename
LEMMA CreateFilenameIs ==
  ASSUME NEW e, e = [field \in EntryFields |-> e[field]], NEW new
  PROVE  LET g == CreateFilename(e, new)
         IN /\ g = [field \in EntryFields |-> g[field]] /\ g.name = NameOver(e.name, new)
            /\ g.attributes = e.attributes /\ g.cluster = e.cluster /\ g.size = e.size
<1>. DEFINE g == CreateFilename(e, new)
<1>1. g = [e EXCEPT !.name = NameOver(e.name, new)]
  BY Zenon DEF CreateFilename, NameOver
<1>. HIDE DEF g
<1>. QED
  BY <1>1 DEF EntryFields, g

\* The entry of a new file or directory.
LEMMA InitFileGood ==
  ASSUME NEW name \in Names, name # NoName, NEW attributes \in {"file", "directory"},
         attributes = "file" <=> HasExtension(name), NEW c \in Given
  PROVE  LET e == InitFile(name, attributes, c)
         IN Good(e) /\ e.size = 0 /\ e.cluster = c /\ e.attributes = attributes
<1>. DEFINE b == CreateFilename(Blank, name)
            e == InitFile(name, attributes, c)
<1>1. NoName \in Names /\ ~HasExtension(NoName)
  BY SizesAssumption DEF NoName, Names, HasExtension
<1>2. Blank = [field \in EntryFields |-> Blank[field]] /\ Blank.name = NoName /\ Blank.size = 0
  BY DEF Blank, EntryFields
<1>3. b = [field \in EntryFields |-> b[field]] /\ b.name = NameOver(NoName, name) /\ b.size = 0
  BY <1>2, CreateFilenameIs
<1>4. b.name \in Names /\ b.name # NoName /\ (HasExtension(b.name) <=> HasExtension(name))
  BY <1>1, <1>3, NameReplaced
<1>5. e = [b EXCEPT !.attributes = attributes, !.cluster = c]
  BY DEF InitFile
<1>. HIDE DEF b, e
<1>6. /\ e = [field \in EntryFields |-> e[field]] /\ e.name = b.name
      /\ e.attributes = attributes /\ e.cluster = c /\ e.size = 0
  BY <1>3, <1>5 DEF EntryFields
<1>7. e = [name |-> e.name, attributes |-> e.attributes, cluster |-> e.cluster, size |-> e.size]
  BY <1>6 DEF EntryFields
<1>8. Good(e)
  BY <1>4, <1>6, <1>7 DEF Good, EntryType
<1>. QED
  BY <1>6, <1>8 DEF e

\* fat_init_first_cluster, of a cluster that is free.
LEMMA InitFirstClusterReady ==
  ASSUME NEW x, NEW s, Ready(x, s), NEW D, NEW R, Held(s, D, R),
         NEW c \in Clusters, s.view.fat[c] = 0
  PROVE  LET t == InitFirstCluster(s, c)
         IN /\ Ready(x, t) /\ Held(t, D, R) /\ Fresh(t.view, D, c)
            /\ t.view.fat[c] = EOC /\ t.written[c] = <<>>
<1>. DEFINE r == FatRead(s)
            o == [FatRead(s) EXCEPT !.fat[c] = EOC, !.written[c] = <<>>]
            t == InitFirstCluster(s, c)
            v == s.view
<1>1. Ready(x, r) /\ Same(s, r) /\ r.fat = v.fat
  BY FatReadReady
<1>2. t = FatWrite(o)
  BY DEF InitFirstCluster, Mark
<1>. HIDE DEF r, t
<1>3. /\ MemoryOK(r) /\ Traced(x, r) /\ r.status = "running" /\ RootCoherent(r)
      /\ r.view.fat[0] = FAT_SIGNATURE /\ Sectored(r.root_entries) <= RootEntries
      /\ r = [field \in Fields |-> r[field]] /\ FatOK(r.fat)
  BY <1>1, ReadyParts
<1>4. /\ o = [field \in Fields |-> o[field]]
      /\ o.fat = [r.fat EXCEPT ![c] = EOC] /\ o.written = [r.written EXCEPT ![c] = <<>>]
      /\ o.status = r.status /\ o.view = r.view /\ o.was_fat_read = r.was_fat_read
      /\ o.root = r.root /\ o.was_root_read = r.was_root_read
      /\ o.root_entries = r.root_entries /\ o.calls = r.calls /\ o.writes = r.writes
  BY <1>3 DEF Fields, r
<1>. HIDE DEF o
<1>5. /\ FatOK(o.fat) /\ o.fat[0] = FAT_SIGNATURE /\ o.fat[c] = EOC
      /\ \A b \in Clusters : b # c => o.fat[b] = v.fat[b]
  <2>1. c # 0 /\ c \in 0..ClusterCount /\ \A b \in Clusters : b \in 0..ClusterCount
    BY Constants
  <2>2. r.fat[0] = FAT_SIGNATURE
    BY <1>1, <1>3 DEF Same
  <2>3. o.fat = [r.fat EXCEPT ![c] = EOC] /\ r.fat = v.fat
    BY <1>1, <1>4
  <2>4. /\ r.fat \in [0..ClusterCount -> {0, EOC, FAT_SIGNATURE}]
        /\ \A b \in Clusters : r.fat[b] \in {0, EOC}
    BY <1>3 DEF FatOK
  <2>5. /\ o.fat \in [0..ClusterCount -> {0, EOC, FAT_SIGNATURE}] /\ o.fat[c] = EOC
        /\ \A b \in 0..ClusterCount : b # c => o.fat[b] = r.fat[b]
    BY <2>1, <2>3, <2>4
  <2>6. 0 \in 0..ClusterCount
    BY Constants
  <2>. QED
    BY <2>1, <2>2, <2>3, <2>4, <2>5, <2>6 DEF FatOK
<1>6. MemoryOK(o)
  <2>1. r.written = [b \in Clusters |-> r.written[b]]
    BY <1>3 DEF MemoryOK
  <2>2. o.written = [b \in Clusters |-> o.written[b]]
    BY <1>4, <2>1
  <2>. QED
    BY <1>3, <1>4, <1>5, <2>2 DEF MemoryOK
<1>7. Traced(x, o) /\ RootCoherent(o) /\ Sectored(o.root_entries) <= RootEntries
  <2>1. Traced(x, o)
    BY <1>3, <1>4 DEF Traced, IsMemory
  <2>2. /\ o.was_root_read = r.was_root_read /\ o.root = r.root /\ o.view = r.view
        /\ o.root_entries = r.root_entries
    BY <1>4
  <2>3. RootCoherent(r) /\ Sectored(r.root_entries) <= RootEntries
    BY <1>3
  <2>4. RootCoherent(o)
    BY <2>2, <2>3 DEF RootCoherent
  <2>5. Sectored(o.root_entries) <= RootEntries
    BY <2>2, <2>3
  <2>. QED
    BY <2>1, <2>4, <2>5
<1>8. /\ Ready(x, t) /\ t.view = [o.view EXCEPT !.fat = o.fat]
      /\ t.written = o.written /\ t.root_entries = o.root_entries /\ t.calls = o.calls
  BY <1>2, <1>3, <1>4, <1>5, <1>6, <1>7, FatWriteReady
<1>. DEFINE w == t.view
<1>9. w.root = v.root /\ w.data = v.data /\ w.fat = o.fat /\ t.root_entries = s.root_entries
  <2>1. o.view = v /\ t.root_entries = s.root_entries
    BY <1>1, <1>4, <1>8 DEF Same
  <2>2. v = [field \in DiskFields |-> v[field]]
    BY ReadyParts DEF DiskOK
  <2>. QED
    BY <1>8, <2>1, <2>2 DEF DiskFields
<1>10. /\ Shape(v, D, R, {}) /\ Marked(v, D, {}) /\ ReadBack(v, D, s.written, {})
       /\ D[0] = s.root_entries
  BY DEF Held
<1>11. \A d, k : Unit(w, d, k) = Unit(v, d, k)
  BY <1>9 DEF Unit
<1>12. /\ \A d, k, e : Lies(w, D, d, k, e) <=> Lies(v, D, d, k, e)
       /\ Shape(w, D, R, {})
  BY <1>10, <1>11, SameTree DEF SameUnits
<1>13. EOC # 0
  BY Constants
<1>14. c \notin DOMAIN D /\ \A d, k, e : Lies(v, D, d, k, e) => e.cluster # c
  <2>1. c # 0
    BY Constants
  <2>. QED
    BY <1>10, <1>13, <2>1 DEF Marked, Taken
<1>15. Marked(w, D, {})
  <2>1. ASSUME NEW d, NEW k, NEW e, Lies(w, D, d, k, e) PROVE Taken(w.fat, e.cluster)
    <3>1. Lies(v, D, d, k, e)
      BY <1>12, <2>1
    <3>2. e.cluster \in Clusters /\ e.cluster # c /\ v.fat[e.cluster] = EOC
      BY <1>10, <1>14, <3>1 DEF ReadBack, Sound, Marked, Taken
    <3>. QED
      BY <1>5, <1>9, <3>2 DEF Taken
  <2>2. ASSUME NEW d \in DOMAIN D, d # 0 PROVE w.fat[d] = EOC
    <3>1. d \in Clusters /\ d # c /\ v.fat[d] = EOC
      BY <1>10, <1>14, <2>2 DEF Shape, IsTree, Marked
    <3>. QED
      BY <1>5, <1>9, <3>1
  <2>. QED
    BY <2>1, <2>2 DEF Marked
<1>16. /\ t.written[c] = <<>>
       /\ \A b \in Clusters : b # c => t.written[b] = s.written[b]
  <2>1. r.written = [b \in Clusters |-> r.written[b]] /\ r.written = s.written
    BY <1>1, <1>3 DEF MemoryOK, Same
  <2>. QED
    BY <1>4, <1>8, <2>1
<1>17. ReadBack(w, D, t.written, {})
  <2>1. ASSUME NEW d, NEW k, NEW e, Lies(w, D, d, k, e)
        PROVE  Lies(v, D, d, k, e) /\ w.data = v.data /\ t.written[e.cluster] = s.written[e.cluster]
    <3>1. Lies(v, D, d, k, e)
      BY <1>12, <2>1
    <3>2. e.cluster \in Clusters /\ e.cluster # c
      BY <1>10, <1>14, <3>1 DEF ReadBack, Sound
    <3>. QED
      BY <1>9, <1>16, <3>1, <3>2
  <2>2. Sound(w, D)
    BY <1>10, <2>1 DEF ReadBack, Sound
  <2>. QED
    BY <1>10, <2>1, <2>2 DEF ReadBack
<1>18. Held(t, D, R)
  BY <1>9, <1>10, <1>12, <1>15, <1>17 DEF Held
<1>19. Fresh(w, D, c)
  BY <1>12, <1>14 DEF Fresh, Given
<1>. QED
  BY <1>5, <1>8, <1>9, <1>16, <1>18, <1>19 DEF t

\* The beginning of nothing.
LEMMA EmptyPrefix ==
  ASSUME NEW q
  PROVE  SubSeq(q, 1, 0) = <<>>
<1>1. SubSeq(q, 1, 0) = [k \in 1..0 |-> q[k]]
  BY SeqPrefix
<1>2. Len(SubSeq(q, 1, 0)) = 0 /\ IsSeq(SubSeq(q, 1, 0))
  BY SeqPrefix
<1>. QED
  BY <1>1

\* The clusters of files have what they had.
SameFiles(v, w, D) == \A c \in Clusters : c \notin DOMAIN D => w.data[c] = v.data[c]

\* The entries are those of the other disk, and e.
OneMore(v, D, w, F, d, e) ==
  \A x, k, f : Lies(w, F, x, k, f) =>
    IF x = d /\ k = D[d] + 1 THEN f = e ELSE Lies(v, D, x, k, f)

\* Files read back as they did when a directory has a new entry, whose file is empty.
LEMMA GrownReadBack ==
  ASSUME NEW v, NEW w, NEW D, NEW R, Shape(v, D, R, {}), NEW F, NEW d, NEW e, e.size = 0,
         e.cluster \in Clusters, NEW written, ReadBack(v, D, written, {}),
         written[e.cluster] = <<>>,
         SameFiles(v, w, D), OneMore(v, D, w, F, d, e)
  PROVE  ReadBack(w, F, written, {})
<1>1. ASSUME NEW x, NEW k, NEW f, Lies(w, F, x, k, f), f.attributes = "file",
             f.size <= EntriesPerSector
      PROVE  SubSeq(w.data[f.cluster], 1, f.size) = written[f.cluster]
  <2>1. CASE x = d /\ k = D[d] + 1
    <3>1. f = e
      BY <1>1, <2>1 DEF OneMore
    <3>. QED
      BY <3>1, EmptyPrefix
  <2>2. CASE ~ (x = d /\ k = D[d] + 1)
    <3>1. Lies(v, D, x, k, f)
      BY <1>1, <2>2 DEF OneMore
    <3>2. f.cluster \in Clusters /\ f.cluster \notin DOMAIN D
      BY <1>1, <3>1 DEF Shape, Linked, Enterable, ReadBack, Sound
    <3>3. SubSeq(v.data[f.cluster], 1, f.size) = written[f.cluster]
      BY <1>1, <3>1 DEF ReadBack
    <3>. QED
      BY <3>2, <3>3 DEF SameFiles
  <2>. QED
    BY <2>1, <2>2
<1>2. ASSUME NEW x, NEW k, NEW f, Lies(w, F, x, k, f) PROVE f.cluster \in Clusters
  BY <1>2 DEF OneMore, ReadBack, Sound
<1>. QED
  BY <1>1, <1>2 DEF ReadBack, Sound

\* A directory has changed its size; its entry is written, and the call is complete.
LEMMA SizeOutcome ==
  ASSUME NEW x, NEW t, Ready(x, t.s), NEW F, NEW S, NEW d, Owes(t.s, F, S, d), F[d] \in Nat,
         NEW v, NEW D, NEW path, NEW g, NEW p, NEW k, NEW e,
         Leads(v, D, path, g, p, k, e, d), SameWay(v, D, t.s.view, F, g, Len(path)),
         Waits(t, v, D, F, p, k, e, d), e.cluster = d
  PROVE  /\ Traced(x, UpdateParent(t, path))
         /\ ReadBack(t.s.view, F, t.s.written, {}) => Outcome(x, UpdateParent(t, path))
<1>1. Settles(x, t.s, UpdateParent(t, path), F, S, p, k, e, d)
  BY UpdateParentReady, Zenon
<1>2. IsDirectory(e)
  BY UpdateParentReady, Zenon
<1>3. Traced(x, UpdateParent(t, path))
  BY <1>1 DEF Settles, Revised, Ready
<1>. QED
  BY <1>1, <1>2, <1>3, Settled1 DEF IsDirectory

\* The new entry is in its directory; what is left is the entry of the directory.
LEMMA EnlargedOutcome ==
  ASSUME NEW x, NEW s, NEW D, NEW R, Held(s, D, R), NEW path, NEW dir, NEW d,
         Placed(x, s, D, R, path, dir, d), NEW e, Good(e), e.size = 0,
         Fresh(s.view, D, e.cluster), Taken(s.view.fat, e.cluster),
         e.cluster \in Clusters => s.written[e.cluster] = <<>>,
         NEW t, Enlarged(x, dir, t, D, d, e)
  PROVE  /\ Traced(x, UpdateParent(t, path))
         /\ e.cluster \in Clusters => Outcome(x, UpdateParent(t, path))
<1>. DEFINE v == s.view
            w == t.s.view
            F == Grown(D, d, e.cluster, e.attributes)
            S == [R EXCEPT ![e.cluster] = R[d] + 1]
<1>1. /\ Shape(v, D, R, {}) /\ Marked(v, D, {}) /\ ReadBack(v, D, s.written, {})
      /\ D[0] = s.root_entries
  BY DEF Held
<1>2. dir.s.view = v /\ dir.s.written = s.written /\ Stands(dir, D, d) /\ d \in DOMAIN D
  BY DEF Placed, Same, Stands
<1>3. /\ Ready(x, t.s) /\ t.s.written = s.written /\ w.fat = v.fat /\ Entered(v, w, D, d, e)
      /\ \A c \in Clusters : c \notin DOMAIN D => w.data[c] = v.data[c]
      /\ t.i = dir.i /\ t.s.root_entries = F[0]
      /\ d # 0 => t.buf = WithEntry(dir.buf, dir.i, Resized(dir.buf[dir.i], D[d] + 1))
  BY <1>2 DEF Enlarged, Resized
<1>4. /\ Shape(w, F, S, {d}) /\ Marked(w, F, {}) /\ Covers(w, F)
      /\ DOMAIN D \subseteq DOMAIN F /\ F[d] = D[d] + 1
      /\ \A y \in DOMAIN D : y # d => F[y] = D[y]
      /\ \A y, k, f : Lies(w, F, y, k, f) =>
           IF y = d /\ k = D[d] + 1 THEN f = e ELSE Lies(v, D, y, k, f)
  <2>. HIDE DEF v, w
  <2>. QED
    BY <1>1, <1>2, <1>3, EnteredTree DEF v
<1>. HIDE DEF F, S, w
<1>5. Owes(t.s, F, S, d)
  BY <1>3, <1>4 DEF Owes, w
<1>6. e.cluster \in Clusters => ReadBack(w, F, s.written, {})
  <2>1. SameFiles(v, w, D)
    BY <1>3 DEF SameFiles
  <2>2. OneMore(v, D, w, F, d, e)
    BY <1>4 DEF OneMore
  <2>. QED
    BY <1>1, <2>1, <2>2, GrownReadBack
<1>7. e.cluster \in Clusters => ReadBack(t.s.view, F, t.s.written, {})
  BY <1>3, <1>6 DEF w
<1>8. CASE d = 0
  <2>1. t.i = 0
    BY <1>2, <1>3, <1>8 DEF Stands
  <2>2. UpdateParent(t, path) = t.s
    BY <2>1 DEF UpdateParent
  <2>3. Owes(t.s, F, S, 0)
    BY <1>5, <1>8
  <2>. QED
    BY <1>3, <1>7, <2>2, <2>3, RootSettled, ReadyParts
<1>9. CASE d # 0
  <2>1. PICK g, p, f : Reached(v, D, R, path, dir, g, p, f, d)
    BY <1>9 DEF Placed
  <2>2. /\ Leads(v, D, path, g, p, dir.i, f, d) /\ Buffer(v, D, p, dir.buf)
        /\ dir.i # 0 /\ dir.buf[dir.i] = f /\ f.cluster = d
        /\ \A m \in 0..(Len(path) - 1) : g[m] \in DOMAIN D /\ R[g[m]] < R[d]
    BY <2>1 DEF Reached
  <2>3. \A m \in 0..(Len(path) - 1) : g[m] \in DOMAIN D /\ g[m] # d
    BY <2>2 DEF Leads
  <2>4. SameWay(v, D, t.s.view, F, g, Len(path))
    <3>1. ASSUME NEW m \in 0..(Len(path) - 1) PROVE SameDirectory(v, D, w, F, g[m])
      <4>1. g[m] \in DOMAIN D /\ g[m] # d /\ g[m] \in DOMAIN F /\ F[g[m]] = D[g[m]]
        BY <1>4, <2>3
      <4>2. \A k \in 1..Room(g[m]) : Unit(w, g[m], k) = Unit(v, g[m], k)
        BY <1>3, <4>1 DEF Entered
      <4>. QED
        BY <4>1, <4>2 DEF SameDirectory
    <3>. QED
      BY <3>1 DEF SameWay, w
  <2>5. Waits(t, v, D, F, p, dir.i, f, d)
    BY <1>3, <1>4, <1>9, <2>2 DEF Waits
  <2>6. F[d] \in Nat
    BY <1>2, <1>4 DEF Shape, IsTree
  <2>7. Ready(x, t.s) /\ Leads(v, D, path, g, p, dir.i, f, d) /\ f.cluster = d
    BY <1>3, <2>2
  <2>. HIDE DEF v
  <2>. QED
    BY <1>5, <1>7, <2>4, <2>5, <2>6, <2>7, SizeOutcome
<1>. QED
  BY <1>8, <1>9

\* The directory at the end of the path is written with the new entry, and so is the
\* entry of the directory.
LEMMA EnteredOutcome ==
  ASSUME NEW x, NEW s, Ready(x, s), NEW D, NEW R, Held(s, D, R), NEW path \in Seq(Directories),
         NEW e, Good(e), e.size = 0, Fresh(s.view, D, e.cluster), Taken(s.view.fat, e.cluster),
         e.cluster \in Clusters => s.written[e.cluster] = <<>>
  PROVE  LET t == UpdateParent(EnterFile(NavigateDir(s, path), e), path)
         IN Traced(x, t) /\ (e.cluster \in Clusters => Outcome(x, t))
<1>. DEFINE dir == NavigateDir(s, path)
            t == EnterFile(dir, e)
<1>1. IF dir.s.status = "running" THEN \E d : Placed(x, s, D, R, path, dir, d)
      ELSE Lost(x, dir.s) /\ dir.i = 0
  <2>1. Shape(s.view, D, R, {}) /\ D[0] = s.root_entries /\ Sound(s.view, D)
    BY DEF Held, ReadBack
  <2>2. DirectoryNames(path) = path
    BY DirectoryNamesIs
  <2>. QED
    BY <2>1, <2>2, NavigatePath
<1>. HIDE DEF dir
<1>2. CASE dir.s.status # "running"
  <2>1. t = dir
    BY <1>2 DEF EnterFile
  <2>2. UpdateParent(t, path) = dir.s
    BY <1>1, <1>2, <2>1 DEF UpdateParent
  <2>3. Traced(x, dir.s) /\ Outcome(x, dir.s)
    BY <1>1, <1>2, OutcomeLost DEF Lost
  <2>. QED
    BY <2>2, <2>3 DEF dir
<1>3. CASE dir.s.status = "running"
  <2>1. PICK d : Placed(x, s, D, R, path, dir, d)
    BY <1>1, <1>3
  <2>2. Ready(x, dir.s) /\ IsPlace(dir) /\ Stands(dir, D, d) /\ Same(s, dir.s)
    BY <2>1 DEF Placed
  <2>3. /\ D[0] = dir.s.root_entries /\ Shape(dir.s.view, D, R, {})
        /\ Marked(dir.s.view, D, {}) /\ Fresh(dir.s.view, D, e.cluster)
        /\ Taken(dir.s.view.fat, e.cluster)
    BY <2>2 DEF Same, Held
  <2>4. (Lost(x, t.s) /\ (d = 0 => t.i = 0)) \/ Enlarged(x, dir, t, D, d, e)
    BY <2>2, <2>3, EnterFileReady
  <2>. HIDE DEF t
  <2>5. CASE Lost(x, t.s) /\ (d = 0 => t.i = 0)
    <3>1. t.i = 0 \/ Len(path) >= 1
      <4>1. d # 0 => \E g, p, f : Reached(s.view, D, R, path, dir, g, p, f, d)
        BY <2>1 DEF Placed
      <4>. QED
        BY <2>5, <4>1 DEF Reached, Leads
    <3>2. Lost(x, UpdateParent(t, path))
      BY <2>5, <3>1, UpdateParentLost
    <3>. QED
      BY <3>2, OutcomeLost DEF Lost, t, dir
  <2>6. CASE Enlarged(x, dir, t, D, d, e)
    <3>1. /\ Traced(x, UpdateParent(t, path))
          /\ e.cluster \in Clusters => Outcome(x, UpdateParent(t, path))
      BY <2>1, <2>6, EnlargedOutcome
    <3>. QED
      BY <3>1 DEF t, dir
  <2>. QED
    BY <2>4, <2>5, <2>6
<1>. QED
  BY <1>2, <1>3

\* fat_init_first_cluster, of a cluster that the table has no entry for: all others are
\* taken.
LEMMA InitFirstClusterBehind ==
  ASSUME NEW x, NEW s, Ready(x, s), NEW D, NEW R, Held(s, D, R), Full(s.view.fat),
         NEW c \in BehindTable
  PROVE  LET t == InitFirstCluster(s, c)
         IN /\ Ready(x, t) /\ Held(t, D, R) /\ Fresh(t.view, D, c) /\ Taken(t.view.fat, c)
            /\ c \in Given /\ c \notin Clusters
<1>. DEFINE t == InitFirstCluster(s, c)
<1>1. c \notin Clusters /\ c # 0 /\ c \in Given
  BY Constants DEF BehindTable, Given
<1>2. t = FatWrite(FatRead(s))
  BY <1>1 DEF InitFirstCluster, Mark
<1>3. Ready(x, t) /\ Same(s, t)
  BY <1>2, FatRefresh
<1>. HIDE DEF t
<1>4. Held(t, D, R)
  BY <1>3 DEF Held, Same
<1>5. c \notin DOMAIN D
  BY <1>1 DEF Held, Shape, IsTree
<1>6. \A d, k, e : Lies(s.view, D, d, k, e) => e.cluster # c
  BY <1>1 DEF Held, ReadBack, Sound
<1>7. Fresh(t.view, D, c) /\ Taken(t.view.fat, c)
  BY <1>1, <1>3, <1>5, <1>6 DEF Fresh, Taken, Same
<1>. QED
  BY <1>1, <1>3, <1>4, <1>7 DEF t

\* A kernel that stops at the end of a call.
LEMMA StopTraced ==
  ASSUME NEW x, NEW s, Traced(x, s), NEW why \in Statuses, why # "running"
  PROVE  Outcome(x, Stop(s, why))
<1>. DEFINE t == Stop(s, why)
<1>1. IsMemory(s)
  BY DEF Traced
<1>2. t = IF s.status = "running" THEN [s EXCEPT !.status = why] ELSE s
  BY DEF Stop
<1>. HIDE DEF t
<1>3. /\ IsMemory(t) /\ t.writes = s.writes /\ t.view = s.view
      /\ t.status \in Statuses /\ t.status # "running"
  BY <1>1, <1>2 DEF IsMemory, Fields, Traced
<1>4. Traced(x, t)
  BY <1>3 DEF Traced
<1>. QED
  BY <1>3, <1>4 DEF Outcome, t

\* create_file and create_dir
LEMMA CreateFileReady ==
  ASSUME NEW x, NEW s, Ready(x, s), NEW D, NEW R, Held(s, D, R), NEW name \in Names,
         name # NoName, NEW attributes \in {"file", "directory"},
         attributes = "file" <=> HasExtension(name), NEW path \in Seq(Directories),
         NEW behind \in Behind
  PROVE  Outcome(x, CreateFile(s, name, path, attributes, behind))
<1>. DEFINE free == FreeClusters(FatRead(s))
            c == FreeCluster(FatRead(s), behind)
            e == InitFile(name, attributes, c)
            s1 == InitFirstCluster(s, c)
            done == UpdateParent(EnterFile(NavigateDir(s1, path), e), path)
            t == CreateFile(s, name, path, attributes, behind)
<1>1. FatRead(s).fat = s.view.fat
  BY FatReadReady
<1>2. t = IF c = 0 THEN Stop(s, "panic")
          ELSE IF c \notin Clusters THEN Stop(done, "undefined") ELSE done
  BY DEF CreateFile
<1>3. \/ c \in Clusters /\ s.view.fat[c] = 0
      \/ c \in {0} \cup BehindTable /\ Full(s.view.fat)
  <2>1. CASE free = {}
    <3>1. c = behind
      BY <2>1 DEF FreeCluster
    <3>2. Full(s.view.fat)
      BY <1>1, <2>1 DEF FreeClusters, Full
    <3>. QED
      BY <3>1, <3>2 DEF Behind
  <2>2. CASE free # {}
    <3>1. free \subseteq Nat
      BY Constants DEF FreeClusters
    <3>2. c = Min(free)
      BY <2>2 DEF FreeCluster
    <3>3. c \in free
      BY <2>2, <3>1, <3>2, MinOf
    <3>. QED
      BY <1>1, <3>3 DEF FreeClusters
  <2>. QED
    BY <2>1, <2>2
<1>4. "panic" \in Statuses /\ "undefined" \in Statuses
  BY DEF Statuses
<1>. HIDE DEF c, t
<1>5. CASE c = 0
  <2>1. Traced(x, s)
    BY ReadyParts
  <2>2. Outcome(x, Stop(s, "panic"))
    BY <1>4, <2>1, StopTraced
  <2>. QED
    BY <1>2, <1>5, <2>2 DEF t
<1>6. CASE c # 0 /\ c \notin Clusters
  <2>1. c \in BehindTable /\ Full(s.view.fat)
    BY <1>3, <1>6
  <2>2. /\ Ready(x, s1) /\ Held(s1, D, R) /\ Fresh(s1.view, D, c) /\ Taken(s1.view.fat, c)
        /\ c \in Given
    BY <2>1, InitFirstClusterBehind
  <2>3. Good(e) /\ e.size = 0 /\ e.cluster = c
    BY <2>2, InitFileGood
  <2>. HIDE DEF e, s1
  <2>4. Traced(x, done)
    BY <1>6, <2>2, <2>3, EnteredOutcome
  <2>. HIDE DEF done
  <2>5. Outcome(x, Stop(done, "undefined"))
    BY <1>4, <2>4, StopTraced
  <2>. QED
    BY <1>2, <1>6, <2>5 DEF t
<1>7. CASE c \in Clusters
  <2>1. s.view.fat[c] = 0 /\ c # 0 /\ c \in Given
    BY <1>3, <1>7, Constants DEF BehindTable, Given
  <2>2. /\ Ready(x, s1) /\ Held(s1, D, R) /\ Fresh(s1.view, D, c)
        /\ s1.view.fat[c] = EOC /\ s1.written[c] = <<>>
    BY <1>7, <2>1, InitFirstClusterReady
  <2>3. Good(e) /\ e.size = 0 /\ e.cluster = c
    BY <2>1, InitFileGood
  <2>4. Taken(s1.view.fat, c)
    BY <1>7, <2>2 DEF Taken
  <2>. HIDE DEF e, s1
  <2>5. Outcome(x, done)
    BY <1>7, <2>2, <2>3, <2>4, EnteredOutcome
  <2>. QED
    BY <1>2, <1>7, <2>1, <2>5 DEF t
<1>. QED
  BY <1>5, <1>6, <1>7

\* The memory once it is known what a file should hold.
Known(s, c, units) == [s EXCEPT !.written[c] = units]

\* It is as good, and what the other files should hold is the same.
LEMMA KnownReady ==
  ASSUME NEW x, NEW s, Ready(x, s), NEW c \in Clusters, NEW units
  PROVE  LET t == Known(s, c, units)
         IN /\ Ready(x, t) /\ t.view = s.view /\ t.root_entries = s.root_entries
            /\ t.calls = s.calls /\ t.written[c] = units
            /\ \A y \in Clusters : y # c => t.written[y] = s.written[y]
<1>. DEFINE t == Known(s, c, units)
<1>1. /\ MemoryOK(s) /\ Traced(x, s) /\ s.status = "running"
      /\ s = [field \in Fields |-> s[field]]
  BY ReadyParts
<1>2. /\ t = [field \in Fields |-> t[field]]
      /\ t.fat = s.fat /\ t.was_fat_read = s.was_fat_read /\ t.root = s.root
      /\ t.was_root_read = s.was_root_read /\ t.root_entries = s.root_entries
      /\ t.view = s.view /\ t.writes = s.writes /\ t.status = s.status /\ t.calls = s.calls
      /\ t.written = [s.written EXCEPT ![c] = units]
  BY <1>1 DEF Known, Fields
<1>3. s.written = [y \in Clusters |-> s.written[y]]
  BY <1>1 DEF MemoryOK
<1>. HIDE DEF t
<1>4. /\ t.written = [y \in Clusters |-> t.written[y]] /\ t.written[c] = units
      /\ \A y \in Clusters : y # c => t.written[y] = s.written[y]
  BY <1>2, <1>3
<1>5. MemoryOK(t)
  BY <1>1, <1>2, <1>4 DEF MemoryOK
<1>6. Traced(x, t)
  BY <1>1, <1>2 DEF Traced, IsMemory
<1>7. Ready(x, t)
  BY <1>1, <1>2, <1>5, <1>6, ReadyAgain
<1>. QED
  BY <1>2, <1>4, <1>7 DEF t

\* A disk on which a file was written has the same directories, and the file begins with
\* what was written when that fits in a cluster.
LEMMA FileWrittenTree ==
  ASSUME NEW v, DiskOK(v), NEW D, NEW R, Shape(v, D, R, {}), Marked(v, D, {}),
         NEW c \in Clusters, c \notin DOMAIN D, NEW units, IsSeq(units),
         NEW w, w = FileWritten(v, c, units)
  PROVE  /\ Shape(w, D, R, {}) /\ Marked(w, D, {}) /\ NewMarked(v, w) /\ SameUnits(v, w, D)
         /\ \A d, k, e : Lies(w, D, d, k, e) <=> Lies(v, D, d, k, e)
         /\ \A y \in Clusters : y # c => w.data[y] = v.data[y]
         /\ Len(units) <= EntriesPerSector => SubSeq(w.data[c], 1, Len(units)) = units
<1>1. Len(units) \in Nat /\ units = [k \in 1..Len(units) |-> units[k]]
  BY SeqIsFunction
<1>2. CASE Len(units) = 0
  <2>1. w = v
    BY <1>2 DEF FileWritten
  <2>2. NewMarked(v, w)
    BY <2>1 DEF NewMarked
  <2>3. SubSeq(w.data[c], 1, Len(units)) = units
    BY <1>1, <1>2, EmptyPrefix
  <2>. QED
    BY <2>1, <2>2, <2>3 DEF SameUnits
<1>3. CASE Len(units) # 0
  <2>. DEFINE b == Padded(units, EntriesPerSector)
  <2>1. w = [v EXCEPT !.data[c] = b]
    BY <1>3 DEF FileWritten
  <2>2. DiskOK(w)
    BY <2>1, DiskParts
  <2>3. \A k \in 1..EntriesPerSector : k <= Len(units) => b[k] = units[k]
    BY PaddedIs, Constants
  <2>. HIDE DEF b
  <2>4. /\ w.fat = v.fat /\ w.data[c] = b
        /\ \A y \in Clusters : y # c => w.data[y] = v.data[y]
        /\ \A y \in {0} \cup Clusters : y # c => \A k : Unit(w, y, k) = Unit(v, y, k)
    BY <2>1, DataUnits
  <2>5. SameUnits(v, w, D)
    BY <2>4 DEF SameUnits, Shape, IsTree
  <2>6. /\ \A d, k, e : Lies(w, D, d, k, e) <=> Lies(v, D, d, k, e)
        /\ Shape(w, D, R, {}) /\ Marked(w, D, {})
    BY <2>4, <2>5, SameTree
  <2>7. NewMarked(v, w)
    <3>1. IsTree(D, R) /\ Covers(w, D)
      BY <2>6, ShapeCovers DEF Shape
    <3>. QED
      BY <2>2, <2>6, <3>1, MarkedNew
  <2>8. Len(units) <= EntriesPerSector => SubSeq(w.data[c], 1, Len(units)) = units
    <3>1. SubSeq(b, 1, Len(units)) = [k \in 1..Len(units) |-> b[k]]
      BY <1>1, SeqPrefix
    <3>. QED
      BY <1>1, <2>3, <2>4, <3>1, Constants
  <2>. QED
    BY <2>4, <2>5, <2>6, <2>7, <2>8
<1>. QED
  BY <1>2, <1>3

\* Files read back when one was written, and its entry has the new size.
LEMMA WrittenReadBack ==
  ASSUME NEW v, NEW D, NEW R, Shape(v, D, R, {}), NEW written, ReadBack(v, D, written, {}),
         NEW d, NEW k, NEW e, Lies(v, D, d, k, e), NEW units,
         NEW w, NEW new, new[e.cluster] = units,
         \A y \in Clusters : y # e.cluster => new[y] = written[y],
         \A y \in Clusters : y \notin DOMAIN D /\ y # e.cluster => w.data[y] = v.data[y],
         Len(units) <= EntriesPerSector => SubSeq(w.data[e.cluster], 1, Len(units)) = units,
         \A y, j, f : Lies(w, D, y, j, f) =>
           IF y = d /\ j = k THEN f = Resized(e, Len(units)) ELSE Lies(v, D, y, j, f)
  PROVE  ReadBack(w, D, new, {})
<1>1. ASSUME NEW y, NEW j, NEW f, Lies(w, D, y, j, f), f.attributes = "file",
             f.size <= EntriesPerSector
      PROVE  SubSeq(w.data[f.cluster], 1, f.size) = new[f.cluster]
  <2>1. CASE y = d /\ j = k
    <3>1. f = Resized(e, Len(units))
      BY <1>1, <2>1
    <3>2. f.cluster = e.cluster /\ f.size = Len(units)
      <4>1. Good(e)
        BY LiesGood DEF Shape
      <4>. QED
        BY <3>1, <4>1 DEF Good, EntryType, Resized
    <3>. QED
      BY <1>1, <3>2
  <2>2. CASE ~ (y = d /\ j = k)
    <3>1. Lies(v, D, y, j, f)
      BY <1>1, <2>2
    <3>2. f.cluster \in Clusters /\ f.cluster \notin DOMAIN D
      BY <1>1, <3>1 DEF Shape, Linked, Enterable, ReadBack, Sound
    <3>3. f.cluster # e.cluster
      BY <2>2, <3>1 DEF Shape, Apart
    <3>4. SubSeq(v.data[f.cluster], 1, f.size) = written[f.cluster]
      BY <1>1, <3>1 DEF ReadBack
    <3>. QED
      BY <3>2, <3>3, <3>4
  <2>. QED
    BY <2>1, <2>2
<1>2. ASSUME NEW y, NEW j, NEW f, Lies(w, D, y, j, f) PROVE f.cluster \in Clusters
  <2>1. CASE y = d /\ j = k
    <3>1. f = Resized(e, Len(units)) /\ Good(e) /\ e.cluster \in Clusters
      BY <1>2, <2>1, LiesGood DEF Shape, ReadBack, Sound
    <3>. QED
      BY <3>1 DEF Good, EntryType, Resized
  <2>2. CASE ~ (y = d /\ j = k)
    BY <1>2, <2>2 DEF ReadBack, Sound
  <2>. QED
    BY <2>1, <2>2
<1>. QED
  BY <1>1, <1>2 DEF ReadBack, Sound

\* edit_file, in a tree that is complete.
LEMMA EditReady ==
  ASSUME NEW x, NEW s, Ready(x, s), NEW D, NEW R, Shape(s.view, D, R, {}),
         Marked(s.view, D, {}), Counted(s, D, R), NEW d, NEW dir, Stands(dir, D, d),
         NEW k, NEW e, Lies(s.view, D, d, k, e), NEW g, Replaces(e, g, D),
         NEW u, Changed(s.view, D, d, k, g, u)
  PROVE  LET t == EditFile(s, dir, u) IN Lost(x, t) \/ Revised(x, s, t, D, R, d, k, e, g)
<1>. DEFINE X == {}
<1>1. X \subseteq {e.cluster} /\ Shape(s.view, D, R, X)
  OBVIOUS
<1>. HIDE DEF X
<1>. QED
  BY <1>1, EditFileReady

\* A kernel that has stopped writes no file.
LEMMA EditFileLost ==
  ASSUME NEW x, NEW s, Ended(x, s), NEW D, NEW d, d \in {0} \cup Clusters, D[d] \in Nat,
         NEW dir, Stands(dir, D, d), NEW u
  PROVE  Lost(x, EditFile(s, dir, u))
<1>. DEFINE f == dir.buf[dir.i]
            b == SubSeq(u, 1, f.size)
            r == SubSeq(u, 1, s.root_entries)
<1>1. CASE d = 0
  <2>1. EditFile(s, dir, u) = RootWrite(s, r)
    BY <1>1 DEF Stands, EditFile
  <2>2. AtaWrite(s, RootSector, Padded(r, InSectors(s))) = s
    BY AtaWriteStopped DEF Ended, Lost
  <2>. DEFINE t == RootWrite(s, r)
  <2>3. t = s \/ t = [s EXCEPT !.was_root_read = FALSE]
    BY <2>2 DEF RootWrite, Stop, Ended, Lost
  <2>. HIDE DEF t
  <2>4. t.writes = s.writes /\ t.view = s.view /\ t.status = s.status /\ IsMemory(t)
    BY <2>3 DEF Ended, Lost, IsMemory, Fields
  <2>5. Lost(x, t)
    BY <2>4 DEF Ended, Lost, Traced
  <2>. QED
    BY <2>1, <2>5 DEF t
<1>2. CASE d # 0
  <2>1. dir.i # 0 /\ f.cluster \in Clusters /\ f.size = D[d] /\ D[d] \in Nat
    BY <1>2 DEF Stands
  <2>2. IsSeq(b)
    BY <2>1, SeqPrefix
  <2>3. EditFile(s, dir, u) = WriteFileData(s, f, b).s
    BY <2>1 DEF EditFile
  <2>. HIDE DEF f, b
  <2>. QED
    BY <2>1, <2>2, <2>3, WriteFileDataLost DEF Ended
<1>. QED
  BY <1>1, <1>2

\* The entries of the disk on which one was changed.
LEMMA EditedLies ==
  ASSUME NEW v, NEW w, NEW D, NEW d, NEW k, NEW e, NEW g, Edited(v, w, D, d, k, e, g)
  PROVE  \A y, j, f : Lies(w, D, y, j, f) =>
           IF y = d /\ j = k THEN f = g ELSE Lies(v, D, y, j, f)
BY DEF Edited, Lies, At

\* write_file, given the file: its data, then its entry.
LEMMA WriteBothReady ==
  ASSUME NEW x, NEW s, Ready(x, s), NEW D, NEW R, Held(s, D, R),
         NEW d, NEW dir, Stands(dir, D, d), NEW buf, Buffer(s.view, D, d, buf),
         NEW k, NEW e, Lies(s.view, D, d, k, e), e.attributes = "file",
         NEW units, IsSeq(units)
  PROVE  LET t == WriteFileData(s, e, units).s
             u == WithEntry(buf, k, Resized(e, Len(units)))
         IN Outcome(x, EditFile(Known(t, e.cluster, units), dir, u))
<1>. DEFINE v == s.view
            c == e.cluster
            g == Resized(e, Len(units))
            t == WriteFileData(s, e, units).s
            known == Known(t, c, units)
            u == WithEntry(buf, k, g)
            end == EditFile(known, dir, u)
<1>1. /\ Shape(v, D, R, {}) /\ Marked(v, D, {}) /\ ReadBack(v, D, s.written, {})
      /\ D[0] = s.root_entries /\ DiskOK(v) /\ d \in DOMAIN D /\ D[d] \in Nat
  BY ReadyParts DEF Held, Lies, At, Shape, IsTree
<1>2. Good(e) /\ c \in Clusters /\ c \notin DOMAIN D
  BY <1>1, LiesGood DEF Shape, Linked, Enterable, ReadBack, Sound
<1>3. Len(units) \in Nat
  BY SeqIsFunction
<1>4. Good(g) /\ g.cluster = c /\ g.attributes = e.attributes
  BY <1>2, <1>3, ResizedGood
<1>. DEFINE w == FileWritten(v, c, units)
<1>. HIDE DEF g
<1>6. /\ Shape(w, D, R, {}) /\ Marked(w, D, {}) /\ NewMarked(v, w) /\ SameUnits(v, w, D)
      /\ \A y, j, f : Lies(w, D, y, j, f) <=> Lies(v, D, y, j, f)
      /\ \A y \in Clusters : y # c => w.data[y] = v.data[y]
      /\ Len(units) <= EntriesPerSector => SubSeq(w.data[c], 1, Len(units)) = units
  BY <1>1, <1>2, FileWrittenTree
<1>7. \/ Ended(x, t)
      \/ /\ Ready(x, t) /\ t.view = w
         /\ t.written = s.written /\ t.root_entries = s.root_entries
  BY <1>2, <1>6, WriteFileDataReady
<1>. HIDE DEF t
<1>5. CASE Ended(x, t)
  <2>1. Ended(x, known)
    <3>1. known = [field \in Fields |-> known[field]] /\ known.view = t.view /\ known.fat = t.fat
          /\ known.writes = t.writes /\ known.status = t.status
      BY <1>5 DEF Known, Ended, Lost, IsMemory, Fields
    <3>. HIDE DEF known
    <3>. QED
      BY <1>5, <3>1 DEF Ended, Lost, IsMemory, Traced
  <2>. HIDE DEF known, u
  <2>2. Lost(x, end)
    BY <1>1, <2>1, EditFileLost DEF Shape, IsTree
  <2>3. Outcome(x, end)
    BY <2>2, OutcomeLost
  <2>. QED
    BY <2>3 DEF end, u, known, t, g
<1>. SUFFICES ASSUME ~Ended(x, t)
              PROVE  Outcome(x, EditFile(Known(WriteFileData(s, e, units).s, e.cluster, units), dir,
                                         WithEntry(buf, k, Resized(e, Len(units)))))
  BY <1>5 DEF t
<1>8. /\ Ready(x, known) /\ known.view = w /\ known.root_entries = s.root_entries
      /\ known.written[c] = units
      /\ \A y \in Clusters : y # c => known.written[y] = s.written[y]
  BY <1>2, <1>7, KnownReady
<1>. HIDE DEF known, w
<1>9. Changed(known.view, D, d, k, g, u)
  <2>1. SameDirectory(v, D, w, D, d)
    BY <1>1, <1>6 DEF SameUnits, SameDirectory
  <2>2. Buffer(w, D, d, buf)
    BY <1>1, <2>1, BufferKept
  <2>. QED
    BY <1>1, <1>8, <2>2, WithEntryIs
<1>. HIDE DEF u
<1>10. Lost(x, end) \/ Revised(x, known, end, D, R, d, k, e, g)
  <2>0. Ready(x, known)
    BY <1>8
  <2>1. Lies(known.view, D, d, k, e)
    BY <1>6, <1>8
  <2>2. Shape(known.view, D, R, {}) /\ Marked(known.view, D, {})
        /\ Counted(known, D, R)
    BY <1>1, <1>6, <1>8 DEF Counted, Shape
  <2>3. Replaces(e, g, D)
    BY <1>4 DEF Replaces
  <2>. QED
    BY <1>9, <2>0, <2>1, <2>2, <2>3, EditReady
<1>. HIDE DEF end
<1>. SUFFICES ASSUME ~Lost(x, end)
              PROVE  Outcome(x, EditFile(Known(WriteFileData(s, e, units).s, e.cluster, units), dir,
                                         WithEntry(buf, k, Resized(e, Len(units)))))
  <2>1. Lost(x, end) => Outcome(x, end)
    BY OutcomeLost
  <2>. QED
    BY <2>1 DEF end, u, known, t, g
<1>11. /\ Ready(x, end) /\ end.written = known.written
       /\ end.root_entries = s.root_entries
       /\ Shape(end.view, D, R, {}) /\ Marked(end.view, D, {})
       /\ Edited(w, end.view, D, d, k, e, g)
       /\ \A y \in Clusters : y \notin DOMAIN D => end.view.data[y] = w.data[y]
  BY <1>8, <1>10 DEF Revised
<1>12. \A y, j, f : Lies(end.view, D, y, j, f) =>
         IF y = d /\ j = k THEN f = g ELSE Lies(v, D, y, j, f)
  <2>2. \A y, j, f : Lies(end.view, D, y, j, f) =>
          IF y = d /\ j = k THEN f = g ELSE Lies(w, D, y, j, f)
    BY <1>11, EditedLies
  <2>. QED
    BY <1>6, <2>2
<1>13. ReadBack(end.view, D, end.written, {})
  <2>1. end.written[c] = units
    BY <1>8, <1>11
  <2>2. \A y \in Clusters : y # c => end.written[y] = s.written[y]
    BY <1>8, <1>11
  <2>3. \A y \in Clusters : y \notin DOMAIN D /\ y # c => end.view.data[y] = v.data[y]
    BY <1>6, <1>11
  <2>4. Len(units) <= EntriesPerSector => SubSeq(end.view.data[c], 1, Len(units)) = units
    BY <1>2, <1>6, <1>11
  <2>5. \A y, j, f : Lies(end.view, D, y, j, f) =>
          IF y = d /\ j = k THEN f = Resized(e, Len(units)) ELSE Lies(v, D, y, j, f)
    BY <1>12 DEF g
  <2>. QED
    BY <1>1, <2>1, <2>2, <2>3, <2>4, <2>5, WrittenReadBack
<1>14. Held(end, D, R)
  BY <1>1, <1>11, <1>13 DEF Held
<1>. QED
  <2>1. Outcome(x, end)
    BY <1>11, <1>14, ReadyParts DEF Outcome
  <2>. QED
    BY <2>1 DEF end, u, known, t, g

\* The kernel stands in d, where the path leads, and has found an entry by its name.
LookedUp(x, s, D, R, path, dir, f, d, name) ==
  /\ Placed(x, s, D, R, path, dir, d) /\ Stands(dir, D, d)
  /\ Ready(x, f.s) /\ Same(s, f.s) /\ Held(f.s, D, R)
  /\ Found(f, f.s.view, D, d, name) /\ Shown(f, f.s.view, D, d, name) /\ f.i # 0

\* Memory with the same tree.
LEMMA HeldSame ==
  ASSUME NEW s, NEW t, Same(s, t), NEW D, NEW R, Held(s, D, R)
  PROVE  Held(t, D, R)
BY DEF Same, Held

\* The tree is the same over two steps.
LEMMA SameTwice ==
  ASSUME NEW s, NEW t, NEW u, Same(s, t), Same(t, u)
  PROVE  Same(s, u)
BY DEF Same

\* navigate_dir and find_file
LEMMA LookupReady ==
  ASSUME NEW x, NEW s, Ready(x, s), NEW D, NEW R, Held(s, D, R),
         NEW path \in Seq(Directories), NEW q, DirectoryNames(q) = path,
         NEW name, name # NoName
  PROVE  LET dir == NavigateDir(s, q)
             f == FindFile(dir, name)
         IN IF f.s.status = "running" THEN \E d : LookedUp(x, s, D, R, path, dir, f, d, name)
            ELSE Lost(x, f.s) /\ f.i = 0
<1>. DEFINE dir == NavigateDir(s, q)
            f == FindFile(dir, name)
<1>1. /\ Shape(s.view, D, R, {}) /\ D[0] = s.root_entries /\ IsTree(D, R) /\ Typed(s.view, D)
      /\ Sound(s.view, D)
  BY DEF Held, Shape, ReadBack
<1>2. IF dir.s.status = "running" THEN \E d : Placed(x, s, D, R, path, dir, d)
      ELSE Lost(x, dir.s) /\ dir.i = 0
  BY <1>1, NavigatePath
<1>. HIDE DEF dir
<1>3. CASE dir.s.status # "running"
  <2>1. f = dir
    BY <1>3 DEF FindFile
  <2>. QED
    BY <1>2, <1>3, <2>1 DEF dir
<1>4. CASE dir.s.status = "running"
  <2>1. PICK d : Placed(x, s, D, R, path, dir, d)
    BY <1>2, <1>4
  <2>2. /\ Ready(x, dir.s) /\ Same(s, dir.s) /\ Stands(dir, D, d)
        /\ dir.s.view = s.view
    BY <2>1 DEF Placed, Same
  <2>3. Counted(dir.s, D, R)
    BY <1>1, <2>2 DEF Counted, Same
  <2>4. /\ Same(dir.s, f.s) /\ Traced(x, f.s)
        /\ IF f.s.status = "running"
             THEN Ready(x, f.s) /\ Found(f, dir.s.view, D, d, name)
             ELSE Stopped(x, dir.s, f)
    BY <2>2, <2>3, FindFileReady
  <2>. HIDE DEF f
  <2>5. CASE f.s.status # "running"
    BY <2>4, <2>5 DEF Stopped, Lost, f, dir
  <2>6. CASE f.s.status = "running"
    <3>1. Same(s, f.s) /\ Held(f.s, D, R)
      BY <2>2, <2>4, SameTwice, HeldSame
    <3>2. f.s.view = s.view /\ f.s.view = dir.s.view
      BY <2>2, <3>1 DEF Same
    <3>3. Found(f, f.s.view, D, d, name) /\ Typed(f.s.view, D)
      BY <1>1, <2>4, <2>6, <3>2
    <3>4. Shown(f, f.s.view, D, d, name)
      BY <1>1, <3>3, FoundEntry
    <3>5. f.i # 0
      BY <3>4 DEF Shown
    <3>6. LookedUp(x, s, D, R, path, dir, f, d, name)
      BY <2>1, <2>2, <2>4, <2>6, <3>1, <3>3, <3>4, <3>5 DEF LookedUp
    <3>. QED
      BY <2>6, <3>6 DEF f, dir
  <2>. QED
    BY <2>5, <2>6
<1>. QED
  BY <1>3, <1>4

\* A name of a file, in a path.
LEMMA FilePath ==
  ASSUME NEW path \in Seq(Directories), NEW name, HasExtension(name)
  PROVE  LET q == Append(path, name)
         IN /\ DirectoryNames(q) = path /\ LastName(q) = name /\ ParentPath(q) = path
            /\ name # NoName
<1>1. IsSeq(path)
  BY DEF IsSeq
<1>. QED
  BY <1>1, DirectoryNamesIs, PathEnds DEF HasExtension, NoName

\* write_file
LEMMA WriteFileReady ==
  ASSUME NEW x, NEW s, Ready(x, s), NEW D, NEW R, Held(s, D, R),
         NEW path \in Seq(Directories), NEW name, HasExtension(name), NEW units, IsSeq(units)
  PROVE  Outcome(x, WriteFile(s, Append(path, name), units))
<1>. DEFINE q == Append(path, name)
            dir == NavigateDir(s, q)
            f == FindFile(dir, name)
<1>1. DirectoryNames(q) = path /\ LastName(q) = name /\ name # NoName
  BY FilePath
<1>2. WriteFile(s, q, units) = WriteEntry(dir, f, units)
  BY <1>1 DEF WriteFile
<1>3. IF f.s.status = "running" THEN \E d : LookedUp(x, s, D, R, path, dir, f, d, name)
      ELSE Lost(x, f.s) /\ f.i = 0
  BY <1>1, LookupReady
<1>. HIDE DEF f, dir
<1>4. CASE f.s.status # "running"
  <2>1. WriteEntry(dir, f, units) = f.s
    BY <1>3, <1>4 DEF WriteEntry
  <2>. QED
    BY <1>2, <1>3, <1>4, <2>1, OutcomeLost
<1>5. CASE f.s.status = "running"
  <2>. DEFINE e == f.buf[f.i]
              n == Len(units)
              t == WriteFileData(f.s, e, units).s
  <2>1. PICK d : LookedUp(x, s, D, R, path, dir, f, d, name)
    BY <1>3, <1>5
  <2>2. /\ Ready(x, f.s) /\ Held(f.s, D, R) /\ Stands(dir, D, d) /\ f.i # 0
        /\ Buffer(f.s.view, D, d, f.buf)
    BY <2>1 DEF LookedUp, Found
  <2>3. Lies(f.s.view, D, d, f.i, e) /\ Good(e) /\ e.attributes = "file"
    BY <2>1 DEF LookedUp, Shown
  <2>4. Outcome(x, EditFile(Known(t, e.cluster, units), dir,
                            WithEntry(f.buf, f.i, Resized(e, n))))
    <3>. HIDE DEF e
    <3>. QED
      BY <2>2, <2>3, WriteBothReady
  <2>5. WriteEntry(dir, f, units) =
          EditFile(Known(t, e.cluster, units), dir, WithEntry(f.buf, f.i, Resized(e, n)))
    <3>1. WriteFileData(f.s, e, units).entry = Resized(e, n)
      BY DEF WriteFileData, Resized
    <3>2. WriteEntry(dir, f, units) =
            EditFile([t EXCEPT !.written[Resized(e, n).cluster] = units], dir,
                     WithEntry(f.buf, f.i, Resized(e, n)))
      BY <2>2, <3>1 DEF WriteEntry
    <3>3. Resized(e, n).cluster = e.cluster
      BY <2>3, ResizedGood, SeqIsFunction
    <3>. QED
      BY <3>2, <3>3 DEF Known
  <2>. QED
    BY <1>2, <2>4, <2>5
<1>. QED
  BY <1>4, <1>5

\* A call that has changed an entry, but not the size of a file, is complete.
LEMMA RevisedOutcome ==
  ASSUME NEW x, NEW s, NEW D, NEW R, Held(s, D, R), NEW t, NEW d, NEW k, NEW e, NEW g,
         Revised(x, s, t, D, R, d, k, e, g), g.size = e.size
  PROVE  Outcome(x, t)
<1>. DEFINE v == s.view
            w == t.view
<1>1. /\ Shape(v, D, R, {}) /\ ReadBack(v, D, s.written, {}) /\ D[0] = s.root_entries
  BY DEF Held
<1>2. /\ Ready(x, t) /\ t.written = s.written /\ t.root_entries = s.root_entries
      /\ Edited(v, w, D, d, k, e, g) /\ Shape(w, D, R, {}) /\ Marked(w, D, {})
      /\ \A c \in Clusters : c \notin DOMAIN D => w.data[c] = v.data[c]
  BY DEF Revised
<1>3. \A y, j, f : Lies(w, D, y, j, f) =>
        IF y = d /\ j = k THEN f = g ELSE Lies(v, D, y, j, f)
  BY <1>2, EditedLies
<1>4. Lies(v, D, d, k, e) /\ g.cluster = e.cluster /\ g.attributes = e.attributes
  BY <1>2 DEF Edited
<1>5. ASSUME NEW y, NEW j, NEW f, Lies(w, D, y, j, f), f.attributes = "file",
             f.size <= EntriesPerSector
      PROVE  SubSeq(w.data[f.cluster], 1, f.size) = t.written[f.cluster]
  <2>1. PICK h : /\ Lies(v, D, y, j, h) /\ h.cluster = f.cluster
                 /\ h.attributes = f.attributes /\ h.size = f.size
    BY <1>3, <1>4, <1>5
  <2>2. f.cluster \in Clusters /\ f.cluster \notin DOMAIN D
    BY <1>1, <1>5, <2>1 DEF Shape, Linked, Enterable, ReadBack, Sound
  <2>3. SubSeq(v.data[h.cluster], 1, h.size) = s.written[h.cluster]
    BY <1>1, <1>5, <2>1 DEF ReadBack
  <2>. QED
    BY <1>2, <2>1, <2>2, <2>3
<1>6. Sound(w, D)
  BY <1>1, <1>3, <1>4 DEF ReadBack, Sound
<1>7. Held(t, D, R)
  BY <1>1, <1>2, <1>5, <1>6 DEF Held, ReadBack
<1>. QED
  BY <1>2, <1>7, ReadyParts DEF Outcome

\* The entry with its new name.
LEMMA RenamedGood ==
  ASSUME NEW e, Good(e), NEW new \in Names, new # NoName,
         HasExtension(e.name) <=> HasExtension(new)
  PROVE  LET g == CreateFilename(e, new)
         IN /\ Good(g) /\ g.cluster = e.cluster /\ g.attributes = e.attributes
            /\ g.size = e.size
<1>. DEFINE g == CreateFilename(e, new)
<1>1. /\ e \in EntryType /\ e.name \in Names
      /\ e = [field \in EntryFields |-> e[field]]
      /\ e.attributes = "file" <=> HasExtension(e.name)
  BY DEF Good, EntryType, EntryFields
<1>2. /\ g = [field \in EntryFields |-> g[field]] /\ g.name = NameOver(e.name, new)
      /\ g.attributes = e.attributes /\ g.cluster = e.cluster /\ g.size = e.size
  BY <1>1, CreateFilenameIs
<1>3. /\ NameOver(e.name, new) \in Names /\ NameOver(e.name, new) # NoName
      /\ HasExtension(NameOver(e.name, new)) <=> HasExtension(new)
  BY <1>1, NameReplaced
<1>. HIDE DEF g
<1>4. g \in EntryType
  <2>1. /\ g.name \in Names /\ g.attributes \in {"file", "directory"}
        /\ g.cluster \in Given /\ g.size \in Nat
    BY <1>1, <1>2, <1>3 DEF EntryType
  <2>. QED
    BY <1>2, <2>1 DEF EntryType, EntryFields
<1>. QED
  BY <1>1, <1>2, <1>3, <1>4 DEF Good, g

\* rename_file
LEMMA RenameFileReady ==
  ASSUME NEW x, NEW s, Ready(x, s), NEW D, NEW R, Held(s, D, R),
         NEW path \in Seq(Directories), NEW name, name # NoName, NEW new \in Names,
         new # NoName, HasExtension(name) <=> HasExtension(new)
  PROVE  Outcome(x, RenameFile(s, Append(path, name), new))
<1>. DEFINE dir == NavigateDir(s, path)
            f == FindFile(dir, name)
<1>1. LastName(Append(path, name)) = name /\ ParentPath(Append(path, name)) = path
  BY PathEnds DEF IsSeq
<1>2. RenameFile(s, Append(path, name), new) = RenameEntry(dir, f, new)
  BY <1>1 DEF RenameFile
<1>3. IF f.s.status = "running" THEN \E d : LookedUp(x, s, D, R, path, dir, f, d, name)
      ELSE Lost(x, f.s) /\ f.i = 0
  BY DirectoryNamesIs, LookupReady
<1>. HIDE DEF f, dir
<1>4. CASE f.s.status # "running"
  <2>1. RenameEntry(dir, f, new) = f.s
    BY <1>3, <1>4 DEF RenameEntry
  <2>. QED
    BY <1>2, <1>3, <1>4, <2>1, OutcomeLost
<1>5. CASE f.s.status = "running"
  <2>. DEFINE e == f.buf[f.i]
              g == CreateFilename(e, new)
              u == WithEntry(f.buf, f.i, g)
  <2>1. PICK d : LookedUp(x, s, D, R, path, dir, f, d, name)
    BY <1>3, <1>5
  <2>2. /\ Ready(x, f.s) /\ Held(f.s, D, R) /\ Stands(dir, D, d) /\ f.i # 0
        /\ Buffer(f.s.view, D, d, f.buf)
    BY <2>1 DEF LookedUp, Found
  <2>3. /\ Lies(f.s.view, D, d, f.i, e) /\ Good(e)
        /\ e.attributes = "file" <=> HasExtension(name)
    BY <2>1 DEF LookedUp, Shown
  <2>4. /\ Shape(f.s.view, D, R, {}) /\ Marked(f.s.view, D, {}) /\ Counted(f.s, D, R)
        /\ D[d] \in Nat /\ e.cluster \in Clusters
    BY <2>2, <2>3 DEF Held, Counted, Shape, IsTree, Stands, ReadBack, Sound
  <2>5. RenameEntry(dir, f, new) = EditFile(f.s, dir, u)
    BY <2>2 DEF RenameEntry
  <2>. HIDE DEF e
  <2>6. /\ Good(g) /\ g.cluster = e.cluster /\ g.attributes = e.attributes
        /\ g.size = e.size
    <3>1. HasExtension(e.name) <=> HasExtension(new)
      BY <2>3 DEF Good
    <3>. QED
      BY <2>3, <3>1, RenamedGood
  <2>. HIDE DEF g
  <2>7. Replaces(e, g, D)
    BY <2>3, <2>4, <2>6 DEF Replaces, Shape, Linked, Enterable
  <2>8. Changed(f.s.view, D, d, f.i, g, u)
    BY <2>2, <2>4, WithEntryIs
  <2>9. \/ Lost(x, EditFile(f.s, dir, u))
        \/ Revised(x, f.s, EditFile(f.s, dir, u), D, R, d, f.i, e, g)
    <3>. HIDE DEF u
    <3>. QED
      BY <2>2, <2>3, <2>4, <2>7, <2>8, EditReady
  <2>10. Outcome(x, EditFile(f.s, dir, u))
    <3>. HIDE DEF u
    <3>. QED
      BY <2>2, <2>6, <2>9, OutcomeLost, RevisedOutcome
  <2>. QED
    BY <1>2, <2>5, <2>10
<1>. QED
  BY <1>4, <1>5

\* The copy is written with what is read of the old file.
LEMMA FillReady ==
  ASSUME NEW x, NEW s, Outcome(x, s), NEW e, Good(e), e.cluster \in Clusters,
         NEW path \in Seq(Directories), NEW name, HasExtension(name)
  PROVE  Outcome(x, Fill(s, e, Append(path, name)))
<1>. DEFINE q == Append(path, name)
            r == ReadFile(s, e)
            units == SubSeq(r.units, 1, e.size)
<1>1. CASE s.status # "running"
  <2>1. Fill(s, e, q) = s
    BY <1>1 DEF Fill
  <2>. QED
    BY <2>1
<1>2. CASE s.status = "running"
  <2>1. Ready(x, s)
    BY <1>2 DEF Outcome
  <2>2. PICK D, R : Held(s, D, R)
    BY <1>2 DEF Outcome
  <2>3. e.cluster \in Clusters /\ e.size \in Nat
    BY DEF Good, EntryType
  <2>4. Ready(x, r.s) /\ Same(s, r.s)
    BY <2>1, <2>3, ReadFileReady
  <2>5. Held(r.s, D, R)
    BY <2>2, <2>4, HeldSame
  <2>6. IsSeq(units)
    BY <2>3, SeqPrefix
  <2>7. Fill(s, e, q) = WriteFile(r.s, q, units)
    BY <1>2 DEF Fill
  <2>. HIDE DEF r, units
  <2>. QED
    BY <2>4, <2>5, <2>6, <2>7, WriteFileReady
<1>. QED
  BY <1>1, <1>2

\* What is found by a name has it.
LEMMA FoundName ==
  ASSUME NEW v, NEW D, NEW d, NEW name, NEW f, Found(f, v, D, d, name), Shown(f, v, D, d, name)
  PROVE  FullName(f.buf[f.i]) = name
BY DEF Found, First, Shown

\* copy_file
LEMMA CopyFileReady ==
  ASSUME NEW x, NEW s, Ready(x, s), NEW D, NEW R, Held(s, D, R),
         NEW path \in Seq(Directories), NEW name \in Names, HasExtension(name),
         NEW newPath \in Seq(Directories), NEW behind \in Behind
  PROVE  Outcome(x, CopyFile(s, Append(path, name), newPath, behind))
<1>. DEFINE q == Append(path, name)
            dir == NavigateDir(s, q)
            f == FindFile(dir, name)
            e == f.buf[f.i]
            made == CreateFile(f.s, FullName(e), newPath, e.attributes, behind)
<1>1. DirectoryNames(q) = path /\ LastName(q) = name /\ name # NoName
  BY FilePath
<1>2. CopyFile(s, q, newPath, behind) = CopyEntry(f, newPath, behind)
  BY <1>1 DEF CopyFile, NavigateFile
<1>3. IF f.s.status = "running" THEN \E d : LookedUp(x, s, D, R, path, dir, f, d, name)
      ELSE Lost(x, f.s) /\ f.i = 0
  BY <1>1, LookupReady
<1>. HIDE DEF f, dir
<1>4. CASE f.s.status # "running"
  <2>1. CopyEntry(f, newPath, behind) = f.s
    BY <1>3, <1>4 DEF CopyEntry
  <2>. QED
    BY <1>2, <1>3, <1>4, <2>1, OutcomeLost
<1>5. CASE f.s.status = "running"
  <2>1. PICK d : LookedUp(x, s, D, R, path, dir, f, d, name)
    BY <1>3, <1>5
  <2>2. Ready(x, f.s) /\ Held(f.s, D, R) /\ f.i # 0
    BY <2>1 DEF LookedUp
  <2>3. /\ Good(e) /\ e.attributes = "file" /\ e.cluster \in Clusters /\ FullName(e) = name
    <3>1. /\ Found(f, f.s.view, D, d, name) /\ Shown(f, f.s.view, D, d, name)
          /\ Sound(f.s.view, D)
      BY <2>1 DEF LookedUp, Held, ReadBack
    <3>2. FullName(e) = name
      BY <3>1, FoundName
    <3>3. Lies(f.s.view, D, d, f.i, e) /\ Good(e) /\ e.attributes = "file"
      BY <3>1 DEF Shown
    <3>. QED
      BY <3>1, <3>2, <3>3 DEF Sound
  <2>4. CopyEntry(f, newPath, behind) = Fill(made, e, Append(newPath, FullName(e)))
    BY <2>2 DEF CopyEntry
  <2>. HIDE DEF e
  <2>5. FullName(e) \in Names /\ HasExtension(FullName(e)) /\ FullName(e) # NoName
    BY <1>1, <2>3
  <2>6. Outcome(x, made)
    <3>. DEFINE new == FullName(e)
                kind == e.attributes
    <3>1. /\ new \in Names /\ new # NoName /\ kind \in {"file", "directory"}
          /\ kind = "file" <=> HasExtension(new)
      BY <2>3, <2>5
    <3>. HIDE DEF new, kind
    <3>2. Outcome(x, CreateFile(f.s, new, newPath, kind, behind))
      BY <2>2, <3>1, CreateFileReady
    <3>. QED
      BY <3>2 DEF new, kind
  <2>. HIDE DEF made
  <2>. QED
    BY <1>2, <2>3, <2>4, <2>5, <2>6, FillReady
<1>. QED
  BY <1>4, <1>5

-----------------------------------------------------------------------------
(* Deletion.                                                                *)

\* What remove_dir_entry reads at the j-th place, and what it makes of it.
ReadAt(units, j) == IF j <= Len(units) THEN units[j] ELSE Junk
Looked(at, u, name) ==
  IF u # Junk /\ FullName(u) = name THEN [at EXCEPT !.j = @ + 1]
  ELSE [j |-> at.j + 2, first |-> u]
SolvesLook(f, units, size, name) ==
  f = [k \in 0..size |-> IF k = 0 THEN [j |-> 1, first |-> Junk]
                         ELSE Looked(f[k - 1], ReadAt(units, f[k - 1].j), name)]

\* What is left of two entries.
LEMMA RemainingOfTwo ==
  ASSUME NEW units, NEW name
  PROVE  LET at0 == [j |-> 1, first |-> Junk]
             at1 == Looked(at0, ReadAt(units, 1), name)
             at2 == Looked(at1, ReadAt(units, at1.j), name)
         IN Remaining(units, 2, name) = [k \in 1..1 |-> at2.first]
<1>. DEFINE at0 == [j |-> 1, first |-> Junk]
            at1 == Looked(at0, ReadAt(units, 1), name)
            at2 == Looked(at1, ReadAt(units, at1.j), name)
            at == CHOOSE f : SolvesLook(f, units, 2, name)
            h == [k \in 0..2 |-> IF k = 0 THEN at0 ELSE IF k = 1 THEN at1 ELSE at2]
<1>1. Remaining(units, 2, name) = [k \in 1..(2 - 1) |-> IF k = 1 THEN at[2].first ELSE Junk]
  BY Zenon DEF Remaining, SolvesLook, Looked, ReadAt
<1>2. at0.j = 1
  OBVIOUS
<1>. HIDE DEF at0
<1>3. at1 = Looked(at0, ReadAt(units, at0.j), name)
  BY <1>2
<1>4. at2 = Looked(at1, ReadAt(units, at1.j), name)
  OBVIOUS
<1>. HIDE DEF at1, at2
<1>5. h[0] = at0 /\ h[1] = at1 /\ h[2] = at2
  OBVIOUS
<1>6. h = [k \in 0..2 |-> IF k = 0 THEN at0
                          ELSE Looked(h[k - 1], ReadAt(units, h[k - 1].j), name)]
  <2>1. ASSUME NEW k \in 0..2
        PROVE  h[k] = IF k = 0 THEN at0
                      ELSE Looked(h[k - 1], ReadAt(units, h[k - 1].j), name)
    <3>1. k = 0 \/ k = 1 \/ k = 2
      OBVIOUS
    <3>. HIDE DEF h
    <3>. QED
      BY <1>3, <1>4, <1>5, <3>1
  <2>. QED
    BY <2>1
<1>7. SolvesLook(h, units, 2, name)
  BY <1>6 DEF SolvesLook, at0
<1>. HIDE DEF h
<1>8. SolvesLook(at, units, 2, name)
  BY <1>7
<1>. HIDE DEF at
<1>9. \A k \in 0..2 : at[k] = IF k = 0 THEN at0
                              ELSE Looked(at[k - 1], ReadAt(units, at[k - 1].j), name)
  BY <1>8 DEF SolvesLook, at0
<1>10. at[0] = at0
  BY <1>9
<1>11. at[1] = at1
  BY <1>3, <1>9, <1>10
<1>12. at[2] = at2
  BY <1>4, <1>9, <1>11
<1>13. Remaining(units, 2, name) = [k \in 1..1 |-> at2.first]
  BY <1>1, <1>12
<1>. QED
  BY <1>13 DEF at2, at1, at0

\* What is left of directory d, without the entry at the i-th place, is known.
Leaves(v, D, d, i, q) ==
  /\ D[d] \in {1, 2}
  /\ D[d] = 2 => \/ i = 1 /\ 2 \in 1..Room(d) /\ q[1] = Unit(v, d, 2)
                 \/ d # 0 /\ q[1] = Blank

\* The new contents of the directory.
LEMMA RemainingIs ==
  ASSUME NEW v, NEW D, NEW R, IsTree(D, R), Tidy(v, D), NEW d, NEW u, Buffer(v, D, d, u),
         NEW name, name # NoName, NEW i, First(v, D, d, name, i)
  PROVE  LET q == Remaining(u, D[d], name)
         IN /\ IsSeq(q) /\ Len(q) = D[d] - 1
            /\ Junk \notin ToSet(q) => Leaves(v, D, d, i, q)
<1>. DEFINE n == D[d]
            q == Remaining(u, n, name)
<1>1. /\ d \in DOMAIN D /\ n \in Nat /\ i \in 1..Room(d) /\ i <= n /\ Room(d) \in Nat
      /\ i \in Nat /\ i >= 1
  BY Constants DEF First, At, IsTree, Room
<1>2. n >= 1 /\ n - 1 \in Nat
  BY <1>1
<1>3. \E a : q = [k \in 1..(n - 1) |-> IF k = 1 THEN a ELSE Junk]
  <2>. DEFINE at == CHOOSE f : SolvesLook(f, u, n, name)
  <2>. HIDE DEF n
  <2>1. q = [k \in 1..(n - 1) |-> IF k = 1 THEN at[n].first ELSE Junk]
    BY Zenon DEF Remaining, SolvesLook, Looked, ReadAt
  <2>. HIDE DEF at, q
  <2>. QED
    BY <2>1
<1>4. IsSeq(q) /\ Len(q) = n - 1 /\ DOMAIN q = 1..(n - 1)
  <2>1. q = [k \in 1..(n - 1) |-> q[k]]
    BY <1>3
  <2>. HIDE DEF q, n
  <2>2. n - 1 \in Nat
    BY <1>2
  <2>. QED
    BY <2>1, <2>2, FunctionIsSeq
<1>5. ASSUME Junk \notin ToSet(q) PROVE Leaves(v, D, d, i, q)
  <2>1. \A k \in 1..(n - 1) : q[k] # Junk
    <3>. HIDE DEF q, n
    <3>. QED
      BY <1>4, <1>5 DEF ToSet
  <2>2. n <= 2
    <3>1. ASSUME n > 2 PROVE FALSE
      <4>1. 2 \in 1..(n - 1)
        BY <1>1, <3>1
      <4>2. q[2] = Junk
        <5>. HIDE DEF q, n
        <5>. QED
          BY <1>3, <4>1
      <4>. QED
        BY <2>1, <4>1, <4>2
    <3>. QED
      BY <1>1, <3>1
  <2>3. CASE n = 1
    BY <2>3 DEF Leaves
  <2>4. CASE n = 2
    <3>. DEFINE at0 == [j |-> 1, first |-> Junk]
                at1 == Looked(at0, ReadAt(u, 1), name)
                at2 == Looked(at1, ReadAt(u, at1.j), name)
    <3>1. q = [k \in 1..1 |-> at2.first]
      BY <2>4, RemainingOfTwo
    <3>2. q[1] = at2.first /\ q[1] # Junk
      <4>1. q[1] = at2.first
        <5>. HIDE DEF q, at2
        <5>. QED
          BY <3>1
      <4>2. q[1] # Junk
        <5>. HIDE DEF q
        <5>. QED
          BY <2>1, <2>4
      <4>. QED
        BY <4>1, <4>2
    <3>. HIDE DEF q
    <3>3. /\ IsSeq(u) /\ 2 <= Len(u) /\ Len(u) \in Nat /\ (d = 0 => Len(u) = 2)
          /\ \A k \in 1..Len(u) : u[k] = IF k <= Room(d) THEN Unit(v, d, k) ELSE Junk
      BY <2>4, SeqIsFunction DEF Buffer
    <3>4. i = 1 \/ i = 2
      BY <1>1, <2>4
    <3>5. ReadAt(u, 1) = Unit(v, d, 1) /\ ReadAt(u, 2) = IF 2 <= Room(d) THEN Unit(v, d, 2) ELSE Junk
      BY <1>1, <3>3 DEF ReadAt
    <3>6. CASE i = 1
      <4>1. Unit(v, d, 1) # Junk /\ FullName(Unit(v, d, 1)) = name
        BY <3>6 DEF First
      <4>2. at1 = [j |-> 2, first |-> Junk]
        BY <3>5, <4>1 DEF Looked
      <4>. HIDE DEF at1
      <4>3. at2 = Looked(at1, ReadAt(u, 2), name)
        BY <4>2
      <4>4. at2.first = Junk \/ at2.first = ReadAt(u, 2)
        BY <4>2, <4>3 DEF Looked
      <4>. HIDE DEF at2
      <4>5. q[1] = ReadAt(u, 2) /\ ReadAt(u, 2) # Junk
        BY <3>2, <4>4
      <4>6. 2 <= Room(d) /\ q[1] = Unit(v, d, 2)
        BY <3>5, <4>5
      <4>. QED
        BY <1>1, <2>4, <3>6, <4>6 DEF Leaves
    <3>7. CASE i = 2
      <4>1. Unit(v, d, 1) # Junk /\ FullName(Unit(v, d, 1)) # name
        BY <3>7 DEF First
      <4>2. at1 = [j |-> 3, first |-> Unit(v, d, 1)]
        BY <3>5, <4>1 DEF Looked
      <4>. HIDE DEF at1
      <4>3. at2 = Looked(at1, ReadAt(u, 3), name)
        BY <4>2
      <4>4. ReadAt(u, 3) = Junk \/ (d # 0 /\ ReadAt(u, 3) = Blank)
        <5>1. CASE 3 <= Len(u)
          <6>1. d # 0 /\ ReadAt(u, 3) = IF 3 <= Room(d) THEN Unit(v, d, 3) ELSE Junk
            BY <3>3, <5>1 DEF ReadAt
          <6>2. ASSUME 3 <= Room(d) PROVE Unit(v, d, 3) = Blank
            <7>1. 3 \in 1..Room(d) /\ 3 > D[d] /\ D[d] > 0
              BY <1>1, <2>4, <6>2
            <7>. QED
              BY <1>1, <7>1 DEF Tidy
          <6>. QED
            BY <6>1, <6>2
        <5>2. CASE ~ (3 <= Len(u))
          BY <5>2 DEF ReadAt
        <5>. QED
          BY <5>1, <5>2
      <4>5. FullName(ReadAt(u, 3)) # name \/ ReadAt(u, 3) = Junk
        BY <4>4, FullNameBlank
      <4>6. at2.first = ReadAt(u, 3)
        BY <4>3, <4>5 DEF Looked
      <4>. HIDE DEF at2
      <4>7. d # 0 /\ q[1] = Blank
        BY <3>2, <4>4, <4>6
      <4>. QED
        BY <2>4, <4>7 DEF Leaves
    <3>. QED
      BY <3>4, <3>6, <3>7
  <2>. QED
    BY <1>1, <1>2, <2>2, <2>3, <2>4
<1>. QED
  BY <1>4, <1>5

\* The disk t is s, but for the mark of cluster c.
Cleared(s, t, c) ==
  /\ t.view.root = s.view.root /\ t.view.data = s.view.data
  /\ \A b \in Clusters : b # c => t.view.fat[b] = s.view.fat[b]
  /\ t.written = s.written /\ t.root_entries = s.root_entries

\* fat_delete_file, of a chain of one cluster.
LEMMA FatDeleteFileReady ==
  ASSUME NEW x, NEW s, Ready(x, s), NEW c \in Clusters
  PROVE  LET t == FatDeleteFile(s, c) IN Ready(x, t) /\ Cleared(s, t, c)
<1>. DEFINE v == s.view
            r == FatRead(s)
            chain == ToSet(Chain(r.fat, c))
            o == [r EXCEPT !.fat = [b \in DOMAIN @ |-> IF b \in chain THEN 0 ELSE @[b]]]
            t == FatDeleteFile(s, c)
<1>1. Ready(x, r) /\ Same(s, r) /\ r.fat = v.fat
  BY FatReadReady
<1>2. t = FatWrite(o)
  BY DEF FatDeleteFile
<1>3. /\ MemoryOK(r) /\ RootCoherent(r) /\ Traced(x, r) /\ r.status = "running"
      /\ Sectored(r.root_entries) <= RootEntries /\ FatOK(r.fat)
      /\ r.view.fat[0] = FAT_SIGNATURE /\ r = [field \in Fields |-> r[field]]
  BY <1>1, ReadyParts
<1>. HIDE DEF r
<1>4. /\ o = [field \in Fields |-> o[field]]
      /\ o.was_fat_read = r.was_fat_read /\ o.root = r.root
      /\ o.was_root_read = r.was_root_read /\ o.root_entries = r.root_entries
      /\ o.view = r.view /\ o.writes = r.writes /\ o.status = r.status /\ o.calls = r.calls
      /\ o.written = r.written
      /\ o.fat = [b \in DOMAIN r.fat |-> IF b \in chain THEN 0 ELSE r.fat[b]]
  BY <1>3 DEF Fields
<1>5. chain = {c}
  <2>1. Chain(r.fat, c) = <<c>>
    BY <1>3, ChainIs
  <2>. QED
    BY <2>1 DEF ToSet
<1>. HIDE DEF chain, o
<1>6. /\ FatOK(o.fat) /\ o.fat[0] = FAT_SIGNATURE
      /\ \A b \in Clusters : b # c => o.fat[b] = v.fat[b]
  <2>1. c # 0 /\ c \in 0..ClusterCount /\ \A b \in Clusters : b \in 0..ClusterCount
    BY Constants
  <2>2. r.fat[0] = FAT_SIGNATURE
    BY <1>1, <1>3 DEF Same
  <2>3. o.fat = [b \in DOMAIN r.fat |-> IF b = c THEN 0 ELSE r.fat[b]] /\ r.fat = v.fat
    BY <1>1, <1>4, <1>5
  <2>4. /\ r.fat \in [0..ClusterCount -> {0, EOC, FAT_SIGNATURE}]
        /\ \A b \in Clusters : r.fat[b] \in {0, EOC}
    BY <1>3 DEF FatOK
  <2>5. /\ o.fat \in [0..ClusterCount -> {0, EOC, FAT_SIGNATURE}] /\ o.fat[c] = 0
        /\ \A b \in 0..ClusterCount : b # c => o.fat[b] = r.fat[b]
    <3>1. o.fat = [b \in 0..ClusterCount |-> IF b = c THEN 0 ELSE r.fat[b]]
      <4>1. DOMAIN r.fat = 0..ClusterCount
        BY <2>4
      <4>. QED
        BY <2>3, <4>1
    <3>2. \A b \in 0..ClusterCount : o.fat[b] = IF b = c THEN 0 ELSE r.fat[b]
      BY <3>1
    <3>3. \A b \in 0..ClusterCount : o.fat[b] \in {0, EOC, FAT_SIGNATURE}
      BY <2>4, <3>2
    <3>. QED
      BY <2>1, <3>1, <3>2, <3>3
  <2>6. 0 \in 0..ClusterCount
    BY Constants
  <2>. QED
    BY <2>1, <2>2, <2>3, <2>4, <2>5, <2>6 DEF FatOK
<1>7. MemoryOK(o)
  BY <1>3, <1>4, <1>6 DEF MemoryOK
<1>8. Traced(x, o) /\ RootCoherent(o) /\ Sectored(o.root_entries) <= RootEntries
  BY <1>3, <1>4 DEF Traced, IsMemory, RootCoherent
<1>9. /\ Ready(x, t) /\ t.view = [o.view EXCEPT !.fat = o.fat]
      /\ t.written = o.written /\ t.root_entries = o.root_entries
  BY <1>2, <1>3, <1>4, <1>6, <1>7, <1>8, FatWriteReady
<1>10. /\ t.view.root = v.root /\ t.view.data = v.data /\ t.view.fat = o.fat
       /\ t.written = s.written /\ t.root_entries = s.root_entries
  <2>1. o.view = v /\ t.root_entries = s.root_entries /\ t.written = s.written
    BY <1>1, <1>4, <1>9 DEF Same
  <2>2. v = [field \in DiskFields |-> v[field]]
    BY ReadyParts DEF DiskOK
  <2>. QED
    BY <1>9, <2>1, <2>2 DEF DiskFields
<1>. QED
  BY <1>6, <1>9, <1>10 DEF Cleared

\* The tree when the mark of the cluster of an entry is gone.
Cut(v, D, R, written, c) ==
  Shape(v, D, R, {}) /\ Marked(v, D, {c}) /\ ReadBack(v, D, written, {})

\* It is what is left once fat_delete_file has given the cluster back.
LEMMA ClearedTree ==
  ASSUME NEW s, NEW D, NEW R, Held(s, D, R), NEW t, NEW c, Cleared(s, t, c)
  PROVE  /\ Cut(t.view, D, R, t.written, c) /\ D[0] = t.root_entries
         /\ \A d, k : Unit(t.view, d, k) = Unit(s.view, d, k)
         /\ \A d, k, e : Lies(t.view, D, d, k, e) <=> Lies(s.view, D, d, k, e)
<1>. DEFINE v == s.view
            w == t.view
<1>1. /\ w.root = v.root /\ w.data = v.data /\ t.written = s.written
      /\ \A b \in Clusters : b # c => w.fat[b] = v.fat[b]
      /\ t.root_entries = s.root_entries
  BY DEF Cleared
<1>2. /\ Shape(v, D, R, {}) /\ Marked(v, D, {}) /\ ReadBack(v, D, s.written, {})
      /\ D[0] = s.root_entries
  BY DEF Held
<1>. HIDE DEF v, w
<1>3. \A d, k : Unit(w, d, k) = Unit(v, d, k)
  BY <1>1 DEF Unit
<1>4. /\ \A d, k, e : Lies(w, D, d, k, e) <=> Lies(v, D, d, k, e)
      /\ Shape(w, D, R, {})
  BY <1>2, <1>3, SameTree DEF SameUnits
<1>5. Marked(w, D, {c})
  <2>1. ASSUME NEW d, NEW k, NEW e, Lies(w, D, d, k, e), e.cluster # c
        PROVE  Taken(w.fat, e.cluster)
    <3>1. Lies(v, D, d, k, e)
      BY <1>4, <2>1
    <3>2. e.cluster \in Clusters /\ v.fat[e.cluster] = EOC
      BY <1>2, <3>1 DEF Marked, Taken, ReadBack, Sound
    <3>. QED
      BY <1>1, <2>1, <3>2 DEF Taken
  <2>2. ASSUME NEW d \in DOMAIN D, d # 0, d # c PROVE w.fat[d] = EOC
    <3>1. d \in Clusters /\ v.fat[d] = EOC
      BY <1>2, <2>2 DEF Shape, IsTree, Marked
    <3>. QED
      BY <1>1, <2>2, <3>1
  <2>. QED
    BY <2>1, <2>2 DEF Marked
<1>6. ReadBack(w, D, t.written, {})
  BY <1>1, <1>2, <1>4 DEF ReadBack, Sound
<1>. QED
  BY <1>1, <1>2, <1>3, <1>4, <1>5, <1>6 DEF Cut, v, w

\* The root directory, written with what is left of two entries.
LEMMA RemovedRoot ==
  ASSUME NEW v, DiskOK(v), NEW D, NEW R, Shape(v, D, R, {}), D[0] = 2,
         NEW i, NEW q, Len(q) = 1, Leaves(v, D, 0, i, q), NEW w, w = RootWritten(v, q, 2)
  PROVE  /\ Removed(v, w, D, 0, i) /\ DiskOK(w) /\ RootOK(w.root)
         /\ w.fat = v.fat /\ w.data = v.data
<1>. DEFINE m == Sectored(2)
            b == Padded(q, m)
            r == Overwrite(v.root, b)
<1>1. 0 \in DOMAIN D /\ DOMAIN D \subseteq {0} \cup Clusters
  BY DEF Shape, IsTree
<1>2. RootOK(v.root)
  BY DEF DiskOK
<1>3. m \in Nat /\ (2 < m + EntriesPerSector) /\ m >= EntriesPerSector /\ m >= 1
  BY SectoredEntries, Constants
<1>4. i = 1 /\ 2 \in 1..RootEntries /\ q[1] = v.root[2]
  BY DEF Leaves, Room, Unit
<1>5. \A j \in 1..RootEntries : j > m => v.root[j] = Blank
  <2>1. ASSUME NEW j \in 1..RootEntries, j > m, j <= 2 PROVE v.root[j] = Blank
    <3>1. ~Stored(j)
      <4>1. j \in 1..2
        BY Constants, <2>1
      <4>. QED
        BY <2>1, <4>1, SectoredEntries
    <3>. QED
      BY <1>2, <3>1 DEF RootOK
  <2>2. ASSUME NEW j \in 1..RootEntries, ~ (j <= 2) PROVE v.root[j] = Blank
    <3>1. j > 2 /\ 2 \in Nat
      BY <2>2, Constants
    <3>2. Tidy(v, D) /\ j \in 1..Room(0)
      BY DEF Shape, Room
    <3>. QED
      BY <1>1, <3>1, <3>2 DEF Tidy, Unit
  <2>. QED
    BY <2>1, <2>2
<1>. HIDE DEF m
<1>6. b = [j \in 1..m |-> b[j]] /\ \A j \in 1..m : b[j] = IF j <= 1 THEN q[j] ELSE Blank
  BY <1>3 DEF Padded
<1>. HIDE DEF b
<1>7. /\ r = [j \in 1..RootEntries |-> r[j]]
      /\ \A j \in 1..RootEntries : r[j] = IF j <= m THEN b[j] ELSE v.root[j]
  <2>1. Len(b) = m
    BY <1>3, <1>6, FunctionIsSeq
  <2>2. DOMAIN v.root = 1..RootEntries
    BY <1>2 DEF RootOK
  <2>3. r = [j \in 1..RootEntries |-> IF j <= m THEN b[j] ELSE v.root[j]]
    BY <2>1, <2>2, Zenon DEF Overwrite
  <2>. QED
    BY <2>3
<1>. HIDE DEF r
<1>8. \A j \in 1..RootEntries : r[j] = IF j = 1 THEN v.root[2] ELSE Blank
  <2>1. SUFFICES ASSUME NEW j \in 1..RootEntries
                 PROVE  r[j] = IF j = 1 THEN v.root[2] ELSE Blank
    OBVIOUS
  <2>2. j \in Nat /\ j >= 1
    BY Constants
  <2>3. CASE j > m
    BY <1>3, <1>5, <1>7, <2>2, <2>3, Constants
  <2>4. CASE j <= m
    <3>1. j \in 1..m /\ r[j] = b[j]
      BY <1>3, <1>7, <2>2, <2>4
    <3>. QED
      BY <1>4, <1>6, <2>2, <3>1
  <2>. QED
    BY <1>3, <2>2, <2>3, <2>4
<1>9. RootOK(r)
  <2>1. ASSUME NEW j \in 1..RootEntries
        PROVE  MaybeEntry(r[j]) /\ (~Stored(j) => r[j] = Blank)
    <3>1. MaybeEntry(v.root[2]) /\ Stored(1)
      BY <1>2, <1>4, Constants DEF RootOK, Stored
    <3>. QED
      BY <1>8, <3>1 DEF MaybeEntry
  <2>. QED
    BY <1>7, <2>1 DEF RootOK
<1>10. w = [v EXCEPT !.root = r]
  BY DEF RootWritten, r, b, m
<1>11. DiskOK(w)
  BY <1>9, <1>10, DiskParts
<1>12. /\ w.fat = v.fat /\ w.data = v.data /\ w.root = r
       /\ \A j : Unit(w, 0, j) = r[j]
       /\ \A x \in Clusters : \A j : Unit(w, x, j) = Unit(v, x, j)
  BY <1>10, RootUnits
<1>13. ASSUME NEW x \in DOMAIN D, x # 0, NEW k \in 1..Room(x) PROVE Unit(w, x, k) = Unit(v, x, k)
  BY <1>1, <1>12, <1>13
<1>14. ASSUME NEW k \in 1..Room(0)
       PROVE  \/ Unit(w, 0, k) = Blank /\ k > 1
              \/ k = 1 /\ i = 1 /\ 2 \in 1..Room(0) /\ Unit(w, 0, k) = Unit(v, 0, 2)
  <2>1. k \in 1..RootEntries /\ Unit(w, 0, k) = r[k] /\ Unit(v, 0, 2) = v.root[2]
        /\ Room(0) = RootEntries
    BY <1>12 DEF Room, Unit
  <2>. QED
    BY <1>4, <1>8, <2>1, Constants
<1>15. Removed(v, w, D, 0, i)
  BY <1>13, <1>14 DEF Removed
<1>. QED
  BY <1>9, <1>11, <1>12, <1>15

\* The cluster of a directory, written with what is left of its entries.
LEMMA RemovedData ==
  ASSUME NEW v, DiskOK(v), NEW D, NEW R, Shape(v, D, R, {}), NEW d \in DOMAIN D, d # 0,
         NEW i, NEW q, Len(q) = D[d] - 1, Leaves(v, D, d, i, q), NEW w, w = FileWritten(v, d, q)
  PROVE  /\ Removed(v, w, D, d, i) /\ DiskOK(w) /\ (D[d] = 1 => w = v)
         /\ w.fat = v.fat /\ \A x \in Clusters : x # d => w.data[x] = v.data[x]
<1>1. DOMAIN D \subseteq {0} \cup Clusters /\ d \in Clusters /\ D[d] \in {1, 2}
  BY DEF Shape, IsTree, Leaves
<1>2. CASE D[d] = 1
  <2>1. w = v
    BY <1>2 DEF FileWritten
  <2>2. Removed(v, w, D, d, i)
    BY <1>2, <2>1 DEF Removed
  <2>. QED
    BY <2>1, <2>2
<1>3. CASE D[d] = 2
  <2>. DEFINE b == Padded(q, EntriesPerSector)
  <2>1. b[1] = q[1] /\ \A j \in 1..EntriesPerSector : j # 1 => b[j] = Blank
    BY <1>3, Constants DEF Padded
  <2>2. w = [v EXCEPT !.data[d] = b]
    BY <1>3 DEF FileWritten
  <2>3. DiskOK(w)
    BY <1>1, <2>2, DiskParts
  <2>. HIDE DEF b
  <2>4. /\ w.fat = v.fat /\ w.data[d] = b
        /\ \A x \in Clusters : x # d => w.data[x] = v.data[x]
        /\ \A x \in {0} \cup Clusters : x # d => \A k : Unit(w, x, k) = Unit(v, x, k)
    <3>1. /\ v = [field \in DiskFields |-> v[field]]
          /\ v.data = [c \in Clusters |-> v.data[c]]
      BY DEF DiskOK, DataOK
    <3>2. w = [v EXCEPT !.data = [v.data EXCEPT ![d] = b]]
      BY <2>2
    <3>3. w.fat = v.fat /\ w.root = v.root /\ w.data = [v.data EXCEPT ![d] = b]
      BY <3>1, <3>2 DEF DiskFields
    <3>4. w.data[d] = b /\ \A x \in Clusters : x # d => w.data[x] = v.data[x]
      BY <1>1, <3>1, <3>3
    <3>. QED
      BY <3>3, <3>4 DEF Unit
  <2>5. ASSUME NEW x \in DOMAIN D, x # d, NEW k \in 1..Room(x)
        PROVE  Unit(w, x, k) = Unit(v, x, k)
    BY <1>1, <2>4, <2>5
  <2>6. ASSUME NEW k \in 1..Room(d)
        PROVE  \/ Unit(w, d, k) = Blank /\ (d = 0 => k > 1)
               \/ k = 1 /\ i = 1 /\ 2 \in 1..Room(d) /\ Unit(w, d, k) = Unit(v, d, 2)
    <3>1. k \in 1..EntriesPerSector /\ Unit(w, d, k) = b[k]
      BY <2>4 DEF Room, Unit
    <3>2. k = 1 => b[k] = q[1]
      BY <2>1
    <3>. QED
      BY <1>3, <2>1, <3>1, <3>2 DEF Leaves
  <2>7. Removed(v, w, D, d, i)
    BY <1>1, <2>5, <2>6 DEF Removed
  <2>. QED
    BY <1>3, <2>3, <2>4, <2>7
<1>. QED
  BY <1>1, <1>2, <1>3

\* The entries are some of those of the other disk.
Fewer(v, D, w, F) == \A x, k, f : Lies(w, F, x, k, f) => \E l : Lies(v, D, x, l, f)

\* Files read back as they did when entries are gone.
LEMMA FewerReadBack ==
  ASSUME NEW v, NEW D, NEW R, Shape(v, D, R, {}), NEW written, ReadBack(v, D, written, {}),
         NEW w, NEW F, SameFiles(v, w, D), Fewer(v, D, w, F)
  PROVE  ReadBack(w, F, written, {})
<1>1. ASSUME NEW x, NEW k, NEW f, Lies(w, F, x, k, f), f.attributes = "file",
             f.size <= EntriesPerSector
      PROVE  SubSeq(w.data[f.cluster], 1, f.size) = written[f.cluster]
  <2>1. PICK l : Lies(v, D, x, l, f)
    BY <1>1 DEF Fewer
  <2>2. f.cluster \in Clusters /\ f.cluster \notin DOMAIN D
    BY <1>1, <2>1 DEF Shape, Linked, Enterable, ReadBack, Sound
  <2>3. SubSeq(v.data[f.cluster], 1, f.size) = written[f.cluster]
    BY <1>1, <2>1 DEF ReadBack
  <2>. QED
    BY <2>2, <2>3 DEF SameFiles
<1>2. Sound(w, F)
  BY DEF Fewer, ReadBack, Sound
<1>. QED
  BY <1>1, <1>2 DEF ReadBack

\* What is left of the tree, on a disk that may be written.
Pruned(v, D, w, F, R, d) ==
  /\ Shape(w, F, R, {d}) /\ Marked(w, F, {}) /\ Fewer(v, D, w, F)
  /\ d \in DOMAIN F /\ F[d] = D[d] - 1 /\ F[d] \in Nat
  /\ \A x \in DOMAIN F : x \in DOMAIN D /\ (x # d => F[x] = D[x])

\* The directories of F are those of D, but for c.
Without(F, D, c) == DOMAIN F = DOMAIN D \ {c}

\* The root directory keeps an entry, and nothing is written of a directory that keeps none.
Keeps(v, w, D, d) == (d = 0 => D[d] = 2) /\ (D[d] = 1 => w = v)

\* It is what is left once the entry is gone as well.
LEMMA PrunedTree ==
  ASSUME NEW v, NEW w, DiskOK(w), NEW D, NEW R, NEW written, NEW d, NEW i, NEW e,
         Lies(v, D, d, i, e), Cut(v, D, R, written, e.cluster), w.fat = v.fat,
         Removed(v, w, D, d, i), Keeps(v, w, D, d)
  PROVE  /\ Pruned(v, D, w, Shrunk(D, d, e.cluster), R, d) /\ NewMarked(v, w)
         /\ Without(Shrunk(D, d, e.cluster), D, e.cluster)
<1>. DEFINE F == Shrunk(D, d, e.cluster)
<1>1. Shape(v, D, R, {}) /\ Marked(v, D, {e.cluster}) /\ e.cluster \in Clusters
  BY DEF Cut, ReadBack, Sound
<1>2. /\ Shape(w, F, R, {d}) /\ Marked(w, F, {})
      /\ D[d] = 2 => Covers(w, F)
      /\ DOMAIN F = DOMAIN D \ {e.cluster} /\ d \in DOMAIN F /\ F[d] = D[d] - 1
      /\ \A x \in DOMAIN F : x # d => F[x] = D[x]
      /\ \A x, k, f : Lies(w, F, x, k, f) => \E l : Lies(v, D, x, l, f)
  BY <1>1, RemovedTree DEF Keeps
<1>. HIDE DEF F
<1>3. IsTree(F, R) /\ F[d] \in Nat
  BY <1>2 DEF Shape, IsTree
<1>4. Pruned(v, D, w, F, R, d)
  BY <1>2, <1>3 DEF Pruned, Fewer
<1>5. NewMarked(v, w)
  <2>1. CASE D[d] = 2
    BY <1>2, <1>3, <2>1, MarkedNew
  <2>2. CASE D[d] = 1
    BY <2>2 DEF NewMarked, Keeps
  <2>. QED
    BY <2>1, <2>2 DEF Removed
<1>. QED
  BY <1>2, <1>4, <1>5 DEF F, Without

\* A smaller count of the entries of the root directory, which are written.
Uncounted(s) == [s EXCEPT !.root_entries = @ - 1]

\* The memory is as good.
LEMMA UncountedReady ==
  ASSUME NEW x, NEW s, Ready(x, s), NEW n \in Nat, s.root_entries = n + 1
  PROVE  LET t == Uncounted(s)
         IN Ready(x, t) /\ t.view = s.view /\ t.written = s.written /\ t.root_entries = n
<1>. DEFINE t == Uncounted(s)
<1>1. /\ MemoryOK(s) /\ Coherent(s) /\ Traced(x, s) /\ s.status = "running"
      /\ s.view.fat[0] = FAT_SIGNATURE /\ Sectored(s.root_entries) <= RootEntries
      /\ s = [field \in Fields |-> s[field]]
  BY ReadyParts
<1>2. /\ t = [field \in Fields |-> t[field]]
      /\ t.fat = s.fat /\ t.was_fat_read = s.was_fat_read /\ t.root = s.root
      /\ t.was_root_read = s.was_root_read /\ t.written = s.written
      /\ t.view = s.view /\ t.writes = s.writes /\ t.status = s.status /\ t.calls = s.calls
      /\ t.root_entries = s.root_entries - 1
  BY <1>1 DEF Uncounted, Fields
<1>. HIDE DEF t
<1>3. t.root_entries = n
  BY <1>2
<1>4. MemoryOK(t)
  BY <1>1, <1>2, <1>3 DEF MemoryOK
<1>5. Traced(x, t)
  BY <1>1, <1>2 DEF Traced, IsMemory
<1>6. /\ Sectored(n) <= Sectored(n + 1) /\ Sectored(n) \in Nat /\ Sectored(n + 1) \in Nat
      /\ Sectored(n + 1) <= RootEntries
  BY <1>1, SectoredNext, SectoredEntries
<1>7. Coherent(t)
  <2>1. ASSUME t.was_root_read, NEW k \in 1..Sectored(t.root_entries)
        PROVE  t.root[k] = t.view.root[k]
    <3>1. k \in 1..Sectored(s.root_entries)
      BY <1>3, <1>6
    <3>. QED
      BY <1>1, <1>2, <2>1, <3>1 DEF Coherent
  <2>. QED
    BY <1>1, <1>2, <2>1 DEF Coherent
<1>8. Sectored(t.root_entries) <= RootEntries
  BY <1>3, <1>6, Constants
<1>. QED
  BY <1>1, <1>2, <1>3, <1>4, <1>5, <1>7, <1>8 DEF Ready, t

\* remove_dir_entry, in the root directory.
LEMMA RemoveRootReady ==
  ASSUME NEW x, NEW s, Ready(x, s), NEW D, NEW R, NEW i, NEW e, Lies(s.view, D, 0, i, e),
         Cut(s.view, D, R, s.written, e.cluster), D[0] = s.root_entries, D[0] = 2,
         NEW q, Len(q) = 1, Leaves(s.view, D, 0, i, q)
  PROVE  Outcome(x, Uncounted(RootWrite(s, q)))
<1>. DEFINE v == s.view
            w == RootWritten(v, q, 2)
            F == Shrunk(D, 0, e.cluster)
            r == RootWrite(s, q)
            t == Uncounted(r)
<1>1. /\ MemoryOK(s) /\ Coherent(s) /\ Traced(x, s) /\ s.status = "running"
      /\ s.view.fat[0] = FAT_SIGNATURE /\ Sectored(s.root_entries) <= RootEntries
      /\ DiskOK(v) /\ s.root_entries = 2
  BY ReadyParts
<1>2. Shape(v, D, R, {}) /\ ReadBack(v, D, s.written, {})
  BY DEF Cut
<1>3. /\ Removed(v, w, D, 0, i) /\ DiskOK(w) /\ RootOK(w.root)
      /\ w.fat = v.fat /\ w.data = v.data
  BY <1>1, <1>2, RemovedRoot
<1>. HIDE DEF w
<1>4. Pruned(v, D, w, F, R, 0) /\ NewMarked(v, w)
  <2>1. Keeps(v, w, D, 0)
    BY DEF Keeps
  <2>. QED
    BY <1>3, <2>1, PrunedTree
<1>5. /\ Ready(x, r) /\ r.view = w
      /\ r.written = s.written /\ r.root_entries = s.root_entries
  <2>1. s.was_fat_read => s.fat = s.view.fat
    BY <1>1 DEF Coherent
  <2>2. w = RootWritten(s.view, q, s.root_entries)
    BY <1>1 DEF w
  <2>. QED
    BY <1>1, <1>3, <1>4, <2>1, <2>2, RootWriteReady
<1>. HIDE DEF r, F
<1>6. Ready(x, t) /\ t.view = w /\ t.written = s.written /\ t.root_entries = 1
  <2>1. r.root_entries = 1 + 1 /\ 1 \in Nat
    BY <1>1, <1>5
  <2>2. Ready(x, t) /\ t.view = r.view /\ t.written = r.written /\ t.root_entries = 1
    BY <1>5, <2>1, UncountedReady
  <2>. QED
    BY <1>5, <2>2
<1>. HIDE DEF t
<1>7. Owes(t, F, R, 0)
  BY <1>4, <1>6 DEF Owes, Pruned
<1>8. ReadBack(t.view, F, t.written, {})
  <2>1. SameFiles(v, w, D) /\ Fewer(v, D, w, F)
    BY <1>3, <1>4 DEF SameFiles, Pruned
  <2>2. ReadBack(w, F, s.written, {})
    BY <1>2, <2>1, FewerReadBack
  <2>. QED
    BY <1>6, <2>2
<1>9. Outcome(x, t)
  BY <1>6, <1>7, <1>8, RootSettled
<1>. QED
  BY <1>9 DEF t, r

\* The directories on the way to d are the same when an entry of d is gone.
LEMMA PrunedWay ==
  ASSUME NEW v, NEW D, NEW R, NEW d, NEW i, NEW e, Lies(v, D, d, i, e), Linked(v, D, R, {}),
         IsTree(D, R), NEW w, NEW F, Removed(v, w, D, d, i), Pruned(v, D, w, F, R, d),
         Without(F, D, e.cluster), NEW g, NEW n,
         \A m \in 0..(n - 1) : g[m] \in DOMAIN D /\ R[g[m]] < R[d]
  PROVE  SameWay(v, D, w, F, g, n)
<1>1. ASSUME NEW m \in 0..(n - 1) PROVE SameDirectory(v, D, w, F, g[m])
  <2>. DEFINE y == g[m]
  <2>1. y \in DOMAIN D /\ R[y] < R[d] /\ d \in DOMAIN D
    BY DEF Lies, At
  <2>. HIDE DEF y
  <2>2. R[y] \in Nat /\ R[d] \in Nat
    BY <2>1 DEF IsTree
  <2>3. y # d
    BY <2>1, <2>2
  <2>4. y # e.cluster
    <3>1. CASE Enterable(e)
      <4>1. R[e.cluster] > R[d] /\ e.cluster \in DOMAIN D
        BY <3>1 DEF Linked
      <4>2. R[e.cluster] \in Nat
        BY <4>1 DEF IsTree
      <4>. QED
        BY <2>1, <2>2, <4>1, <4>2
    <3>2. CASE ~Enterable(e)
      BY <2>1, <3>2 DEF Linked
    <3>. QED
      BY <3>1, <3>2
  <2>5. y \in DOMAIN F /\ F[y] = D[y]
    BY <2>1, <2>3, <2>4 DEF Pruned, Without
  <2>6. \A k \in 1..Room(y) : Unit(w, y, k) = Unit(v, y, k)
    BY <2>1, <2>3 DEF Removed
  <2>7. SameDirectory(v, D, w, F, y)
    BY <2>1, <2>5, <2>6 DEF SameDirectory
  <2>. QED
    BY <2>7 DEF y
<1>. QED
  BY <1>1 DEF SameWay

\* remove_dir_entry, in a directory that has an entry.
LEMMA RemoveBelowReady ==
  ASSUME NEW x, NEW s, Ready(x, s), NEW D, NEW R, NEW d, NEW i, NEW e,
         Lies(s.view, D, d, i, e), Cut(s.view, D, R, s.written, e.cluster),
         D[0] = s.root_entries, d # 0,
         NEW dir, IsPlace(dir), NEW path, NEW g, NEW p, NEW f, Reached(s.view, D, R, path, dir, g, p, f, d),
         NEW q, IsSeq(q), Len(q) = D[d] - 1, Leaves(s.view, D, d, i, q)
  PROVE  Outcome(x, UpdateParent(Rewritten(dir, WriteFileData(s, dir.buf[dir.i], q)), path))
<1>. DEFINE v == s.view
            w == FileWritten(v, d, q)
            F == Shrunk(D, d, e.cluster)
            r == WriteFileData(s, f, q).s
            t == Rewritten(dir, WriteFileData(s, dir.buf[dir.i], q))
<1>1. /\ Leads(v, D, path, g, p, dir.i, f, d) /\ Buffer(v, D, p, dir.buf)
      /\ dir.i # 0 /\ dir.buf[dir.i] = f /\ f.cluster = d
      /\ \A m \in 0..(Len(path) - 1) : g[m] \in DOMAIN D /\ R[g[m]] < R[d]
  BY DEF Reached
<1>2. /\ Shape(v, D, R, {}) /\ ReadBack(v, D, s.written, {}) /\ DiskOK(v)
      /\ Linked(v, D, R, {}) /\ IsTree(D, R) /\ d \in DOMAIN D /\ d \in Clusters
  BY ReadyParts DEF Cut, Shape, IsTree, Lies, At
<1>3. /\ Removed(v, w, D, d, i) /\ DiskOK(w) /\ (D[d] = 1 => w = v)
      /\ w.fat = v.fat /\ \A y \in Clusters : y # d => w.data[y] = v.data[y]
  BY <1>2, RemovedData
<1>4. /\ Pruned(v, D, w, F, R, d) /\ NewMarked(v, w)
      /\ Without(F, D, e.cluster)
  <2>1. Keeps(v, w, D, d)
    BY <1>3 DEF Keeps
  <2>. HIDE DEF w
  <2>. QED
    BY <1>3, <2>1, PrunedTree
<1>5. \/ Lost(x, r)
      \/ /\ Ready(x, r) /\ r.view = w
         /\ r.written = s.written /\ r.root_entries = s.root_entries
  <2>1. f.cluster \in Clusters /\ w = FileWritten(s.view, f.cluster, q)
    BY <1>1, <1>2
  <2>. HIDE DEF w
  <2>. QED
    BY <1>4, <2>1, WriteFileDataReady
<1>6. /\ t.s = r /\ t.i = dir.i
      /\ t.buf = WithEntry(dir.buf, dir.i, Resized(f, Len(q)))
  BY <1>1 DEF Rewritten, WriteFileData, Resized, IsPlace, PlaceFields
<1>. HIDE DEF r, F, t, w
<1>15. ASSUME Lost(x, r) PROVE Outcome(x, UpdateParent(t, path))
  <2>1. path \in Seq(Directories) /\ Len(path) >= 1
    BY <1>1 DEF Leads
  <2>2. Lost(x, t.s)
    BY <1>6, <1>15
  <2>3. Lost(x, UpdateParent(t, path))
    BY <2>1, <2>2, UpdateParentLost
  <2>. QED
    BY <2>3, OutcomeLost
<1>. SUFFICES ASSUME ~Lost(x, r)
              PROVE  Outcome(x, UpdateParent(Rewritten(dir, WriteFileData(s, dir.buf[dir.i], q)), path))
  BY <1>15 DEF t
<1>7. F[d] = D[d] - 1 /\ F[d] \in Nat /\ 0 \in DOMAIN F
  BY <1>4 DEF Pruned, Shape, IsTree
<1>8. Owes(r, F, R, d)
  <2>1. F[0] = D[0]
    BY <1>4, <1>7 DEF Pruned
  <2>. QED
    BY <1>4, <1>5, <2>1 DEF Owes, Pruned
<1>9. ReadBack(r.view, F, r.written, {})
  <2>1. SameFiles(v, w, D) /\ Fewer(v, D, w, F)
    BY <1>2, <1>3, <1>4 DEF SameFiles, Pruned
  <2>2. ReadBack(w, F, s.written, {})
    BY <1>2, <2>1, FewerReadBack
  <2>. QED
    BY <1>5, <2>2
<1>10. SameWay(v, D, r.view, F, g, Len(path))
  <2>1. SameWay(v, D, w, F, g, Len(path))
    BY <1>1, <1>2, <1>3, <1>4, PrunedWay
  <2>. QED
    BY <1>5, <2>1
<1>11. Waits(t, v, D, F, p, dir.i, f, d)
  BY <1>1, <1>6, <1>7 DEF Waits
<1>12. /\ Ready(x, t.s) /\ Owes(t.s, F, R, d) /\ ReadBack(t.s.view, F, t.s.written, {})
       /\ SameWay(v, D, t.s.view, F, g, Len(path))
  BY <1>5, <1>6, <1>8, <1>9, <1>10
<1>13. Leads(v, D, path, g, p, dir.i, f, d) /\ f.cluster = d
  BY <1>1
<1>14. Outcome(x, UpdateParent(t, path))
  <2>. HIDE DEF v
  <2>. QED
    BY <1>7, <1>11, <1>12, <1>13, SizeOutcome
<1>. QED
  BY <1>14 DEF t

\* A kernel that stops leaves what it has written.
LEMMA StopOutcome ==
  ASSUME NEW x, NEW s, Ready(x, s), NEW status \in Statuses, status # "running"
  PROVE  Outcome(x, Stop(s, status))
BY StopReady DEF Outcome

\* The new contents of a directory are known, if there is no memory in them that was
\* never written.
Knows(v, D, d, i, q) ==
  /\ IsSeq(q) /\ Len(q) = D[d] - 1
  /\ Junk \notin ToSet(q) => Leaves(v, D, d, i, q)

\* The kernel stands at d, which has entry e of a cluster that was given back.
Bereft(s, D, R, path, dir, d, i, e) ==
  /\ Lies(s.view, D, d, i, e) /\ Cut(s.view, D, R, s.written, e.cluster)
  /\ D[0] = s.root_entries /\ IsPlace(dir) /\ Stands(dir, D, d)
  /\ d # 0 => \E g, p, f : Reached(s.view, D, R, path, dir, g, p, f, d)

\* remove_dir_entry, once the new contents are there.
LEMMA ReplaceReady ==
  ASSUME NEW x, NEW read, Ready(x, read.s), NEW D, NEW R, NEW path, NEW dir, NEW d, NEW i,
         NEW e, Bereft(read.s, D, R, path, dir, d, i, e),
         NEW q, Knows(read.s.view, D, d, i, q)
  PROVE  Outcome(x, Replace(dir, read, D[d], q, path))
<1>. DEFINE s == read.s
            end == Replace(dir, read, D[d], q, path)
<1>1. /\ Lies(s.view, D, d, i, e) /\ Cut(s.view, D, R, s.written, e.cluster)
      /\ D[0] = s.root_entries /\ IsPlace(dir) /\ Stands(dir, D, d)
  BY DEF Bereft
<1>2. "undefined" \in Statuses /\ "fault" \in Statuses
      /\ "undefined" # "running" /\ "fault" # "running"
  BY DEF Statuses
<1>3. CASE Junk \in ToSet(q)
  <2>1. end = Stop(s, "undefined")
    BY <1>3 DEF Replace
  <2>. QED
    BY <1>2, <2>1, StopOutcome
<1>4. CASE Junk \notin ToSet(q) /\ d # 0
  <2>1. PICK g, p, f : Reached(s.view, D, R, path, dir, g, p, f, d)
    BY <1>4 DEF Bereft
  <2>2. dir.i # 0
    BY <1>1, <1>4 DEF Stands
  <2>3. end = UpdateParent(Rewritten(dir, WriteFileData(s, dir.buf[dir.i], q)), path)
    BY <1>4, <2>2 DEF Replace
  <2>4. IsSeq(q) /\ Len(q) = D[d] - 1 /\ Leaves(s.view, D, d, i, q)
    BY <1>4 DEF Knows
  <2>5. Outcome(x, UpdateParent(Rewritten(dir, WriteFileData(s, dir.buf[dir.i], q)), path))
    <3>1. d # 0
      BY <1>4
    <3>. QED
      BY <1>1, <2>1, <2>4, <3>1, RemoveBelowReady
  <2>. QED
    BY <2>3, <2>5
<1>5. CASE Junk \notin ToSet(q) /\ d = 0
  <2>1. dir.i = 0
    BY <1>1, <1>5 DEF Stands
  <2>2. Len(q) = D[0] - 1 /\ Leaves(s.view, D, 0, i, q) /\ D[0] \in {1, 2}
    BY <1>5 DEF Knows, Leaves
  <2>3. CASE D[0] = 1
    <3>1. end = Stop(s, "fault")
      BY <1>5, <2>1, <2>3 DEF Replace
    <3>. QED
      BY <1>2, <3>1, StopOutcome
  <2>4. CASE D[0] = 2
    <3>1. end = Uncounted(RootWrite(s, q))
      BY <1>5, <2>1, <2>4 DEF Replace, Uncounted
    <3>2. Lies(s.view, D, 0, i, e) /\ Len(q) = 1
      BY <1>1, <1>5, <2>2, <2>4
    <3>3. Outcome(x, Uncounted(RootWrite(s, q)))
      BY <1>1, <2>2, <2>4, <3>2, RemoveRootReady
    <3>. QED
      BY <3>1, <3>3
  <2>. QED
    BY <2>2, <2>3, <2>4
<1>. QED
  BY <1>3, <1>4, <1>5

\* The path leads to the same directory once the cluster is given back.
LEMMA EndsSame ==
  ASSUME NEW v, NEW w, NEW D, NEW path \in Seq(Directories),
         \A d, k : Unit(w, d, k) = Unit(v, d, k),
         NEW d, Ends(v, D, path, d), NEW c, Ends(w, D, path, c)
  PROVE  d = c
<1>1. PICK g : Trail(v, D, path, Len(path), g) /\ g[Len(path)] = d
  BY DEF Ends
<1>2. PICK h : Trail(w, D, path, Len(path), h) /\ h[Len(path)] = c
  BY DEF Ends
<1>3. SameWay(v, D, w, D, g, Len(path))
  BY DEF SameWay, SameDirectory
<1>4. Len(path) \in Nat
  OBVIOUS
<1>5. \A m \in 0..Len(path) : g[m] = h[m]
  BY <1>1, <1>2, <1>3, <1>4, TrailUnique
<1>. QED
  BY <1>1, <1>2, <1>4, <1>5

\* A directory is found only where the root directory is not empty.
LEMMA PlacedEnds ==
  ASSUME NEW x, NEW s, NEW D, NEW R, NEW path, NEW dir, NEW d,
         Placed(x, s, D, R, path, dir, d), NEW v, NEW k, NEW e, Lies(v, D, d, k, e),
         IsTree(D, R)
  PROVE  Ends(s.view, D, path, d) /\ D[0] # 0
<1>1. D[0] # 0
  <2>1. CASE d = 0
    <3>1. k \in 1..RootEntries /\ k <= D[0]
      BY <2>1 DEF Lies, At, Room
    <3>. QED
      BY <3>1, Constants
  <2>2. CASE d # 0
    <3>1. PICK g, p, f : Reached(s.view, D, R, path, dir, g, p, f, d)
      BY <2>2 DEF Placed
    <3>2. Leads(s.view, D, path, g, p, dir.i, f, d)
      BY <3>1 DEF Reached
    <3>3. Len(path) \in Nat /\ Len(path) >= 1 /\ Trail(s.view, D, path, Len(path), g)
      BY <3>2 DEF Leads
    <3>4. PICK l : First(s.view, D, g[0], path[1], l) /\ g[0] = 0
      BY <3>3 DEF Trail
    <3>5. l \in 1..RootEntries /\ l <= D[0]
      BY <3>4 DEF First, At, Room
    <3>. QED
      BY <3>5, Constants
  <2>. QED
    BY <2>1, <2>2
<1>. QED
  BY <1>1 DEF Placed

\* The path leads to d and nowhere else, and its i-th entry is the first with the name.
Leading(v, D, path, d, name, i) ==
  /\ D[0] # 0 /\ First(v, D, d, name, i)
  /\ \A c : Ends(v, D, path, c) => c = d

\* remove_dir_entry
LEMMA RemoveDirEntryReady ==
  ASSUME NEW x, NEW s, Ready(x, s), NEW D, NEW R, NEW path \in Seq(Directories),
         NEW name, name # NoName, NEW d, NEW i, NEW e, Lies(s.view, D, d, i, e),
         Leading(s.view, D, path, d, name, i), Cut(s.view, D, R, s.written, e.cluster),
         D[0] = s.root_entries
  PROVE  Outcome(x, RemoveDirEntry(s, path, name))
<1>. DEFINE v == s.view
            dir == NavigateDir(s, path)
            read == KreadFile(dir.s, dir)
            q == Remaining(read.units, D[d], name)
            end == RemoveDirEntry(s, path, name)
<1>1. Shape(v, D, R, {}) /\ IsTree(D, R) /\ Tidy(v, D) /\ Sound(v, D)
  BY DEF Cut, Shape, ReadBack
<1>2. IF dir.s.status = "running" THEN \E c : Placed(x, s, D, R, path, dir, c)
      ELSE Lost(x, dir.s) /\ dir.i = 0
  BY <1>1, DirectoryNamesIs, NavigatePath
<1>3. end = IF dir.s.status = "running"
              THEN Replace(dir, read, Size(read.s, dir),
                           Remaining(read.units, Size(read.s, dir), name), path)
              ELSE dir.s
  BY DEF RemoveDirEntry
<1>. HIDE DEF dir, end
<1>4. CASE dir.s.status # "running"
  BY <1>2, <1>3, <1>4, OutcomeLost DEF end
<1>5. CASE dir.s.status = "running"
  <2>1. PICK c : Placed(x, s, D, R, path, dir, c)
    BY <1>2, <1>5
  <2>2. c = d
    BY <2>1 DEF Placed, Leading
  <2>3. Placed(x, s, D, R, path, dir, d)
    BY <2>1, <2>2
  <2>4. /\ Ready(x, dir.s) /\ Same(s, dir.s) /\ IsPlace(dir) /\ Stands(dir, D, d)
        /\ d # 0 => \E g, p, f : Reached(v, D, R, path, dir, g, p, f, d)
    BY <2>3 DEF Placed
  <2>5. Counted(dir.s, D, R)
    BY <1>1, <2>4 DEF Counted, Same
  <2>6. /\ Ready(x, read.s) /\ Same(dir.s, read.s) /\ Buffer(dir.s.view, D, d, read.units)
        /\ D[d] = Size(read.s, dir)
    BY <2>4, <2>5, KreadFileReady
  <2>7. end = Replace(dir, read, D[d], q, path)
    BY <1>3, <1>5, <2>6
  <2>. HIDE DEF read
  <2>8. /\ read.s.view = v /\ dir.s.view = v /\ read.s.written = s.written
        /\ read.s.root_entries = s.root_entries
    BY <2>4, <2>6 DEF Same
  <2>9. Knows(v, D, d, i, q)
    <3>1. First(v, D, d, name, i) /\ Buffer(v, D, d, read.units)
      BY <2>6, <2>8 DEF Leading
    <3>. HIDE DEF v
    <3>. QED
      BY <1>1, <3>1, RemainingIs DEF Knows
  <2>10. Bereft(read.s, D, R, path, dir, d, i, e)
    BY <2>4, <2>8 DEF Bereft
  <2>. HIDE DEF q
  <2>11. Outcome(x, Replace(dir, read, D[d], q, path))
    <3>1. Knows(read.s.view, D, d, i, q)
      BY <2>8, <2>9
    <3>. QED
      BY <2>6, <2>10, <3>1, ReplaceReady
  <2>. QED
    BY <2>7, <2>11 DEF end
<1>. QED
  BY <1>4, <1>5

\* delete_file
LEMMA DeleteFileReady ==
  ASSUME NEW x, NEW s, Outcome(x, s), NEW path \in Seq(Directories), NEW name, name # NoName
  PROVE  Outcome(x, DeleteFile(s, Append(path, name)))
<1>. DEFINE q == Append(path, name)
            dir == NavigateDir(s, path)
            f == FindFile(dir, name)
            e == f.buf[f.i]
            t == FatDeleteFile(f.s, e.cluster)
<1>1. LastName(q) = name /\ ParentPath(q) = path
  BY PathEnds DEF IsSeq
<1>2. CASE s.status # "running"
  <2>1. DeleteFile(s, q) = s
    BY <1>2 DEF DeleteFile
  <2>. QED
    BY <2>1
<1>3. CASE s.status = "running"
  <2>1. DeleteFile(s, q) = IF f.i = 0 THEN f.s ELSE RemoveDirEntry(t, path, name)
    BY <1>1, <1>3 DEF DeleteFile, DeleteEntry
  <2>2. Ready(x, s)
    BY <1>3 DEF Outcome
  <2>3. PICK D, R : Held(s, D, R)
    BY <1>3 DEF Outcome
  <2>4. IF f.s.status = "running" THEN \E d : LookedUp(x, s, D, R, path, dir, f, d, name)
        ELSE Lost(x, f.s) /\ f.i = 0
    BY <2>2, <2>3, DirectoryNamesIs, LookupReady
  <2>. HIDE DEF f, dir
  <2>5. CASE f.s.status # "running"
    BY <2>1, <2>4, <2>5, OutcomeLost
  <2>6. CASE f.s.status = "running"
    <3>1. PICK d : LookedUp(x, s, D, R, path, dir, f, d, name)
      BY <2>4, <2>6
    <3>2. /\ Placed(x, s, D, R, path, dir, d) /\ Ready(x, f.s) /\ Held(f.s, D, R)
          /\ f.i # 0 /\ First(f.s.view, D, d, name, f.i) /\ f.s.view = s.view
          /\ Lies(f.s.view, D, d, f.i, e) /\ Good(e)
      BY <3>1 DEF LookedUp, Found, Shown, Same
    <3>3. IsTree(D, R)
      BY <3>2 DEF Held, Shape
    <3>4. Ends(s.view, D, path, d) /\ D[0] # 0
      BY <3>2, <3>3, PlacedEnds
    <3>. HIDE DEF e
    <3>5. Ready(x, t) /\ Cleared(f.s, t, e.cluster)
      <4>1. e.cluster \in Clusters
        BY <3>2 DEF Held, ReadBack, Sound
      <4>. QED
        BY <3>2, <4>1, FatDeleteFileReady
    <3>. HIDE DEF t
    <3>6. /\ Cut(t.view, D, R, t.written, e.cluster) /\ D[0] = t.root_entries
          /\ \A y, k : Unit(t.view, y, k) = Unit(f.s.view, y, k)
          /\ Lies(t.view, D, d, f.i, e)
      BY <3>2, <3>5, ClearedTree
    <3>7. Leading(t.view, D, path, d, name, f.i)
      <4>1. First(t.view, D, d, name, f.i)
        BY <3>2, <3>6 DEF First
      <4>2. \A y, k : Unit(t.view, y, k) = Unit(s.view, y, k)
        BY <3>2, <3>6
      <4>3. ASSUME NEW c, Ends(t.view, D, path, c) PROVE c = d
        BY <3>4, <4>2, <4>3, EndsSame
      <4>. QED
        BY <3>4, <4>1, <4>3 DEF Leading
    <3>8. Outcome(x, RemoveDirEntry(t, path, name))
      BY <3>5, <3>6, <3>7, RemoveDirEntryReady
    <3>. QED
      BY <2>1, <3>2, <3>8 DEF t
  <2>. QED
    BY <2>5, <2>6
<1>. QED
  BY <1>2, <1>3

-----------------------------------------------------------------------------
(* The start.                                                               *)

\* The tree of a disk that has nothing on it.
NoEntries == [d \in {0} |-> 0]
NoRanks == [d \in {0} \cup Clusters |-> 0]

\* A root directory without entries holds the empty tree.
LEMMA NothingHeld ==
  ASSUME NEW s, s.root_entries = 0, \A k \in 1..RootEntries : s.view.root[k] = Blank
  PROVE  Held(s, NoEntries, NoRanks)
<1>. DEFINE v == s.view
<1>1. /\ DOMAIN NoEntries = {0} /\ NoEntries[0] = 0 /\ NoEntries \in [{0} -> Nat]
      /\ NoRanks \in [{0} \cup Clusters -> Nat]
  BY DEF NoEntries, NoRanks
<1>2. IsTree(NoEntries, NoRanks)
  BY <1>1 DEF IsTree
<1>3. \A d, k : ~At(NoEntries, d, k)
  <2>1. SUFFICES ASSUME NEW d, NEW k, At(NoEntries, d, k) PROVE FALSE
    OBVIOUS
  <2>2. d = 0 /\ k \in 1..RootEntries /\ k <= 0
    BY <1>1, <2>1 DEF At, Room
  <2>. QED
    BY <2>2, Constants
<1>4. \A d, k, e : ~Lies(v, NoEntries, d, k, e)
  BY <1>3 DEF Lies
<1>5. Typed(v, NoEntries)
  BY <1>3 DEF Typed
<1>6. Linked(v, NoEntries, NoRanks, {}) /\ Apart(v, NoEntries)
  BY <1>4 DEF Linked, Apart
<1>7. Tidy(v, NoEntries)
  BY <1>1 DEF Tidy, Room, Unit
<1>8. RootKept(v, NoEntries)
  <2>1. \A k \in 1..RootEntries : ~ (k <= 0)
    BY Constants
  <2>. QED
    BY <1>1, <2>1 DEF RootKept
<1>9. Marked(v, NoEntries, {})
  BY <1>1, <1>4 DEF Marked
<1>10. ReadBack(v, NoEntries, s.written, {})
  BY <1>4 DEF ReadBack, Sound
<1>. QED
  BY <1>1, <1>2, <1>5, <1>6, <1>7, <1>8, <1>9, <1>10 DEF Held, Shape

\* The disk that was never formatted.
LEMMA NewDiskOK ==
  /\ DiskOK(NewDisk) /\ NewDisk.fat = [c \in 0..ClusterCount |-> 0]
  /\ NewDisk.fat[0] = 0 /\ \A k \in 1..RootEntries : NewDisk.root[k] = Blank
<1>. DEFINE f == [c \in 0..ClusterCount |-> 0]
            r == Padded(<<>>, RootEntries)
            b == Padded(<<>>, EntriesPerSector)
            a == [c \in Clusters |-> b]
<1>1. NewDisk = [fat |-> f, root |-> r, data |-> a]
  BY DEF NewDisk
<1>2. r = [k \in 1..RootEntries |-> Blank] /\ b = [k \in 1..EntriesPerSector |-> Blank]
  BY Constants DEF Padded
<1>3. FatOK(f) /\ f[0] = 0
  BY Constants DEF FatOK
<1>4. RootOK(r)
  BY <1>2 DEF RootOK, MaybeEntry
<1>5. DataOK(a)
  BY <1>2 DEF DataOK
<1>. HIDE DEF f, r, a
<1>6. /\ NewDisk = [field \in DiskFields |-> NewDisk[field]]
      /\ NewDisk.fat = f /\ NewDisk.root = r /\ NewDisk.data = a
  BY <1>1 DEF DiskFields
<1>7. DiskOK(NewDisk)
  BY <1>3, <1>4, <1>5, <1>6 DEF DiskOK
<1>. QED
  BY <1>2, <1>3, <1>6, <1>7 DEF f

\* The memory of a machine that was switched on, field by field.
LEMMA PoweredOnIs ==
  ASSUME NEW d
  PROVE  LET s == PoweredOn(d)
         IN /\ s = [field \in Fields |-> s[field]]
            /\ s.fat = NewDisk.fat /\ s.root = NewDisk.root
            /\ s.was_fat_read = FALSE /\ s.was_root_read = FALSE /\ s.root_entries = 0
            /\ s.view = d /\ s.writes = <<>> /\ s.written = [c \in Clusters |-> <<>>]
            /\ s.status = "off" /\ s.calls = 0
BY DEF PoweredOn, Fields

\* The kernel once it runs, and has read the table.
Started(d) == FatRead([PoweredOn(d) EXCEPT !.status = "running"])

\* It has the table that is on the disk, and no entries.
LEMMA StartedReady ==
  ASSUME NEW d, DiskOK(d)
  PROVE  LET s == Started(d)
         IN /\ MemoryOK(s) /\ Traced(d, s) /\ s.status = "running" /\ RootCoherent(s)
            /\ s.fat = d.fat /\ s.view = d /\ s.root_entries = 0 /\ Coherent(s)
            /\ Sectored(s.root_entries) <= RootEntries
<1>. DEFINE p == PoweredOn(d)
            r == [p EXCEPT !.status = "running"]
            s == Started(d)
<1>1. /\ p = [field \in Fields |-> p[field]]
      /\ p.fat = NewDisk.fat /\ p.root = NewDisk.root
      /\ p.was_fat_read = FALSE /\ p.was_root_read = FALSE /\ p.root_entries = 0
      /\ p.view = d /\ p.writes = <<>> /\ p.written = [c \in Clusters |-> <<>>]
  BY PoweredOnIs
<1>. HIDE DEF p
<1>2. /\ r = [field \in Fields |-> r[field]]
      /\ r.fat = p.fat /\ r.root = p.root /\ r.was_fat_read = FALSE
      /\ r.was_root_read = FALSE /\ r.root_entries = 0 /\ r.view = d /\ r.writes = <<>>
      /\ r.written = p.written /\ r.status = "running"
  BY <1>1 DEF Fields
<1>3. s = FatRead(r)
  BY DEF Started, p
<1>. HIDE DEF r
<1>4. s = [r EXCEPT !.was_fat_read = TRUE, !.fat = r.view.fat]
  BY <1>2, <1>3 DEF FatRead
<1>. HIDE DEF s
<1>5. /\ s = [field \in Fields |-> s[field]]
      /\ s.fat = d.fat /\ s.root = NewDisk.root /\ s.was_fat_read = TRUE
      /\ s.was_root_read = FALSE /\ s.root_entries = 0 /\ s.view = d /\ s.writes = <<>>
      /\ s.written = p.written /\ s.status = "running"
  BY <1>1, <1>2, <1>4 DEF Fields
<1>6. p.written = [c \in Clusters |-> p.written[c]]
  BY <1>1
<1>7. FatOK(d.fat) /\ RootOK(NewDisk.root)
  BY NewDiskOK DEF DiskOK
<1>8. MemoryOK(s)
  <2>1. FatOK(s.fat) /\ RootOK(s.root) /\ DiskOK(s.view)
    BY <1>5, <1>7
  <2>2. s.written = [c \in Clusters |-> s.written[c]]
    BY <1>5, <1>6
  <2>3. /\ s.was_fat_read \in BOOLEAN /\ s.was_root_read \in BOOLEAN
        /\ s.root_entries \in Nat /\ s.status \in Statuses
    <3>1. /\ s.was_fat_read = TRUE /\ s.was_root_read = FALSE /\ s.root_entries = 0
          /\ s.status = "running"
      BY <1>5
    <3>2. s.was_fat_read \in BOOLEAN /\ s.was_root_read \in BOOLEAN
      BY <3>1, Zenon
    <3>3. s.root_entries \in Nat
      BY <3>1
    <3>4. s.status \in Statuses
      BY <3>1 DEF Statuses
    <3>. QED
      BY <3>2, <3>3, <3>4
  <2>. QED
    BY <1>5, <2>1, <2>2, <2>3, Zenon DEF MemoryOK
<1>9. Trace(d, s.writes, s.view) /\ IsSeq(s.writes)
  BY <1>5, TraceEmpty
<1>10. Traced(d, s)
  BY <1>5, <1>9 DEF Traced, IsMemory, Statuses
<1>11. RootCoherent(s) /\ Coherent(s)
  BY <1>5 DEF RootCoherent, Coherent
<1>12. Sectored(s.root_entries) <= RootEntries
  <2>1. Sectored(0) = 0
    BY SectoredEntries
  <2>. QED
    BY <1>5, <2>1, Constants
<1>. QED
  BY <1>5, <1>8, <1>10, <1>11, <1>12 DEF s

\* fat_setup_table, on the new disk.
LEMMA FormatReady ==
  LET s == FatSetupTable(Started(NewDisk))
  IN Ready(NewDisk, s) /\ Held(s, NoEntries, NoRanks)
<1>. DEFINE r == Started(NewDisk)
            o == [r EXCEPT !.fat[0] = FAT_SIGNATURE]
            s == FatSetupTable(r)
<1>1. /\ MemoryOK(r) /\ Traced(NewDisk, r) /\ r.status = "running" /\ RootCoherent(r)
      /\ r.fat = NewDisk.fat /\ r.view = NewDisk /\ r.root_entries = 0
      /\ Sectored(r.root_entries) <= RootEntries
  BY NewDiskOK, StartedReady
<1>2. s = FatWrite(o)
  BY DEF FatSetupTable
<1>. HIDE DEF r, s
<1>3. r = [field \in Fields |-> r[field]]
  BY <1>1 DEF MemoryOK
<1>4. /\ o = [field \in Fields |-> o[field]]
      /\ o.fat = [r.fat EXCEPT ![0] = FAT_SIGNATURE] /\ o.written = r.written
      /\ o.status = r.status /\ o.view = r.view /\ o.was_fat_read = r.was_fat_read
      /\ o.root = r.root /\ o.was_root_read = r.was_root_read
      /\ o.root_entries = r.root_entries /\ o.calls = r.calls /\ o.writes = r.writes
  BY <1>3 DEF Fields
<1>. HIDE DEF o
<1>5. FatOK(o.fat) /\ o.fat[0] = FAT_SIGNATURE
  <2>1. r.fat = [c \in 0..ClusterCount |-> 0]
    BY <1>1, NewDiskOK
  <2>2. 0 \in 0..ClusterCount /\ \A c \in Clusters : c # 0 /\ c \in 0..ClusterCount
    BY Constants
  <2>3. o.fat = [c \in 0..ClusterCount |-> IF c = 0 THEN FAT_SIGNATURE ELSE 0]
    BY <1>4, <2>1
  <2>. QED
    BY <2>2, <2>3 DEF FatOK
<1>6. MemoryOK(o)
  BY <1>1, <1>4, <1>5 DEF MemoryOK
<1>7. Traced(NewDisk, o)
  BY <1>1, <1>4 DEF Traced, IsMemory
<1>8. RootCoherent(o)
  <2>1. /\ o.was_root_read = r.was_root_read /\ o.root = r.root /\ o.view = r.view
        /\ o.root_entries = r.root_entries
    BY <1>4
  <2>. QED
    BY <1>1, <2>1 DEF RootCoherent
<1>9. o.root_entries = 0 /\ Sectored(o.root_entries) <= RootEntries /\ o.status = "running"
      /\ o.view = NewDisk
  BY <1>1, <1>4
<1>10. /\ Ready(NewDisk, s) /\ s.view = [o.view EXCEPT !.fat = o.fat]
       /\ s.root_entries = o.root_entries
  BY <1>2, <1>5, <1>6, <1>7, <1>8, <1>9, FatWriteReady
<1>11. s.view.root = NewDisk.root
  <2>1. NewDisk = [field \in DiskFields |-> NewDisk[field]]
    BY NewDiskOK DEF DiskOK
  <2>2. s.view = [NewDisk EXCEPT !.fat = o.fat]
    BY <1>9, <1>10
  <2>. QED
    BY <2>1, <2>2 DEF DiskFields
<1>12. Held(s, NoEntries, NoRanks)
  BY <1>9, <1>10, <1>11, NewDiskOK, NothingHeld
<1>. QED
  BY <1>10, <1>12 DEF s, r

\* The shell is a file in the root directory.
LEMMA ShellPath ==
  /\ Shell \in Names /\ HasExtension(Shell) /\ Shell # NoName
  /\ <<>> \in Seq(Directories) /\ <<Shell>> = Append(<<>>, Shell)
  /\ DirectoryNames(<<Shell>>) = <<>> /\ LastName(<<Shell>>) = Shell
  /\ IsSeq(ShellImage)
<1>1. Shell \in Names /\ HasExtension(Shell)
  BY NamesAssumption
<1>2. <<>> \in Seq(Directories) /\ <<Shell>> = Append(<<>>, Shell)
  OBVIOUS
<1>3. LET q == Append(<<>>, Shell)
      IN DirectoryNames(q) = <<>> /\ LastName(q) = Shell /\ Shell # NoName
  BY <1>1, <1>2, FilePath
<1>4. IsSeq(ShellImage)
  BY ContentsAssumption DEF IsSeq
<1>. QED
  BY <1>1, <1>2, <1>3, <1>4

\* A kernel that has stopped looks for nothing.
LEMMA NavigateStopped ==
  ASSUME NEW x, NEW s, Traced(x, s), s.status # "running"
  PROVE  LET dir == NavigateDir(s, <<Shell>>)
             f == FindFile(dir, Shell)
         IN f = dir /\ dir.i = 0 /\ Traced(x, dir.s) /\ dir.s.status # "running"
<1>. DEFINE dir == NavigateDir(s, <<Shell>>)
            t == RootRead(s)
<1>2. dir = RootPlace(s)
  BY ShellPath, NavigateEmpty
<1>3. dir.s = t /\ dir.i = 0
  BY <1>2 DEF RootPlace
<1>. HIDE DEF dir
<1>4. t.writes = s.writes /\ t.view = s.view /\ t.status = s.status /\ IsMemory(t)
  <2>1. IsMemory(s)
    BY DEF Traced
  <2>2. t = s \/ t = [s EXCEPT !.was_root_read = TRUE,
                        !.root = Overwrite(@, SubSeq(s.view.root, 1, InSectors(s)))]
    BY DEF RootRead
  <2>. HIDE DEF t
  <2>. QED
    BY <2>1, <2>2 DEF IsMemory, Fields
<1>. HIDE DEF t
<1>5. Traced(x, t)
  BY <1>4 DEF Traced
<1>6. FindFile(dir, Shell) = dir
  BY <1>3, <1>4 DEF FindFile
<1>. QED
  BY <1>3, <1>4, <1>5, <1>6 DEF dir

\* It writes nothing.
LEMMA WriteShellStopped ==
  ASSUME NEW x, NEW s, Traced(x, s), s.status # "running", NEW units
  PROVE  Outcome(x, WriteFile(s, <<Shell>>, units))
<1>. DEFINE dir == NavigateDir(s, <<Shell>>)
            f == FindFile(dir, Shell)
<1>1. f = dir /\ dir.i = 0 /\ Traced(x, dir.s) /\ dir.s.status # "running"
  BY NavigateStopped
<1>2. WriteFile(s, <<Shell>>, units) = WriteEntry(dir, f, units)
  BY ShellPath DEF WriteFile
<1>. HIDE DEF f, dir
<1>3. WriteEntry(dir, f, units) = f.s
  BY <1>1 DEF WriteEntry
<1>. QED
  BY <1>1, <1>2, <1>3 DEF Outcome

\* The search for the shell, after a call.
LEMMA ShellSought ==
  ASSUME NEW x, NEW s, Outcome(x, s)
  PROVE  Outcome(x, NavigateFile(s, <<Shell>>).s)
<1>. DEFINE dir == NavigateDir(s, <<Shell>>)
            f == FindFile(dir, Shell)
<1>1. NavigateFile(s, <<Shell>>) = f
  BY ShellPath DEF NavigateFile
<1>2. CASE s.status # "running"
  <2>1. Traced(x, s)
    BY DEF Outcome
  <2>2. f = dir /\ Traced(x, dir.s) /\ dir.s.status # "running"
    BY <1>2, <2>1, NavigateStopped
  <2>. HIDE DEF f, dir
  <2>. QED
    BY <1>1, <2>2 DEF Outcome
<1>3. CASE s.status = "running"
  <2>1. Ready(x, s)
    BY <1>3 DEF Outcome
  <2>2. PICK D, R : Held(s, D, R)
    BY <1>3 DEF Outcome
  <2>3. IF f.s.status = "running"
          THEN \E d : LookedUp(x, s, D, R, <<>>, dir, f, d, Shell)
          ELSE Lost(x, f.s) /\ f.i = 0
    BY <2>1, <2>2, ShellPath, LookupReady
  <2>. HIDE DEF f, dir
  <2>4. CASE f.s.status # "running"
    BY <1>1, <2>3, <2>4, OutcomeLost
  <2>5. CASE f.s.status = "running"
    <3>1. PICK d : LookedUp(x, s, D, R, <<>>, dir, f, d, Shell)
      BY <2>3, <2>5
    <3>2. Ready(x, f.s) /\ Held(f.s, D, R)
      BY <3>1 DEF LookedUp
    <3>. QED
      BY <1>1, <3>2, ReadyParts DEF Outcome
  <2>. QED
    BY <2>4, <2>5
<1>. QED
  BY <1>2, <1>3

\* The first start.
LEMMA FirstStart ==
  Outcome(NewDisk, NavigateFile(InitFs(NewDisk), <<Shell>>).s)
<1>. DEFINE s == FatSetupTable(Started(NewDisk))
            t == CreateFile(s, Shell, <<>>, "file", 0)
            u == WriteFile(t, <<Shell>>, ShellImage)
<1>1. Ready(NewDisk, s) /\ Held(s, NoEntries, NoRanks)
  BY FormatReady
<1>2. InitFs(NewDisk) = u
  <2>1. Started(NewDisk).fat = NewDisk.fat
    BY NewDiskOK, StartedReady
  <2>2. Started(NewDisk).fat[0] # FAT_SIGNATURE
    BY <2>1, NewDiskOK, Constants
  <2>. QED
    BY <2>2 DEF InitFs, Started, LoadShell
<1>. HIDE DEF s
<1>3. Outcome(NewDisk, t)
  <2>1. /\ "file" \in {"file", "directory"} /\ ("file" = "file" <=> HasExtension(Shell))
        /\ 0 \in Behind
    BY ShellPath DEF Behind
  <2>. QED
    BY <1>1, <2>1, ShellPath, CreateFileReady
<1>. HIDE DEF t
<1>4. Outcome(NewDisk, u)
  <2>1. CASE t.status # "running"
    BY <1>3, <2>1, WriteShellStopped DEF Outcome
  <2>2. CASE t.status = "running"
    <3>1. Ready(NewDisk, t)
      BY <1>3, <2>2 DEF Outcome
    <3>2. PICK D, R : Held(t, D, R)
      BY <1>3, <2>2 DEF Outcome
    <3>3. Outcome(NewDisk, WriteFile(t, Append(<<>>, Shell), ShellImage))
      BY <3>1, <3>2, ShellPath, WriteFileReady
    <3>. QED
      BY <3>3, ShellPath
  <2>. QED
    BY <2>1, <2>2
<1>. HIDE DEF u
<1>. QED
  BY <1>2, <1>4, ShellSought

\* A start on a disk that is formatted: the root directory is not counted, and the
\* kernel stops.
LEMMA LaterStart ==
  ASSUME NEW d, DiskOK(d), d.fat[0] = FAT_SIGNATURE
  PROVE  Outcome(d, NavigateFile(InitFs(d), <<Shell>>).s)
<1>. DEFINE s == Started(d)
            dir == RootPlace(s)
            read == KreadFile(dir.s, dir)
<1>1. /\ MemoryOK(s) /\ Coherent(s) /\ Traced(d, s) /\ s.status = "running"
      /\ s.view = d /\ s.fat = d.fat /\ s.root_entries = 0 /\ Sectored(s.root_entries) <= RootEntries
  BY StartedReady
<1>2. Ready(d, s)
  BY <1>1 DEF Ready
<1>3. InitFs(d) = s
  BY <1>1 DEF InitFs, Started
<1>. HIDE DEF s
<1>4. NavigateDir(s, <<Shell>>) = dir
  BY <1>1 DEF NavigateDir, RootPlace
<1>5. RootRead(s) = s
  <2>1. InSectors(s) = 0
    BY <1>1, SectoredEntries, InSectorsIs
  <2>. QED
    BY <2>1 DEF RootRead
<1>6. dir.s = s /\ dir.i = 0
  BY <1>5 DEF RootPlace
<1>. HIDE DEF dir
<1>7. read.s = s /\ Size(read.s, dir) = 0
  BY <1>1, <1>5, <1>6 DEF KreadFile, Size
<1>8. FindFile(dir, Shell).s = Stop(s, "panic")
  <2>1. FindFile(dir, Shell) = EntryIn(dir, read, Shell)
    BY <1>1, <1>6 DEF FindFile
  <2>. HIDE DEF read
  <2>2. {k \in 1..Size(read.s, dir) :
           read.units[k] = Junk \/ FullName(read.units[k]) = Shell} = {}
    <3>1. 1..Size(read.s, dir) = {}
      BY <1>7
    <3>. QED
      BY <3>1
  <2>3. EntryIn(dir, read, Shell).s = Stop(read.s, "panic")
    BY <2>2, Zenon DEF EntryIn
  <2>. QED
    BY <1>7, <2>1, <2>3
<1>9. NavigateFile(s, <<Shell>>).s = Stop(s, "panic")
  BY <1>4, <1>8, ShellPath DEF NavigateFile
<1>10. "panic" \in Statuses /\ "panic" # "running"
  BY DEF Statuses
<1>11. Outcome(d, Stop(s, "panic"))
  BY <1>2, <1>10, StopOutcome
<1>. QED
  BY <1>3, <1>9, <1>11

-----------------------------------------------------------------------------
(* The invariant.                                                           *)

\* The disk is a new one, or one that was formatted.
Shipped(d) == d = NewDisk \/ (DiskOK(d) /\ d.fat[0] = FAT_SIGNATURE)

\* A kernel that has stopped has its writes, and has forgotten the rest.
Halted(d, s) ==
  /\ Traced(d, s) /\ s.status # "running"
  /\ s = [PoweredOn(s.view) EXCEPT !.writes = s.writes, !.status = s.status]

\* A kernel that runs has the tree of files in memory.
Runs(d, s) == Ready(d, s) /\ \E D, R : Held(s, D, R)

Fits(d, s) == s = PoweredOn(d) \/ Halted(d, s) \/ Runs(d, s)

FsInvariant == Shipped(disk) /\ Fits(disk, fs)

\* What a call leaves, once it is over.
LEMMA SettledFits ==
  ASSUME NEW d, NEW s, Outcome(d, s)
  PROVE  Fits(d, Settled(s)) /\ Settled(s).status = s.status
<1>. DEFINE t == Settled(s)
<1>1. CASE s.status = "running"
  BY <1>1 DEF Settled, Outcome, Fits, Runs
<1>2. CASE s.status # "running"
  <2>. DEFINE p == PoweredOn(s.view)
  <2>1. t = [p EXCEPT !.writes = s.writes, !.status = s.status]
    BY <1>2 DEF Settled
  <2>2. p = [field \in Fields |-> p[field]] /\ p.view = s.view
    BY PoweredOnIs
  <2>. HIDE DEF p, t
  <2>3. IsMemory(t) /\ t.writes = s.writes /\ t.status = s.status /\ t.view = s.view
    BY <2>1, <2>2 DEF Fields, IsMemory
  <2>4. Traced(d, t)
    BY <2>3 DEF Outcome, Traced
  <2>5. Halted(d, t)
    <3>1. t = [PoweredOn(t.view) EXCEPT !.writes = t.writes, !.status = t.status]
      BY <2>1, <2>3 DEF p
    <3>. QED
      BY <1>2, <2>3, <2>4, <3>1 DEF Halted
  <2>. QED
    BY <2>3, <2>5 DEF Fits, t
<1>. QED
  BY <1>1, <1>2

\* A call is counted.
LEMMA CalledOutcome ==
  ASSUME NEW d, NEW s, Outcome(d, s)
  PROVE  Outcome(d, [s EXCEPT !.calls = @ + 1])
<1>. DEFINE t == [s EXCEPT !.calls = @ + 1]
<1>1. IsMemory(s)
  BY DEF Outcome, Traced
<1>2. /\ IsMemory(t) /\ t.fat = s.fat /\ t.was_fat_read = s.was_fat_read
      /\ t.root = s.root /\ t.was_root_read = s.was_root_read
      /\ t.root_entries = s.root_entries /\ t.view = s.view /\ t.writes = s.writes
      /\ t.written = s.written /\ t.status = s.status
  BY <1>1 DEF IsMemory, Fields
<1>. HIDE DEF t
<1>3. Traced(d, t)
  BY <1>2 DEF Outcome, Traced
<1>4. ASSUME t.status = "running" PROVE Ready(d, t) /\ \E D, R : Held(t, D, R)
  <2>1. Ready(d, s)
    BY <1>2, <1>4 DEF Outcome
  <2>2. PICK D, R : Held(s, D, R)
    BY <1>2, <1>4 DEF Outcome
  <2>3. MemoryOK(t)
    BY <1>2, <2>1 DEF Ready, MemoryOK, IsMemory
  <2>4. Coherent(t)
    BY <1>2, <2>1 DEF Ready, Coherent
  <2>5. Sectored(t.root_entries) <= RootEntries
    BY <1>2, <2>1 DEF Ready
  <2>6. Ready(d, t)
    BY <1>2, <1>3, <1>4, <2>1, <2>3, <2>4, <2>5 DEF Ready
  <2>7. Held(t, D, R)
    BY <1>2, <2>2 DEF Held
  <2>. QED
    BY <2>6, <2>7
<1>. QED
  BY <1>3, <1>4 DEF Outcome, t

\* The parts of Fits that say whether the machine is off, or runs.
LEMMA FitsStatus ==
  ASSUME NEW d, NEW s, Fits(d, s)
  PROVE  /\ s.status = "off" => s = PoweredOn(d)
         /\ s.status = "running" => Runs(d, s)
         /\ s.writes # <<>> => s # PoweredOn(d)
<1>1. PoweredOn(d).status = "off" /\ PoweredOn(d).writes = <<>>
  BY PoweredOnIs
<1>2. Halted(d, s) => s.status # "running" /\ s.status # "off"
  BY DEF Halted, Traced, Statuses
<1>3. Runs(d, s) => s.status = "running"
  BY DEF Runs, Ready
<1>. QED
  BY <1>1, <1>2, <1>3 DEF Fits

\* A kernel that halts or runs, when its first write reaches the disk.
LEMMA FitsWritten ==
  ASSUME NEW d, NEW s, Fits(d, s), s.writes # <<>>
  PROVE  LET new == Written(d, Head(s.writes))
             t == [s EXCEPT !.writes = Tail(@)]
         IN Step(d, new) /\ Fits(new, t)
<1>. DEFINE new == Written(d, Head(s.writes))
            t == [s EXCEPT !.writes = Tail(@)]
<1>1. Halted(d, s) \/ Runs(d, s)
  BY FitsStatus DEF Fits
<1>2. Traced(d, s)
  BY <1>1 DEF Halted, Runs, Ready
<1>3. Step(d, new) /\ IsSeq(Tail(s.writes)) /\ Trace(new, Tail(s.writes), s.view)
  BY <1>2, TraceHead DEF Traced
<1>. HIDE DEF new
<1>4. /\ IsMemory(t) /\ t.fat = s.fat /\ t.was_fat_read = s.was_fat_read
      /\ t.root = s.root /\ t.was_root_read = s.was_root_read
      /\ t.root_entries = s.root_entries /\ t.view = s.view /\ t.writes = Tail(s.writes)
      /\ t.written = s.written /\ t.status = s.status
  BY <1>2 DEF Traced, IsMemory, Fields
<1>5. t = [s EXCEPT !.writes = t.writes]
  BY <1>4
<1>. HIDE DEF t
<1>6. Traced(new, t)
  BY <1>2, <1>3, <1>4 DEF Traced
<1>7. CASE Halted(d, s)
  <2>. DEFINE p == PoweredOn(s.view)
  <2>1. s = [p EXCEPT !.writes = s.writes, !.status = s.status]
    BY <1>7 DEF Halted
  <2>2. p = [field \in Fields |-> p[field]]
    BY PoweredOnIs
  <2>. HIDE DEF p
  <2>3. t = [p EXCEPT !.writes = t.writes, !.status = s.status]
    BY <1>5, <2>1, <2>2 DEF Fields
  <2>4. t = [PoweredOn(t.view) EXCEPT !.writes = t.writes, !.status = t.status]
    BY <1>4, <2>3 DEF p
  <2>. QED
    BY <1>3, <1>4, <1>6, <1>7, <2>4 DEF Halted, Fits, new, t
<1>8. CASE Runs(d, s)
  <2>1. PICK D, R : Held(s, D, R)
    BY <1>8 DEF Runs
  <2>2. Ready(d, s)
    BY <1>8 DEF Runs
  <2>3. MemoryOK(t)
    BY <1>4, <2>2 DEF Ready, MemoryOK, IsMemory
  <2>4. Coherent(t)
    BY <1>4, <2>2 DEF Ready, Coherent
  <2>5. Ready(new, t)
    BY <1>4, <1>6, <2>2, <2>3, <2>4 DEF Ready
  <2>6. Held(t, D, R)
    BY <1>4, <2>1 DEF Held
  <2>. QED
    BY <1>3, <2>5, <2>6 DEF Runs, Fits, new, t
<1>. QED
  BY <1>1, <1>7, <1>8

\* Every call that leaves an outcome keeps the invariant.
LEMMA CallFits ==
  ASSUME NEW s, Outcome(disk, s), Shipped(disk), Call(s)
  PROVE  Shipped(disk') /\ Fits(disk', fs')
<1>1. fs' = Settled([s EXCEPT !.calls = @ + 1]) /\ disk' = disk
  BY DEF Call
<1>2. Outcome(disk, [s EXCEPT !.calls = @ + 1])
  BY <1>1, CalledOutcome
<1>. QED
  BY <1>1, <1>2, SettledFits

\* Every call leaves an outcome.
LEMMA CallOutcomes ==
  ASSUME NEW d, NEW s, Fits(d, s), s.status = "running"
  PROVE  /\ \A path \in Paths, name \in Files, behind \in Behind :
              Outcome(d, CreateFile(s, name, path, "file", behind))
         /\ \A path \in Paths, name \in Directories, behind \in Behind :
              Outcome(d, CreateFile(s, name, path, "directory", behind))
         /\ \A path \in FilePaths, units \in Contents : Outcome(d, WriteFile(s, path, units))
         /\ \A path \in FilePaths, new \in Files : Outcome(d, RenameFile(s, path, new))
         /\ \A path \in DirectoryPaths, new \in Directories :
              Outcome(d, RenameFile(s, path, new))
         /\ \A path \in FilePaths, newPath \in Paths, behind \in Behind :
              Outcome(d, CopyFile(s, path, newPath, behind))
         /\ \A path \in FilePaths, newPath \in Paths, behind \in Behind :
              Outcome(d, MoveFile(s, path, newPath, behind))
         /\ \A path \in FilePaths \cup DirectoryPaths : Outcome(d, DeleteFile(s, path))
<1>1. Ready(d, s) /\ \E D, R : Held(s, D, R)
  BY FitsStatus DEF Runs
<1>2. PICK D, R : Held(s, D, R)
  BY <1>1
<1>3. /\ \A name \in Files : name \in Names /\ HasExtension(name) /\ name # NoName
      /\ \A name \in Directories : name \in Names /\ ~HasExtension(name) /\ name # NoName
      /\ \A path \in Paths : path \in Seq(Directories)
  BY NamesAssumption DEF NoName, HasExtension
<1>4. \A units \in Contents : IsSeq(units)
  BY ContentsAssumption DEF IsSeq
<1>5. Outcome(d, s)
  BY <1>1, ReadyParts DEF Outcome
<1>6. ASSUME NEW path \in Paths, NEW name \in Files, NEW behind \in Behind
      PROVE  Outcome(d, CreateFile(s, name, path, "file", behind))
  <2>1. "file" \in {"file", "directory"} /\ ("file" = "file" <=> HasExtension(name))
    BY <1>3
  <2>. QED
    BY <1>1, <1>2, <1>3, <2>1, CreateFileReady
<1>7. ASSUME NEW path \in Paths, NEW name \in Directories, NEW behind \in Behind
      PROVE  Outcome(d, CreateFile(s, name, path, "directory", behind))
  <2>1. "directory" \in {"file", "directory"} /\ ("directory" = "file" <=> HasExtension(name))
    BY <1>3
  <2>. QED
    BY <1>1, <1>2, <1>3, <2>1, CreateFileReady
<1>8. ASSUME NEW q \in FilePaths
      PROVE  \E path \in Paths, name \in Files : q = Append(path, name)
  BY DEF FilePaths
<1>9. ASSUME NEW q \in DirectoryPaths
      PROVE  \E path \in Paths, name \in Directories : q = Append(path, name)
  BY DEF DirectoryPaths
<1>10. ASSUME NEW q \in FilePaths, NEW units \in Contents PROVE Outcome(d, WriteFile(s, q, units))
  <2>1. PICK path \in Paths, name \in Files : q = Append(path, name)
    BY <1>8
  <2>2. Outcome(d, WriteFile(s, Append(path, name), units))
    BY <1>1, <1>2, <1>3, <1>4, WriteFileReady
  <2>. QED
    BY <2>1, <2>2
<1>11. ASSUME NEW q \in FilePaths, NEW new \in Files PROVE Outcome(d, RenameFile(s, q, new))
  <2>1. PICK path \in Paths, name \in Files : q = Append(path, name)
    BY <1>8
  <2>2. HasExtension(name) <=> HasExtension(new)
    BY <1>3
  <2>3. Outcome(d, RenameFile(s, Append(path, name), new))
    BY <1>1, <1>2, <1>3, <2>2, RenameFileReady
  <2>. QED
    BY <2>1, <2>3
<1>12. ASSUME NEW q \in DirectoryPaths, NEW new \in Directories
       PROVE  Outcome(d, RenameFile(s, q, new))
  <2>1. PICK path \in Paths, name \in Directories : q = Append(path, name)
    BY <1>9
  <2>2. HasExtension(name) <=> HasExtension(new)
    BY <1>3
  <2>3. Outcome(d, RenameFile(s, Append(path, name), new))
    BY <1>1, <1>2, <1>3, <2>2, RenameFileReady
  <2>. QED
    BY <2>1, <2>3
<1>13. ASSUME NEW q \in FilePaths, NEW newPath \in Paths, NEW behind \in Behind
       PROVE  Outcome(d, CopyFile(s, q, newPath, behind))
  <2>1. PICK path \in Paths, name \in Files : q = Append(path, name)
    BY <1>8
  <2>2. Outcome(d, CopyFile(s, Append(path, name), newPath, behind))
    BY <1>1, <1>2, <1>3, CopyFileReady
  <2>. QED
    BY <2>1, <2>2
<1>14. ASSUME NEW q \in FilePaths, NEW newPath \in Paths, NEW behind \in Behind
       PROVE  Outcome(d, MoveFile(s, q, newPath, behind))
  <2>1. PICK path \in Paths, name \in Files : q = Append(path, name)
    BY <1>8
  <2>2. Outcome(d, DeleteFile(CopyFile(s, q, newPath, behind), Append(path, name)))
    BY <1>3, <1>13, DeleteFileReady
  <2>. QED
    BY <2>1, <2>2 DEF MoveFile
<1>15. ASSUME NEW q \in FilePaths \cup DirectoryPaths PROVE Outcome(d, DeleteFile(s, q))
  <2>1. PICK path \in Paths, name \in Files \cup Directories : q = Append(path, name)
    BY <1>8, <1>9
  <2>2. Outcome(d, DeleteFile(s, Append(path, name)))
    BY <1>3, <1>5, DeleteFileReady
  <2>. QED
    BY <2>1, <2>2
<1>. QED
  BY <1>6, <1>7, <1>10, <1>11, <1>12, <1>13, <1>14, <1>15

\* The start.
LEMMA BootFits ==
  ASSUME FsInvariant, Boot
  PROVE  Shipped(disk') /\ Fits(disk', fs')
<1>. DEFINE s == NavigateFile(InitFs(disk), <<Shell>>).s
<1>1. fs' = Settled(s) /\ disk' = disk /\ Shipped(disk)
  BY DEF Boot, FsInvariant
<1>2. CASE disk = NewDisk
  <2>1. Outcome(disk, s)
    BY <1>2, FirstStart
  <2>. HIDE DEF s
  <2>. QED
    BY <1>1, <2>1, SettledFits
<1>3. CASE DiskOK(disk) /\ disk.fat[0] = FAT_SIGNATURE
  <2>1. Outcome(disk, s)
    BY <1>3, LaterStart
  <2>. HIDE DEF s
  <2>. QED
    BY <1>1, <2>1, SettledFits
<1>. QED
  BY <1>1, <1>2, <1>3 DEF Shipped

\* The first write that waits reaches the disk.
LEMMA DiskWriteFits ==
  ASSUME FsInvariant, DiskWrite
  PROVE  Shipped(disk') /\ Fits(disk', fs') /\ NewMarked(disk, disk')
<1>1. /\ fs.writes # <<>> /\ disk' = Written(disk, Head(fs.writes))
      /\ fs' = [fs EXCEPT !.writes = Tail(@)] /\ Fits(disk, fs)
  BY DEF DiskWrite, FsInvariant
<1>2. Step(disk, disk') /\ Fits(disk', fs')
  BY <1>1, FitsWritten
<1>. QED
  BY <1>2 DEF Step, Shipped

\* A step is a call, or one of the others.
LEMMA NextCall ==
  ASSUME FsInvariant, Next, ~Boot, ~DiskWrite, ~Crash
  PROVE  \E s : Outcome(disk, s) /\ Call(s)
<1>1. Fits(disk, fs)
  BY DEF FsInvariant
<1>2. fs.status = "running"
  BY DEF Next, Create, CreateDirectory, Write, Rename, Copy, Move, Delete, Call
<1>. USE <1>1, <1>2, CallOutcomes
<1>3. CASE Create
  <2>1. PICK path \in Paths, name \in Files, behind \in Behind :
          Call(CreateFile(fs, name, path, "file", behind))
    BY <1>3 DEF Create
  <2>. QED
    BY <2>1
<1>4. CASE CreateDirectory
  <2>1. PICK path \in Paths, name \in Directories, behind \in Behind :
          Call(CreateFile(fs, name, path, "directory", behind))
    BY <1>4 DEF CreateDirectory
  <2>. QED
    BY <2>1
<1>5. CASE Write
  <2>1. PICK path \in FilePaths, units \in Contents : Call(WriteFile(fs, path, units))
    BY <1>5 DEF Write
  <2>. QED
    BY <2>1
<1>6. CASE Rename
  <2>1. CASE \E path \in FilePaths, new \in Files : Call(RenameFile(fs, path, new))
    <3>1. PICK path \in FilePaths, new \in Files : Call(RenameFile(fs, path, new))
      BY <2>1
    <3>. QED
      BY <3>1
  <2>2. CASE \E path \in DirectoryPaths, new \in Directories : Call(RenameFile(fs, path, new))
    <3>1. PICK path \in DirectoryPaths, new \in Directories : Call(RenameFile(fs, path, new))
      BY <2>2
    <3>. QED
      BY <3>1
  <2>. QED
    BY <1>6, <2>1, <2>2 DEF Rename
<1>7. CASE Copy
  <2>1. PICK path \in FilePaths, newPath \in Paths, behind \in Behind :
          Call(CopyFile(fs, path, newPath, behind))
    BY <1>7 DEF Copy
  <2>. QED
    BY <2>1
<1>8. CASE Move
  <2>1. PICK path \in FilePaths, newPath \in Paths, behind \in Behind :
          Call(MoveFile(fs, path, newPath, behind))
    BY <1>8 DEF Move
  <2>. QED
    BY <2>1
<1>9. CASE Delete
  <2>1. PICK path \in FilePaths \cup DirectoryPaths : Call(DeleteFile(fs, path))
    BY <1>9 DEF Delete
  <2>. QED
    BY <2>1
<1>. QED
  BY <1>3, <1>4, <1>5, <1>6, <1>7, <1>8, <1>9 DEF Next

\* A step keeps the invariant.
LEMMA StepFits ==
  ASSUME FsInvariant, [Next]_vars
  PROVE  FsInvariant'
<1>1. Shipped(disk) /\ Fits(disk, fs)
  BY DEF FsInvariant
<1>2. CASE Boot
  BY <1>2, BootFits DEF FsInvariant
<1>3. CASE DiskWrite
  BY <1>3, DiskWriteFits DEF FsInvariant
<1>4. CASE Crash
  BY <1>1, <1>4 DEF Crash, Fits, FsInvariant
<1>5. CASE Next /\ ~Boot /\ ~DiskWrite /\ ~Crash
  <2>1. PICK s : Outcome(disk, s) /\ Call(s)
    BY <1>5, NextCall
  <2>. QED
    BY <1>1, <2>1, CallFits DEF FsInvariant
<1>6. CASE UNCHANGED vars
  <2>1. disk' = disk /\ fs' = fs
    BY <1>6 DEF vars
  <2>. QED
    BY <1>1, <2>1 DEF FsInvariant
<1>. QED
  BY <1>2, <1>3, <1>4, <1>5, <1>6 DEF Next

\* The invariant holds throughout: the disk is as the kernel left it, write by write, and
\* a kernel that runs has in memory the tree that is on it.
THEOREM FileSystemHeld == Spec => []FsInvariant
<1>1. Init => FsInvariant
  BY DEF Init, FsInvariant, Shipped, Fits
<1>2. FsInvariant /\ [Next]_vars => FsInvariant'
  BY StepFits
<1>. QED
  BY <1>1, <1>2, PTL DEF Spec

\* The types of the memory.
LEMMA MemoryTypes ==
  ASSUME NEW s, FatOK(s.fat), RootOK(s.root), s.was_fat_read \in BOOLEAN,
         s.was_root_read \in BOOLEAN, s.root_entries \in Nat,
         Sectored(s.root_entries) <= RootEntries
  PROVE  /\ s.fat \in [0..ClusterCount -> 0..FAT_SIGNATURE]
         /\ s.root_entries \in 0..(RootEntries + EntriesPerSector - 1)
         /\ \A k \in 1..RootEntries :
              /\ s.root[k].cluster \in 0..(SYSTEM_SECTORS - 1) /\ s.root[k].size \in Nat
              /\ s.root[k].name \in Names
<1>1. s.fat \in [0..ClusterCount -> 0..FAT_SIGNATURE]
  <2>1. {0, EOC, FAT_SIGNATURE} \subseteq 0..FAT_SIGNATURE
    BY Constants
  <2>. QED
    BY <2>1 DEF FatOK
<1>2. s.root_entries \in 0..(RootEntries + EntriesPerSector - 1)
  BY RootFits
<1>3. ASSUME NEW u, MaybeEntry(u)
      PROVE  u.cluster \in 0..(SYSTEM_SECTORS - 1) /\ u.size \in Nat /\ u.name \in Names
  <2>1. {0} \cup Given \subseteq 0..(SYSTEM_SECTORS - 1)
    BY SizesAssumption DEF Given, Clusters, BehindTable, SYSTEM_SECTORS, EOC
  <2>2. CASE u = Blank
    <3>1. u.cluster = 0 /\ u.size = 0 /\ u.name = NoName /\ NoName \in Names
      BY <2>2, SizesAssumption DEF Blank, NoName, Names
    <3>. QED
      BY <2>1, <3>1
  <2>3. CASE Good(u)
    BY <2>1, <2>3 DEF Good, EntryType
  <2>. QED
    BY <1>3, <2>2, <2>3 DEF MaybeEntry
<1>4. \A k \in 1..RootEntries : MaybeEntry(s.root[k])
  BY DEF RootOK
<1>. QED
  BY <1>1, <1>2, <1>3, <1>4

\* The table that is on the disk.
LEMMA DiskTypes ==
  ASSUME Shipped(disk)
  PROVE  DiskOK(disk) /\ disk.fat \in [0..ClusterCount -> 0..FAT_SIGNATURE]
<1>1. DiskOK(disk)
  BY NewDiskOK DEF Shipped
<1>2. {0, EOC, FAT_SIGNATURE} \subseteq 0..FAT_SIGNATURE
  BY Constants
<1>. QED
  BY <1>1, <1>2 DEF DiskOK, FatOK

\* The memory of a machine that has just been switched on, or of a kernel that stopped.
LEMMA FreshTypes ==
  ASSUME NEW s, s.fat = NewDisk.fat, s.root = NewDisk.root, s.root_entries = 0,
         s.was_fat_read = FALSE, s.was_root_read = FALSE
  PROVE  /\ FatOK(s.fat) /\ RootOK(s.root) /\ s.was_fat_read \in BOOLEAN
         /\ s.was_root_read \in BOOLEAN /\ s.root_entries \in Nat
         /\ Sectored(s.root_entries) <= RootEntries
<1>1. FatOK(s.fat) /\ RootOK(s.root)
  BY NewDiskOK DEF DiskOK
<1>2. s.was_fat_read \in BOOLEAN /\ s.was_root_read \in BOOLEAN
  BY Zenon
<1>3. s.root_entries \in Nat
  OBVIOUS
<1>4. Sectored(s.root_entries) <= RootEntries
  <2>1. Sectored(0) = 0
    BY SectoredEntries
  <2>. QED
    BY <2>1, Constants
<1>. QED
  BY <1>1, <1>2, <1>3, <1>4

\* The memory of a stopped kernel.
LEMMA HaltedFields ==
  ASSUME NEW d, NEW s, Halted(d, s)
  PROVE  /\ s.fat = NewDisk.fat /\ s.root = NewDisk.root /\ s.root_entries = 0
         /\ s.was_fat_read = FALSE /\ s.was_root_read = FALSE /\ s.status \in Statuses
<1>. DEFINE p == PoweredOn(s.view)
<1>1. /\ p = [field \in Fields |-> p[field]]
      /\ p.fat = NewDisk.fat /\ p.root = NewDisk.root /\ p.root_entries = 0
      /\ p.was_fat_read = FALSE /\ p.was_root_read = FALSE
  BY PoweredOnIs
<1>2. s = [p EXCEPT !.writes = s.writes, !.status = s.status]
  BY DEF Halted
<1>. HIDE DEF p
<1>3. s.fat = p.fat /\ s.root = p.root /\ s.root_entries = p.root_entries
      /\ s.was_fat_read = p.was_fat_read /\ s.was_root_read = p.was_root_read
  BY <1>1, <1>2 DEF Fields
<1>. QED
  BY <1>1, <1>3 DEF Halted, Traced

\* The fields of the memory have their types, and the number of entries of the root
\* directory never passes what its sectors allow by a whole sector.
THEOREM FsTypeCorrect == Spec => []FsTypeOK
<1>1. FsInvariant => FsTypeOK
  <2>. SUFFICES ASSUME FsInvariant PROVE FsTypeOK
    OBVIOUS
  <2>1. disk.fat \in [0..ClusterCount -> 0..FAT_SIGNATURE]
    BY DiskTypes DEF FsInvariant
  <2>2. /\ FatOK(fs.fat) /\ RootOK(fs.root) /\ fs.was_fat_read \in BOOLEAN
        /\ fs.was_root_read \in BOOLEAN /\ fs.root_entries \in Nat
        /\ Sectored(fs.root_entries) <= RootEntries
        /\ fs.status \in {"off", "running", "panic", "fault", "undefined"}
    <3>1. CASE fs = PoweredOn(disk)
      <4>1. /\ fs.fat = NewDisk.fat /\ fs.root = NewDisk.root /\ fs.root_entries = 0
            /\ fs.was_fat_read = FALSE /\ fs.was_root_read = FALSE /\ fs.status = "off"
        BY <3>1, PoweredOnIs
      <4>. QED
        BY <4>1, FreshTypes
    <3>2. CASE Halted(disk, fs)
      <4>1. /\ fs.fat = NewDisk.fat /\ fs.root = NewDisk.root /\ fs.root_entries = 0
            /\ fs.was_fat_read = FALSE /\ fs.was_root_read = FALSE /\ fs.status \in Statuses
        BY <3>2, HaltedFields
      <4>2. fs.status \in {"off", "running", "panic", "fault", "undefined"}
        BY <4>1 DEF Statuses
      <4>. QED
        BY <4>1, <4>2, FreshTypes
    <3>3. CASE Runs(disk, fs)
      <4>1. Ready(disk, fs)
        BY <3>3 DEF Runs
      <4>. QED
        BY <4>1, ReadyParts DEF MemoryOK
    <3>. QED
      BY <3>1, <3>2, <3>3 DEF FsInvariant, Fits
  <2>. QED
    BY <2>1, <2>2, MemoryTypes DEF FsTypeOK
<1>. QED
  BY <1>1, FileSystemHeld, PTL

\* Between two calls the disk is what the kernel takes it for.
LEMMA QuietDisk ==
  ASSUME FsInvariant, Quiet
  PROVE  Ready(disk, fs) /\ fs.view = disk /\ \E D, R : Held(fs, D, R)
<1>1. Runs(disk, fs) /\ fs.writes = <<>>
  BY FitsStatus DEF FsInvariant, Quiet
<1>2. Ready(disk, fs) /\ \E D, R : Held(fs, D, R)
  BY <1>1 DEF Runs
<1>3. Trace(disk, <<>>, fs.view)
  BY <1>1, <1>2 DEF Ready, Traced
<1>. QED
  BY <1>2, <1>3, TraceDone

\* Between two calls, a buffer whose flag is set has what is on the disk: fat_buff and
\* root_dir_buff never go stale.
THEOREM CachesNeverLie == Spec => []CachesCoherent
<1>1. FsInvariant => CachesCoherent
  <2>. SUFFICES ASSUME FsInvariant, Quiet
       PROVE  /\ fs.was_fat_read => fs.fat = disk.fat
              /\ fs.was_root_read => \A k \in 1..InSectors(fs) : fs.root[k] = disk.root[k]
    BY DEF CachesCoherent
  <2>1. Ready(disk, fs) /\ fs.view = disk
    BY QuietDisk
  <2>. QED
    BY <2>1, InSectorsIs DEF Ready, Coherent
<1>. QED
  BY <1>1, FileSystemHeld, PTL

\* What the tree says of the disk, between two calls.
LEMMA QuietListed ==
  ASSUME FsInvariant, Quiet
  PROVE  /\ \A e \in Listed(disk) : e.cluster \in Clusters /\ disk.fat[e.cluster] = EOC
         /\ \A e, f \in Listed(disk) : e.cluster = f.cluster => e = f
         /\ \A e \in Listed(disk) :
              e.attributes = "file" /\ e.size <= EntriesPerSector =>
                SubSeq(disk.data[e.cluster], 1, e.size) = fs.written[e.cluster]
         /\ \A k \in 1..Min({fs.root_entries, RootEntries}) :
              disk.root[k] = Blank <=> (k > EntriesPerSector /\ k % EntriesPerSector # 0)
<1>1. Ready(disk, fs) /\ fs.view = disk
  BY QuietDisk
<1>2. PICK D, R : Held(fs, D, R)
  BY QuietDisk
<1>3. /\ \A e \in Listed(fs.view) : e.cluster \in Clusters /\ fs.view.fat[e.cluster] = EOC
      /\ \A e, f \in Listed(fs.view) : e.cluster = f.cluster => e = f
      /\ \A e \in Listed(fs.view) :
           e.attributes = "file" /\ e.size <= EntriesPerSector =>
             SubSeq(fs.view.data[e.cluster], 1, e.size) = fs.written[e.cluster]
      /\ \A k \in 1..Min({fs.root_entries, RootEntries}) :
           fs.view.root[k] = Blank <=> (k > EntriesPerSector /\ k % EntriesPerSector # 0)
  BY <1>1, <1>2, HeldListed
<1>. QED
  BY <1>1, <1>3

\* No sequence of calls gives a cluster to two files or directories, and the cluster of
\* each is marked in the table, until a search for a cluster leaves the table.
THEOREM ClustersUnshared == Spec => []OneClusterEach
<1>1. FsInvariant => OneClusterEach
  BY QuietListed DEF OneClusterEach
<1>. QED
  BY <1>1, FileSystemHeld, PTL

\* A file that fits in a cluster reads as what was last written to it, whatever was
\* created, copied, moved, renamed or deleted since.
THEOREM SmallFilesKept == Spec => []SmallFilesReadBack
<1>1. FsInvariant => SmallFilesReadBack
  BY QuietListed DEF SmallFilesReadBack
<1>. QED
  BY <1>1, FileSystemHeld, PTL

\* The root directory keeps its first sector and the entries that complete a sector, and
\* no other.
THEOREM RootLosesTheRest == Spec => []RootKeepsWholeSectors
<1>1. FsInvariant => RootKeepsWholeSectors
  BY QuietListed DEF RootKeepsWholeSectors
<1>. QED
  BY <1>1, FileSystemHeld, PTL

\* Also between the writes of one call, an entry reaches the disk only when its cluster is
\* marked there, or when every entry of the table there is taken.
THEOREM MarkedFirst == Spec => MarkedBeforeListed
<1>1. FsInvariant /\ [Next]_vars =>
        [\A e \in Listed(disk') \ Listed(disk) :
           IF e.cluster \in Clusters THEN disk'.fat[e.cluster] # 0
           ELSE \A c \in Clusters : disk'.fat[c] # 0]_vars
  <2>. SUFFICES ASSUME FsInvariant, Next PROVE NewMarked(disk, disk')
    BY DEF NewMarked, Full
  <2>1. CASE DiskWrite
    BY <2>1, DiskWriteFits
  <2>2. CASE ~DiskWrite
    <3>1. disk' = disk
      BY <2>2 DEF Next, Boot, Crash, Create, CreateDirectory, Write, Rename, Copy, Move,
                  Delete, Call
    <3>. QED
      BY <3>1 DEF NewMarked
  <2>. QED
    BY <2>1, <2>2
<1>. QED
  BY <1>1, FileSystemHeld, PTL DEF Spec, MarkedBeforeListed

=============================================================================
