---------------------------- MODULE FrameProofs ----------------------------
(***************************************************************************)
(* Theorems on FrameAllocator, for every size of the memory, the kernel, the  *)
(* batch and the bitmap's words.  TypeCorrect holds for any number of         *)
(* callers; the other theorems are about one caller, the hypothesis under     *)
(* which they are true: the run frame_allocator_shared shows how two callers  *)
(* break them.                                                               *)
(***************************************************************************)
EXTENDS FrameAllocator, TLAPS

-----------------------------------------------------------------------------
(* Arithmetic of the bitmap *)

\* A frame's own word lies above it: this is why the stray test of palloc_single
\* cannot go wrong inside the bitmap.
LEMMA OwnWordAbove ==
  ASSUME NEW f \in Nat, f >= 1, InBitmap(f)
  PROVE  \E g \in WordOf(f) : g > f /\ g < FrameCount
<1>1. WordBits \in Nat /\ WordBits >= 2 /\ FrameCount \in Nat
  BY WordAssumption, LayoutAssumption
<1>2. WordBits * f >= 2 * f
  <2>1. PICK d \in Nat : WordBits = d + 2
    <3>1. WordBits - 2 \in Nat /\ WordBits = (WordBits - 2) + 2
      BY <1>1
    <3> QED BY <3>1
  <2>2. d * f \in Nat
    BY <2>1
  <2>3. (d + 2) * f = d * f + 2 * f
    BY <2>1
  <2> QED BY <2>1, <2>2, <2>3
<1>3. WordBits * f \in Nat /\ WordBits * (f + 1) = WordBits * f + WordBits
  BY <1>1
<1>4. WordBits * f + WordBits <= FrameCount
  BY <1>3 DEF InBitmap
<1> DEFINE w == WordBits * f
<1>5. w \in Nat /\ w >= 2 * f /\ w + WordBits <= FrameCount
  BY <1>2, <1>3, <1>4
<1> HIDE DEF w
<1>6. w \in w..(w + WordBits - 1) /\ w > f /\ w < FrameCount
  BY <1>1, <1>5
<1> QED BY <1>6 DEF w, WordOf

\* The memory holds the kernel.
LEMMA KernelFramesAreFrames == KernelFrames \subseteq Frames
BY LayoutAssumption DEF KernelFrames, Frames

-----------------------------------------------------------------------------
(* Type correctness *)

\* What types alone do not say: a frame a caller has found is a frame, and the batch
\* has a slot for it.
TypeInv ==
  /\ TypeOK
  /\ \A c \in Callers :
       /\ at[c] \in {"load", "mark", "store"} => i[c] \in Frames
       /\ at[c] \in {"test", "load", "mark", "store"} => slot[c] \in Slots

\* It holds at the start,
LEMMA TypeInvInit == Init => TypeInv
<1> SUFFICES ASSUME Init PROVE TypeInv
  OBVIOUS
<1>1. used \subseteq Frames
  BY KernelFramesAreFrames DEF Init
<1>2. 0 \in Frames /\ FirstFrame \in FirstFrame..FrameCount /\ 0 \in 0..BatchSize
  BY LayoutAssumption, BatchAssumption DEF Frames
<1>3. current_frames \in [Slots -> Frames] /\ times \in [Frames -> Nat]
  BY <1>2 DEF Init
<1>4. /\ at \in [Callers -> Statements] /\ i \in [Callers -> FirstFrame..FrameCount]
      /\ word \in [Callers -> SUBSET Frames] /\ slot \in [Callers -> 0..BatchSize]
      /\ count \in [Callers -> 0..255]
  BY <1>2 DEF Init, Statements
<1>5. \A c \in Callers : at[c] = "idle"
  BY DEF Init
<1>6. pallocated \in 0..255
  BY DEF Init
<1>7. allocate \in BOOLEAN /\ panicked \in BOOLEAN
  BY Zenon DEF Init
<1> QED BY <1>1, <1>3, <1>4, <1>5, <1>6, <1>7 DEF TypeInv, TypeOK

\* and every step keeps it.
LEMMA TypeInvNext == TypeInv /\ [Next]_vars => TypeInv'
<1> SUFFICES ASSUME TypeInv, [Next]_vars PROVE TypeInv'
  OBVIOUS
<1> USE LayoutAssumption, BatchAssumption
    DEF TypeInv, TypeOK, At, Goto, batch, locals, Statements, Filling
<1>1. ASSUME NEW c \in Callers, Call(c) PROVE TypeInv'
  BY <1>1 DEF Call
<1>2. ASSUME NEW c \in Callers, Search(c) PROVE TypeInv'
  <2>1. UNCHANGED <<used, allocate, pallocated, current_frames, word, slot, count, times>>
    BY <1>2 DEF Search
  <2>2. at[c] = "test" /\ slot[c] \in Slots /\ i[c] \in FirstFrame..FrameCount
    BY <1>2 DEF Search
  <2>3. CASE panicked' = TRUE /\ UNCHANGED <<at, i>>
    <3>1. panicked' \in BOOLEAN
      BY <2>3, Zenon
    <3> QED BY <2>1, <2>3, <3>1
  <2>4. CASE Goto(c, "load") /\ UNCHANGED <<i, panicked>> /\ i[c] # FrameCount
    <3>1. i[c] \in Frames
      BY <2>2, <2>4 DEF Frames
    <3> QED BY <2>1, <2>2, <2>4, <3>1
  <2>5. CASE i' = [i EXCEPT ![c] = @ + 1] /\ UNCHANGED <<at, panicked>> /\ i[c] # FrameCount
    <3>1. i[c] + 1 \in FirstFrame..FrameCount
      BY <2>2, <2>5
    <3>2. i' \in [Callers -> FirstFrame..FrameCount]
      BY <2>5, <3>1
    <3>3. \A d \in Callers : at[d] \in {"load", "mark", "store"} => i'[d] = i[d]
      BY <2>2, <2>5
    <3> QED BY <2>1, <2>5, <3>2, <3>3
  <2> QED BY <1>2, <2>3, <2>4, <2>5 DEF Search
<1>3. ASSUME NEW c \in Callers, LoadWord(c) PROVE TypeInv'
  <2>1. used \cap WordOf(i[c] \div WordBits) \in SUBSET Frames
    OBVIOUS
  <2> QED BY <1>3, <2>1 DEF LoadWord
<1>4. ASSUME NEW c \in Callers, StoreWord(c) PROVE TypeInv'
  <2>1. word[c] \subseteq Frames /\ i[c] \in Frames
    BY <1>4 DEF StoreWord
  <2>2. used' \subseteq Frames
    BY <1>4, <2>1 DEF StoreWord
  <2> QED BY <1>4, <2>2 DEF StoreWord
<1>5. ASSUME NEW c \in Callers, StoreFrame(c) PROVE TypeInv'
  <2>1. slot[c] \in Slots /\ i[c] \in Frames
    BY <1>5 DEF StoreFrame
  <2>2. current_frames' \in [Slots -> Frames]
    BY <1>5, <2>1 DEF StoreFrame
  <2>3. slot[c] + 1 \in 0..BatchSize /\ FirstFrame \in FirstFrame..FrameCount
    BY <2>1 DEF Slots
  <2>4. slot' \in [Callers -> 0..BatchSize]
    BY <1>5, <2>3 DEF StoreFrame
  <2>5. i' \in [Callers -> FirstFrame..FrameCount]
    BY <1>5, <2>3 DEF StoreFrame
  <2>6. at' \in [Callers -> Statements]
    BY <1>5 DEF StoreFrame
  <2>7. UNCHANGED <<used, allocate, pallocated, word, count, panicked, times>>
    BY <1>5 DEF StoreFrame
  <2>8. ASSUME NEW d \in Callers, at'[d] \in {"test", "load", "mark", "store"}
        PROVE  slot'[d] \in Slots /\ (at'[d] # "test" => i'[d] \in Frames)
    <3>1. CASE d = c
      <4>1. at'[c] = "test" /\ slot[c] + 1 # BatchSize /\ slot'[c] = slot[c] + 1
        BY <1>5, <2>8, <3>1 DEF StoreFrame
      <4>2. slot[c] + 1 \in Slots
        <5> HIDE DEF TypeInv, TypeOK
        <5> QED BY <2>1, <4>1 DEF Slots
      <4> QED BY <3>1, <4>1, <4>2
    <3>2. CASE d # c
      <4>1. at'[d] = at[d] /\ slot'[d] = slot[d] /\ i'[d] = i[d]
        BY <1>5, <3>2 DEF StoreFrame
      <4> QED BY <2>8, <4>1
    <3> QED BY <3>1, <3>2
  <2> QED BY <2>2, <2>4, <2>5, <2>6, <2>7, <2>8
<1>6. ASSUME NEW c \in Callers, TestBatch(c) PROVE TypeInv'
  <2>1. allocate' \in BOOLEAN
    BY <1>6, Zenon DEF TestBatch
  <2> QED BY <1>6, <2>1 DEF TestBatch
<1>7. ASSUME NEW c \in Callers, TestAllocate(c) PROVE TypeInv'
  <2>1. 0 \in Slots /\ 0 \in 0..BatchSize /\ FirstFrame \in FirstFrame..FrameCount
    BY DEF Slots
  <2> QED BY <1>7, <2>1 DEF TestAllocate
<1>8. ASSUME NEW c \in Callers, StartBatch(c) PROVE TypeInv'
  <2>1. allocate' \in BOOLEAN
    BY <1>8, Zenon DEF StartBatch
  <2>2. pallocated' \in 0..255
    BY <1>8 DEF StartBatch
  <2> QED BY <1>8, <2>1, <2>2 DEF StartBatch
<1>9. ASSUME NEW c \in Callers, LoadCount(c) PROVE TypeInv'
  BY <1>9 DEF LoadCount
<1>10. ASSUME NEW c \in Callers, StoreCount(c) PROVE TypeInv'
  <2>1. count[c] \in 0..255 /\ pallocated' = (count[c] + 1) % 256
    BY <1>10 DEF StoreCount
  <2>2. pallocated' \in 0..255
    BY <2>1
  <2> QED BY <1>10, <2>2 DEF StoreCount
<1>11. ASSUME NEW c \in Callers, Give(c) PROVE TypeInv'
  <2>1. PICK f \in Frames : times' = [times EXCEPT ![f] = @ + 1]
    BY <1>11 DEF Give
  <2>2. times[f] + 1 \in Nat
    BY <2>1
  <2>3. times' \in [Frames -> Nat]
    BY <2>1, <2>2
  <2> QED BY <1>11, <2>3 DEF Give
<1>12. ASSUME UNCHANGED vars PROVE TypeInv'
  BY <1>12 DEF vars
<1> QED BY <1>1, <1>2, <1>3, <1>4, <1>5, <1>6, <1>7, <1>8, <1>9, <1>10, <1>11,
           <1>12 DEF Next, Step

\* The variables have their types, whatever the callers of palloc do to each other.
THEOREM TypeCorrect == Spec => []TypeOK
<1>1. TypeInv => TypeOK
  BY DEF TypeInv
<1> QED BY <1>1, TypeInvInit, TypeInvNext, PTL DEF Spec

-----------------------------------------------------------------------------
(* One caller: the inductive invariant *)

\* Where the caller is decides what its local and the static variables say.
Control(c) ==
  /\ at[c] \in {"load", "mark"} => i[c] \notin used
  /\ at[c] = "mark" => word[c] = used \cap WordOf(i[c] \div WordBits)
  /\ at[c] = "reset" => slot[c] = BatchSize
  /\ at[c] \in {"count", "bump", "give"} => ~allocate
  /\ ~allocate => pallocated <= BatchSize
  /\ at[c] \in {"count", "bump"} => pallocated < BatchSize
  /\ at[c] = "allocate" /\ ~allocate => pallocated < BatchSize
  /\ at[c] = "bump" => count[c] = pallocated
  /\ at[c] = "give" => pallocated >= 1

\* Every frame is free, the kernel's, handed out once, in one waiting slot, or in the
\* caller's hand, and only one of these.
BooksOf(waiting, hand) ==
  /\ \A k, l \in waiting : current_frames[k] = current_frames[l] => k = l
  /\ \A k \in waiting : /\ current_frames[k] \in used \ KernelFrames
                        /\ times[current_frames[k]] = 0
                        /\ current_frames[k] \notin hand
  /\ \A f \in hand : f \in used \ KernelFrames /\ times[f] = 0
  /\ \A f \in Frames : times[f] = 0 \/ (times[f] = 1 /\ f \in used \ KernelFrames)
  /\ KernelFrames \subseteq used
  /\ \A f \in used : \/ f \in KernelFrames \/ times[f] = 1 \/ f \in hand
                     \/ \E k \in waiting : f = current_frames[k]

Books(c) == BooksOf(WaitingSlots(c), InHand(c))

\* Nothing free lies behind the search.
Order(c) ==
  /\ LowestFirst
  /\ at[c] \in {"test", "load", "mark"} =>
       \A f \in FirstFrame..(FrameCount - 1) :
          InBitmap(f) /\ f \notin used => f >= i[c]

IInv(c) == TypeInv /\ Control(c) /\ Books(c) /\ Order(c)

\* With one caller, what is marked is the frame found and nothing else.
LEMMA MarkedExactly ==
  ASSUME NEW c \in Callers, IInv(c), StoreWord(c)
  PROVE  used' = used \cup {i[c]}
BY DEF IInv, Control, StoreWord, At

\* The invariant holds at the start.
LEMMA IInvInit ==
  ASSUME NEW c \in Callers, Init PROVE IInv(c)
<1>1. TypeInv
  BY TypeInvInit
<1>2. at[c] = "idle" /\ allocate = TRUE /\ used = KernelFrames
  BY DEF Init
<1>3. Control(c)
  BY <1>2 DEF Control
<1>4. WaitingSlots(c) = {} /\ InHand(c) = {}
  BY <1>2 DEF WaitingSlots, InHand, Filling
<1>5. Books(c)
  BY <1>2, <1>4 DEF Books, BooksOf, Init
<1>6. Order(c)
  <2>1. ASSUME NEW f \in FirstFrame..(FrameCount - 1), f \notin used, NEW g \in used
        PROVE  g < f
    BY <1>2, <2>1, LayoutAssumption DEF KernelFrames
  <2> QED BY <1>2, <2>1 DEF Order, LowestFirst, Init
<1> QED BY <1>1, <1>3, <1>5, <1>6 DEF IInv

\* The frame the search stops at, or passes, is the lowest of those free and in the
\* bitmap, or none of them.
LEMMA SearchInOrder ==
  ASSUME NEW c \in Callers, IInv(c), Search(c) PROVE Order(c)'
<1> USE LayoutAssumption
<1>1. at[c] = "test" /\ ~panicked /\ i[c] \in FirstFrame..FrameCount
  BY DEF Search, At, IInv, TypeInv, TypeOK
<1>2. used' = used /\ used \subseteq Frames
  BY DEF Search, IInv, TypeInv, TypeOK
<1>3. \A f \in FirstFrame..(FrameCount - 1) :
         InBitmap(f) /\ f \notin used => f >= i[c] /\ \A g \in used : g < f
  BY <1>1 DEF IInv, Order, LowestFirst
<1>4. CASE i[c] = FrameCount /\ UNCHANGED <<at, i>>
  <2>1. \A f \in FirstFrame..(FrameCount - 1) : ~(InBitmap(f) /\ f \notin used)
    BY <1>3, <1>4
  <2> QED BY <1>2, <2>1 DEF Order, LowestFirst
<1>5. CASE Goto(c, "load") /\ UNCHANGED <<i, panicked>>
  BY <1>1, <1>2, <1>3, <1>5 DEF Order, LowestFirst
<1>6. CASE /\ i[c] # FrameCount
           /\ i[c] \in used \/ MayBeFull(i[c])
           /\ i' = [i EXCEPT ![c] = @ + 1] /\ UNCHANGED <<at, panicked>>
  <2>1. i'[c] = i[c] + 1 /\ i[c] \in FirstFrame..(FrameCount - 1)
    <3>1. c \in DOMAIN i
      BY DEF IInv, TypeInv, TypeOK
    <3>2. i'[c] = i[c] + 1
      BY <1>6, <3>1
    <3> QED BY <1>1, <1>6, <3>2
  <2>2. ~(InBitmap(i[c]) /\ i[c] \notin used)
    <3> SUFFICES ASSUME InBitmap(i[c]), i[c] \notin used PROVE FALSE
      OBVIOUS
    <3>1. WordOf(i[c]) \subseteq used
      BY <1>6 DEF MayBeFull
    <3>2. i[c] \in Nat /\ i[c] >= 1
      BY <2>1
    <3>3. PICK g \in WordOf(i[c]) : g > i[c]
      BY <3>2, OwnWordAbove
    <3>4. g \in used
      BY <3>1, <3>3
    <3>5. g \in Int
      BY <1>2, <3>4 DEF Frames
    <3>6. g < i[c]
      BY <1>3, <2>1, <3>4
    <3> QED BY <2>1, <3>3, <3>5, <3>6
  <2>3. \A f \in FirstFrame..(FrameCount - 1) :
           InBitmap(f) /\ f \notin used => f >= i'[c]
    BY <1>3, <2>1, <2>2
  <2> QED BY <1>1, <1>2, <1>3, <1>6, <2>3 DEF Order, LowestFirst
<1> QED BY <1>4, <1>5, <1>6 DEF Search

\* What a step leaves alone, it leaves in the books.
LEMMA BooksKept ==
  ASSUME NEW c \in Callers, Books(c), UNCHANGED <<used, current_frames, times>>,
         WaitingSlots(c)' = WaitingSlots(c), InHand(c)' = InHand(c)
  PROVE  Books(c)'
BY DEF Books, BooksOf

\* The order of the search depends on little.
LEMMA OrderKept ==
  ASSUME NEW c \in Callers, Order(c), UNCHANGED <<used, panicked>>,
         at'[c] \in {"test", "load", "mark"} =>
            (at[c] \in {"test", "load", "mark"} /\ i'[c] = i[c]) \/ i'[c] = FirstFrame
  PROVE  Order(c)'
<1>1. LowestFirst'
  BY DEF Order, LowestFirst
<1>2. CASE i'[c] = FirstFrame
  BY <1>1, <1>2, LayoutAssumption DEF Order
<1>3. CASE i'[c] # FirstFrame
  BY <1>1, <1>3 DEF Order
<1> QED BY <1>2, <1>3

\* Every step keeps the invariant.
LEMMA IInvNext ==
  ASSUME NEW c, Callers = {c}, IInv(c), [Next]_vars PROVE IInv(c)'
<1> USE LayoutAssumption, BatchAssumption DEF At, Goto, batch, locals
<1>1. TypeInv'
  BY TypeInvNext DEF IInv
<1>2. c \in Callers /\ TypeOK /\ TypeInv /\ Control(c) /\ Books(c) /\ Order(c)
  BY DEF IInv, TypeInv
<1>3. /\ c \in DOMAIN at /\ c \in DOMAIN i /\ c \in DOMAIN slot
      /\ c \in DOMAIN word /\ c \in DOMAIN count
      /\ pallocated \in 0..255
  BY <1>2 DEF TypeOK
<1>4. ASSUME Call(c) PROVE IInv(c)'
  <2>1. at[c] = "idle" /\ at'[c] = "full" /\ UNCHANGED <<used, batch, locals, panicked, times>>
    BY <1>3, <1>4 DEF Call
  <2>2. Control(c)'
    BY <1>2, <2>1 DEF Control
  <2>3. Books(c)'
    BY <1>2, <2>1, BooksKept DEF WaitingSlots, InHand, Filling
  <2>4. Order(c)'
    BY <1>2, <2>1, OrderKept
  <2> QED BY <1>1, <2>2, <2>3, <2>4 DEF IInv
<1>5. ASSUME Search(c) PROVE IInv(c)'
  <2>1. at[c] = "test" /\ at'[c] \in {"test", "load"}
        /\ UNCHANGED <<used, batch, word, slot, count, times>>
    BY <1>3, <1>5 DEF Search
  <2>2. at'[c] = "load" => i'[c] = i[c] /\ i[c] \notin used
    BY <1>3, <1>5, <2>1 DEF Search
  <2>3. Control(c)'
    BY <1>2, <2>1, <2>2 DEF Control
  <2>4. Books(c)'
    BY <1>2, <2>1, BooksKept DEF WaitingSlots, InHand, Filling
  <2>5. Order(c)'
    BY <1>2, <1>5, SearchInOrder
  <2> QED BY <1>1, <2>3, <2>4, <2>5 DEF IInv
<1>6. ASSUME LoadWord(c) PROVE IInv(c)'
  <2>1. at[c] = "load" /\ at'[c] = "mark" /\ i' = i
        /\ UNCHANGED <<used, batch, slot, count, panicked, times>>
        /\ word'[c] = used \cap WordOf(i[c] \div WordBits)
    BY <1>3, <1>6 DEF LoadWord
  <2>2. Control(c)'
    BY <1>2, <2>1 DEF Control
  <2>3. Books(c)'
    BY <1>2, <2>1, BooksKept DEF WaitingSlots, InHand, Filling
  <2>4. Order(c)'
    BY <1>2, <2>1, OrderKept
  <2> QED BY <1>1, <2>2, <2>3, <2>4 DEF IInv
<1>7. ASSUME StoreWord(c) PROVE IInv(c)'
  <2>1. at[c] = "mark" /\ at'[c] = "store" /\ ~panicked
        /\ UNCHANGED <<batch, locals, panicked, times>>
    BY <1>3, <1>7 DEF StoreWord
  <2>2. used' = used \cup {i[c]} /\ i[c] \notin used /\ i[c] \in Frames
    BY <1>2, <1>7, <2>1, MarkedExactly DEF Control, TypeInv
  <2>3. Control(c)'
    BY <1>2, <2>1 DEF Control
  <2>4. Books(c)'
    <3>1. WaitingSlots(c)' = WaitingSlots(c) /\ InHand(c) = {} /\ InHand(c)' = {i[c]}
      BY <2>1 DEF WaitingSlots, InHand, Filling
    <3>2. PICK W, f : W = WaitingSlots(c) /\ f = i[c]
      OBVIOUS
    <3>3. BooksOf(W, {})
      BY <1>2, <3>1, <3>2 DEF Books
    <3>4. BooksOf(W, {f})'
      BY <2>1, <2>2, <3>2, <3>3 DEF BooksOf
    <3> QED BY <3>1, <3>2, <3>4 DEF Books
  <2>5. Order(c)'
    <3>1. \A f \in FirstFrame..(FrameCount - 1) :
             InBitmap(f) /\ f \notin used' => f > i[c] /\ \A g \in used : g < f
      BY <1>2, <2>1, <2>2 DEF Order, LowestFirst, Frames
    <3> QED BY <2>1, <2>2, <3>1 DEF Order, LowestFirst
  <2> QED BY <1>1, <2>3, <2>4, <2>5 DEF IInv
<1>8. ASSUME StoreFrame(c) PROVE IInv(c)'
  <2>1. at[c] = "store" /\ ~panicked /\ i'[c] = FirstFrame
        /\ slot[c] \in Slots /\ slot'[c] = slot[c] + 1
        /\ UNCHANGED <<used, allocate, pallocated, word, count, panicked, times>>
    BY <1>2, <1>3, <1>8 DEF StoreFrame, TypeInv
  <2>2. \/ at'[c] = "reset" /\ slot'[c] = BatchSize
        \/ at'[c] = "test"
    BY <1>3, <1>8, <2>1 DEF StoreFrame
  <2>3. current_frames' = [current_frames EXCEPT ![slot[c]] = i[c]]
        /\ current_frames \in [Slots -> Frames]
    BY <1>2, <1>8 DEF StoreFrame, TypeOK
  <2>4. Control(c)'
    BY <1>2, <2>1, <2>2 DEF Control
  <2>5. Books(c)'
    <3>0. PICK W, n, f : W = WaitingSlots(c) /\ n = slot[c] /\ f = i[c]
      OBVIOUS
    <3>1. W \subseteq Slots /\ n \notin W /\ InHand(c) = {f} /\ InHand(c)' = {}
      BY <2>1, <2>2, <3>0 DEF WaitingSlots, InHand, Filling, Slots
    <3>2. WaitingSlots(c)' = W \cup {n}
      BY <2>1, <2>2, <3>0 DEF WaitingSlots, Filling, Slots
    <3>3. BooksOf(W, {f})
      BY <1>2, <3>0, <3>1 DEF Books
    <3>4. \A k \in W : current_frames'[k] = current_frames[k]
      BY <2>3, <3>0, <3>1
    <3>5. current_frames'[n] = f
      BY <2>1, <2>3, <3>0
    <3>6. BooksOf(W \cup {n}, {})'
      BY <2>1, <3>3, <3>4, <3>5 DEF BooksOf
    <3> QED BY <3>1, <3>2, <3>6 DEF Books
  <2>6. Order(c)'
    BY <1>2, <2>1, OrderKept
  <2> QED BY <1>1, <2>4, <2>5, <2>6 DEF IInv
<1>9. ASSUME TestBatch(c) PROVE IInv(c)'
  <2>1. at[c] = "full" /\ at'[c] = "allocate"
        /\ UNCHANGED <<used, pallocated, current_frames, locals, panicked, times>>
    BY <1>3, <1>9 DEF TestBatch
  <2>2. CASE allocate \/ pallocated = BatchSize
    <3>1. allocate'
      BY <1>9, <2>2, Zenon DEF TestBatch
    <3>2. Control(c)'
      BY <2>1, <3>1 DEF Control
    <3>3. WaitingSlots(c) = {} /\ WaitingSlots(c)' = {}
      <4>1. WaitingSlots(c)' = {}
        BY <2>1, <3>1 DEF WaitingSlots, Filling
      <4>2. CASE allocate
        BY <2>1, <4>1, <4>2 DEF WaitingSlots, Filling
      <4>3. CASE pallocated = BatchSize
        BY <2>1, <4>1, <4>3 DEF WaitingSlots, Filling, Slots
      <4> QED BY <2>2, <4>2, <4>3
    <3>4. Books(c)'
      BY <1>2, <2>1, <3>3, BooksKept DEF InHand
    <3>5. Order(c)'
      BY <1>2, <2>1, OrderKept
    <3> QED BY <1>1, <3>2, <3>4, <3>5 DEF IInv
  <2>3. CASE ~allocate /\ pallocated # BatchSize
    <3>1. ~allocate'
      BY <1>9, <2>3, Zenon DEF TestBatch
    <3>2. Control(c)'
      BY <1>2, <1>3, <2>1, <2>3, <3>1 DEF Control
    <3>3. WaitingSlots(c)' = WaitingSlots(c)
      BY <2>1, <2>3, <3>1 DEF WaitingSlots, Filling
    <3>4. Books(c)'
      BY <1>2, <2>1, <3>3, BooksKept DEF InHand
    <3>5. Order(c)'
      BY <1>2, <2>1, OrderKept
    <3> QED BY <1>1, <3>2, <3>4, <3>5 DEF IInv
  <2> QED BY <2>2, <2>3
<1>10. ASSUME TestAllocate(c) PROVE IInv(c)'
  <2>1. at[c] = "allocate" /\ UNCHANGED <<used, batch, word, count, panicked, times>>
    BY <1>10 DEF TestAllocate
  <2>2. CASE allocate
    <3>1. at'[c] = "test" /\ slot'[c] = 0 /\ i'[c] = FirstFrame
      BY <1>3, <1>10, <2>2 DEF TestAllocate
    <3>2. Control(c)'
      BY <1>2, <2>1, <3>1 DEF Control
    <3>3. WaitingSlots(c) = {} /\ WaitingSlots(c)' = {}
      BY <2>1, <2>2, <3>1 DEF WaitingSlots, Filling, Slots
    <3>4. Books(c)'
      BY <1>2, <2>1, <3>1, <3>3, BooksKept DEF InHand
    <3>5. Order(c)'
      BY <1>2, <2>1, <3>1, OrderKept
    <3> QED BY <1>1, <3>2, <3>4, <3>5 DEF IInv
  <2>3. CASE ~allocate
    <3>1. at'[c] = "count" /\ UNCHANGED <<slot, i>>
      BY <1>3, <1>10, <2>3 DEF TestAllocate
    <3>2. Control(c)'
      BY <1>2, <2>1, <2>3, <3>1 DEF Control
    <3>3. WaitingSlots(c)' = WaitingSlots(c)
      BY <2>1, <2>3, <3>1 DEF WaitingSlots, Filling
    <3>4. Books(c)'
      BY <1>2, <2>1, <3>1, <3>3, BooksKept DEF InHand
    <3>5. Order(c)'
      BY <1>2, <2>1, <3>1, OrderKept
    <3> QED BY <1>1, <3>2, <3>4, <3>5 DEF IInv
  <2> QED BY <2>2, <2>3
<1>11. ASSUME StartBatch(c) PROVE IInv(c)'
  <2>1. at[c] = "reset" /\ at'[c] = "count" /\ ~allocate' /\ pallocated' = 0
        /\ UNCHANGED <<used, current_frames, locals, panicked, times>>
    BY <1>3, <1>11 DEF StartBatch
  <2>2. Control(c)'
    BY <1>2, <2>1 DEF Control
  <2>3. WaitingSlots(c)' = WaitingSlots(c)
    <3>1. slot[c] = BatchSize
      BY <1>2, <2>1 DEF Control
    <3>2. WaitingSlots(c) = Slots
      BY <2>1, <3>1 DEF WaitingSlots, Filling, Slots
    <3>3. WaitingSlots(c)' = Slots
      BY <2>1 DEF WaitingSlots, Filling, Slots
    <3> QED BY <3>2, <3>3
  <2>4. Books(c)'
    BY <1>2, <2>1, <2>3, BooksKept DEF InHand
  <2>5. Order(c)'
    BY <1>2, <2>1, OrderKept
  <2> QED BY <1>1, <2>2, <2>4, <2>5 DEF IInv
<1>12. ASSUME LoadCount(c) PROVE IInv(c)'
  <2>1. at[c] = "count" /\ at'[c] = "bump" /\ count'[c] = pallocated
        /\ UNCHANGED <<used, batch, i, word, slot, panicked, times>>
    BY <1>3, <1>12 DEF LoadCount
  <2>2. Control(c)'
    BY <1>2, <2>1 DEF Control
  <2>3. Books(c)'
    BY <1>2, <2>1, BooksKept DEF WaitingSlots, InHand, Filling
  <2>4. Order(c)'
    BY <1>2, <2>1, OrderKept
  <2> QED BY <1>1, <2>2, <2>3, <2>4 DEF IInv
<1>13. ASSUME StoreCount(c) PROVE IInv(c)'
  <2>1. at[c] = "bump" /\ at'[c] = "give" /\ pallocated' = (count[c] + 1) % 256
        /\ UNCHANGED <<used, allocate, current_frames, locals, panicked, times>>
    BY <1>3, <1>13 DEF StoreCount
  <2>2. ~allocate /\ count[c] = pallocated /\ pallocated < BatchSize
    BY <1>2, <2>1 DEF Control
  <2>3. pallocated' = pallocated + 1
    BY <1>3, <2>1, <2>2
  <2>4. Control(c)'
    BY <1>2, <1>3, <2>1, <2>2, <2>3 DEF Control
  <2>5. WaitingSlots(c)' = WaitingSlots(c)
    <3>1. pallocated' - 1 = pallocated
      BY <1>3, <2>3
    <3> QED BY <2>1, <2>2, <3>1 DEF WaitingSlots, Filling
  <2>6. Books(c)'
    BY <1>2, <2>1, <2>5, BooksKept DEF InHand
  <2>7. Order(c)'
    BY <1>2, <2>1, OrderKept
  <2> QED BY <1>1, <2>4, <2>6, <2>7 DEF IInv
<1>14. ASSUME Give(c) PROVE IInv(c)'
  <2>1. at[c] = "give" /\ at'[c] = "idle" /\ UNCHANGED <<used, batch, locals, panicked>>
    BY <1>3, <1>14 DEF Give
  <2>0. PICK n, W : n = pallocated - 1 /\ W = WaitingSlots(c)
    OBVIOUS
  <2>2. ~allocate /\ n \in Slots
    BY <1>2, <1>3, <2>0, <2>1 DEF Control, Slots
  <2>3. PICK f \in Frames : f = current_frames[n] /\ times' = [times EXCEPT ![f] = @ + 1]
    BY <1>14, <2>0, <2>2 DEF Give
  <2>4. Control(c)'
    BY <1>2, <2>1 DEF Control
  <2>5. W = {k \in Slots : k >= n} /\ WaitingSlots(c)' = {k \in Slots : k >= pallocated}
    BY <2>0, <2>1, <2>2 DEF WaitingSlots, Filling
  <2>6. InHand(c) = {} /\ InHand(c)' = {}
    BY <2>1 DEF InHand
  <2>7. n \in W /\ WaitingSlots(c)' = W \ {n}
    BY <1>3, <2>0, <2>2, <2>5 DEF Slots
  <2>8. BooksOf(W, {})
    BY <1>2, <2>0, <2>6 DEF Books
  <2>9. times[f] = 0 /\ f \in used \ KernelFrames
    BY <2>3, <2>7, <2>8 DEF BooksOf
  <2>10. times'[f] = 1 /\ \A g \in Frames : g # f => times'[g] = times[g]
    BY <1>2, <2>3, <2>9 DEF TypeOK
  <2>11. used \subseteq Frames
    BY <1>2 DEF TypeOK
  <2>12. BooksOf(W \ {n}, {})'
    <3>1. \A k \in W \ {n} : current_frames[k] # f /\ current_frames[k] \in used
      BY <2>3, <2>7, <2>8 DEF BooksOf
    <3>2. \A k \in W \ {n} : times'[current_frames[k]] = 0
      BY <2>8, <2>10, <2>11, <3>1 DEF BooksOf
    <3>3. \A g \in Frames : times'[g] = 0 \/ (times'[g] = 1 /\ g \in used \ KernelFrames)
      BY <2>8, <2>9, <2>10 DEF BooksOf
    <3>4. \A g \in used : \/ g \in KernelFrames \/ times'[g] = 1
                          \/ \E k \in W \ {n} : g = current_frames[k]
      BY <2>3, <2>8, <2>10, <2>11 DEF BooksOf
    <3> QED BY <2>1, <2>8, <3>1, <3>2, <3>3, <3>4 DEF BooksOf
  <2>13. Books(c)'
    BY <2>1, <2>6, <2>7, <2>12 DEF Books
  <2>14. Order(c)'
    BY <1>2, <2>1, OrderKept
  <2> QED BY <1>1, <2>4, <2>13, <2>14 DEF IInv
<1>15. ASSUME UNCHANGED vars PROVE IInv(c)'
  <2>1. Control(c)' /\ Books(c)' /\ Order(c)'
    BY <1>2, <1>15 DEF vars, Control, Books, BooksOf, WaitingSlots, InHand, Order, LowestFirst
  <2> QED BY <1>1, <2>1 DEF IInv
<1>16. CASE Next
  <2>1. Call(c) \/ Step(c)
    BY <1>16 DEF Next
  <2> QED BY <2>1, <1>4, <1>5, <1>6, <1>7, <1>8, <1>9, <1>10, <1>11, <1>12, <1>13,
             <1>14 DEF Step
<1> QED BY <1>15, <1>16

-----------------------------------------------------------------------------
(* One caller: the theorems *)

\* With one caller the invariant always holds.
LEMMA IInvAlways ==
  ASSUME NEW c, Callers = {c} PROVE Spec => []IInv(c)
<1>1. Init => IInv(c)
  BY IInvInit
<1>2. IInv(c) /\ [Next]_vars => IInv(c)'
  BY IInvNext
<1> QED BY <1>1, <1>2, PTL DEF Spec

\* No frame is handed out twice, and none of the kernel's ever (palloc_single and
\* palloc, pmm.c:21 and 55), while one caller at a time is in palloc.
THEOREM FramesUnshared ==
  ASSUME NEW c, Callers = {c} PROVE Spec => []FramesHandedOnce
<1>1. IInv(c) => FramesHandedOnce
  BY DEF IInv, Books, BooksOf, FramesHandedOnce
<1> QED BY <1>1, IInvAlways, PTL

\* Every frame marked in the bitmap is the kernel's, handed out, or waiting to be:
\* the batches of palloc lose none.
THEOREM FramesKept ==
  ASSUME NEW c, Callers = {c} PROVE Spec => []NoFrameLost
<1>1. IInv(c) => NoFrameLost
  <2> SUFFICES ASSUME IInv(c) PROVE used = KernelFrames \cup Given \cup Waiting(c) \cup InHand(c)
    BY DEF NoFrameLost
  <2>1. used \subseteq Frames
    BY DEF IInv, TypeInv, TypeOK
  <2>2. KernelFrames \cup Given \cup Waiting(c) \cup InHand(c) \subseteq used
    BY DEF IInv, Books, BooksOf, Given, Waiting
  <2>3. used \subseteq KernelFrames \cup Given \cup Waiting(c) \cup InHand(c)
    BY <2>1 DEF IInv, Books, BooksOf, Given, Waiting
  <2> QED BY <2>2, <2>3
<1> QED BY <1>1, IInvAlways, PTL

\* The search of palloc_single passes over no free frame with its number in the
\* bitmap, whatever the sizes are: the stray test of pmm.c:28 does no harm there.
THEOREM SearchFindsLowest ==
  ASSUME NEW c, Callers = {c} PROVE Spec => []LowestFirst
<1>1. IInv(c) => LowestFirst
  BY DEF IInv, Order
<1> QED BY <1>1, IInvAlways, PTL
=============================================================================
