--------------------------- MODULE FrameAllocator ---------------------------
(***************************************************************************)
(* The physical frame allocator of Kernel/Memory/pmm.c: a bitmap of used      *)
(* frames, and palloc, which takes them from the bitmap a batch at a time and *)
(* hands them out one by one.                                                *)
(*                                                                         *)
(* palloc keeps its batch in static variables and is not a critical section,  *)
(* so a task in it can be interrupted and another one enter it.  An action is *)
(* one statement; x |= y and x++, which the compiler is told not to optimise  *)
(* (no -O flag in the Makefile), are a load and a store.                     *)
(***************************************************************************)
EXTENDS Integers, FiniteSets

CONSTANTS
  Callers,       \* tasks that call palloc
  FrameCount,    \* NPAGES
  FirstFrame,    \* 0x100: where the search starts, and the kernel's first frame
  KernelPages,   \* kernel_pages
  BatchSize,     \* MAX_PAGES_ALLOCATED
  WordBits       \* BITS_IN_LONG

ASSUME LayoutAssumption ==
  /\ FrameCount \in Nat /\ FirstFrame \in Nat \ {0} /\ KernelPages \in Nat
  /\ FirstFrame + KernelPages < FrameCount
ASSUME BatchAssumption == BatchSize \in 1..255     \* pallocated is a byte
ASSUME WordAssumption == WordBits \in Nat \ {0, 1}

VARIABLES
  used,             \* frame_bitmap: the frames whose bit is set
  allocate, pallocated, current_frames,   \* the static variables of palloc
  at,               \* the statement a caller is at
  i, word,          \* palloc_single: its frame, and the bitmap word it has loaded
  slot,             \* pallocn: its index
  count,            \* palloc: the value of pallocated it has loaded
  panicked,         \* the kernel has stopped for want of frames
  times             \* how often each frame was handed out

batch == <<allocate, pallocated, current_frames>>
locals == <<i, word, slot, count>>
vars == <<used, batch, at, locals, panicked, times>>

Frames == 0..(FrameCount - 1)
Slots == 0..(BatchSize - 1)
KernelFrames == FirstFrame..(FirstFrame + KernelPages)
Given == {f \in Frames : times[f] > 0}

Filling == {"test", "load", "mark", "store", "reset"}
Statements == {"idle", "full", "allocate", "count", "bump", "give"} \cup Filling

\* bitmap_mark_kernel, and the initial values of the static variables.
Init ==
  /\ used = KernelFrames
  /\ allocate = TRUE /\ pallocated = 0 /\ current_frames = [k \in Slots |-> 0]
  /\ at = [c \in Callers |-> "idle"]
  /\ i = [c \in Callers |-> FirstFrame]
  /\ word = [c \in Callers |-> {}]
  /\ slot = [c \in Callers |-> 0]
  /\ count = [c \in Callers |-> 0]
  /\ panicked = FALSE
  /\ times = [f \in Frames |-> 0]

At(c, statement) == ~panicked /\ at[c] = statement
Goto(c, statement) == at' = [at EXCEPT ![c] = statement]

-----------------------------------------------------------------------------
(* palloc_single *)

WordOf(n) == (WordBits * n)..(WordBits * n + WordBits - 1)

\* frame_bitmap has FrameCount / WordBits words.
InBitmap(n) == WordBits * (n + 1) <= FrameCount

\* What frame_bitmap[i] ^ ~0 may find: the word with the frame's own number.  Past
\* the end of the bitmap it is some other variable of the kernel.
MayHaveRoom(n) == InBitmap(n) => ~(WordOf(n) \subseteq used)
MayBeFull(n) == InBitmap(n) => WordOf(n) \subseteq used

\* Mutant: the cursor stands still on a frame that is in use.
SearchStandsStill(c) ==
  /\ At(c, "test")
  /\ IF i[c] = FrameCount
       THEN panicked' = TRUE /\ UNCHANGED <<at, i>>
       ELSE /\ \/ i[c] \notin used /\ MayHaveRoom(i[c]) /\ Goto(c, "load") /\ UNCHANGED i
               \/ i[c] \in used /\ UNCHANGED <<at, i>>
            /\ UNCHANGED panicked
  /\ UNCHANGED <<used, batch, word, slot, count, times>>

\* One round of the loop that looks for a free frame, or the panic after its last.
Search(c) ==
  /\ At(c, "test")
  /\ IF i[c] = FrameCount
       THEN panicked' = TRUE /\ UNCHANGED <<at, i>>
       ELSE /\ \/ /\ i[c] \notin used /\ MayHaveRoom(i[c])
                  /\ Goto(c, "load") /\ UNCHANGED i
               \/ /\ i[c] \in used \/ MayBeFull(i[c])
                  /\ i' = [i EXCEPT ![c] = @ + 1] /\ UNCHANGED at
            /\ UNCHANGED panicked
  /\ UNCHANGED <<used, batch, word, slot, count, times>>

\* MARK_USED
LoadWord(c) ==
  /\ At(c, "load")
  /\ word' = [word EXCEPT ![c] = used \cap WordOf(i[c] \div WordBits)]
  /\ Goto(c, "mark")
  /\ UNCHANGED <<used, batch, i, slot, count, panicked, times>>

\* Mutant: the word is written back without the new bit.
MarkForgotten(c) ==
  /\ At(c, "mark")
  /\ used' = (used \ WordOf(i[c] \div WordBits)) \cup word[c]
  /\ Goto(c, "store")
  /\ UNCHANGED <<batch, locals, panicked, times>>

StoreWord(c) ==
  /\ At(c, "mark")
  /\ used' = (used \ WordOf(i[c] \div WordBits)) \cup word[c] \cup {i[c]}
  /\ Goto(c, "store")
  /\ UNCHANGED <<batch, locals, panicked, times>>

-----------------------------------------------------------------------------
(* pallocn: the frame found goes into the batch, and the next search begins. *)

\* Mutant: a batch of one frame too many.
FillOneTooMany(c) ==
  /\ At(c, "store")
  /\ current_frames' = [current_frames EXCEPT ![slot[c]] = i[c]]
  /\ slot' = [slot EXCEPT ![c] = @ + 1]
  /\ i' = [i EXCEPT ![c] = FirstFrame]
  /\ Goto(c, IF slot[c] = BatchSize THEN "reset" ELSE "test")
  /\ UNCHANGED <<used, allocate, pallocated, word, count, panicked, times>>

\* Mutant: the next search goes on from the frame found, one too far.
SearchFromBeyond(c) ==
  /\ At(c, "store")
  /\ current_frames' = [current_frames EXCEPT ![slot[c]] = i[c]]
  /\ slot' = [slot EXCEPT ![c] = @ + 1]
  /\ i' = [i EXCEPT ![c] = @ + 2]
  /\ Goto(c, IF slot[c] + 1 = BatchSize THEN "reset" ELSE "test")
  /\ UNCHANGED <<used, allocate, pallocated, word, count, panicked, times>>

StoreFrame(c) ==
  /\ At(c, "store")
  /\ current_frames' = [current_frames EXCEPT ![slot[c]] = i[c]]
  /\ slot' = [slot EXCEPT ![c] = @ + 1]
  /\ i' = [i EXCEPT ![c] = FirstFrame]
  /\ Goto(c, IF slot[c] + 1 = BatchSize THEN "reset" ELSE "test")
  /\ UNCHANGED <<used, allocate, pallocated, word, count, panicked, times>>

-----------------------------------------------------------------------------
(* palloc *)

Call(c) ==
  /\ At(c, "idle") /\ Goto(c, "full")
  /\ UNCHANGED <<used, batch, locals, panicked, times>>

\* Mutant: the batch is thought empty one frame early.
BatchEmptyEarly(c) ==
  /\ At(c, "full")
  /\ allocate' = (allocate \/ pallocated = BatchSize - 1)
  /\ Goto(c, "allocate")
  /\ UNCHANGED <<used, pallocated, current_frames, locals, panicked, times>>

TestBatch(c) ==
  /\ At(c, "full")
  /\ allocate' = (allocate \/ pallocated = BatchSize)
  /\ Goto(c, "allocate")
  /\ UNCHANGED <<used, pallocated, current_frames, locals, panicked, times>>

TestAllocate(c) ==
  /\ At(c, "allocate")
  /\ IF allocate
       THEN /\ slot' = [slot EXCEPT ![c] = 0]
            /\ i' = [i EXCEPT ![c] = FirstFrame]
            /\ Goto(c, "test")
       ELSE Goto(c, "count") /\ UNCHANGED <<slot, i>>
  /\ UNCHANGED <<used, batch, word, count, panicked, times>>

StartBatch(c) ==
  /\ At(c, "reset")
  /\ allocate' = FALSE /\ pallocated' = 0
  /\ Goto(c, "count")
  /\ UNCHANGED <<used, current_frames, locals, panicked, times>>

LoadCount(c) ==
  /\ At(c, "count")
  /\ count' = [count EXCEPT ![c] = pallocated]
  /\ Goto(c, "bump")
  /\ UNCHANGED <<used, batch, i, word, slot, panicked, times>>

StoreCount(c) ==
  /\ At(c, "bump")
  /\ pallocated' = (count[c] + 1) % 256
  /\ Goto(c, "give")
  /\ UNCHANGED <<used, allocate, current_frames, locals, panicked, times>>

\* Reading outside the array finds anything.
Give(c) ==
  /\ At(c, "give")
  /\ \E f \in Frames :
       /\ pallocated - 1 \in Slots => f = current_frames[pallocated - 1]
       /\ times' = [times EXCEPT ![f] = @ + 1]
  /\ Goto(c, "idle")
  /\ UNCHANGED <<used, batch, locals, panicked>>

-----------------------------------------------------------------------------

Step(c) ==
  \/ Search(c) \/ LoadWord(c) \/ StoreWord(c) \/ StoreFrame(c)
  \/ TestBatch(c) \/ TestAllocate(c) \/ StartBatch(c)
  \/ LoadCount(c) \/ StoreCount(c) \/ Give(c)

Next == \E c \in Callers : Call(c) \/ Step(c)

\* A task inside palloc is dispatched again and again, as Scheduler shows; whether
\* it calls palloc is its own affair.
Fairness == \A c \in Callers : WF_vars(Step(c))

Spec == Init /\ [][Next]_vars /\ Fairness

-----------------------------------------------------------------------------
(* Properties *)

\* Types, for any number of callers.
TypeOK ==
  /\ used \subseteq Frames
  /\ allocate \in BOOLEAN /\ pallocated \in 0..255
  /\ current_frames \in [Slots -> Frames]
  /\ at \in [Callers -> Statements]
  /\ i \in [Callers -> FirstFrame..FrameCount]
  /\ word \in [Callers -> SUBSET Frames]
  /\ slot \in [Callers -> 0..BatchSize]
  /\ count \in [Callers -> 0..255]
  /\ panicked \in BOOLEAN
  /\ times \in [Frames -> Nat]

\* palloc returns "Previously unused page frame's physical address" (pmm.c:20): no
\* frame is handed out twice and none of the kernel's is.
FramesHandedOnce ==
  \A f \in Frames : times[f] <= (IF f \in KernelFrames THEN 0 ELSE 1)

\* The slots of the batch that wait to be handed out.
WaitingSlots(c) ==
  IF at[c] \in Filling THEN {k \in Slots : k < slot[c]}
  ELSE IF allocate THEN {}
  ELSE IF at[c] = "give" THEN {k \in Slots : k >= pallocated - 1}
  ELSE {k \in Slots : k >= pallocated}

Waiting(c) == {current_frames[k] : k \in WaitingSlots(c)}

\* The frame a search has marked and not yet put into the batch.
InHand(c) == IF at[c] = "store" THEN {i[c]} ELSE {}

\* A frame marked as used is the kernel's, handed out, or will be: none is lost at
\* the end of a batch.
NoFrameLost ==
  \A c \in Callers : used = KernelFrames \cup Given \cup Waiting(c) \cup InHand(c)

\* Although the search tests a word that has nothing to do with the frame, it never
\* passes over a free one that has its number in the bitmap: frames come lowest
\* first, and the kernel panics only when there are none of them left.
LowestFirst ==
  \A f \in FirstFrame..(FrameCount - 1) :
     InBitmap(f) /\ f \notin used => ~panicked /\ \A g \in used : g < f

\* A call of palloc ends, if only in a panic.
CallsEnd == \A c \in Callers : at[c] = "full" ~> (at[c] = "idle" \/ panicked)
=============================================================================
