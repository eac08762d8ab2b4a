----------------------- MODULE SensitiveStringProofs -----------------------
(***************************************************************************)
(* Proofs about SensitiveString, for any strings, blocks and sizes.        *)
(***************************************************************************)
EXTENDS SensitiveString, FiniteSetTheorems, TLAPS

\* What a string holds lies in the bytes it will wipe, unless it was cut.
Covered ==
    "cut" \notin odd =>
        \A s \in Str : str[s].data # None => block[str[s].data].dirty \subseteq Upto(str[s].max)

\* Capacity without memory comes from an empty literal only.
MemoryBehind ==
    "literal" \notin odd => \A s \in Str : str[s].data = None => str[s].max = 0

\* A string that is gone owns nothing.
GoneIsEmpty == \A s \in Str : ~str[s].live => str[s].data = None

IndInv ==
    /\ TypeOK /\ OwnedOnce /\ WithinBlock
    /\ FreedIsClean /\ Covered
    /\ NothingLeaks /\ StaysLocked
    /\ MemoryBehind /\ PushBackIsSafe /\ GoneIsEmpty

USE ConstantsAssumption DEF String, Block, Mishaps, Ends

-----------------------------------------------------------------------------

\* It holds when there are no strings yet.
LEMMA InitInv == Init => IndInv
<1> SUFFICES ASSUME Init PROVE IndInv  OBVIOUS
<1>1. TypeOK  BY DEF Init, TypeOK, Gone
<1>2. OwnedOnce /\ WithinBlock /\ Covered /\ MemoryBehind /\ GoneIsEmpty
  BY DEF Init, Gone, OwnedOnce, WithinBlock, Covered, MemoryBehind, GoneIsEmpty
<1>3. FreedIsClean /\ StaysLocked /\ PushBackIsSafe
  BY DEF Init, FreedIsClean, StaysLocked, PushBackIsSafe
<1>4. NothingLeaks
  <2>1. Leaked = {}  BY DEF Init, Leaked
  <2> QED  BY <2>1, FS_EmptySet DEF Init, NothingLeaks
<1> QED  BY <1>1, <1>2, <1>3, <1>4 DEF IndInv

\* The first n positions are a set of numbers.
LEMMA UptoType == \A n \in Nat : Upto(n) \in SUBSET Nat
BY DEF Upto

\* Taking a block keeps the types of memory.
LEMMA TakeType ==
    ASSUME TypeOK, NEW b \in Buf, NEW n \in Nat, NEW dirty \in SUBSET Nat, Take(b, n, dirty)
    PROVE  block' \in [Buf -> Block] /\ locked' \in SUBSET Buf
<1>1. Holds(n, dirty) \in Block  BY DEF Holds
<1>2. Page(b) \subseteq Buf  BY DEF Page
<1> QED  BY <1>1, <1>2 DEF TypeOK, Take

\* No string owns a block that is free.
LEMMA UnusedIsUnowned ==
    ASSUME TypeOK, OwnedOnce, NEW b \in Buf, NEW n, Unused(b, n), NEW t \in Str
    PROVE  str[t].data # b
BY DEF OwnedOnce, Unused, TypeOK

\* Nothing more is lost in a step where whatever has no owner had none before,
\* and holds no more than it did.
LEMMA LeaksStay ==
    ASSUME TypeOK, NothingLeaks, odd \subseteq odd', failed' = failed,
           "overwrite" \notin odd' =>
               \A c \in Leaked' : c \in Leaked /\ block'[c].dirty \subseteq block[c].dirty
    PROVE  NothingLeaks'
<1> SUFFICES ASSUME "overwrite" \notin odd'
             PROVE  /\ Cardinality(Leaked') <= failed'
                    /\ "cut" \notin odd' => \A c \in Leaked' : block'[c].dirty = {}
  BY DEF NothingLeaks
<1>1. Leaked' \subseteq Leaked /\ IsFiniteSet(Leaked)
  BY FS_Subset DEF Leaked
<1>2. Cardinality(Leaked') <= Cardinality(Leaked)
  BY <1>1, FS_Subset
<1>3. Cardinality(Leaked') \in Nat /\ Cardinality(Leaked) \in Nat
  BY <1>1, FS_Subset, FS_CardinalityType
<1>4. Cardinality(Leaked) <= failed /\ failed \in Nat
  BY DEF NothingLeaks, TypeOK
<1>5. Cardinality(Leaked') <= failed'
  BY <1>2, <1>3, <1>4
<1>6. "cut" \notin odd' => \A c \in Leaked' : block'[c].dirty = {}
  BY DEF NothingLeaks
<1> QED  BY <1>5, <1>6

\* One block more is lost where a call failed, and it is wiped or was never used.
LEMMA OneMoreLeaks ==
    ASSUME TypeOK, NothingLeaks, odd \subseteq odd', failed' = failed + 1, NEW x \in Buf,
           "overwrite" \notin odd' =>
               \A c \in Leaked' :
                  \/ c \in Leaked /\ block'[c].dirty \subseteq block[c].dirty
                  \/ c = x /\ ("cut" \notin odd' => block'[c].dirty = {})
    PROVE  NothingLeaks'
<1> SUFFICES ASSUME "overwrite" \notin odd'
             PROVE  /\ Cardinality(Leaked') <= failed'
                    /\ "cut" \notin odd' => \A c \in Leaked' : block'[c].dirty = {}
  BY DEF NothingLeaks
<1>1. Leaked' \subseteq Leaked \cup {x} /\ IsFiniteSet(Leaked)
  BY FS_Subset DEF Leaked
<1>2. /\ IsFiniteSet(Leaked \cup {x})
      /\ Cardinality(Leaked \cup {x}) = Cardinality(Leaked)
            \/ Cardinality(Leaked \cup {x}) = Cardinality(Leaked) + 1
  BY <1>1, FS_AddElement
<1>3. Cardinality(Leaked') <= Cardinality(Leaked \cup {x}) /\ IsFiniteSet(Leaked')
  BY <1>1, <1>2, FS_Subset
<1>4. /\ Cardinality(Leaked') \in Nat /\ Cardinality(Leaked) \in Nat /\ failed \in Nat
      /\ Cardinality(Leaked) <= failed
  BY <1>1, <1>3, FS_CardinalityType DEF NothingLeaks, TypeOK
<1>5. Cardinality(Leaked') <= failed'
  BY <1>2, <1>3, <1>4
<1>6. "cut" \notin odd' => \A c \in Leaked' : block'[c].dirty = {}
  BY DEF NothingLeaks
<1> QED  BY <1>5, <1>6

\* An empty string owns nothing.
LEMMA NewEmptyInv ==
    ASSUME IndInv, NEW s \in Str,
           NewEmpty(s)
    PROVE  IndInv'
<1> USE DEF IndInv
<1>1. TypeOK'
  BY DEF TypeOK, NewEmpty, Moved, Of
<1>2. OwnedOnce'
  BY DEF TypeOK, OwnedOnce, NewEmpty, Moved, Of
<1>3. WithinBlock'
  BY DEF TypeOK, OwnedOnce, WithinBlock, NewEmpty, Moved, Of
<1>4. FreedIsClean'
  BY DEF TypeOK, OwnedOnce, FreedIsClean, Covered, NewEmpty, Moved, Of
<1>5. Covered'
  BY DEF TypeOK, OwnedOnce, WithinBlock, Covered, NewEmpty, Moved, Of
<1>6. NothingLeaks'
  <2>1. odd \subseteq odd' /\ failed' = failed
    BY DEF NewEmpty
  <2>2. ASSUME "overwrite" \notin odd', NEW c \in Leaked'
        PROVE  c \in Leaked /\ block'[c].dirty \subseteq block[c].dirty
    BY <2>2 DEF TypeOK, OwnedOnce, GoneIsEmpty, Leaked, Owners, NewEmpty, Moved, Of
  <2> QED  BY <2>1, <2>2, LeaksStay
<1>7. StaysLocked'
  BY DEF TypeOK, OwnedOnce, StaysLocked, Page, NewEmpty, Moved, Of
<1>8. MemoryBehind'
  BY DEF TypeOK, WithinBlock, MemoryBehind, NewEmpty, Moved, Of
<1>9. PushBackIsSafe'
  BY DEF TypeOK, MemoryBehind, PushBackIsSafe, NewEmpty, Moved, Of
<1>10. GoneIsEmpty'
  BY DEF TypeOK, GoneIsEmpty, NewEmpty, Moved, Of
<1> QED  BY <1>1, <1>2, <1>3, <1>4, <1>5, <1>6, <1>7, <1>8, <1>9, <1>10

\* One made from an empty literal has capacity only.
LEMMA NewFromNothingInv ==
    ASSUME IndInv, NEW s \in Str,
           NewFromNothing(s)
    PROVE  IndInv'
<1> USE DEF IndInv
<1>1. TypeOK'
  BY DEF TypeOK, NewFromNothing, Of
<1>2. OwnedOnce'
  BY DEF TypeOK, OwnedOnce, NewFromNothing, Of
<1>3. WithinBlock'
  BY DEF TypeOK, OwnedOnce, WithinBlock, NewFromNothing, Of
<1>4. FreedIsClean'
  BY DEF TypeOK, OwnedOnce, FreedIsClean, Covered, NewFromNothing, Of
<1>5. Covered'
  BY DEF TypeOK, OwnedOnce, WithinBlock, Covered, NewFromNothing, Of
<1>6. NothingLeaks'
  <2>1. odd \subseteq odd' /\ failed' = failed
    BY DEF NewFromNothing
  <2>2. ASSUME "overwrite" \notin odd', NEW c \in Leaked'
        PROVE  c \in Leaked /\ block'[c].dirty \subseteq block[c].dirty
    BY <2>2 DEF TypeOK, OwnedOnce, GoneIsEmpty, Leaked, Owners, NewFromNothing, Of
  <2> QED  BY <2>1, <2>2, LeaksStay
<1>7. StaysLocked'
  BY DEF TypeOK, OwnedOnce, StaysLocked, Page, NewFromNothing, Of
<1>8. MemoryBehind'
  BY DEF TypeOK, WithinBlock, MemoryBehind, NewFromNothing, Of
<1>9. PushBackIsSafe'
  BY DEF TypeOK, MemoryBehind, PushBackIsSafe, NewFromNothing, Of
<1>10. GoneIsEmpty'
  BY DEF TypeOK, GoneIsEmpty, NewFromNothing, Of
<1> QED  BY <1>1, <1>2, <1>3, <1>4, <1>5, <1>6, <1>7, <1>8, <1>9, <1>10

\* A new string owns a block nobody owned.
LEMMA NewInv ==
    ASSUME IndInv, NEW s \in Str, NEW b \in Buf, NEW n \in 1..MaxSize,
           NEW length \in 0..MaxSize,
           New(s, b, n, length)
    PROVE  IndInv'
<1> USE DEF IndInv
<1>1. TypeOK'
  <2>1. Upto(length) \in SUBSET Nat /\ n \in Nat /\ length \in Nat  BY UptoType
  <2>2. block' \in [Buf -> Block] /\ locked' \in SUBSET Buf  BY <2>1, TakeType DEF New
  <2> QED  BY <2>1, <2>2 DEF TypeOK, New, Of
<1>2. OwnedOnce'
  BY DEF TypeOK, OwnedOnce, New, Take, Unused, Holds, Of, Upto, Greatest
<1>3. WithinBlock'
  BY DEF TypeOK, OwnedOnce, WithinBlock, New, Take, Unused, Holds, Of, Upto, Greatest
<1>4. FreedIsClean'
  BY DEF TypeOK, OwnedOnce, FreedIsClean, Covered, New, Take, Unused, Holds, Of, Upto, Greatest
<1>5. Covered'
  BY DEF TypeOK, OwnedOnce, WithinBlock, Covered, New, Take, Unused, Holds, Of, Upto, Greatest
<1>6. NothingLeaks'
  <2>1. odd \subseteq odd' /\ failed' = failed
    BY DEF New
  <2>2. ASSUME "overwrite" \notin odd', NEW c \in Leaked'
        PROVE  c \in Leaked /\ block'[c].dirty \subseteq block[c].dirty
    BY <2>2 DEF TypeOK, OwnedOnce, GoneIsEmpty, Leaked, Owners, New, Take, Unused,
       Holds, Of, Upto, Greatest
  <2> QED  BY <2>1, <2>2, LeaksStay
<1>7. StaysLocked'
  BY DEF TypeOK, OwnedOnce, StaysLocked, Page, New, Take, Unused, Holds, Of, Upto, Greatest
<1>8. MemoryBehind'
  BY DEF TypeOK, WithinBlock, MemoryBehind, New, Take, Unused, Holds, Of, Upto, Greatest
<1>9. PushBackIsSafe'
  BY DEF TypeOK, MemoryBehind, PushBackIsSafe, New, Take, Unused, Holds, Of, Upto, Greatest
<1>10. GoneIsEmpty'
  BY DEF TypeOK, GoneIsEmpty, New, Take, Unused, Holds, Of, Upto, Greatest
<1> QED  BY <1>1, <1>2, <1>3, <1>4, <1>5, <1>6, <1>7, <1>8, <1>9, <1>10

\* So does a copy.
LEMMA CopyNewInv ==
    ASSUME IndInv, NEW s \in Str, NEW t \in Str, NEW b \in Buf,
           CopyNew(s, t, b)
    PROVE  IndInv'
<1> USE DEF IndInv
<1>1. TypeOK'
  <2>1. str[t].index \in Nat /\ str[t].max \in Nat  BY DEF TypeOK
  <2>2. Upto(str[t].index) \in SUBSET Nat  BY <2>1, UptoType
  <2>3. block' \in [Buf -> Block] /\ locked' \in SUBSET Buf  BY <2>1, <2>2, TakeType DEF CopyNew
  <2> QED  BY <2>1, <2>3 DEF TypeOK, CopyNew, Of
<1>2. OwnedOnce'
  BY DEF TypeOK, OwnedOnce, CopyNew, Take, Unused, Holds, Of, Upto
<1>3. WithinBlock'
  BY DEF TypeOK, OwnedOnce, WithinBlock, CopyNew, Take, Unused, Holds, Of, Upto
<1>4. FreedIsClean'
  BY DEF TypeOK, OwnedOnce, FreedIsClean, Covered, CopyNew, Take, Unused, Holds, Of, Upto
<1>5. Covered'
  BY DEF TypeOK, OwnedOnce, WithinBlock, Covered, CopyNew, Take, Unused, Holds, Of, Upto
<1>6. NothingLeaks'
  <2>1. odd \subseteq odd' /\ failed' = failed
    BY DEF CopyNew
  <2>2. ASSUME "overwrite" \notin odd', NEW c \in Leaked'
        PROVE  c \in Leaked /\ block'[c].dirty \subseteq block[c].dirty
    BY <2>2 DEF TypeOK, OwnedOnce, GoneIsEmpty, Leaked, Owners, CopyNew, Take, Unused,
       Holds, Of, Upto
  <2> QED  BY <2>1, <2>2, LeaksStay
<1>7. StaysLocked'
  BY DEF TypeOK, OwnedOnce, StaysLocked, Page, CopyNew, Take, Unused, Holds, Of, Upto
<1>8. MemoryBehind'
  BY DEF TypeOK, WithinBlock, MemoryBehind, CopyNew, Take, Unused, Holds, Of, Upto
<1>9. PushBackIsSafe'
  BY DEF TypeOK, MemoryBehind, PushBackIsSafe, CopyNew, Take, Unused, Holds, Of, Upto
<1>10. GoneIsEmpty'
  BY DEF TypeOK, GoneIsEmpty, CopyNew, Take, Unused, Holds, Of, Upto
<1> QED  BY <1>1, <1>2, <1>3, <1>4, <1>5, <1>6, <1>7, <1>8, <1>9, <1>10

\* A copy of a string without capacity owns nothing.
LEMMA CopyNewEmptyInv ==
    ASSUME IndInv, NEW s \in Str, NEW t \in Str,
           CopyNewEmpty(s, t)
    PROVE  IndInv'
<1> USE DEF IndInv
<1>1. TypeOK'
  BY DEF TypeOK, CopyNewEmpty, Of
<1>2. OwnedOnce'
  BY DEF TypeOK, OwnedOnce, CopyNewEmpty, Of
<1>3. WithinBlock'
  BY DEF TypeOK, OwnedOnce, WithinBlock, CopyNewEmpty, Of
<1>4. FreedIsClean'
  BY DEF TypeOK, OwnedOnce, FreedIsClean, Covered, CopyNewEmpty, Of
<1>5. Covered'
  BY DEF TypeOK, OwnedOnce, WithinBlock, Covered, CopyNewEmpty, Of
<1>6. NothingLeaks'
  <2>1. odd \subseteq odd' /\ failed' = failed
    BY DEF CopyNewEmpty
  <2>2. ASSUME "overwrite" \notin odd', NEW c \in Leaked'
        PROVE  c \in Leaked /\ block'[c].dirty \subseteq block[c].dirty
    BY <2>2 DEF TypeOK, OwnedOnce, GoneIsEmpty, Leaked, Owners, CopyNewEmpty, Of
  <2> QED  BY <2>1, <2>2, LeaksStay
<1>7. StaysLocked'
  BY DEF TypeOK, OwnedOnce, StaysLocked, Page, CopyNewEmpty, Of
<1>8. MemoryBehind'
  BY DEF TypeOK, WithinBlock, MemoryBehind, CopyNewEmpty, Of
<1>9. PushBackIsSafe'
  BY DEF TypeOK, MemoryBehind, PushBackIsSafe, CopyNewEmpty, Of
<1>10. GoneIsEmpty'
  BY DEF TypeOK, GoneIsEmpty, CopyNewEmpty, Of
<1> QED  BY <1>1, <1>2, <1>3, <1>4, <1>5, <1>6, <1>7, <1>8, <1>9, <1>10

\* A constructor that throws leaves a block without owner.
LEMMA NewFailsInv ==
    ASSUME IndInv, NEW s \in Str, NEW b \in Buf, NEW n \in 1..MaxSize,
           NewFails(s, b, n)
    PROVE  IndInv'
<1> USE DEF IndInv
<1>1. TypeOK'
  BY DEF TypeOK, NewFails, TakeFails, Unused, Holds
<1>2. OwnedOnce'
  BY DEF TypeOK, OwnedOnce, NewFails, TakeFails, Unused, Holds
<1>3. WithinBlock'
  BY DEF TypeOK, OwnedOnce, WithinBlock, NewFails, TakeFails, Unused, Holds
<1>4. FreedIsClean'
  BY DEF TypeOK, OwnedOnce, FreedIsClean, Covered, NewFails, TakeFails, Unused, Holds
<1>5. Covered'
  BY DEF TypeOK, OwnedOnce, WithinBlock, Covered, NewFails, TakeFails, Unused, Holds
<1>6. NothingLeaks'
  <2>1. odd \subseteq odd' /\ failed' = failed + 1
    BY DEF TypeOK, NewFails, TakeFails
  <2>2. ASSUME NEW c \in Leaked'
        PROVE  \/ c \in Leaked /\ block'[c].dirty \subseteq block[c].dirty
               \/ c = b /\ block'[c].dirty = {}
    BY <2>2 DEF TypeOK, OwnedOnce, GoneIsEmpty, Leaked, Owners, NewFails, TakeFails,
       Unused, Holds
  <2> QED  BY <2>1, <2>2, OneMoreLeaks
<1>7. StaysLocked'
  BY DEF TypeOK, OwnedOnce, StaysLocked, Page, NewFails, TakeFails, Unused, Holds
<1>8. MemoryBehind'
  BY DEF TypeOK, WithinBlock, MemoryBehind, NewFails, TakeFails, Unused, Holds
<1>9. PushBackIsSafe'
  BY DEF TypeOK, MemoryBehind, PushBackIsSafe, NewFails, TakeFails, Unused, Holds
<1>10. GoneIsEmpty'
  BY DEF TypeOK, GoneIsEmpty, NewFails, TakeFails, Unused, Holds
<1> QED  BY <1>1, <1>2, <1>3, <1>4, <1>5, <1>6, <1>7, <1>8, <1>9, <1>10

\* A block changes its owner.
LEMMA MoveNewInv ==
    ASSUME IndInv, NEW s \in Str, NEW t \in Str,
           MoveNew(s, t)
    PROVE  IndInv'
<1> USE DEF IndInv
<1>1. TypeOK'
  BY DEF TypeOK, MoveNew, Moved, Of
<1>2. OwnedOnce'
  BY DEF TypeOK, OwnedOnce, MoveNew, Moved, Of
<1>3. WithinBlock'
  BY DEF TypeOK, OwnedOnce, WithinBlock, MoveNew, Moved, Of
<1>4. FreedIsClean'
  BY DEF TypeOK, OwnedOnce, FreedIsClean, Covered, MoveNew, Moved, Of
<1>5. Covered'
  BY DEF TypeOK, OwnedOnce, WithinBlock, Covered, MoveNew, Moved, Of
<1>6. NothingLeaks'
  <2>1. odd \subseteq odd' /\ failed' = failed
    BY DEF MoveNew
  <2>2. ASSUME "overwrite" \notin odd', NEW c \in Leaked'
        PROVE  c \in Leaked /\ block'[c].dirty \subseteq block[c].dirty
    BY <2>2 DEF TypeOK, OwnedOnce, GoneIsEmpty, Leaked, Owners, MoveNew, Moved, Of
  <2> QED  BY <2>1, <2>2, LeaksStay
<1>7. StaysLocked'
  BY DEF TypeOK, OwnedOnce, StaysLocked, Page, MoveNew, Moved, Of
<1>8. MemoryBehind'
  BY DEF TypeOK, WithinBlock, MemoryBehind, MoveNew, Moved, Of
<1>9. PushBackIsSafe'
  BY DEF TypeOK, MemoryBehind, PushBackIsSafe, MoveNew, Moved, Of
<1>10. GoneIsEmpty'
  BY DEF TypeOK, GoneIsEmpty, MoveNew, Moved, Of
<1> QED  BY <1>1, <1>2, <1>3, <1>4, <1>5, <1>6, <1>7, <1>8, <1>9, <1>10

\* The block is wiped and freed.
LEMMA DestroyInv ==
    ASSUME IndInv, NEW s \in Str,
           Destroy(s)
    PROVE  IndInv'
<1> USE DEF IndInv
<1>1. TypeOK'
  BY UptoType DEF TypeOK, Destroy, Gone, Freed, Holds, Neighbours
<1>2. OwnedOnce'
  BY DEF TypeOK, OwnedOnce, Destroy, Gone, Freed, Holds, Upto, Neighbours
<1>3. WithinBlock'
  BY DEF TypeOK, OwnedOnce, WithinBlock, Destroy, Gone, Freed, Holds, Upto, Neighbours
<1>4. FreedIsClean'
  BY DEF TypeOK, OwnedOnce, FreedIsClean, Covered, Destroy, Gone, Freed, Holds, Upto, Neighbours
<1>5. Covered'
  BY DEF TypeOK, OwnedOnce, WithinBlock, Covered, Destroy, Gone, Freed, Holds, Upto, Neighbours
<1>6. NothingLeaks'
  <2>1. odd \subseteq odd' /\ failed' = failed
    BY DEF Destroy
  <2>2. ASSUME "overwrite" \notin odd', NEW c \in Leaked'
        PROVE  c \in Leaked /\ block'[c].dirty \subseteq block[c].dirty
    BY <2>2 DEF TypeOK, OwnedOnce, GoneIsEmpty, Leaked, Owners, Destroy, Gone, Freed,
       Holds, Upto, Neighbours
  <2> QED  BY <2>1, <2>2, LeaksStay
<1>7. StaysLocked'
  BY DEF TypeOK, OwnedOnce, StaysLocked, Page, Destroy, Gone, Freed, Holds, Upto, Neighbours
<1>8. MemoryBehind'
  BY DEF TypeOK, WithinBlock, MemoryBehind, Destroy, Gone, Freed, Holds, Upto, Neighbours
<1>9. PushBackIsSafe'
  BY DEF TypeOK, MemoryBehind, PushBackIsSafe, Destroy, Gone, Freed, Holds, Upto, Neighbours
<1>10. GoneIsEmpty'
  BY DEF TypeOK, GoneIsEmpty, Destroy, Gone, Freed, Holds, Upto, Neighbours
<1> QED  BY <1>1, <1>2, <1>3, <1>4, <1>5, <1>6, <1>7, <1>8, <1>9, <1>10

\* The block is wiped, and its string keeps it.
LEMMA DestroyFailsInv ==
    ASSUME IndInv, NEW s \in Str,
           DestroyFails(s)
    PROVE  IndInv'
<1> USE DEF IndInv
<1>1. TypeOK'
  <2>1. str[s].data \in Buf /\ block[str[s].data] \in Block  BY DEF TypeOK, DestroyFails
  <2>2. Wiped(s) \in Block  BY <2>1 DEF Wiped, Holds
  <2> QED  BY <2>1, <2>2 DEF TypeOK, DestroyFails
<1>2. OwnedOnce'
  BY DEF TypeOK, OwnedOnce, DestroyFails, Wiped, Holds
<1>3. WithinBlock'
  BY DEF TypeOK, OwnedOnce, WithinBlock, DestroyFails, Wiped, Holds
<1>4. FreedIsClean'
  BY DEF TypeOK, OwnedOnce, FreedIsClean, DestroyFails, Wiped, Holds
<1>5. Covered'
  BY DEF TypeOK, OwnedOnce, Covered, DestroyFails, Wiped, Holds
<1>6. NothingLeaks'
  <2>1. odd' = odd /\ failed' = failed + 1 /\ str' = str /\ str[s].data \in Buf
    BY DEF TypeOK, DestroyFails
  <2>2. ASSUME NEW c \in Leaked'
        PROVE  c \in Leaked /\ block'[c].dirty \subseteq block[c].dirty
    BY <2>1, <2>2 DEF TypeOK, Leaked, Owners, DestroyFails, Wiped, Holds
  <2> QED  BY <2>1, <2>2, OneMoreLeaks
<1>7. StaysLocked'
  BY DEF TypeOK, OwnedOnce, StaysLocked, DestroyFails, Wiped, Holds
<1>8. MemoryBehind'
  BY DEF MemoryBehind, DestroyFails
<1>9. PushBackIsSafe'
  BY DEF PushBackIsSafe, DestroyFails
<1>10. GoneIsEmpty'
  BY DEF GoneIsEmpty, DestroyFails
<1> QED  BY <1>1, <1>2, <1>3, <1>4, <1>5, <1>6, <1>7, <1>8, <1>9, <1>10

\* Nothing is freed.
LEMMA DestroyEmptyInv ==
    ASSUME IndInv, NEW s \in Str,
           DestroyEmpty(s)
    PROVE  IndInv'
<1> USE DEF IndInv
<1>1. TypeOK'
  BY DEF TypeOK, DestroyEmpty, Gone
<1>2. OwnedOnce'
  BY DEF TypeOK, OwnedOnce, DestroyEmpty, Gone
<1>3. WithinBlock'
  BY DEF TypeOK, OwnedOnce, WithinBlock, DestroyEmpty, Gone
<1>4. FreedIsClean'
  BY DEF TypeOK, OwnedOnce, FreedIsClean, Covered, DestroyEmpty, Gone
<1>5. Covered'
  BY DEF TypeOK, OwnedOnce, WithinBlock, Covered, DestroyEmpty, Gone
<1>6. NothingLeaks'
  <2>1. odd \subseteq odd' /\ failed' = failed
    BY DEF DestroyEmpty
  <2>2. ASSUME "overwrite" \notin odd', NEW c \in Leaked'
        PROVE  c \in Leaked /\ block'[c].dirty \subseteq block[c].dirty
    BY <2>2 DEF TypeOK, OwnedOnce, GoneIsEmpty, Leaked, Owners, DestroyEmpty, Gone
  <2> QED  BY <2>1, <2>2, LeaksStay
<1>7. StaysLocked'
  BY DEF TypeOK, OwnedOnce, StaysLocked, Page, DestroyEmpty, Gone
<1>8. MemoryBehind'
  BY DEF TypeOK, WithinBlock, MemoryBehind, DestroyEmpty, Gone
<1>9. PushBackIsSafe'
  BY DEF TypeOK, MemoryBehind, PushBackIsSafe, DestroyEmpty, Gone
<1>10. GoneIsEmpty'
  BY DEF TypeOK, GoneIsEmpty, DestroyEmpty, Gone
<1> QED  BY <1>1, <1>2, <1>3, <1>4, <1>5, <1>6, <1>7, <1>8, <1>9, <1>10

\* The block of the string assigned to loses its owner.
LEMMA CopyAssignInv ==
    ASSUME IndInv, NEW s \in Str, NEW t \in Str, NEW b \in Buf,
           CopyAssign(s, t, b)
    PROVE  IndInv'
<1> USE DEF IndInv
<1>1. TypeOK'
  <2>1. str[t].index \in Nat /\ str[t].max \in Nat  BY DEF TypeOK
  <2>2. (IF s = t THEN {} ELSE Upto(str[t].index)) \in SUBSET Nat  BY <2>1, UptoType
  <2>3. block' \in [Buf -> Block] /\ locked' \in SUBSET Buf  BY <2>1, <2>2, TakeType DEF CopyAssign
  <2> QED  BY <2>1, <2>3 DEF TypeOK, CopyAssign, Of, Forgets
<1>2. OwnedOnce'
  BY DEF TypeOK, OwnedOnce, CopyAssign, Forgets, Take, Unused, Holds, Of, Upto
<1>3. WithinBlock'
  BY DEF TypeOK, OwnedOnce, WithinBlock, CopyAssign, Forgets, Take, Unused, Holds, Of, Upto
<1>4. FreedIsClean'
  BY DEF TypeOK, OwnedOnce, FreedIsClean, Covered, CopyAssign, Forgets, Take, Unused, Holds,
     Of, Upto
<1>5. Covered'
  BY DEF TypeOK, OwnedOnce, WithinBlock, Covered, CopyAssign, Forgets, Take, Unused, Holds,
     Of, Upto
<1>6. NothingLeaks'
  <2>1. odd \subseteq odd' /\ failed' = failed
    BY DEF CopyAssign
  <2>2. ASSUME "overwrite" \notin odd', NEW c \in Leaked'
        PROVE  c \in Leaked /\ block'[c].dirty \subseteq block[c].dirty
    <3>1. str[s].data = None  BY <2>2 DEF CopyAssign, Forgets
    <3>2. str'[s].data = b  BY DEF CopyAssign, Of, TypeOK
    <3>3. c # b  BY <2>2, <3>2 DEF Leaked, Owners
    <3>4. block'[c] = block[c]  BY <2>2, <3>3 DEF CopyAssign, Take, TypeOK, Leaked
    <3>5. ASSUME NEW o \in Str, str[o].data = c PROVE FALSE
      BY <2>2, <3>1, <3>5 DEF CopyAssign, TypeOK, Leaked, Owners
    <3> QED  BY <2>2, <3>4, <3>5 DEF Leaked, Owners
  <2> QED  BY <2>1, <2>2, LeaksStay
<1>7. StaysLocked'
  BY DEF TypeOK, OwnedOnce, StaysLocked, Page, CopyAssign, Forgets, Take, Unused, Holds, Of,
     Upto
<1>8. MemoryBehind'
  BY DEF TypeOK, WithinBlock, MemoryBehind, CopyAssign, Forgets, Take, Unused, Holds, Of, Upto
<1>9. PushBackIsSafe'
  BY DEF TypeOK, MemoryBehind, PushBackIsSafe, CopyAssign, Forgets, Take, Unused, Holds, Of,
     Upto
<1>10. GoneIsEmpty'
  BY DEF TypeOK, GoneIsEmpty, CopyAssign, Forgets, Take, Unused, Holds, Of, Upto
<1> QED  BY <1>1, <1>2, <1>3, <1>4, <1>5, <1>6, <1>7, <1>8, <1>9, <1>10

\* So it does when lock_mem throws.
LEMMA CopyAssignFailsInv ==
    ASSUME IndInv, NEW s \in Str, NEW t \in Str, NEW b \in Buf,
           CopyAssignFails(s, t, b)
    PROVE  IndInv'
<1> USE DEF IndInv
<1>1. TypeOK'
  BY DEF TypeOK, CopyAssignFails, Forgets, Of, TakeFails, Unused, Holds
<1>2. OwnedOnce'
  BY DEF TypeOK, OwnedOnce, CopyAssignFails, Forgets, Of, TakeFails, Unused, Holds
<1>3. WithinBlock'
  BY DEF TypeOK, OwnedOnce, WithinBlock, CopyAssignFails, Forgets, Of, TakeFails, Unused, Holds
<1>4. FreedIsClean'
  BY DEF TypeOK, OwnedOnce, FreedIsClean, Covered, CopyAssignFails, Forgets, Of, TakeFails,
     Unused, Holds
<1>5. Covered'
  BY DEF TypeOK, OwnedOnce, WithinBlock, Covered, CopyAssignFails, Forgets, Of, TakeFails,
     Unused, Holds
<1>6. NothingLeaks'
  <2>1. odd \subseteq odd' /\ failed' = failed + 1
    BY DEF CopyAssignFails, TakeFails
  <2>2. ASSUME "overwrite" \notin odd', NEW c \in Leaked'
        PROVE  c \in Leaked /\ block'[c].dirty \subseteq block[c].dirty
    <3>1. str[s].data = None  BY <2>2 DEF CopyAssignFails, Forgets
    <3>2. str'[s].data = b  BY DEF CopyAssignFails, Of, TypeOK
    <3>3. c # b  BY <2>2, <3>2 DEF Leaked, Owners
    <3>4. block'[c] = block[c]
      BY <2>2, <3>3 DEF CopyAssignFails, TakeFails, TypeOK, Leaked
    <3>5. ASSUME NEW o \in Str, str[o].data = c PROVE FALSE
      BY <2>2, <3>1, <3>5 DEF CopyAssignFails, TypeOK, Leaked, Owners
    <3> QED  BY <2>2, <3>4, <3>5 DEF Leaked, Owners
  <2> QED  BY <2>1, <2>2, OneMoreLeaks
<1>7. StaysLocked'
  BY DEF TypeOK, OwnedOnce, StaysLocked, Page, CopyAssignFails, Forgets, Of, TakeFails,
     Unused, Holds
<1>8. MemoryBehind'
  BY DEF TypeOK, WithinBlock, MemoryBehind, CopyAssignFails, Forgets, Of, TakeFails, Unused,
     Holds
<1>9. PushBackIsSafe'
  BY DEF TypeOK, MemoryBehind, PushBackIsSafe, CopyAssignFails, Forgets, Of, TakeFails,
     Unused, Holds
<1>10. GoneIsEmpty'
  BY DEF TypeOK, GoneIsEmpty, CopyAssignFails, Forgets, Of, TakeFails, Unused, Holds
<1> QED  BY <1>1, <1>2, <1>3, <1>4, <1>5, <1>6, <1>7, <1>8, <1>9, <1>10

\* The block stays, what is to be wiped is lost.
LEMMA CopyAssignEmptyInv ==
    ASSUME IndInv, NEW s \in Str, NEW t \in Str,
           CopyAssignEmpty(s, t)
    PROVE  IndInv'
<1> USE DEF IndInv
<1>1. TypeOK'
  BY DEF TypeOK, CopyAssignEmpty, Of
<1>2. OwnedOnce'
  BY DEF TypeOK, OwnedOnce, CopyAssignEmpty, Of
<1>3. WithinBlock'
  BY DEF TypeOK, OwnedOnce, WithinBlock, CopyAssignEmpty, Of
<1>4. FreedIsClean'
  BY DEF TypeOK, OwnedOnce, FreedIsClean, Covered, CopyAssignEmpty, Of
<1>5. Covered'
  BY DEF TypeOK, OwnedOnce, WithinBlock, Covered, CopyAssignEmpty, Of
<1>6. NothingLeaks'
  <2>1. odd \subseteq odd' /\ failed' = failed
    BY DEF CopyAssignEmpty
  <2>2. ASSUME "overwrite" \notin odd', NEW c \in Leaked'
        PROVE  c \in Leaked /\ block'[c].dirty \subseteq block[c].dirty
    BY <2>2 DEF TypeOK, OwnedOnce, GoneIsEmpty, Leaked, Owners, CopyAssignEmpty, Of
  <2> QED  BY <2>1, <2>2, LeaksStay
<1>7. StaysLocked'
  BY DEF TypeOK, OwnedOnce, StaysLocked, Page, CopyAssignEmpty, Of
<1>8. MemoryBehind'
  BY DEF TypeOK, WithinBlock, MemoryBehind, CopyAssignEmpty, Of
<1>9. PushBackIsSafe'
  BY DEF TypeOK, MemoryBehind, PushBackIsSafe, CopyAssignEmpty, Of
<1>10. GoneIsEmpty'
  BY DEF TypeOK, GoneIsEmpty, CopyAssignEmpty, Of
<1> QED  BY <1>1, <1>2, <1>3, <1>4, <1>5, <1>6, <1>7, <1>8, <1>9, <1>10

\* A block changes its owner and another loses its own.
LEMMA MoveAssignInv ==
    ASSUME IndInv, NEW s \in Str, NEW t \in Str,
           MoveAssign(s, t)
    PROVE  IndInv'
<1> USE DEF IndInv
<1>1. TypeOK'
  BY DEF TypeOK, MoveAssign, Moved, Of, Forgets
<1>2. OwnedOnce'
  BY DEF TypeOK, OwnedOnce, MoveAssign, Moved, Of, Forgets
<1>3. WithinBlock'
  BY DEF TypeOK, OwnedOnce, WithinBlock, MoveAssign, Moved, Of, Forgets
<1>4. FreedIsClean'
  BY DEF TypeOK, OwnedOnce, FreedIsClean, Covered, MoveAssign, Moved, Of, Forgets
<1>5. Covered'
  BY DEF TypeOK, OwnedOnce, WithinBlock, Covered, MoveAssign, Moved, Of, Forgets
<1>6. NothingLeaks'
  <2>1. odd \subseteq odd' /\ failed' = failed
    BY DEF MoveAssign
  <2>2. ASSUME "overwrite" \notin odd', NEW c \in Leaked'
        PROVE  c \in Leaked /\ block'[c].dirty \subseteq block[c].dirty
    BY <2>2 DEF TypeOK, OwnedOnce, GoneIsEmpty, Leaked, Owners, MoveAssign, Moved, Of,
       Forgets
  <2> QED  BY <2>1, <2>2, LeaksStay
<1>7. StaysLocked'
  BY DEF TypeOK, OwnedOnce, StaysLocked, Page, MoveAssign, Moved, Of, Forgets
<1>8. MemoryBehind'
  BY DEF TypeOK, WithinBlock, MemoryBehind, MoveAssign, Moved, Of, Forgets
<1>9. PushBackIsSafe'
  BY DEF TypeOK, MemoryBehind, PushBackIsSafe, MoveAssign, Moved, Of, Forgets
<1>10. GoneIsEmpty'
  BY DEF TypeOK, GoneIsEmpty, MoveAssign, Moved, Of, Forgets
<1> QED  BY <1>1, <1>2, <1>3, <1>4, <1>5, <1>6, <1>7, <1>8, <1>9, <1>10

\* A string without memory gets a block.
LEMMA AcquireInv ==
    ASSUME IndInv, NEW s \in Str, NEW b \in Buf,
           NEW n \in Nat \ {0}, NEW index \in 0..n, NEW written \in SUBSET Upto(n),
           Acquire(s, b, n, index, written)
    PROVE  IndInv'
<1> USE DEF IndInv
<1>1. TypeOK'
  <2>1. written \in SUBSET Nat /\ index \in Nat /\ n \in Nat  BY UptoType
  <2>2. block' \in [Buf -> Block] /\ locked' \in SUBSET Buf  BY <2>1, TakeType DEF Acquire
  <2> QED  BY <2>1, <2>2 DEF TypeOK, Acquire, Of
<1>2. OwnedOnce'
  BY DEF TypeOK, OwnedOnce, Acquire, Take, Unused, Holds, Of, Upto
<1>3. WithinBlock'
  BY DEF TypeOK, OwnedOnce, WithinBlock, Acquire, Take, Unused, Holds, Of, Upto
<1>4. FreedIsClean'
  BY DEF TypeOK, OwnedOnce, FreedIsClean, Covered, Acquire, Take, Unused, Holds, Of, Upto
<1>5. Covered'
  <2> SUFFICES ASSUME "cut" \notin odd', NEW t \in Str, str'[t].data # None
               PROVE  block'[str'[t].data].dirty \subseteq Upto(str'[t].max)
    BY DEF Covered
  <2>1. CASE t = s
    <3>1. str'[t].data = b /\ str'[t].max = n  BY <2>1 DEF Acquire, Of, TypeOK
    <3>2. block'[b].dirty = written  BY DEF Acquire, Take, Holds, TypeOK
    <3> QED  BY <3>1, <3>2
  <2>2. CASE t # s
    <3>1. str'[t] = str[t]  BY <2>2 DEF Acquire, TypeOK
    <3>2. str[t].data # b  BY UnusedIsUnowned DEF Acquire, Take
    <3>3. block'[str[t].data] = block[str[t].data]  BY <3>2 DEF Acquire, Take, TypeOK
    <3> QED  BY <3>1, <3>3 DEF Covered, Acquire
  <2> QED  BY <2>1, <2>2
<1>6. NothingLeaks'
  <2>1. odd \subseteq odd' /\ failed' = failed
    BY DEF Acquire
  <2>2. ASSUME "overwrite" \notin odd', NEW c \in Leaked'
        PROVE  c \in Leaked /\ block'[c].dirty \subseteq block[c].dirty
    BY <2>2 DEF TypeOK, OwnedOnce, GoneIsEmpty, Leaked, Owners, Acquire, Take, Unused,
       Holds, Of, Upto
  <2> QED  BY <2>1, <2>2, LeaksStay
<1>7. StaysLocked'
  BY DEF TypeOK, OwnedOnce, StaysLocked, Page, Acquire, Take, Unused, Holds, Of, Upto
<1>8. MemoryBehind'
  BY DEF TypeOK, WithinBlock, MemoryBehind, Acquire, Take, Unused, Holds, Of, Upto
<1>9. PushBackIsSafe'
  BY DEF TypeOK, MemoryBehind, PushBackIsSafe, Acquire, Take, Unused, Holds, Of, Upto
<1>10. GoneIsEmpty'
  BY DEF TypeOK, GoneIsEmpty, Acquire, Take, Unused, Holds, Of, Upto
<1> QED  BY <1>1, <1>2, <1>3, <1>4, <1>5, <1>6, <1>7, <1>8, <1>9, <1>10

\* A string changes blocks and the old one is wiped.
LEMMA RelocateInv ==
    ASSUME IndInv, NEW s \in Str, NEW b \in Buf,
           NEW n \in Nat \ {0}, NEW index \in 0..n, NEW written \in SUBSET Upto(n),
           Relocate(s, b, n, index, written)
    PROVE  IndInv'
<1> USE DEF IndInv
<1>1. TypeOK'
  <2> DEFINE old == str[s].data
             kept == Upto(Least(str[s].index, n))
  <2>1. /\ old \in Buf /\ index \in Nat /\ n \in Nat
        /\ Least(str[s].index, n) \in Nat
    BY DEF TypeOK, Relocate, Least
  <2>2. kept \in SUBSET Nat /\ written \in SUBSET Nat  BY <2>1, UptoType
  <2>3. Holds(n, kept \cup written) \in Block  BY <2>1, <2>2 DEF Holds
  <2>4. block[old].dirty \in SUBSET Nat  BY <2>1 DEF TypeOK
  <2>5. Freed(s) \in Block  BY <2>4 DEF Freed, Holds
  <2>6. block' \in [Buf -> Block]  BY <2>1, <2>3, <2>5 DEF Relocate, TypeOK
  <2>7. str' \in [Str -> String]  BY <2>1 DEF Relocate, TypeOK, Of
  <2>8. locked' \subseteq Buf  BY DEF Relocate, TypeOK, Page
  <2> QED  BY <2>6, <2>7, <2>8 DEF TypeOK, Relocate, Neighbours
<1>2. OwnedOnce'
  BY DEF TypeOK, OwnedOnce, Relocate, Unused, Holds, Of, Upto, Least, Freed, Neighbours
<1>3. WithinBlock'
  BY DEF TypeOK, OwnedOnce, WithinBlock, Relocate, Unused, Holds, Of, Upto, Least, Freed,
     Neighbours
<1>4. FreedIsClean'
  BY DEF TypeOK, OwnedOnce, FreedIsClean, Covered, Relocate, Unused, Holds, Of, Upto, Least,
     Freed, Neighbours
<1>5. Covered'
  <2> DEFINE old == str[s].data
             kept == Upto(Least(str[s].index, n))
  <2> SUFFICES ASSUME "cut" \notin odd', NEW t \in Str, str'[t].data # None
               PROVE  block'[str'[t].data].dirty \subseteq Upto(str'[t].max)
    BY DEF Covered
  <2>1. old # b /\ str[t].data # b  BY UnusedIsUnowned DEF Relocate
  <2>2. CASE t = s
    <3>1. str'[t].data = b /\ str'[t].max = n  BY <2>2 DEF Relocate, Of, TypeOK
    <3>2. block'[b].dirty = kept \cup written  BY <2>1 DEF Relocate, Holds, TypeOK
    <3>3. kept \subseteq Upto(n)  BY DEF Upto, Least, TypeOK
    <3> QED  BY <3>1, <3>2, <3>3
  <2>3. CASE t # s
    <3>1. str'[t] = str[t]  BY <2>3 DEF Relocate, TypeOK
    <3>2. str[t].data # old  BY <2>3, <3>1 DEF OwnedOnce
    <3>3. block'[str[t].data] = block[str[t].data]
      BY <2>1, <3>1, <3>2 DEF Relocate, TypeOK
    <3> QED  BY <3>1, <3>3 DEF Covered, Relocate
  <2> QED  BY <2>2, <2>3
<1>6. NothingLeaks'
  <2>1. odd \subseteq odd' /\ failed' = failed
    BY DEF Relocate
  <2>2. ASSUME "overwrite" \notin odd', NEW c \in Leaked'
        PROVE  c \in Leaked /\ block'[c].dirty \subseteq block[c].dirty
    BY <2>2 DEF TypeOK, OwnedOnce, GoneIsEmpty, Leaked, Owners, Relocate, Unused, Holds,
       Of, Upto, Least, Freed, Neighbours
  <2> QED  BY <2>1, <2>2, LeaksStay
<1>7. StaysLocked'
  BY DEF TypeOK, OwnedOnce, StaysLocked, Page, Relocate, Unused, Holds, Of, Upto, Least,
     Freed, Neighbours
<1>8. MemoryBehind'
  BY DEF TypeOK, WithinBlock, MemoryBehind, Relocate, Unused, Holds, Of, Upto, Least, Freed,
     Neighbours
<1>9. PushBackIsSafe'
  BY DEF TypeOK, MemoryBehind, PushBackIsSafe, Relocate, Unused, Holds, Of, Upto, Least,
     Freed, Neighbours
<1>10. GoneIsEmpty'
  BY DEF TypeOK, GoneIsEmpty, Relocate, Unused, Holds, Of, Upto, Least, Freed, Neighbours
<1> QED  BY <1>1, <1>2, <1>3, <1>4, <1>5, <1>6, <1>7, <1>8, <1>9, <1>10

\* A string changes blocks and nobody owns the old one, which is wiped.
LEMMA RelocateFailsInv ==
    ASSUME IndInv, NEW s \in Str, NEW b \in Buf, NEW n \in 1..MaxSize,
           RelocateFails(s, b, n)
    PROVE  IndInv'
<1> DEFINE old == str[s].data
           index == Least(str[s].index, n)
<1> USE DEF IndInv
<1>1. /\ old \in Buf /\ old # b /\ n \in Nat /\ n > 0
      /\ index \in Nat /\ index <= n /\ index <= str[s].index
  BY UnusedIsUnowned DEF TypeOK, RelocateFails, Least
<1>2. /\ str' = [str EXCEPT ![s] = Of(index, n, b)]
      /\ block' = [block EXCEPT ![b] = Holds(n, Upto(index)), ![old] = Wiped(s)]
      /\ locked' = locked \cup Page(b)
      /\ ended' = ended /\ odd' = odd /\ failed' = failed + 1
  BY DEF RelocateFails
<1> HIDE DEF index
<1>3. Wiped(s) = Holds(block[old].size, block[old].dirty \ Upto(str[s].max))
  BY DEF Wiped
<1>4. \A t \in Str : str[t].data # b
  BY UnusedIsUnowned DEF RelocateFails
<1> HIDE DEF old
<1>5. /\ block'[b] = Holds(n, Upto(index)) /\ block'[old] = Wiped(s)
      /\ \A c \in Buf \ {b, old} : block'[c] = block[c]
      /\ str'[s] = Of(index, n, b) /\ \A t \in Str \ {s} : str'[t] = str[t]
  BY <1>1, <1>2 DEF TypeOK
<1>6. \A t \in Str \ {s} : str[t].data # old /\ str[t].data # b
  BY <1>1, <1>4 DEF OwnedOnce, old
<1>7. TypeOK'
  <2>1. Holds(n, Upto(index)) \in Block  BY <1>1, UptoType DEF Holds
  <2>2. block[old] \in Block  BY <1>1 DEF TypeOK
  <2>3. Wiped(s) \in Block  BY <1>3, <2>2 DEF Holds
  <2>4. Of(index, n, b) \in String  BY <1>1 DEF Of
  <2>5. Page(b) \subseteq Buf  BY DEF Page
  <2> QED  BY <1>1, <1>2, <2>1, <2>3, <2>4, <2>5 DEF TypeOK
<1>8. OwnedOnce'
  BY <1>1, <1>5, <1>6 DEF TypeOK, OwnedOnce, Of, Holds
<1>9. WithinBlock'
  BY <1>1, <1>5, <1>6 DEF TypeOK, OwnedOnce, WithinBlock, Of, Holds
<1>10. block[old].size > 0
  BY <1>1 DEF OwnedOnce, old
<1>11. FreedIsClean'
  BY <1>1, <1>2, <1>3, <1>5, <1>10 DEF TypeOK, FreedIsClean, Holds
<1>12. Covered'
  <2>1. Upto(index) \subseteq Upto(n)  BY <1>1 DEF Upto
  <2> QED  BY <1>1, <1>2, <1>5, <1>6, <2>1 DEF TypeOK, Covered, Of, Holds
<1>13. NothingLeaks'
  <2>1. ASSUME NEW c \in Leaked', c # old
        PROVE  c \in Leaked /\ block'[c].dirty \subseteq block[c].dirty
    <3>1. c \in Buf /\ c # b
      BY <1>5, <2>1 DEF Leaked, Owners, Of
    <3>2. block'[c] = block[c]
      BY <1>5, <2>1, <3>1
    <3>3. ASSUME NEW t \in Str, str[t].data = c PROVE FALSE
      BY <1>5, <2>1, <3>3 DEF Leaked, Owners, old
    <3> QED  BY <2>1, <3>1, <3>2, <3>3 DEF Leaked, Owners
  <2>2. "cut" \notin odd' => block'[old].dirty = {}
    <3>1. "cut" \notin odd => block[old].dirty \subseteq Upto(str[s].max)
      BY <1>1 DEF Covered, old
    <3>2. block'[old].dirty = block[old].dirty \ Upto(str[s].max)
      BY <1>3, <1>5 DEF Holds
    <3> QED  BY <1>2, <3>1, <3>2
  <2> QED  BY <1>1, <1>2, <2>1, <2>2, OneMoreLeaks
<1>14. StaysLocked'
  <2>1. b \in Page(b)  BY DEF Page
  <2> QED  BY <1>1, <1>2, <1>3, <1>5, <1>10, <2>1 DEF TypeOK, StaysLocked, Holds
<1>15. MemoryBehind'
  BY <1>2, <1>5 DEF TypeOK, MemoryBehind, Of
<1>16. PushBackIsSafe'
  BY <1>2 DEF PushBackIsSafe
<1>17. GoneIsEmpty'
  BY <1>5 DEF GoneIsEmpty, Of
<1> QED  BY <1>7, <1>8, <1>9, <1>11, <1>12, <1>13, <1>14, <1>15, <1>16, <1>17

\* The length is cut, the capacity stays.
LEMMA ResizeFailsInv ==
    ASSUME IndInv, NEW s \in Str, NEW b \in Buf, NEW n \in 1..MaxSize,
           ResizeFails(s, b, n)
    PROVE  IndInv'
<1> USE DEF IndInv
<1>1. TypeOK'
  <2>1. Holds(n, {}) \in Block /\ Least(str[s].index, n) \in Nat
    BY DEF TypeOK, Holds, Least
  <2>2. str' \in [Str -> String]  BY <2>1 DEF TypeOK, ResizeFails
  <2> QED  BY <2>1, <2>2 DEF TypeOK, ResizeFails, TakeFails
<1>2. OwnedOnce'
  BY DEF TypeOK, OwnedOnce, ResizeFails, Least, TakeFails, Unused, Holds
<1>3. WithinBlock'
  BY DEF TypeOK, OwnedOnce, WithinBlock, ResizeFails, Least, TakeFails, Unused, Holds
<1>4. FreedIsClean'
  BY DEF TypeOK, OwnedOnce, FreedIsClean, Covered, ResizeFails, Least, TakeFails, Unused, Holds
<1>5. Covered'
  BY DEF TypeOK, OwnedOnce, WithinBlock, Covered, ResizeFails, Least, TakeFails, Unused, Holds
<1>6. NothingLeaks'
  <2>1. odd \subseteq odd' /\ failed' = failed + 1
    BY DEF TypeOK, ResizeFails, TakeFails
  <2>2. ASSUME NEW c \in Leaked'
        PROVE  \/ c \in Leaked /\ block'[c].dirty \subseteq block[c].dirty
               \/ c = b /\ block'[c].dirty = {}
    BY <2>2 DEF TypeOK, OwnedOnce, GoneIsEmpty, Leaked, Owners, ResizeFails, Least,
       TakeFails, Unused, Holds
  <2> QED  BY <2>1, <2>2, OneMoreLeaks
<1>7. StaysLocked'
  BY DEF TypeOK, OwnedOnce, StaysLocked, Page, ResizeFails, Least, TakeFails, Unused, Holds
<1>8. MemoryBehind'
  BY DEF TypeOK, WithinBlock, MemoryBehind, ResizeFails, Least, TakeFails, Unused, Holds
<1>9. PushBackIsSafe'
  BY DEF TypeOK, MemoryBehind, PushBackIsSafe, ResizeFails, Least, TakeFails, Unused, Holds
<1>10. GoneIsEmpty'
  BY DEF TypeOK, GoneIsEmpty, ResizeFails, Least, TakeFails, Unused, Holds
<1> QED  BY <1>1, <1>2, <1>3, <1>4, <1>5, <1>6, <1>7, <1>8, <1>9, <1>10

\* One byte is written within the capacity.
LEMMA PushBackInv ==
    ASSUME IndInv, NEW s \in Str,
           PushBack(s)
    PROVE  IndInv'
<1> USE DEF IndInv
<1>1. TypeOK'
  BY UptoType DEF TypeOK, PushBack
<1>2. OwnedOnce'
  BY DEF TypeOK, OwnedOnce, PushBack, Upto
<1>3. WithinBlock'
  BY DEF TypeOK, OwnedOnce, WithinBlock, PushBack, Upto
<1>4. FreedIsClean'
  BY DEF TypeOK, OwnedOnce, FreedIsClean, Covered, PushBack, Upto
<1>5. Covered'
  BY DEF TypeOK, OwnedOnce, WithinBlock, Covered, PushBack, Upto
<1>6. NothingLeaks'
  <2>1. odd \subseteq odd' /\ failed' = failed
    BY DEF PushBack
  <2>2. ASSUME "overwrite" \notin odd', NEW c \in Leaked'
        PROVE  c \in Leaked /\ block'[c].dirty \subseteq block[c].dirty
    BY <2>2 DEF TypeOK, OwnedOnce, GoneIsEmpty, Leaked, Owners, PushBack, Upto
  <2> QED  BY <2>1, <2>2, LeaksStay
<1>7. StaysLocked'
  BY DEF TypeOK, OwnedOnce, StaysLocked, Page, PushBack, Upto
<1>8. MemoryBehind'
  BY DEF TypeOK, WithinBlock, MemoryBehind, PushBack, Upto
<1>9. PushBackIsSafe'
  BY DEF TypeOK, MemoryBehind, PushBackIsSafe, PushBack, Upto
<1>10. GoneIsEmpty'
  BY DEF TypeOK, GoneIsEmpty, PushBack, Upto
<1> QED  BY <1>1, <1>2, <1>3, <1>4, <1>5, <1>6, <1>7, <1>8, <1>9, <1>10

\* Only capacity without memory leads to a null pointer.
LEMMA WriteNullInv ==
    ASSUME IndInv, NEW s \in Str,
           WriteNull(s)
    PROVE  IndInv'
<1> USE DEF IndInv
<1>1. TypeOK'
  BY DEF TypeOK, WriteNull
<1>2. OwnedOnce'
  BY DEF TypeOK, OwnedOnce, WriteNull
<1>3. WithinBlock'
  BY DEF TypeOK, OwnedOnce, WithinBlock, WriteNull
<1>4. FreedIsClean'
  BY DEF TypeOK, OwnedOnce, FreedIsClean, Covered, WriteNull
<1>5. Covered'
  BY DEF TypeOK, OwnedOnce, WithinBlock, Covered, WriteNull
<1>6. NothingLeaks'
  <2>1. odd \subseteq odd' /\ failed' = failed
    BY DEF WriteNull
  <2>2. ASSUME "overwrite" \notin odd', NEW c \in Leaked'
        PROVE  c \in Leaked /\ block'[c].dirty \subseteq block[c].dirty
    BY <2>2 DEF TypeOK, OwnedOnce, GoneIsEmpty, Leaked, Owners, WriteNull
  <2> QED  BY <2>1, <2>2, LeaksStay
<1>7. StaysLocked'
  BY DEF TypeOK, OwnedOnce, StaysLocked, Page, WriteNull
<1>8. MemoryBehind'
  BY DEF TypeOK, WithinBlock, MemoryBehind, WriteNull
<1>9. PushBackIsSafe'
  BY DEF TypeOK, MemoryBehind, PushBackIsSafe, WriteNull
<1>10. GoneIsEmpty'
  BY DEF TypeOK, GoneIsEmpty, WriteNull
<1> QED  BY <1>1, <1>2, <1>3, <1>4, <1>5, <1>6, <1>7, <1>8, <1>9, <1>10

\* The length stays a number and the capacity stays.
LEMMA PopBackInv ==
    ASSUME IndInv, NEW s \in Str,
           PopBack(s)
    PROVE  IndInv'
<1> USE DEF IndInv
<1>1. TypeOK'
  BY UptoType DEF TypeOK, PopBack, Greatest
<1>2. OwnedOnce'
  BY DEF TypeOK, OwnedOnce, PopBack, Greatest, Upto
<1>3. WithinBlock'
  BY DEF TypeOK, OwnedOnce, WithinBlock, PopBack, Greatest, Upto
<1>4. FreedIsClean'
  BY DEF TypeOK, OwnedOnce, FreedIsClean, Covered, PopBack, Greatest, Upto
<1>5. Covered'
  BY DEF TypeOK, OwnedOnce, WithinBlock, Covered, PopBack, Greatest, Upto
<1>6. NothingLeaks'
  <2>1. odd \subseteq odd' /\ failed' = failed
    BY DEF PopBack
  <2>2. ASSUME "overwrite" \notin odd', NEW c \in Leaked'
        PROVE  c \in Leaked /\ block'[c].dirty \subseteq block[c].dirty
    BY <2>2 DEF TypeOK, OwnedOnce, GoneIsEmpty, Leaked, Owners, PopBack, Greatest, Upto
  <2> QED  BY <2>1, <2>2, LeaksStay
<1>7. StaysLocked'
  BY DEF TypeOK, OwnedOnce, StaysLocked, Page, PopBack, Greatest, Upto
<1>8. MemoryBehind'
  BY DEF TypeOK, WithinBlock, MemoryBehind, PopBack, Greatest, Upto
<1>9. PushBackIsSafe'
  BY DEF TypeOK, MemoryBehind, PushBackIsSafe, PopBack, Greatest, Upto
<1>10. GoneIsEmpty'
  BY DEF TypeOK, GoneIsEmpty, PopBack, Greatest, Upto
<1> QED  BY <1>1, <1>2, <1>3, <1>4, <1>5, <1>6, <1>7, <1>8, <1>9, <1>10

\* resize is one of the two above.
LEMMA ResizeInv ==
    ASSUME IndInv, NEW s \in Str, NEW b \in Buf, NEW n \in 1..MaxSize, Resize(s, b, n)
    PROVE  IndInv'
<1> DEFINE index == Least(str[s].index, n)
<1>1. n \in Nat \ {0} /\ index \in 0..n /\ {} \in SUBSET Upto(n)
  BY DEF IndInv, TypeOK, Least
<1>2. CASE Acquire(s, b, n, index, {})  BY <1>1, <1>2, AcquireInv
<1>3. CASE Relocate(s, b, n, index, {})  BY <1>1, <1>3, RelocateInv
<1> QED  BY <1>2, <1>3 DEF Resize

\* And so is the growth in push_back: it leaves room for the new byte.
LEMMA PushBackGrowsInv ==
    ASSUME IndInv, NEW s \in Str, NEW b \in Buf, PushBackGrows(s, b)
    PROVE  IndInv'
<1> DEFINE n == IF str[s].max = 0 THEN Default ELSE 2 * str[s].max
           index == str[s].index
<1>1. str[s].max \in Nat /\ index \in Nat /\ index <= str[s].max
  BY DEF IndInv, TypeOK, WithinBlock
<1>2. n \in Nat \ {0} /\ index < n  BY <1>1 DEF PushBackGrows
<1>3. index + 1 \in 0..n  BY <1>1, <1>2
<1>4. {index} \in SUBSET Upto(n)  BY <1>1, <1>2 DEF Upto
<1>5. CASE Acquire(s, b, n, index + 1, {index})
  <2> HIDE DEF n, index
  <2> QED  BY <1>2, <1>3, <1>4, <1>5, AcquireInv
<1>6. CASE Relocate(s, b, n, index + 1, {index})
  <2> HIDE DEF n, index
  <2> QED  BY <1>2, <1>3, <1>4, <1>6, RelocateInv
<1> QED  BY <1>5, <1>6 DEF PushBackGrows

\* Every step keeps the invariant.
LEMMA NextInv == IndInv /\ [Next]_vars => IndInv'
<1> SUFFICES ASSUME IndInv, [Next]_vars PROVE IndInv'  OBVIOUS
<1>1. ASSUME NEW s \in Str,
            NewEmpty(s)
     PROVE  IndInv'
  BY <1>1, NewEmptyInv
<1>2. ASSUME NEW s \in Str,
            NewFromNothing(s)
     PROVE  IndInv'
  BY <1>2, NewFromNothingInv
<1>3. ASSUME NEW s \in Str, NEW b \in Buf, NEW n \in 1..MaxSize, NEW length \in 0..MaxSize,
            New(s, b, n, length)
     PROVE  IndInv'
  BY <1>3, NewInv
<1>4. ASSUME NEW s \in Str, NEW t \in Str, NEW b \in Buf,
            CopyNew(s, t, b)
     PROVE  IndInv'
  BY <1>4, CopyNewInv
<1>5. ASSUME NEW s \in Str, NEW t \in Str,
            CopyNewEmpty(s, t)
     PROVE  IndInv'
  BY <1>5, CopyNewEmptyInv
<1>6. ASSUME NEW s \in Str, NEW b \in Buf, NEW n \in 1..MaxSize,
            NewFails(s, b, n)
     PROVE  IndInv'
  BY <1>6, NewFailsInv
<1>7. ASSUME NEW s \in Str, NEW t \in Str,
            MoveNew(s, t)
     PROVE  IndInv'
  BY <1>7, MoveNewInv
<1>8. ASSUME NEW s \in Str,
            Destroy(s)
     PROVE  IndInv'
  BY <1>8, DestroyInv
<1>9. ASSUME NEW s \in Str,
            DestroyEmpty(s)
     PROVE  IndInv'
  BY <1>9, DestroyEmptyInv
<1>10. ASSUME NEW s \in Str, NEW t \in Str, NEW b \in Buf,
            CopyAssign(s, t, b)
     PROVE  IndInv'
  BY <1>10, CopyAssignInv
<1>11. ASSUME NEW s \in Str, NEW t \in Str, NEW b \in Buf,
            CopyAssignFails(s, t, b)
     PROVE  IndInv'
  BY <1>11, CopyAssignFailsInv
<1>12. ASSUME NEW s \in Str, NEW t \in Str,
            CopyAssignEmpty(s, t)
     PROVE  IndInv'
  BY <1>12, CopyAssignEmptyInv
<1>13. ASSUME NEW s \in Str, NEW t \in Str,
            MoveAssign(s, t)
     PROVE  IndInv'
  BY <1>13, MoveAssignInv
<1>14. ASSUME NEW s \in Str, NEW b \in Buf, NEW n \in 1..MaxSize,
            ResizeFails(s, b, n)
     PROVE  IndInv'
  BY <1>14, ResizeFailsInv
<1>15. ASSUME NEW s \in Str,
            PushBack(s)
     PROVE  IndInv'
  BY <1>15, PushBackInv
<1>16. ASSUME NEW s \in Str,
            WriteNull(s)
     PROVE  IndInv'
  BY <1>16, WriteNullInv
<1>17. ASSUME NEW s \in Str,
            PopBack(s)
     PROVE  IndInv'
  BY <1>17, PopBackInv
<1>18. ASSUME NEW s \in Str, NEW b \in Buf, NEW n \in 1..MaxSize,
            Resize(s, b, n)
     PROVE  IndInv'
  BY <1>18, ResizeInv
<1>19. ASSUME NEW s \in Str, NEW b \in Buf,
            PushBackGrows(s, b)
     PROVE  IndInv'
  BY <1>19, PushBackGrowsInv
<1>20. ASSUME NEW s \in Str,
            DestroyFails(s)
     PROVE  IndInv'
  BY <1>20, DestroyFailsInv
<1>21. ASSUME NEW s \in Str, NEW b \in Buf, NEW n \in 1..MaxSize,
            RelocateFails(s, b, n)
     PROVE  IndInv'
  BY <1>21, RelocateFailsInv
<1>22. CASE UNCHANGED vars
  BY <1>22 DEF vars, IndInv, TypeOK, OwnedOnce, WithinBlock, FreedIsClean, Covered,
     NothingLeaks,
     StaysLocked, MemoryBehind, PushBackIsSafe, GoneIsEmpty, Owners, Leaked
<1> QED
  BY <1>1, <1>2, <1>3, <1>4, <1>5, <1>6, <1>7, <1>8, <1>9, <1>10, <1>11, <1>12, <1>13,
     <1>14, <1>15, <1>16, <1>17, <1>18, <1>19, <1>20, <1>21, <1>22 DEF Next

-----------------------------------------------------------------------------

\* The invariant holds in every behaviour.
LEMMA Inductive == Spec => []IndInv
BY InitInv, NextInv, PTL DEF Spec

\* The fields of strings and blocks keep their types.
THEOREM TypeCorrect == Spec => []TypeOK
<1>1. IndInv => TypeOK  BY DEF IndInv
<1> QED  BY <1>1, Inductive, PTL

\* No two strings own one block and no string owns a free one, so the
\* destructor and resize free nothing twice.
THEOREM NothingFreedTwice == Spec => []OwnedOnce
<1>1. IndInv => OwnedOnce  BY DEF IndInv
<1> QED  BY <1>1, Inductive, PTL

\* What push_back, resize and the copies write lies within the block.
THEOREM NoWriteOutside == Spec => []WithinBlock
<1>1. IndInv => WithinBlock  BY DEF IndInv
<1> QED  BY <1>1, Inductive, PTL

\* A freed block holds no secret, unless a string with memory was assigned the
\* copy of one without capacity, which makes it forget what to wipe.
THEOREM WipedBeforeFreed == Spec => []FreedIsClean
<1>1. IndInv => FreedIsClean  BY DEF IndInv
<1> QED  BY <1>1, Inductive, PTL

\* Unless an assignment overwrites a pointer, each failing mlock or munlock loses
\* one block at most; what is lost is clean, with the exception of the theorem above.
THEOREM MemoryIsOwned == Spec => []NothingLeaks
<1>1. IndInv => NothingLeaks  BY DEF IndInv
<1> QED  BY <1>1, Inductive, PTL

\* Memory in use is locked, unless mlock failed or a page is shared.
THEOREM MemoryIsLocked == Spec => []StaysLocked
<1>1. IndInv => StaysLocked  BY DEF IndInv
<1> QED  BY <1>1, Inductive, PTL

\* push_back needs an empty literal to write through a null pointer.
THEOREM PushBackWrites == Spec => []PushBackIsSafe
<1>1. IndInv => PushBackIsSafe  BY DEF IndInv
<1> QED  BY <1>1, Inductive, PTL

=============================================================================
