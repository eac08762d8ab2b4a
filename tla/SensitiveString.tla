-------------------------- MODULE SensitiveString --------------------------
(***************************************************************************)
(* utils::sensitive_string: strings that own memory which is to be locked  *)
(* while it holds a secret and wiped before it is freed.                   *)
(*                                                                         *)
(* The clients are any code that calls the constructors, assignments and   *)
(* members of live strings in any order.  Abstractions: every byte written *)
(* is secret, and what it says does not matter; freed memory keeps what is *)
(* in it.  mlock and munlock work on pages and do not count, so unlocking  *)
(* a block unlocks its neighbours on the page.                             *)
(***************************************************************************)
EXTENDS Integers, FiniteSets

CONSTANTS
    Str,        \* bound: the strings
    Buf,        \* bound: the blocks of memory
    None,       \* nullptr
    Default,    \* the capacity of a new string, 32 in the code
    MaxSize,    \* bound: the size of a block
    Crowded,    \* the blocks that share a page; every other one has its own
    MaxFailed   \* bound: the calls of mlock and munlock that fail

ASSUME ConstantsAssumption ==
    /\ None \notin Buf
    /\ IsFiniteSet(Buf)
    /\ Default \in Nat \ {0} /\ MaxSize \in Nat /\ MaxFailed \in Nat
    /\ Crowded \subseteq Buf

\* index, max_size and _data.
String == [live : BOOLEAN, index : Nat, max : Nat, data : Buf \cup {None}]

Block == [size : Nat, dirty : SUBSET Nat]

Mishaps == {"overwrite", "cut", "literal", "shared", "mlock"}

\* How the program ended: not yet, by writing through a null pointer, or by an
\* exception in a destructor.
Ends == {"no", "null", "terminate"}

VARIABLES
    str,      \* the strings
    block,    \* the blocks: their size, 0 when free, and the bytes that hold secrets
    locked,   \* the blocks on a locked page
    ended,    \* how the program ended
    odd,      \* which mishaps there were: a string with memory was assigned to;
              \* it was assigned a string without capacity; a string was made from
              \* an empty literal; a freed block had neighbours; mlock failed
    failed    \* how many calls of mlock and munlock failed

vars == <<str, block, locked, ended, odd, failed>>

Upto(n) == 0..(n - 1)

Least(m, n) == IF m < n THEN m ELSE n

Greatest(m, n) == IF m > n THEN m ELSE n

Page(b) == IF b \in Crowded THEN Crowded ELSE {b}

Of(index, max, data) == [live |-> TRUE, index |-> index, max |-> max, data |-> data]

Gone == [live |-> FALSE, index |-> 0, max |-> 0, data |-> None]

\* What a move leaves behind.
Moved == Of(0, 0, None)

Init ==
    /\ str = [s \in Str |-> Gone]
    /\ block = [b \in Buf |-> [size |-> 0, dirty |-> {}]]
    /\ locked = {} /\ ended = "no" /\ odd = {} /\ failed = 0

-----------------------------------------------------------------------------
(* Memory. *)

Holds(n, dirty) == [size |-> n, dirty |-> dirty]

Unused(b, n) == block[b].size = 0 /\ n <= MaxSize

\* Mutant: the memory is not locked.
Take_Unlocked(b, n, dirty) ==
    /\ Unused(b, n)
    /\ block' = [block EXCEPT ![b] = Holds(n, dirty)]
    /\ UNCHANGED locked

\* new char[n], lock_mem, and the secret copied in.
Take(b, n, dirty) ==
    /\ Unused(b, n)
    /\ block' = [block EXCEPT ![b] = Holds(n, dirty)]
    /\ locked' = locked \cup Page(b)

\* new char[n], and lock_mem throws: the block stays allocated.
TakeFails(b, n) ==
    /\ Unused(b, n) /\ failed < MaxFailed
    /\ failed' = failed + 1
    /\ block' = [block EXCEPT ![b] = Holds(n, {})]
    /\ UNCHANGED <<locked, ended>>

\* Mutant: the bytes in use are wiped, not all of them.
Freed_Shorter(s) == Holds(0, block[str[s].data].dirty \ Upto(str[s].index))

\* secure_zero over max_size, and delete[].
Freed(s) == Holds(0, block[str[s].data].dirty \ Upto(str[s].max))

\* secure_zero over max_size, and unlock_mem throws: the block stays allocated.
Wiped(s) ==
    LET b == str[s].data IN Holds(block[b].size, block[b].dirty \ Upto(str[s].max))

Neighbours(b) ==
    IF \E c \in Page(b) \ {b} : block[c].size > 0 THEN {"shared"} ELSE {}

-----------------------------------------------------------------------------
(* Constructors and the destructor. *)

\* sensitive_string(0)
NewEmpty(s) ==
    /\ ~str[s].live
    /\ str' = [str EXCEPT ![s] = Moved]
    /\ UNCHANGED <<block, locked, ended, odd, failed>>

\* From a literal, or from data and size, without characters.
NewFromNothing(s) ==
    /\ ~str[s].live
    /\ str' = [str EXCEPT ![s] = Of(0, Default, None)]
    /\ odd' = odd \cup {"literal"}
    /\ UNCHANGED <<block, locked, ended, failed>>

\* The others reserve a size n, and copy a text into it: none for a given size
\* (Default in the default constructor), of that size for a literal, and for a
\* std::string one that may be shorter than Default.
New(s, b, n, length) ==
    /\ ~str[s].live
    /\ length = 0 \/ length = n \/ n = Greatest(Default, length)
    /\ length <= n
    /\ Take(b, n, Upto(length))
    /\ str' = [str EXCEPT ![s] = Of(length, n, b)]
    /\ UNCHANGED <<ended, odd, failed>>

CopyNew(s, t, b) ==
    /\ ~str[s].live /\ str[t].live /\ str[t].max > 0
    /\ Take(b, str[t].max, Upto(str[t].index))
    /\ str' = [str EXCEPT ![s] = Of(str[t].index, str[t].max, b)]
    /\ UNCHANGED <<ended, odd, failed>>

CopyNewEmpty(s, t) ==
    /\ ~str[s].live /\ str[t].live /\ str[t].max = 0
    /\ str' = [str EXCEPT ![s] = Of(str[t].index, 0, None)]
    /\ UNCHANGED <<block, locked, ended, odd, failed>>

\* A constructor that throws makes no string.
NewFails(s, b, n) ==
    /\ ~str[s].live
    /\ TakeFails(b, n)
    /\ odd' = odd \cup {"mlock"}
    /\ UNCHANGED str

\* Mutant: the other string keeps its pointer.
MoveNew_Shared(s, t) ==
    /\ ~str[s].live /\ str[t].live
    /\ str' = [str EXCEPT ![s] = str[t]]
    /\ UNCHANGED <<block, locked, ended, odd, failed>>

MoveNew(s, t) ==
    /\ ~str[s].live /\ str[t].live
    /\ str' = [str EXCEPT ![s] = str[t], ![t] = Moved]
    /\ UNCHANGED <<block, locked, ended, odd, failed>>

\* Mutant: the memory is not freed.
Destroy_KeepsMemory(s) ==
    /\ str[s].live /\ str[s].data # None
    /\ str' = [str EXCEPT ![s] = Gone]
    /\ UNCHANGED <<block, locked, odd, ended, failed>>

Destroy(s) ==
    /\ str[s].live /\ str[s].data # None
    /\ str' = [str EXCEPT ![s] = Gone]
    /\ block' = [block EXCEPT ![str[s].data] = Freed(s)]
    /\ locked' = locked \ Page(str[s].data)
    /\ odd' = odd \cup Neighbours(str[s].data)
    /\ UNCHANGED <<ended, failed>>

\* When unlock_mem throws, nothing catches it: a destructor is noexcept.
DestroyFails(s) ==
    /\ str[s].live /\ str[s].data # None /\ failed < MaxFailed
    /\ failed' = failed + 1
    /\ block' = [block EXCEPT ![str[s].data] = Wiped(s)]
    /\ ended' = "terminate"
    /\ UNCHANGED <<str, locked, odd>>

DestroyEmpty(s) ==
    /\ str[s].live /\ str[s].data = None
    /\ str' = [str EXCEPT ![s] = Gone]
    /\ UNCHANGED <<block, locked, ended, odd, failed>>

-----------------------------------------------------------------------------
(* Assignments: they forget the memory of the string they assign to. *)

Forgets(s) == IF str[s].data = None THEN {} ELSE {"overwrite"}

\* A string copied to itself copies from the new block.
CopyAssign(s, t, b) ==
    /\ str[s].live /\ str[t].live /\ str[t].max > 0
    /\ Take(b, str[t].max, IF s = t THEN {} ELSE Upto(str[t].index))
    /\ str' = [str EXCEPT ![s] = Of(str[t].index, str[t].max, b)]
    /\ odd' = odd \cup Forgets(s)
    /\ UNCHANGED <<ended, failed>>

\* When lock_mem throws, the string has changed already.
CopyAssignFails(s, t, b) ==
    /\ str[s].live /\ str[t].live /\ str[t].max > 0
    /\ TakeFails(b, str[t].max)
    /\ str' = [str EXCEPT ![s] = Of(str[t].index, str[t].max, b)]
    /\ odd' = odd \cup Forgets(s) \cup {"mlock"}

\* A string without capacity leaves the assigned one its memory, but not the
\* knowledge of its size.
CopyAssignEmpty(s, t) ==
    /\ str[s].live /\ str[t].live /\ str[t].max = 0
    /\ str' = [str EXCEPT ![s] = Of(str[t].index, 0, str[s].data)]
    /\ odd' = odd \cup (IF str[s].data = None THEN {} ELSE {"cut"})
    /\ UNCHANGED <<block, locked, ended, failed>>

\* A string moved to itself loses everything.
MoveAssign(s, t) ==
    /\ str[s].live /\ str[t].live
    /\ str' = [[str EXCEPT ![s] = str[t]] EXCEPT ![t] = Moved]
    /\ odd' = odd \cup Forgets(s)
    /\ UNCHANGED <<block, locked, ended, failed>>

-----------------------------------------------------------------------------
(* Members. *)

\* What resize does to a string without memory; written are the positions that
\* push_back then writes.
Acquire(s, b, n, index, written) ==
    /\ str[s].data = None
    /\ Take(b, n, written)
    /\ str' = [str EXCEPT ![s] = Of(index, n, b)]
    /\ UNCHANGED <<ended, odd, failed>>

\* To one with memory: the first bytes go into the new block, the old one is
\* wiped, unlocked and freed.
Relocate(s, b, n, index, written) ==
    LET old == str[s].data
        kept == Upto(Least(str[s].index, n))
    IN
    /\ old # None /\ Unused(b, n)
    /\ str' = [str EXCEPT ![s] = Of(index, n, b)]
    /\ block' = [block EXCEPT ![b] = Holds(n, kept \cup written), ![old] = Freed(s)]
    /\ locked' = (locked \cup Page(b)) \ Page(old)
    /\ odd' = odd \cup Neighbours(old) \cup (IF b \in Page(old) THEN {"shared"} ELSE {})
    /\ UNCHANGED <<ended, failed>>

\* When unlock_mem throws, the string has its new block already and nobody frees
\* the old one; push_back does not get to write its character.
RelocateFails(s, b, n) ==
    LET old == str[s].data
        index == Least(str[s].index, n)
    IN
    /\ str[s].live /\ old # None /\ Unused(b, n) /\ failed < MaxFailed
    /\ failed' = failed + 1
    /\ str' = [str EXCEPT ![s] = Of(index, n, b)]
    /\ block' = [block EXCEPT ![b] = Holds(n, Upto(index)), ![old] = Wiped(s)]
    /\ locked' = locked \cup Page(b)
    /\ UNCHANGED <<ended, odd>>

\* When lock_mem throws, the length is cut already.
ResizeFails(s, b, n) ==
    /\ str[s].live
    /\ TakeFails(b, n)
    /\ str' = [str EXCEPT ![s].index = Least(@, n)]
    /\ odd' = odd \cup {"mlock"}

\* resize, and reserve when n exceeds the capacity.
Resize(s, b, n) ==
    /\ str[s].live
    /\ LET index == Least(str[s].index, n)
       IN  Acquire(s, b, n, index, {}) \/ Relocate(s, b, n, index, {})

\* push_back on a full string doubles its capacity.
PushBackGrows(s, b) ==
    LET n == IF str[s].max = 0 THEN Default ELSE 2 * str[s].max
        index == str[s].index
    IN
    /\ str[s].live /\ index >= str[s].max
    /\ Acquire(s, b, n, index + 1, {index}) \/ Relocate(s, b, n, index + 1, {index})

\* Mutant: the string is full one byte late.
PushBack_Late(s) ==
    /\ str[s].live /\ str[s].index <= str[s].max /\ str[s].data # None
    /\ str' = [str EXCEPT ![s].index = @ + 1]
    /\ block' = [block EXCEPT ![str[s].data].dirty = @ \cup {str[s].index}]
    /\ UNCHANGED <<locked, odd, ended, failed>>

PushBack(s) ==
    /\ str[s].live /\ str[s].index < str[s].max /\ str[s].data # None
    /\ str' = [str EXCEPT ![s].index = @ + 1]
    /\ block' = [block EXCEPT ![str[s].data].dirty = @ \cup {str[s].index}]
    /\ UNCHANGED <<locked, odd, ended, failed>>

\* Mutant: a string without capacity writes too.
WriteNull_Moved(s) ==
    /\ str[s].live /\ str[s].data = None
    /\ ended' = "null"
    /\ UNCHANGED <<str, block, locked, odd, failed>>

\* push_back on a string that has capacity, but no memory.
WriteNull(s) ==
    /\ str[s].live /\ str[s].index < str[s].max /\ str[s].data = None
    /\ ended' = "null"
    /\ UNCHANGED <<str, block, locked, odd, failed>>

\* Mutant: the length of an empty string is taken down too.
PopBack_BelowZero(s) ==
    /\ str[s].live
    /\ LET last == str[s].index - 1 IN
       /\ str' = [str EXCEPT ![s].index = last]
       /\ block' = IF str[s].data = None THEN block
                   ELSE [block EXCEPT ![str[s].data].dirty = @ \ {last}]
    /\ UNCHANGED <<locked, ended, odd, failed>>

\* The byte behind the new end is wiped.
PopBack(s) ==
    /\ str[s].live
    /\ LET last == Greatest(str[s].index - 1, 0) IN
       /\ str' = [str EXCEPT ![s].index = last]
       /\ block' = IF str[s].data = None THEN block
                   ELSE [block EXCEPT ![str[s].data].dirty = @ \ {last}]
    /\ UNCHANGED <<locked, ended, odd, failed>>

Next ==
    /\ ended = "no"
    /\ \E s \in Str :
          \/ NewEmpty(s) \/ NewFromNothing(s)
          \/ Destroy(s) \/ DestroyFails(s) \/ DestroyEmpty(s)
          \/ PushBack(s) \/ WriteNull(s) \/ PopBack(s)
          \/ \E t \in Str : \/ CopyNewEmpty(s, t) \/ CopyAssignEmpty(s, t)
                            \/ MoveNew(s, t) \/ MoveAssign(s, t)
          \/ \E b \in Buf :
                \/ PushBackGrows(s, b)
                \/ \E t \in Str : \/ CopyNew(s, t, b)
                                  \/ CopyAssign(s, t, b) \/ CopyAssignFails(s, t, b)
                \/ \E n \in 1..MaxSize :
                      \/ Resize(s, b, n) \/ ResizeFails(s, b, n) \/ RelocateFails(s, b, n)
                      \/ NewFails(s, b, n)
                \/ \E n \in 1..MaxSize, length \in 0..MaxSize : New(s, b, n, length)

Spec == Init /\ [][Next]_vars

-----------------------------------------------------------------------------
(* Properties. *)

TypeOK ==
    /\ str \in [Str -> String]
    /\ block \in [Buf -> Block]
    /\ locked \subseteq Buf
    /\ ended \in Ends
    /\ odd \subseteq Mishaps
    /\ failed \in Nat

Owners(b) == {s \in Str : str[s].data = b}

\* No two strings own one block, and the block of a string is not free: nothing
\* is freed twice or used after it was.
OwnedOnce ==
    \A s \in Str : str[s].data # None =>
        /\ block[str[s].data].size > 0
        /\ \A t \in Str : str[t].data = str[s].data => t = s

\* A string is no longer than its capacity, nor that larger than its memory.
WithinBlock ==
    \A s \in Str : /\ str[s].index <= str[s].max
                   /\ str[s].data = None => str[s].index = 0
                   /\ str[s].data # None => str[s].max <= block[str[s].data].size

\* Freed memory holds no secrets, unless a string that had memory was assigned
\* the copy of one without capacity, and so forgot how much it has to wipe.
FreedIsClean == "cut" \notin odd => \A b \in Buf : block[b].size = 0 => block[b].dirty = {}

Leaked == {b \in Buf : block[b].size > 0 /\ Owners(b) = {}}

\* As long as no string that owns memory is assigned to, only mlock and munlock
\* that fail lose memory, in a constructor or in resize, one block each; and what
\* is lost holds no secrets, unless the string had forgotten its size.
NothingLeaks ==
    "overwrite" \notin odd =>
        /\ Cardinality(Leaked) <= failed
        /\ "cut" \notin odd => \A b \in Leaked : block[b].dirty = {}

\* Memory in use is locked, unless mlock failed or blocks that share a page were
\* freed one by one.
StaysLocked ==
    odd \cap {"shared", "mlock"} = {} => {b \in Buf : block[b].size > 0} \subseteq locked

\* push_back writes through a null pointer only after a string was made from an
\* empty literal: a moved-from string gets new memory.
PushBackIsSafe == ended = "null" => "literal" \in odd

=============================================================================
