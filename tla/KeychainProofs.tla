--------------------------- MODULE KeychainProofs ---------------------------
(***************************************************************************)
(* Proofs about Keychain, for any accounts, seeds, passwords and faults,   *)
(* any number of files and unflushed writes, and any byte size and counter *)
(* limit with MaxPath < ByteSize^2.                                        *)
(*                                                                         *)
(* The invariant IndInv is inductive: HandlerInv says what a handler has   *)
(* done so far, CreationIsOrdered relates the cells of every recoverable   *)
(* image, and CounterInv says that the counter on disk is ahead of every   *)
(* path in memory or in any image a power loss can bring back.  OneHolder  *)
(* then follows for a new entry because its path is ahead of all others,   *)
(* and for every other step because it creates no claim (StepClaims).      *)
(*                                                                         *)
(* The last two sections are about properties that hold only without some  *)
(* of the faults.  Without write errors, what is shown is what is stored   *)
(* (TreeIsStored); the invariant must also cover the moment between the    *)
(* two writes of a new entry: StoredTree.  Without power losses, which may *)
(* take exported files away, a keychain with imported entries has a file   *)
(* exported under its own seed and right password (NoForeignImport); this  *)
(* rests on where the file being imported comes from, and on the database  *)
(* being a new one: Backup.                                                *)
(***************************************************************************)
EXTENDS Keychain, TLAPS

-----------------------------------------------------------------------------
(* Derivation data. *)

\* The two bytes derive_child writes are bytes.
LEMMA DerivationDataType ==
    ASSUME NEW p \in Nat
    PROVE  DerivationData(p) \in (0..ByteSize - 1) \X (0..ByteSize - 1)
<1>1. ByteSize \in Nat \ {0}
  BY TwoBytesAssumption
<1>2. p % ByteSize \in 0..ByteSize - 1 /\ p \div ByteSize \in Nat
  BY <1>1, SMT
<1>3. (p \div ByteSize) % ByteSize \in 0..ByteSize - 1
  BY <1>1, <1>2, SMT
<1>4. QED
  BY <1>2, <1>3 DEF DerivationData

\* A path below ByteSize^2 is determined by its two bytes.
LEMMA PathFromBytes ==
    ASSUME NEW p \in 0..MaxPath
    PROVE  /\ DerivationData(p)[1] = p \div ByteSize
           /\ p = (ByteSize * DerivationData(p)[1]) + DerivationData(p)[2]
<1>1. ByteSize \in Nat \ {0} /\ p \in Nat /\ p < ByteSize * ByteSize
  <2>1. MaxPath \in Nat /\ ByteSize \in Nat /\ ByteSize * ByteSize \in Nat
    BY TwoBytesAssumption, PathAssumption, SMT
  <2>2. QED
    BY <2>1, TwoBytesAssumption
<1> DEFINE q == p \div ByteSize
           r == p % ByteSize
<1>2. q \in Nat /\ r \in 0..ByteSize - 1 /\ p = (ByteSize * q) + r
  BY <1>1, SMT
<1>3. q < ByteSize
  <2> HIDE DEF q, r
  <2>1. SUFFICES ASSUME q >= ByteSize PROVE FALSE
    BY <1>1, <1>2
  <2>2. ByteSize * q >= ByteSize * ByteSize
    BY <1>1, <1>2, <2>1, SMT
  <2>3. ByteSize * q \in Nat /\ ByteSize * ByteSize \in Nat
    BY <1>1, <1>2, SMT
  <2>4. QED
    BY <1>1, <1>2, <2>2, <2>3
<1>4. q % ByteSize = q
  <2> HIDE DEF q, r
  <2>1. QED
    BY <1>1, <1>2, <1>3, SMT
<1>5. QED
  BY <1>2, <1>4 DEF DerivationData

\* No two paths within the limit give the same derivation data, so no two give
\* the same password (derive_child).
LEMMA DerivationDataInjective ==
    ASSUME NEW p \in 0..MaxPath, NEW q \in 0..MaxPath,
           DerivationData(p) = DerivationData(q)
    PROVE  p = q
BY PathFromBytes

-----------------------------------------------------------------------------
(* Types, and what each handler has done so far. *)

LEMMA KeyType ==
    ASSUME NEW enc \in EncryptedSeed, NEW w \in Passwords
    PROVE  ExportKey(Decrypt(enc, w)) \in Key
<1>1. Decrypt(enc, w) \in Root
  BY DEF Decrypt, Root, EncryptedSeed
<1>2. QED
  BY <1>1, PathAssumption, DerivationDataType DEF ExportKey, DeriveChild, Key

TypeInv == TypeOK /\ HandlerInv /\ CreationIsOrdered

LEMMA TypeInit == Init => TypeInv
<1>1. SUFFICES ASSUME Init PROVE TypeInv
  OBVIOUS
<1>2. NoKeychain \in Image
  BY DEF NoKeychain, Image
<1>3. QED
  BY <1>1, <1>2 DEF Init, TypeInv, TypeOK, HandlerInv, Phases, Prompts, Handlers,
                    CreationIsOrdered, Ordered, Recoverable, NoKeychain

\* A write of an image that is a stage of creation keeps the disk as it should be.
LEMMA WriteType ==
    ASSUME TypeOK, CreationIsOrdered, NEW img \in Image, Ordered(img), Write(img)
    PROVE  /\ disk' = img /\ disk' \in Image
           /\ unflushed' \in SUBSET Image
           /\ CreationIsOrdered'
BY DEF TypeOK, Write, CreationIsOrdered, Recoverable

LEMMA SameStorage ==
    ASSUME CreationIsOrdered, UNCHANGED storage
    PROVE  CreationIsOrdered'
BY DEF storage, CreationIsOrdered, Recoverable

LEMMA DiskOrdered ==
    ASSUME CreationIsOrdered
    PROVE  Ordered(disk)
BY DEF CreationIsOrdered, Recoverable

LEMMA TypeStep == TypeInv /\ [Next]_vars => TypeInv'
<1> SUFFICES ASSUME TypeInv, [Next]_vars PROVE TypeInv'
  OBVIOUS
<1> USE DEF TypeInv, HandlerInv
<1>1. CASE Start
  BY <1>1, SameStorage DEF Start, TypeOK, Phases, Prompts, Handlers, storage, memory
<1>2. ASSUME NEW s \in Seeds, NEW w \in Passwords, NEW f \in files \cup {None},
             EnterCredentials(s, w, f)
      PROVE  TypeInv'
  BY <1>2, SameStorage DEF EnterCredentials, TypeOK, Phases, Prompts, Handlers, storage, memory
<1>3. CASE MakeDirectory
  <2>1. [disk EXCEPT !.dir = TRUE] \in Image /\ Ordered([disk EXCEPT !.dir = TRUE])
    BY DiskOrdered DEF TypeOK, Image, Ordered
  <2>2. CASE disk.dir
    BY <1>3, <2>2, SameStorage
       DEF MakeDirectory, TypeOK, Phases, Prompts, Handlers, storage, memory
  <2>3. CASE ~disk.dir
    <3>1. disk.dpath = None
      BY <2>3, DiskOrdered DEF Ordered, TypeOK, Image
    <3>2. disk' = [disk EXCEPT !.dir = TRUE] /\ disk'.dir /\ disk'.dpath = None
          /\ disk' \in Image /\ unflushed' \in SUBSET Image /\ CreationIsOrdered'
      BY <1>3, <2>1, <2>3, <3>1, WriteType DEF MakeDirectory, TypeOK, Image
    <3>3. QED
      BY <1>3, <2>3, <3>2 DEF MakeDirectory, TypeOK, Phases, Prompts, Handlers, memory
  <2>4. QED
    BY <2>2, <2>3
<1>4. CASE OpenDb
  <2>1. [disk EXCEPT !.db = TRUE] \in Image /\ Ordered([disk EXCEPT !.db = TRUE])
    BY <1>4, DiskOrdered DEF OpenDb, TypeOK, Image, Ordered
  <2>2. QED
    BY <1>4, <2>1, WriteType
       DEF OpenDb, TypeOK, Phases, Prompts, Handlers, storage, memory, Image
<1>5. CASE PutSeed
  <2>1. [seed |-> seed, pw |-> tec] \in EncryptedSeed
    BY <1>5 DEF PutSeed, EncryptedSeed
  <2> DEFINE img == [disk EXCEPT !.seed = [seed |-> seed, pw |-> tec]]
  <2>2. img \in Image /\ Ordered(img)
    BY <1>5, <2>1, DiskOrdered, NoneAssumption DEF PutSeed, TypeOK, Image, Ordered
  <2>3. QED
    BY <1>5, <2>1, <2>2, WriteType, NoneAssumption
       DEF PutSeed, TypeOK, Phases, Prompts, Handlers, storage, memory, Image
<1>6. CASE PutLayout
  <2>1. [disk EXCEPT !.entries = {}] \in Image /\ Ordered([disk EXCEPT !.entries = {}])
    BY <1>6, DiskOrdered, NoneAssumption DEF PutLayout, TypeOK, Image, Ordered
  <2>2. QED
    BY <1>6, <2>1, WriteType
       DEF PutLayout, TypeOK, Phases, Prompts, Handlers, storage, memory, Image
<1>7. CASE PutPath
  <2>1. [disk EXCEPT !.dpath = 0] \in Image /\ Ordered([disk EXCEPT !.dpath = 0])
    BY <1>7, PathAssumption, DiskOrdered, NoneAssumption
       DEF PutPath, TypeOK, Image, Ordered
  <2>2. QED
    BY <1>7, <2>1, WriteType
       DEF PutPath, TypeOK, Phases, Prompts, Handlers, storage, memory, Image
<1>8. CASE ImportEntries
  <2>1. CASE phase' = "browsing"
    <3>1. source \in File /\ source.entries # None
          /\ Write([disk EXCEPT !.entries = source.entries, !.adopted = TRUE])
          /\ tree' = source.entries
      BY <1>8, <2>1 DEF ImportEntries, TypeOK
    <3>2. source.entries \in SUBSET Entry
      BY <3>1 DEF File
    <3> DEFINE img == [disk EXCEPT !.entries = source.entries, !.adopted = TRUE]
    <3>3. img \in Image /\ Ordered(img)
      BY <1>8, <2>1, <3>1, <3>2, DiskOrdered DEF ImportEntries, TypeOK, Image, Ordered
    <3>4. /\ disk' \in Image /\ unflushed' \in SUBSET Image /\ CreationIsOrdered'
          /\ disk'.seed = disk.seed
      BY <3>1, <3>3, WriteType DEF TypeOK, Image
    <3>5. QED
      BY <1>8, <2>1, <3>1, <3>2, <3>4
         DEF ImportEntries, TypeOK, Phases, Prompts, Handlers, memory
  <2>2. CASE phase' = "failed"
    BY <1>8, <2>2, SameStorage DEF ImportEntries, TypeOK, Phases, Prompts, Handlers, storage, memory
  <2>3. QED
    BY <1>8, <2>1, <2>2 DEF ImportEntries
<1>9. CASE StepFails
  BY <1>9, SameStorage DEF StepFails, TypeOK, Phases, Prompts, Handlers, storage, memory
<1>10. CASE Retry
  BY <1>10, SameStorage DEF Retry, TypeOK, Phases, Prompts, Handlers, storage, memory
<1>11. ASSUME NEW w \in Passwords, Open(w)
       PROVE  TypeInv'
  BY <1>11, SameStorage DEF Open, TypeOK, Phases, Prompts, Handlers, storage, memory
<1>12. CASE OpenMain
  <2>1. disk.entries \in SUBSET Entry /\ disk.seed # None
    BY <1>12, DiskOrdered DEF OpenMain, TypeOK, Image, Ordered
  <2>2. QED
    BY <1>12, <2>1, SameStorage DEF OpenMain, TypeOK, Phases, Prompts, Handlers, storage, memory
<1>13. CASE Export
  <2>1. disk.seed \in EncryptedSeed /\ disk.entries \in SUBSET Entry /\ tec \in Passwords
    BY <1>13 DEF Export, TypeOK, Image
  <2>2. files' \in SUBSET File
    BY <1>13, <2>1, KeyType DEF Export, TypeOK, File
  <2>3. QED
    BY <1>13, <2>2, SameStorage DEF Export, TypeOK, Phases, Prompts, Handlers, storage, memory
<1>14. CASE TakePath
  <2>1. disk.dpath + 1 \in Path /\ disk.dpath + 1 \in 0..MaxPath
    BY <1>14, PathAssumption DEF TakePath, TypeOK, Image, Path
  <2> DEFINE img == [disk EXCEPT !.dpath = disk.dpath + 1]
  <2>2. img \in Image /\ Ordered(img)
    BY <1>14, <2>1, DiskOrdered DEF TakePath, TypeOK, Image, Ordered
  <2>3. /\ disk' \in Image /\ unflushed' \in SUBSET Image /\ CreationIsOrdered'
        /\ disk'.seed = disk.seed
    BY <1>14, <2>2, WriteType DEF TakePath, TypeOK, Image
  <2>4. QED
    BY <1>14, <2>1, <2>3 DEF TakePath, TypeOK, Phases, Prompts, Handlers, memory
<1>15. ASSUME NEW t \in SUBSET Entry, Save(t) \/ UNCHANGED storage,
              disk.seed # None
       PROVE  /\ disk' \in Image /\ unflushed' \in SUBSET Image /\ CreationIsOrdered'
              /\ disk'.seed = disk.seed
  <2>1. [disk EXCEPT !.entries = t] \in Image /\ Ordered([disk EXCEPT !.entries = t])
    BY <1>15, DiskOrdered, NoneAssumption DEF TypeOK, Image, Ordered
  <2>2. CASE Save(t)
    BY <2>1, <2>2, WriteType DEF Save, TypeOK, Image
  <2>3. CASE UNCHANGED storage
    BY <2>3, SameStorage DEF TypeOK, storage
  <2>4. QED
    BY <1>15, <2>2, <2>3
<1>16. ASSUME NEW a \in Accounts, NEW d \in Details, AddEntry(a, d)
       PROVE  TypeInv'
  <2>1. [acct |-> a, path |-> granted, details |-> d] \in Entry
    BY <1>16 DEF AddEntry, Entry
  <2>2. tree' \in SUBSET Entry /\ clipboard' \in SUBSET Entry
    BY <1>16, <2>1 DEF AddEntry, TypeOK
  <2>3. disk' \in Image /\ unflushed' \in SUBSET Image /\ CreationIsOrdered'
        /\ disk'.seed # None
    BY <1>15, <1>16, <2>2 DEF AddEntry
  <2>4. QED
    BY <1>16, <2>2, <2>3 DEF AddEntry, TypeOK, Phases, Prompts, Handlers, storage, memory
<1>17. CASE Copy
  BY <1>17, SameStorage DEF Copy, TypeOK, Phases, Prompts, Handlers, storage, memory
<1>18. CASE Rearrange
  <2>1. tree' \in SUBSET Entry /\ clipboard' \in SUBSET Entry
    BY <1>18 DEF Rearrange, Paste, Delete, TypeOK
  <2>2. disk' \in Image /\ unflushed' \in SUBSET Image /\ CreationIsOrdered'
        /\ disk'.seed # None
    BY <1>15, <1>18, <2>1 DEF Rearrange
  <2>3. QED
    BY <1>18, <2>1, <2>2 DEF Rearrange, TypeOK, Phases, Prompts, Handlers, storage, memory
<1>19. ASSUME NEW e \in tree, NEW d \in Details, Edit(e, d)
       PROVE  TypeInv'
  <2>1. [e EXCEPT !.details = d] \in Entry
    BY DEF TypeOK, Entry
  <2>2. tree' \in SUBSET Entry /\ clipboard' \in SUBSET Entry
    BY <1>19, <2>1 DEF Edit, TypeOK
  <2>3. QED
    BY <1>19, <2>2, SameStorage DEF Edit, TypeOK, Phases, Prompts, Handlers, storage, memory
<1>20. CASE CloseMain
  BY <1>20, SameStorage DEF CloseMain, TypeOK, Phases, Prompts, Handlers, storage, memory
<1>21. CASE Flush
  BY <1>21 DEF Flush, TypeOK, Phases, Prompts, Handlers, memory,
                CreationIsOrdered, Recoverable
<1>22. ASSUME Forget, phase' = "off",
              disk' \in Recoverable, unflushed' \in SUBSET unflushed, files' \in SUBSET File
       PROVE  TypeInv'
  <2>1. disk' \in Image /\ unflushed' \in SUBSET Image /\ CreationIsOrdered'
    BY <1>22 DEF TypeOK, CreationIsOrdered, Recoverable
  <2>2. QED
    BY <1>22, <2>1 DEF Forget, TypeOK, Phases, Prompts, Handlers
<1>23. CASE Quit
  BY <1>22, <1>23 DEF Quit, TypeOK, storage, Recoverable
<1>24. CASE Crash
  BY <1>22, <1>24 DEF Crash, TypeOK, storage, Recoverable
<1>25. CASE PowerLoss
  BY <1>22, <1>25 DEF PowerLoss, TypeOK, Recoverable
<1>26. CASE RemoveDirectory
  <2>1. NoKeychain \in Image
    BY DEF NoKeychain, Image
  <2>2. QED
    BY <1>26, <2>1 DEF RemoveDirectory, TypeOK, Phases, Prompts, Handlers, memory,
                       CreationIsOrdered, Ordered, Recoverable, NoKeychain
<1>27. CASE UNCHANGED vars
  BY <1>27, SameStorage DEF vars, TypeOK, storage, memory
<1>28. QED
  BY <1>1, <1>2, <1>3, <1>4, <1>5, <1>6, <1>7, <1>8, <1>9, <1>10, <1>11, <1>12,
     <1>13, <1>14, <1>16, <1>17, <1>18, <1>19, <1>20, <1>21, <1>23, <1>24, <1>25,
     <1>26, <1>27
     DEF Next, Creation, Browsing, Environment

\* Every variable keeps its type, and every handler finds the credentials, the
\* directory and the cells the earlier steps of its operation left.
THEOREM TypeCorrect == Spec => [](TypeOK /\ HandlerInv /\ CreationIsOrdered)
<1>1. QED
  BY TypeInit, TypeStep, PTL DEF Spec, TypeInv

\* A keychain whose creation was cut short is a prefix of a whole one, in every
\* image a power loss can bring back (initialize_with_seed).
THEOREM CreationOrdered == Spec => []CreationIsOrdered
BY TypeCorrect, PTL

-----------------------------------------------------------------------------
(* The counter. *)

LEMMA CounterType == ASSUME NEW img \in Image PROVE Counter(img) \in 0..MaxPath
BY PathAssumption DEF Image, Counter

LEMMA EntriesType ==
    ASSUME TypeOK
    PROVE  /\ LiveEntries \in SUBSET Entry
           /\ \A img \in Recoverable : img \in Image /\ OwnEntries(img) \in SUBSET Entry
           /\ AllEntries \in SUBSET Entry
<1>1. LiveEntries \in SUBSET Entry
  BY DEF TypeOK, LiveEntries
<1>2. \A img \in Recoverable : img \in Image /\ OwnEntries(img) \in SUBSET Entry
  BY DEF TypeOK, Recoverable, OwnEntries, Image
<1>3. QED
  BY <1>1, <1>2 DEF AllEntries

LEMMA EntryPath == \A e \in Entry : e.path \in Nat /\ e.path \in 1..MaxPath
BY PathAssumption DEF Entry, Path

\* A write whose counter is not behind, and whose entries its counter covers.
LEMMA StoredByWrite ==
    ASSUME TypeOK, StoredInv, NEW img \in Image, Write(img),
           Counter(disk) <= Counter(img),
           \A e \in OwnEntries(img) : e.path <= Counter(img)
    PROVE  StoredInv'
<1>1. Recoverable' = Recoverable \cup {img} /\ disk' = img
  BY DEF Write, Recoverable
<1>2. \A i \in Recoverable : Counter(i) <= Counter(img)
  BY CounterType, EntriesType, PathAssumption DEF StoredInv, TypeOK
<1>3. Counter(img) <= Counter(img)
  BY CounterType, PathAssumption
<1>4. QED
  BY <1>1, <1>2, <1>3 DEF StoredInv, Counter, OwnEntries

LEMMA StoredSame ==
    ASSUME StoredInv, UNCHANGED storage
    PROVE  StoredInv'
BY DEF StoredInv, storage, Recoverable, Counter, OwnEntries

\* A tree saved by the main screen.
LEMMA StoredBySave ==
    ASSUME TypeOK, StoredInv, NEW t \in SUBSET Entry, Save(t),
           disk.adopted \/ \A e \in t : e.path <= Counter(disk)
    PROVE  StoredInv'
<1> DEFINE img == [disk EXCEPT !.entries = t]
<1>1. img \in Image /\ Counter(img) = Counter(disk) /\ OwnEntries(img) \subseteq t
      /\ (disk.adopted => OwnEntries(img) = {})
  BY DEF TypeOK, Image, Counter, OwnEntries
<1>2. Counter(disk) <= Counter(img)
  BY <1>1, CounterType, PathAssumption
<1>3. \A e \in OwnEntries(img) : e.path <= Counter(img)
  BY <1>1
<1>4. Write(img)
  BY DEF Save
<1>5. QED
  BY <1>1, <1>2, <1>3, <1>4, StoredByWrite

-----------------------------------------------------------------------------
(* Claims: which entries a step can create. *)

SameClaim(e, f) == e.acct = f.acct /\ e.path = f.path

\* The step creates no entry whose account and path did not exist together.
NoNewClaim == \A e \in AllEntries' : \E f \in AllEntries : SameClaim(e, f)

\* Every live entry after the step is one of those that existed before.
LiveFromBefore == LiveEntries' \subseteq AllEntries

LEMMA SubsetNoNewClaim ==
    ASSUME AllEntries' \subseteq AllEntries
    PROVE  NoNewClaim
BY DEF NoNewClaim, SameClaim

LEMMA NoNewBySame ==
    ASSUME UNCHANGED storage, LiveFromBefore
    PROVE  NoNewClaim
<1>1. AllEntries' \subseteq AllEntries
  BY DEF AllEntries, LiveFromBefore, storage, Recoverable, OwnEntries
<1>2. QED
  BY <1>1, SubsetNoNewClaim

LEMMA NoNewByWrite ==
    ASSUME NEW img \in Image, Write(img), OwnEntries(img) \subseteq AllEntries,
           LiveFromBefore
    PROVE  NoNewClaim
<1>1. Recoverable' = Recoverable \cup {img}
  BY DEF Write, Recoverable
<1>2. AllEntries' = LiveEntries' \cup UNION {OwnEntries(i) : i \in Recoverable \cup {img}}
  BY <1>1 DEF AllEntries, OwnEntries
<1>3. AllEntries' \subseteq AllEntries
  BY <1>2 DEF AllEntries, LiveFromBefore
<1>4. QED
  BY <1>3, SubsetNoNewClaim

LEMMA NoNewByForgetting ==
    ASSUME tree' = {}, clipboard' = {},
           disk' \in Recoverable, unflushed' \subseteq unflushed
    PROVE  NoNewClaim
<1>1. Recoverable' \subseteq Recoverable /\ LiveEntries' = {}
  BY DEF Recoverable, LiveEntries
<1>2. AllEntries' \subseteq AllEntries
  BY <1>1 DEF AllEntries, OwnEntries
<1>3. QED
  BY <1>2, SubsetNoNewClaim

\* The entries of the disk and of memory are among all entries.
LEMMA DiskEntries == OwnEntries(disk) \subseteq AllEntries /\ LiveEntries \subseteq AllEntries
BY DEF AllEntries, Recoverable

\* While memory and the origin of the database stay, so do the live entries.
LEMMA LiveSame ==
    ASSUME UNCHANGED <<tree, clipboard>>, disk'.adopted = disk.adopted
    PROVE  LiveFromBefore
BY DiskEntries DEF LiveFromBefore, LiveEntries

\* No step but AddEntry creates a claim: creating, importing, copying, pasting,
\* deleting, editing, closing and dying only keep or lose what there was.
LEMMA StepClaims ==
    ASSUME TypeInv, [Next]_vars,
           \A a \in Accounts, d \in Details : ~AddEntry(a, d)
    PROVE  NoNewClaim
<1> USE DEF TypeInv
<1>1. ASSUME UNCHANGED <<storage, tree, clipboard>> PROVE NoNewClaim
  BY <1>1, LiveSame, NoNewBySame DEF storage
<1>2. ASSUME UNCHANGED <<tree, clipboard>>, NEW img \in Image, Write(img),
             img.adopted = disk.adopted, OwnEntries(img) \subseteq OwnEntries(disk)
      PROVE  NoNewClaim
  <2>1. disk' = img
    BY <1>2 DEF Write
  <2>2. QED
    BY <1>2, <2>1, LiveSame, DiskEntries, NoNewByWrite
<1>3. CASE MakeDirectory
  <2>1. [disk EXCEPT !.dir = TRUE] \in Image
        /\ [disk EXCEPT !.dir = TRUE].adopted = disk.adopted
        /\ OwnEntries([disk EXCEPT !.dir = TRUE]) = OwnEntries(disk)
    BY DEF TypeOK, Image, OwnEntries
  <2>2. QED
    BY <1>1, <1>2, <1>3, <2>1 DEF MakeDirectory, memory
<1>4. CASE OpenDb
  <2>1. [disk EXCEPT !.db = TRUE] \in Image
        /\ [disk EXCEPT !.db = TRUE].adopted = disk.adopted
        /\ OwnEntries([disk EXCEPT !.db = TRUE]) = OwnEntries(disk)
    BY DEF TypeOK, Image, OwnEntries
  <2>2. QED
    BY <1>2, <1>4, <2>1 DEF OpenDb, memory
<1>5. CASE PutSeed
  <2> DEFINE img == [disk EXCEPT !.seed = [seed |-> seed, pw |-> tec]]
  <2>1. [seed |-> seed, pw |-> tec] \in EncryptedSeed
    BY <1>5 DEF PutSeed, EncryptedSeed, HandlerInv
  <2>2. img \in Image /\ img.adopted = disk.adopted /\ OwnEntries(img) = OwnEntries(disk)
    BY <2>1 DEF TypeOK, Image, OwnEntries
  <2>3. QED
    BY <1>2, <1>5, <2>2 DEF PutSeed, memory
<1>6. CASE PutLayout
  <2>1. [disk EXCEPT !.entries = {}] \in Image
        /\ [disk EXCEPT !.entries = {}].adopted = disk.adopted
        /\ OwnEntries([disk EXCEPT !.entries = {}]) = {}
    BY DEF TypeOK, Image, OwnEntries
  <2>2. QED
    BY <1>2, <1>6, <2>1 DEF PutLayout, memory
<1>7. CASE PutPath
  <2> DEFINE img == [disk EXCEPT !.dpath = 0]
  <2>1. img \in Image /\ img.adopted = disk.adopted /\ OwnEntries(img) = OwnEntries(disk)
    BY PathAssumption DEF TypeOK, Image, OwnEntries
  <2>2. Write(img) /\ disk' = img /\ tree' = {} /\ clipboard' = clipboard
    BY <1>7 DEF PutPath, HandlerInv, Write
  <2>3. LiveFromBefore
    BY <2>1, <2>2, DiskEntries DEF LiveFromBefore, LiveEntries
  <2>4. QED
    BY <2>1, <2>2, <2>3, DiskEntries, NoNewByWrite
<1>8. CASE ImportEntries
  <2> DEFINE img == [disk EXCEPT !.entries = source.entries, !.adopted = TRUE]
  <2>1. CASE UNCHANGED <<storage, tree>>
    BY <1>1, <1>8, <2>1 DEF ImportEntries
  <2>2. CASE Write(img) /\ source.entries # None
    <3>1. source \in File /\ source.entries \in SUBSET Entry
      BY <1>8, <2>2 DEF ImportEntries, HandlerInv, TypeOK, File
    <3>2. img \in Image /\ OwnEntries(img) = {} /\ img.adopted
      BY <3>1 DEF TypeOK, Image, OwnEntries
    <3>3. LiveFromBefore
      BY <2>2, <3>2 DEF Write, LiveFromBefore, LiveEntries
    <3>4. QED
      BY <2>2, <3>2, <3>3, NoNewByWrite
  <2>3. QED
    BY <1>8, <2>1, <2>2 DEF ImportEntries
<1>9. CASE OpenMain
  <2>1. tree' = disk.entries /\ UNCHANGED <<storage, clipboard>> /\ disk.entries # None
    BY <1>9 DEF OpenMain
  <2>2. LiveEntries' \subseteq OwnEntries(disk) \cup LiveEntries
    BY <2>1 DEF LiveEntries, OwnEntries, storage
  <2>3. QED
    BY <2>1, <2>2, DiskEntries, NoNewBySame DEF LiveFromBefore
<1>10. CASE TakePath
  <2> DEFINE img == [disk EXCEPT !.dpath = disk.dpath + 1]
  <2>1. disk.dpath + 1 \in 0..MaxPath
    BY <1>10, PathAssumption DEF TakePath, TypeOK, Image
  <2>2. img \in Image /\ img.adopted = disk.adopted /\ OwnEntries(img) = OwnEntries(disk)
    BY <2>1 DEF TypeOK, Image, OwnEntries
  <2>3. QED
    BY <1>2, <1>10, <2>2 DEF TakePath
<1>11. CASE Copy
  <2>1. LiveEntries' \subseteq LiveEntries /\ UNCHANGED storage
    BY <1>11 DEF Copy, LiveEntries, storage
  <2>2. QED
    BY <2>1, DiskEntries, NoNewBySame DEF LiveFromBefore
<1>12. CASE Rearrange
  <2>1. tree' \subseteq tree \cup clipboard /\ clipboard' \subseteq clipboard
    BY <1>12 DEF Rearrange, Paste, Delete
  <2>2. CASE UNCHANGED storage
    <3>1. LiveEntries' \subseteq LiveEntries
      BY <2>1, <2>2 DEF LiveEntries, storage
    <3>2. QED
      BY <2>2, <3>1, DiskEntries, NoNewBySame DEF LiveFromBefore
  <2>3. CASE Save(tree')
    <3> DEFINE img == [disk EXCEPT !.entries = tree']
    <3>1. img \in Image /\ img.adopted = disk.adopted
      BY <2>1 DEF TypeOK, Image
    <3>2. Write(img) /\ disk' = img
      BY <2>3 DEF Save, Write
    <3>3. LiveEntries' \subseteq LiveEntries
      BY <2>1, <3>1, <3>2 DEF LiveEntries
    <3>4. OwnEntries(img) \subseteq LiveEntries
      BY <2>1, <3>1 DEF OwnEntries, LiveEntries, TypeOK, Image
    <3>5. QED
      BY <3>1, <3>2, <3>3, <3>4, DiskEntries, NoNewByWrite DEF LiveFromBefore
  <2>4. QED
    BY <1>12, <2>2, <2>3 DEF Rearrange
<1>13. ASSUME NEW e \in tree, NEW d \in Details, Edit(e, d) PROVE NoNewClaim
  <2> DEFINE edited == [e EXCEPT !.details = d]
  <2>1. SameClaim(edited, e)
    BY DEF TypeOK, Entry, SameClaim
  <2>2. UNCHANGED storage /\ tree' \subseteq tree \cup {edited}
        /\ clipboard' \subseteq clipboard \cup {edited}
    BY <1>13 DEF Edit
  <2>3. \A x \in LiveEntries' : \E f \in LiveEntries : SameClaim(x, f)
    <3> HIDE DEF edited
    <3>1. QED
      BY <2>1, <2>2 DEF LiveEntries, storage, SameClaim
  <2>4. QED
    BY <2>2, <2>3, DiskEntries
       DEF NoNewClaim, AllEntries, SameClaim, storage, Recoverable, OwnEntries
<1>14. CASE CloseMain
  BY <1>14, NoNewByForgetting DEF CloseMain, storage, Recoverable
<1>15. CASE Flush
  <2>1. disk' = disk /\ UNCHANGED <<tree, clipboard>> /\ unflushed' = {}
    BY <1>15 DEF Flush, memory
  <2>2. AllEntries' \subseteq AllEntries
    BY <2>1 DEF AllEntries, LiveEntries, Recoverable, OwnEntries
  <2>3. QED
    BY <2>2, SubsetNoNewClaim
<1>16. CASE Quit
  BY <1>16, NoNewByForgetting DEF Quit, Forget, storage, Recoverable
<1>17. CASE Crash
  BY <1>17, NoNewByForgetting DEF Crash, Forget, storage, Recoverable
<1>18. CASE PowerLoss
  BY <1>18, NoNewByForgetting DEF PowerLoss, Forget, Recoverable
<1>19. CASE RemoveDirectory
  <2>1. Recoverable' = {NoKeychain} /\ OwnEntries(NoKeychain) = {}
    BY <1>19 DEF RemoveDirectory, Recoverable, OwnEntries, NoKeychain
  <2>2. LiveEntries' = {}
    BY <1>19 DEF RemoveDirectory, LiveEntries, memory, HandlerInv
  <2>3. QED
    BY <2>1, <2>2, SubsetNoNewClaim DEF AllEntries
<1>20. CASE Start \/ StepFails \/ Retry \/ Export \/ UNCHANGED vars
  BY <1>1, <1>20 DEF Start, StepFails, Retry, Export, vars, storage, memory
<1>21. ASSUME NEW s \in Seeds, NEW w \in Passwords, NEW f \in files \cup {None},
              EnterCredentials(s, w, f)
       PROVE  NoNewClaim
  BY <1>1, <1>21 DEF EnterCredentials
<1>22. ASSUME NEW w \in Passwords, Open(w) PROVE NoNewClaim
  BY <1>1, <1>22 DEF Open
<1>23. QED
  BY <1>3, <1>4, <1>5, <1>6, <1>7, <1>8, <1>9, <1>10, <1>11, <1>12, <1>13, <1>14,
     <1>15, <1>16, <1>17, <1>18, <1>19, <1>20, <1>21, <1>22
     DEF Next, Creation, Browsing, Environment

-----------------------------------------------------------------------------
(* The counter stays ahead. *)

LEMMA AllCovered ==
    ASSUME TypeOK, StoredInv, LiveInv
    PROVE  \A e \in AllEntries : e.path <= Counter(disk)
<1> SUFFICES ASSUME NEW e \in AllEntries PROVE e.path <= Counter(disk)
  OBVIOUS
<1>1. CASE e \in LiveEntries
  BY <1>1 DEF LiveInv
<1>2. CASE \E img \in Recoverable : e \in OwnEntries(img)
  <2>1. PICK img \in Recoverable : e \in OwnEntries(img)
    BY <1>2
  <2>2. e.path <= Counter(img) /\ Counter(img) <= Counter(disk)
    BY <2>1 DEF StoredInv
  <2>3. e.path \in Nat /\ Counter(img) \in Nat /\ Counter(disk) \in Nat
    BY <2>1, EntriesType, EntryPath, CounterType, PathAssumption DEF TypeOK
  <2>4. QED
    BY <2>2, <2>3
<1>3. e \in LiveEntries \/ \E img \in Recoverable : e \in OwnEntries(img)
  <2> HIDE DEF LiveEntries, OwnEntries, Recoverable
  <2>1. QED
    BY Zenon DEF AllEntries
<1>4. QED
  BY <1>1, <1>2, <1>3

\* What get_next_derivation_path returned is the counter on disk.
LEMMA GrantedIsCounter ==
    ASSUME TypeOK, HandlerInv, GrantInv, phase = "addEntry"
    PROVE  Counter(disk) = granted /\ granted \in Nat /\ granted \in Path
<1>1. granted \in Path /\ disk.dpath = granted
  BY DEF HandlerInv, GrantInv
<1>2. QED
  BY <1>1, PathAssumption, NoneAssumption DEF Counter, Path

Inv == TypeInv /\ CounterInv

LEMMA StoredStep == Inv /\ [Next]_vars => StoredInv'
<1> SUFFICES ASSUME Inv, [Next]_vars PROVE StoredInv'
  OBVIOUS
<1> USE DEF Inv, TypeInv, CounterInv
<1>1. ASSUME NEW img \in Image, Write(img),
             Counter(img) = Counter(disk), OwnEntries(img) \subseteq OwnEntries(disk)
      PROVE  StoredInv'
  <2>1. Counter(disk) \in Nat
    BY CounterType, PathAssumption DEF TypeOK
  <2>2. \A e \in OwnEntries(disk) : e.path <= Counter(disk)
    BY DEF StoredInv, Recoverable
  <2>3. QED
    BY <1>1, <2>1, <2>2, StoredByWrite
<1>2. ASSUME Recoverable' \subseteq Recoverable, unflushed' = {} PROVE StoredInv'
  <2>1. Recoverable' = {disk'} /\ disk' \in Recoverable
    BY <1>2 DEF Recoverable
  <2>2. Counter(disk') \in Nat
    BY <2>1, EntriesType, CounterType, PathAssumption
  <2>3. \A e \in OwnEntries(disk') : e.path <= Counter(disk')
    BY <2>1 DEF StoredInv
  <2>4. QED
    BY <2>1, <2>2, <2>3 DEF StoredInv, Counter, OwnEntries
<1>3. CASE MakeDirectory
  <2> DEFINE img == [disk EXCEPT !.dir = TRUE]
  <2>1. img \in Image /\ Counter(img) = Counter(disk) /\ OwnEntries(img) = OwnEntries(disk)
    BY DEF TypeOK, Image, OwnEntries, Counter
  <2>2. QED
    BY <1>1, <1>3, <2>1, StoredSame DEF MakeDirectory
<1>4. CASE OpenDb
  <2> DEFINE img == [disk EXCEPT !.db = TRUE]
  <2>1. img \in Image /\ Counter(img) = Counter(disk) /\ OwnEntries(img) = OwnEntries(disk)
    BY DEF TypeOK, Image, OwnEntries, Counter
  <2>2. QED
    BY <1>1, <1>4, <2>1 DEF OpenDb
<1>5. CASE PutSeed
  <2> DEFINE img == [disk EXCEPT !.seed = [seed |-> seed, pw |-> tec]]
  <2>1. [seed |-> seed, pw |-> tec] \in EncryptedSeed
    BY <1>5 DEF PutSeed, EncryptedSeed, HandlerInv
  <2>2. img \in Image /\ Counter(img) = Counter(disk) /\ OwnEntries(img) = OwnEntries(disk)
    BY <2>1 DEF TypeOK, Image, OwnEntries, Counter
  <2>3. QED
    BY <1>1, <1>5, <2>2 DEF PutSeed
<1>6. CASE PutLayout
  <2> DEFINE img == [disk EXCEPT !.entries = {}]
  <2>1. img \in Image /\ Counter(img) = Counter(disk) /\ OwnEntries(img) = {}
    BY DEF TypeOK, Image, OwnEntries, Counter
  <2>2. QED
    BY <1>1, <1>6, <2>1 DEF PutLayout
<1>7. CASE PutPath
  <2> DEFINE img == [disk EXCEPT !.dpath = 0]
  <2>1. disk.dpath = None
    BY <1>7 DEF PutPath, HandlerInv
  <2>2. img \in Image /\ Counter(img) = Counter(disk) /\ OwnEntries(img) = OwnEntries(disk)
    BY <2>1, PathAssumption DEF TypeOK, Image, OwnEntries, Counter
  <2>3. QED
    BY <1>1, <1>7, <2>2 DEF PutPath
<1>8. CASE ImportEntries
  <2> DEFINE img == [disk EXCEPT !.entries = source.entries, !.adopted = TRUE]
  <2>1. CASE UNCHANGED storage
    BY <2>1, StoredSame
  <2>2. CASE Write(img) /\ source.entries # None
    <3>1. source \in File /\ source.entries \in SUBSET Entry
      BY <1>8, <2>2 DEF ImportEntries, HandlerInv, TypeOK, File
    <3>2. img \in Image /\ OwnEntries(img) = {} /\ Counter(img) = Counter(disk)
      BY <3>1 DEF TypeOK, Image, OwnEntries, Counter
    <3>3. QED
      BY <1>1, <2>2, <3>2
  <2>3. QED
    BY <1>8, <2>1, <2>2 DEF ImportEntries
<1>9. CASE TakePath
  <2> DEFINE img == [disk EXCEPT !.dpath = disk.dpath + 1]
  <2>1. disk.dpath \in 0..MaxPath /\ disk.dpath + 1 \in 0..MaxPath
    BY <1>9, PathAssumption DEF TakePath, TypeOK, Image
  <2>2. img \in Image /\ OwnEntries(img) = OwnEntries(disk)
    BY <2>1 DEF TypeOK, Image, OwnEntries
  <2>3. Counter(disk) = disk.dpath /\ Counter(img) = disk.dpath + 1
    BY <1>9, <2>1, NoneAssumption DEF Counter, TakePath, TypeOK, Image
  <2>4. \A e \in OwnEntries(disk) : e.path <= Counter(disk) /\ e.path \in Nat
    BY EntriesType, EntryPath DEF StoredInv, Recoverable
  <2>5. Counter(disk) <= Counter(img) /\ \A e \in OwnEntries(img) : e.path <= Counter(img)
    BY <2>1, <2>2, <2>3, <2>4, PathAssumption
  <2>6. QED
    BY <1>9, <2>2, <2>5, StoredByWrite DEF TakePath
<1>10. ASSUME NEW a \in Accounts, NEW d \in Details, AddEntry(a, d) PROVE StoredInv'
  <2> DEFINE e == [acct |-> a, path |-> granted, details |-> d]
  <2>1. phase = "addEntry" /\ tree' \subseteq tree \cup {e} /\ (Save(tree') \/ UNCHANGED storage)
    BY <1>10 DEF AddEntry
  <2>2. Counter(disk) = granted /\ granted \in Nat /\ granted \in Path
    BY <2>1, GrantedIsCounter
  <2>3. e \in Entry /\ e.path <= Counter(disk)
    BY <2>2 DEF Entry
  <2>4. tree' \in SUBSET Entry /\ (disk.adopted \/ \A x \in tree' : x.path <= Counter(disk))
    BY <2>1, <2>3 DEF LiveInv, LiveEntries, TypeOK
  <2>5. QED
    BY <2>1, <2>4, StoredBySave, StoredSame
<1>11. CASE Rearrange
  <2>1. tree' \subseteq tree \cup clipboard /\ (Save(tree') \/ UNCHANGED storage)
    BY <1>11 DEF Rearrange, Paste, Delete
  <2>2. tree' \in SUBSET Entry /\ (disk.adopted \/ \A x \in tree' : x.path <= Counter(disk))
    BY <2>1 DEF LiveInv, LiveEntries, TypeOK
  <2>3. QED
    BY <2>1, <2>2, StoredBySave, StoredSame
<1>12. CASE Flush
  BY <1>2, <1>12 DEF Flush, Recoverable
<1>13. CASE PowerLoss
  BY <1>2, <1>13 DEF PowerLoss, Recoverable
<1>14. CASE RemoveDirectory
  <2>1. Recoverable' = {NoKeychain} /\ disk' = NoKeychain
    BY <1>14 DEF RemoveDirectory, Recoverable
  <2>2. Counter(NoKeychain) = 0 /\ OwnEntries(NoKeychain) = {}
    BY DEF NoKeychain, Counter, OwnEntries
  <2>3. QED
    BY <2>1, <2>2 DEF StoredInv
<1>15. CASE UNCHANGED storage
  BY <1>15, StoredSame
<1>16. QED
  BY <1>3, <1>4, <1>5, <1>6, <1>7, <1>8, <1>9, <1>10, <1>11, <1>12, <1>13, <1>14, <1>15
     DEF Next, Creation, Browsing, Environment, Start, EnterCredentials, StepFails, Retry,
         Open, OpenMain, Export, Copy, Edit, CloseMain, Quit, Crash, vars, storage

\* A step that creates no claim keeps every path at or below any bound.
LEMMA NoNewBound ==
    ASSUME NoNewClaim, NEW n, \A f \in AllEntries : f.path <= n
    PROVE  \A e \in AllEntries' : e.path <= n
BY DEF NoNewClaim, SameClaim

\* The counter on disk goes down only when the machine restarts or the
\* directory is removed; the process is then not running.
LEMMA CounterGrows ==
    Inv /\ [Next]_vars => \/ LiveEntries' = {} /\ phase' = "off"
                          \/ Counter(disk) <= Counter(disk')
<1> SUFFICES ASSUME Inv, [Next]_vars, ~(LiveEntries' = {} /\ phase' = "off")
             PROVE  Counter(disk) <= Counter(disk')
  OBVIOUS
<1> USE DEF Inv, TypeInv, CounterInv
<1>1. Counter(disk) \in Nat
  BY CounterType, PathAssumption DEF TypeOK
<1>2. ASSUME disk'.dpath = disk.dpath PROVE Counter(disk) <= Counter(disk')
  BY <1>1, <1>2 DEF Counter
<1>3. CASE MakeDirectory
  BY <1>2, <1>3 DEF MakeDirectory, Write, storage, TypeOK, Image
<1>4. CASE OpenDb
  BY <1>2, <1>4 DEF OpenDb, Write, TypeOK, Image
<1>5. CASE PutSeed
  BY <1>2, <1>5 DEF PutSeed, Write, TypeOK, Image
<1>6. CASE PutLayout
  BY <1>2, <1>6 DEF PutLayout, Write, TypeOK, Image
<1>7. CASE PutPath
  <2>1. disk.dpath = None /\ disk'.dpath = 0
    BY <1>7 DEF PutPath, HandlerInv, Write, TypeOK, Image
  <2>2. QED
    BY <2>1 DEF Counter
<1>8. CASE ImportEntries
  BY <1>2, <1>8 DEF ImportEntries, Write, storage, TypeOK, Image
<1>9. CASE TakePath
  <2>1. disk.dpath \in 0..MaxPath /\ disk'.dpath = disk.dpath + 1 /\ disk.dpath < MaxPath
    BY <1>9 DEF TakePath, Write, TypeOK, Image
  <2>2. Counter(disk) = disk.dpath /\ Counter(disk') = disk.dpath + 1
    BY <2>1, NoneAssumption, PathAssumption DEF Counter
  <2>3. QED
    BY <2>1, <2>2, PathAssumption
<1>10. ASSUME NEW a \in Accounts, NEW d \in Details, AddEntry(a, d)
       PROVE  Counter(disk) <= Counter(disk')
  BY <1>2, <1>10 DEF AddEntry, Save, Write, storage, TypeOK, Image
<1>11. CASE Rearrange
  BY <1>2, <1>11 DEF Rearrange, Save, Write, storage, TypeOK, Image
<1>12. CASE PowerLoss
  BY <1>12 DEF PowerLoss, Forget, LiveEntries
<1>13. CASE RemoveDirectory
  BY <1>13 DEF RemoveDirectory, HandlerInv, LiveEntries, memory
<1>14. CASE disk' = disk
  BY <1>2, <1>14
<1>15. QED
  BY <1>3, <1>4, <1>5, <1>6, <1>7, <1>8, <1>9, <1>10, <1>11, <1>12, <1>13, <1>14
     DEF Next, Creation, Browsing, Environment, Start, EnterCredentials, StepFails, Retry,
         Open, OpenMain, Export, Copy, Edit, CloseMain, Quit, Crash, Flush, vars, storage

LEMMA LiveStep == Inv /\ [Next]_vars => LiveInv'
<1> SUFFICES ASSUME Inv, [Next]_vars PROVE LiveInv'
  OBVIOUS
<1> USE DEF Inv, TypeInv, CounterInv
<1>1. CASE LiveEntries' = {}
  BY <1>1 DEF LiveInv
<1>2. ASSUME NEW a \in Accounts, NEW d \in Details, AddEntry(a, d) PROVE LiveInv'
  <2> DEFINE e == [acct |-> a, path |-> granted, details |-> d]
  <2>1. phase = "addEntry" /\ tree' \subseteq tree \cup {e} /\ clipboard' \subseteq clipboard \cup {e}
    BY <1>2 DEF AddEntry
  <2>2. disk'.adopted = disk.adopted /\ Counter(disk') = Counter(disk)
    BY <1>2 DEF AddEntry, Save, Write, storage, TypeOK, Image, Counter
  <2>3. Counter(disk) = granted /\ granted \in Nat
    BY <2>1, GrantedIsCounter
  <2>4. LiveEntries' \subseteq LiveEntries \cup {e}
    BY <2>1, <2>2 DEF LiveEntries
  <2>5. e.path <= Counter(disk)
    BY <2>3
  <2>6. \A x \in LiveEntries' : x.path <= Counter(disk)
    BY <2>4, <2>5 DEF LiveInv
  <2>7. QED
    BY <2>2, <2>6 DEF LiveInv
<1>3. CASE /\ LiveEntries' # {}
           /\ \A a \in Accounts, d \in Details : ~AddEntry(a, d)
  <2>1. Counter(disk) <= Counter(disk')
    BY <1>3, CounterGrows
  <2>2. \A e \in AllEntries' : e.path <= Counter(disk)
    BY <1>3, StepClaims, AllCovered, NoNewBound
  <2>3. TypeInv'
    BY TypeStep
  <2>4. Counter(disk) \in Nat /\ Counter(disk') \in Nat
    BY <2>3, CounterType, PathAssumption DEF TypeOK
  <2>5. LiveEntries' \in SUBSET Entry /\ LiveEntries' \subseteq AllEntries'
    BY <2>3 DEF TypeOK, LiveEntries, AllEntries
  <2>6. \A e \in LiveEntries' : e.path <= Counter(disk')
    BY <2>1, <2>2, <2>4, <2>5, EntryPath
  <2>7. QED
    BY <2>6 DEF LiveInv, Counter
<1>4. QED
  BY <1>1, <1>2, <1>3

LEMMA GrantStep == Inv /\ [Next]_vars => GrantInv'
<1> SUFFICES ASSUME Inv, [Next]_vars, phase' = "addEntry" PROVE GrantInv'
  BY DEF GrantInv
<1> USE DEF Inv, TypeInv, CounterInv
<1>1. TypeInv'
  BY TypeStep
<1>2. AllEntries' \in SUBSET Entry
  <2>1. LiveEntries' \in SUBSET Entry
    BY <1>1 DEF TypeOK, LiveEntries
  <2>2. \A img \in Recoverable' : OwnEntries(img) \in SUBSET Entry
    BY <1>1 DEF TypeOK, Recoverable, OwnEntries, Image
  <2>3. QED
    BY <2>1, <2>2 DEF AllEntries, OwnEntries
<1>3. CASE TakePath
  <2>1. NoNewClaim
    BY <1>3, StepClaims DEF TakePath, AddEntry
  <2>2. disk'.dpath = granted' /\ granted' = Counter(disk) + 1 /\ Counter(disk) \in Nat
    BY <1>3, PathAssumption DEF TakePath, Write, Counter, TypeOK, Image
  <2>3. \A e \in AllEntries' : e.path <= Counter(disk)
    BY <2>1, AllCovered, NoNewBound
  <2>4. \A e \in AllEntries' : e.path < granted'
    BY <1>2, <2>2, <2>3, EntryPath
  <2>5. QED
    BY <2>2, <2>4 DEF GrantInv
<1>4. CASE UNCHANGED <<disk, phase, granted>> /\ NoNewClaim
  <2>1. phase = "addEntry" /\ disk'.dpath = granted'
    BY <1>4 DEF GrantInv
  <2>2. \A e \in AllEntries' : e.path < granted
    BY <1>4, <2>1 DEF GrantInv, NoNewClaim, SameClaim
  <2>3. QED
    BY <1>4, <2>1, <2>2 DEF GrantInv
<1>5. CASE Flush \/ UNCHANGED vars
  BY <1>4, <1>5, StepClaims DEF Flush, memory, vars, storage, AddEntry
<1>6. QED
  BY <1>3, <1>5
     DEF Next, Creation, Browsing, Environment, Start, EnterCredentials, StepFails, Retry,
         MakeDirectory, OpenDb, PutSeed, PutLayout, PutPath, ImportEntries, AddEntry,
         Rearrange, PowerLoss, RemoveDirectory,
         Open, OpenMain, Export, Copy, Edit, CloseMain, Quit, Crash

\* What AddEntry can add is one claim, on a path nobody holds.
LEMMA AddEntryClaims ==
    ASSUME Inv, NEW a \in Accounts, NEW d \in Details, AddEntry(a, d)
    PROVE  /\ granted \in Path
           /\ \A f \in AllEntries : f.path # granted
           /\ \A x \in AllEntries' :
                 \/ x.acct = a /\ x.path = granted
                 \/ x \in AllEntries
<1> USE DEF Inv, TypeInv, CounterInv
<1> DEFINE e == [acct |-> a, path |-> granted, details |-> d]
<1>1. phase = "addEntry" /\ tree' \subseteq tree \cup {e} /\ clipboard' \subseteq clipboard \cup {e}
      /\ (Save(tree') \/ UNCHANGED storage)
  BY DEF AddEntry
<1>2. granted \in Path /\ granted \in Nat
  BY <1>1, GrantedIsCounter
<1>3. \A f \in AllEntries : f.path # granted
  <2>1. \A f \in AllEntries : f.path < granted /\ f.path \in Nat
    BY <1>1, EntriesType, EntryPath DEF GrantInv
  <2>2. QED
    BY <1>2, <2>1
<1>4. disk'.adopted = disk.adopted
  BY <1>1 DEF Save, Write, storage, TypeOK, Image
<1>5. LiveEntries' \subseteq LiveEntries \cup {e}
  BY <1>1, <1>4 DEF LiveEntries
<1>6. \A img \in Recoverable' : OwnEntries(img) \subseteq LiveEntries \cup {e} \/ img \in Recoverable
  <2>1. CASE Save(tree')
    <3>1. Recoverable' = Recoverable \cup {disk'} /\ disk'.entries = tree'
      BY <2>1 DEF Save, Write, Recoverable, TypeOK, Image
    <3>2. OwnEntries(disk') \subseteq LiveEntries \cup {e}
      BY <1>1, <1>4, <3>1 DEF OwnEntries, LiveEntries
    <3>3. QED
      BY <3>1, <3>2
  <2>2. CASE UNCHANGED storage
    BY <2>2 DEF storage, Recoverable
  <2>3. QED
    BY <1>1, <2>1, <2>2
<1>7. AllEntries' \subseteq AllEntries \cup {e}
  <2> SUFFICES ASSUME NEW x \in AllEntries' PROVE x \in AllEntries \cup {e}
    OBVIOUS
  <2>1. LiveEntries \subseteq AllEntries
    BY DEF AllEntries
  <2>2. CASE x \in LiveEntries'
    BY <1>5, <2>1, <2>2
  <2>3. CASE \E img \in Recoverable' : x \in OwnEntries(img)
    <3>1. PICK img \in Recoverable' : x \in OwnEntries(img)
      BY <2>3
    <3>2. CASE img \in Recoverable
      BY <3>1, <3>2, Zenon DEF AllEntries
    <3>3. CASE OwnEntries(img) \subseteq LiveEntries \cup {e}
      BY <2>1, <3>1, <3>3
    <3>4. QED
      BY <1>6, <3>2, <3>3
  <2>4. x \in LiveEntries' \/ \E img \in Recoverable' : x \in OwnEntries(img)
    BY Zenon DEF AllEntries, OwnEntries
  <2>5. QED
    BY <2>2, <2>3, <2>4
<1>8. QED
  BY <1>2, <1>3, <1>7

LEMMA HolderStep == Inv /\ OneHolder /\ [Next]_vars => OneHolder'
<1> SUFFICES ASSUME Inv, OneHolder, [Next]_vars PROVE OneHolder'
  OBVIOUS
<1>1. ASSUME NEW a \in Accounts, NEW d \in Details, AddEntry(a, d) PROVE OneHolder'
  <2>1. /\ \A f \in AllEntries : f.path # granted
        /\ \A x \in AllEntries' : (x.acct = a /\ x.path = granted) \/ x \in AllEntries
    BY <1>1, AddEntryClaims
  <2>2. QED
    BY <2>1 DEF OneHolder
<1>2. CASE \A a \in Accounts, d \in Details : ~AddEntry(a, d)
  <2>1. NoNewClaim
    BY <1>2, StepClaims DEF Inv
  <2>2. QED
    BY <2>1 DEF OneHolder, NoNewClaim, SameClaim
<1>3. QED
  BY <1>1, <1>2

LEMMA InvInit == Init => Inv /\ OneHolder
<1> SUFFICES ASSUME Init PROVE Inv /\ OneHolder
  OBVIOUS
<1>1. Recoverable = {NoKeychain} /\ Counter(NoKeychain) = 0 /\ OwnEntries(NoKeychain) = {}
  BY DEF Init, Recoverable, Counter, OwnEntries, NoKeychain
<1>2. LiveEntries = {} /\ AllEntries = {}
  BY <1>1 DEF Init, LiveEntries, AllEntries
<1>3. QED
  BY <1>1, <1>2, TypeInit DEF Init, Inv, CounterInv, StoredInv, LiveInv, GrantInv, OneHolder

LEMMA InvStep == Inv /\ [Next]_vars => Inv'
BY TypeStep, StoredStep, LiveStep, GrantStep DEF Inv, CounterInv

\* The conjunction of everything above is an invariant of the program.
THEOREM Inductive == Spec => []IndInv
<1>1. Init => Inv /\ OneHolder
  BY InvInit
<1>2. (Inv /\ OneHolder) /\ [Next]_vars => (Inv /\ OneHolder)'
  BY InvStep, HolderStep
<1>3. Inv /\ OneHolder => IndInv
  BY DEF Inv, TypeInv, IndInv
<1>4. QED
  BY <1>1, <1>2, <1>3, PTL DEF Spec

\* Whatever image of the database comes back, its counter covers its entries.
THEOREM CountersCover == Spec => []CounterCoversEntries
<1>1. IndInv => CounterCoversEntries
  <2> SUFFICES ASSUME IndInv, NEW img \in Recoverable, NEW e \in OwnEntries(img)
               PROVE  img.dpath # None /\ e.path <= img.dpath
    BY DEF CounterCoversEntries
  <2>1. e.path <= Counter(img) /\ e.path \in 1..MaxPath
    BY EntriesType, EntryPath DEF IndInv, CounterInv, StoredInv
  <2>2. QED
    BY <2>1, PathAssumption DEF Counter
<1>2. QED
  BY <1>1, Inductive, PTL

\* A path get_next_derivation_path hands out is on no entry, in memory or in
\* any image that could come back.
THEOREM GrantsAreFresh == Spec => []GrantIsFresh
<1>1. IndInv => GrantIsFresh
  <2> SUFFICES ASSUME IndInv, phase = "addEntry", NEW e \in AllEntries
               PROVE  e.path # granted
    BY DEF GrantIsFresh
  <2>1. e.path < granted /\ e.path \in Nat /\ granted \in Nat
    BY EntriesType, EntryPath, PathAssumption
       DEF IndInv, CounterInv, GrantInv, HandlerInv, Path
  <2>2. QED
    BY <2>1
<1>2. QED
  BY <1>1, Inductive, PTL

\* No two accounts created on this device ever have the same password.
THEOREM SecretsDistinct == Spec => []DistinctSecrets
<1>1. IndInv => DistinctSecrets
  <2> SUFFICES ASSUME IndInv, NEW e \in AllEntries, NEW f \in AllEntries,
                      DerivationData(e.path) = DerivationData(f.path)
               PROVE  e.acct = f.acct
    BY DEF DistinctSecrets
  <2>1. e.path \in 0..MaxPath /\ f.path \in 0..MaxPath
    BY EntriesType, EntryPath, PathAssumption DEF IndInv
  <2>2. e.path = f.path
    BY <2>1, DerivationDataInjective
  <2>3. QED
    BY <2>2 DEF IndInv, OneHolder
<1>2. QED
  BY <1>1, Inductive, PTL

-----------------------------------------------------------------------------
(* Refinement. *)

LEMMA ClaimsType == ASSUME TypeOK PROVE Claims(AllEntries) \in SUBSET (Accounts \X Path)
<1>1. \A e \in AllEntries : e.acct \in Accounts /\ e.path \in Path
  BY EntriesType DEF Entry
<1>2. QED
  BY <1>1 DEF Claims

\* Every step of Keychain is a Claim, a Forget or a stuttering step of
\* PathRegistry.
LEMMA RegistryStep == Inv /\ [Next]_vars => [Registry!Next]_(Claims(AllEntries))
<1> SUFFICES ASSUME Inv, [Next]_vars PROVE Registry!Next
  OBVIOUS
<1>1. ASSUME NoNewClaim PROVE Registry!Next
  <2>1. Claims(AllEntries)' \subseteq Claims(AllEntries)
    <3> SUFFICES ASSUME NEW c \in Claims(AllEntries)' PROVE c \in Claims(AllEntries)
      OBVIOUS
    <3>1. PICK e \in AllEntries' : c = <<e.acct, e.path>>
      BY DEF Claims
    <3>2. PICK f \in AllEntries : e.acct = f.acct /\ e.path = f.path
      BY <1>1 DEF NoNewClaim, SameClaim
    <3>3. QED
      BY <3>1, <3>2 DEF Claims
  <2>2. Registry!Forget
    BY <2>1 DEF Registry!Forget
  <2>3. QED
    BY <2>2 DEF Registry!Next
<1>2. ASSUME NEW a \in Accounts, NEW d \in Details, AddEntry(a, d) PROVE Registry!Next
  <2> DEFINE new == <<a, granted>>
             old == Claims(AllEntries)
  <2>1. /\ granted \in Path
        /\ \A f \in AllEntries : f.path # granted
        /\ \A x \in AllEntries' : (x.acct = a /\ x.path = granted) \/ x \in AllEntries
    BY <1>2, AddEntryClaims
  <2>2. old' \subseteq old \cup {new}
    <3> SUFFICES ASSUME NEW c \in old' PROVE c \in old \cup {new}
      OBVIOUS
    <3>1. PICK e \in AllEntries' : c = <<e.acct, e.path>>
      BY DEF Claims
    <3>2. QED
      BY <2>1, <3>1 DEF Claims
  <2>3. CASE new \in old'
    <3>1. old' = (old' \ {new}) \cup {new} /\ (old' \ {new}) \in SUBSET old
      BY <2>2, <2>3
    <3>2. Registry!Unused(granted)
      BY <2>1 DEF Registry!Unused, Claims
    <3>3. Registry!Claim(a, granted)
      BY <3>1, <3>2 DEF Registry!Claim
    <3>4. QED
      BY <2>1, <3>3 DEF Registry!Next
  <2>4. CASE new \notin old'
    <3>1. old' \in SUBSET old
      BY <2>2, <2>4
    <3>2. QED
      BY <3>1 DEF Registry!Next, Registry!Forget
  <2>5. QED
    BY <2>3, <2>4
<1>3. CASE \A a \in Accounts, d \in Details : ~AddEntry(a, d)
  BY <1>1, <1>3, StepClaims DEF Inv
<1>4. QED
  BY <1>2, <1>3

LEMMA RegistryInit == Init => Registry!Init
<1> SUFFICES ASSUME Init PROVE Registry!Init
  OBVIOUS
<1>1. AllEntries = {}
  BY DEF Init, AllEntries, LiveEntries, Recoverable, OwnEntries, NoKeychain
<1>2. QED
  BY <1>1 DEF Registry!Init, Claims

\* Keychain implements PathRegistry: a path is claimed only while nobody holds
\* it, across crashes, power losses and removals of the directory.
THEOREM Refinement == Spec => ImplementsRegistry
<1>1. Init => Inv /\ Registry!Init
  BY InvInit, RegistryInit
<1>2. Inv /\ [Next]_vars => Inv' /\ [Registry!Next]_(Claims(AllEntries))
  BY InvStep, RegistryStep
<1>3. QED
  BY <1>1, <1>2, PTL DEF Spec, ImplementsRegistry, Registry!Spec

-----------------------------------------------------------------------------
(* What is shown is what is stored. *)

StoredTree ==
    phase \in {"browsing", "addEntry"} => Claims(tree) = Claims(disk.entries)

\* An edit keeps accounts and paths.
LEMMA EditKeepsClaims ==
    ASSUME TypeOK, NEW e \in tree, NEW d \in Details, Edit(e, d)
    PROVE  Claims(tree') = Claims(tree)
<1> DEFINE edited == [e EXCEPT !.details = d]
<1>1. e \in Entry
  BY DEF TypeOK
<1>2. edited.acct = e.acct /\ edited.path = e.path
  BY <1>1 DEF Entry
<1>3. tree' \in {tree \cup {edited}, (tree \ {e}) \cup {edited}}
  BY DEF Edit
<1>4. \A f \in tree' : \E g \in tree : f.acct = g.acct /\ f.path = g.path
  BY <1>2, <1>3
<1>5. \A g \in tree : \E f \in tree' : f.acct = g.acct /\ f.path = g.path
  BY <1>2, <1>3
<1>6. QED
  BY <1>4, <1>5 DEF Claims

\* Only Save and the reading of the tree make a session's tree or storage differ
\* from what they were.
LEMMA StoredTreeStep ==
    ASSUME "io" \notin Faults
    PROVE  TypeOK /\ StoredTree /\ [Next]_vars => StoredTree'
<1> SUFFICES ASSUME TypeOK, StoredTree, [Next]_vars PROVE StoredTree'
  OBVIOUS
<1>1. disk \in Image
  BY DEF TypeOK
<1>2. CASE UNCHANGED vars
  BY <1>2 DEF StoredTree, vars, storage, memory, Claims
<1>3. CASE Start \/ OpenMain \/ Export
  BY <1>3 DEF Start, OpenMain, Export, StoredTree, storage, memory, Claims
<1>4. ASSUME NEW w \in Passwords, Open(w) PROVE StoredTree'
  BY <1>4 DEF Open, StoredTree
<1>5. CASE Creation
  <2>1. ASSUME NEW s \in Seeds, NEW w \in Passwords, NEW f \in files \cup {None},
               EnterCredentials(s, w, f)
        PROVE  StoredTree'
    BY <2>1 DEF EnterCredentials, StoredTree
  <2>2. CASE MakeDirectory \/ OpenDb \/ PutSeed \/ PutLayout \/ StepFails \/ Retry
    BY <2>2 DEF MakeDirectory, OpenDb, PutSeed, PutLayout, StepFails, Retry, StoredTree
  <2>3. CASE PutPath
    <3>1. tree' = disk.entries /\ disk' = [disk EXCEPT !.dpath = 0]
      BY <2>3 DEF PutPath, Write
    <3>2. disk'.entries = disk.entries
      BY <1>1, <3>1 DEF Image
    <3>3. QED
      BY <3>1, <3>2 DEF StoredTree, Claims
  <2>4. CASE ImportEntries
    <3>1. CASE phase' = "failed"
      BY <3>1 DEF StoredTree
    <3>2. CASE phase' # "failed"
      <4>1. /\ tree' = source.entries
            /\ disk' = [disk EXCEPT !.entries = source.entries, !.adopted = TRUE]
        BY <2>4, <3>2 DEF ImportEntries, Write
      <4>2. disk'.entries = source.entries
        BY <1>1, <4>1 DEF Image
      <4>3. QED
        BY <4>1, <4>2 DEF StoredTree, Claims
    <3>3. QED
      BY <3>1, <3>2
  <2>5. QED
    BY <1>5, <2>1, <2>2, <2>3, <2>4 DEF Creation
<1>6. CASE Browsing
  <2>1. CASE TakePath
    <3>1. tree' = tree /\ disk' = [disk EXCEPT !.dpath = disk.dpath + 1] /\ phase = "browsing"
      BY <2>1 DEF TakePath, Write
    <3>2. disk'.entries = disk.entries
      BY <1>1, <3>1 DEF Image
    <3>3. QED
      BY <3>1, <3>2 DEF StoredTree, Claims
  <2>2. ASSUME Save(tree') PROVE StoredTree'
    <3>1. disk' = [disk EXCEPT !.entries = tree']
      BY <2>2 DEF Save, Write
    <3>2. disk'.entries = tree'
      BY <1>1, <3>1 DEF Image
    <3>3. QED
      BY <3>2 DEF StoredTree, Claims
  <2>3. ASSUME NEW a \in Accounts, NEW d \in Details, AddEntry(a, d) PROVE StoredTree'
    BY <2>2, <2>3 DEF AddEntry
  <2>4. CASE Rearrange
    BY <2>2, <2>4 DEF Rearrange
  <2>5. CASE Copy \/ CloseMain
    BY <2>5 DEF Copy, CloseMain, StoredTree, storage, Claims
  <2>6. ASSUME NEW e \in tree, NEW d \in Details, Edit(e, d) PROVE StoredTree'
    <3>1. Claims(tree') = Claims(tree)
      BY <2>6, EditKeepsClaims
    <3>2. phase = "browsing" /\ disk' = disk
      BY <2>6 DEF Edit, storage
    <3>3. Claims(disk'.entries) = Claims(disk.entries)
      BY <3>2
    <3>4. QED
      BY <3>1, <3>2, <3>3 DEF StoredTree
  <2>7. QED
    BY <1>6, <2>1, <2>3, <2>4, <2>5, <2>6 DEF Browsing
<1>7. CASE Environment
  BY <1>7 DEF Environment, Flush, Quit, Crash, PowerLoss, RemoveDirectory, StoredTree,
              memory, Claims
<1>8. QED
  BY <1>2, <1>3, <1>4, <1>5, <1>6, <1>7 DEF Next

\* Without write errors the main screen shows what is stored: quitting or dying
\* loses no entry and revives none (paste_into_dir, post_entry_form, the delete
\* forms).
THEOREM ShownIsStored ==
    ASSUME "io" \notin Faults
    PROVE  Spec => []TreeIsStored
<1>1. Init => StoredTree
  BY DEF Init, StoredTree
<1>2. TypeOK /\ StoredTree /\ [Next]_vars => StoredTree'
  BY StoredTreeStep
<1>3. StoredTree => TreeIsStored
  BY DEF StoredTree, TreeIsStored
<1>4. QED
  BY <1>1, <1>2, <1>3, TypeCorrect, PTL DEF Spec

-----------------------------------------------------------------------------
(* Imports. *)

\* The file being imported is one of the files.
SourceIsFile == source \in files \cup {None}

\* Until the entries are imported the database is new, and its seed is the one
\* that was typed, under the password that was typed.
NewDatabase ==
    /\ ~disk.dir => ~disk.adopted
    /\ phase \in {"openDb", "putSeed", "putLayout", "putPath", "import"} => ~disk.adopted
    /\ phase \in {"putLayout", "putPath", "import"} => disk.seed = [seed |-> seed, pw |-> tec]

Backup == SourceIsFile /\ NewDatabase /\ NoForeignImport

\* No step but a power loss takes a file away.
LEMMA FilesStay ==
    ASSUME "power" \notin Faults, SourceIsFile, [Next]_vars
    PROVE  files \subseteq files' /\ SourceIsFile'
<1> USE DEF SourceIsFile, storage, memory
<1>1. CASE Creation
  BY <1>1 DEF Creation, EnterCredentials, MakeDirectory, OpenDb, PutSeed, PutLayout, PutPath,
              ImportEntries, StepFails, Retry
<1>2. CASE Browsing
  BY <1>2 DEF Browsing, TakePath, AddEntry, Copy, Rearrange, Edit, CloseMain
<1>3. CASE Environment
  BY <1>3 DEF Environment, Flush, Quit, Crash, PowerLoss, RemoveDirectory, Forget
<1>4. CASE Start \/ OpenMain \/ Export
  BY <1>4 DEF Start, OpenMain, Export
<1>5. ASSUME NEW w \in Passwords, Open(w) PROVE files \subseteq files' /\ SourceIsFile'
  BY <1>5 DEF Open
<1>6. CASE UNCHANGED vars
  BY <1>6 DEF vars
<1>7. QED
  BY <1>1, <1>2, <1>3, <1>4, <1>5, <1>6 DEF Next

\* A step that keeps the seed and the mark, and stays out of the creation of a
\* database, keeps what is known of it.
LEMMA SameBackup ==
    ASSUME NewDatabase, NoForeignImport, files \subseteq files',
           disk'.dir = disk.dir, disk'.seed = disk.seed, disk'.adopted = disk.adopted,
           \/ phase' \notin {"openDb", "putSeed", "putLayout", "putPath", "import"}
           \/ phase' = phase /\ UNCHANGED <<seed, tec>>
    PROVE  NewDatabase' /\ NoForeignImport'
BY DEF NewDatabase, NoForeignImport

LEMMA BackupStep ==
    ASSUME "power" \notin Faults
    PROVE  TypeOK /\ HandlerInv /\ Backup /\ [Next]_vars => Backup'
<1> SUFFICES ASSUME TypeOK, HandlerInv, Backup, [Next]_vars
             PROVE  NewDatabase' /\ NoForeignImport'
  BY FilesStay DEF Backup
<1>1. /\ disk \in Image /\ files \subseteq files'
      /\ SourceIsFile /\ NewDatabase /\ NoForeignImport
  BY FilesStay DEF TypeOK, Backup
<1> DEFINE Kept == disk'.dir = disk.dir /\ disk'.seed = disk.seed /\ disk'.adopted = disk.adopted
<1> DEFINE Elsewhere == phase' \notin {"openDb", "putSeed", "putLayout", "putPath", "import"}
<1>2. ASSUME Kept, Elsewhere PROVE NewDatabase' /\ NoForeignImport'
  BY <1>1, <1>2, SameBackup
<1>3. CASE UNCHANGED vars
  BY <1>1, <1>3, SameBackup DEF vars, storage, memory
<1>4. CASE Start \/ OpenMain \/ Export
  <2>1. Kept /\ (Elsewhere \/ (phase' = phase /\ UNCHANGED <<seed, tec>>))
    BY <1>4 DEF Start, OpenMain, Export, storage, memory
  <2>2. QED
    BY <1>1, <2>1, SameBackup
<1>5. ASSUME NEW w \in Passwords, Open(w) PROVE NewDatabase' /\ NoForeignImport'
  BY <1>2, <1>5 DEF Open, storage
<1>6. CASE Creation
  <2>1. ASSUME NEW s \in Seeds, NEW w \in Passwords, NEW f \in files \cup {None},
               EnterCredentials(s, w, f)
        PROVE  NewDatabase' /\ NoForeignImport'
    BY <1>2, <2>1 DEF EnterCredentials, storage
  <2>2. CASE MakeDirectory
    <3>1. CASE disk.dir
      BY <1>2, <2>2, <3>1 DEF MakeDirectory, storage
    <3>2. CASE ~disk.dir
      <4>1. disk' = [disk EXCEPT !.dir = TRUE] /\ phase' = "openDb"
        BY <2>2, <3>2 DEF MakeDirectory, Write
      <4>2. disk'.dir /\ disk'.adopted = disk.adopted /\ ~disk.adopted
        BY <1>1, <3>2, <4>1 DEF Image, NewDatabase
      <4>3. QED
        BY <4>1, <4>2 DEF NewDatabase, NoForeignImport
    <3>3. QED
      BY <3>1, <3>2
  <2>3. CASE OpenDb
    <3>1. disk' = [disk EXCEPT !.db = TRUE] /\ phase = "openDb" /\ phase' = "putSeed"
      BY <2>3 DEF OpenDb, Write
    <3>2. disk'.adopted = disk.adopted /\ ~disk.adopted
      BY <1>1, <3>1 DEF Image, NewDatabase
    <3>3. QED
      BY <3>1, <3>2 DEF NewDatabase, NoForeignImport
  <2>4. CASE PutSeed
    <3>1. /\ disk' = [disk EXCEPT !.seed = [seed |-> seed, pw |-> tec]]
          /\ phase = "putSeed" /\ phase' = "putLayout" /\ UNCHANGED <<seed, tec>>
      BY <2>4 DEF PutSeed, Write, memory
    <3>2. /\ disk'.adopted = disk.adopted /\ ~disk.adopted
          /\ disk'.seed = [seed |-> seed', pw |-> tec']
      BY <1>1, <3>1 DEF Image, NewDatabase
    <3>3. QED
      BY <3>1, <3>2 DEF NewDatabase, NoForeignImport
  <2>5. CASE PutLayout
    <3>1. /\ disk' = [disk EXCEPT !.entries = {}]
          /\ phase = "putLayout" /\ phase' = "putPath" /\ UNCHANGED <<seed, tec>>
      BY <2>5 DEF PutLayout, Write, memory
    <3>2. Kept
      BY <1>1, <3>1 DEF Image
    <3>3. QED
      BY <1>1, <3>1, <3>2 DEF NewDatabase, NoForeignImport
  <2>6. CASE PutPath
    <3>1. /\ disk' = [disk EXCEPT !.dpath = 0]
          /\ phase = "putPath" /\ UNCHANGED <<seed, tec>>
      BY <2>6 DEF PutPath, Write
    <3>2. Kept
      BY <1>1, <3>1 DEF Image
    <3>3. QED
      BY <1>1, <3>1, <3>2 DEF NewDatabase, NoForeignImport
  <2>7. CASE ImportEntries
    <3>1. CASE phase' = "failed" /\ UNCHANGED storage
      BY <1>2, <3>1 DEF storage
    <3>2. CASE ~(phase' = "failed" /\ UNCHANGED storage)
      <4>1. /\ source.key = ExportKey(Decrypt(disk.seed, tec)) /\ source.entries # None
            /\ disk' = [disk EXCEPT !.entries = source.entries, !.adopted = TRUE]
            /\ phase = "import" /\ phase' = "browsing"
        BY <2>7, <3>2 DEF ImportEntries, Write
      <4>2. source \in files' /\ disk.seed = [seed |-> seed, pw |-> tec] /\ disk.dir
        BY <1>1, <4>1 DEF HandlerInv, SourceIsFile, NewDatabase
      <4>3. Decrypt(disk.seed, tec) = [seed |-> disk.seed.seed, garble |-> None]
        BY <4>2 DEF Decrypt
      <4>4. disk'.seed = disk.seed /\ disk'.dir = disk.dir
        BY <1>1, <4>1 DEF Image
      <4>5. QED
        BY <4>1, <4>2, <4>3, <4>4 DEF NewDatabase, NoForeignImport
    <3>3. QED
      BY <3>1, <3>2
  <2>8. CASE StepFails \/ Retry
    BY <1>2, <2>8 DEF StepFails, Retry, storage
  <2>9. QED
    BY <1>6, <2>1, <2>2, <2>3, <2>4, <2>5, <2>6, <2>7, <2>8 DEF Creation
<1>7. CASE Browsing
  <2>1. Elsewhere
    BY <1>7 DEF Browsing, TakePath, AddEntry, Copy, Rearrange, Edit, CloseMain
  <2>2. \/ disk' = disk
        \/ disk' = [disk EXCEPT !.dpath = disk.dpath + 1]
        \/ disk' = [disk EXCEPT !.entries = tree']
    BY <1>7 DEF Browsing, TakePath, AddEntry, Copy, Rearrange, Edit, CloseMain, Save, Write,
                storage
  <2>3. Kept
    BY <1>1, <2>2 DEF Image
  <2>4. QED
    BY <1>2, <2>1, <2>3
<1>8. CASE Environment
  <2>1. CASE Flush
    <3>1. Kept /\ phase' = phase /\ UNCHANGED <<seed, tec>>
      BY <2>1 DEF Flush, memory
    <3>2. QED
      BY <1>1, <3>1, SameBackup
  <2>2. CASE Quit \/ Crash
    BY <1>2, <2>2 DEF Quit, Crash, storage
  <2>3. CASE RemoveDirectory
    <3>1. ~disk'.adopted /\ phase' = "off"
      BY <2>3 DEF RemoveDirectory, NoKeychain
    <3>2. QED
      BY <3>1 DEF NewDatabase, NoForeignImport
  <2>4. QED
    BY <1>8, <2>1, <2>2, <2>3 DEF Environment, PowerLoss
<1>9. QED
  BY <1>3, <1>4, <1>5, <1>6, <1>7, <1>8 DEF Next

\* Without power losses, an import succeeds only against a whole file exported
\* under this keychain's seed with its right password (import_from_uri).
THEOREM ImportsAreOwn ==
    ASSUME "power" \notin Faults
    PROVE  Spec => []NoForeignImport
<1>1. Init => Backup
  BY DEF Init, Backup, SourceIsFile, NewDatabase, NoForeignImport, NoKeychain
<1>2. TypeOK /\ HandlerInv /\ Backup /\ [Next]_vars => Backup'
  BY BackupStep
<1>3. Backup => NoForeignImport
  BY DEF Backup
<1>4. QED
  BY <1>1, <1>2, <1>3, TypeCorrect, PTL DEF Spec

=============================================================================
