------------------------------ MODULE Keychain ------------------------------
(***************************************************************************)
(* The storage layer of hdpwm: class Keychain over a LevelDB directory,    *)
(* with the operations in the order the screens call them.                 *)
(*                                                                         *)
(* A keychain is a directory with a database of three cells: the seed      *)
(* encrypted under the master password, the tree of entries, and the       *)
(* counter of derivation paths.  An entry never stores its password: it    *)
(* stores a derivation path, and the password is derived from the seed and *)
(* that path whenever it is shown.                                         *)
(*                                                                         *)
(* One process runs at a time and its handlers run on one thread, so the   *)
(* interleavings are those of the handler with its environment: the        *)
(* process can die between two writes, the machine can lose power (no      *)
(* write is synchronous, so recent ones are then lost), a write can fail,  *)
(* and the user decides what to do next at every prompt.                   *)
(*                                                                         *)
(* Abstractions.  The directory tree is the set of its entries, since      *)
(* directories carry no secret (MainScreen's subject is the tree itself);  *)
(* acct identifies the account an entry was created for and is kept by     *)
(* copying and editing; details stands for its editable name and details;  *)
(* encryption is a term, and a seed decrypted with a wrong password is a   *)
(* different seed, because nothing authenticates the ciphertext.           *)
(***************************************************************************)
EXTENDS Integers, FiniteSets

CONSTANTS
    Accounts,     \* what a user keeps a password for
    Details,      \* the values of an entry's editable fields
    Seeds,        \* what mnemonics stand for
    Passwords,    \* master passwords
    None,         \* an absent cell, a value not in memory
    ByteSize,     \* 256 in the code: how many values a byte has
    ExportPath,   \* 255 in the code: the path of the key that encrypts exports
    MaxPath,      \* bound: the derivation paths handed out
    MaxUnflushed, \* bound: the writes the operating system may still lose
    MaxFiles,     \* bound: the exported files
    Faults        \* what may go wrong: "io" in the database, "cut" in an exported
                  \* file, "crash", "power"

ASSUME PathAssumption == MaxPath \in Nat /\ ExportPath \in Nat

\* derive_child writes a path into two bytes; beyond them paths repeat.
ASSUME TwoBytesAssumption ==
    ByteSize \in Nat \ {0} /\ MaxPath < ByteSize * ByteSize

ASSUME FaultAssumption == Faults \subseteq {"io", "cut", "crash", "power"}

Path == 1..MaxPath

Entry == [acct : Accounts, path : Path, details : Details]

EncryptedSeed == [seed : Seeds, pw : Passwords]

\* What is on disk.  adopted is not stored by the code: it marks the databases
\* whose entries came from an import.
Image == [dir     : BOOLEAN,                       \* the keychain directory exists
          db      : BOOLEAN,                       \* the database in it exists
          seed    : EncryptedSeed \cup {None},     \* DB_KEY_SEED
          entries : (SUBSET Entry) \cup {None},    \* DB_KEY_ENTRIES
          dpath   : (0..MaxPath) \cup {None},      \* DB_KEY_DPATH
          adopted : BOOLEAN]

NoKeychain == [dir |-> FALSE, db |-> FALSE, seed |-> None, entries |-> None,
               dpath |-> None, adopted |-> FALSE]

\* An absent cell is no value of the cell.
ASSUME NoneAssumption == /\ None \notin EncryptedSeed
                         /\ None \notin 0..MaxPath
                         /\ \A es \in SUBSET Entry : es # None

-----------------------------------------------------------------------------
(* Cryptography, as terms. *)

\* CFB with a fixed IV and no authentication: any password decrypts to some
\* seed, and only the right one to the right seed.
Decrypt(enc, pw) ==
    [seed |-> enc.seed, garble |-> IF pw = enc.pw THEN None ELSE <<enc.pw, pw>>]

\* Mutant: the high byte of a path is dropped.
DerivationData_OneByte(p) == <<0, p % ByteSize>>

\* cdd[35] = path >> 8 (stored in one byte), cdd[36] = path & 0xff
DerivationData(p) == <<(p \div ByteSize) % ByteSize, p % ByteSize>>

DeriveChild(root, p) == [root |-> root, data |-> DerivationData(p)]

ExportKey(root) == DeriveChild(root, ExportPath)

Root == [seed : Seeds, garble : (Passwords \X Passwords) \cup {None}]

Key == [root : Root, data : (0..ByteSize - 1) \X (0..ByteSize - 1)]

\* A file written by an export; the entries are None when it was cut short.
File == [key : Key, entries : (SUBSET Entry) \cup {None}]

-----------------------------------------------------------------------------

VARIABLES
    disk,       \* the image every read of this run of the machine sees
    unflushed,  \* older images: what a power loss may bring back
    files,      \* the exported files
    phase,      \* where the program is: a prompt, or a step of a handler
    seed,       \* the seed of the keychain being created, None otherwise
    tec,        \* the password the user typed (class TimedEncryptionKey)
    source,     \* the file being imported, None otherwise
    tree,       \* the entries under keychain_root_dir, in memory
    clipboard,  \* the entries under the clipboard's entry or directory
    granted     \* what get_next_derivation_path returned to the handler

storage == <<disk, unflushed>>
memory  == <<seed, tec, source, tree, clipboard, granted>>
vars    == <<disk, unflushed, files, phase, memory>>

\* Phases in which the user is asked, and phases inside one handler.
Prompts  == {"create", "failed", "locked", "menu", "browsing"}
Handlers == {"mkdir", "openDb", "putSeed", "putLayout", "putPath", "import", "addEntry"}
Phases   == {"off"} \cup Prompts \cup Handlers

TypeOK ==
    /\ disk \in Image
    /\ unflushed \in SUBSET Image
    /\ files \in SUBSET File
    /\ phase \in Phases
    /\ seed \in Seeds \cup {None}
    /\ tec \in Passwords \cup {None}
    /\ source \in File \cup {None}
    /\ tree \in SUBSET Entry
    /\ clipboard \in SUBSET Entry
    /\ granted \in Path \cup {None}

Init ==
    /\ disk = NoKeychain
    /\ unflushed = {}
    /\ files = {}
    /\ phase = "off"
    /\ seed = None /\ tec = None /\ source = None
    /\ tree = {} /\ clipboard = {} /\ granted = None

-----------------------------------------------------------------------------
(* The disk.  WriteOptions() leaves sync FALSE: a write survives the death *)
(* of the process at once, and a power loss only when it was flushed.      *)

Write(img) ==
    /\ Cardinality(unflushed) < MaxUnflushed
    /\ disk' = img
    /\ unflushed' = unflushed \cup {disk}

\* The operating system gets round to it.
Flush ==
    /\ unflushed # {}
    /\ unflushed' = {}
    /\ UNCHANGED <<disk, files, phase, memory>>

Forget == seed' = None /\ tec' = None /\ source' = None
          /\ tree' = {} /\ clipboard' = {} /\ granted' = None

\* A handler threw: WindowManager::run shows the error.
StepFails ==
    /\ "io" \in Faults
    /\ phase \in {"mkdir", "openDb", "putSeed", "putLayout", "putPath", "import"}
    /\ phase' = "failed"
    /\ UNCHANGED <<storage, files, memory>>

-----------------------------------------------------------------------------
(* Starting the program, and creating a keychain. *)

\* main: an existing directory is opened, otherwise one is created.
Start ==
    /\ phase = "off"
    /\ phase' = IF disk.dir THEN "locked" ELSE "create"
    /\ UNCHANGED <<storage, files, memory>>

\* The user asks for a new keychain, or for one imported from f.
EnterCredentials(s, w, f) ==
    /\ phase = "create"
    /\ seed' = s /\ tec' = w /\ source' = f
    /\ phase' = "mkdir"
    /\ UNCHANGED <<storage, files, tree, clipboard, granted>>

MakeDirectory ==
    /\ phase = "mkdir"
    /\ \/ /\ ~disk.dir
          /\ Write([disk EXCEPT !.dir = TRUE])
          /\ phase' = "openDb"
       \/ /\ disk.dir            \* create_directory returns false
          /\ phase' = "failed"
          /\ UNCHANGED storage
    /\ UNCHANGED <<files, memory>>

OpenDb ==
    /\ phase = "openDb"
    /\ Write([disk EXCEPT !.db = TRUE])
    /\ phase' = "putSeed"
    /\ UNCHANGED <<files, memory>>

\* Mutant: the seed is stored as it is.
PutSeed_Plain ==
    /\ phase = "putSeed"
    /\ Write([disk EXCEPT !.seed = [seed |-> seed, pw |-> None]])
    /\ phase' = "putLayout"
    /\ UNCHANGED <<files, memory>>

PutSeed ==
    /\ phase = "putSeed"
    /\ Write([disk EXCEPT !.seed = [seed |-> seed, pw |-> tec]])
    /\ phase' = "putLayout"
    /\ UNCHANGED <<files, memory>>

\* Mutant: the counter is written before the layout.
PutLayout_CounterFirst ==
    /\ phase = "putLayout"
    /\ Write([disk EXCEPT !.dpath = 0])
    /\ phase' = "putPath"
    /\ UNCHANGED <<files, memory>>

PutLayout ==
    /\ phase = "putLayout"
    /\ Write([disk EXCEPT !.entries = {}])
    /\ phase' = "putPath"
    /\ UNCHANGED <<files, memory>>

\* The last step of initialize_with_seed; without an import, the main screen
\* is made next and reads the tree back.
PutPath ==
    /\ phase = "putPath"
    /\ Write([disk EXCEPT !.dpath = 0])
    /\ phase' = IF source = None THEN "browsing" ELSE "import"
    /\ tree' = disk.entries
    /\ UNCHANGED <<files, seed, tec, source, clipboard, granted>>

\* Mutant: a file that was cut short is taken for an empty tree.
ImportEntries_Lenient ==
    /\ phase = "import"
    /\ LET es == IF source.entries = None THEN {} ELSE source.entries IN
       \/ /\ source.key = ExportKey(Decrypt(disk.seed, tec))
          /\ Write([disk EXCEPT !.entries = es, !.adopted = TRUE])
          /\ tree' = es
          /\ phase' = "browsing"
       \/ /\ source.key # ExportKey(Decrypt(disk.seed, tec))
          /\ phase' = "failed"
          /\ UNCHANGED <<storage, tree>>
    /\ UNCHANGED <<files, seed, tec, source, clipboard, granted>>

\* import_from_uri: the file must decrypt to a tree, which is saved.
ImportEntries ==
    /\ phase = "import"
    /\ \/ /\ source.key = ExportKey(Decrypt(disk.seed, tec))
          /\ source.entries # None
          /\ Write([disk EXCEPT !.entries = source.entries, !.adopted = TRUE])
          /\ tree' = source.entries
          /\ phase' = "browsing"
       \/ /\ \/ source.key # ExportKey(Decrypt(disk.seed, tec))
             \/ source.entries = None
          /\ phase' = "failed"
          /\ UNCHANGED <<storage, tree>>
    /\ UNCHANGED <<files, seed, tec, source, clipboard, granted>>

\* The error screen of a new keychain returns to the screen that shows the
\* mnemonic, where any key tries again; the error screen of an import ends
\* the program (Quit).
Retry ==
    /\ phase = "failed" /\ seed # None /\ source = None
    /\ phase' = "mkdir"
    /\ UNCHANGED <<storage, files, memory>>

-----------------------------------------------------------------------------
(* An existing keychain. *)

\* Nothing checks the password: the seed is not even read.
Open(w) ==
    /\ phase = "locked"
    /\ tec' = w
    /\ \/ disk.db /\ phase' = "menu"
       \/ (~disk.db \/ "io" \in Faults) /\ phase' = "failed"
    /\ UNCHANGED <<storage, files, seed, source, tree, clipboard, granted>>

OpenMain ==
    /\ phase = "menu"
    /\ disk.entries # None
    /\ tree' = disk.entries
    /\ phase' = "browsing"
    /\ UNCHANGED <<storage, files, seed, tec, source, clipboard, granted>>

\* Nothing checks that the file was written: when only a part of it was, the menu
\* comes back as if all had been.
Export ==
    /\ phase = "menu"
    /\ disk.entries # None /\ disk.seed # None
    /\ Cardinality(files) < MaxFiles
    /\ \E written \in {disk.entries} \cup (IF "cut" \in Faults THEN {None} ELSE {}) :
          files' = files \cup
             {[key |-> ExportKey(Decrypt(disk.seed, tec)), entries |-> written]}
    /\ UNCHANGED <<storage, phase, memory>>

-----------------------------------------------------------------------------
(* The main screen, as far as it touches the keychain. *)

Save(t) == Write([disk EXCEPT !.entries = t])

\* Mutant: the incremented counter is not stored.
TakePath_NotStored ==
    /\ phase = "browsing"
    /\ disk.dpath # None /\ disk.dpath < MaxPath
    /\ granted' = disk.dpath + 1
    /\ phase' = "addEntry"
    /\ UNCHANGED <<storage, files, seed, tec, source, tree, clipboard>>

\* First half of a new entry: get_next_derivation_path.  A missing counter or
\* a failed Put throws before anything changed.
TakePath ==
    /\ phase = "browsing"
    /\ disk.dpath # None /\ disk.dpath < MaxPath
    /\ Write([disk EXCEPT !.dpath = disk.dpath + 1])
    /\ granted' = disk.dpath + 1
    /\ phase' = "addEntry"
    /\ UNCHANGED <<files, seed, tec, source, tree, clipboard>>

\* Second half: the entry is pushed and the tree saved.  Nothing is pushed when
\* the selected row's parent is gone; the clipboard sees the new entry when it
\* holds the directory the entry went into.  A failed Put leaves the tree in
\* memory as it is.
AddEntry(a, d) ==
    /\ phase = "addEntry"
    /\ LET e == [acct |-> a, path |-> granted, details |-> d] IN
       /\ tree' \in {tree \cup {e}, tree}
       /\ clipboard' \in {clipboard, clipboard \cup {e}}
    /\ \/ Save(tree')
       \/ "io" \in Faults /\ UNCHANGED storage
    /\ granted' = None
    /\ phase' = "browsing"
    /\ UNCHANGED <<files, seed, tec, source>>

\* 'c', and the first effect of 'd' and 'x': an entry, or a directory with
\* everything below it, becomes the clipboard.
Copy ==
    /\ phase = "browsing"
    /\ clipboard' \in SUBSET tree
    /\ UNCHANGED <<storage, files, phase, seed, tec, source, tree, granted>>

\* Every handler that rearranges the tree and saves it: a new directory adds
\* no entry, a paste adds copies of the clipboard, a delete drops some (from
\* the clipboard's directory too, when that holds them).
Paste == tree' = tree \cup clipboard /\ UNCHANGED clipboard

Delete == tree' \in SUBSET tree /\ clipboard' \in SUBSET clipboard

\* Mutant: the change is not saved.
Rearrange_NotSaved ==
    /\ phase = "browsing"
    /\ Paste \/ Delete
    /\ UNCHANGED <<storage, files, phase, seed, tec, source, granted>>

Rearrange ==
    /\ phase = "browsing"
    /\ Paste \/ Delete
    /\ \/ Save(tree')
       \/ "io" \in Faults /\ UNCHANGED storage
    /\ UNCHANGED <<files, phase, seed, tec, source, granted>>

\* An accepted field of the edit form changes the entry at once, and no handler
\* of that form saves.  Other copies of the entry, in the tree or in the
\* clipboard, are other objects and keep their details.
Edit(e, d) ==
    /\ phase = "browsing"
    /\ e \in tree
    /\ LET edited == [e EXCEPT !.details = d] IN
       /\ tree' \in {tree \cup {edited}, (tree \ {e}) \cup {edited}}
       /\ clipboard' \in {clipboard} \cup
             (IF e \in clipboard
                THEN {clipboard \cup {edited}, (clipboard \ {e}) \cup {edited}}
                ELSE {})
    /\ UNCHANGED <<storage, files, phase, seed, tec, source, granted>>

\* 'q': back to the menu the main screen was pushed on, or out of the program
\* when the main screen replaced the screens that created the keychain.
CloseMain ==
    /\ phase = "browsing"
    /\ tree' = {} /\ clipboard' = {}
    /\ \/ seed = None /\ phase' = "menu" /\ UNCHANGED <<seed, tec, source>>
       \/ seed # None /\ phase' = "off" /\ seed' = None /\ tec' = None /\ source' = None
    /\ UNCHANGED <<storage, files, granted>>

-----------------------------------------------------------------------------
(* The end of a run. *)

\* Not from the mnemonic screen of a failed creation, where every key retries.
Quit ==
    /\ phase \in {"create", "failed", "locked", "menu"}
    /\ phase = "failed" => seed = None \/ source # None
    /\ phase' = "off"
    /\ Forget
    /\ UNCHANGED <<storage, files>>

\* The process dies: whatever was written stays.
Crash ==
    /\ "crash" \in Faults
    /\ phase # "off"
    /\ phase' = "off"
    /\ Forget
    /\ UNCHANGED <<storage, files>>

\* The machine dies: some earlier image comes back, some files are gone.
PowerLoss ==
    /\ "power" \in Faults
    /\ phase' = "off"
    /\ Forget
    /\ disk' \in unflushed \cup {disk}
    /\ unflushed' = {}
    /\ files' \in SUBSET files

\* "Please remove <path> directory manually before retrying", or the same user
\* on another device: the exported files are all that is left.
RemoveDirectory ==
    /\ phase = "off" /\ disk.dir
    /\ disk' = NoKeychain
    /\ unflushed' = {}
    /\ UNCHANGED <<files, phase, memory>>

-----------------------------------------------------------------------------

Creation == \/ \E s \in Seeds, w \in Passwords, f \in files \cup {None} :
                  EnterCredentials(s, w, f)
            \/ MakeDirectory \/ OpenDb \/ PutSeed \/ PutLayout \/ PutPath
            \/ ImportEntries \/ StepFails \/ Retry

Browsing == \/ TakePath
            \/ \E a \in Accounts, d \in Details : AddEntry(a, d)
            \/ Copy \/ Rearrange \/ CloseMain
            \/ \E e \in tree, d \in Details : Edit(e, d)

Environment == Flush \/ Quit \/ Crash \/ PowerLoss \/ RemoveDirectory

Next == \/ Start
        \/ Creation
        \/ \E w \in Passwords : Open(w)
        \/ OpenMain \/ Export
        \/ Browsing
        \/ Environment

Spec == Init /\ [][Next]_vars

-----------------------------------------------------------------------------
(* Properties. *)

\* Every image the machine can come up with.
Recoverable == unflushed \cup {disk}

Claims(es) == {<<e.acct, e.path>> : e \in es}

\* The entries an image holds, as far as this device handed out their paths.
OwnEntries(img) == IF img.adopted \/ img.entries = None THEN {} ELSE img.entries

\* The same for the memory of the running process.
LiveEntries == IF disk.adopted THEN {} ELSE tree \cup clipboard

AllEntries == LiveEntries \cup UNION {OwnEntries(img) : img \in Recoverable}

\* A half-created keychain is always a prefix of a whole one: whichever image
\* comes back, a cell is present only if those written before it are
\* (initialize_with_seed writes the directory, seed, layout, counter).
Ordered(img) ==
    /\ img.db => img.dir
    /\ img.seed # None => img.db
    /\ img.entries # None => img.seed # None
    /\ img.dpath # None => img.entries # None

CreationIsOrdered == \A img \in Recoverable : Ordered(img)

\* Whichever image comes back, its counter covers the paths of its entries, so
\* the next get_next_derivation_path cannot reuse one.  It holds because the
\* counter is written before the tree that uses it.  Imports are excepted.
CounterCoversEntries ==
    \A img \in Recoverable :
        \A e \in OwnEntries(img) : img.dpath # None /\ e.path <= img.dpath

\* No two accounts get the same password: entries whose derivation data is the
\* same are copies of one entry, in memory and in everything recoverable.
DistinctSecrets ==
    \A e, f \in AllEntries :
        DerivationData(e.path) = DerivationData(f.path) => e.acct = f.acct

\* Without write errors, what the main screen shows is what is stored, up to
\* the details of an entry: quitting or dying loses no entry and revives none.
TreeIsStored ==
    phase = "browsing" => Claims(tree) = Claims(disk.entries)

\* An import only succeeds against a whole file that was exported under the seed
\* of this keychain by a user who had typed the right password; an export made
\* under a wrong password is no backup (import_from_uri, export_to_uri).
NoForeignImport ==
    disk.adopted =>
        \E f \in files : /\ f.key = ExportKey([seed |-> disk.seed.seed, garble |-> None])
                         /\ f.entries # None

\* A path handed out is one that no entry has, in memory or in any image that
\* could come back (get_next_derivation_path's promise to its caller).
GrantIsFresh ==
    phase = "addEntry" => \A e \in AllEntries : e.path # granted

-----------------------------------------------------------------------------
(* The inductive invariant: what makes the properties above hold.  Each      *)
(* conjunct is needed by the step of some action (see KeychainProofs).       *)

Counter(img) == IF img.dpath = None THEN 0 ELSE img.dpath

\* What a handler that has come this far has in memory and on disk.
HandlerInv ==
    /\ phase = "off" => tree = {} /\ clipboard = {}
    /\ seed # None => tec \in Passwords
    /\ phase \in {"mkdir", "openDb", "putSeed", "putLayout", "putPath", "import"} =>
          seed \in Seeds /\ tec \in Passwords
    /\ phase \in {"menu", "browsing", "addEntry"} => tec \in Passwords
    /\ phase \in {"browsing", "addEntry"} => disk.seed # None
    /\ phase = "addEntry" => granted \in Path
    /\ phase \in {"openDb", "putSeed", "putLayout", "putPath"} =>
          disk.dir /\ disk.dpath = None
    /\ phase \in {"putSeed", "putLayout", "putPath"} => disk.db
    /\ phase \in {"putLayout", "putPath"} => disk.seed # None
    /\ phase = "putPath" => disk.entries = {}
    /\ phase = "import" => source # None /\ disk.seed # None /\ disk.db /\ disk.dir

\* The counter on disk is ahead of the counter and of the entries of whatever
\* image a power loss brings back, and of the entries in memory.
StoredInv ==
    \A img \in Recoverable : /\ Counter(img) <= Counter(disk)
                             /\ \A e \in OwnEntries(img) : e.path <= Counter(img)

LiveInv == \A e \in LiveEntries : e.path <= Counter(disk)

\* The path handed out is the counter's last value, and nothing has it yet.
GrantInv ==
    phase = "addEntry" => /\ disk.dpath = granted
                          /\ \A e \in AllEntries : e.path < granted

CounterInv == StoredInv /\ LiveInv /\ GrantInv

OneHolder == \A e, f \in AllEntries : e.path = f.path => e.acct = f.acct

IndInv == TypeOK /\ HandlerInv /\ CreationIsOrdered /\ CounterInv /\ OneHolder

-----------------------------------------------------------------------------
(* What comments and documents of the repository say, and the code does not. *)

\* "provision secrets", "synchronization of passwords across devices"
\* (README.md): also after an import, two accounts have two passwords.  The
\* counter is not part of an export, and starts at 0 again.
ImportKeepsSecretsDistinct ==
    \A e, f \in tree : DerivationData(e.path) = DerivationData(f.path) => e.acct = f.acct

\* "should be predefined and reserved" (keychain.h, standard_export_dpath): no
\* entry's password is derived at the path of the export key.
ExportPathIsReserved ==
    \A e \in tree : DerivationData(e.path) # DerivationData(ExportPath)

\* "<e> to edit" (help of the main screen): an edit accepted in the form is
\* still there after the screen is closed with 'q'.
EditsSurvive == [][CloseMain => tree = disk.entries]_vars

\* "and master seed decrypted" (OpenKeychainScreen::m_init): the menu of an
\* opened keychain comes up only when the password decrypts the seed.
OpenedMeansDecrypted ==
    phase = "menu" =>
        /\ disk.seed # None
        /\ Decrypt(disk.seed, tec).garble = None

-----------------------------------------------------------------------------
(* Refinement. *)

\* Keychain implements PathRegistry.
Registry == INSTANCE PathRegistry
                WITH Paths <- Path, held <- Claims(AllEntries)

ImplementsRegistry == Registry!Spec

=============================================================================
