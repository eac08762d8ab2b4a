# hdpwm in TLA+

hdpwm is a hierarchical deterministic password manager with a terminal
interface. A mnemonic gives a seed; every password is derived from the seed and
a small number, the *derivation path*; only the tree of entries with their paths
is stored. This directory specifies the program, model-checks the specification
with TLC and proves its main safety properties with TLAPS. Paths below are
relative to the repository (`src/keychain/...` is the program's own code;
`external/` is vendored).

## Inventory

| Component | State | Operations | Interacts with |
|---|---|---|---|
| Keychain (`src/keychain/keychain.cpp`, `db.cpp`, `utils.cpp`) | a LevelDB directory with the cells `seed`, `entries`, `dpath`; the password hash | `initialize_with_seed`, `open`, `get_root_dir`, `get_next_derivation_path`, `save_entries`, `derive_child`, `import_from_uri`, `export_to_uri` | called by the screens; calls LevelDB and the cryptography |
| Window manager (`src/tui/manager.cpp`) | event queue under a mutex and a condition variable, `should_getch`, the stack of controllers | `push_event` and its five callers, `getch_loop`, `run` | two threads and a signal handler; calls the controllers, which queue requests |
| Screens and forms (`*_screen.cpp`, `form_controller.cpp`) | current field, form state, results shared with callbacks, a raw parent pointer | `init`, `cleanup`, `draw`, `on_key`, `on_resize`, accept/done/cancel callbacks | called by the window manager, call the keychain |
| Main screen (`keychain_main_screen.cpp`, `keychain_entry.cpp`) | the tree (shared pointers down, weak pointers up), the flattened cache, cursor, clipboard | navigate, open, view, new entry/directory, edit, copy, paste, cut/delete | keychain for paths, saving and secrets |
| Cryptography (`crypto.cpp`, `timed_encryption_key.cpp`) | the password hash | encrypt/decrypt (AES-CFB, fixed IV), derive a child | keychain |
| Sensitive memory (`src/crypto/utils.cpp`, `structs.h`) | owned buffers, locked pages | construct, move, copy, assign, push, pop, wipe | everything holding secrets |
| Mnemonic (`mnemonic.cpp`), hex (`structs.cpp`), `encode_secret` | none | pure functions | creation and import, the `seed` cell, viewing an entry |
| Output, colours, utilities, Qt stub, `external/` | none of interest | drawing, helpers | |

What is hard, and what makes each component correct:

* **Keychain.** A directory, a database and three separate writes create it; the
  counter and the tree are two writes; no write is synchronous; nothing
  authenticates what is decrypted. Correct means: two accounts never share a
  path, whatever dies in between and whatever image comes back; a half-created
  keychain is a prefix of a whole one; only a matching export is imported; what
  the screen shows is what is stored.
* **Window manager.** A queue shared by two threads and by signal handlers that
  interrupt either of them anywhere, a condition variable with spurious
  wakeups, a shutdown that joins a polling thread, exceptions between a
  handler's requests and their effect. Correct means: the mutex excludes, no
  wakeup is lost, keys arrive once and in order, the stack is never used when
  empty, and the program stops when it is asked to.
* **Main screen.** A cursor into a cache computed before the tree changed, weak
  parents that expire, a clipboard that shares objects with the tree, callbacks
  that throw half-way. Correct means: the rows show the tree, the cursor denotes a
  row, no row has lost its parent, the tree stays a tree.
* **Controllers.** Requests take effect later than the keys already queued, so a
  key may reach a controller that asked to be closed, a done callback may run
  again, a form may outlive its parent. Correct means: a request happens to the
  screen that made it, parents outlive forms, there is one main screen, and the
  user is never left with a screen that does not answer.
* **Sensitive memory.** Ownership over moves, copies and assignments, locks that
  belong to pages, not to blocks. Correct means: memory that held a secret is
  wiped and freed exactly once, and locked as long as it is in use.
* **Pure functions.** Round trips: words to bits to words, hex to bytes to hex;
  an encoder that reads ahead of its index stays inside its input.

PROJECT.json lists the hazards with their lines.

## Modules

| Module | What it is |
|---|---|
| `PathRegistry` | abstract specification: who holds which derivation path |
| `Keychain` | the storage layer with its clients; implements `PathRegistry` |
| `MCKeychain` | `Keychain` with a symmetry set for TLC |
| `WindowManager` | event loop, input thread, SIGWINCH handlers |
| `MainScreen`, `MCMainScreen` | the tree, rows, cursor, clipboard and forms of the main screen |
| `Screens`, `MCScreens` | the screens and forms on the stack, and their requests |
| `SensitiveString`, `MCSensitiveString` | strings that own locked memory |
| `Mnemonic`, `Structs` | the conversions, as operators |
| `Codec`, `MCCodec` | what is put through the conversions, and what they promise |
| `PathRegistryProofs`, `KeychainProofs`, `WindowManagerProofs`, `MainScreenProofs`, `MainScreenRowsProofs`, `ScreensProofs`, `SensitiveStringProofs`, `CodecProofs` | theorems |

How they fit: `WindowManager` shows that requests and keys go through one queue in
order, with any screens as its clients. `MainScreen` and `Screens` are those
clients: they keep the queue of requests and leave out the threads, so a key may
be handled at any time, which covers every interleaving the queue allows.
`Screens` has every screen and of the main screen only its requests; `MainScreen`
has all of that one screen. `Keychain` has what screens do to the storage.

### Keychain

The state of the disk is a record `disk` (directory, database, three cells);
`unflushed` are the older images a power loss may bring back, since
`WriteOptions()` is not synchronous. LevelDB's log is written in order, so what
comes back is always some earlier image, never a mixture. `phase` says at which
prompt, or between which two writes of a handler, the program is.

| Actions | Code |
|---|---|
| `Start`, `Quit` | `main` chooses the opening or the creating screen; leaving them |
| `EnterCredentials`, `MakeDirectory`, `OpenDb`, `PutSeed`, `PutLayout`, `PutPath`, `StepFails`, `Retry` | the creation forms and each step of `initialize_with_seed`, with its throws |
| `ImportEntries` | `import_from_uri`, with success, wrong key and truncated file |
| `Open`, `OpenMain`, `Export` | `Keychain::open`, `get_root_dir`, `export_to_uri` |
| `TakePath`, `AddEntry` | the two halves of the callback of the new-entry form |
| `Copy`, `Rearrange` (`Paste`, `Delete`, a new directory), `Edit`, `CloseMain` | the other keys of the main screen, as far as they touch entries, clipboard or database |
| `Flush`, `Crash`, `PowerLoss`, `RemoveDirectory` | the environment |

Abstractions: the tree is the set of its entries (directories carry no secret);
`acct` identifies the account an entry was created for, which copying, editing
and storing keep; the editable fields are one value; encryption is a term, and a
wrong password decrypts to a different seed because CFB is not authenticated.
`derive_child` writes a path into two bytes: `DerivationData` keeps that, with
the byte size a constant (256 in the code). `adopted` is a history variable that
marks databases with imported entries, for which the promise does not hold (see
the disagreements below).

### WindowManager

One action per step between two points where the other thread or a signal can
come in: `InputTest`, `InputGetch`, `InputAlt`, `InputLock`, `InputPush`,
`InputNotify` are `getch_loop` with `push_event` inlined; `MainDraw`, `MainLock`,
`MainEmpty`, `MainWait`, `MainTake`, the five `Handle...` actions and `ReactEnd`
are `run`, with `ReactLock`, `ReactPush`, `ReactNotify` the `push_event` of each
request a handler makes; `Stop` and `MainJoin` are `m_stop`; `Interrupt`,
`SignalLock`, `SignalPush`, `SignalNotify` are `resizeHandler` on either thread,
which stands still meanwhile. `SpuriousWakeup` may happen at any time. A screen
is any program that makes one of the request sequences the screens of the code
make (`KeyReactions`, `InitReactions`) and then throws or does not; the stack is
its depth, and a key is its position in what was typed. The data race on
`should_getch` is a read of the current value, because the loop calls the opaque
`getch` between two reads.

### MainScreen

The heap of directories and entries with strong pointers down and weak ones up;
`rows` is `flat_entries_cache`, `forms` the controllers above the screen,
`requests` the pushes and pops in the queue. `Reclaim` is the reference counting:
an object lives while the tree, the rows, the clipboard or a form's callback
reaches it, and then weak pointers to it expire. `Below` are the objects below some
others, as the least set closed under children; `Flatten` is the loop of
`flatten_dirs` with its work list, `Graft` the copy by way of JSON: `Twins` are the
identities of the copies, `CopyOf` what becomes of each.

| Actions | Code |
|---|---|
| `Move`, `Toggle`, `View`, `PostForm`, `Copy`, `Paste`, `Quit` | the keys of `KeychainMainScreen::m_on_key` |
| `FinishNew`, `Finish`, `Delete`, `Leave` | the done and cancel callbacks of its forms |
| `Dismiss` | a key on a help or error screen |
| `HandlePush`, `HandlePop`, `HandleOrphan` | `run` handles a request; with the main screen gone, a form uses its dangling parent |
| `ReadOutside` | the row at a cursor behind the rows is read |

Undefined behaviour (a row that is not there, an expired or dangling parent, an
erase of `end()`) sets `broken` and stops the model. A database call that throws
skips the rest of the callback and puts an error screen on top, as the catch block
of `run` does. Left out: names, details and paths, and windows lower than the list.

### Screens

`stack` is `controller_stack`; a controller has its form, the number of fields
left and the raw `parent` pointer. A request carries `by`, the controller it is
meant for, which the code does not have: this is what `MeetsItsScreen` compares.
There is one action for the keys of each kind of screen (`Continue` is the mnemonic
screen, `ChooseOpen` and `FinishOpen` the opening one, and so on), `Escape`,
`HandleSet`, `HandlePush`, `HandlePop` and `End` for the requests, and `Resize`. A
form that is done hands its keys to its parent (`Actor`).

### SensitiveString

Strings with `index`, `max_size` and `_data`; blocks with the positions that hold
secrets; the locked blocks. One action per constructor, assignment, destructor and
mutator, for each that takes memory one in which `mlock` fails, and for the two that
give it back one in which `munlock` fails: in `resize` (`RelocateFails`) after the
string has moved to its new block, in the destructor (`DestroyFails`) with the end of
the program, since nothing catches what a destructor throws. Assigning to a
string that owns memory is legal and loses the block; this and the four other
mishaps are recorded in `odd`, and each invariant names the mishaps it does not
survive. `failed` counts the failing calls, `ended` says how the program ended. Freed
memory keeps its content. That `new` finds no memory is left out.

### Mnemonic, Structs, Codec

`Mnemonic` has `bitsplit_11`, the lookup by `lower_bound`, generation, and the
joining and splitting of the words; the digest, the random word and PBKDF2 are
inputs, so a seed is the text that is hashed. The dictionary is a constant, of which
`IsWordList` says what the code relies on: words without a space, in the order the binary
search compares by. The checksum behind the entropy is one byte, so `MnemonicReadsBack` is
about entropies it has the bits for, up to 35 bytes (the program draws 24). `Structs` has `serialize` and
`deserialize`, with the sign of `char`, the two-character buffer of `to_chars` and
what `from_chars` accepts, and the bytes `encode_secret` reads. `Codec` feeds them
every byte string and every text up to a bound.

## Runs

| Run | Configuration | Shows |
|---|---|---|
| `keychain` | 2 accounts, 1 seed, paths 1..3, `ByteSize` 2, 2 unflushed writes, all faults | `TypeOK`, `CreationIsOrdered`, `CounterCoversEntries`, `DistinctSecrets`, `GrantIsFresh`, `ImplementsRegistry` |
| `keychain_backup` | 2 accounts, 2 seeds, 2 passwords, paths 1..2, 1 exported file, whole or cut short, crashes | `TreeIsStored`, `NoForeignImport` |
| `window_manager` | 2 keys, 1 resize, 2 screens opened | `TypeOK`, `MutualExclusion`, `NoLostWakeup`, `KeysInOrder`, `NeverEmpty`, `KeysGetThrough`, `ShutdownCompletes` |
| `main_screen` | 4 objects, 2 forms, 1 key typed ahead or failing call | `TypeOK`, `TreeIsATree`, `RowsShowTheTree`, `RowsKeepParents`, `FormsMatchState`, `UndefinedNeedsHaste`, `CursorFollows` |
| `screens` | 6 controllers, 5 of them open, 4 keys typed ahead, 1 resize, 1 failing call | `TypeOK`, `MeetsItsScreen`, `ParentsOutliveForms`, `WindowsAreInitialised`, `OneMain`, `NeverTrapped`, `TopAnswers` |
| `sensitive_string` | 2 strings, 3 blocks of which 2 share a page, sizes to 2, 2 failing calls of `mlock` or `munlock` | `TypeOK`, `OwnedOnce`, `WithinBlock`, `FreedIsClean`, `NothingLeaks`, `StaysLocked`, `PushBackIsSafe` |
| `codec` | byte strings over 7 bytes and texts over 6 characters, up to length 4; 4 words | `WordsCarryTheBits`, `MnemonicReadsBack`, `HexReadsBack`, `SecretReadsInside` |

Why the bounds are enough. With two accounts and three paths every clash has
room: one path lost in a crash, one used, one more. `ByteSize` 2 makes paths
cross the byte boundary (2 and 3 have a high byte of 1), so dropping a byte is
seen. Two unflushed writes are exactly the counter and the tree of one new
entry. One exported file, two seeds and two passwords give every pairing of the
exporting and the importing user. In `keychain_backup`, `Faults` has the death of the
process and the file that is cut short while it is written; it leaves out
write errors because `TreeIsStored` is only true without them, and the power
losses because that run is about sessions. Two keys let one be handled or queued while the
other is read; one resize interrupts either thread anywhere (both at once are left
to the proofs, which hold for any number); two screens opened allow a form over a
screen and an error screen over both. Four objects are the root, a directory in it,
an entry in that and a copy of one of them, or the root with a child pasted whole
into itself; two forms are a form and what covers it or is opened twice; one early
key is enough for every double request, and one failing save for a stale cache. Five open controllers are the menu, the main screen, its form, an
error and one request; four early keys close a form, its parent and what was below, and
are as many as a second main screen takes without a resize.
Two strings are all that any member takes, three blocks the old and the new one and
one that is left behind, and two failing calls leave two blocks behind. The bytes of `codec` are those next to the borders of a
nibble and of a signed character, its words contain the beginnings of others, and
four bytes carry two words and a remainder. What these bounds limit is proved for every
value as well.

The limits `MaxPath`, `MaxUnflushed`, `MaxFiles`, `MaxKeys`, `MaxResizes`,
`MaxPushes`, `MaxForms`, `MaxMishaps`, `MaxOpen`, `MaxRushed`, `MaxThrown`, `MaxSize`,
`MaxFailed` and `MaxLength` are bounds of the model and guards of its actions. What
those of `Keychain`, `WindowManager`, `MainScreen`, `Screens`, `SensitiveString` and
`Codec` limit is proved for every value, but for the properties listed below as only
model-checked.

`CHECK_DEADLOCK FALSE` is set where the system may stop: the window manager, whose
program ends and which a signal can deadlock; the main screen and the screens, which
are closed or run into undefined behaviour; sensitive strings, for the same reason;
and `Codec`, where texts end at their bound.

### Fairness

Safety needs none. `WindowManager!Fairness` is weak fairness of each thread and
of each interrupting handler (the operating system schedules them) and strong
fairness of taking the mutex. The second is an assumption on the mutex:
`std::mutex` promises no order, but the input thread sleeps 10 ms whenever
nothing is typed and each section is a few instructions, so nobody finds the
mutex taken at every attempt. With weak fairness alone TLC shows the only
starvation left: a main thread that wakes spuriously forever. Nothing is assumed
of the user, of signals, or of spurious wakeups.

### Disagreements between the code and what is said of it

Each is a run that TLC finds violated.

| Run | What is said | What the code does |
|---|---|---|
| `keychain_imported_paths` (`ImportKeepsSecretsDistinct`) | README.md: synchronization of passwords across devices | neither the export nor the import carries the counter, so the first new entry after an import gets the path, and the password, of an imported one |
| `keychain_export_path` (`ExportPathIsReserved`) | keychain.h:34: "should be predefined and reserved" | the 255th entry gets the path whose key encrypts exports |
| `keychain_edits` (`EditsSurvive`) | help of the main screen: "<e> to edit" | accepting a field changes the tree in memory and nothing saves it |
| `keychain_wrong_password` (`OpenedMeansDecrypted`) | open_keychain_screen.cpp:135: "and master seed decrypted" | `Keychain::open` does not read the seed; any password is accepted |
| `main_screen_rows` (`SelectedRowExists`) | keychain_main_screen.cpp:222: "cut/delete entry or group" | a delete leaves the cursor where it was; after the last row is deleted, the next drawing reads behind the rows |

`SelfDeadlock` in WindowManager is no disagreement with a document, but real: a
SIGWINCH that arrives while its own thread holds `ev_mutex` makes the handler
wait for a mutex that nobody will release. Both liveness properties except
exactly this state, so the run also shows that it is the only way to get stuck.

### What else the models show to happen

These contradict no document, so no run is about them; the invariants name them as
the only exceptions.

* Deleting the root entry of the tree dereferences a parent that is null, with no
  haste at all; confirming a delete twice, or after a save that threw, erases
  `end()` (`UndefinedNeedsHaste`).
* A failed save leaves a form that is done, a state that does not match it and rows
  that do not show the tree; the pop queued before closes the error screen instead
  of the form (`FormsMatchState`, `RowsShowTheTree`).
* Enter typed twice at "Create keychain" replaces the screen whose form is about to
  be initialised through its pointer (`ParentsOutliveForms`); a main screen destroyed
  before it was ever initialised clears windows it never had
  (`WindowsAreInitialised`).
* A key typed while the keychain is being created makes the mnemonic screen try
  again and fail; the main screen then replaces the error instead of the mnemonic,
  and once it is closed every key leads to an error and back (`NeverTrapped`).
* A resize between a choice at the opening menu and the push it asked for brings the
  menu back, from which a second main screen opens; so do four keys typed ahead, but
  not three (`OneMain`).
* Five keys typed ahead can leave a form that is done, and has no parent, on top with
  nothing pending: it takes no further key (`TopAnswers`).
* Assignment loses memory with its secrets; a string made from an empty literal
  has capacity and no memory, and `push_back` writes through its null pointer;
  freeing one string unlocks the page of another (`NothingLeaks`, `PushBackIsSafe`,
  `StaysLocked`).
* Each `mlock` or `munlock` that fails loses a block, which is wiped but never freed;
  one that fails in a destructor ends the program (`NothingLeaks`).
* An export that was cut short by a write error is reported as a success; the import
  refuses it (`NoForeignImport`).
* The mnemonic screen runs words together when a word equals the last one; the seed
  is the same, because spaces are not hashed (`MnemonicReadsBack`).
* Hexadecimal text of a `Ciphertext` with a negative character does not read back,
  and capital letters, and pairs like `7x` whose second character is no digit, are
  read but never written (`HexReadsBack`).

## Proofs

All theorems hold for every value of the constants allowed by the named
assumptions.

**Keychain** (assumptions: `MaxPath` below `ByteSize^2`, the sentinel `None` is
no value of a cell). `IndInv` is the inductive invariant:

* `HandlerInv`: what a handler that has come so far has in memory and on disk;
* `CreationIsOrdered`: the cells of every recoverable image form a prefix;
* `CounterInv`: the counter on disk is at least the counter and every path of
  every image a power loss can bring back (`StoredInv`), at least every path in
  memory (`LiveInv`), and a path handed out equals it and exceeds all others
  (`GrantInv`);
* `OneHolder`: one account per path.

`CounterCoversEntries` alone is not inductive: a power loss takes the counter
back, and it is only because *older images have both older counters and older
entries* that what comes back still covers its own entries and that memory,
which dies with the machine, cannot hold a newer path. `OneHolder` is preserved
because a step either creates no claim (`StepClaims`) or adds one whose path is
ahead of all others. `DerivationDataInjective` (two bytes determine a path below
`ByteSize^2`) turns one holder per path into distinct secrets. `Refinement` maps
`held` to the claims in memory and in all recoverable images: `AddEntry` is
`Claim`, every other step forgets or stutters.

**PathRegistry**: one account per path.

**WindowManager** (assumption: the bounds are natural numbers). `IndInv` adds to
the properties `InHandInv` (whoever is about to queue has something to queue)
and `FoundEmpty`: a queue found empty under the mutex still is when the wait
begins. `NoLostWakeup` follows from `FoundEmpty`, which follows from
`MutualExclusion` including that no handler is inside its section while its own
thread is inside one. `KeysInOrder` speaks of one sequence put together from four:
delivered, in the main thread's hand, queued, about to be queued. `KeysFlow` says of
each which keys it holds and that they come before those of the next; a key only
moves from one place to the next (`FlowStep`), and four places in order are one
sequence in order (`FlowInOrder`). That needs `Keyless`: no handler asks for a key.

**MainScreen** (assumptions: the identities are a finite set with `Root` in it, `None`
is neither an identity nor one of the words for what broke, the bounds are natural
numbers). `IndInv` is checked in three layers.

* The heap (`ObjectsLive`, `RowsHang`, `RowsKeepParents`). `Tree` is
  `TreeIsATree` with types and `Linked`: children are alive, a parent is alive or
  null and a directory. `TreeIsATree` alone is not inductive, since `Reclaim` drops what nobody
  holds, and a parent pointer into what was dropped has to expire. `Reopened`,
  `Inserted`, `Added`, `Grafted`, `Erased` and `Trimmed` say that each operator on the heap
  keeps a tree a tree; `Acyclic` survives a paste of a directory into itself because
  what is inserted is a copy, new and with nothing old below it. `RowsHang`
  makes `RowsKeepParents` inductive: fresh rows hang from one another by the tree, and
  stale ones (after a save threw) keep each other alive. `FlattenLists` gives the first half: what the loop
  has listed and has still to visit are always children of what it has listed, by induction
  over its rounds.
* The user who waits (`Patient`): one request on its way, every form but the top one
  done, and a form that deletes holds a row. `UndefinedNeedsHaste` is inductive
  with it: a row that is fresh and not the root has its parent, and its parent has it.
* And a disk that works (`Calm`): the four places the screen can be in
  around a form (browsing, the form asked for, the form open, its pop on the way) with
  the state each has, from which `FormsMatchState` is read off.

`SoundStep`, `PatientStep` and `CalmStep` are the three steps, with a lemma per action or
kind of action.

On top of it, `MainScreenRowsProofs` has what the rows show. `Preorder` is defined by
recursion, the loop of `flatten_dirs` by rounds; that they agree is an invariant of the
rounds (`After`): what is listed, followed by the preorder of what is still to be
visited, is the preorder of the root, and nothing is in it twice. That nothing is in it
twice is why as many rounds as there are objects are enough. The recursive
definition has one solution on a tree (`PreorderUnique`: an object where two differ,
with no such object below it, would have the same below it in both; `PreorderExists`:
the largest set closed below on which it has one is everything), so `PreorderIs` can
speak of it. `RowsAreTheTree` is then an invariant with `IndInv`: a step that changes the
tree flattens it or makes the rows stale (`RowsStep`), and what dies in the step
shows nowhere in the tree (`ReclaimedPreorder`). `CursorStaysIn` needs more of
what a step may do: a tree in which every row shows what it did has as many rows
(`Longer`), one that differs in what the row at the cursor shows has the same rows up to
there (`SameUpTo`, by the rounds of both loops), and one that lost no object of the old
tree did not lose a row (`ErasedIsLost`).

**Screens** (assumptions: `None`, `"parent"` and `"windows"` are no identities, the
bounds are natural numbers). `IndInv` has three parts, for three kinds of user.
`Structure` holds whatever is typed and whatever fails: a controller has the form of
its kind, identities are not shared, what was asked for is not initialised yet, a
parent is below its form, and whoever takes the menu of the opening screen away asked
for something. `Patient` is for the user who waits (`rushed = 0`), though calls may
fail and windows be resized: what is pending was asked for by a single key
(`OneBatch`), so a form finds its parent and what is done is about to go. `Steady` adds
that nothing fails: requests then are those of the controllers on top
(`AskedFromTheTop`), forms lie on their parents, and the screens that create a
keychain go once it exists. The steps fall into two kinds. A key, whichever handler it
reaches, has an `Effect(s, rs)`: it may change the form on top and asks for `rs`. A
request or a resize initialises the controller on top of a stack that is `Ready`.
Each action is shown to be of one kind, and each part of the invariant to be kept by
both.

`OneMain`, which allows three early keys, has an invariant of its own on top of
`Structure`, `MainOnce`: there is at most one main screen, on the stack or asked for.
A key asks for one only if it makes the keychain exist, so that there was none, or if it
is the choice in the menu of the opening screen (`AsksOnce`), which goes with it. What has
to be shown is that the menu cannot be back while that main screen, or another, is still
asked for. `MenuWaits` bounds this by the keys: over the opening screen there is at most
one request more than there were early keys, and not even that one more when the first
is to cover a menu that is there, since the key that asked for it was then early too. So
with two early keys the request for the main screen is the first, or the second over the
opening screen alone, and what is handled before it covers or replaces the menu, or ends
the program. A third may leave it behind a pop that brings the menu back; the fourth
chooses there.

**SensitiveString** (assumption: the blocks are a finite set, of which `None` is none, the
default capacity is positive, the bounds are natural numbers, the crowded page is a set of blocks).
`IndInv` adds to the properties `Covered` (the secrets of a string lie within the
capacity it will wipe, which makes `FreedIsClean` inductive), `MemoryBehind` (only
an empty literal gives capacity without memory, which makes `PushBackIsSafe`
inductive) and `GoneIsEmpty` (a string that is gone owns nothing, so a new one
forgets nothing). There is one lemma per action. `NothingLeaks` counts the blocks
without an owner against the calls that failed: a step after which each of them was
one before keeps the count (`LeaksStay`), and a failing call adds one block that holds
no secret (`OneMoreLeaks`).

**Sessions and backups** (also `KeychainProofs`). `ShownIsStored`, assuming no
write errors: `StoredTree` extends `TreeIsStored` to the moment between the two
writes of a new entry. `ImportsAreOwn`, assuming no power losses (which may take
exported files away): `Backup` says that the file being imported is one of the
files and whole, and that the database it is imported into is new, under the seed and the
password that were typed.

**Codec** (assumptions: the bytes are numbers below 256, the characters numbers below
128, and the dictionary is a list of words without a space, in strictly increasing order;
the list of `mnemonic-wordlist.cpp` is one, 2048 lower case words sorted). The state is any
byte string or any text, so the theorems are about the conversions for every input, of any
length. The folds and recursive functions are first replaced by what they compute, each by an
induction over the positions of its argument (see below):

* `FlattenPairs` has each member of a sequence of pairs by its position in the flattened
  one. `SerializeIs` has each character of the text by its position from that.
* The rest of the hexadecimal form is one byte and its two characters: `PairReadsBack`, and
  `PairWrittenBack`, which is where capital letters and half-read pairs get lost, as the
  characters written are digits in `LowerHex`; a negative character
  is an error or is written as a zero and a minus sign, which reads as 0
  (`DigitsOfNegative`).
* `BitsInWords`: the three bytes a word is read from hold one number, the word is eleven
  bits of it, and `BitsFrom` reads the same bits one at a time (`OneBitMore`, `BitsFromIs`).
* `MnemonicRoundTrip`: words without spaces, joined with spaces and split at spaces, are
  what they were (`SplitNoSpaces`, `CombinedReadsBack`); a word of the list is found where
  it is, since the binary search narrows its range to the one place the order leaves
  (`SearchFinds`, `LowerBoundIs`, `FindIs`); and what is generated consists of words of
  the list (`GeneratedWords`).

`EncodeSecretInside` is arithmetic on the positions read.

Only model-checked:

* the liveness properties: fairness and ENABLED are out of the prover's reach.

On induction: the library's induction theorems take an operator as a parameter, which
the provers cannot instantiate. What a recursive function does can still be proved
where the claim for each number can be put in a set: `InductionUpTo` in
`MainScreenProofs` and `CodecProofs` is induction up to a number for a set, from the
well-foundedness of the natural numbers, `RunExists` that a function defined by steps takes
them, and `SeqInduction` the same for a set of sequences; induction over a tree takes the
object furthest down (`LowestExists`).

## Not modelled

`ByteArray`: it has no pointer to lose; that its copies are neither locked nor wiped
needs no order of events to see. The arithmetic of `encode_secret`: a hash with no
property but its alphabet, whose terminating NUL it may pick. The bits of the
cryptography: out of reach. That the words typed at an import are never looked up,
although a test is called "seed calculation throws on invalid word" and marked as a
TODO: visible in one line of code. The JSON text of the tree. Output, colours,
utilities, the spelling of the words in the list, the Qt stub: no state that a property could
be about. LevelDB, curses, the signal mechanism and pthreads are external and
modelled by how the code uses them.

## Plan

Done: storage, window manager, main screen, screens, sensitive memory and
conversions, with the proofs listed above. Left: the refinements between modules,
`Screens` as an implementation of the reactions of `WindowManager`, and `MainScreen`
of the set operations `Copy`, `Paste` and `Delete` of `Keychain`.
