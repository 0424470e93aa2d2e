# A TLA+ model of the Flare application for Ledger devices

The application keeps a private key on a device with a screen. A host sends it commands
(APDUs); the application shows transactions, hashes and addresses on the screen and
signs what the user approves. These modules model the application's own code
(`app/src`): the dispatcher of commands, the upload and review of documents, the parser
of Flare transactions, the items the user sees and how they are drawn, and the answers
the host gets. TLC checks them on small instances; TLAPS proves the safety properties of
the dispatcher, the parser, the review items, the output walk, the reviews as they are
drawn, the address command and the text of amounts for every instance, and that what the
parser accepts is what the screens show.

Paths below are relative to the repository; a file name without directory is in
`app/src`.

## Inventory

| Component | State | Operations | Hard about it |
|---|---|---|---|
| Dispatcher (`apdu_handler.c`) | `tx_initialized`, `g_review_pending`, `hdPath` (in `crypto.c`), `G_io_apdu_buffer` | `handleApdu`, one handler per instruction, `process_chunk`, `extractHDPath` | commands arrive while a screen is up; state is shared between commands; errors are thrown out of half finished handlers |
| Upload (`common/tx.c`) | the RAM/flash buffer, `tx_obj` | `tx_initialize`, `tx_reset`, `tx_append`, `tx_parse` | one buffer for three kinds of upload |
| Review callbacks (`common/actions.h`) | the lock, the reply buffer | `app_sign`, `app_sign_hash`, `app_sign_eth`, `app_sign_evm_eip191`, `app_reply_address`, `app_reject`, `app_reply_error` | run later than the handler that opened the screen, on whatever the state then is |
| Flare parser (`parser_impl.c`, `parser_impl_common.c`, `tx_pchain.c`, `tx_cchain.c`) | offset, `tx_obj` | `_read` and the parser of each transaction type | counts, lengths and sums from the host; fixed width integers; ignored results |
| Flare items (`parser.c`, the `print_` functions) | none: computed anew for each screen | `getNumItems`, `parser_getItem`, `parser_validate`, `tx_getItem` | index arithmetic over lists of lists, index type conversions, fee arithmetic |
| EVM items (`evm/parser_impl_evm_specific.c`) | none | `getNumItemsEthAppSpecific` and two printers | chained shifts of the index |
| EVM commands, RLP parser, main loop, screens, buffering, settings | path, upload flag, settings | | in a git submodule (`deps/ledger-zxlib`): external, modelled by interface |
| Address command (`addr.c`, `crypto.c`, `crypto_helper.c`, `handleGetAddr`) | `bech32_hrp`, `hdPath`, `action_addrResponseLen`, the reply buffer | `extract_hrp`, `app_fill_address`, `crypto_fillAddress`, `addr_getItem`, `app_reply_address` | four globals that other commands write too; refused commands leave them half written; error codes used as lengths |
| Formatting (`parser_print_common.c`) | none | `printAmount64`, `printAddress`, `printNodeId`, `parser_get_network_id` | trimming in place, tables per network, buffers sized to the last byte |
| Hashing and encodings | none | SHA-256, RIPEMD-160, Bech32, Base58 | external functions, told apart by their arguments |

The program has one thread. The external main loop waits for an event - a command or a
button - and runs `handleApdu` or a callback to completion; so the atomic steps of the
model are whole handlers and whole callbacks, and all concurrency is in the order of
events. A handler ends in one of three ways: it throws a status word (the answer is sent
at once), it opens a review and raises `IO_ASYNCH_REPLY` (the answer is the callback's,
and `handleApdu` takes the review lock), or it raises the flag *and* throws (the blind
signing error screen: no lock, the answer is the callback's).

What makes each component correct:

* dispatcher and callbacks: what is signed is what was shown, once; nothing under review
  changes; the lock is held exactly during reviews and always released; every command is
  answered once; an upload is made of the chunks of one session and signs with the path
  of that session;
* parser: it never leaves its buffer; what it accepts it has read to the last byte, with
  exact sums, one asset, and no more items than the screens can number;
* items: every item of a transaction is shown once, in order, and the fee is true; the
  walk that finds an output again for a screen stays in the document and ends at the
  field the item is about;
* parser and items together: the counts and sums in `tx_obj` are those of the outputs on
  the screens, and the fee is all inputs less all outputs;
* a review as a whole: no screen mixes two documents, a signature comes after every item
  of its document was drawn, and the user can always get to the end;
* address command: the answer is the key and address of the command's own path and
  prefix, and what was confirmed is what was drawn;
* formatting: the text of an amount is that amount, in lowest form, and tells the
  network.

`PROJECT.json` lists the hazards with their lines and the properties aimed at them.

## Modules

| Module | Models |
|---|---|
| `ReviewPromise` | the abstract specification: at most one request under review, never exchanged, a signature only for what was under review |
| `AppDispatcher` | dispatcher, uploads, callbacks, restart; EVM commands, menu and device lock as external actions |
| `MCAppDispatcher` | its instance for TLC |
| `TxDefinitions` | the transaction types and the widths that parser and items share |
| `TxParser` | the Flare parser, field by field |
| `TxItems` | the items of a parsed Flare transaction, as functions of it |
| `TxDocument`, `MCTxDocument` | composition: `TxParser` and `TxItems`, the transaction an accepted document leaves |
| `TxDisplay`, `MCTxDisplay` | the validation and the review of its items |
| `EvmDisplay` | the items of EVM transactions |
| `OutputWalk`, `MCOutputWalk` | the walk over byte positions that finds an output for a screen |
| `AppReview`, `MCAppReview` | composition: `AppDispatcher`, the items of `TxItems` and the screens, item by item |
| `AddressReview`, `MCAddressReview` | the address command from its bytes to its answer |
| `PrintCommon`, `MCPrintCommon` | amounts, node ids and the network on the screen |
| `RunningTotals` | sums over the first numbers of a sequence, for `TxItems` and `OutputWalk` |
| `TxItemsProofs` | lemmas about sums and concatenations of any length, and about `TxItems`: the item at an index is the item of the document |
| `TxParserProofs` | theorems about `TxParser` and `TxDocument` |
| `AppDispatcherProofs`, `TxDisplayProofs`, `OutputWalkProofs`, `AppReviewProofs`, `AddressReviewProofs`, `PrintCommonProofs` | theorems about the module each is named after |

### AppDispatcher

Actions carry the name of the function they model. A handler with several outcomes is
one action with a disjunct per outcome (`handleSign`, `handleSignHash`,
`handleGetAddr`); the phases of `process_chunk` are shared: `SignInit`, `SignAdd`,
`ChunkNotInitialized`, `ChunkTooBig`, and `LastChunk` as the first part of `handleSign`
and `handleSignHash`. `RejectWhilePending` is the lock; `RefuseCommand` are the errors
that precede any effect.

Data is abstracted as follows. A document is a sequence of `Byte`, a chunk one of
`Chunks`; what `tx_parse` (with `parser_validate`) accepts is the set `Transactions`,
what `hash_parse` accepts a length. A path is a value of `Paths`; `FlarePaths` are those
with the two words `extractHDPath` demands. `parsed` is the document `tx_obj` was
computed from. `G_io_apdu_buffer` holds an address or something that is not one
(`apdu_buffer`). `screen` is the approval callback of the screen shown. A signature is a
record of its kind, the document signed and the path of the key.

`session` and `issued` are history variables: what the host sent since its `P1_INIT`,
and the signature a callback has just made. `owed` counts the commands received and not
yet answered: it goes up when a handler leaves its answer to a callback and down when a
callback runs. All three are read by no guard of the code's behaviour; `owed` also
bounds the model (`MaxOutstanding`): a host that leaves commands unanswered stops
sending at that number.

The EVM handlers are external. They write the same buffer (`app_sign_eth` reads
`tx_get_buffer`) and keep a path and an upload flag of their own, because
`tx_initialized` is static in `apdu_handler.c`. So an EVM chunk in the middle of a Flare
upload is possible and modelled; the upload is then marked `shared` and what it contains
is no longer what its host sent as Flare chunks. The signature is still of what is
shown, which `SignsWhatIsShown` states and `UploadIsSession` excepts.

Callbacks run only on an unlocked device (`pin`); commands that check the PIN need it
too, and `handleGetAddrEth` is dispatched without the check, as in the code.

### TxParser

A document is chosen as it is read. Each action models reading one header, list count,
list element or field: it picks the values on the wire, legal and illegal, and either
advances or rejects. `Layout` gives the order of the sections of each transaction type
from the base section on, spelled out per type because the proofs ask what is still to
come. `obj` is what the parser stores (count, addresses, sum per list); `seen` the same
in unbounded arithmetic, `spent` the bytes the fields claim to have, `memo` how many of
them are a memo's. The properties compare these with the variables of the code, which
have the widths of their C types (`offset` 16 bits, counts, addresses and `left` 32,
sums and the weight 64, each width a constant). `spent` runs ahead of `offset` in two
places: `parse_evm_output` ignores the result of a skip, and `parser_base_tx` reads a
memo's length and never skips its bytes (`ReadMemo`), so that whatever follows is read
from where the memo begins. `tx_parse` starts over on another document, so what one document leaves
behind is visible in the next. The code's order of checks within an element decides only
the error code.

### TxItems, TxDisplay and EvmDisplay

`TxItems` is the part without state: `Items` is what a transaction has to show, written
from its contents; the other operators translate the code, which computes each screen
from the item index alone, up to `parser_getItem`, `tx_getItem` and `Validated`, the
result of `parser_validate` as a whole. A transaction is described by what the parser
leaves of an accepted one (`IsDocument`): sums of 64 bits, outputs with any number of
addresses. `TxItems` is a module of its own so that `TxDisplay` and `AppReview`, which
have different state, use the same translation.

`TxDisplay` is the state machine: validation (every item once, forward) and review (back
and forth). The output walk of `parser_get_secp_output_for_index` is a function of
running totals (`ItemAmong`): the first output with which the items counted reach the
wanted one.

### TxDocument

`TxParser` counts outputs and adds amounts up; `TxItems` starts from outputs. Here every
step of the parser that adds an element to a list with screens of its own (`ShownList`)
also appends that output to `outs`: its amount is what the step adds to the sum, its
address count what the step adds to the addresses (`NewOutputs`). `outs` is a history
variable: the code keeps a pointer to the outputs and reads them again. `Document` is
the transaction the screens then work on, its sums being those of `tx_obj` each printer
takes for the fee (`In`, `In2`, `Out`); for a staking transaction the stake shown is the
weight, which the parser has compared with the stake outputs. Whether the other chain or
the times of a document can be printed (`known`) is not decided by its outputs, so the
properties ask for both.

### OutputWalk

`parser_get_secp_output_for_index` and `parser_get_evm_output_index` as the code runs
them: one action per step of its loops (`SecpOutput`, `SecpAddress`, `EvmOutput`), an
`offset` into a context that starts at the list. A list is the address counts of its
outputs; what is read at a position is right when the position is the field's and may be
anything otherwise. The bound of the context is the code's: one byte more than what is
left, and the whole length for base outputs, whose `outs_offset` is not set.
`StaysInList` says that nothing outside the list is read all the same; `FindsItsField`
that the walk ends where `TxItems`, which takes it for a function of the outputs, says
it does.

### AppReview

`AppDispatcher` takes a document for shown once its review is. Here the screens ask for
the number of items (`itemCount`), then draw one item at a time (`cursor`); every draw
computes the item from the globals as they are then: the counts from `tx_obj`
(`parsed`), the outputs and the hash from `tx_buffer`, the number of items from the
expert mode. `Meaning` gives each accepted document its contents, as a document of
`TxItems`, and the items are the operators of `TxItems` on them. That an accepted
document is one `parser_validate` let pass is the named assumption `MeaningAssumption`:
`tx_parse` is called from `handleSign` for both (`common/tx.c:55-75`). That the contents
are a document of `TxItems` is what `AcceptedDocuments` proves of the parser; and it is
assumed for both expert modes because the mode only adds the hash, for which the
parser's limits leave room (`ItemsFitInByte`). Any command of `AppDispatcher` can come
between two draws. The approval is offered after the last item. `drawn` is a history
variable. How the screens page is external: the count is asked for once, paging goes
back and forth, a rejection is always possible.

### AddressReview

`AppDispatcher` takes the content of an answer for one value. Here `INS_GET_ADDR` is
followed from its prefix and path through `bech32_hrp`, `hdPath`, the key and the text
in `G_io_apdu_buffer` and `action_addrResponseLen` to the bytes sent. Each outcome of
the handler is a disjunct: a prefix of a bad length, a bad path, an answer at once, a
review. Other commands are modelled by what they write to these globals. `asked`,
`drawn` and `disturbed` are history variables: what the command asked for, the items
drawn, and whether the host sent anything during the review. Keys and addresses are
records of what they are made from. A prefix is some bytes (`len` of them), which the
code then uses as a C string (`str`): one with a zero byte in it has the address of the
shorter prefix before it. An encoding fails, as Bech32 demands, for capitals and for
texts over 90 characters; the buffer then holds some text (`Partial`) and the error code
serves as its length. `AnswerIsAsked` is what the code guarantees for all prefixes;
`AddressIsWhole`, in `MCAddressReview`, is what `docs/APDUSPEC.md` says.

### PrintCommon

An amount is the sequence of its decimal digits, since it has 64 bits. `printAmount64`
is the chain of in-place edits the code makes: insert the point, trim the zeros at the
end, `remove_fraction`, append the symbol. A node id is the length of its Base58 text,
computed by dividing its bytes by 58 until nothing is left. `AmountsAssumption` and
`NodeIdsAssumption` say what an amount and a node id are: up to 20 digits without
leading zeros, and 20 bytes with a checksum of 4. The network id is read by
`ReadNetwork` and chooses the symbol and the address prefix, each from its own table.
`AmountIsReadable` and `NodeIdFits` include that the buffers are long enough.

## What TLC checks

| Run | Module, states | Shows |
|---|---|---|
| `dispatcher` | `MCAppDispatcher`, 14,278 | type, lock, replies, upload, review, freeze, one review per upload, refinement of `ReviewPromise`, release of the lock |
| `patient_host` | `MCAppDispatcher`, 6,058 | address reviews and answers, for a host with at most one command outstanding |
| `address_reply` | `MCAppDispatcher` | violation: see findings |
| `parser` | `MCTxDocument`, 218,870 | bounds, alignment, sums, assets, item count; counts, sums and outputs of an accepted document agree, its screens show the outputs as read, the fee is all inputs less all outputs |
| `display` | `MCTxDisplay`, 21,474 | completeness of the review, the fee, for all seven transaction types |
| `evm_display` | `EvmDisplay`, 281 | completeness of EVM reviews, for all kinds of transaction |
| `output_walk` | `MCOutputWalk`, 1,842 | the walk over the outputs stays in the list and ends at the right field |
| `print_common` | `MCPrintCommon`, 12,686 | amounts are exact and in lowest form, the network is visible, buffers are long enough |
| `address_review` | `MCAddressReview`, 744 | answers are those asked for, confirmed is what was drawn |
| `long_prefix` | `MCAddressReview` | violation: see findings |
| `app_review` | `MCAppReview`, 18,484 | no review mixes documents, signatures come after all items, reviews end |
| `native_asset` | `MCTxDocument` | violation: see findings |

Each property has a mutant: a definition with a plausible mistake (`..._KeepsLock`,
`..._StalePath`, ...), kept beside the original, for which TLC finds the property
violated. They are not part of the specification.

### Bounds

* `dispatcher`: two bytes, chunks of no or one byte, a buffer of two, so uploads of one
  and two chunks, empty chunks and full buffers occur; two accepted paths, one refused
  and one of the EVM handlers, so a path can be exchanged for another; `MaxOutstanding =
  2`, so a command can arrive under a screen, under the error screen, and be turned
  away. All properties relate at most two commands and one screen; the proofs remove the
  bounds for the safety properties.
* `patient_host`: the same with `MaxOutstanding = 1`, which is the assumption the run is
  about.
* `parser`: lists of up to two elements, so the second element meets a first asset, a
  first amount and a first address count; amounts of 0 and 1 with a `UINT64_MAX` of 1,
  so sums wrap; `UINT8_MAX = 8` leaves `MaxAddrs = 3`, so two outputs of two addresses
  exceed the cap; 23 document lengths, of which some end within a field and others admit
  documents with base and exported outputs, base and imported inputs, stake outputs and
  EVM outputs, so that each term of each fee is on and off. A memo has at most one byte
  (`MAX_MEMO_LEN = 1`); documents without one, with one and with one too long occur, and
  some with one are accepted. Field lengths are the real ones, and `UINT16_MAX` and
  `UINT32_MAX` are small numbers no smaller than the longest document. One address suffices: which address stands where is copied, not computed.
* `display`: up to two outputs of no, one and two addresses, three EVM outputs, amounts
  with `UINT64_MAX = 3`; with `UINT8_MAX = 9` the longest reviews have exactly as many
  items as the parser's cap allows, and half of their indices are negative as a signed
  index.
* `evm_display` is complete: the code distinguishes no more cases than `Docs` has,
  except transactions with neither recipient nor data (below).
* `output_walk`: every list of up to three outputs with up to two addresses each, so
  outputs are passed over, ended in the middle and asked for last; both kinds of place
  (base outputs, followed by other sections; exported outputs, at the end).
* `print_common`: whole parts from nothing to the largest, every pattern of zeros and
  non-zeros in the nine decimals, and the largest `uint64_t`; all four networks and an
  unknown one; the shortest and longest node ids with any number of zero bytes in front.
* `address_review`: two paths and two good prefixes, so one can be taken for the other;
  the longest prefix allowed, one in capitals, one with a zero byte behind the letters
  of a good one, one too short and one too long.
* `app_review`: the buffers and paths of `dispatcher`; two documents with different
  outputs, one with and one without addresses, of equally many items, so that a screen
  of one under the count of the other goes unnoticed by the screens; expert mode on and
  off. `UINT8_MAX = 5` is the number of items of the longest review.

### Fairness

`FairSpec` assumes that the user unlocks a locked device (weak fairness) and that a user
who finds a screen answerable again and again answers it (strong fairness, since the
device may lock itself in between). The code has no timeout on a review, so nothing
weaker answers one. The host is under no obligation, and no fairness is given to
commands, menu or restarts.

`FairAppSpec` says the same of a user who pages: one who comes to an item again and
again pages on from it in the end (strong fairness for each item by itself, so that
paging back and forth between two items is not excluded beforehand), one who comes to
the approval again and again approves, and the screens without items are answered.
Nobody need ever reject, so `ReviewEnds` says that whoever pages on gets to the approval. An item that cannot be
drawn does not stop the paging in the model; that none exists is `DrawnIsSignable` and
`ReviewIsComplete`.

No run of the parser or display is about progress: they are loops over finite counts.

Deadlock is checked in every run.

## What is proved

All theorems hold for every value of the constants that satisfies the named assumptions
of the modules; TLC evaluates each assumption in a run.

| Module | Assumptions | Theorems |
|---|---|---|
| `AppDispatcherProofs` | `ConstantsAssumption`, `NothingAssumption`: chunks are sequences of bytes, the capacity is a number, no accepted transaction is empty, accepted paths are paths, the unwritten path and `Nothing` are none of the values they mark the absence of | `TypeCorrect`, `LockIsReview`, `AnswersAreOwed`, `UploadIntegrity`, `ShownIntegrity`, `Frozen`, `OneReview`, `Refinement`; `AddressShown` for `MaxOutstanding = 1` |
| `TxParserProofs` | `ConstantsAssumption`: the limits and widths are numbers, and the limits of inputs and memos fit a `uint32_t`; what the limits of outputs can make of items and bytes fits the C type that counts them (`2 * MAX_OUTPUTS + 3 <= UINT8_MAX`, `8 <= UINT8_MAX`, `20 * MAX_OUTPUTS <= UINT16_MAX`), as it does for the code's 64 and 255 | `TypeCorrect`, `ReadsInBounds`, `AlignedWhenAccepted`, `TallyExactWhenAccepted`, `OneAssetWhenAccepted`, `ItemsFitWhenAccepted` |
| `TxParserProofs` on `TxDocument` | the same and `WidthsAssumption` of `TxItems` | `DocumentIsParsed`, `AcceptedDocuments`, `AcceptedReviews`, `WholeFee` |
| `TxDisplayProofs` | `WidthsAssumption`, `DocsAssumption`: widths are numbers, the transactions are what a parser can leave | `TypeCorrect`, `ScreensComplete`, `FeeTrue` |
| `OutputWalkProofs` | `ListsAssumption`, `PlacesAssumption`: lists the parser accepts, anywhere in a document | `TypeCorrect`, `WalkInList`, `WalkFindsItem` |
| `AppReviewProofs` | those of the dispatcher and of `TxItems`, `MeaningAssumption` | `ReviewsRefineDispatcher`, `DrawnHolds`, `SignedIsRead` |
| `AddressReviewProofs` | `ConstantsAssumption`: lengths are numbers, a prefix as a C string is not longer than its bytes, an error code is not zero, unwritten values are none of the others | `TypeCorrect`, `AnswersAsked`, `ConfirmsDrawn`, `PathAsked` |
| `PrintCommonProofs` | `AmountsAssumption`, `NodeIdsAssumption`: every `uint64_t` and every 24 bytes are allowed | `TypeCorrect`, `AmountsAreExact`, `AmountsAreReadable`, `NetworksAreVisible`, `NodeIdsFit` |

Each of these modules proves `InductiveInvariant` (`AppInductiveInvariant` in
`AppReviewProofs`, `DocInductiveInvariant` for `TxDocument`) first, one lemma per action
or group of actions; the other theorems follow from it, the action properties by one
step out of a state that has it.

### Dispatcher

`IInv` is the five invariants that TLC checks and two more facts. `ReviewedIsClosed`
says that an upload under review is no longer open and is the session's; without it a
state with an open upload under its own review would be allowed, in which a second last
chunk opens a second review and `OneReview` fails. `EthPathKnown` says that an EVM
review has a path that was written; it makes what is on the screen a `Request` of the
abstract specification. The refinement maps `review` to what the screen shows - kind,
buffer, path, or `Nothing` - and `issued` to itself. Every command either opens a review
(`Open`), delivers an earlier signature (`Deliver`) or stutters; a signing callback is
`Approve` of exactly the record that was under review, because its argument is read from
the same buffer and path; everything else that ends a review is `Withdraw`.

`AddressShown` has the hypothesis that one command at most is outstanding. It is needed:
the finding `address_reply` is a counterexample for two. With one, a screen is up only
while that one waits (`ReplyIsOwed`), so no command is served or turned away during a
review and nobody writes the buffer.

### Parser

`IInv` relates `tx_obj` to the document at every field, not only at the end: the sums
are the true ones (`SumsAreSeen`: `NoOverflow` kept each from wrapping), the count of a
list is what was read of it and what is left (`CountsAreSeen`), lists not reached yet
are empty (`UnreadIsEmpty`, which is where `tx_parse` zeroing `tx_obj` is needed), the
asset IDs met are the expected one (`AssetsAreExpected`), and every count has passed its
limit (`WithinLimits`). The widths follow and are not assumed: `IInv` has the variables
as numbers (`InNat`), and `TypeFollows` bounds the offset by the buffer, addresses by
the cap the limits of the lists leave, and sums by `SumsFit`, which each addition keeps
because `NoOverflow` is checked before it. `SpentIsOffset` says that the fields claim
`memo` bytes more than were read: the skip whose result the code ignores
(`parser_impl_common.c:340`) never goes unnoticed, as the fields behind it are longer
than what it skips and so are missing too, while a memo always does (`MemoStep`;
`MemoIsRead` says that there is none before its section). `TallyIsExact` also compares the
weight of a validator with its stake, which are in different sections; `TodoInOrder`
keeps the order of the sections still to be read and `StakeIsWeight` the comparison once
made.

### Items and reviews

That screens are complete is a statement about lists of lists of any length, so it needs
induction over data. The library's induction theorems take the property as an operator,
which the provers cannot instantiate; `TxItemsProofs` therefore begins with induction
for *sets* (`Induction`: a set of numbers with 0 and closed under successor is `Nat`,
from well-foundedness of `<`; `BoundedInduction` the same up to a number), and each
proof names the set of the numbers for which its claim holds. Sums are recursive
functions (`Totals`), whose existence and equations are proved first (`TotalsDefined`);
`FlattenProperties` finds the parts of a concatenation again, `FirstReached` says where
a walk over parts of different sizes stops.

`TxItemsProofs` compares the code's index arithmetic with `Items` on that basis:
`SecpOutputIsItem` and `EvmOutputIsItem` for the walks, `TransferShown` and
`StakingShown` for the printers, `CountIsLength` for `getNumItems`, and
`ScreensAreItems` for `tx_getItem` with its conversions. `FeeItemIsTrue` says that a fee
that can be shown is the true one. `TxDisplayProofs` needs little more: the items before
the one validation is at can be shown (`ValidatedSoFar`), and a review is of a document
validated as a whole.

`OutputWalkProofs` follows the walk over bytes. Its invariant says for each point of the
loops how many items lie behind the offset; from it follow that the walk is never out of
outputs before the wanted item, that no check of it fails, that what it reads as an
address count is one (`CountIsRead`: the fields of different outputs are at different
places), and where it ends.

`AppReviewProofs` puts dispatcher and items together. `ReviewsRefineDispatcher`: the
composition does only what the dispatcher does, so its invariant holds here (`AppInv`
contains it). `DrawnIsSignable` needs `Frozen`, which keeps the document under a review,
and `ScreensAreItems`. `SignedWasRead` needs `ReadSoFar`: the screens have drawn every
item up to the one they are at; where the approval is offered, behind the last, that is
all of them.

### From the parser to the screens

`DocumentIsParsed` says that keeping the outputs changes nothing, so all that is proved
of the parser holds in `TxDocument`. `ParseEffects` reduces the parser's actions to
three: a header is read, nothing is added, or one element is added to one list. `DInv`
then has, besides `IInv`, `OutsAreRead`: for the list shown, the outputs kept are as
many as its count, their amounts add up to its sum and their addresses to its address
count. One output more makes one term more (`TotalsAppend`, `OneOutputMore`); that a
type shows at most one list (`OneListShown`) makes the kept outputs its outputs.
`HeaderHasNoOuts` is what keeps `outs` meaningful when the header read later decides
which list is shown. `OnlyItsLists` says that the lists a type does not have are empty; `WholeFee` needs it, because `FeeIsWhole` adds up the sums of all
lists there are.

`AcceptedDocuments` proves of the parser what `TxDisplay` assumes of its transactions
(`DocsAssumption`), and the half of `MeaningAssumption` that says the same; the other
half, that `parser_validate` let the document pass, is the order of the calls in
`tx_parse` and stays an assumption of `AppReview`. `AcceptedReviews` has it as a
hypothesis and follows from `AcceptedDocuments` and `ScreensAreItems`. The count `getNumItems`
computes in `uint8_t` is the length of `Items` because the cap on addresses, proved for
`ItemsFitInByte`, leaves room for it.

### Address command

`PendingIsAsked` says that prefix and path of a pending review are those asked for and
that buffer and length are what `app_fill_address` left, unless the host disturbed the
review; commands cannot write the other globals because of the lock. `DrawnIsFilled` and
`AnswerIsFilled` carry this to what was drawn and what is sent.

### Amounts and node ids

The state machine of `PrintCommon` is simple (`ShowsDocument`: what is on the screen was
computed from the document); the work is in its operators. An amount is padded
(`PaddedDigits`), gets its point (`PointedDigits`), loses the zeros at the end down to
one decimal and then, if nothing else is left, the fraction (`CutZeros`). Whatever the
two trimming functions leave, it is the padded digits with some number of zeros cut from
the end and, behind the point, either nothing or a digit other than zero; `ZerosPutBack`
and `SignificantPadded` then give back the amount. The symbol always fits because a
number has 21 characters at most. `AmountsTellNetwork` and `AddressesTellNetwork` need
that the four symbols and the four prefixes are pairwise different; the symbols are
compared as the last element of the text, after a number of any length.

`NodeIdLength` bounds the Base58 text by 33. Horner's rule gives the digits of base 256
a value (`ValueDefined`); `Div58` divides it by 58 and rounds down (`DividedBy58`), so
`k` divisions divide it by the `k`-th power of 58, and a number of `m` bytes is used up
after `m + 9` of them, since the `m`-th power of 256 is at most the `m + 9`-th power of
58 for every `m` up to 24 (`PowersCompare`). Each zero byte in front is a digit of the
text and leaves a number of one byte less, so the bound does not depend on how many
there are. With the prefix that makes 40, one less than `NODE_ID_MAX_SIZE`; the mutant
is the buffer without that one.

### Only model-checked

* `LockReleased`, `EveryCommandAnswered`, `ReviewEnds`: liveness under fairness is out
  of the prover's reach.
* `EvmReviewIsComplete`: `EvmDisplay` has no constants and a finite state space, which
  TLC goes through completely; a proof would add nothing.

## Findings

* `address_reply`. While an address review is pending, a command turned away by the
  review lock still arrives in `G_io_apdu_buffer`, and its status word is written there
  (`apdu_handler.c:334`). The address screen reads the address from that buffer
  (`addr.c`) and `app_reply_address` answers with it (`common/actions.h:149-153`);
  `docs/APDUSPEC.md:122-123` promises a public key and an address. A host that waits for
  its answers is not affected (`patient_host`).
* `long_prefix`. When an address cannot be encoded, the error code of the library serves
  as its length (`crypto_helper.c:75`), and the answer is sent with success. The encoder
  is external; Bech32 allows 90 characters, which leaves 51 for the prefix.
  `docs/APDUSPEC.md:110` allows a prefix of up to 83 and `:123` promises the address.
  The run shows the command with the longest prefix answered without one.
* `native_asset`. The comment at `parser_txdef.h:225-228` says that every input and
  output is required to carry the native asset of the network, because all amounts are
  shown with its symbol. `verify_asset_id` requires one asset throughout, whichever it
  is (`parser_impl_common.c:87`).

Noted without a run, because no statement of the repository contradicts them:

* memo bytes are not skipped (`tx_pchain.c:53`). A document that ends behind the length
  of its memo is accepted without it, and in one that goes on the next fields are read
  from the memo's bytes. `AcceptedIsAligned` says exactly this: the fields of an
  accepted document claim as many bytes more than were read as its memo is long;
* base outputs of exports, and all outputs of staking transactions, are on no screen;
  `FeeIsWhole` only says that the fee accounts for them;
* the rewards owner of a validator's delegators is parsed and not shown;
* the delegation fee is truncated to a whole percent (`tx_pchain.c:423`);
* an EVM transaction with neither recipient nor data shows an empty "Data" item and no
  hash (`evm/parser_impl_evm_specific.c:199`);
* chain ids are not compared with the network id (`parser_impl_common.c:212`);
* the prefix of an address command ends at its first zero byte (`apdu_handler.c:76`):
  the answer is then the address of that shorter prefix.

And one because what decides it is not here: `docs/APDUSPEC.md:151` and `:194` give the
second word of the path as 9000 or 60, `:113` as 0x80002328 (9000); the code accepts a
single constant (`apdu_handler.c:54`), whose value is in the library.

## Not modelled

* The external library beyond its interface: its directory (`deps/ledger-zxlib`) is
  empty. This includes the move of a growing document from RAM to flash
  (`buffering_append`), for which one capacity stands, the RLP parser and the EVM
  handlers, the paging of one long text (`pageString`) and dates (`extractTime`).
* SHA-256, RIPEMD-160, Bech32, Base58, key derivation and signing: functions of their
  arguments.
* `parser_getErrorDescription`, a table of texts; device variants and build flags.
* Tests, fuzzers and host tooling, which are not part of the program.

## What could follow

Every safety property of the runs except `EvmReviewIsComplete` is a theorem, and the
modules are linked: the parser's documents are those of the items, the items those of
the reviews, the reviews refine the dispatcher, and the dispatcher refines
`ReviewPromise`. What is left needs more of the program than this repository holds:

1. With the library's source, `Transactions` and `LastChunk` could be replaced by
   `TxDocument` inside `AppReview`, with the buffer of `buffering_append` between them;
   today a document is a name there whose contents are given by `Meaning`.
2. The EVM documents could get the same treatment as `TxDocument` once the RLP parser is
   there; `EvmDisplay` enumerates what it may leave.
3. The hazards of `PROJECT.json` without a property (the reset inside a command, the
   delegation fee, the chain ids, an EVM transaction without data and recipient), and
   what a memo or an output without a screen should do, need a statement of what is intended before they can be checked.
