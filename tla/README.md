# OMNM payload bridge: TLA+ models, checks and proofs

OMNM is a message payload for OpenMAMA: a C++ library that stores a message as
one contiguous buffer of fields, which is also its wire format.  A client adds,
updates, looks up and iterates fields in place, and hands the buffer to a
transport.  The middleware calls it through the C functions
`omnmmsgPayload_*`, `omnmmsgPayloadIter_*` and `omnmmsgFieldPayload_*`.

There is no index and no count.  A field is found by walking the buffer from
the header, so everything rests on one fact: **the walk meets exactly the fields
that were stored**.  Writer, in-place updater and walker each have their own
table of how wide a type is; the header is kept twice; an update resizes a field
in the middle of the buffer and moves all that follows; a receive replaces it
all; and iterators and field handles point into the middle of a buffer that can
be reallocated under them.  On top of that, one scratch buffer per message is
shared by all vectors and texts, sub-messages are cached in the handle they were
read through, and `apply` changes one message while it walks another.  These are
the behaviours the models are about.

Paths below are relative to the repository; `Payload.cpp:530` is
`src/Payload.cpp`, line 530.

## 1. The system

| Component | State | Operations | Correct when | Modelled in |
|---|---|---|---|---|
| wire format (type tables in `Payload.cpp:186-295`, `Iterator.cpp:88-194`) | none | encode a field, step over a field, name/fid checks | a reader steps over exactly what a writer wrote, for every type | `OmnmFormat` |
| payload buffer (`OmnmPayloadImpl`) | `mPayloadBuffer`, `mPayloadBufferTail`, `mPayloadBufferSize`, `mHeader` | `clear`, `findFieldInBuffer`, `addField`, `updateField` (by key and by field), `getField`, `getFieldValueAsCopy` | fields stay framed, inside the tail, inside the allocation; failures change nothing | `OmnmBuffer` |
| payload calls on fields (`add*`, `update*`, `get*`) | the buffers of the messages | one function per type | a message behaves as a sequence of fields | `OmnmPayload`, `OmnmMessage` |
| payload calls on whole messages (`serialize`, `unSerialize`, `setByteBuffer`, `getByteBuffer`, `createFromByteBuffer`, `copy`) | the same, and the bytes in flight | | both copies of the header agree; what was sent can be read | `OmnmPayload`, `OmnmMessage` |
| iterator (`omnmIterImpl`) | `mBufferPosition`, `mMsg`, its own `mField` | `create`, `begin`, `associate`, `next`, `hasNext`, `end`, `destroy` | each field once, in order, also when fields are appended meanwhile | `OmnmIterator` |
| `iterateFields` | the walk, and who has control | a callback for each field | every field is handed over, and the call returns | `OmnmLoops` |
| `apply` | two messages, the walk of one | an update of the destination for each field of the source | fields arrive under their identity and type, the rest stays | `OmnmLoops` |
| field handle (`omnmFieldImpl`) | pointers `mData`, `mName` into a buffer, `mSize`, `mFieldType`, `mParent`, two caches | lookups set it; `omnmmsgFieldPayload_update*` write through it | it says what is stored | `OmnmIterator`; its caches in `OmnmSubMessage` |
| scalar conversion (`getFieldValueAsCopy`) | none | read a field as another type | a number is read as it was stored, or refused | the refusal in `OmnmBuffer`, the conversions in `OmnmValues` |
| date and time conversion | none | the middleware's times to stored ones and back | a time reads back | `OmnmValues` |
| encoded vectors (strings, messages, prices, times) | the scratch buffer `mField.mBuffer` | encode, store, take apart | a vector reads back as it was stored | `OmnmVector` |
| sub-messages | payloads cached in the handles of messages and iterators | `getMsg`, `getVectorMsg`, and all that frees | one owner for each; a result stands until the next read | `OmnmSubMessage` |
| text output (`toString`, `getAsString`) | the scratch buffer | build the text of a message | it stays in the room made for it | `OmnmText` (lengths only) |
| parent and extender closure, bridge header | none of interest | | | left aside |
| unit tests, benchmark, build | | | | clients; read for how the code is used |

**Interactions.**  The C functions are thin: each checks its arguments, casts
the handle to `OmnmPayloadImpl` and calls a member.  The iterator and the buffer
call each other: `findFieldInBuffer` runs the buffer's own iterator
(`Payload.cpp:392`), so a lookup, an update by key, `apply`, `toString`,
`getNumFields` and `iterateFields` all go through `omnmmsgPayloadIter_next`.
A handle's update calls back into the buffer of its `mParent`
(`Field.cpp:93-103`), or, for dates and prices, of the message the caller passes
(`Field.cpp:358-393`).  `iterateFields` calls the client, who may call anything.
Messages interact through `copy`, `apply`, messages inside messages, and bytes a
transport carries.

**Concurrency.**  The library starts no thread and takes no lock; a handle
belongs to one thread at a time, as everywhere in this middleware.  So one call
is one step of a model, except where a call hands control to the client
(`iterateFields`) or where what happens between its parts is the question
(`apply`, `toString`): there one turn of the loop is a step.  What interleaves is
calls on different messages, calls on a message and steps of an iterator over
it, updates by name and updates through a handle to the same field, what a
callback does, and the arrival of bytes that were sent some time ago.

**Failure.**  An allocation can fail; `unSerialize` looks at the result
(`Payload.cpp:895`).  Bytes can arrive from a peer with a longer header or a
later version, also inside a message.  Nothing is persistent, so there is no
recovery.

**Liveness.**  The code has no scheduler, queue, wait or retry.  What must
eventually happen is that a call that was made returns: `apply` and
`iterateFields` are loops whose end moves when the message they walk grows.
`CallsReturn` says so under `WF_vars(LoopStep)`: the thread that made the call
runs it, and a callback returns.  Nobody is assumed to make any call.

The 40 hazards found in the code, each with its line, are in `PROJECT.json`.

## 2. Modules

| Module | What it is |
|---|---|
| `OmnmFormat` | types, widths, the lengths that writer and reader give a field, name and fid rules |
| `OmnmBuffer` | one buffer, and the operations on it as operators that return an outcome (buffer and status) |
| `OmnmPayload` | messages, wire, all the public calls as actions |
| `OmnmFields` | a message as a sequence of fields, in which a lookup finds the first match |
| `OmnmMessage` | the abstract specification of the payload calls on such sequences |
| `OmnmPayloadRefines` | the refinement mapping from buffers to sequences |
| `OmnmIterator` | iterators and handles over buffers that change under them |
| `OmnmWalk` | the abstract specification of both: walks and handles that know fields by their numbers |
| `OmnmIteratorRefines` | the refinement mapping from offsets to numbers |
| `OmnmLoops` | `apply` and `iterateFields`, composed with the calls on the messages they walk |
| `OmnmMerge` | the abstract specification of both loops: `apply` is one step, the merge of two sequences |
| `OmnmLoopsRefines` | the refinement mapping: while `apply` runs, its destination counts as what it was |
| `OmnmVector` | encoded vectors and the scratch buffer |
| `OmnmSubMessage` | payloads cached in handles, and who owns them |
| `OmnmText` | the room made for the text of a message |
| `OmnmValues` | what numbers and times become on the way in and out |
| `OmnmClaims` | what comments say and the code does not do |
| `OmnmBufferProofs` | lemmas about the buffer operations |
| `Omnm{Payload,Iterator,Loops,Vector,SubMessage,Text,Values}Proofs` | the theorems of each component |
| `MC{Payload,Refines,Claims,Iterator,Loops,Vector,SubMessage,Text,Values}` | instances for TLC |

`OmnmPayload`, `OmnmIterator`, `OmnmLoops` and `OmnmVector` all extend
`OmnmBuffer`: they are four views of what is done with the same buffers.
`OmnmSubMessage`, `OmnmText` and `OmnmValues` stand alone, since what they are
about does not depend on where bytes lie.

### How the state corresponds to the code

A buffer is `[at, tail, cap, hdr, ver, rem]`.  `tail` is `mPayloadBufferTail`,
`cap` is `mPayloadBufferSize`, `hdr` is `mHeader.mRemainingHeaderSize`, `ver` and
`rem` are the version and remaining-size bytes at the start of the buffer.  `at`
maps the offset of a field's first byte to what was encoded there.  Offsets,
lengths and the arithmetic on them are those of the code, byte for byte; the
bytes of a value are one abstract `val`.

A stored field keeps `type`, `fid` and `name` as its first bytes say, `decl` (the
length prefix on the wire), and `data`, the value *as handed in*, with its own
type and length.  The separation matters.  `EncodedLen` uses the writer's tables
and the real length; `DecodedLen` uses the reader's tables and what the bytes
say.  They are different definitions, and `FramedBuffer` says that a walk by the
second lands on the fields placed by the first.

Operations: `Cleared`, `FirstMatch`, `AddField`, `UpdateField`, `UpdateAt`,
`UpdateVectorField`, `UnSerialize` are the functions of the same or similar name,
with their early returns in order.  `updateField` grows the allocation by the
difference whenever the field grows, although the message may fit; the model
does the same.  `UPDATE_SCALAR_VECTOR` drops the status of the update it makes;
so does `UpdateVectorField`.  `addDateTime`, `addPrice` and the vectors of
messages, times and prices call their update function; `AddByUpdate` is that.

In `OmnmIterator` a pointer is an offset and a flag that says whether it points
into the current allocation.  `cursor` is the iterator (`pos` is
`mBufferPosition`; `begun` is the flag by which `next` knows that it has stepped
before; `early` marks a walk begun on an empty message), and `field` is the
handle in each message (`mField`) and the one in the iterator.  `steady` and
`fresh` are history: has anything disturbed the walk, or the handle, since it
was set?  `seen` is what the walk has returned.  `moves` is `realloc`'s choice
to move a buffer that grows.

In `OmnmLoops` the variable `job` is the stack frame of the call in progress:
its iterator (`pos`), for `apply` the variable `name` that `getName` leaves alone
when a field has none and the payload `sub` cached in the iterator's field, for
`iterateFields` whether the client has control.  `before` and `met` are history.

In `OmnmVector` the scratch buffer is a sequence of bytes, of which only the
letters of strings and their terminators are told from the rest; the length of
that sequence is `mBufferLen`, and it never shrinks.  A stored vector keeps what
its bytes say (`code`) and what the caller meant (`meant`).

In `OmnmSubMessage` the objects are `OmnmPayloadImpl`s; `sub` and `vec` are
`mSubPayload` and `mVectorPayload` of the handle in each of them and in each
iterator.  `Freed` is what a destructor takes along.  `lost` holds what nobody
will free: an iterator's `destroy` frees its handle without cleaning it up, and
the handle of `apply` is on the stack.  `told` is what clients hold.

In `OmnmText`, `part` is the text in the array of 1024 bytes and `text.len` what
has been written to the scratch buffer.  In `OmnmValues` a field has a type and
bytes, and bytes are a number below the number of values of the type; `given` is
what was stored.

### What clients must respect

Some rules are relied on by the code and enforced nowhere.  The models name
them, the runs keep to them, and a claim run or a hazard says what happens
without:

| Rule | What the code does without it |
|---|---|
| `KeepsWidth`: an update that casts keeps the stored width | the type byte is not rewritten, and every walk loses its step |
| `FitsPrefix`: no update longer than 2^32-1 | only `addField` checks |
| no message is unserialized from its own buffer | it is wiped first (`claim_self`) |
| a vector update names its field, `""` with a fid only | a blank name alone leaves the field uninitialized |
| `MayStep`: an iterator is not stepped after a change behind it that resizes, or a move | its position is a raw pointer |
| `MayUse`: a handle is not used after its field, or one before it, was resized | its size and pointers are out of date (`claim_handle`); a null name is rebased to a wild one |
| `SameMessage`: a handle of a re-associated iterator does not resize | its `mParent` is still the first message |
| `MayDisturb`: a callback neither grows the message it was called for nor resizes what the walk has passed | as for `MayStep` |
| `KeepsWidths`: no lookup that `apply` makes meets a scalar of another width than the one it stores | as for `KeepsWidth` |
| `dst # src`: no message is applied to itself | the walk is disturbed by its own updates |
| `OneLength`: the messages of one vector are equally long | every length is read at the first one, and the vector is taken apart in the wrong places |
| `NoOldBytes`: strings are added only where they fill the scratch buffer | what earlier calls left there is stored too (`claim_vector_string`) |
| `ReadableVector`: every message of a vector that is read can be read | the status says only how the last one fared |
| `MayWalk`: an iterator does not walk a message its own handle caches | the next read wipes the bytes it is about to copy |
| `SameKind`: integers and floating point numbers do not replace each other | the bytes become another number |

These rules are also the preconditions of the theorems: they are conjuncts of
the actions, and nothing else is assumed of callers.

`KeepsWidths` is `KeepsWidth` for the whole loop.  A call of `apply` cannot be
refused halfway, so the rule says of the two messages as they are at the call
what the lookups of its updates will meet: a field of the destination, or, where
there is none, one that `apply` itself has appended for an earlier field of the
source.  Messages may hold scalars of as many widths as they like; only a field
and the field its lookup meets, when one casts to the other, must agree.  The
rule is too strict in one case: an earlier field of the source counts as appended
also when it went into one appended before it, and so was never there to meet.

`apply` itself promises less than one may think.  It drops every status; passes
over prices, times and messages in vectors; gives a field without a name the name
of the field before; and for a sub-message it cannot read stores the one it read
before, or an empty one.  `ApplyDelivers` and the part of `ApplyKeepsRest` that
is about values therefore speak of `Mergeable` messages: nameless fields come
first, every sub-message can be read (`PassedOn`), and names and fids go together
as in a dictionary (`ByDictionary`).  The last is not a rule for clients, whose
calls keep to the dictionary anyway (`IdsAssumption`), but says that no earlier
`apply` has made a field out of the name of one and the fid of another.

## 3. Runs

| Run | Instance | What it shows |
|---|---|---|
| `payload_fields` | one message, fids 0 and 1, three names (null, `""`, one more), nine values | type, nesting, framing, atomic failures, and the refinement, under every field call |
| `payload_copy` | two messages, the wire, three foreign images, failing allocation | the same across copies and receipts, with headers of different length and versions |
| `iterate_one` | one message, two fids, three values | a walk and the handles, interleaved with every change of the message; and that pointers behave as numbers of fields |
| `iterate_callback` | two messages, every kind of framing | callbacks that add, update and clear; `apply` with scalars of two widths in one message; a turn of either loop passes one field; both return |
| `apply_merge` | two messages, three identities (a name, a fid, both), three values (a string, a sub-message that can be read, one that cannot) | one message applied to another that shares some of its fields, and that it is the merge of two sequences |
| `vector_scratch` | one message, six vectors, texts in between, an allocation that grows for some | vectors read back, whatever the scratch buffer was used for |
| `sub_owners` | four objects, one iterator, eight contents | owners and results, three messages deep |
| `text_room` | up to three fields of eleven kinds | the margin, in every combination of what it has to pay for |
| `values_read` | numbers on both sides of every limit | stored as one type and read as every other |
| `claim_*` | | three statements of comments and docs, each refuted |

**Bounds and why they are enough.**  `MaxTail` and `MaxCap` bound the bytes in use
and allocated.  The least interesting number of fields is three (one before, one
resized, one after), so the bounds of `payload_fields` and `iterate_one` let a
message of three fields grow and shrink any one of them; that is why the two
strings differ by one byte only.  The default allocation is smaller than the
bound where additions must both fit and grow.  `iterate_one` has no two types that
cast to each other, which would multiply its states by five: that such an update
leaves alone what a handle says is in `HandleStaysCurrent` only.  With one message,
`associate` always finds the same one: what an iterator does on another is covered
by the theorems alone.  `DefaultSize` is scaled from 200
down to 8..27 for the same reason (56 for the structures of `vector_scratch`, so that
the longest makes the allocation grow);
nothing in the code depends on 200.  `MaxU32` is 3 in `payload_fields`, so that
the check on too long a value and the largest allowed value both occur.  The runs
with two messages hold two fields in each: there the question is what a copy
leaves behind of the old contents, longer or shorter.  Every call reads at most
one message and writes at most one, so a third adds only renamings.  Peers'
images cover a header two bytes longer, an earlier version and a later one.
`MaxWire` bounds the message that is sent.

In `apply_merge` the bounds are on what clients build: two messages of any two
fields, of which one can match by name, by fid or by both, with a string where
the other has a message, and a sub-message that can be read before one that
cannot; the destination may grow to four while `apply` runs.  In
`iterate_callback` the allocation has room for a field more than the walk began
with, so that callbacks append behind it.  Its messages have two keys, under which
are stored scalars of two widths that cast to each other, vectors of two lengths
and a type `apply` passes over: messages of both widths are applied, where each
scalar meets its like or nothing, and `KeepsWidths` keeps only those apart that
would meet.  Without either half of the rule `LoopsFramed` fails in this run.
`MaxCap` is one byte more than `MaxTail`, so that a vector can grow.

`sub_owners` has enough objects for a message in a message in a message and one
root beside it, or a vector of two that is then read as one of one; `LeavesRoom`
keeps the leak of iterators and `apply` from taking the last object.
`text_room` scales the array for a value from 1024 bytes to 20, just above the
text of an opaque field.  `values_read` gives a byte two bits, so that a type of
eight bytes has 2^16 values and every conversion between widths 1, 2, 4 and 8
occurs at its limits.

**Symmetry and views.**  `payload_copy` and `apply_merge` use symmetry on message
handles, `sub_owners` on objects, all of which only ever occur as keys or are
compared with each other; no run with symmetry checks a
liveness property, and `CallsReturn` speaks of `job` only, which its view keeps.  The
views `Buffers`, `Work` and `Bodies` forget the last status: no action reads it,
the invariants checked do not depend on it beyond its type, and action
properties, which do, are checked on every step and not once per state.
`iterate_one` uses the view `Undisturbed`, which forgets the contents of a handle
that is not `fresh`, of a cursor that is not `steady`, and the last status.  Under
`Spec` the guards `MayUse` and `MayStep` keep those from being read before they
are set again, with one exception: a disturbed iterator may ask again at the end
of what is left, which returns null and changes nothing.  The invariants checked
under the view speak of `fresh` and `steady` values only.

**Deadlock** is checked in every run: some call is always possible.

### Properties

- `TypeOK`, `IterTypeOK`, `LoopTypeOK`, `VectorTypeOK`, `SubTypeOK`: the type
  invariants.  `SubTypeOK` includes that no object holds a message it could not
  read.
- `Bounds`: header within tail within allocation.  The code writes at the tail
  and zeroes `size - tail` bytes as an unsigned difference.
- `Framed`, `IterFramed`, `LoopsFramed`, `VectorsFramed`: the walk meets exactly
  the stored fields, whoever stored them.
- `HeaderAgrees`: the parsed header is the one that would be sent.
- `WireFramed`: what is in flight can be read, whatever happened to the sender.
- `FailureAtomic`: a call that reports an error has changed no message.  Two
  exceptions are part of the code: NOMEM in a receive empties the target, and
  `createFromByteBuffer` of a version it cannot read leaves an empty message.
- `ImplementsMessage`: the refinement.
- `CursorOnField`, `WalksEachOnce`: an undisturbed walk is always on a field and
  has returned each field it passed once.  An append during a walk is met by it,
  an update ahead of it does not disturb it.  A walk begun on an empty message
  returns the first field added twice: `begin` takes the step that rewinds, and
  in an empty message it does not happen (`Iterator.cpp:184`).
- `HandleCurrent`: an undisturbed handle says what is stored.
- `ImplementsWalk`: iterators and handles implement `OmnmWalk`, in which a walk is
  the number of the field to come and a handle the number of a field.  The
  invariants above speak of one state each; this says what calls do: a step goes
  to the next number, an update through a handle changes the field of that number
  and no other, a lookup points at the first match, and every pointer but those
  `OmnmWalk` calls disturbed keeps its number through additions, resizes and moves.
- `IterateMeetsAll`: when `iterateFields` returns, its callback has been given
  every field the message has then, those that callbacks added included.
- `TurnsAdvance`: a turn of either loop passes exactly the next field, and the
  source of `apply` is the same at each of its turns, whatever is stored, moved
  and resized in between; each step of `apply` but its return brings it nearer to
  the end of that source.
- `CallsReturn`: a call that was made returns.
- `ApplyDelivers`: when `apply` returns, a lookup in the destination finds the
  value of each field that was passed on, though the updates of the others ran
  after it, each with a lookup on name or fid.
- `ApplyKeepsRest`: the fields of the destination keep order, identity and type,
  and those the source has no value for keep theirs.
- `ImplementsMerge`: the two loops implement `OmnmMerge`.  Seen from outside,
  `apply` is one merge of two sequences, also for the messages that `ApplyDelivers`
  says nothing of: what is stored under a name of the field before, or for a
  sub-message that cannot be read, is part of the merge.
- `VectorsReadBack`: every vector reads back as the sequence that was stored.
- `OwnedOnce`: every payload object has one owner that will free it, or is one of
  those the code drops; nothing that was freed is referred to.
- `ResultsStand`: what a read returned is allocated and unchanged until the next
  read of its kind through the same handle.
- `PartFits`, `TextFits`: the text of a value stays in its array, and that of a
  message in the scratch buffer, after every write.
- `ReadsBack`, `WiderReads`: a number is read back by the getter of the type it
  was stored with, whatever type of that width the field has, and alike by every
  wider type that can hold it.  `TimeReadsBack`: and so are times.

Each property was also tried against a plausible slip in the code it is about
(the definitions commented `Slip:`, beside the definitions they vary): growth
forgotten on a resize, fields not moved, the header struct not reread, the wipe
before the version check, a match that does not stop the walk, the first name
kept, a vector as long as its scratch buffer, a byte too little of margin, and so
on.  Each is caught.

### Disagreements between comments and code

| Run | Statement | What the code does |
|---|---|---|
| `claim_self` | `Payload.cpp:900` "Do not attempt self copy" | has zeroed the buffer by then; the fields are gone |
| `claim_handle` | `Payload.h:300` "according to the field and values provided" | leaves the handle's size, and moves the wrong bytes next time |
| `claim_vector_string` | `README.md:22-29` "feature complete and includes: ... All vector types" | stores a vector of strings with the length of the scratch buffer, and with what was left in it |

`claim_handle` uses `StaleSpec`, where a client updates twice through a handle;
`claim_self` and `claim_vector_string` use a `LooseSpec`, without the rule in
question.

## 4. Proofs

Every theorem is about `Spec` of its module, for any messages or objects, any
names and name lengths, fids, values and sizes, and any bounds.

| Module | Theorems (property) |
|---|---|
| `OmnmPayloadProofs` | `TypeCorrect` (`TypeOK`), `NestsInAllocation` (`Bounds`), `StaysFramed` (`Framed`), `HeaderCopiesAgree` (`HeaderAgrees`), `WireStaysFramed` (`WireFramed`), `FailuresAreAtomic` (`FailureAtomic`), `BuffersAreMessages` (`ImplementsMessage`) |
| `OmnmIteratorProofs` | `IterTypeCorrect` (`IterTypeOK`), `IterStaysFramed` (`IterFramed`), `CursorStaysOnField` (`CursorOnField`), `WalkReturnsEachOnce` (`WalksEachOnce`), `HandleStaysCurrent` (`HandleCurrent`), `WalksGoThroughLists` (`ImplementsWalk`) |
| `OmnmLoopsProofs` | `LoopTypeCorrect` (`LoopTypeOK`), `LoopsStayFramed` (`LoopsFramed`), `CallbackMeetsAll` (`IterateMeetsAll`), `ApplyArrives` (`ApplyDelivers`), `ApplyLeavesRest` (`ApplyKeepsRest`), `TurnsGoOn` (`TurnsAdvance`), `ApplyIsMerge` (`ImplementsMerge`) |
| `OmnmVectorProofs` | `VectorTypeCorrect` (`VectorTypeOK`), `VectorsStayFramed` (`VectorsFramed`), `EveryVectorReadsBack` (`VectorsReadBack`) |
| `OmnmTextProofs` | `PartsFit` (`PartFits`), `TextStaysInside` (`TextFits`) |
| `OmnmValuesProofs` | `NumbersReadBack` (`ReadsBack`), `WiderReadsSame` (`WiderReads`), `TimesReadBack` (`TimeReadsBack`) |
| `OmnmSubMessageProofs` | `SubTypeCorrect` (`SubTypeOK`), `OwnersStayUnique` (`OwnedOnce`), `ResultsStayValid` (`ResultsStand`) |

**Assumptions** are the named ASSUMEs of the modules: names are those whose
length is known, null and `""` have length zero; the values callers store are
those the public functions can pass on; what a peer sends is framed; the strings of a
vector are sequences of letters, of which the terminator is none, and a message
in a vector is at least as long as a header; null values are none of the things
they stand in for.  TLC evaluates them in every run.  Two theorems have a
hypothesis besides, of the kind that model values satisfy: `BuffersAreMessages`
asks that no message equals one of the null values (`NullsAreApart`), and
`ApplyIsMerge` that the value for no call is no record of a call of `apply` and the
value for no sub-message no sub-message (`NoneIsApart`).

**Buffers.**  `OmnmBufferProofs` has one lemma per buffer operation.  The encoder
agrees with the reader field by field (`ReadsAsWritten`, by cases on the type
tables); appending at the tail keeps the frame; replacing a field moves every
later field by the same difference, so that distances between neighbours, and so
the frame, are kept; the first match exists because the naturals are well
ordered; a receive takes over a framed image.  `KeepsBelow` says what each
operation leaves alone before the offset it disturbs.  *Listings* turn a buffer
into the sequence of its fields: `Fields` finds the i-th field by counting the
offsets before it, and the lemmas replace that by a sequence that goes through
the offsets in order, to which an append adds one, and of which an update changes
one.

**Payload.**  One inductive invariant, `IInv`, serves all six theorems.  It says
that state and wire have the right shape; that every live buffer nests; that
every usable one is framed and agrees with its header; and that the wire is
framed.  It is stronger than any of the properties alone for a reason that is in
the code: `Framed` after a receive needs `WireFramed`, `WireFramed` after a send
needs `Framed` *and* `HeaderAgrees` (the bytes sent are laid out by the struct and
read by the raw header), and both need `Bounds` for a message that was torn by
NOMEM.

**Refinement.**  Every step of `OmnmPayload` is the step of `OmnmMessage` of the
same name on the sequences of fields, or a stutter: lookups find the same place,
an append and an update in place are the ones on sequences (by listings), and
statuses are the same.

**Iterator.**  The invariant adds to the properties what a walk looks like before
and after its first step (`Rewinds`: the step that `begin` takes is taken back by
the first `next`, except on an empty message).  Every call on a message keeps
what is below the offset it disturbs, and an undisturbed iterator or handle is
below it.

For `ImplementsWalk` an offset stands for a number, one more than the fields below
it.  On offsets of fields and the tail, numbers are in the order of offsets
(`NumbersInOrder`) and a step adds one (`NextNumber`); below the offset that a call
disturbs the offsets are the same before and after, so the numbers are (`Keeps`).
Hence comparing offsets, as `steady` and `fresh` do, and comparing numbers, as
`OmnmWalk` does, single out the same pointers (`Disturbed`), whatever the call; what
is left is one lemma per call for what it does to the sequence of fields, on the
lemmas that `BuffersAreMessages` uses.  The first `next` of a walk goes
nowhere, which is `Rewinds`.

**Loops.**  `LInv` says where the loop is, what it has met, and that what it reads
can be stored again: the value of a stored field has the field's type, or one it
was cast from, and a length that fits a prefix.  The types in the destination are
what its own fields had or what those appended from the source have.  `LInv` also
keeps `KeepsWidths` for the fields that are left: a lookup that finds a field of
the destination finds the same one after any update, with the type it had; one
that finds none may come to find a field just appended, which is why the rule
speaks of pairs of fields of the source too.  The name it would go by is the last
the loop has met, which `LInv` knows from the source alone (`LastName`).  `AInv` adds what `apply` has done so far:
which fields are delivered, that what is new in the destination has the identity
of a field that was met, and that what has no key in the source is untouched.  A
delivered field stays delivered because every field of the destination goes by
the dictionary, so that a later update that matched it would have its key, and in
the source it is alone with that key.  `TurnsAdvance` follows from `LInv`: the
field after the one at `pos` begins where that one ends, and what a callback may
do under `MayDisturb` leaves all that was passed where it was.  It is the
decreasing measure behind `CallsReturn`: while `apply` runs, the bytes between
`pos` and the end of its source are a natural number that every step but its
return makes smaller.

**Merge.**  While `apply` runs, its destination counts as what it was (`before`),
so its turns are stutters, and its return must be the whole merge.  `MInv` says so
far as it has come: the loop has passed the first `k` fields of the source, it
carries the name and the sub-message that those leave standing, and the
destination is what merging them has made of it.  One turn is one field of the
merge, which rests on the same lemmas about lookups, appends and updates in place
as `BuffersAreMessages`.  `Merged` is a recursive function, of which the library
gives no more than that some function satisfies its equation if any does; so
`MInv` carries a trace of the merge so far, each turn extends the trace by one
entry, and at the end it equals what `Merged` chose, because there is no least
argument at which the two differ.

**Vectors.**  `VInv` says that every message is a good buffer and that each of its
fields holds a vector some client stored, in exactly its bytes.  That an added
vector has no bytes but its own rests on `NoOldBytes`: the scratch buffer keeps
its length, and only a text that fills it is stored alone.  Reading undoes
writing for two different reasons.  Strings are separated by terminators, which
no letter equals, so the terminators of the text, taken in order, are the ends of
the strings.  Messages have length prefixes, but the reader looks at the first
one only; under `OneLength` its equal steps meet the beginnings of all.  The
sums of lengths are recursive functions again and treated as above: the closed
form satisfies the equation, and every solution equals it.

**Text.**  The invariant is the property with one byte kept for the closing brace.
The margin of ten is exact: the sign before the value, the brackets and five
digits of a fid, the comma and the terminator take all of it.

**Values.**  The invariant says that the field has the bytes of what was stored.
Storing, reading and casting keep a number's residue modulo the numbers of the
type, and each type has one number per residue; this for any number of values per
width.

**Sub-messages.**  The invariant is `OwnedOnce` with the shapes of the variables
and that results are what is cached.  A read gives a handle objects nobody has; a
destructor frees a closed set with one root and the owner of every other object
in it, so that what remains refers to nothing that was freed.

**Only model-checked:** `CallsReturn`, which is liveness; and that the rules for
clients are needed, which the claim runs show by example.  Everything else a run
checks is a theorem.

## 5. What is left out

- A failing allocation in `addField` and `updateField`: the result is ignored and
  the next write is outside the buffer, for which the model has no state.
- Bytes that are not a framed message: the walker trusts lengths it reads.
- The words of a text, as opposed to its length.  The text of a vector is built
  by writing each piece over the last (`Field.cpp:77`).
- Prices: they are stored as the structure the middleware has, and only the
  layout could differ between two peers.
- Getters that hand out a pointer into the buffer (strings, opaque, scalar
  vectors), beyond what `HandleCurrent` says of the handle they go through: what
  a client does with the pointer is not the library's to keep.
- `apply` of a message to itself, and a callback that breaks `MayDisturb`: the
  iterator then reads freed or moved bytes.
- Loops started by a callback of `iterateFields`: `job` has room for one call.  On
  other messages they would run between two turns of the outer loop and return
  before the next; on the same one they disturb nothing, but for an `apply` to it,
  which is one more way to make the updates that `MayDisturb` is about.
- How floating point numbers are rounded: `OmnmValues` has some integers that the
  floating types hold exactly, and one number that is none of them.
- The components marked so in section 1.

## 6. Order of the work

Format and buffer; payload calls with the wire; the refinement to sequences;
iterator and handles; vectors; the two loops; sub-messages; texts; numbers and
times.  The proofs followed in the same order; the merge and the walk were stated
as abstract specifications once the listings were there to prove them by.

What could be added, most useful first: a memory of allocations, in which a failed
`addField` and a stale iterator could be given a meaning; the handles of
`OmnmIterator` composed with the caches of `OmnmSubMessage`; and an abstract
specification of vectors, as values that are read back, to go with the fields of
`OmnmMessage`.
