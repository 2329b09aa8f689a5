# Antlia in TLA+

Specifications of [Antlia](../src/README.md), a Flipper Zero application that
reads the NFC tag of a container and types its short ID into a computer as a USB
keyboard (the *wedge*), or, when the computer drives it over the Flipper's RPC,
reads and writes tags for it (the *bridge*).  `PROJECT.json` gives the lines of C
behind each definition.

## The system

| Part | Source | State | Operations |
|---|---|---|---|
| USB lease and typing | `antlia_hid.c` | `claimed`, `previous`; the device's interface; keys held down | claim, release, ready, type |
| Scan view | `antlia_scan.c` | the view's model under its lock; `worker_running`, `type_requested`; the worker's `last_handled`, `last_unknown` | enter, exit, OK; the worker: poll, refuse, show, type |
| Self-test | `antlia_test.c` | the view's model | enter, exit; the worker: type, release, report |
| Application | `antlia.c` | the view shown, the settings | menu, settings callbacks, start, quit |
| Settings file | `antlia_config.c` | `antlia.settings` on the SD card | load with clamping, save |
| Bridge | `antlia_rpc.c` | `running`, a queue of four lines, the RPC session | callback: line, exit, close; the application's thread: PING, READ, WRITE, WRITE! |
| NDEF codec | `lib/ndef.c`, `lib/ndef_encode.c` | none | find the URI of a tag, build a tag's image, count its pages |
| Short IDs | `lib/shortid.c` | none | normalise, check symbol, display |

**How they interact.**  In the wedge three threads meet.  The application's own
thread runs every view callback; the scan worker polls, and types; the self-test
has a worker of its own.  They share the fields of `Antlia`: two `volatile` flags
without a lock, the settings without a lock, the scan model under the view's lock,
and the lease on the USB interface, which is taken by an enter callback, used by
a worker, and given back by an exit callback *after it has joined the worker* (and,
in the self-test, by the worker too).  In the bridge two threads meet: the host's
session thread runs the callback, the application's thread serves one line at a
time; between them are the queue, `running`, and the session itself, which the
host may close at any time.  Around both: tags that come and go in the middle of
anything, a USB host that enumerates late or not at all, calls that fail.

**What is hard to test.**  The list is under `hazards` in `PROJECT.json`, each at
its line.  The main ones: settings and lease kept from the workers by nothing but
a join; a flag that outlives the session it was set in; a decision made under a
lock and acted on after it; the worker's memory of "the same tag"; a text that
breaks off; a tag that is swapped, half read or half written; a queue at its
limit; a session that closes under the application.

**What makes each part correct.**

- Lease: whoever leaves, however it failed, the device runs what it ran before.
- Typing: Enter only after the whole text, success only after Enter.
- Scan: what is typed is what is shown; a tag left lying is handled once; an OK
  belongs to the session it was pressed in; leaving ends.
- Self-test: lets go of the interface by itself.
- Settings: no worker sees them change.
- Bridge: a line is answered once; a partial write is told; a plain WRITE spares a
  tag's URL; WROTE is true; told to stop, it stops.
- Codec: what the encoder builds the decoder reads; sizes agree; nothing is read
  or written out of bounds.
- Short IDs: one wrong symbol or one adjacent swap is always caught.

## The modules

| Module | What it is |
|---|---|
| `Typist` | what the wedge promises the computer: lease, phase of the text, keys received |
| `Wedge` | the wedge in detail; implements `Typist` |
| `WedgeProofs` | theorems about `Wedge` |
| `LineService` | what the bridge promises its host: phase, lines owed |
| `Bridge` | the bridge in detail; implements `LineService` |
| `BridgeProofs` | theorems about `Bridge` |
| `TagPages` | a tag's memory as pages of images, and what it decodes to; part of `Bridge` |
| `Preferences` | what the settings promise their user |
| `Settings` | the file, the configuration and the settings list; implements `Preferences` |
| `NdefWalk` | `ndef_find_uri`, byte by byte |
| `PageWalk` | that walk over the bytes of `TagPages`' pages |
| `NdefEncode` | sizes, image and page count of a URI |
| `NdefRoundTrip` | an image written over a tag, and the walk over the result |
| `ShortId` | normalising, the check symbol, a code's place in a URI |
| `Label` | a label copied by hand, with changes and a slip |
| `UriRule` | the place of a code against the rule the code quotes |
| `Library` | `src/lib` as a whole: one use of it, of any of those kinds |
| `Sequential` | what runs on one thread: `Library` and `Settings`, one of them at a time |
| `SettingsProofs`, `NdefWalkProofs`, `NdefRoundTripProofs`, `PageWalkProofs` | theorems about those |
| `ShortIdProofs` | theorems about `ShortId`, `Label` and `UriRule` |
| `NumberLemmas` | what the proofs need of numbers: least and greatest members, remainders, the members of a set in their order |
| `MCWedge`, `MCBridge`, `MCSequential`, `MCNdefWalk` | the constants of the runs |

### Wedge

`gui` says where the application's thread is in a callback: idle, between OK's look
at the model and its request, or joining a worker.  `pc` says where each worker is,
and `"none"` that it does not exist.  View callbacks do not interleave with each
other, since one thread runs them; they interleave with the workers at every
statement that touches shared state.  A `with_view_model` block is one step: it
holds the model's lock from end to end and waits for nothing.  The enter callbacks
are one step each: nothing runs beside them that reads what they write.  The exit
callbacks are two: clear the flag, and after the join release.

`antlia_hid_type` is three actions (`WaitForHost`, `TypeKey`, `TypeTerminator`), one
step per poll of the host and per key, for either worker, with every result
`furi_hal_hid_kb_press` and `release` can give.  `antlia_scan_worker` is one action
per branch of its loop.  A poll begins and ends in steps of their own, so a tag can
come, go or be swapped during it.

Abstractions: a tag's UID is the tag; a short ID is a model value, and a text is an
output form and an ID, of `TextLen` keys or, for a blank ID, none; what a poll of a
tag yields is drawn from `Reading[tag]` (an ID, nothing usable, or an error), so a
tag may misread now and then; delays, labels, sounds other than the error alert,
and `key_delay_ms` are left out.  The code's `previous` may name no interface
(`NoInterface`); the firmware's `set_config` is believed to do what it says or
nothing.

The variables `seen`, `alerted`, `original` and `refused` are history: no guard
reads them.

### Bridge

`ReceiveLine`, `AppExit`, `OtherEvent` and `CloseSession` are the branches of the
callback on the session's thread; `Confirm` is its last call, a step of its own.  The
application's thread is at `pc`, and takes one step per call it makes to the
session, per line it takes and per page it writes.  `CallSession` marks every call
of the session and records the calls that come after it has closed.

A tag's memory is a row of pages, and a page is *the URL whose image it belongs
to*: the page at place *i* of an image is only ever written at place *i*.
`Decode` (in `TagPages`) says what `ndef_find_uri` makes of such memory: the first
page holds the lengths of the message and the record, the second the length of the
URI, its prefix and its first character, the others text, terminator and zeros.  A page
that is of no URL is of one of the `Others`, the kinds of other content a tag may hold:
nothing, what the factory left, a text.  Such content may begin with a message too
(`OtherSize`) and have bytes that read as text (`OtherText`).  So memory made of two
images of one length decodes to what its pages spell (`Spelt`: a URL nobody asked for,
`Garbled`, or one of the URLs again), and memory cut short, or with the end of a shorter
image in the middle of a longer one, decodes to none.  Sizes are in
bytes (`UrlSize`), so a last page that carries only the terminator may be missing.
That `Decode` is right is not assumed: `PageWalk` compares it with the byte walk, and
`PageWalkProofs` proves that they agree.  What a tag holds before the first line is any
member of `Contents`.
A read returns any number of pages, for a tag may leave in the middle of it, or
fails.  A page write does it, does not, or does it and loses the acknowledgement.

`UrlPages[url] = 0` is a URL that has no image.  `received`, `dropped`, `answered`,
`put`, `carried`, `steady` and `misused` are history: no guard reads them but the
bound `MaxLines` on `received`.

`rpc_system_app_set_callback(NULL)` is taken to wait for no callback that is
running: `Confirm` may come after `Detach`.  The lines a session sends to a
callback that has been removed are not modelled: nobody in `src/` hears them.

### Settings

`card` is the file, `config` the configuration in force, `items` what the settings
list shows; `Start` is `antlia_config_load` and `antlia_settings_build`, both in the
allocation, before anything else runs.  A save is two steps, since
`saved_struct_save` opens the file, which empties it, before it writes; either may
fail, and the power may go before, between and after.  A file the firmware's loader
refuses (none, another magic, version or checksum) is `Unusable`; a file it takes
may hold anything in each field, `FileOutputs` and the others, for the card can be
written elsewhere.  A C `bool` read from a byte that is neither 0 nor 1 is undefined:
`BoolOf` gives the byte or 1, each time anew.  A `variable_item_list` moves an item by
one place; `Moved` is how the firmware's module is used.

`Preferences` knows nothing of files and fields: what is kept, what is chosen, and
that an exit cut short may lose what was kept but leaves nothing nobody chose.

### The codec

`NdefWalk` takes one step per turn of a loop: a TLV block of `ndef_find_uri`, or a
record of `find_uri_in_message`.  All reads and returns of one turn are one step: nothing
else can see between them.  Bytes are digits to the base `Base` and a `size_t` counts
modulo `Word`, so that the whole range of a byte, and the wrap of a 32-bit `size_t`
(`Word = Base^4`), fit a small instance.  `RecordFits` joins the returns before the
type is looked at, in an order that reads nothing outside.  Two sums can wrap, and both
are taken modulo `Word`: the end of the payload (`NextAt`, `ndef.c:99`) and the length of
the expansion (`FitsOut`, `ndef.c:48`).  A record whose end wraps (`LengthWraps`) and is let
through has a payload outside its message.  If it is a URI's and the second sum wraps into
the buffer as well, the copy that follows runs out of the memory and of the buffer, and
nothing can be said of what comes after: the walk stops at `"overrun"`.  The code of such a
payload, where it lies behind the memory, is any byte.

`NdefEncode` is the encoder as operators; `Abbreviate` is the loop over the table, its
best code so far a recursive function of the turns.  `NdefRoundTrip` puts the image over
whatever a tag held (`Before`) and starts the walk.  `PageWalk` starts the walk on the
bytes of `TagPages`' pages: a byte of a URL's page is that of its image at the same place
(`ByteOf`), and one of another page is that of the other content at its place
(`OtherBytes`).  `OtherAssumption` says what that may be.  It begins, in the first page
(`Begins`), with nothing; with a block that is no message and takes the page up, as the lock
control block of a new NTAG does; with an empty message and a terminator, the
`03 00 FE 00` of `test_lib.c:225`; or with a message whose first record has a type of one
letter, as the text of `test_lib.c:232`.  That letter is not a URI's: a tag with a URI is a
tag of one of the `Urls`.  And behind the first page no byte is a 1.  That last is a limit:
a tag with other content in which a 1 stands behind the first page, a second record with a
type of one letter, say, is outside what the comparison covers.

### Short IDs

A text is a sequence of ASCII codes.  `Validate` is `shortid_validate` with its error
codes, in the order in which it tests for them; `out` is empty where the code leaves
it untouched.  `Squash` says which characters the loop of `squash` keeps, by their places
and their number, and not how it comes by them.

`Label` copies a label by hand: each step respells a symbol, puts in or leaves out a
separator, types a prefix, mistakes a symbol or swaps two neighbours.
Behind a prefix the code must be one token, which is the rule of `shortid.c`; without
one, white space may group it.  `UriRule` runs through all short URIs, and through those
around the longest code.

`Library` puts the uses of `src/lib` side by side.  They share no state, so a behaviour is
one use, and what it does not touch is at rest; the properties of each module speak of
the uses that are its own.  `Sequential` adds the settings in the same way, for one run to
check all that runs on one thread: while the settings live, no use of `src/lib` is on.

## The runs

| Run | Bounds | Shows |
|---|---|---|
| `wedge` | two tags, one of them flaky: a poll of it yields its ID, nothing usable, or an error; two output forms, two terminators, texts of two keys, one poll of the host | the invariants and action properties below; `Typist` |
| `wedge_live` | the same two tags, the flaky one now without an ID, one form, no terminator, texts of one key | the four liveness properties |
| `bridge` | two lines of eight kinds, a queue of one, two tags, four pages, that carry a URL or a text; two URLs of three pages, one of four, one that has no image | the invariants below; `LineService`; the two liveness properties |
| `sequential` | seven-bit bytes. *Walk*: every row of up to five of the bytes a TLV block is told by; messages of two records, the first of every shape, lengths right, one short and one long, lengths of four bytes that wrap, a second block behind; payloads that just fill the buffer and just do not. *Codec*: URIs with each prefix and 0 to 9 or 118 to 128 characters more; five earlier contents. *Pages*: five URLs of four sizes, two of which differ in one page alone; four kinds of other content (zeros, a new NTAG, an empty message, a text); tags of four pages, any mixture, any number of pages read. *Labels*: two labels, fourteen characters, three changes. *URIs*: up to six of six characters; three more behind a code of 62. *Settings*: two outputs, two terminators, the four delays; each field of a file any of the legal values or just out of range | the walk, the codec, `Decode`, the short IDs and the settings below; `Preferences` |
| `wedge_refused_types`, `wedge_retap`, `bridge_closed`, `bridge_every_line`, `bridge_user_memory`, `bridge_interrupted`, `ndef_walk_ends`, `ndef_walk_overruns` | as the runs of their modules, the bridge with three lines, a queue and tags that are blank or carry one of two URLs; the walk with bytes to the base 16 and lengths of four bytes at both ends of their range | the disagreements below |

Why the bounds are enough.  Nothing in the wedge counts but the keys of a text and
the polls of the host; two keys have a first, a last and a between, and one poll has
a wait and a wait that gave up.  `last_handled` and `last_unknown` compare a poll
with the one before it, so two tags, one of which yields an ID, a refusal or an
error, produce every comparison.  Sessions are not bounded: views are opened and left for ever.  In the
bridge the state of a line is thrown away when it is answered, so two lines are one in
hand and one queued, or one queued and one too many; the queue's depth of one makes it
overflow with a worker that is merely slow.  A full queue behind a line in hand takes a
third line: the runs of the disagreements have it.  Longer sessions and deeper queues are the
proofs': all of the bridge's safety properties are theorems.  Three pages are a first, a
second and a text, and the fourth is the page of a longer image that lies outside user
memory.  Of outputs and terminators, which are clamped by one comparison each, there
are a first, a last and one past the range; the delays, which are looked up, are the code's.  The walk looks at no byte but to compare it, add
it or test its bits.  In `sequential` a byte has seven bits, so that a length of four is a
number of TLC's; the header's bits, the prefixes, the pages and the buffers are the
code's, and what stands at the end of a byte's range (the terminator, the mark of a long
length, the cap on short records) stands there.  `Word` is four bytes everywhere, as on the device: 2^28 of 2^32 in `sequential`, and 2^16 in
`ndef_walk_ends` and `ndef_walk_overruns`, where a byte has four bits.  The tags of `bridge`
carry a URL or a text; with wholly blank ones too it passes and takes twice as long, and the
runs of the disagreements have those.
Three changes to a label put a prefix, a separator or other spelling and a slip together,
and every pair of positions is slipped at.  `CODE_MAX` is the code's.  The runs of
`Sequential` and `NdefWalk` say `CHECK_DEADLOCK FALSE`: a walk that has returned, and a label
or a URI that has had all its changes, stops.

What the passing runs check:

- `UsbRestored`: whenever the interface is not claimed the device runs what it ran
  when the application started, the claim never outlives the scan or the test view,
  no key stays down without it, and the test has let go before it tells its outcome.
  Where the firmware refuses the call that gives the interface back, which the code
  ignores, the first is not claimed (`refused`).
- `TypesWhatIsShown`, `OutcomeHonest`, `RequestNeedsTag`, `ConfigSettled`,
  `SittingTagHandledOnce`, `RefusalAlertedOnce`: see their comments.
- `ImplementsTypist`: the keys the computer sees, whichever worker sends them, are
  those of one typist with one lease.
- `LinesAccountedFor`, `PartialWriteTold`, `PlainWriteKeepsUrls`, `WroteIsTrue`.  The
  last two speak of a tag that was read whole and not moved since (`steady`): the
  code has nothing that would notice a swapped tag.
- `ListShowsConfig`: with the type invariant, that whatever file was found the views
  can index their tables with the settings, and the list shows those in force.
- `ImplementsPreferences`: over starts, saves that fail and power losses.
- `Inside`, `OnlyForward`, `WalkEndsUnlessWrapped`: the cursors and the URI that is returned
  stay inside the memory, the message and the record; nothing is read again, and the walk
  returns, but behind a record whose length wraps.  What happens there is what the two
  runs of `MCNdefWalk` show.
- `ReadsBack`, `PagesAreTheImage`, `LongestPrefixWins`: the two halves of the codec are
  one, over any leftovers; the page count is the image's.
- `BytesSayWhatPagesSay`: `Decode`, on which the bridge's properties rest, is what the
  decoder does to the bytes, also where a mixture of two URLs' pages spells one of them.
- `CleanCopyIsRead`, `SlipIsRefused`, `TagReadsLikeLabel`, `CodeFollowsRule`.
- `ImplementsLineService`: hello first, each line answered at most once, never more
  owed than the queue and the line in hand.

**Fairness.**  `Wedge` assumes weak fairness of each worker and of the part of a
callback that has begun: the firmware's scheduler runs a thread that can run, and no
thread here spins at a higher priority.  It assumes nothing of the user, the tags or
the USB host.  `Bridge` assumes weak fairness of the application's thread, whose
waits all have a timeout, and of a callback that has begun.  A blocking NFC call is
taken to return, with a result or an error; that is the firmware's.

`RequestServed` and `TagDealtWith` allow the view to be left and the tag to be taken
off.  `LinesServed` allows the bridge to be told to stop.

The walk's fairness, in `Sequential` and in `NdefWalk`, is that of a loop on one thread: a
step that can be taken is taken.  It is needed because without it the walk might simply
not go on.  Nobody has to copy a label.

**Disagreements found.**  Eight runs check what a comment or the README says and
find a behaviour of the code that does not agree; `findings` in `PROJECT.json` quotes
both.  In short:

- an OK that meets a refused tag types an empty text and Enter;
- a refused tag between two taps of a tag hides the second;
- the session is used after it closed;
- a line that overflows the queue is met with silence;
- an image may reach past user memory;
- an interrupted `WRITE!` may leave a readable mixture;
- with a 32-bit `size_t` a payload length near 2^32 stops the walk from returning;
- in a URI record such a length passes the bound of the buffer too, and the payload is
  copied from behind the memory to behind the buffer.

Read beside the code, and in the models as the code has it, but not runs of their own:
`auto_type` is not clamped when the settings are loaded, against the comment at
`antlia_config.c:48` (`BoolOf`); the chunk flag of a record is not looked at, against the
comment at `ndef.c:106` (`IsUri`); payloads of 251 to 254 bytes reach the return that
`ndef_encode.c:86` calls unreachable (`ImageSize`); a session that closes before the
callback is set leaves a bridge that waits on (`Attach`, `CloseSession`).

## The proofs

The theorems hold for every value of the constants that meets the named
assumptions: any number of tags, IDs, interfaces, URLs and lines, any length of
text, wait, queue and image, any tables and files, any base of a byte, any memory, any
label, prefix and host, any number of changes to a label.
The assumptions say that the special values are not members of the sets they are
special to, that the smallest image has eight bytes, that tags have at least two
pages, that a `size_t` has at least the values of four bytes and holds the size of a tag
with a block's length or a prefix, that a delay stands once in its table, that the encoder's and the
decoder's tables of prefixes are one and begin with the empty prefix, that 0 and 1 are not
text and a terminator is, that the other content of a tag is of the kinds named above
(`OtherAssumption`), that what the pages of a text spell is their text (`SpeltAssumption`,
`TextIsSpelt`), that `squash`'s buffer holds a code (`BufferAssumption`), and that
what is typed for a label holds no slash, `?` or `#`, that a prefix ends in white space, and
that all of it fits a code's buffer (`TypedAssumption`).

**Wedge.**  `UsbRestored` is not inductive: a release by a worker in the wrong view
would break it.  The argument is in layers, each proved from those before it:
`WorkersInTheirViews` (a worker exists only in its own view, and while the view
callback that joins it has not come to its end: this is what the join gives);
`LeaseInv` (claimed only in a view with a worker or a callback behind it, with
`previous` the interface of the start); `JobInv` (where a worker is in
`antlia_hid_type`, against the keys it has sent); `RequestInv` (where a request can
come from); `PollInv` (the worker's memory against the poll before).  From them
follow `InterfaceIsGivenBack`, `TypingIsOfTheScreen`, `TypingIsHonest`,
`RequestsAreOfTheSession`, and the action properties `SettingsHoldStill`,
`SittingTagOnce` and `RefusalOnce`.  `WedgeImplementsTypist` maps the lease to
`claimed`, and the phase and the keys sent to those of the one worker that is alive
(`AtRest` and `AtWork` say what the mapping yields with none typing and with one);
each step is then one of `Typist` or cannot be told, from `WorkersInTheirViews` (two
workers would be two typists), `LeaseInv` and `JobInv`.

**Bridge.**  `TypeInvariant` needs `WritesUrl` (what is written is the image of a URL
no larger than what was read), or a page written could be of no URL at all.
`StepKinds` sorts the steps by what they are to the page loop.  `PutInv` (the pages
written are those before the next one) gives `PartialWriteTold`; `TagInv` (where
nothing has come between, the tag carries the pages written so far) gives
`PlainWriteKeepsUrls`, and with the lemma `WholeImage` about `Decode` it gives
`WroteIsTrue`.  `BridgeImplementsLineService` maps each step to one of `LineService`
or to none, from `TypeOK` and `HeardInv` (the callback is heard only while it is
set).

**Settings.**  The invariant is `Inv`: the types together with `ListShowsConfig`, each of
which needs the other (a list whose item is out of range could not be moved back to a
setting).  Clamping is the lemma `LoadedIsConfig`, the two searches of the delay table
`DelayIsFound`.  The refinement maps `card` to what the next start would make of it, so
a file written elsewhere is a `Replace` and a save that has opened the file has given up
what was kept.

**NdefWalk.**  The theorems hold for the device's 32-bit `size_t`: of `Word` it is assumed
only that four bytes fit and that the memory and a two-byte length, or a prefix, fit
together.  So a block's sums do not wrap, and `BlockIsInside` and `FieldsAreRead` say that a
turn which is not refused has read inside.  A record's sum may: then `NextAt` is less than
where the payload begins, and the cursor is inside the message again, but has gone back.
Where it does not wrap, the payload is in the message.

**NdefRoundTrip.**  An image has no long length, so nothing wraps in the round trip.
`AbbreviateIsLongest` follows the loop: `LoopRuns` says that each turn takes its entry or
keeps the best so far, and `TurnsKeepLongest` that the best after a turn is a prefix of the
URI and no shorter than any entry looked at that is one; it is by descent from the first
turn of which that would not be true (`LeastMember`, by the well-foundedness of the
numbers), since the library's induction cannot be used.
`ImageBytes` says what each byte of an image is.  The invariant `RoundInv` says that the
image stays in front of the memory and the walk is at its first block, then at its first
record, then done with its payload; `BlockKeeps` and `RecordKeeps` show that no other
action is possible there.

**PageWalk.**  `PageInv` says where the walk can be.  The only message in which a URI can
be found is the one the first page begins, of an image or of other content, and only its
first record, and only where the second page is of a URL; wherever else it is, the pages
say nothing.  That holds because from the eighth byte on no byte is a 1, and a URI's record
has a type of one byte: so nothing has to be known of where the walk goes once it is behind
the first page, not even that `NextAt` does not wrap.  The heart of `Decode` is that the
pages break a text off exactly where its bytes do.  `PagesSayAll` follows for all URLs: the
walk finds nothing where `Decode` says nothing, and otherwise the text the pages spell,
whichever URL that is, if any.  `WholeImageSpellsUrl` discharges `SpeltAssumption` for the
bytes: the pages of one image spell its URL.

**ShortId.**  `OneWrongSymbolIsRefused` and `OneSwapIsRefused` are about every code, not
about a table of them: the seven steps of the check value are followed symbol by symbol,
a difference between two totals modulo 37 outlasts each of them (`DifferenceLasts`, from
37 being prime to 32), and a swap makes one.  The swap with the check symbol is a case of
its own (`CheckSwapIsTold`).

**Label.**  The invariant `LabelCorrect` follows what is typed through every change: eight
characters count, wherever they stand, and folded they are the canonical symbols of the
label's ID, or, after a slip, those with one symbol wrong or two neighbours swapped; and
behind a prefix they are one token.  It is needed because the properties speak of what
`Validate` makes of the text, from which nothing follows about the text after the next
change.  `LabelNextCorrect` is one step per change; the lemmas `RespelledText`,
`InsertedText`, `RemovedText`, `MovedText` and `SwappedText` say what each does to the
places that count.  `TextIsRead` then takes any text of that shape through `Validate`:
`TrimIs` and `PartIs` find the part that holds the code, `SquashIs` says that what is
squashed is the characters that count in their order (`Enumerates`, by counting them), and
`SymbolsAreRead` and `AlphabetIs` that their values are the ID's.  A slip is refused by the
two theorems above, and by the alphabet where the character has no value.  For
`TagsReadLikeLabels`, `UriReadsText` says that a text at the end of a URI, where the rule
has a code, is read as it would be without the URI: by `CodeIsFound` it is found there, and
the white space that the URI loses with its end is what `Validate` would trim too.

**UriRule.**  `AddressCorrect` is only that the URI is a text.  `CodeFollowsRule` is then
about every text: `CodeIsFound` for one that ends as the rule says, `FoundAtEnd` for one in
which the arithmetic finds something.

**Model-checked only**: the liveness properties (the prover has no rules for fairness) and
that the actions of a run are possible.  The theorems are about the specification of each
component; that `Library` and `Sequential`, which put components side by side, take no
step that is not one of them is left to their run.  The induction over a text that `squash`,
`strip` and the search from the end of a URI seem to ask for is avoided: the model says by
places what the loops do, and the runs compare it with a reference written another way
(`CodeFollowsRule`, `TagReadsLikeLabel`).

## Not modelled

Screens, labels, sounds and the LED; delays; the texts of errors; the argument line
that starts the bridge; the build, the generators and the host tests.  The firmware
(USB, NFC poller, RPC session, views, threads, `saved_struct`) is modelled as the code
uses it; what it does inside is not in the repository.  Four hazards have no property:
nothing in the repository says what is right there, or it rests on the firmware;
`hazards` says which at each.

## The plan

1. *(done)* `Typist`, `Wedge`: the threads and the lease.
2. *(done)* `LineService`, `Bridge`: the session, the queue, the page loop.
3. *(done)* `Preferences`, `Settings`: the file between two runs of the application.
4. *(done)* `NdefWalk`, `NdefEncode`, `NdefRoundTrip`, `TagPages`, `PageWalk`: the codec
   byte by byte, and under the bridge.
5. *(done)* `ShortId`, `Label`, `UriRule`, `Library` over all of `src/lib`, `Sequential`.
6. *(done)* Proofs of the settings, the walk, the round trip and the check symbol.
7. *(done)* Proofs of the labels and the place of a code, and of `Decode` against the
   bytes: every safety property the runs check is a theorem.
8. *(left)* The bridge's properties about URLs restated over the bytes of a tag.
