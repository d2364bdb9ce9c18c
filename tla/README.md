# jabberoo in TLA+

jabberoo is a C++ library for Jabber clients: it logs in to a server over an XML
stream, parses what the server sends (with its own XML library, libjudo, and the
copy of expat in it), keeps a roster, a database of presences and a cache of
what other entities offer, and tells the application of everything by callbacks
and signals. This directory models the parts of it that keep state from one call
to the next, and the parts that turn text into what these work on; it checks
them with TLC on small instances, and proves with TLAPS for instances of any
size what the presence database, the roster, their composition in the session,
the session's logins, its loops over callbacks and queries, the discovery cache,
the agents, and the element stream with its listeners promise (section 4).

Everything runs in one thread. What makes the library hard to test is order:
packets come in any order the server likes and cut at any byte, the application
calls back into the library from its handlers, streams end or break at any
point and leave state to the next one, and several structures hold the same
fact (the presence database and the count of a roster item; the items of the
roster and the index of their groups; the state of a session and the callbacks
that wait; the cache of items and the children of items).

## 1. Inventory

Paths are relative to the repository. The state is what outlives a call.

| Component | State | Operations | Works with |
|---|---|---|---|
| JIDs (`src/jabberoo-JID.cc`) | none | taking apart, comparing | all |
| Presence database (`src/jabberoo-presencedb.cc`) | `_DB`: bare JID -> list of presences by priority | insert, remove, clear; find, contains, available | Session inserts; Roster asks `available` |
| Roster (`src/jabberoo-roster.cc`) | `_items`, `_groups` (group -> JIDs), per item `_groups`, `_jid`, `_rescnt` | update (query, presence), reset, edits of an item, requests to the server | Session drives it, asks the presence database |
| Session (`src/jabberoo-session.cc`) | `_ConnState`, `_StreamStart`, `_StreamElement`, `_AuthType`, `_Authenticate`, `_ID`, `_Callbacks`, the XPath queries | connect, disconnect, push, the handlers of the stream, login, dispatch of stanzas, operator<<, registerXPath, unregisterXPath | ElementStream below, everything else above |
| XPath (`src/libjudo/src/XPath*`) | the operations a query is parsed into | parse, execute, check | the session's loops |
| DiscoDB (`src/jabberoo-disco.cpp`) | `_items`, `_callbacks`, the items on the heap | cache, clear, erase, three answers, runCallbacks | asks through Session |
| Agents (`src/jabberoox-agent.cc`) | `_fetchrequested`, the list of agents below | fetch, on_fetch | asks through Session |
| ElementStream (`src/libjudo/src/ElementStream.cpp`) | `_element_stack`, `_document_started`, `_document_ended`, the parser | push, reset, parseAtOnce, the handlers of expat | calls its listener |
| Listeners: FileStream, BufferParser, ComponentSession | `_root`; `_connState` | ParseFile; parseAtOnce; connect, disconnect, push | called by ElementStream |
| Elements (`src/libjudo/src/Element.cpp`, `judo.cpp`) | attributes, children | add, find, erase; toString, escape, unescape | all |
| expat (`src/libjudo/src/expat`) | the buffer, the processor, the tags that are open, the DTD: tables, pools, prolog state | XML_Parse | calls ElementStream |
| BrowseDB, packets, messages, filters, vCards, utilities, Python bindings | none between calls, or not in the build | | |

Hard behaviours, and the properties that make each component correct:

- *Presence database.* Lists are searched, erased from and inserted into on
  four paths. No contact may be left with an empty list (`contains()` is true,
  `find()` throws), a resource may be in a list only once (its logout removes
  one entry), and the first entry is the default resource: it has the highest
  priority, and among equals it was placed last.
- *Roster.* The index of groups is kept up by differences, from the groups an
  item had to those it gets. It must list every item in all its groups, nobody
  in others, and have no empty group, whatever the server pushes.
- *Contacts: roster and database together.* The item of a contact and the
  database must agree who is online, though the item looks only when a presence
  comes; every coming and going must be told with the previous state.
- *Session.* A connection comes about only by an accepted login of this
  stream; a session that waits must be waiting for something; every connect()
  must end in an event.
- *Callbacks and queries.* `handleIQ()` walks over a range of a multimap while
  the functions it calls insert into the multimap; `dispatch()` and
  `operator<<` walk over lists of queries while the functions they call register
  and unregister queries and send packets, each in a loop of its own. The loops
  must know where they are, and show each packet to the right queries.
- *DiscoDB and Agents.* Requests are answered in any order, by another kind of
  answer, or never; the items that answers make point to each other and are
  deleted by three functions. No item may lead to a deleted one, no function be
  forgotten, no list be filled twice.
- *ElementStream and its listeners.* What the listener is told must be what the
  document holds, also when the document before broke off.
- *expat, Elements, XPath.* Text in pieces must say what it says in one piece;
  what is written must be read back; a query must find what it means.

`PROJECT.json` lists the components, and under "hazards" each place in the code
where this can go wrong.

## 2. Modules

| Module | Models | Extends / instantiates |
|---|---|---|
| `JIDs` | JIDs as records of bare part, resource and spelling; comparison; `Roster::filterJID` | |
| `PresenceDB` | the database: `insert`, `remove`, `clear` and the searches | `JIDs`; `PresenceMap` as its abstraction |
| `PresenceMap` | abstract: the latest presence of each JID that has not left | `JIDs` |
| `PresenceHistory` | auxiliary: the order in which resources were placed | `PresenceDB` |
| `PresenceClaims` | auxiliary: logins and removals, for what the headers say of them | `PresenceHistory` |
| `RosterGroups` | the index of groups and the operations on it, the merge as one formula | |
| `RosterMerge` | the loop of `mergeItemGroups`, one iteration a step | `RosterGroups` |
| `Roster` | items and index: queries, reset, edits | `JIDs`, `RosterGroups` |
| `RosterHistory` | auxiliary: the number of edits of the application | `Roster` |
| `Contacts` | the session's packets on roster and database, with the signals they cause | instances of `PresenceDB` and `Roster` |
| `Session` | connecting, logging in, the end of a stream | |
| `IQDispatch` | ids, callbacks and the loop of `handleIQ()`, one turn a step | |
| `Dispatch` | the lists of queries, the loops of `dispatch()` and `operator<<`, one turn a step | `IQDispatch` |
| `DiscoDB` | the cache of items, its three answers and the loop of `runCallbacks()` | |
| `Agents` | the agents of a list and their fetches | |
| `Directory` | cache and agents on one session, whose stream may end | `DiscoDB`, `Agents` |
| `ElementStream` | the handlers of expat, and a reference definition of what a document tells | |
| `Listeners` | parseAtOnce(), FileStream and ComponentSession as listeners of a stream | `ElementStream` |
| `Tokens` | expat's tokenizer (`xmltok_impl.c`) as a set of rules | |
| `Markup` | what expat reads in a token: attributes, references, XML declaration | `Tokens` |
| `Prolog` | the handlers of `xmlrole.c` as a set of rules | |
| `Values` | attribute and entity values: references and space | `Markup` |
| `Content` | the processors of `xmlparse.c`: content, CDATA, attributes and defaults, prolog, epilog | `Values`, `Prolog` |
| `ParseBuffer` | the buffer of XML_Parse, with any processor | |
| `XMLParse` | XML_Parse with that buffer and the parser, called piece by piece | `Content`, `ParseBuffer` |
| `Documents` | documents with what they say, written down beside them | `XMLParse` |
| `Declarations` | the prolog token by token beside the grammar of the recommendation | `Content` |
| `Elements` | the tree of elements, to a string and back | `Content` |
| `XPath` | the parser and the operations of queries | |
| `Queries` | what a query means, beside what `XPath` finds | `XPath` |
| `StringPool`, `HashTable`, `DTDTables` | string pools and hash tables, and the names and values a parser keeps in them | |
| `Texts` | one run of `Documents`, `Declarations`, `Elements`, `Queries` and `DTDTables` | these |
| `TextsClaims` | elements and queries side by side, for two sentences that fail | `Elements`, `Queries` |
| `MCStores` | one run of the database, the roster and the merge, and its constants | `PresenceHistory`, `RosterHistory`, `RosterMerge` |
| `MCContacts`, `MCPresenceClaims` | constants for TLC | the module they are named after |
| `SequenceLemmas`, `*_proofs` | theorems (section 4) | the module they are named after |

Names are those of the source. An action is the whole of the function it is
named after, or one turn of a loop where a turn calls functions of the
application. Definitions marked `Mutant:` are wrong on purpose: variants of
the definition that follows them, with a slip that is easily made, kept to show
that each property notices one.

### Presence database

`db` is `_DB`. A presence is a record of sender, type and priority; status and
other content are left out. `insert` follows the code: a presence that says
somebody left (unavailable, error) removes an entry; one of an unchanged
priority replaces the entry in its place (`KeepsPlace`); any other goes out and
in again before the first entry that is not of a higher priority
(`InsertionPoint`). `Updated` is the list work, `SetBucket` the map: an empty
list is erased. A lookup of a key that does not exist inserts an empty list in
C++ (`_DB[...]`); each path of the code erases it again or fills it, which is
what `SetBucket` says.

`PresenceMap` says the same without lists. `ImplementsMap` is the refinement,
with the set of all presences in the database (`Known`) for its variable. Both
it and `TiesByPlacing` say what the code does, which is not what the headers say
of `remove()` and of resources of one priority: `PresenceClaims` states these
sentences, and the run PresenceClaims shows that they are false.

### Roster

`items` and `groups` are `_items` and `_groups`. Keys are those of `filterJID`:
the bare JID of a user, the whole JID of an agent. A roster query is a sequence
of items folded over both variables (`Pushed`), as the loop of
`update(Element)` does; the groups of an item are those of the query, or a
virtual one (`ShownIn`). `mergeItemGroups` is stated twice: as the loop over two
iterators in `RosterMerge`, and as a formula in `RosterGroups` that says what
the loop comes to. That they agree is checked by the run Stores and
proved in `Roster_proofs`; the other modules use the formula. Names,
subscription states and the requests to the server (which change nothing here)
are left out.

### Contacts

`handlePresence`, the roster branch of `handleIQ`, `onDocumentEnd`, `connect`
and `disconnect` of the session, on a database and a roster that are instances
of the modules above. `told` and `rosterTold` are the signals of the last step.
`heard` is auxiliary. `feed` is the connection: after disconnect() what was
sent before may still be parsed. Edits of items and `PresenceDB::remove`, which
only applications call, are not in this composition.

### Session

The state of the session, and an environment: `stream` is how far the server's
stream is parsed, `asked` the requests it has not answered. An IQ of the session
is a request and, if a handler is registered, a callback with its id. The
server answers any request it has got, in any order, each at most once, and may
close or break the stream at any time; callbacks then stay in the map, as in
the code. `fault` is set where the code would follow a pointer to nothing:
`_StreamElement` before the header came or after `IQHandler_Auth` freed it.
`waiting` and `refusedBare` are auxiliary: connect() was called, and no event
since; and a refusal without an `<error/>` came since the last connect().

Three constants say what the environment does. `Patient`: the application does
not call connect() while `waiting`. `LateInput`: what was under way at
disconnect() is parsed. `Errors`: refusals with (`error`) and without (`bare`)
an `<error/>` element.

### Callbacks and queries

In `Session` the answer to a request is one step. `IQDispatch` opens it: the
multimap is a list in the order of ids, `loop` holds the two iterators (each
the node it points to, so that insertions move nothing), and each turn of the
loop is a step that calls a function, which may query again. Ids are texts in
the order of `std::string`, cut to `Width` digits as `snprintf` into eight
characters cuts them.

`Dispatch` puts this loop where it runs: `dispatch()` first runs the handlers of
a stanza, then its loop over the incoming queries. Whatever is called (a
callback, a query's function) may register a query, which goes to the front of
its list, unregister one, send or query. A packet that is sent runs through the
loop of `operator<<(const Packet&)` over the outgoing queries before the call
returns, so `running` is a stack of loops, the innermost last. What
`queryNamespace()` sends is a string, which goes out by `operator<<(const
char*)`: no outgoing query ever sees it. A list is a sequence of query numbers;
a loop is the record of its list, the node its iterator points to (`it`),
whether it is inside a function, and for the properties, which queries there
were when it began and which it has looked at. Erasing the node of an iterator
makes it `Gone`. A loop that then uses it, or looks at a query that was deleted
and left in a list, sets `fault`, and nothing is said of what follows: the
behaviour is undefined.

### Directory

`DiscoDB`: items are allocated one by one on `heap`; `items` is the multimap as
the set of the items in it (of one JID the first is the one of the least number,
since items come in the order of their numbers and stay there), and `children`
is the set of items an item points to (browsing appends a child it has just made
twice; the set has it once). `callbacks` is the other multimap, a set in the
order of keys and, under one key, of calls (`Before`): an iterator is the number
of an entry, and `FirstIn` what `lower_bound`, `upper_bound` and an increment
find. An answer to disco#items makes items for what it lists; an error makes the
cache browse the JID, whatever node was asked for; an answer to browse takes the
item that is there out of the map, without deleting it, enters what it lists,
and then the new item: if it lists its own JID, that JID has two items then
(`OneItemPerJID` is violated; `CacheInv` has `FewItemsPerJID`, which excepts the
JIDs in `selfListed`). Each handler is one step up to `runCallbacks()`, whose
loop is modelled by its steps, for the functions may call `cache()` again: into
the range the loop walks through. The loop erases the node of its iterator and
then increments it. That is undefined: `returns` either goes on from what the
memory held or sets `fault`. The pointer that is used while it is NULL (an
answer for another node of a JID that is cached) sets `fault` as well; no
property denies that this happens. `nested`, `shared`, `forgotten`, `selfListed`
and `told` are auxiliary.

`Agents`: `fetch()` asks once, while the list is empty and `_fetchrequested` is
not set; `on_fetch()` fills the list, or not, and tells those who wait, who may
fetch in turn. The agents of a list are copies, and the copy constructor does
not set `_fetchrequested`: `Garbled` are the agents for which the memory holds
something other than zero.

`Directory` is both on one session, which runs one handler at a time. Its
stream may end: what was asked is then never answered (`StreamEnds`).

### ElementStream and its listeners

For `ElementStream` expat is an environment: it calls the handlers in the order
of a well-formed document, until it meets an error (what expat itself does is
in the modules of the next section). `text` is what it has parsed, `events`
what the listener was told. The reference is a function of the text alone:
`EndsOf(text)` are the places where something ends that the listener is to be
told of, `EventAt` what it is, and `Lists` says that a sequence has a value for
each of a set of places, in their order. `onEndElementReset` is
the end of a document whose listener calls `reset()`, which frees the parser
while it runs; that is undefined, and the action is what happens if the program
goes on.

`Listeners` hangs one of four listeners on it: the `BufferParser` behind
`parseAtOnce()` and `FileStream`, which put the tokens they are told together
below a root; `ComponentSession`, which keeps the state of its connection; and
any other, which may call `reset()`. `disconnect()` of a component asserts that
it is connected; where `onDocumentEnd()` or `push()` calls it and it is not, the
program ends (`outcome` is `"assertion"`).

### Texts

The modules from `Tokens` to `DTDTables` are about functions more than about
steps: a text is a sequence of one-character strings. A scan function of expat
is a set of rules (the place in the function, the kind of the character, the
place behind it or the token), a handler of `xmlrole.c` a set of rules over
tokens; `Content` has the processors as functions of a record that is the
parser, with the events it has told as a component. A few characters stand for
each byte type of expat; `~^` is a letter of two bytes.

`XMLParse` has the one state machine of expat that concerns its caller: pieces
of any of the sizes `PieceSizes` are parsed in place, and what is left over of
each is copied into a buffer that is moved or doubled. What becomes of the
buffer depends on the parser only in where it stops: `ParseBuffer` has that part
for any processor, with the place it stops at as a parameter, and `XMLParse`
puts the parser's in.

Two functions read what nobody has written, and what they do is a choice.
`unescape` looks at the characters behind an "&" without asking where its text
ends, and the parser hands over the "&" of an `&amp;` alone: `behind` is what the
memory holds there, one of `Memory`. `AllOp`, the operation for `//`, asks
`_is_root`, which no constructor sets: `is_root` of `QueryNext` is its value.

`DTDTables` is another state machine: names are written
into a pool of blocks that grow by realloc, with a hash table of pointers to
them that is rehashed when it is half full, while values of a tag come and go in
a second pool. Places that were freed are never given again,
so that a dangling pointer shows; the one pool takes the odd places, the other
the even ones, so that neither gives a place of the other.

Each of the suites of `Texts` has a definition of what is right that is not
derived from the code: the events written down beside each document
(`Documents`), the grammar of the XML recommendation, read from the left
(`Declarations`), the tree itself (`Elements`), the structure a query is printed
from (`Queries`), and the sets of names and values put in (`DTDTables`).

## 3. Runs

| Run | Result | Question |
|---|---|---|
| Stores | holds | are the lists of presences in order and the latest? are all roster items listed, and only where they belong? does the merge loop end, and with what the formula says? |
| PresenceClaims | violated | is the default resource, among equals, the one that logged in last, or does `remove()` take out all that match user@host? |
| Contacts | holds | do item, database and signals agree? |
| SessionLogin | holds | does a login come to an end, once, and only as it should? |
| SessionEnd | violated | is the end of a connection told, also after an error? |
| Dispatch | holds | do the loops over callbacks and queries call what they should, and end? |
| Directory | holds | does the cache stay sound, and who is never answered? |
| DirectoryCopies | violated | does the cache hold one item of a JID? |
| Stream | holds | are the listeners told what the documents hold? |
| StreamReset | violated | does reset() make a new stream? |
| Texts | holds | does text mean the same written, cut, parsed and queried? |
| TextsClaims | violated | does the text that is added end where its length says, or does `//` look below the root? |

Types are checked with the invariants named `...Inv` and proved where there is
a proof; the first state a variable leaves its type in is otherwise an error of
TLC's.

**Stores** has three suites with no state in common; each behavior takes one
of them up. *Presences* (`DBInv`, `TiesByPlacing`, `ImplementsMap`): three
resources of one user make every case of an insertion (before, between, behind
two others), three priorities every change of order; the fourth JID spells one
of them differently, and an agent makes a second list. *Roster* (`RosterInv`,
`EveryItemListed`, `OnlyResetLeavesGhosts`): a user spelled in two ways and an
agent's registration, queries of one item and of two (a removal before and after
an update), all virtual groups and two real ones on both sides of them in the
order of names; up to two edits by the application (`MaxEdits`), after which
only `RosterInv` (no group is empty) is claimed. *Merge* (`MergesGroups`,
`ListedAsTold`, `Terminates`): all indexes, old groups and new groups over three
groups and two items; three are enough for a difference before, between and
behind groups that agree.

**PresenceClaims** (`LoginClaimOrRemoveClaim`). The run ends in a state in which
two sentences of the headers are broken at once: of two resources of one
priority the one that logged in last is the default (`LatestLoginIsDefault`),
and remove() takes out all that match user@host (`RemoveTakesAll`). Two
resources of a user suffice: one logs in after the other, with another priority,
and then the first changes its own to the same; and a JID of the user is removed
while others stay.

**Contacts** (`OnlineIsAvailable`, `HeardItemsAgree`,
`ChangesAreTold`). A user with two resources, each available, gone or of a type
that is stored without being available (`subscribed`), at two priorities: the
default of the contact changes in every way. An agent has no resource count of
its own. Queries add, remove, and remove and add again.

**SessionLogin** (`AwaitsAnAnswer`, `OneLoginAtATime`, `NoFault`,
`ConnectedMeansAccepted`, `StaysConnected`, `LoginSettles`). A patient
application, refusals with and without `<error/>`, logins and registrations,
with the type of authentication given or asked for, and connections that do not
log in (`should_auth` false). After a refusal without `<error/>` a session may
wait for nothing: `AwaitsAnAnswer` and `LoginSettles` except it (`refusedBare`).
`MaxID` bounds the ids used when connect() is called; seven allow a
registration, its login and a second and third attempt, also on a second stream.
`ConnectedMeansAccepted` is proved for an impatient application too (section 4).

**SessionEnd** (`EndIsTold`). `push()` sets `csNotConnected` after a parser
error and emits no `evtDisconnected`; `include/session.hh:307` says it is
emitted "whether the connection was due to error or not".

**Dispatch** (`DispatchInv`, `CalledForOwnID`, `CalledWhenAnswered`,
`EachQueryOnce`, `FaultsAreMisuse`, `DispatchReturns`). Base 2 and two digits
make ids repeat from the fifth on and sort as texts do ("10" between "1" and
"11"), so that a new callback goes before, between and behind the iterators; six
queries (`MaxID`) reach that with callbacks nested. Three XPath queries
(`MaxQueries`) let a function unregister the one before it, itself and the one
behind it; two packets (`MaxSends`) nest one loop of `operator<<` in another,
and stanzas come without bound. `MaxCalls` bounds the calls of all kinds
together.

**Directory** (`CacheInv`, `CalledForOwnAnswer`, `NoneForgotten`, `LoadedOnce`,
`StuckByLossOnly`). Two JIDs, with and without a node; answers list one item or
none (`MaxListed`), of the JID that was asked or of the other, and come while
four items (`MaxItems`) have not been allocated, so that an item can be listed,
asked, browsed and browsed again; one item is erased (`MaxErased`); three calls
of `cache()` (`MaxCalls`) wait in every order of their keys. Two agents, one a
copy with its flag set, and two fetches. While fetches were made, `MaxBeside`
bounds the calls of `cache()`: the two share nothing but the stream, and each
has its full bounds alone.

**DirectoryCopies** (`OneItemPerJID`). The same bounds. A JID that lists itself
when it is browsed has two items: the child is entered after the copy was taken
out, and before its parent.

**Stream** (`ToldOfDocument`, `RootIsDocument`, `ConnectedByHandshake`).
Documents of up to seven tokens (`MaxTokens`), for each listener: a root with
two children, or one with a child of its own and text at each depth; two
documents after the first (`MaxDocuments` resets).

**StreamReset** (`ResetForgets`). As Stream, but a document may break off
within a child of its root: `reset()` leaves `_element_stack`, so what the next
document holds is added to the old child.

**Texts**. *Documents* (`BufferHolds`, `CutsDontMatter`, `ToldAsWritten`): pairs
of 14 pieces of content (references, sections, comments, attributes that are
normalized, line ends, a letter of two bytes), each piece under a DTD with an
entity and a default, and 29 texts that break one rule each; given in pieces of
0, 1, 2 and 7 characters in any order, to a buffer of 4 that is doubled several
times. *Declarations* (`FollowsGrammar`): up to twelve tokens, in any order,
from the start of a document, of an internal subset and of a content model on;
each sequence up to the first token the grammar does not have there. *Elements*
(`ReadBack`): trees of up to 30 characters with three children, with texts that
look like escapes. *Queries* (`FindsWhatIsMeant`): paths of up to three steps
with tests that are combined and negated, on trees with elements of one name at
several depths. *Tables* (`NamesAreFound`, `StringsStay`): three names, two of
the same hash, in tables and blocks of the smallest size, so that both grow.
`ReadBack` is about memory in which no "&" happens to lie in front of the rest
of another escape sequence (`Harmless`), and `FindsWhatIsMeant` about `//` where
`_is_root` is zero; the next run is about the rest. The suites have no
state in common; they are one run because each asks the same question of a
conversion.

**TextsClaims** (`LengthClaimOrDescentClaim`). The run ends in a state in which
two sentences of libjudo are broken at once. `DataEndsWithItsLength`: a child
that is text with an "&" is written out and parsed; `unescape` gets the "&"
alone, and with "lt;" behind it in memory makes a "<" of it. `AllDescends`: with
something other than zero in `_is_root`, `//c` compares the name of the root and
looks at no other element.

### Fairness and deadlock

`MCStores`: weak fairness of the loop's step in the merge. `Dispatch`: of the turns of its
loops, together with the return of the functions they call: the one thread runs
on, and functions are assumed to return. `Session`: weak fairness of
`onDocumentStart` and of the answer to each request (`FairSpec`), which is what
the environment must do for a login to end; nothing is assumed of the
application. Safety runs assume no fairness, and neither do Directory (the
network owes no answer), Stream and Texts.

Deadlock is checked for PresenceClaims and Contacts. It is not for Stores (the
loop of the merge ends; the other two suites always have a step), Session (no
ids left and the stream closed: the bound), Dispatch and Directory (their
bounds, and faults, after which nothing is said), Stream (its bounds, and
parseAtOnce() returns), Texts and TextsClaims (texts end).

## 4. Theorems

Each proof module is named after the module it is about (`Judo_proofs`:
`Listeners`, `DTDTables` and `ParseBuffer`) and proves its
theorems for any values of the constants that meet the assumptions of that
module. Each theorem about an invariant rests on an inductive one, which the
module names; what is proved is that it holds at first, that every action keeps
it, and that it implies the property.

**`PresenceDB_proofs`**: for any sets of JIDs and types and any integer
priorities (`PresenceAssumption`, `JIDsAssumption`),

- `DatabaseTypeCorrect`: `DBSpec => []DBTypeOK`
- `DatabaseInOrder`: `DBSpec => []DBInv`
- `DatabaseImplementsMap`: `DBSpec => ImplementsMap`
- `TiesGoToTheLatest`: `PlacingSpec => []TiesByPlacing`

The inductive invariant is `IInv == DBTypeOK /\ DBInv`. None of the two does
alone: that the lists stay in order rests on priorities being comparable, which
`DBTypeOK` gives, and that a logout leaves no second entry on `OneEntryPerJID`,
which is kept only because an insertion first takes out the entry of its own
JID. `ListInv(h, l)` states the invariant of one list, the empty one included,
and the argument goes list by list: `WithoutKeepsOrder` (an entry is taken
out), `PlacedKeepsOrder` (one is put where `InsertionPoint` says),
`UpdatedKeepsOrder` (the two, or a replacement in place), `SetBucketKeepsInv`
(the map). Each of them also says what becomes of the set of presences in the
list, from which `StepImplementsMap` concludes that each step of the database is
one of the map. For ties `HInv` adds to `IInv` that of two entries of one
priority the first came later (`Ties`); `placings` of `PresenceHistory` is the
relation "came later than" of each contact's resources, and an insertion
behind the entries of a higher priority is one before all of its own.

**`SequenceLemmas`** has what several of the proofs need: the least number
principle, what `RemoveAt` and `InsertAt` of the community modules do to a
sequence, and folds. The library's theorems of induction cannot be used, so a
property of every prefix of a fold is proved by the least prefix without it:
`FoldExists`, `FoldIs`, `FoldReaches`, which says where a fold ends whose steps
lead from one set to the next, and `FoldStays`, for steps that lead from a set
to itself. A module states it of its own operator by
`INSTANCE SequenceLemmas WITH Op <- ...`.

**`Roster_proofs`**: for any JIDs and groups and any set of queries of any
length (`PushesAssumption`),

- `RosterInOrder`: `Spec => []RosterInv`
- `ItemsAreListed`: `HSpec => []EveryItemListed`
- `QueriesLeaveNoGhosts`: `HSpec => OnlyResetLeavesGhosts`

A query is a fold of `Pushed` over its items, so each property is stated as a
set of states that `Pushed` maps to itself: `RosterStates` (types; that no group
is empty is the type of the index), those in which each item is filed under the
key of its JID and listed in all its groups (`FiledByJID`, `AllListed`), and
those without a ghost that was not there before the query (`NoNewGhost`).
`IndexOK` is the invariant: the second set, until the application edits an
item, since the merge needs the groups the index has as the item's own. Ghosts
are a matter of spelling: an item that was removed under another spelling of its
JID stays listed under the first, which is why the property is about those that
are `NamedOneWay`.

The last section of the module is about the loop of `mergeItemGroups`: for any
groups, any order of them (`NameOrder` puts them in a line), any index and any
two lists of groups,

- `LoopMergesGroups`: `MergeSpec => []MergesGroups`
- `LoopListsAsTold`: `MergeSpec => []ListedAsTold`

With `keep` the groups the loop leaves alone, the invariant `MergeInv` says of
each group that its members are those of before, without the item if the loop
has passed it as an old group outside `keep`, and with it if passed as a new
one (`SoFar`). `SideBySide` says why the loop knows `keep` though it never
computes it: while old groups are left, the new ones it has passed are old ones
it has passed and all kept, and the next new one, if it is to be kept, is still
to come among the old ones, since both lists are sorted.

**`Contacts_proofs`**: for any presences and queries, in any order and over any
number of streams,

- `ShownOnlineIsAvailable`: `Spec => []OnlineIsAvailable`
- `HeardItemsAgreeAlways`: `Spec => []HeardItemsAgree`
- `ChangesAreToldAlways`: `Spec => ChangesAreTold`

The two invariants need only that items have the keys of the roster and that
who was heard is an item (`ContactsInv`). Why they hold is a matter of keys: a
presence touches the list of its own contact and no other
(`OthersStayAvailable`), and the item under a key is asked for exactly that list
(`KeyOfUser`); a query keeps the count of each item it does not remove
(`QueryKeepsItem`) and makes others without one (`QueryKeepsCounts`).

**`Session_proofs`**: for any values of the constants that meet
`SessionAssumption` (an impatient application, late input and bare refusals
included) and any number of logins and streams,

- `SessionTypeCorrect`: `Spec => []TypeOK`
- `ConnectionIsAccepted`: `Spec => []ConnectedMeansAccepted`

`ConnectedMeansAccepted` is not inductive: a callback that an earlier stream
left in the map could meet the answer to another request that has got its id.
The invariant adds that this never is: `IdsUsed` (callbacks and requests have
ids below `_ID`, so a new request meets no old callback) and `Matched` (under
the id of a request that is not a login there is no `IQHandler_Auth`).
`DraftInv` states both of the draft a handler works on; `SendKeeps`,
`SendLoginKeeps` and `AuthenticateKeeps` go through the functions that send,
and one lemma for each group of actions (`ConnectKeeps`, `StartKeeps`,
`EndKeeps`, `AnswerKeeps`) through the steps. The ids of the model are numbers
that do not repeat. Those of the code do from 1000000 on (section 5), so the
theorems are about sessions that send fewer requests.

The second part of the module is about an application that waits for the
outcome of connect(), on a connection that brings nothing after disconnect()
(`Patience == Patient /\ ~LateInput`):

- `PatientLogsInOnce`: `OneLoginAtATime`
- `PatientNeverFaults`: `NoFault`, if the application does not itself ask for
  zero-knowledge authentication (`"0k" \notin AuthTypes`)
- `PatientAwaitsAnAnswer`: `AwaitsAnAnswer`, with its exception of a session
  that was refused without an `<error/>` (`refusedBare`)
- `PatientStaysConnected`: `StaysConnected`

Each premise is needed, and so is the exception: section 5 says what happens
without it. The invariant
`PatientInv` adds to `IInv` that at most one request is pending, that is, has a
handler waiting for its answer (`OneStep`), and that while one is, the
application waits (`StreamInv`). So connect() finds none, and a handler, whose
own request was the one, leaves none but the one it sends.

**`Directory_proofs`**: for any agents, copies and bounds, and whatever the
cache does beside,

- `AgentsLoadedOnce`: `DirSpec => []LoadedOnce`
- `AgentsStuckByLossOnly`: `DirSpec => []StuckByLossOnly`

The invariant adds to them that an agent with a request open has its flag set
and its list empty (`OpenOnce`). And for any JIDs and nodes, answers of any
length, and any number of calls of `cache()`,

- `CacheIsSound`: `DirSpec => []CacheInv`
- `FunctionsGetTheirAnswer`: `DirSpec => []CalledForOwnAnswer`
- `FunctionsWaitForAnswers`: `DirSpec => []NoneForgotten`

on one invariant, `DiscoInv`. Its first part, `HeapInv`, is about the items: in
the map are allocated ones, one of a JID, or two if it has listed itself (`Few`),
and there is a set of items that holds those of the map and all their children,
allocated or erased by the application (`Live`); `Sound` states it of the draft of
the heap on which a handler works. For an answer to disco the item at hand is in
the map from the start (`AtHand`); while one to browse is handled there is no item
of its JID, or the one that its list has made (`Browsing`). `ListItemKeeps` and
`ListBrowsedKeeps` say that each item an answer lists keeps it so, `FoldStays` that
all of them do, and `BrowseIs` that there is room for the last. The second part
is about who waits: requests and functions have each their number
(`QuestionsOK`, `Own`); between the iterators of the loop (`Due`) are functions
of its key, or ones that were entered while it ran (`InRange`); and each function
that waits has a request open, is due in the loop, or its key was forgotten
(`Waits`). `FirstInIs` says that the order of the multimap has a least
entry in each set that is not empty: the one of the least JID, node and number.

**`Dispatch_proofs`**: for any number of queries, packets and nested calls,

- `LoopsShowEachOnce`: `DispatchSpec => []EachQueryOnce`
- `LoopsFaultByMisuseOnly`: `DispatchSpec => []FaultsAreMisuse`

The invariant `LoopsInv` says where each loop of the stack stands in its list:
behind its node is what it has yet to show, before it what it has shown, and
between these only what was registered since (`Stands`). Lists hold each query
once (`Distinct`), all loops but the innermost are inside a function, and a loop
inside a function stands on the query it calls (`FrameOK`): so whoever erases
the node of a loop unregisters a query that is being called. `InFrontKeeps`,
`StandsInFront`, `ErasedKeeps` and `StandsErased` are about lists that change
around a loop, `StandsAfter` about a loop that moves on, `PushKeeps` and
`TurnKeeps` about the stack. And of the loop of `handleIQ()`, for any base and
width of ids, also where they repeat,

- `CallbacksGetTheirOwn`: `DispatchSpec => []CalledForOwnID`
- `CallbacksAreAnswered`: `DispatchSpec => []CalledWhenAnswered`
- `LoopsStandInTheirLists`: `DispatchSpec => []DispatchInv`

`CallbacksInv` says that the multimap is in the order of ids (`ListOK`), that
every query made is in it or was called, and where the loop stands
(`StandsIn`): whatever was answered and is still in the map has the id of the
loop and lies between its two iterators, which are nodes of the map in order, or
its end. A query made in a callback is not answered yet, so it may come anywhere,
between the iterators too if the texts of two ids are the same. Ids are texts
made by a recursive function of a number; `DigitsExist` shows by the least
number principle that the function is defined.
`OneIncoming` says that of the loops over queries only the outermost can be that
of `dispatch()`.

**`Judo_proofs`** is about libjudo, in three parts. Of its listeners: for
documents of any length and depth, any number of them, broken off wherever the
parser likes,

- `DocumentsAreTold`: `ListenersSpec => []ToldOfDocument`, if `~ResetAnywhere`
- `RootIsRebuilt`: `ListenersSpec => []RootIsDocument`, if `~ResetAnywhere`
- `HandshakeConnects`: `ListenersSpec => []ConnectedByHandshake`

The premise is that no reset() comes while a child of the root is incomplete;
the run StreamReset shows what happens otherwise. That a component is connected
by a handshake alone does not depend on it. The invariant `ShapeInv` says where
the elements of the stack lie in the text (`Marks`): the lowest begins behind
the last place where the depth is 1 (`WholeTo`), each ends where the next
begins, the topmost with the text. So a tag or a piece of text extends the
topmost (`TopGrows`), an element that is closed the one below it (`BelowGrows`),
and a child that is complete is the part of the text from `WholeTo` on. `Heard`
sums up the step: nothing is told and nothing ends, or what is told is what the
reference has at the new place (`EndsAt`), and `EventsOfOneMore` that a new
place changes none of the old. `RootInv` is about the root of a listener, which
grows by the same parts (`WholeGrows`, `WithoutRootTextGrows`). The lemmas at the
beginning count: the depth is the number of tags that were opened less those
that were closed, and places that come behind all others have the highest ranks
(`RankBehind`), so what is appended is listed (`ListsMore`).

Of the names a parser of expat knows and the values it keeps: for any strings
of any length, in any order, and any hash values of their characters
(`StringsAssumption`), tables that begin with any number of slots from
two on (`InitSizeAssumption`) and blocks of any size (`InitBlockSizeAssumption`),

- `NamesFound`: `DTDSpec => []NamesAreFound`
- `StringsKept`: `DTDSpec => []StringsStay`

The invariant `DTDInv` has a part for each of the structures, since each relies
on the other. A table is well formed (`TableOK`) if from the slot the hash of a
name gives down to the one its pointer is in every slot is used (`HashedIn`), so
that a search, which stops at the first empty slot, cannot miss it; and it is
filled to the half at most, so that there is an empty slot and a search ends. A
rehash puts the pointers of the old table into the new one, slot by slot, which
is a fold: each turn keeps what `HashedIn` says of the pointers put so far. This
is about the texts the pointers have at the moment of the call. That they have
the same later is the part of the pools: a finished string lies in front of what
is being written, or in another block (`Settled`), no block is at the place of
another or of a free one (`Apart`), and every function of a pool keeps whatever
is settled (`Keeps`), also when realloc moves the block or the string being
written is copied into a new one, while the characters written so far stay what
they are (`Open`). Writing a string is a fold as well, over its characters.
`Known` puts both together: the pointers of a table are settled strings of its
pool, so what `lookup` was told is what the table will be asked.

Of the buffer of `XML_Parse`: for pieces of any length, a buffer that begins
with any size (`InitBufferSizeAssumption`) and any processor that stops in the
text it was given,

- `BufferIsLargeEnough`: `BufferSpec(Seq(S)) => []BufferHolds`

`DoubledIs` says that the loop of `XML_GetBuffer` ends with a size that is
enough (a fold again: after each round the size is enough or larger than the
number of rounds), `RoomIs` that there is room behind what is held, which keeps
its length. The theorem is about the buffer, not about the parser: the actions of
`XMLParse` that use the buffer are those of `ParseBuffer` with the place the
parser stops at, and that this is a place in the text is left to TLC, since the
processors are recursive. `BufferHolds` of the run Texts is violated by one that
stops behind what it was given.

*Only model-checked*:

- what the parser, the declarations, the elements and the queries make of a text
  (`CutsDontMatter`, where no error is told, `ToldAsWritten`, `FollowsGrammar`,
  `ReadBack`, `FindsWhatIsMeant`): their modules consist of recursive operators,
  which TLAPS cannot reason about, and TLC compares them with their references
  instead;
- all liveness properties (`Terminates`, `LoginSettles`, `DispatchReturns`):
  TLAPS proves neither `ENABLED` nor what fairness brings about. That the loops
  do the right thing if they end is proved; that they end is checked.

## 5. Behaviour found while modelling

Seven disagreements of the code with its documentation or its own comments are
shown by five runs (section 3): SessionEnd, StreamReset and DirectoryCopies, and
two each by PresenceClaims and TextsClaims. Others the models contain, or were
met while they were written, with no run of their own:

*Presences and roster*

- `send_unavailable()` looks at the first entry of each list, where
  `include/presenceDB.hh:90` promises "Send unavailable presence for all
  entries.": a contact with two resources online gets one signal.
- `Roster::reset` leaves the group index; what it then lists are no items
  (`OnlyResetLeavesGhosts` excepts it).
- An item whose groups the application edited may be missing in a group when
  the server pushes it back: the merge takes the edited set for the old one.
- An item made after the presence of its contact came is offline until the next
  one comes (`HeardItemsAgree` is about the items that heard one).

*Session*

- `connect()` before the header came, without authentication, dereferences
  `_StreamElement`; `sendLogin` with explicit zero-knowledge authentication
  dereferences a null query. `AuthTypes` with `"0k"` and `Patient = FALSE` show
  them as violations of `NoFault`.
- After a bare refusal the state is still `csAwaitingAuth`, and a further
  connect() sends an IQ that nobody handles: the exception `refusedBare` of
  `AwaitsAnAnswer` and `LoginSettles`.
- connect() twice before the login is over takes a connected session back to
  `csAwaitingAuth`: `Patient = FALSE` violates `StaysConnected`.
- A header that comes after disconnect() starts a login (`LateInput`).
- `getNextID()` repeats ids from 1000000 on; `include/session.hh:251` says they
  never do. `Dispatch` runs with ids that repeat.
- A stanza of another entity with the id of a pending query is taken for its
  answer. `PeerQuery` of `IQDispatch` is such a stanza.
- A query that unregisters itself in its own function, or is unregistered from
  the list it is not in, is used after it was deleted (`misused` of `Dispatch`).

*Directory*

- `runCallbacks()` erases a node of the multimap and increments the iterator to
  it. In `DiscoDB` that is a choice of outcomes.
- An answer for a node of a JID that is cached under another node makes the
  handler follow a null pointer (`fault = "null"`).
- The fallback to browsing forgets the node: functions that wait for one are
  never called. All functions that wait for a JID are called by the first
  answer of it, whichever question it answers.
- `include/discoDB.hh:139-143` says that only entities asked for directly are in
  the cache; those that an answer lists are entered too, with nothing known of
  them but the list's name and node, and `signal_cache_updated` is not fired.
- Copies of an agent have an uninitialised `_fetchrequested`; where it is not
  zero the agent is never fetched. An agent whose answer is lost with the stream
  never is again.

*Streams and elements*

- A listener that calls `reset()` in `onDocumentEnd()` has its new stream
  marked as ended when the handler returns (`onEndElementReset`).
- `ParseFile()` returns true for a file that is cut off: the end of the document
  is never told to expat, which is `push()`'s way throughout.
- `ComponentSession::disconnect()` asserts that it is connected, and `push()`
  and `onDocumentEnd()` call it in states where it may not be (outcome
  `"assertion"` of `Listeners`). Its `unregisterXPath` calls `std::remove`
  without `erase`, so that the list keeps its length and a pointer to what was
  deleted.
- Below the root, `parseAtOnce()` makes each piece of text a child of its own,
  and `getCDATA()` returns the first. The text of a CDATA section is unescaped,
  though it is none. Line ends and tabs in an attribute come back as spaces.
- `operator=` of an element from one of its own descendants reads what it has
  freed.

*Queries* (each left out of `Queries`)

- `a and b or c` is read as `a and (b or c)`; `not(a or b)` as `not(a)`;
  `not(a and b)` is refused.
- A path within `[]` leaves its first steps in the path around it, and `[b[2]]`
  never matches. A position counts over all parents together.
- `[foo=bar]` without quotes, `[@a='']`, names with a prefix, and `starts-with`
  on a child, which looks at the element itself, do not mean what they say;
  `text()!='x'` is true where there is no text.
- `"a="` at the end of a query throws `out_of_range`; a quote that is not closed
  makes the constructor run forever; an `or` without a right side is followed
  through a null pointer.

## 6. Restrictions, and what is not modelled

*In the models.* The application calls `clear()` and `erase()` of the cache
between two answers; answers come from the JID asked, for the node asked.
Functions that are called return. The keys of `DiscoDB` sort as pairs of JID and
node.

In the texts, a few characters stand for each byte type of expat; of the
encodings there is the one of one byte a unit with a letter of two bytes, and
neither byte order marks nor UTF-16. Expat is as libjudo builds it, without
XML_NS, XML_DTD and XML_CONTEXT_BYTES, and with the handlers libjudo sets:
elements and character data. The parts of `xmlparse.c` for other handlers
(content models, comments, processing instructions, namespaces, external
entities) cannot be reached with these and are left out, as are the positions of
errors. `Content` keeps names and values as values; that the pools and tables
they lie in keep them is the subject of `DTDTables`, where the buffers for the
names of start tags are not modelled. Of the memory behind a text that is
unescaped there are three contents, `Memory`: a part of an escape sequence, and
the rest of two. All `//` of one query find the same in their memory (no query
that is asked has two). Attributes with tabs and line ends, and empty texts, are
not written out; quotes in queries are closed.

*Not modelled.* Packets, messages, filters, vCards, SHA-1 and time stamps are
conversions without control over time. BrowseDB is not in the build, and
DiscoDB, which replaced it, is modelled. The packet queue is used by nothing in
the library. The Python bindings are not the library. Of the modelled parts:
requests of the roster to the server, which change no state of it; status, names
and other payload, on which no decision depends; validation of JIDs, which
nothing calls for a packet; and the forms an agent hands out.

*Compositions that are left.* `Session` is checked on a stream that is parsed
stanza by stanza, apart from `ElementStream` and expat; that a stream breaks off
within a stanza is in `Stream` and `StreamReset`, what it leaves to the next
login (callbacks, roster, presences) in `Session` and `Contacts`.
