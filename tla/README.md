# A TLA+ model of RadioHijack

RadioHijack watches the HTTP traffic of a Mac and looks for the stream URL of the radio station that is playing. It is two programs. The application (`App/`) has a window, a start/stop button and a list of streams. The helper tool (`HelperTool/`) is launched by launchd as root, captures packets with libtins, pairs HTTP requests with the headers of their responses and hands the pairs to the application.

This directory models the parts of it that are hard to test: the pairing of packets, the threads of the sniff operations, the session between the two processes, the installation of the helper tool over a connection that may become invalid, the cache of network interfaces, and the choice of streams. Paths below are relative to the repository's root.

## 1. Inventory

| Component | State | Operations | Talks to |
|---|---|---|---|
| Sniff operation, pairing (`RHSniffOperation.mm` 62-307) | `requestMap`: sequence number -> pair; each pair's request, data and first sequence number | `_handlePDU:` and its two parsers | calls `didReceiveHTTPRequestResponse` on the helper's main queue |
| Sniff operation, thread (`RHSniffOperation.mm` 191, 309-335) | the static `me`; `isCancelled` | `main`, `handle` | libtins calls `handle` on the operation's thread; `handle` calls the operation in `me` |
| Helper tool (`HelperTool.m`) | `sniffOperationQueue`, `dataQueue`, a timer | `startSniffing`, `stopSniffing`, `getQueuedHTTPData`, `_hostApplicationCheck`, the report block | XPC calls from the application; a distributed notification to it |
| Application, session (`AppDelegate.m` 181-293) | `hijacking`, `urlFinder` | `toggleHijacking:`, the replies, the notification handler | XPC calls; `addRequest:response:` |
| Application, connection object (`AppDelegate.m` 62-90, 111-121) | `helperToolConnection` | connect, the invalidation handler and the block it queues | launchd, the helper |
| Application, installation (`AppDelegate.m` 122-175) | what the last query told | `_ensureThatNewestToolIsInstalled`, `_installHelperTool` | launchd, the helper, over the connection object |
| URL finder (`RHRadioURLFinder.m`) | none that is used | `addRequest:response:` | `didFindStream` adds to the window's list |
| Network interface cache (`SCNetworkAddition.c`) | one global dictionary, a spin lock, reference counts | create, release, copy, refresh | called when operations are made, on the queues of the helper's connections |
| Authorization rights (`Common.m`) | the system's policy database | `setupAuthorizationRights:` | Security.framework |
| Streams, UI, packaging, test program | values, a nib, plists, a script | - | - |

`libtins` is vendored and is modelled only as far as the code uses it.

What is hard, and what makes each component correct:

- **Pairing.** A request is filed under its acknowledgement number, the sequence number at which the response will start. The first response segment is looked up by sequence number and moves the pair to its own acknowledgement number; later ones are looked up by that. Numbers wrap, connections share the map, requests are sent again, segments are cut anywhere, and the offset arithmetic is unsigned. Correct means: one key per pair, each exchange reported once and with its own answer, nothing finished left in the map, no exception.
- **Thread.** Several operations run, but all of them work through the one variable `me`, both to parse and to ask whether to stop. Correct means: an operation ends if and only if it is told to, and a packet is parsed by the operation of its interface.
- **Session.** Four queues in two processes: the application's main thread and XPC reply queue, the helper's XPC queue and main thread. Processes can end at any time. Correct means: exchanges arrive at most once and in order, the two sides agree on whether packets are sniffed, and the helper does not outlive the application.
- **Installation.** It retries by recursion, over a connection object that a click may create or use at the same time and that a late block sets to nil. Correct means: one query at a time, a tool that is current is not installed again, what is called available is the newest, a valid connection is never dropped, and the recursion ends.
- **Interface cache.** It is tested outside its lock and reference counted by hand. Correct means: counts that match the owners, nothing used after its release, the lock always given back, and copies that agree with each other and with the network they were made from.
- **URL finder.** A decision table over extension, content type, host and headers, in which the order of the tests matters. Correct means: what is audio is found, whatever came before it.
- **Authorization rights.** Three constants.

`PROJECT.json` lists the hazards line by line, with the properties that catch them. Some have none, because the code does go wrong there and nothing in it or its documents says otherwise; their notes say which exception of which property they are.

## 2. Modules

| Module | Models | Composition |
|---|---|---|
| `SniffOperation` | one operation's `_handlePDU`, fed with *any* packet | |
| `ExchangeTracker` | what an operation promises: new -> pending -> reported, or lost when a newer request takes its key | refined by `SniffOperation` (`TrackerSpec`) |
| `TcpCapture` | HTTP over TCP connections whose packets reach an operation; network and capture may misbehave within budgets | extends `SniffOperation`, each capture action contains a whole `HandlePDU` |
| `SniffPool` | start, stop, operation queue, threads, `me` | |
| `LossyFifo` | a channel that may lose items but never repeats or reorders them | refined by `HijackSession` (`LossyFifoSpec`) |
| `HijackSession` | application, helper tool, the XPC connection between them, launchd | |
| `ToolInstall` | the version query, the installation, the connection object, an old or missing tool | |
| `InterfaceList` | what a scan makes of `getifaddrs`' list, and what callers choose from it | operators only |
| `InterfaceCache` | the global dictionary, its lock, its reference counts, threads that copy and refresh | extends `InterfaceList`: what is in a dictionary |
| `URLFinder` | `addRequest:response:` as a decision table | |
| `*Proofs` | theorems about the module they are named after | `TcpCaptureProofs` builds on `SniffOperationProofs`; those of `HijackSession` and `InterfaceCache` on `SequenceLemmas` |
| `SequenceLemmas` | induction on a set of natural numbers; what it shows about the concatenation of sequences | |
| `MC*` | named model values and small instances for TLC | |

### SniffOperation
`requestMap` is the dictionary, with `NoPair` where a key is absent. `pair` holds the fields of every pair object, allocated from the constant set `Pairs`. `reported` is the sequence of calls of the receiver block. `crashed` says that an exception has left `_handlePDU`. There is one action per path through `_handlePDU`: `RecordRequest`, `ExtendResponse`, `CompleteResponse`, `RaiseRangeException`, and `IgnorePDU` for every packet that changes nothing. The `ackSeq` property of a pair is never assigned, and its `seq` is overwritten by the acknowledgement number, so neither is kept.

Payload is a sequence of *units*. A unit is a request line with its Host header, a line end, or anything else; the properties tell no finer detail apart. `HeaderFinished` looks for two adjacent line ends, as the search for `"\r\n\r\n"` does, and `ParseHTTPResponse` cuts after the first empty line, which is the second of two adjacent line ends or a line end at the very beginning, as the parser does by counting empty lines. `RangeLength` is 0 or 1 because in the code `maxDataLengthAfterOffset` is the value of a comparison. `NewDataOffset` is reduced modulo `WordMod` (2^64 in the code), sequence numbers modulo `SeqMod` (2^32).

### TcpCapture
Payload units are triples <<connection, exchange, index>>, so that a property can tell whose answer a unit belongs to. A client sends its request one unit a segment, may resend the first one, and goes on to the next exchange when it has the whole response. The server may acknowledge the request before it answers, with `PartialAcks` also a part of it, and cuts the response in any way. Only the connections of `KeepAlive` carry a second exchange. `Padding` is what `_handlePDU` sees behind the payload of a short frame: the code copies to the end of the serialised frame, and libtins pads Ethernet frames to their minimum there. `ShortFrame` is the number of units up to which a segment makes a short frame; 0 means that only a segment without data does. The client's own segments are parsed by their first line alone, so padding behind it is left out. The environment is external code; the handler's step is always `SniffOperation`'s own. `PayloadAssumption` says that what the connections carry is among the `Payloads` of `SniffOperation`. The hypotheses `NumbersApart`, `NumbersRise`, `HeadersEndOnce` and `OrderlyNetwork`, together `OrderlyCapture`, are what the theorems about captures suppose; section 5 says why each is needed. They are no assumptions of the module: the model includes captures without them.

### SniffPool
A packet takes two steps. `EnterHandle` reads `me` to choose the receiver of `_handlePDU`, `LeaveHandle` reads it again for the result of `handle`, and the steps of other threads come in between. `StartSniffing`/`AddOperation` and `StopSniffing`/`Cancel` run one turn of their loop at a time. A packet without an IP and a TCP layer makes `rfind_pdu` throw, and libtins goes on without asking whether to stop; such packets therefore do nothing here.

On the interfaces of `Fragile` things fail. `OpenFails` is the constructor of the sniffer, which throws inside `main` after `me` has been set: nothing catches it, and the process ends (`alive`). `LoseCapture` is a capture that ends while packets are awaited: libtins' iterator then equals the end of its loop, and the operation leaves the queue as if it had been told to. If it is the operation in `me`, no stop reaches it any more, and all the other operations, which ask it, go on for ever. `MeIsLost` names this case, and the properties except it.

### HijackSession
The application's main thread runs blocks one turn at a time (`block`, `mainQueue`); the reply to a stop is two steps, because it assigns `hijacking` and `urlFinder` in turn. `GetQueued` and `EmptyQueue` are the two statements of `getQueuedHTTPData...`. `Refuse` is a call that fails `checkAuthorization:`; its reply reaches the error branch of the caller. `sniffing` is "ending" from the cancellation until the operations have ended, during which they still report. `Die` is a crash of the helper at any moment: by an exception that leaves `_handlePDU`, or by a mutation of the unlocked `dataQueue` while it is encoded. Requests of a closed application vanish with its connection.

Two history variables mark what the code does not make up for. `excused`: the helper crashed, or an application that was reopened within the two seconds of the timer found it still sniffing, which the new application does not know. `early`: a start was clicked while a stop was under way; the stop's reply, which sets `hijacking` before it clears `urlFinder`, or is not even handled yet, then removes the finder of the start.

### ToolInstall
The main thread runs the blocks of `mainQueue`; replies, error handlers and the invalidation handler run on a queue of the connection and only append blocks. A connection object is a number, `valid` and `armed` (it has its invalidation handler) are kept for each. `Connected`/`MustConnect` are `connectAndExecuteCommandBlock:`, whose only test is whether `helperToolConnection` is nil: a message may go out over an object that is invalid already. `InvalidationHandler` removes the handler of whatever connection the property holds by then, and queues a block that sets the property to nil without naming a connection. A click is one message over the same object. `Install` contains the next round of the recursion, because the code calls it from the same block. Errors are "invalid" (4099) and "interrupted" (any other): only the first leads to an installation. An old process may survive an installation (`MaxLingers`), a helper may crash, and `Uninstall.sh` may be run, whether a process of the tool runs or not.

### InterfaceList and InterfaceCache
`Collect` is one turn of the scan's loop over `getifaddrs`' list, which has one element per interface and address; `Collected` is the dictionary after all of them. `Describes` says what it should contain without a loop: the addresses of an interface are those at its places in the list, in their order, and its netmask and broadcast address those of the last IPv4 element. The loop dereferences the address of every element, and netmask and broadcast address of an IPv4 element, without a test (lines 186-217), while `getifaddrs` leaves null pointers for what an interface has not. `IsReadable` says that it finds none of them; a scan of a list that is not readable is `ScanCrashes`, the end of the helper.

`InterfaceCache` has one action per access to shared state, because the hazards are between two of them: the test of the pointer without the lock, the lock, the retain, the assignment of its result back to the global variable, the unlock, and the second reading of the global variable in the `return` statement. `ifaces` is a thread's local variable. `Release` and `Retain` of NULL or of a dictionary with no references set `fault`, which stops everything. `getifaddrs`' result is not looked at either; `ScanFails` chooses between NULL and garbage for the variable that is not initialised. `raced` is a history variable: one thread was changing the pointer while another was between its own test and its result.

### URLFinder
An exchange is what the code tells apart and no more: extension, content type, host, an `icy-` header, and where the query has a token. Content types stand for themselves; `WordsIn` says which of the words looked for each contains, and `Format` asks for them in the order of the code ("aacp" contains "aac"). A property about the format could only repeat this table, so there is none. While modelling it the following showed, none of it contradicted by a comment: a response whose request had no valid host counts as StreamTheWorld's, since the range of a string in nil begins at 0 and is compared with `NSNotFound`; StreamTheWorld's own audio is never listed, only its Flash streams; `&token=` stays in a rewritten URL, only `?token=` is removed; an HTTP Live Streaming playlist is listed as an MP3 stream, because its type contains "mpeg"; playlists and Flash with Icecast headers are listed with no known format.

## 3. Runs

| Run | Asks | Bounds |
|---|---|---|
| `sniff_any_packets` | do the map and the reports stay consistent under arbitrary packets, and does the operation implement `ExchangeTracker`? | 3 sequence numbers, so that any two numbers meet, 2 pairs, 4 units of data |
| `capture_orderly` | on an orderly network, is every exchange reported exactly once with exactly its header, and do exchanges stay apart? | 2 connections, one with 2 exchanges and server numbers that start over between them, requests of 2 segments, header of 3 and response of 4 units in segments of up to 3, padded acknowledgements of whole requests and padded segments of 1 unit, 1 resent request |
| `capture_unreliable` | is a report ever made of another exchange's answer? | 2 exchanges; any order, 1 repeat, 1 uncaptured segment, 1 resent request |
| `pool` | do operations end when and only when they should? | 2 interfaces, both busy, one of which may fail to open or lose its capture, 2 sessions |
| `session` | is the pipeline a lossy FIFO, is the queue fetched, do the two sides agree, has who hijacks a finder, does the helper end with the application? | 2 exchanges, 4 clicks, 1 refusal, 1 crash, 1 closing |
| `interface_cache` | are counts and copies right until threads race, is the lock given back? | 2 threads, 2 copies each, 1 refresh, 1 failing scan, 3 dictionaries; the network changes once, into one of two others, of which one has an element without a broadcast address |
| `tool_install` | does the recursion end, with what outcome, and is only an invalid connection dropped? | 8 connections, 3 clicks, 2 lingering old processes, 1 crash, 2 uninstallations; the tool is missing, old or new at first |
| `url_finder` | is audio listed, whatever came before it? | every sequence of 2 exchanges |

Why these are enough: the hazards of the map need two pairs and a number shared between them; three sequence numbers already give every coincidence of key, sequence and acknowledgement number, and the theorems below hold for all. Header and segment sizes make a blank line fall inside a segment, across two, and together with the body. `me` needs two operations to be wrong, and a second session to be overwritten late. In a session two exchanges are enough to be reordered or repeated, and four clicks to click twice before a reply and once after it. A race of the cache has two threads; a third dictionary lets a refresh replace one that another thread still reads, and a network whose list the loop cannot read lets the helper end in a scan while the other thread is anywhere. Eight connections are as many as the rounds of the instance need: a query that found no ninth would never be made, and `Settles` would fail. Two exchanges show that one is not judged by another.

The orderly run keeps clear of one thing: a sequence number that starts over *inside* a header. The unsigned difference then underflows and the exception of `capture_reordered` is raised without any reordering.

Several properties name an exception, and each is a weakness of the code:
- `KeyMovesOnFirstSegment` holds while the numbers of two connections do not meet. When they do, a body segment of one has the number of a waiting pair of the other and moves it away. `DisjointServer` of the orderly run keeps them apart.
- `QueueIsFetched` excepts runs in which a call was refused or the application was closed: a refused fetch is not repeated, and a notification that finds no application is lost.
- `HijackingAgrees` and `FinderWhileHijacking` except `excused` and `early` (section 2).
- `RefsAreOwners`, `NoDanglingUse`, `CopiesAgree` and `CopiesDescribeNet` hold until `raced`. Two XPC connections whose calls arrive at once do race when the cache is empty: both scan, the second overwrites the first's dictionary, and both return the second, which has one reference too few, while the first leaks. Anything may follow, down to the use of a deallocated dictionary. Two scans at once also share the static buffers of `inet_ntoa` and `inet_ntop`, so that the dictionary of one may hold an address the other has just written there; two threads can only scan at once if they raced.
- `CopiesAgree` does not say that copies are current: nothing refreshes the cache, so an operation that is started after the addresses changed compares with the old ones.
- `StopTakesEffect`, `QueueDrains` and `CancelledEndIfPatient` except `MeIsLost`.
- `InstallsOnlyIfNeeded` names three reasons for a needless installation. `AvailableIsNewest` excepts a tool that is uninstalled later.
- `CopiesDescribeNet` says that what is copied comes from a readable list; that the helper survives a list that is not, the code does not promise.
- `AudioIsFound` excepts what counts as StreamTheWorld's.

`Pairs` bounds the requests recorded and `MaxData` the data of a pair; in the capture runs neither is reached, since there are as many pairs as recorded requests and 12 units exceed what the budgets can deliver. Symmetry is used for the pairs of the capture runs, which check invariants and one action property only. Deadlock is not checked, because every instance stops when its budgets are spent, as the system does when nobody clicks and nothing arrives.

**Runs that show a disagreement** between the code and its own comments or README:

| Run | What happens |
|---|---|
| `capture_padded_acks` | a padded acknowledgement of half a request counts as the first response packet; the pair moves to a key that no response segment carries |
| `capture_reordered` | a segment beyond the data raises `NSRangeException`, which `catch (int)` does not catch |
| `pool_restart` | a start right after a stop overwrites `me`; the cancelled operation goes on |
| `pool_two_interfaces` | packets of one interface are parsed with the addresses of another |

## 4. Fairness

- `SniffPool`: weak fairness of a call's loop and reply, of the queue starting operations, of `main`, and of packets on *busy* interfaces. Weak fairness of `EnterHandle` says that TCP packets keep coming there, which is the assumption under which the code can stop at all: a cancelled operation whose interface is silent never ends. Starting and stopping are the user's and have no fairness.
- `HijackSession`: weak fairness of every queue, of the timer, of launchd and of cancelled operations ending (which `pool` shows for a user who waits). Each XPC queue gets one condition over its alternatives, since it takes messages in order. Users, packets, refusals and crashes have none.
- `InterfaceCache`: weak fairness of each thread's steps. The lock is a spin lock, which promises nothing to a thread that waits while others take it again and again; here calls are finite, as starts are, so weak fairness is enough for `LockIsReleased`. The property would fail if any path kept the lock.
- `ToolInstall`: weak fairness of the main thread, of launchd and of each connection's messages and handlers. Old processes need not end. `Settles` rests on `MaxLingers`: an old process survives only finitely many installations. One that always does, or a bundle whose two version strings differ, makes the recursion endless.
- The other runs check safety and assume nothing.

## 5. Proofs

Everything here is proved for all values of the constants, for any number of packets, connections, sessions, threads, clicks, failures and rounds, from the named assumptions of the modules, which only give the constants their types and keep the sentinels apart. The theorems about what a capture reports have hypotheses of their own (`OrderlyCapture`), which are part of their statements; `MCTcpCapture` has TLC evaluate them for the instances, so that `capture_orderly` and `capture_unreliable` are instances of the theorems about the properties they check.

**SniffOperationProofs.** The inductive invariant is `TypeOK /\ FiledAllocated /\ OneKeyPerPair /\ ReportedOnce`. No conjunct is inductive alone. A report is well typed only if filed pairs are allocated. A request files a fresh pair only because filed and reported pairs are allocated. A reported pair has no key left only because it had a single one, the one just removed; that is where `OneKeyPerPair` carries `ReportedOnce`. Lemma `RewrittenKeys` states what the rewrite of a key does to the map, for both ways of finding the pair. From it follow
 - `TypeCorrect`, `KeysAreUnique`, `ReportsAreUnique`: the invariants of run `sniff_any_packets`;
 - `NothingCompleteIsLeft`: a waiting pair never holds a complete header;
 - `ImplementsTracker`: every step is a step of `ExchangeTracker` or a stutter under the mapping `StageOf`. An exchange can get lost in one way only, by a newer request under its key.

**SniffPoolProofs.** The invariant of `MeStaysAlive` is `TypeOK /\ StartsFresh /\ MeIsAlive`: once an operation runs, `me` is set, and the operation in it has not ended unless it was cancelled or lost its capture. That is why asking `me` instead of oneself still works when everything is cancelled: `StopWorks`. `EndsAreOrdered` is about a user who starts again only when the queue is empty (`patient`, a history variable) and needs more: all operations of the queue are from one session, and they are cancelled together or a stop is on its way through them.

**TcpCaptureProofs.** `CaptureImplementsSniff`: every behaviour of connections, network and capture is a behaviour of `SniffOperation`. What has to be shown is that a segment is always a packet the operation may be fed with: numbers wrap (`Wrapped`), a segment never ends before it begins, and what connections carry stays within the response; so `NetTypes` goes with it. All theorems about any packets thereby hold of any capture.

`AnswersItsRequestAlways` is about any network: segments may come in any order, again and again, or never. Its invariant `FiledAnswers` says of each filed pair that it either waits, empty, under the number its request acknowledges, or is found under the number that acknowledges its request and holds units of the answer to it, beginning with the first. The step that matters is a segment that meets a pair: by `NumbersApart` the number it was found by names one exchange only, so the segment is of that exchange, and where it starts decides which of the two the pair was. Padding must be empty, because padding that is taken for data comes first.

The theorems about an orderly capture share the invariant `OrderlyInv`, whose parts are, besides those of `SniffOperationProofs` and `NetTypes`:
 - `InOrder`: each connection's units have arrived up to some n, and the segments under way continue there, one after the other, up to what the server has sent, so that the next one to arrive begins at n;
 - `FiledExactly`: each exchange that has been requested and whose header is not complete is filed under `KeyOf`, its pair holds exactly the units that have arrived, with nothing behind them but padding, and nothing else is filed;
 - `ReportsExact`: what is reported is exactly the headers that have arrived, each once;
 - `~crashed`.

 `InOrder` gives a segment its place, `FiledExactly` finds its pair and shows that the range to replace ends where the data ends, and `HeadersEndOnce` shows that the parser cuts exactly at `HeaderLen`. Padding of a short frame does not move what follows it: the next segment begins where the data of this one ends, and pushes the padding back. A request that is sent again files a new pair under the same key, and `InOrder` shows that no data had arrived before. `ExactResponseAlways`, `EveryHeaderReportedAlways`, `NoRangeExceptionAlways`, `NothingLeftOverAlways` and `FollowingFoundByAckAlways` follow from the invariant; `KeyMovesOnFirstSegmentAlways` looks at each step once more.

 What the hypotheses say, and why none can go: numbers of different exchanges do not meet (`NumbersApart`, else a segment finds another exchange's pair); no response wraps to zero *inside* a header (`NumbersRise`, else the unsigned offset underflows); a header has one blank line, at its end, and padding is no line end (`HeadersEndOnce`, what HTTP and libtins give); nothing is reordered, repeated or lost (`OrderlyNetwork`, else `capture_reordered`), and no padded acknowledgement of half a request is seen (else `capture_padded_acks`). Numbers may wrap between responses and connections may share the map. `EveryHeaderReported` also needs a receiver block, which the helper always gives.

**ToolInstallProofs.** `TypeCorrect` includes that there is exactly one query or one reply under way while the outcome is open (`OneQuery`). `DropsOnlyInvalidConnections` rests on `OnlyInvalidQueued`: only the connection in use has an invalidation handler, and while a block that drops "the connection" is queued, the connection is an invalid one that has lost its handler. No other is made before the block runs, because the only test is whether the property is nil; this is also why a command in between goes out over the invalid one. `AvailableToolIsNewest` and `NeededInstallations` rest on `Known`: what the queued replies, the pending queries and the running process may say of the installed version, given who could have answered.

**HijackSessionProofs.** Type correctness includes that a process which is down holds nothing and is sent nothing (`DownIsEmpty`), and that there are never more notifications than exchanges (`NotesBounded`). `HijackingAgreesAlways` rests on `Agreement`, which does not wait for the replies: the last reply to a start or a stop on its way says what the helper does, and with none on its way `hijacking` does. Calls the helper has not seen matter to neither side, which is why clicks at any time do no harm. `FinderWhileHijackingAlways` rests on `FinderKept`: unless the last start was clicked early, no start is under way behind a stop, neither in the requests nor in the replies nor behind the one being handled; so no stop clears the finder of a later start.

`ImplementsLossyFifo`: a session implements `LossyFifo` under the mapping that takes the five places of an exchange together, the nearest to the finder first (`InTransit`): the block the application's main thread is in, the blocks queued there, the replies, the helper's `dataQueue`, and the reports queued on its main thread. Between the two statements of `getQueued...` what `dataQueue` holds has been replied already and does not count. Each of the four moves between neighbouring places leaves their concatenation as it is, which is associativity and the lemmas `FlattenAppend` and `FlattenTail` about the concatenation of a queue's items. A crash, a refusal, a closed application and a stop empty some of the places, which is a loss (`Remains`). An exchange reported goes to the end of the last place, and one that the finder gets comes from the front of the first.

**InterfaceCacheProofs.** The invariant is `TypeOK /\ Peaceful /\ Given /\ CacheKnown /\ RefsAreOwners /\ NoDanglingUse`. `Peaceful` is what not having raced means for the places of the threads. `Given` says that dictionaries are new when they are created and that a caller which goes on has one. `CacheKnown` says what a thread knows of the pointer long after it read it: it is still not NULL on the way to the lock, still the dictionary just retained, still NULL while scanning. With these, each retain, release and publication changes one count and the set of its owners in step; each step of the proof shows how `Owners` of one dictionary changes and that the others' do not. `NoDanglingUse` follows because whoever uses a dictionary owns it. `CopiesAlwaysAgree` adds `Current`: what was obtained since the last refresh is what the pointer leads to, nothing was obtained while it is being replaced, and a dictionary that is or will be in the cache is not older than the refresh; so a second dictionary can be obtained only after a refresh or a race. `CopiesAlwaysDescribe` adds that every dictionary was made from a list that is readable (`ReadToTheEnd`), which only `Scan` can give and nothing takes away, and is otherwise about the loop of the scan: after k turns (`CollectedUpTo`) there is an entry for exactly the names among the first k elements, and each lists the addresses at the places of its name and family up to k, in order. A further element appends to one list of one entry and is the last of its places; induction on k does the rest, for lists of any length.

**URLFinderProofs.** `AudioIsFound` compares a number of exchanges with a number of streams. The invariant is the property itself with the types: `addRequest:response:` appends one exchange and at most one stream. What remains is a fact about one call: an audio response of Icecast that is not ignored always gives a stream with a known format. `Count` of a sequence with one more item is proved from its definition as the cardinality of a set of places.

**SequenceLemmas.** The library's induction theorems take an operator, which the provers cannot instantiate. `SetInduction` takes a set of natural numbers instead, and follows from the library's theorem on well-founded relations; a statement becomes the set of the numbers it holds of. So the recursive functions of the model can be reasoned about: first that there is such a function, then what its values are.

Not proved, only model-checked: liveness (`QueueDrains`, `CancelledEndIfPatient`, `QueueIsFetched`, `ToolEnds`, `InvalidIsDropped`, `Settles`, `LockIsReleased`), which is out of the prover's reach. The runs that expect a violation show behaviours, which need no proof. Every invariant and every other action property that a passing run checks is also the subject of a theorem.

## 6. Not modelled

- Wording of headers, URLs and logs, and the text of a request: a segment either begins a request with a host or it does not.
- IPv6, which `_handlePDU` never reaches (`rfind_pdu<IP>` throws), and SYN and FIN segments beyond being ignored.
- The unlocked mutation of one operation's dictionary by two threads, below the grain of a packet.
- A helper that serves the connections of two applications at once: its calls are taken one at a time.
- What is in the static buffers of `inet_ntoa` and `inet_ntop`; scans that share them have raced, and the properties say nothing of these. The sockets a scan leaks, which nothing reads.
- `sendTo:`, which scripts another application; the descriptive fields of a stream.
- Authorization rights (`Common.m`): a constant table and calls of Security.framework, of which `Refuse` keeps the outcome. Streams, UI, packaging, the test program: values and I/O without behaviour over time, apart from launch on demand and `Uninstall.sh`, which are actions of `HijackSession` and `ToolInstall`.
- libtins: by far the most lines of the repository are its vendored headers (`HelperTool/libtins/include/`), declarations of a binary library for protocols from DHCP to 802.11 that the program never looks at. Modelled is what the program's behaviour depends on: `sniff_loop` and its iterator, `rfind_pdu`, and the padding of short frames. All of the program's own code that acts over time is modelled.

## 7. Plan

Done, in this order: `SniffOperation` with `ExchangeTracker` and its theorems; `TcpCapture`; `SniffPool` with its theorems; `HijackSession` with `LossyFifo`; `InterfaceList` and `InterfaceCache`, `ToolInstall`, `URLFinder`; captures that fail in `SniffPool`; theorems about `InterfaceCache`, `ToolInstall`, `HijackSession` and `TcpCapture`; then `ImplementsLossyFifo`, the property of `URLFinder`, those of `TcpCapture` on an orderly and on any network, and the loop of the scan.

Left:
1. `SniffPool`: two threads inside one `_handlePDU`, below the grain of a packet.
2. An abstract specification of the interface cache (a register that is read and refreshed), implemented until threads race.
