# ByteChat in TLA+

A model-checked and proved description of ByteChat, a terminal chat in
Go: `bytechat-server` (HTTPS for accounts and administration, TCP+TLS for the
chat, SQLite underneath) and `bytechat`, the Bubble Tea client. Paths below are
relative to `src/`.

Contents: [files](#files) - [inventory](#inventory) - [the hub](#the-hub) -
[friends](#friends) - [accounts](#accounts) - [deletion](#deletion) - [the chat view](#the-chat-view) -
[the shell](#the-shell) - [five parts](#five-parts) - [runs](#runs-and-bounds) -
[fairness](#fairness) - [proofs](#proofs) - [what does not hold](#what-does-not-hold) -
[not modelled](#not-modelled) - [plan](#plan).

## Files

| File | What it is |
|------|------------|
| `Mailbox.tla` | abstract: what the hub promises about a message |
| `Hub.tla` | connections, registry, bootstrap, delivery, the messages table |
| `HubProofs.tla` | the inductive invariant of `Hub`, its theorems, and that `Hub` implements `Mailbox` |
| `MCHub.tla`, `HubSafety.cfg`, `HubLive.cfg`, `HubTwice.cfg` | instances of `Hub` for TLC |
| `FriendBook.tla` | abstract: what requests and friendships promise |
| `Friends.tla` | the two tables, the handlers that change them, contact lists and notices |
| `FriendsProofs.tla` | the inductive invariant of `Friends`, its theorems, and that `Friends` implements `FriendBook` |
| `MCFriends.tla`, `Friends.cfg`, `FriendsStuck.cfg` | instances of `Friends` |
| `Accounts.tla` | users and sessions: registration, login, administration, reuse of ids, and what chat connections do meanwhile |
| `AccountsProofs.tla` | the inductive invariant of `Accounts` and its theorems |
| `MCAccounts.tla`, `Accounts.cfg`, `AccountsReuse.cfg` | instances of `Accounts` |
| `Deletion.tla` | messages under way while users are deleted and ids are given out again |
| `MCDeletion.tla`, `Deletion.cfg` | an instance of `Deletion` |
| `ChatView.tla` | the client's chat view: keys, events, results of commands |
| `ChatViewProofs.tla` | the inductive invariant of `ChatView` and its theorems |
| `MCChatView.tla`, `ChatView.cfg`, `ChatViewEnter.cfg` | instances of `ChatView` |
| `Shell.tla` | the client around it: screens, forms, connections, read loops |
| `ShellProofs.tla` | the inductive invariant of `Shell` and its theorems |
| `MCShell.tla`, `Shell.cfg` | an instance of `Shell` |
| `AdminPanel.tla` | the administrator's panel and its requests |
| `HubLocks.tla` | the mutexes of the hub, with clients that stop reading or vanish |
| `E2EKeys.tla` | key files, and key bundles on the server |
| `Startup.tla` | log configuration, migrations, certificate, listeners |
| `Framing.tla` | frames written in two calls, and how they are read |
| `MCParts.tla`, `Parts.cfg` | instances of these five, in one run |
| `AdminProofs.tla` | the inductive invariants of `AdminPanel` and `Deletion`, and their theorems |
| `WireProofs.tla` | the same for `HubLocks` and for `Framing` |
| `FilesProofs.tla` | the same for `E2EKeys` and for `Startup` |
| `PROJECT.json` | the map from definitions to source lines, runs, mutants, hazards, findings, theorems |

To check: `tlc -config HubSafety.cfg MCHub.tla` (and so on); `tlapm HubProofs.tla`, and
so on for each module whose name ends in `Proofs`.

## Inventory

For each component: its state; its operations; who it interacts with; what is
hard about it; what makes it correct.

**Chat hub** (`internal/server/hub.go`, `listener.go`). State: `Hub.clients`, a
map from user id to connection under an RWMutex; per connection a goroutine, a
user id, a `closed` flag and a mutex that serialises writes. Operations:
authenticate, register (closes and replaces the user's previous connection),
bootstrap (contacts, then the undelivered messages, each marked as it is
written), the read loop (message, friend request, acceptance, history),
unregister, close. Interacts with: every other connection's goroutine, through
the map and by writing to their sockets; the message service. Hard: a
connection that was looked up can be replaced before it is written to; a
replaced handler unregisters after its successor has registered; bootstrap and
push both deliver; a successful write is no proof of receipt; a write blocks
under the connection's mutex, and `register` takes that mutex while it holds
the map's. Correct: at most one open connection per user and it is the one in
the map; a frame goes only to its addressee; no message is missed by bootstrap
and push together; nothing marked delivered comes back; handlers end. Modules:
`Hub`; the mutexes are in `HubLocks`, reused ids in `Deletion`.

**Message service and messages table** (`service/messaging.go`, `history.go`,
`store/sqlite/sqlite.go`). State: rows with sender, addressee, `delivered_at`.
Operations: Send (checks, then inserts), PendingMessages, MarkDelivered,
history. Hard: each statement may fail on its own (no busy timeout); checks and
insert are separate statements; `created_at` has the resolution of a second;
row ids are reused after deletions. Correct: stored, then written, then marked,
never back. Modules: `Hub`, `Mailbox`; `Accounts` for the three statements of
Send; `Deletion` for the reuse of ids; `ChatView` for the history.

**Friends service** (`service/friends.go`, the `friend_requests` and `friends`
tables). Operations: request (check, insert, refresh own contacts, notify),
accept (one transaction, refresh both). Hard: the check is stale when the
insert runs; two users may ask each other; the contact list is read in three
statements and written later, possibly after a newer one. Correct: friendship
needs both, is mutual, lasts; a recipient who is connected is told of every
pending request; a client shows nothing that never was. Modules: `Friends`,
`FriendBook`.

**Auth service** (`service/auth.go`, `token.go`, users and sessions tables).
State: users, password hashes, token hashes. Operations: register, login,
resolve a token. Hard: registration is several statements, any of which may
fail after the user exists; tokens never expire, and a live connection outlives
its token. Correct: requests are carried out for the account that made them.
Modules: `Accounts`; `E2EKeys` for the key columns.

**Admin service** (`service/admin.go`). Operations: delete a user, wipe, list,
toggle log categories, create an administrator from the command line of a
second process. Hard: deletion and wipe leave the chat connections registered;
`user_id` is an `INTEGER PRIMARY KEY` without `AUTOINCREMENT`, so that the id
of the newest user who was deleted goes to the next; the administrator check
precedes the deletion; `PRAGMA foreign_keys` holds for one connection of the
pool only. Correct: what a user is sent was meant for that user; an
administrator remains. Modules: `Accounts`; `Deletion` for what is under way
meanwhile; `Startup` for the log toggles.

**Store, schema, migrations** (`store/store.go`, `store/sqlite/`). One
transaction per migration; the version is read outside. Hard: two processes
migrating at once. Correct: who serves has the whole schema. Module: `Startup`.

**E2E keys** (`service/cryptoService.go`). State: a key pair on the client's
disk, the public and the encrypted private key on the server. Hard: written
locally before it is uploaded; one key per machine; a client may be killed
between any two steps. Correct: no two accounts share a key, the two files
match, no private key is lost. Module: `E2EKeys`.

**HTTP router and HTTP clients** (`router/`, `client/http.go`, `auth.go`,
`admin.go`). Stateless translation between JSON and service calls, except
`adminAuth`, which is in `Accounts`; a request may be cancelled between any two
statements (`Abandon`).

**Wire protocol** (`protocol/`). Length-prefixed JSON; `Write` refuses more
than 1 MiB, and writes header and payload in two calls. Module: `Framing`.

**Chat client** (`client/chat.go`). State: the socket, a channel of 32 events,
`done`. Operations: connect, send (no lock around the two writes), the read
loop, close. Hard: several goroutines write; the read loop blocks when the
channel is full until close. Correct: events keep their order, the end of the
connection is noticed, close ends the read loop. Modules: `Shell`, `Framing`.

**Chat view and application shell** (`tui/chat.go`, `app.go`, `login.go`,
`modal.go`, ...). State: three contact lists, a tab, an index into the list
shown, threads, which histories are loaded, the modal. Operations: keys, chat
events in order, results of commands in any order. Hard: the index survives
changes of list and tab; a history answer replaces the thread, whatever came
since it was read; the command that `chatModel.Update` returns for a contacts
event is dropped by `app.go`; a result of the modal may find another modal.
Correct: no index is out of range, a message goes to the friend the user chose,
threads hold what was said, no form hangs. Modules: `ChatView`, `Shell`.

**Admin panel** (`tui/admin_panel.go`). State: the list of users, an index, the
name that a deletion is asked about, whether it is loading. Hard: answers come
late, in any order, to another panel or to none. Correct: the index is in
range, who is deleted is who was asked about. Module: `AdminPanel`.

**Logging** (`logx/`). A configuration file and a copy in memory, changed by
read-modify-write without a lock. **TLS files** (`server/tls.go`): two files
written one after the other. **Entry points** (`cmd/`): the order in which a
server starts, and two listeners. Hard: two processes at once, and kills
between two writes. Module: `Startup`.

**Client configuration** (`client/config.go`, `resolve.go`): precedence of
flags, environment and file. **Paths**, **rendering**, **shared types**: no
state of their own. None of these is modelled.

## The hub

`Hub.tla` has one action for what a goroutine does between two points where
another one can interfere. The grain is given by the code's own locks:
`register`, `unregister` and `clientForUser` run under `h.mu`, `writePacket`
and `close` under the connection's mutex, and each SQL statement is atomic in
SQLite. Everything in between is interleaved freely.

| In the model | In the code |
|--------------|-------------|
| `clients` | `Hub.clients` (hub.go:16) |
| `pc[c]` | where `handleConn` stands for connection `c` |
| `user`, `closed` | the fields of `clientConn` |
| `queue[c]` | `pending` in `sendBootstrap`, the rows still to write |
| `work[c]`, `target[c]` | `msgID` and `recipient` in `deliver` |
| `sender`, `addressee`, `delivered` | the messages table |
| `link[c]` | whether the client is still there: nothing the server can see |
| `written`, `handed` | history: what was written to a connection, and ever written |

`Accept` ... `Close` are the life of a connection; `SendContacts` ...
`BootstrapFails` the bootstrap; `SaveMessage`, `Lookup`, `Push`,
`MarkDelivered` and their failures the body of `deliver`. A packet that was read
is handled, even if `register` has closed its connection since: `pc` is then
`packet`, which only a handler can be whose connection is closed by its
successor (`Register`). As long as a connection is open, reading a packet and
beginning to handle it are one step (`SaveMessage`), for the reading commutes
with everything but the close. `SendFails` is a packet that is refused then.
`Friends`, `Accounts` and `Deletion` have the same (`HasPacket`). `LinkLost` is the
network or the client, `Restart` the server process stopping and starting: the
table survives (a process crash loses no committed row of SQLite; a power
failure may, with `synchronous = NORMAL`, and is not modelled).

Left out on purpose. Bodies: only whether the delivery frame of a message is
too long (`Oversize`) matters. The order of pending rows: `created_at` counts
seconds and rows of one second have no order, so any order is allowed. Who
waits for a mutex: every write returns here, which the liveness properties rest
on (`HubLocks` is about the case that one does not). Packets about friends and history
do not touch this state. Accounts and friendships are constants here.

`Mailbox.tla` is what the two delivery paths promise together: a message is
stored, then handed over, then confirmed, and never goes back; and if the
addressee stays online on one connection, it is handed over. `Hub` maps to it
by `MailStatus` (from the table and `handed`) and `MailSession` (the registered
connection while its link holds).

The properties, and what they would catch:

- `RegistryConsistent`: two open registered connections of a user, or a late
  `unregister` that evicts a successor.
- `HandedToAddressee`, a part of `HubInv`: a connection looked up for one user
  that has come to serve another when it is written to.
- `NoMessageStranded`: a message that bootstrap lists too early and push looks
  up too early or too late. It rests on the order of two calls in `handleConn`
  (`register` before `sendBootstrap`) and two in `deliver` (`Send` before
  `clientForUser`), which no test exercises.
- `NoRedelivery`: a settled message taken up again after any reconnect or restart.
- `MailboxSafety`, `MailboxSpec`, `HandlersEnd`: as above; the latter two are
  liveness.

## Friends

`Friends.tla` uses the same grain. `CheckRequest` and `InsertRequest` are the
two statements of `SendFriendRequest`; `AcceptRequest` is the transaction of
`AcceptFriendRequest`, which goes through only if its `DELETE` hits a row and
the two `INSERT`s meet no row of that key; `QueryFriends`, `QueryIncoming`,
`QueryOutgoing` and `WriteContacts` are `sendContacts`, used by the bootstrap
and by `refreshContacts`; `Notify` is the announcement to the recipient.
Connections are those of `Hub`, reduced to what decides who is told what: the
token exchange is part of `Connect`, and a packet that was read before its
connection was replaced is still handled. `view` is what the client at the other end
shows: a contact list replaces it, a notice adds a name; `told` remembers which
requests it ever heard of.

- `ViewJustified`: although a list is put together from three queries with
  commits in between and may be overtaken, what is shown was true once.
- `RequestsAnnounced`: the counterpart of `NoMessageStranded` for requests.
  Bootstrap reads after `register`, `handleFriendRequest` looks up after the
  insert: between them no connected client misses a pending request.
- `FriendBookSpec`: the tables implement `FriendBook`: ask, agree, friends for
  both and for good.

It is *not* claimed that the last list a client gets is the newest: another
handler may have read an older one and write it later. No document claims it.

## Accounts

`Accounts.tla` takes one SQL statement or transaction at a time. A request goes
through its statements (`stage`); any of them may fail, and its client may give
up between two (`Abandon`). `named`, `admin` and `sessions` are the two tables;
`friends` and `messages` the rows that a deletion takes along. SQLite gives out
the largest rowid plus one, so the id of a deleted user goes to the next; an
*account* is therefore an id and how many users have had it, of which the code
sees the id only. Chat connections keep the id that their token had when they
began (`Authenticate`), and enter the registry after that (`Enter`): what is
deleted in between is not noticed. How friendships come about and how messages travel is in `Friends` and
`Hub`: here one step makes friends, and a send is the three statements of
`MessageService.Send`.

- `AdminRemains`: between the test that a target is no administrator and its
  deletion, `--create-admin` may promote it. The last administrator stays, as
  whoever asked is one: a deletion that is checked against the wrong row, or
  not at all, loses them.
- `DeletesAnother`: the code compares names at first and ids are found later;
  with deletions and registrations in between the two could come apart.
- `FriendsUnlessReused`: with the friendship checked before the insert, with
  rows and connections that outlive their users, a message still passes only
  between friends unless an id was given out twice. The condition is needed:
  see `AccountsReuse`.

## Deletion

`Hub` keeps accounts fixed and `Accounts` has no deliveries; `Deletion.tla` is
where they meet. A handler has ids in its hands between any two statements: of
the user it speaks for, of the addressee, of the row it is going to mark. Each
may be deleted and given to another meanwhile, since `user_id` and `message_id`
are given out as the largest plus one (`IsNext`). An account is again an id and
a life of it (`life`), and a message a `message_id` and how many messages have
had it (`count`); the code compares the first components, the properties both.

The handlers are those of `Hub`: `Authenticate` ... `CloseConn`,
`ListPending` ... `BootstrapFails`, and the body of `deliver`, with the two
queries of `Send` as steps of their own (`FindAddressee`, `AreFriends`). `DeleteUser` and
`WipeAllData` are transactions and take the rows along; they touch neither the
registry nor what handlers hold. Left out, being in the other modules: who may
delete, how friends are made, restarts, the order of a bootstrap, and oversized
messages.

- `NoneStranded`: as `NoMessageStranded`, with all of this going on. A message
  to the id of a connection that has its bootstrap behind it, from an account
  that lives, is written or on its way to it.
- `MarkedWasWritten`: between a frame and its mark the row may be deleted, and
  the mark then hits nothing, unless the `message_id` is another's by then. The
  exception is needed: see "also seen" below.
- `ReadByAddressee`: a message goes astray only where one of the two accounts
  is gone. That both can live and still be confused would take an id that is
  looked up in the wrong place.

## The chat view

`ChatView.tla` has one action for each message that `chatModel.Update` handles:
a key, an event from the connection, the result of a command. Commands run in
goroutines of their own (`cmds`) and end with a result (`results`) in any
order; events come in order (`inbox`), as do frames to the server (`outbox`). A
request whose frame cannot be written leaves its modal open (`RequestFails`).
The server is as much of `Hub` and `Friends` as decides what the frames say:
one frame of this client at a time, other users' handlers in between; a message
saved in one step and pushed in another; a history read in one step
(`HandleHistory`) and written in another (`WriteHistory`), under the limit of
the query (`Oldest`). `said` remembers what was said in which conversation.

- `FriendSelected`: `clampActive` runs where lists change, and keys that switch
  tabs reset the selection; events that switch tabs do neither. As these never
  switch to the friends, that is enough there, whatever order things come in.
- `ThreadsTruthful`: a message of one's own goes to the thread of the friend
  who is selected, others' to that of their sender, histories to that of the
  answer: none gets into another's.
- `OwnShownOnce`: own messages are appended before the server has them, and a
  history with the same messages may come any time later; replacing the whole
  thread is what keeps them single.

## The shell

`Shell.tla` is the program around it: `screen` and whether its form is loading
(`busy`), the navigations and answers under way, and for each connection what
the server has sent (`wire`), the read loop (`reader`, `held`), its channel
(`events`) and the waiters on it. `waitForChatEvent` is a chain: each event
that is handled asks for the next. A message that comes after its time, such as
the answer to a form that was left, sets `strayed`.

- `LoadingAnswered`: a loading form takes no key. Answers to other forms clear
  the flag too early, which is harmless; the converse, a flag that nothing will
  clear, does not happen.
- `ShownInOrder`: socket, read loop, channel and waiter pass an event on, four
  goroutines in a row, without a gap or a swap, and nothing of an older
  connection gets in, unless something came after its time.
- `LossNoticed`: the chain of waiters does not break, whatever screen is shown.
- `CloseEndsReader`: a read loop that is blocked in a read or on a full channel
  ends after `Close`.

## Five parts

These share no state with each other, and each is small.

**`AdminPanel`**: a command (`Issue`) reads or changes the table of users at
one time and its message reaches `Update` at another; users come and go
meanwhile, and panels are left and opened. `UserInRange`: `d` does not index
past the end of a list that has just become shorter. `DeletesPrompted`: only
whom the question on the screen names is deleted, although a list that arrives
between the two presses of `d` may put another under the cursor, and never
oneself. `LoadingCommanded`: answers of old commands, old panels and errors do
not leave the panel waiting for nothing.

**`HubLocks`**: `h.mu` and the `mu` of every connection, the latter held while
a frame is written to a socket whose buffer (`Capacity`) may be full. `register`
closes the older connection under `h.mu`, and `close` waits for its `mu`, so
that a client that stops reading can stop everybody. A client may stall: it is
there and does not read, for a while or for ever; its kernel acknowledges the
probes of a full window, so that TCP never gives up on it. Or it may vanish,
and then TCP does (`TCPGivesUp`). A handler writes to connections it has looked
up (`Packet`, `Lookup`) and to its own (`Bootstrap`, `OwnFrame`); it leaves when
its socket is closed, when a frame cannot be read, or when its bootstrap fails.
`NoCircularWait`: it is a chain and not a circle, as whoever waits for `h.mu`
waits for `register`, who waits at most for a writer, who waits for no mutex.
`HandlersReturn`: every handler comes to the end of what it has begun, if no
client stalls for good. The condition is needed: see "also seen" below.
`WritesExclusive`: no frame is begun on a connection that `register` has
replaced, and two writers do not mix their frames.

**`E2EKeys`**: the two files of a machine, each truncated in one step and
written in another, the bundle of each account, and clients that may be killed
at any step. `KeyOfOneAccount`: the accounts of a machine share the files, not
the key that is uploaded. `PairMatches`: private first, then public, so that a
kill never leaves a public key beside another's private key. `PrivateKeyStays`:
nothing overwrites a whole private key. The last two are claimed of machines on
which no two clients were writing keys at once (`crowded`): the code has no
lock there.

**`Startup`**: a server from its start to its two listeners, twice, since
`--create-admin` is a second process; each may be killed at any step and is
started again. `ServesSchema`: of two that read the same version one fails and
stops, and who listens has all migrations. `CertPairs`: a certificate is
written before its key and the two are only written together, so that two whole
files belong together. `LogAgrees`: the file says what the process does. The
last two hold unless two were at the same file at once (`raced`).

**`Framing`**: header and payload are two writes, without a lock, by `Update`
and by commands at once; the words arrive one at a time. `ClosedByOverlap`: the
server loses the boundary of frames only if two writes overlapped, and then it
closes the connection instead of handling something that nobody sent.

## Runs and bounds

| Run | Instance | Shows |
|-----|----------|-------|
| `HubSafety` | 2 users, 3 connections (one user has two), 2 messages, one oversized | the safety properties, `HubInv`, `MailboxSafety` |
| `HubLive` | the same with 1 message, fair handlers | `MailboxSpec`, `HandlersEnd` |
| `HubTwice` | 2 connections, 1 message | violation: the same message twice on one connection |
| `Friends` | 2 users, 3 connections (one user has two) | view, announcement, `FriendsInv` with the types, refinement |
| `FriendsStuck` | the same | violation: a pending request that cannot be accepted |
| `Accounts` | 3 names, 2 ids of 2 lives each, 2 requests, 2 connections | administration, and messages between friends |
| `AccountsReuse` | the same | violation: a message between accounts that never met |
| `Deletion` | 2 ids of users, of 1 and 2 lives, 1 `message_id` of 2 lives, 3 connections | messages and marks while ids are reused |
| `ChatView` | 2 other users, 2 bodies, histories of 1 row, queues of 2 | selection and threads |
| `ChatViewEnter` | the same | violation: Enter past the end of the list |
| `Shell` | 2 connections of 2 frames, a channel of 1 | forms, order of events, ends of connections |
| `Parts` | see below | the properties of the five parts |

**Hub and Friends.** Every property is about one message or one pair of users,
and the code treats different messages and pairs alike. What interferes is a
sender against a recipient that reconnects: that takes one connection for the
one and two for the other, since a connection can be used again once nothing
refers to it (`Collect`, `Connect`), so any number of reconnects is covered,
and two connections of one user are alive at once. Two messages let one be in a
bootstrap while the other is pushed, and one be refused for its size. Both
users can send in both runs. Symmetry: the two connections of the second user
are interchangeable; it is used in the safety runs only. State is finite
without counters there, and no bound appears in a guard.

**Accounts.** `MaxLife` bounds how often an id is given out: twice is a reuse.
A behaviour is about two requests that interleave, or about connections with
one request at a time and two names (`about`): everything at once is too large,
and no property needs two requests and a connection. Three names, so that a
third user can take the id of the second while the first is an administrator.

**Deletion.** `MaxUser`, `MaxRow` and `MaxLife` bound ids and how often each is
given out. Three connections are a sender, a recipient and another that replaces
either of them, or a user who got an id again. `Small` gives one of the two ids
to one user only (the other may be sender or addressee), lets at most two
handlers be between two packets at once, since a message is in the hands of one
and may be missed by one other, and has links break only before an id has been
reused: a link that is lost ends a connection as a replacement does. One
`message_id` is enough for a mark that comes late. The theorems have none of
these bounds.

**ChatView.** `MaxQueue` bounds the frames on either way, and `Small` what is
under way in all; `Limit` is the 200 of the query. A behaviour is about the
lists, where nothing is said, or about what is said between friends. Two other
users are enough for a selection that is not the first entry and for a thread
that is not the one selected; one row of history for an answer that leaves out
what the thread has.

**Shell.** `MaxConn`, `MaxSent` and `Capacity` bound connections, frames and
the channel (32 in the code): with two frames and a channel of one, the read
loop blocks. `Small` lets a form be submitted behind a pending esc and another
after it. It cuts off keys only: no fair step leaves the states it keeps, so
that liveness is checked as if it were not there.

**Parts.** A behaviour is about one of the five parts (`about`). The panel: 3
users and 2 commands at a time (`Slots`), so that answers overtake each other.
The locks: 3 connections, two of one user, a socket that holds one frame, and
the state after two have connected, so that `register` finds one to replace.
The keys: 3 clients, two on one machine, 2 accounts, 2 key pairs (`MaxKeys`).
Startup: 2 processes, 2 migrations, 2 requests, 2 certificates (`MaxCerts`).
Framing: packets of one, two and three words, of which the last is too large.
`Small` keeps a wipe or a toggle of the panel from being under way beside other
commands, one client of the keys idle at a time, and stops where a race has been
noted that the properties make an exception of. Of the locks it lets one client
at a time vanish: a second one would only break as the first does. It cuts off a
step that has no fairness (`Vanishes`), so that the liveness of what remains is
checked in full.

Deadlock is checked in every run but `Parts`: a connection that has ended, and a
machine without accounts whose private key is truncated, really stop.

Every property has a mutant in `PROJECT.json`: a definition of the model
changed as a plausible bug would change the code, which makes TLC find the
property violated. The mutated forms stand next to the definitions they
replace, marked as such.

## Fairness

`Hub`: each handler goroutine gets weak fairness on its next step that does not
wait for its client, since Go schedules runnable goroutines. Clients may send
nothing for ever, the network and the store may fail at any time. One thing is
assumed of them: a write returns, with or without an error, so that no client
that is there stops reading for good.
`ReadFails` is part of the handler's step: a read on a closed socket returns at
once, and one whose peer is gone returns because accepted TCP connections have
keep-alives in Go. `HubLive` has no oversized message (it can never be handed
over, see below).

`Shell`: goroutines run, and Bubble Tea handles the messages they send; a
request ends because `http.Client` and `Dial` have timeouts. Nothing is asked
of the user or of the server.

`HubLocks`: the steps of a handler are strongly fair, since goroutines run, and
Go's mutexes hand over to a waiter that has waited long (starvation mode).
Clients that have neither stalled nor vanished read; TCP gives up on those that
have vanished, from which nothing comes back any more (retransmissions and
keep-alives). Nothing is assumed of a client that has stalled: the code sets no
deadline, and TCP has none for a peer that acknowledges probes. It is therefore
a condition of `HandlersReturn` that no client stalls for good.

`Accounts`, `Deletion`, `ChatView` and the other parts claim no liveness.

## Proofs

`HubProofs.tla`: for any sets of users, connections and messages, any
friendships and tokens. `RegistryConsistent` and `NoMessageStranded` are not
inductive alone. `HubInv` adds

- `HandlerShape`: which variables of a handler are in use at which stage (a
  message in hand exactly from `SaveMessage` to the end of `deliver` or during
  a confirmation, a target exactly in `push`);
- `HeldForAddressee`: the rows in a handler's hands belong to the right user,
  and the looked-up connection of a push was registered for the addressee
  (that it may be closed by now is fine, that it serves somebody else is not);
- `DeliveredWasHanded`;
- `NoMessageMissed`, which is `NoMessageStranded` extended back to the moment
  the pending rows have been listed: before that the queue does not speak for
  the connection, after that every unwritten message to the user is in the
  queue or in the hands of a handler that will look the connection up.

Each conjunct has a lemma with one step per action; `HubInvStep` puts them
together and the theorems follow. `ImplementsMailbox` shows that every step is
a step of `Mailbox` or a stutter (`MailboxStep`), using from the invariant that
only saved messages are handed and only handed ones marked. The assumptions are
those of `Hub.tla`: the null values are not members of the sets they stand
beside, and the constants have their types.

`FriendsProofs.tla`: for any users, connections and owners. `FriendsInv` says
that friendship is mutual, that lists read so far and lists shown are justified
by the tables, and that a handler announcing a request has inserted it. It is
inductive because requests only leave their table by becoming friendships.
`NoRequestMissed` is `RequestsAnnounced` extended back to the beginning of the
bootstrap: a pending request that a connection has not been told of, and that
no handler is going to announce, is one its bootstrap has yet to read, or has
read and not yet written. `ViewCorrect` is `ViewJustified`, `NoneUnannounced`
is `RequestsAnnounced`, `ImplementsFriendBook` is `FriendBookSpec`.

`AccountsProofs.tla`: for any names, any ids and lives, any requests and chat
connections. `AccountsInv` rests on an account being an id and a number of its
life: `life` only grows, so that what is gone stays gone, and what the code has
met has lived (`Holdings`, which also says what a request and a connection hold
at each stage). To these it adds:

- `KnownByName`: the name that a deletion was asked by is that of the asker's
  account while this lives. An id found by another name is therefore another
  account's, which is `DeletesAnother`;
- `AdminSafe`, from which `AdminRemains` follows: until a wipe there has been an
  administrator ever since a deletion passed `adminAuth`, and one of them is no
  deletion's target. That a deletion checks its target is not enough alone, since
  a user may be promoted between the check and the deletion. But an administrator
  whom no deletion has in hand stays out of their reach, the check being there,
  and the first one that is promoted finds no deletion past `adminAuth`;
- `FriendsMet`: friendship of ids is friendship of accounts where neither id has
  been reused, in the table, in the hands of a connection between its statements,
  and in the rows of messages. `FriendsUnlessReused` is its last part.

`ChatViewProofs.tla`: for any users, bodies and limit of a history. A thread is
truthful because all that is on its way to it is: the table, the answer that was
read and not yet written, the pushes, the events (`EventTrue`). The user's own
message is shown once because at any time it is in one frame that the server has
not handled (`Sent`, `SaysOnce`) or in the table (`NotTold`), and because what
is typed is new (`ViewInv`). `FriendSelected` is inductive with the types alone.
That the tables of names are finite, which their ordered lists need, is part of
the invariant (`TablesInv`) and no assumption.

`ShellProofs.tla`: for any number of connections and frames, and any capacity of
the channel. `ShownInOrder` follows a frame from the server to the view: each
place on the way (wire, read loop, channel, the command that waits, the view)
holds the numbers that come next after those of the place before it (`Flows`).
This holds as long as one command at a time waits on one channel (`OneWaiter`),
which is what ends when a second login succeeds (`strayed`, see below).

`AdminProofs.tla`, on `AdminPanel`: for any users and any number of commands. The
list of a refresh is a sequence only because a finite set of names can be put in
order, which the first two lemmas prove (`OrderedListExists`: the place of each
is the number of those not greater). That no user is in a list twice, and that
each wait has its command, make the rest inductive.

`AdminProofs.tla` also has `Deletion`, for any numbers of ids and lives and any
connections. `DeletionInv` consists of

- `HandlerHolds`, the types of what a handler has in hand at each stage;
- `AccountsLived`: nothing is ahead of the lives that its id has had, so that a
  sender who is gone stays gone when the id is given out again;
- `RegistryServes`: for each id, the registry has the one open connection that
  serves it. Deletions do not disturb that, as they do not know the registry; a
  replaced handler may unregister and close at any later time
  (`RegisterMoves` says what `register` does to its stage);
- `RowsNewest`: the row of a `message_id` is of the newest message that had it,
  a handler may hold an older one. A mark by id hits the right message if the
  newest is the first, which is `MarkedWasWritten`;
- `HeldForId`: rows, queues, lookups and frames meet by id, from which
  `ReadByAddressee` follows, an id having one living account;
- `NoneMissed`, which is `NoneStranded` extended back to the listing of the
  pending rows. That the list leaves out no unwritten message rests on
  `MarkedWasWritten`: a row with a stray mark would not be on it.

`WireProofs.tla`: two invariants. `LocksInv` says who has locked what at each
stage of a handler (`RegistryHeld`, `WriterHolds`), and that a connection is not
closed while one writes to it (`OnlyOpenWritten`): `register` closes under the
mutex of the connection. That mutexes cannot deadlock (`WaitsEnd`) follows from
the first two, however many handlers wait. These are safety proofs, and the
fairness of `LocksSpec` plays no part in them. `FramingInv`: each word of the stream is there once and
is of one packet (`WordsOnce`), and until the first overlap of two writes the
stream is whole frames, the last one perhaps cut short (`FramesWhole`), whatever
the lengths.

`FilesProofs.tla`: two more. `KeysInv`: a key pair is in the hands of the client
that generated it, or is the bundle of the account that this client acts for
(`KeysHeld`), an account's bundle is stored by one request (`StoredOnce`), and
`DiskOrder` says what a client finds in the two files at each step, unless
another was at them (`crowded`). `StartupInv`: the schema is `1 .. n` at all
times (`SchemaGrows`), whoever writes certificate and key or the log's file has
found what the step before left there (`CertOrder`, `LogOrder`), unless another
process or request was at it too (`raced`).

The theorems are about `Spec` of each module (`ShellSpec`, `LocksSpec` and so on
where it has another name) and assume what its `ASSUME`s say: types, null values apart
from real ones, and names ordered by their rank where lists are sorted. No bound
of an instance (`Small`, the initial states of `MCChatView` and `MCParts` in
which users are befriended or connected already) is used in a proof.

Model-checked only:

- liveness: the fair part of `MailboxSpec`, `HandlersEnd`, `LossNoticed`,
  `CloseEndsReader`, `HandlersReturn`. Leads-to under fairness needs `ENABLED`,
  which is beyond this prover;
- the four violations, which are counterexamples.

The other way round, some theorems are about formulas that no run checks on its
own: the type invariants of `Hub` and `Friends` and `HandedToAddressee`, which
are conjuncts of `HubInv` and `FriendsInv`, and those of `Deletion` and of the
five parts (`DeletionTypeCorrect`, `PanelTypeCorrect`, `LocksTypeCorrect`,
`StartupTypeCorrect`, `FramingTypeCorrect`; that of the keys is in `KeysInv`).

## What does not hold

- **A message can arrive twice on one connection** (`HubTwice`). Alice's
  handler saves; Bob connects and registers; Alice's handler looks him up and
  pushes; Bob's bootstrap lists the row before Alice's handler marks it, and
  writes it again. The README has it either pushed or delivered on connect.
- **A request can be pending for ever** (`FriendsStuck`). Two users ask each
  other, one accepts: the other request stays, and accepting it fails on the
  primary key of `friends` each time. The chat view says "press Enter to accept".
- **Messages pass between accounts that never became friends**
  (`AccountsReuse`). A user is deleted, the id goes to the next one; the chat
  connection of the first is still open and speaks for the id. "Only friends
  can message each other" (README.md:133).
- **Enter can end the program** (`ChatViewEnter`). A request that arrives
  switches to the tab of requests and keeps the selection; with the second
  friend selected and one request, Enter indexes past the end of the list. The
  README has it send, accept or submit (README.md:129).

Also seen while modelling, without a run of their own, as no document of the
repository says otherwise or the violated sentence would be our own:

- A client that is there and stops reading for good can stop everybody: the
  handler that writes to it keeps the connection's mutex, the user's next
  `register` waits for that under `h.mu`, and nobody logs in, is looked up or
  leaves any more. There is no write deadline (hub.go:306-313). Without the
  condition of `HandlersReturn` TLC finds a handler that writes to its own
  stalled client for ever.
- A message can be marked delivered that nobody got: its addressee's link is
  gone, the server has not noticed, and the write into the kernel's buffer
  succeeds (`LinkLost`, then `Push` and `MarkDelivered` in `Hub`). No later
  connect delivers it. The protocol has no acknowledgement to wait for.
- A message can be marked delivered that was never written: a handler writes a
  frame; the user, and with him the row, is deleted; the next message gets the
  `message_id`, and the mark by this id. Without the exception in
  `MarkedWasWritten` TLC finds that one within `Deletion`'s bounds.
- A message whose `SEND_MESSAGE` frame fits into 1 MiB but whose delivery frame
  does not is stored and ends every later bootstrap of its addressee
  (`BootstrapFails` at an oversized row).
- Registration that fails after `CreateUser` leaves the user (`Abandon` at
  stage `session`): trying again finds the name taken. `SetAdmin` promotes
  whoever has the id by then, and so does a login that was slow.
- A second login that succeeds while the first connection is up leaves that one
  neither closed nor waited for, and its end closes the second (`Connects`,
  `Disconnected`).
- The command that `chatModel.Update` returns for an event is dropped
  (`app.go:102`), so that a history is requested only at the next key. A
  history is the oldest 200 messages: with more it hides the newest. A request
  that arrives while the user types switches the tab, and the Enter meant for
  the message accepts the request. A name of spaces leaves the modal loading
  until Esc. Loading forms ignore ctrl+c.
- Refreshes of the admin panel may come back in the other order; a log toggle
  sends the opposite of what the panel was shown, which may be what is already
  set.
- A private key, `key.pem` or `log_config.json` that was truncated and not
  written makes every later attempt fail until somebody removes it (`Torn`,
  `Half`). A second account on a machine is registered without a bundle
  (`RegisterWithLocalKey`).
- Of two servers started at once each may get one of the two ports, and both
  end (`Listen`).
- Frames written at once by two goroutines of the client end the connection
  (`ReadRefused`).

## Not modelled

Client configuration (a function of flags, environment and file, evaluated
once), paths, layout and colours of the TUI, and shared types: no state.
Cryptography, TLS, password hashing and token generation are black boxes of the
code; parsing and status codes of HTTP are left out, and the routes that only
read. `pkg/types` and `server.go` are unused.

Also abstracted: the texts of inputs, the cursor among the log categories, the
phrase of a wipe (the server checks it: `RequestFails` of `AdminPanel`),
resizing, and a `log_config.json` edited by hand that names no categories
(`Init` of `logx` takes the default for it).

## Plan

All components with state have a module, and every safety and action property of
the runs is a theorem. What is left, in order of importance:

1. `HubTwice` and `FriendsStuck` the other way round: which hypotheses on
   reconnects and requests make the violated sentences true. `FriendsUnlessReused`
   is the answer for `AccountsReuse`.
2. Friend requests and contact lists while users are deleted: `Deletion` has
   messages only.
3. Shorter proofs: the steps about the types of `Shell`, `Framing` and `ChatView`
   repeat an argument that lemmas on their sequences could carry.
