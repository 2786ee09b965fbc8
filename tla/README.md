# Verification of the MDM server

TLA+ models, TLC runs and TLAPS proofs for the backend in `src/`: a Go server
that keeps a WebSocket connection per Android device, relays commands, mirror
frames and signals between devices and dashboards, and keeps its records in
PostgreSQL.  There are no tests in the repository; the references are the code,
its comments and the migrations.

To check: `tlc -config MCX_y.cfg MCX` for a run, `tlapm X_proofs.tla` for the
proofs of a component.  `PROJECT.json` lists runs, mutants, theorems, findings,
hazards, and for every definition the lines of the source it models.

## 1. The system

| Component | State it keeps | Operations | Interacts through |
|---|---|---|---|
| Hub (`internal/websocket/hub.go`) | `deviceClients`, `dashboardClients`, `mirrorSessions` under `mu` | register / unregister device and dashboard, `SendToDevice`, `BroadcastToDashboards`, ping loop, mirror sessions, `SendMirrorFrame` | called by every handler, read loop and HTTP request |
| Device client (`client.go`) | bounded channel `send`, `done`, the socket | `Send`, `Close`, `readPump`, `writePump` | channel and socket; its read pump calls the hub |
| WebSocket handlers (`handler.go`) | none of their own | device upgrade, the life of a connection, dashboard read loop | hub, device service |
| Device presence (`device_service.go`, `device_repo.go`) | `devices.is_online`, `last_seen` | `SetOnline`, `UpdateDeviceInfo`, `MarkOfflineInactive` | written by handlers, heartbeats, the worker; read by command requests |
| Commands (`command_service.go`, `command_repo.go`, `command_handler.go`) | `command_logs` | send, bulk send, mark sent, result, timeout, history | HTTP requests, read loops, worker, hub |
| Screenshots (`screenshot_service.go`) | one file per device | save, serve | result handling |
| Admin setup, login (`auth_service.go`, `auth_handler.go`, `user_repo.go`) | `users` | setup, login, refresh, token validation | HTTP requests |
| Device registry, groups | `devices`, `groups` | create, update, delete (cascading) | HTTP requests |
| Device accounts, device status | `device_accounts`, `device_status` | replace in a transaction; merge by `COALESCE` | read loops |
| APK store (`apk_handler.go`) | a file and a row per upload | upload, list, download | HTTP requests |
| Worker (`main.go:357-377`) | none | every minute: offline detection, command timeouts | database |

What makes it hard:

* **Interleaving.**  Every connection has a handler goroutine (which becomes the
  read pump), a write pump, and senders that hold its `*Client` after the hub's
  lock is released.  A reconnecting device has two such sets at once, and the
  teardown of the first works by device id.
* **Two records of one fact.**  The hub and `is_online` both say whether a device
  is there, and are written by different goroutines in no common order.
* **No transactions.**  A command request is an `INSERT`, a send and an `UPDATE`;
  a setup is two `SELECT`s and an `INSERT`; a screenshot is a file and a row.
* **Overlapping transactions.**  Two read loops of a device may each replace its
  account list, and a `DELETE` sees only what was committed when it started.
* **A lock over sockets.**  A broadcast writes to every dashboard with the hub's read
  lock held and without a deadline, and one connection is written to by several
  goroutines, where the library panics.
* **Reports that outlive what they are about.**  An old connection may have reports
  left when a new one begins, and deleting a device does not end its connections.
* **Silent drops.**  `Client.Send` returns nil at a full channel; most database
  errors are ignored.
* **Crashes.**  The in-memory hub is lost and the database is not.

What each component must do to be correct:

* *Hub and clients*: no entry of the hub without a handler that removes it, unless a
  panic ended that handler; no open client outside the hub, nothing written to a
  connection that was replaced, nothing accepted and forgotten, no connection half open.
* *Presence*: a device shown online has someone who will show it offline, unless a
  handler of it panicked; a device that is gone becomes offline in the database.
* *Commands*: a row's status is true of what happened to the command; a result,
  once there, stays; nothing waits for ever; no row without its device.
* *Lock*: whoever comes to it gets through, unless a dashboard stalls for good;
  a broadcast writes only to dashboards that are there.
* *Setup and tokens*: setup closes once there is a user; tokens only for users; who
  is logged out stays so until the password comes again.
* *Registry*: an answered token works until the device is deleted; nothing refers to
  what is gone; a heartbeat without a field does not clear it, and a device shows the
  newest it reported.
* *APKs*: a row names a whole file.
* *Accounts*: a report is saved whole or not at all and replaces the list it found;
  no report waits for ever; a deleted device has none.
* *Mirroring*: a session names a live dashboard; losing a dashboard ends its
  sessions and nobody else's.

## 2. Modules

| Module | What it is |
|---|---|
| `DeviceHub` | device connections: handler, pumps, hub registry, senders, presence, worker, crash |
| `MCDeviceHub` | its instances for TLC |
| `DeviceSession` | what connections promise to those who send; `DeviceHub` implements it |
| `DeviceHub_proofs` | nine theorems |
| `Commands` | the life of a command, from request to result, timeout or deletion |
| `CommandLog` | what the command log promises; `Commands` implements it |
| `MCCommands`, `Commands_proofs` | instances; eight theorems |
| `AdminSetup` | setup, login, refresh and token checks over the users table |
| `MCAdminSetup`, `AdminSetup_proofs` | instances; five theorems |
| `MirrorSessions` | dashboards, mirror sessions, frame relay |
| `MCMirrorSessions`, `MirrorSessions_proofs` | instances; three theorems |
| `DeviceAccounts` | reports of a device's accounts as database transactions |
| `MCDeviceAccounts`, `DeviceAccounts_proofs` | instances; four theorems |
| `HubLock` | `Hub.mu`, who takes it, and the writes of broadcasts under it |
| `MCHubLock`, `HubLock_proofs` | instances; two theorems |
| `DeviceRegistry` | devices, groups, one-time tokens, device status |
| `MCDeviceRegistry`, `DeviceRegistry_proofs` | instances; four theorems |
| `ApkStore` | the file and the row of an APK |
| `MCApkStore`, `ApkStore_proofs` | instances; two theorems |

Definitions that begin with a comment `mutant:` are faulty variants of the
definition after them.  No specification uses them; `PROJECT.json` names, for
every property of a passing run, the variant that breaks it.

### DeviceHub

A step is what one goroutine does between two points where another one can see
it: a region under `Hub.mu`, a channel or socket operation, a statement, a
broadcast.

| State | Code |
|---|---|
| `pc[c]` | position of the handler of connection `c` in `DeviceUpgrade` (`handler.go:35-85`) and in `readPump` |
| `deviceClients`, `closed[c]` | `Hub.deviceClients`; `done` closed and the socket closed |
| `sendq[c]`, `writer[c]`, `inHand[c]`, `wire[c]` | channel; position in `writePump`; the message it took; what was written |
| `fate[m]`, `target[m]` | progress of one call of `SendToDevice`; the client it found |
| `isOnline`, `lastSeen`, `announced` | the two columns, `lastSeen` as "never", within or beyond the worker's two minutes; last broadcast |

`MarkOnline` … `StartPumps` are the statements of the handler up to `Start`;
`Heartbeat`, `DeviceInfo`, `OtherMessage`, `Forwarded`, `ReadFails` the read pump;
`UnregisterDevice` and `CloseSelf` its deferred calls; `MarkOffline`, `AnnounceOffline` the rest of the
handler.  `TakeNext` … `WriterCloses` are the write pump.  `Lookup` and `Enqueue`
are the two halves of `SendToDevice`, with the lock released in between;
the ping loop is such a sender.  `Enqueue` has the `select` of `Client.Send` with
all its outcomes: a closed client whose channel has room may accept or refuse.
A statement may fail (`MaxDbFaults` in all), and its error is ignored as in the
code.

A broadcast may panic, because another goroutine writes to the same dashboard, or stay
in a write, because that has no deadline.  `HubLock` says how; here a broadcast is one
step, which may have another outcome and need not be taken:

| Where | What a panic leaves |
|---|---|
| `handler.go:66` (`AnnounceOnlinePanics`) | "abandoned": `Start` is never called; the client stays in the hub without pumps, and the ACK in its channel; `is_online` is left to the worker |
| read pump, e.g. `main.go:243` (`ForwardPanics`) | the deferred `UnregisterDevice` and `Close` run, `handler.go:72-78` do not: `is_online` is left to the worker, and no dashboard is told |
| `handler.go:78` (`AnnounceOfflinePanics`) | a dashboard that watches may or may not have been told |
| `Close` of an abandoned client, by the next registration or teardown (`RegisterPanics`, `UnregisterPanics`) | the wrapper of its handler has given its connection object back, so that `conn.Close()` panics, once; the entry stays, with `done` closed, until the next one comes; or the object serves another connection by then, and nothing panics |

`announced` is of one dashboard that watches from the start and gets what is written to
it; a broadcast that panics may have reached it before that, or not.

`DeviceSession` forgets hub, channels, pumps and goroutines.  A connection is new,
admitted, registered, greeted or over; it has what it accepted and did not deliver yet
(`pending`), and a message is idle, bound to a connection, or decided.  `DeviceHub` maps
a connection that is closed, or whose pump gave up, to "over", and `pending` to the
message in the hand of the pump followed by the channel.  What it promises:
a registration ends whoever was live for the device; a message is bound to the live
connection of its device if there is one; a live connection accepts it unless it is
full, and delivers in order of acceptance; nothing is accepted or delivered by a
connection that is over.

### Commands

A step is one statement, one call of the hub, or one half of a file write.  A request goes
"creating" → "dispatching" ⇄ "marking" → "done", with `logs` the rows it has
created and not dispatched.  A single command is a bulk of one device: the two
handlers differ only in how they choose devices and word their answers.
What the hub and `is_online` say is `DeviceHub`'s, and they need not agree: a request
may find any device online that has a row, or not, and `Dispatch` has the outcomes that
`DeviceHub` shows `SendToDevice` to have (queued, dropped with nil, refused; the last
also for a client that was found), any of them at any time.  `Disconnect` takes along
what a channel holds.  `old[k]` says that `created_at` is more than a minute ago.
Deleting a device deletes its rows and leaves its connection alone.  The device answers
a command it received once, with success or failure.  An `INSERT` that reports an error
may have been committed; its row is in no request's list.

`os.WriteFile` empties the file (`OpenImage`) and then writes it (`WriteImage`); either
may fail, and a crash may come in between.  `shot[d]` is the command whose whole image
`{device}.jpg` is, "begun" (emptied, and written by one read loop), or "mixed" (written by
two at a time, or broken off).  A read loop whose file is still "begun" is its only
writer, and leaves a whole image unless it fails; one that was not alone leaves a whole
one or not.  `cutOff` is a history variable: the rows whose own statement failed, or
whose request died.

`CommandLog` has three variables: the status of each row, the rows a request may
still mark (`open`), and the rows whose answer may still be written (`awaited`).
`Commands` maps `open` to the rows in the `logs` of some request and `awaited` to
the rows whose result no read loop has finished with.

### AdminSetup

One action per look at the table: `RequiresSetup`, `SeedAdmin` (the second look),
`CreateUser` (the insert under `UNIQUE`), `Login`.  Hashing a password is
the time between `SeedAdmin` and `CreateUser`.  A stored password stands for its hash.
`RefreshParse` (the check of the refresh token) and `Renew` (the read of the user and
the new pair) are the two halves of `RefreshAccessToken`; `Authorize` is
`ValidateToken`, before an API request or a dashboard.  `tokens` has a user and type
while *some* such token is signed and not expired; `Expire` is the end of the last
one, and the refresh token does not expire before the access token of its pair.
Tokens survive a crash, as the secret comes from the environment.  A refresh token
is not used up by a refresh, in the model as in the code.

### MirrorSessions

`StartMirrorSession` / `StopMirrorSession` change the table under the lock and
`Forward` tells the device afterwards; `LookUpSession` and `WriteFrame` /
`WriteFails` / `StopAfterFailure` are `SendMirrorFrame`;
`StopMirrorSessionsForDashboard` is one region under the lock, sends included.
Device connections are reduced to one open client or none, with its channel.  A frame is
relayed whatever the device was told, as the code does not look: one that was under way
may come after `STOP_MIRROR` or the end of the connection.

### DeviceAccounts

One device; nothing relates the rows of two.  A transaction is numbered when it
begins (`began`), and a row knows which one inserted it.  `Begin` takes the
snapshot of the `DELETE`; `DeleteRows` lets it through when no row of the snapshot
is claimed by another transaction, and deletes those that are still there;
`InsertRow` / `InsertFails` decide one `INSERT` against the `UNIQUE` and
`REFERENCES` constraints of the migration; `Commit` and `Rollback` end it.
`LockDevice` and `CascadeDelete` are `DELETE FROM devices` and its cascade.
`Waits` says who waits for whom, the deletion being number 0, and whoever is
`Deadlocked` may be failed.  The behaviour of PostgreSQL (READ COMMITTED, row
locks, waiting on `UNIQUE` and on references, deadlock detection) is external to
the repository and modelled from what its statements rely on.  Abstracted: the
order in which one statement locks its rows (it waits for all, then takes them),
and the moment between an `INSERT` and the check of its reference.

### HubLock

Goroutines are the handlers of devices and of dashboards; `at[p]` is the region it is
at (under `Lock`, under `RLock`) or the place between, and `NextAfter` the statements
that follow.  `RLock`, `Lock`, `HasLock` are Go's `RWMutex`: `Lock` takes an inner
mutex (`writer`), new readers wait (`parked`), and it goes on when `readers` is empty;
its `Unlock` lets in all who wait.  A broadcast holds the read lock over its writes:
`StartWrite`, `WriteReturns` (which needs a socket that is not stalled),
`EndBroadcast`.  A frame of a mirror session is written with no lock ("relaying",
"sending").  `Panic` is what becomes of a second writer of one connection, and of a
writer to a connection whose handler has returned: the deferred `RUnlock` runs, then
those of `readPump`, and the handler is over.  Panics are recovered by the wrapper of
`websocket.New`, so that the process lives.  What follows for
registrations, `is_online` and the dashboards is `DeviceHub`'s.  Closing a client whose
connection was given back panics too, inside the region of a registration or a teardown:
its deferred `Unlock` runs and the handler is over (`NextAfter`).  The ping loop and HTTP
requests take the read lock for a moment, like "forwarding", and are left out.

### DeviceRegistry

A step is one statement.  `RequestCreate`, `InsertDevice`, `ReplyCreated` create a device;
`issued` are the devices whose token was answered, the only moment the raw token is
anywhere.  An `INSERT` that reports an error may have been committed.  `DeleteDevice`
has the cascade to `device_status`, `DeleteGroup` the `SET NULL`; an `UPDATE` that
names a deleted group fails on the foreign key.  `DeviceConnects` is
`AuthenticateDevice`; a connection keeps its device though that is deleted.
A connection carries messages in order (`inbox`), and what is unread when it ends is
read still or lost, also while the next connection is read.  A message is its number
and the fields it brings, and a stored value the number of its message, so that the
order of values is the order of sending.  `Merge` is the `COALESCE` of `Upsert`.

### ApkStore

`Receive`, `CreateFile`, `CopyFile`, `InsertRow` are an upload, each of which may fail;
what was written stays.  `FindRow`, `SendFile` are a download.  Names are fresh: eight
hexadecimal digits of a UUID, whose repetition is not modelled.  `SaveFile` returns
when the file is copied; what a power failure does to it afterwards is not modelled.

## 3. Runs

| Run | Instance | What it shows |
|---|---|---|
| `hub_safety` | 1 device, 2 connections, 2 messages, channel of 1 | `TypeOK`, `EntryAttended`, `OrphanClosed`, `OnlineIsTakenBack`, `AcceptedFate`, `ImplementsDeviceSession` |
| `hub_liveness` | 1 device, 2 connections, ACK only, 1 failing statement | `PresenceConverges`, `TeardownCompletes`, `QueuedResolves` |
| `commands_safety` | 2 devices, 2 commands, 2 requests, 2 read loops, 1 failing statement, 1 crash | `OutcomeReported`, `ScreenshotBacked`, `RowsHaveDevice`, `PendingExplained`, `SentReturnedNil`, `ResultsStay`, `ImplementsCommandLog` |
| `commands_liveness` | 1 device, 1 command, 1 failing statement, 1 crash | `SentResolves` |
| `setup` | 3 requests, 2 names, 2 passwords, 1 failing query | `TokensForUsers`, `SetupCloses`, `LoggedOutStaysOut` |
| `sessions` | 1 device, 2 dashboards, 2 relays, channel of 1 | `SessionAttended`, `SessionLossExplained`, `SessionsEnd` |
| `accounts` | 2 read loops, 2 accounts, 3 reports of up to 2 accounts | `WholeReports`, `AccountsHaveDevice`, `UndisturbedReplaces`, `ReportsEnd` |
| `hub_lock` | 2 device connections, 1 dashboard | `BroadcastTargetsLive`, `LockProgress` |
| `registry` | 1 device, 2 groups of 1 name, 2 connections, 2 fields, 3 messages, 1 failing statement | `IssuedTokensWork`, `ReferencesHold`, `StatusIsFresh` |
| `apks` | 2 uploads, 2 downloads, 2 failing calls | `RowsHaveFiles` |

Two runs look for the counterexample to something a comment or a migration says:

| Run | Said | What the code does |
|---|---|---|
| `replaced` | `hub.go:43` the *existing* connection is disconnected when a device reconnects | its read pump then calls `UnregisterDevice` by device id, which closes and removes the new connection; the device has to connect a third time |
| `completed` | `command_repo.go:97` commands that were sent *but not completed* time out | `SetSent` overwrites a result that came first; the row becomes SENT, then TIMEOUT |

Three more things were found by such runs, and are now named by the properties that
hold in spite of them.  Two setups that both find no user create two, where
`00001_init.sql:5` says "single admin": `SetupCloses` speaks of a table with a user
*and no pending insert*.  A frame that cannot be written removes its session before
the cleanup of the dashboard, which then has nobody to tell, where `hub.go:197` says
"Tell device to stop streaming": it is the last case of `SessionLossExplained`.  Two
reports that overlap may leave the union of their accounts, where `message.go:97` says
"the full payload": `UndisturbedReplaces` is of a report whose `DELETE` saw what it
replaces.

Why the bounds are enough.  Two connections of a device are what the code
distinguishes (the one in the hub and one that was replaced or is winding down);
nothing relates devices to each other in the hub, whose operations touch one key
of the map, so one device is enough there, and what is said of it is proved for
any number.  With capacity one a channel is empty or full, and two messages and
the ACK are enough to fill it, overtake in it and be dropped.  `hub_safety` is explored
up to the columns of the devices table (`VIEW WithoutColumns`), which nothing reads but
the worker, and without failing statements, which touch nothing else; the columns are the
subject of `hub_liveness`.  A bulk request needs two rows for one to fail and the other to
go on; two requests can put two screenshots on one device, whose images two read loops
then write at the same time, one after the other, or with a failure of either.  Three setup requests let
two race and one come late.  A failing statement is enough because all properties
that tolerate failures are about what one step leaves behind.  Crashes are
unbounded in `DeviceHub` and `AdminSetup` and happen once in `Commands`.
`AdminSetup` may stop, when all requests are served, so that its runs do not check
deadlock.  Symmetry is used only where no liveness property is checked; commands
are symmetric because in that run all of them are screenshots (one whose file
cannot be written goes the way of any other command).

Three reports let two overlap over a list that a first one left, or two deadlock
while a third waits; two accounts are enough for opposite orders, for an account
twice in a report, and for a report that is cut off half-way.  That reports are
bounded makes `DeviceAccounts` stop, so that its runs do not check deadlock.

In `HubLock` two devices let one broadcast, or relay a frame, into a dashboard that
the other writes to, and one dashboard is enough for a writer to wait behind it; it
connects and leaves once, and its socket may stall and recover for ever.  All
handlers may be done, so deadlock is not checked: `LockProgress` says that nobody is
stuck.  Three messages let two connections of a device interleave with two messages of
one of them, and two fields let a heartbeat bring one and not the other; two groups of
one name let a name be given again.  Deleted devices do not come back, and uploads
are served once, so that these runs stop.

Fairness.  Goroutines that can run do: handlers at the statements that wait for nobody,
the write pump (every write has `writeWait`), a sender that holds a client, a request, a
read loop that has a result, a relay.  The read of a closed socket fails.  Time
passes and the worker ticks.  A dashboard's read of a broken socket fails after
whatever was buffered, which is strong fairness since messages may come first.
Nothing is assumed of devices, users or dashboards: they need not connect, send,
answer or leave.  A statement that need not wait goes on, and PostgreSQL
fails a deadlocked one after `deadlock_timeout`; that a statement fails otherwise
is never relied on.  No call of the hub returns by fairness in `DeviceHub`, since it may
wait for `Hub.mu` and a broadcast for a dashboard: that they do return is the premise
`HubReturns` of `TeardownCompletes` and `QueuedResolves`, and what it takes is the premise
of `LockProgress`, whose conclusion it is.  `PresenceConverges` does without: its own
premise is that the connections of the device have ended.  For `HubLock`, `Lock` is strongly fair, since a Go mutex hands itself to a waiter
after a millisecond, and so is the return of a write, since a socket that takes data
again and again takes all of it.  That every dashboard does so is not assumed as
fairness: it is the premise of `LockProgress`, in the open, because the code has no
write deadline there.  Without it one stalled dashboard holds the read lock for ever,
then a `Lock` waits, then every `RLock`: no device connects, sends or leaves.
In particular the read pump's 60 s pong deadline
(`client.go:83`) is not relied on; `TeardownCompletes` starts from a closed
connection or a lost write pump, which closes it.

## 4. Proofs

`DeviceHub_proofs` proves, for every number of devices, connections and messages
and every capacity, from the assumptions named in `DeviceHub` (a positive
capacity; names that are distinct):

* `TypeCorrect`.
* `EntriesAttended`, `OrphansClosed`, `AtMostOneOpen`.  The inductive invariant is
  `RegistryInv == EntryAttended /\ OrphanClosed`.  Neither half is enough: a
  registration closes the client it replaces, and that it thereby closes *every*
  other registered connection of the device follows from `OrphanClosed` before the
  step; that `UnregisterDevice`, which works by device id, may empty the entry
  follows because whoever it removes is closed by the same region.  A region in which
  closing a client panics leaves the entry, and the client it names is an abandoned one,
  as before.  At most one open client is a consequence: both would be the hub's.
  `PlainStepMoves` and `ClosingStepMoves` say where the steps that leave the hub alone, and
  those that close a client in it, take a handler; the invariants are proved from them.
* `WritesGoToCurrent`: a write needs an open client; `PumpInv` (a pump runs only
  after registration) makes it a registered one, and `OrphanClosed` the hub's.
* `AcceptedMessagesKept`: `PumpInv` also says that what is in hand is being written
  and that senders hold registered clients; `PushKeeps` and `TakeKeeps` are the
  facts about the channel.
* `MessagesOnce` (`AtMostOnce`): a message is in the channel, in hand or on the wire of
  the one connection that accepted it, at one of these places, once.  No run checks it:
  `DeviceSession` has it by construction, and its refinement is checked.
* `RefinesDeviceSession` (`ImplementsDeviceSession`).  `LinkInv` puts the invariants above
  together and adds `Untouched`: before its registration a connection is neither closed nor
  written to, which is what a registration that starts a life needs.  A registration ends
  exactly the live connections of its device because the hub names them (`ServesIsNamed`);
  a lookup finds the live one for the same reason; a handler that closes its own client
  changes nothing because that client was closed when it left the hub.  `PushedLast` and
  `WaitingLength` are the facts about what waits.  Each action has a lemma that maps it
  to its action of `DeviceSession` or to a stutter.
* `OnlineTakenBack` (`OnlineIsTakenBack`), from types: of the steps of a handler that owes
  an offline, the last broadcast clears what the device shows, and all others that end
  the handler are panics; a handler that announces a device online owes from then on; a
  crash of the process takes the dashboards with it.

`AdminSetup_proofs` proves `TypeCorrect`, `TokensSound`, `SuccessSound`,
`SetupClosed` and `SessionsExpire` (`LoggedOutStaysOut`) for any number of requests, names and passwords.  The strengthening
is that unanswered requests have no answer, that users are never removed
(`UsersKept`), and that a setup which reaches its login has seen or made a user.
`SessionsExpire` needs only types: of the steps that sign tokens, a refresh is excluded
by the premise that none is past its check, since a check needs a token.

`DeviceAccounts_proofs` proves, for any number of read loops, accounts and reports
of any length:

* `TypeCorrect`.
* `ReportsWhole` (`WholeReports`).  That the list is whole is not inductive: what a
  transaction deletes must be whole too (`WholeClaims`), and it is what was left of
  a snapshot; and a report must not change under the rows it has made, which holds
  because rows are of committed transactions (`RowsCommitted`), which stay committed
  because each read loop works on an open transaction of its own
  (`OwnTransactions`).  `WholeAlgebra` is the fact about sets.
* `UndisturbedReportReplaces`: from `RowsCommitted`, a transaction that inserts has
  deleted whatever of its snapshot is still there.
* `NoAccountsLeft` (`AccountsHaveDevice`): with `DeletionAlone`, that the deletion
  holds the device only while nothing is inserted.

`HubLock_proofs` proves `TypeCorrect` and `TargetsLive` (`BroadcastTargetsLive`) for any
number of connections.  The invariant adds to the types, which have the meaning of
the lock (readers are at regions under `RLock`, a writer at one under `Lock`), that
handlers of devices and dashboards are at places of their own (`Places`), that a
registered dashboard is between its registration and its end (`Registry`), and that
a broadcast that writes holds the read lock (`Writers`): then the region that takes a
dashboard out has no readers inside, and nobody writes to what it takes out.

`DeviceRegistry_proofs` proves, for any number of devices, groups, names, connections,
fields and messages:

* `TypeCorrect`.
* `TokensWork` (`IssuedTokensWork`) and `ReferencesSound` (`ReferencesHold`) from one
  invariant, which adds where a request that creates a device is (`Creation`): its row
  is there, or was, before the answer, and no row is inserted again.
* `ReportsFresh` (`StatusIsFresh`): what a connection has stored is older than what
  waits in it, which is in order of sending (`Ordered`), so that the message read is
  newer than all stored ones of its connection, and a field it brings becomes the
  newest of it; the other connections and fields keep their witnesses.  That a new row
  has no connection yet, and so nothing to show, is `ConnectedKnown`.

`ApkStore_proofs` proves `TypeCorrect` and `RowsSound` (`RowsHaveFiles`); that an upload
at its insert has a whole file (`FilesFirst`) is what makes it inductive.

`MirrorSessions_proofs` proves `TypeCorrect`, `SessionsAttended` (`SessionAttended`) and
`LossExplained` (`SessionLossExplained`) for any number of devices, dashboards and
relays.  The strengthening is that a handler that attends has registered its dashboard
(`AttendingRegistered`), which is what a session that begins needs, and that a relay
whose write failed wrote to a dashboard that is gone (`FailuresReal`).

`Commands_proofs` proves, for any number of devices, rows, requests and read loops:

* `TypeCorrect`.
* `OutcomesReported` (`OutcomeReported`) and `SentOnlyOnNil` (`SentReturnedNil`).  The
  inductive invariant is `CommandInv`; TLC checked it on two instances (two devices, two
  commands and a request; a device and two requests; two read loops in both) before it
  was proved.  It says in whose hands a command is.  A row is in the list of one request,
  once (`ListedOnce`), so that it is marked once; what is in a list has not been sent, but
  for a head that is about to be marked, for which `SendToDevice` returned nil
  (`Undispatched`), so that the mark says that much; an answer on its way has an outcome (`Answered`), and one read loop
  holds it, with no result in the row yet (`HeldByOne`).  `Unborn`, that nothing refers to a row before its insert, is what a new
  row needs to satisfy the others.
* `ResultsStayAlways` (`ResultsStay`): a result is written by a read loop, whose row has
  none by `HeldByOne`; of the other writers, the timeout takes SENT rows, and a mark is
  excluded once the row is out of its list.
* `RowsSound` (`RowsHaveDevice`): inductive with types; the insert and the late update
  see that the device's rows are gone.
* `ScreenshotsBacked` (`ScreenshotBacked`).  The invariant is `SaveInv`: it speaks of what
  read loops are about to note as well (`NotedBacked`), and needs that a read loop with an
  image holds an answered screenshot (`ImageHeld`), that a row with a result is in no read
  loop's hands (`ResultLast`), and that a file is as its writer opened it unless a rival
  had it too (`OpenedOrShared`).  `FileMoves` says what a step may do to a file: whoever
  spoils it holds a rival of every row that says it was saved (`SavingRivals`), and a rival
  remains one (`RivalStays`).
* `PendingAlwaysExplained` (`PendingExplained`), row by row: a row leaves its list by a
  refusal, by the statement that marks it, or with its request; if that statement fails,
  or the request dies, it is in `cutOff`, and stays there (`CutOffStays`).
* `RefinesCommandLog` (`ImplementsCommandLog`): an insert, a mark, a result, a timeout and
  a deletion are the action of `CommandLog` of that name, also where their statement finds
  no row; every other step leaves the statuses alone and is `GiveUp`, because rows never
  come back into `open` or `awaited` (`OpenShrinks`, `AwaitedShrinks`).

`RowMoves`, `ListMoves`, `ReaderMoves`, `MessageMoves` and `DeviceMoves` say what any
step may do to one row, list, read loop, message or device; the invariants are proved
from them instead of action by action.

Only model-checked: liveness (all `~>` and `<>[]` properties), which needs fairness and
`ENABLED` and is out of the prover's reach.  The two properties that are expected to
fail are refuted by TLC.

## 5. Not modelled, and why

* Message contents, JSON, logging, and the reply bodies of HTTP handlers; names, labels
  and notes of devices, which relate to nothing.
* History, list and get requests, which change nothing.
* Start-up, configuration, routing, CORS, the request log: sequential or stateless.
* Which connection gets a write when the WebSocket library reuses the connection object
  of a handler that returned: `HubLock` has it as the panic of a write to nothing, and
  `DeviceHub` lets a `Close` on it panic or not.
* The end of a dashboard's handler or a relay by a panic in `MirrorSessions`, whose frames
  return or fail (`HubLock` has the panic, and `DeviceHub` what it leaves of a device).
* Images that do not fill the disk block by block: a write of a file has one middle.
* A device that answers a command it did not receive, or twice.
* Signatures, hashes, the randomness of tokens: two tokens are different, and a token is
  what was signed.
* Integer widths of status columns: a value that does not fit is a failing statement.

## 6. Plan

1. Done: `DeviceHub`, `Commands` with `CommandLog`, `AdminSetup`, `MirrorSessions`,
   `DeviceAccounts`, `HubLock`, `DeviceRegistry`, `ApkStore`.
2. Done: proofs for all of them, of every invariant and action property the runs check,
   and of the refinements of `CommandLog` and `DeviceSession`.
3. `MDMServer`: `Commands` over the connections of `DeviceSession`, so that what a
   dispatch may meet is a consequence of the hub and not a choice of the model.
4. What a dashboard is promised (a session it started, frames in order while it lasts) as
   an abstract specification that `MirrorSessions` implements.

Two disagreements are without a run of their own, and stated here instead.  A message
dropped at a full channel is marked SENT, where `client.go:49` says that `Send` "queues a
message for delivery" and `command_service.go:95` that `MarkSent` "marks a command as sent
to the device": `SentReturnedNil` says only that `SendToDevice` returned nil, which is what
the code makes of SENT.  And the handler of an old connection may mark a device offline,
and announce it so, under a newer one (`handler.go:72-78`); the `replaced` run shows its
counterpart in the hub.
