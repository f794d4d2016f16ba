# A verification of homelib

homelib is a file server and a desktop app for one's own machines: a Go server
(`src/server`), a Tauri/React app (`src/app`) and an iOS viewer (`src/ios`).
Files are listed and downloaded over HTTP; uploads go in chunks over a
websocket, through the server, to a destination client that writes them to
disk. Most of the program's concurrency is in that upload path, and this project
starts there.

The modules are checked with TLC on small instances; of the worker pool, the
uploader, the receiving buffers, the channel registry, the file explorer and
the scanners the main safety properties are also proved for every value of
their constants with TLAPS.

## 1. Inventory

### Server, `src/server`

| part | state | operations | hard because |
| --- | --- | --- | --- |
| Worker pool (`core/worker.go`, `core/transfer.go`) | four workers, a queue of 32 each, round-robin index, WaitGroup | NewWorkerPool, Start, Dispatch, the worker loop, WaitForAllChunks, close and delete | dispatch outside the lock, closing under senders, counting chunks that are lost |
| Transfer handler (`core/transfer.go`) | `WorkerPools` by task, `uploaderMap` | join, upload-start, upload-complete | a goroutine per completion, pools that appear and vanish while blobs arrive |
| Client connection (`core/client.go`) | `Incoming`, `Outgoing`, `Disconnected`, `closeOnce` | reader, processor, writer, ClientClose | text and binary messages take different ways; three goroutines and foreign senders against ClientClose |
| Channels (`core/channel.go`) | `ChannelManager.Channels`, each channel's `Clients` | get, create, add, remove, send, broadcast | check-then-act across locks, ids of different kinds as keys |
| Client manager (`core/client.go:148`) | `Clients`, written by CreateConn and never read | add, remove, get | - |
| Authentication (`api/auth_api.go`, `middleware/auth_mid.go`, `utils/jwt.go`) | two cookies and the tokens in them | sign-up, log-in, check and renew | lifetimes of cookies and tokens that differ |
| Tables (`db/`, `api/devices_api.go`, `api/users_api.go`) | users, devices | insert, select | ignored errors, NULL ids |
| Files API (`api/files_api.go`, `middleware/file_mid.go`) | the file system | upload, list, download, zip | partial writes |
| Disks, public IP, start-up | none | queries, routes | - |
| Queue utility (`utils/queue.go`) | bounded list | enqueue (drops the oldest), dequeue | used by tests only |

### App, `src/app/src`

| part | state | operations | hard because |
| --- | --- | --- | --- |
| Uploader (`lib/files.ts`, `createTransferTask`, `sendFileBlobs`) | per use of the button: the chosen files, the one at hand, the next chunk, the connection taken at the start | choose, open, measure, announce, measure again, read and send | calls that overlap; files, user and connection that change across many awaits |
| Blob buffers (`stores/useBlobBufferStore.ts`) | entry per file name: handle, count, mutex | addBuffer, writeBuffer | asynchronous handlers that write back stale copies of the store |
| Channel store (`stores/useChannelStore.ts`) | task ids per channel | join, create task, handle text and binary messages | order of messages |
| Client and auth stores, log-in and sign-up pages | user, client, connection | checkUser, log-in, sign-up, syncClient | old connections are not closed; answers that cross |
| File explorer (`stores/useFileExplorerStore.ts`, `lib/files.ts`) | path, stacks, listing, selection | navigate, back, forward, fetch, new, delete, rename, upload | listings that come back out of order, check-then-write on the file system |
| Scanners (`features/DiskScanner.tsx`, `DeviceScanner.tsx`) | scan step and disks in a store, disks in localStorage, the dialog's fields | scan, choose, save, submit a device | scans and timers that go on when the page is left; submissions that overlap |
| Views | none | rendering | - |

### How the parts interact

The app sends `join` when its socket opens, and for every file
`upload-start`, the chunks as binary messages, and `upload-complete`. The
connection's reader puts text messages into `Incoming`, where the processor
takes them, and handles binary messages itself: it looks up the channel by
group, the pool by task, and dispatches. Workers look up the channel and the
destination client and put the chunk into its `Outgoing` queue, from which the
destination's writer sends it. The completion goroutine waits for the pool's
WaitGroup, closes the queues, forgets the pool and broadcasts. At the
destination every message starts a handler in the app.

### What makes each part correct

* Pool: a chunk is handled at most once; completion is announced once, after
  as many chunks as declared; no send on a closed worker queue and no negative
  counter as long as no more chunks come than declared; an accepted completion
  is announced; workers leave.
* Uploader: a task is announced once, its chunks go in order over the
  connection it began on, none after its end; no more of them than announced
  unless the file changes; what was started ends unless its own file or
  connection fails.
* Upload path: every chunk sent is accounted for, as lost where it may be lost
  or as delivered; completion arrives after the last chunk; no worker queue is
  closed under a sender; no queue stays blocked.
* Connection: closed once; requests handled in order; a closed client left in
  no channel that it can leave; every goroutine ends; nobody sends to a closed
  queue.
* Channels: connections of a group meet in one channel; who was told so is a
  member; who left is not.
* Blob buffers: a file is closed when it is complete; no chunk is stuck.
* File explorer: what is shown is what there is, where the user is; back and
  forward undo each other; an operation meets the file that was chosen, a rename
  goes where the typed path leads from that file, and no file is lost that
  nobody gave up.
* Scanners: saved disks stay saved; a scan leads on to its results; the dialog
  tells the truth about the device submitted last.
* Session: the user who is shown is the one whose cookies are sent; a session
  ends however often it is renewed; a connection that is open has joined; the
  app gets to know its user or to the log-in page.

The hazards, each at its line with the properties that cover it, are listed in
`PROJECT.json`.

## 2. The modules

| module | models | state and actions |
| --- | --- | --- |
| `UploadPromise` | what a pool promises a task | `handled`, `announced`; a chunk is handled, the completion announced |
| `WorkerPool` | `core/worker.go` and the pool's life in `core/transfer.go` | one action per critical section or channel operation: `AddWorkerPool`, `Start`, `GetWorkerPool`, `PickWorker` (under the lock), `Offer` (the select), `Take`, `Finish`, `Exit`, `UploadComplete`, `WaitForAllChunks`, `CloseQueues`, `DeleteWorkerPool`, `BroadcastComplete`; and the environment's `ClientHangsUp`, after which a worker (`SendToClosed`), the answer to a message (`AnswerToClosed`) or the broadcast may meet a closed `Outgoing` |
| `WorkerPoolProofs` | theorems about `WorkerPool` | |
| `UploadProtocol` | what a task of the uploader puts on the wire | the messages sent so far; start, a chunk, the last chunk, completion, and that the file changes |
| `Uploader` | `handleFileUpload`, `buildFile`, `createTransferTask`, `sendFileBlobs` | one action per answer of a file operation: `OpenFile`, `Measure`, `Remeasure`, `Read`, `Fail`; and what happens meanwhile: `Resize`, `SyncClient`, `SignedOut`, `Opens`, `Closes` |
| `UploaderProofs` | theorems about `Uploader` | |
| `TransferServer` | one upload end to end, from the messages `UploadProtocol` lets through | instantiates `WorkerPool` and joins each of its actions with the reader, the processor, a worker or the completion goroutine, the wire and the destination's queue; `AnswerJoin` puts the answer to the destination's join there, too |
| `TransferServerProofs` | theorems about `TransferServer` | |
| `ClientConn` | one connection's goroutines and ClientClose | every statement of ClientClose is a step; `closeOnce`, the channel's lock, a worker and a broadcast as senders; `idIsGroup` says whether the group of the client is the id the server gave it |
| `ChannelRegistry`, `MCChannelRegistry` | `ChannelManager` and `Channel.Clients` with many connections | lookup, creation, joining; lookup and removal on close |
| `ChannelRegistryProofs` | theorems about `ChannelRegistry` | |
| `BrowserHistory` | what back and forward promise | a trail of places and a position on it |
| `FileExplorer`, `MCFileExplorer` | path, stacks, listings, selection and file operations of the app; the listing of the server | the tree is a function from paths to contents; `fetches`, `creations`, `deletions` and `renames` are what waits at an await; each handler goes from one await to the next in one action |
| `FileExplorerProofs` | theorems about `FileExplorer` | |
| `AppSession` | log-in and sign-up, cookies, tokens and the middleware; checkUser, syncClient and the redirects of the app | a request is sent, answered (`Handle`), received (`Receive`: the browser stores the cookies) and finished (`FinishCheck`, `FinishLogin`, `FinishScan`: the code after the awaits) |
| `SessionProofs` | theorems about `ClientConn` and about `AppSession`, the two ends of a session | |
| `BlobBuffer`, `MCBlobBuffer` | the receiving app | a chunk handler goes from one await to the next; between two awaits it is one step |
| `BlobBufferProofs` | theorems about `BlobBuffer` | |
| `Scanners` | the disk and device pages, their stores, `AddDevice` of the server | a scan is asked for, answered (`DisksListed`) and over when its timer goes off (`DiskTimer`); a submission is sent (`Submit`), served (`Serve`) or lost, and taken up (`Added`); pages are left, come back to and reloaded |
| `ScannersProofs` | theorems about `Scanners` | |

Names follow the source. A definition introduced by "Fault:" is not part of
the specification: it is the mistake that the definition after it avoids, and
serves to see that the properties would notice it.

### Abstractions

* A blob is a number; its payload, names and times are left out. A destination
  with room in its queue and one without are told apart, because `SendToClient`
  tells them apart.
* A Go channel is a sequence with a capacity; `Outgoing` is a number in
  `ClientConn`, where only its filling level matters. A send to a closed
  channel and a negative WaitGroup panic, and a panic ends the process: `panic`
  is recorded and no action of the server is enabled after it.
* `WorkerPool` lets blobs come from any number of readers at any time, more
  than declared and before the pool exists. `TransferServer` has the one reader
  the app's uploads have.
* Closing the four worker queues is one step: a sender that meets a queue not
  closed yet could have met it just before the first was closed.
* In `Uploader` a call runs undisturbed between two awaits, so a step is what it
  does when a file operation returns. Files are sizes in chunks; what is read is
  left out. File handles are never closed by the code and are left out; the
  upload of a folder reads directories, sends nothing and has no effect. Files
  may change size at any time, connections open, close and be replaced, the user
  sign out: `NumEvents` bounds how often. `sent`, `via`, `changed` and `failed`
  record what has been done, and `via` is also the connection that
  `sendFileBlobs` keeps in a variable of its own.
* `UploadProtocol` has one task; `Uploader` implements it once for every task.
  `TransferServer` starts from what it lets through: any beginning of an upload
  whose chunks are as many as declared, or fewer or more if the file has changed
  (`Upload`, `cut`).
* `WorkerPool` lets any client hang up at any time: from then on a worker that
  has found the destination, the answer to a message and the broadcast may each
  meet an `Outgoing` that ClientClose has closed, and the server goes down
  (`panic` is then "client_closed", `worker.go:42`, `transfer.go:119`, `:162`).
  It does not follow who is in the channel when; that is the matter of
  `ClientConn`.
* `TransferServer` keeps both connections up (its `hungUp` stays FALSE) and
  follows one task.
* In `ClientConn` a client may or may not have its group for an id. The server
  gives every client the same id (`conn_api.go:29`), keeps it in the channel of
  the group its requests name (`channel.go:48`) and looks for it, when it
  closes, in the channel of its id (`client.go:142`). For the user with that id
  the two are the same; for every other the removal finds no channel
  (`channel.go:79`), so the closed client stays. `idIsGroup` is chosen at the
  start. `ChannelRegistry` has both kinds of users, too. There, closing the two
  queues and storing `Disconnected` is one step, and the only messages are
  answers to joins.
* `UploadComplete` comes once per task: the app sends it once, and task ids are
  fresh.
* In `BlobBuffer` adding an entry and going on in `writeBuffer` up to its mutex
  is one step: what separates them are resolved promises, and these run before
  the next result of a file operation is delivered. A seek and the write that
  follows it are one step, for the mutex belongs to the handle.

* In `FileExplorer` a path is a sequence of names; sizes, file ids and the
  layout are left out, and a listing is its set of paths. The app's own file
  operations and the server's listings meet the same tree, as the app takes for
  granted. Files that arriving uploads write into that tree
  (`useBlobBufferStore.ts:30`) are not modelled: a listing that is on the screen
  does not show them until the next one is asked for, whatever the explorer
  does, and what such a file would overwrite is not counted among the losses.
  A file operation and the code after its await are one step: what could come
  between commutes with it. An operation may fail for reasons of its own, but a
  removal that fails half way removes nothing, and the server answers.
  `NewNames` stands for "New file", "New file (1)" and so on. The confirmation
  is not taken to be modal, for it is not on every platform; the prompt of
  Rename is.
* What is typed into that prompt may be any path (`TypedPaths`): some steps up,
  then some names, joined to the current path without a check
  (`lib/files.ts:213-219`). A text that is nothing but steps up is left out, for
  it names a directory that is there and the rename fails.
* A click on something outside of the right-click menu closes the menu and
  clears the selection before it does what it is meant for (`useClickOutside`
  listens in the capture phase); `ClickOutside` is therefore part of those
  actions. `LeaveHome` has a second way without a click: the check of the log-in
  fails and `App` redirects (`App.tsx:23-29`). The menu goes with the page, the
  selection stays in its store; the history variable `kept` says so. Going
  elsewhere with the keyboard alone is left out.
* `MountWith` has the effects of the home page in their order: `useLastPath`
  of `FileExplorer.tsx` stores the path and the stacks, then `HomeView` reads
  them back. Nothing older is found, so local storage needs no variable; a
  reload starts from `/` with empty stacks, which counts as a new history. The
  empty string is not told apart from `/`, so the branch for it
  (`MyHomelib.tsx:53-56`) is left out.
* In `AppSession` a token is a user and an expiry; signatures are left out, for
  all tokens come from the server. The clock ticks between any two steps. The
  lifetimes of an hour, 30 and 365 days count by their order: access before
  refresh before a remembered cookie. `createClient` copies the user's id into
  the client and its group. An older connection is kept only as `opening`: all
  that it still does is to join, with the current one. Of the browser's history
  only the pages visited since the last load are kept. The request of
  the sign-up page goes to `import.meta.env.API_URL`, which Vite does not define,
  and so comes to where the app was loaded from instead of the server: it may
  succeed or fail there, and nobody is signed up. What the list of devices says is left out,
  but not the request, which renews the access token. The names of the
  specification (`SessionInit`, `SessionNext`, `SessionSpec`, `SessionTypeOK`)
  are its own, so that `SessionProofs` can extend it together with `ClientConn`.
* In `Scanners` disks are told apart, their sizes left out. The step of the disk
  page is in a store and outlives the page, that of the device page does not
  (`useDiskStore.ts`, `Device.tsx`). What a scan of devices finds is stored and
  never read, and left out. The address of a device is there or it is not.
* The variables `astray`, `kept`, `unlisted`, `crossed`, `saved` and `quiet`, the
  fields `late`, `since` and `text` and the field `here` of `FileExplorer` record the past for
  the properties; no guard reads them. (`here` of `Scanners` is state: a page
  that was left does not take up an answer.)

### Fairness

Goroutines that can run do run: weak fairness for every step of the server's
own goroutines. Nothing is assumed of a client: no message has to be sent, no
destination has to join or to take its messages, no socket has to break. In `ClientConn` the two
exclusive acquisitions of the channel's lock are strongly fair, because a
`sync.RWMutex` lets no new reader in while a writer waits. In `BlobBuffer`
every file operation returns or fails, and likewise in `Uploader`, where nothing
is assumed of the files, the user and the connections. In `Scanners` a scan is
answered or given up by the browser, and a timer that was set goes off; nothing
is assumed of submissions. In `AppSession` a request is answered or
given up, and an answer that has come is read; nothing is assumed of the user,
the clock or the connections.

## 3. The runs

| run | instance | what it shows |
| --- | --- | --- |
| `worker_pool` | 2 workers, queues of 1, 3 chunks declared, 4 blobs, clients that hang up at any time | the invariant that is proved below; the pool's own queues and counter bring the server down only on more chunks than declared (a client that hangs up can at any time); the announcement is exact; the pool implements `UploadPromise`; an accepted completion is announced unless a chunk is missing; workers leave |
| `worker_pool_drop` | 2 workers, 4 chunks declared and sent | finding: a chunk dropped at a full queue blocks the completion for ever |
| `uploader` | 2 files of 0 to 2 chunks, 2 uses of the button, 2 files chosen in all, 2 connections, 2 events meanwhile | every task keeps `UploadProtocol`, each call's loop is in step with the wire, and what was started is completed unless its own file or connection fails |
| `transfer_server` | 2 workers, queues of 1, 4 chunks declared, uploads of 0 to 5 chunks cut short anywhere, `Incoming` of 1, `Outgoing` of 2 | every chunk is accounted for, completion arrives last, everything settles |
| `client_conn` | 3 requests, queues of 1, the group of the client its id or another | closing from both sides, out of the channel of its id and of no other, handling of queued requests, end of all goroutines |
| `conn_broadcast` | the same | finding: a broadcast sends on a queue that ClientClose has closed |
| `channel_registry` | 3 connections with one client id, 2 users, 2 joins each | who is found in which channel, whatever closes meanwhile; a group that has settled on a channel keeps it |
| `channel_replaced` | the same | finding: "channel already exists" is never answered; a second channel replaces the first |
| `file_explorer` | two directories with a file each, any three of the user's clicks and the server's messages, two listings under way | the listing asked for last is true and of the current directory, with the two exceptions named there; a rename goes where the typed path leads from the file's own directory, unless the file was chosen from a stale listing or after a disk was selected; contents are lost only on request or in the race of a new file for its name; the stacks implement `BrowserHistory` |
| `blob_buffer` | a file of 3 chunks and one of 1, under two names or one, any operation failing | counts err on the low side only; a file that is closed is complete; no chunk is stuck |
| `app_session` | 2 users, lives of 1, 2 and 3 ticks, a clock to 3, 2 requests under way, any three acts of the user | the user shown is the one logged in unless an answer from before the last log-in comes after it; renewal does not keep a session for ever; an open connection has joined for the current client, whichever opened first; the app settles |
| `scanners` | 2 disks, 2 devices, 2 scans of disks and 2 submissions under way, 8 acts of the user | saved disks stay saved, scans lead on, the dialog tells the truth |

Why these bounds: with one more blob than declared, a surplus meets every stage
of the pool's life; with two workers and queues of one, there are a full queue,
an empty one and an idle worker at the same time; 0 to 5 blobs where 4 are
declared contain an upload that is cut short, a complete one and one too long,
and there are chunks lost early, at a full worker queue and at a full `Outgoing`
in the same behaviour. Capacities of one
make every queue both full and empty within a few steps; 256 and 32 behave the
same later. Three requests give a join and two more behind it, one in
`Incoming` and one in the reader's hands when the connection ends. Three
connections are the two that race and one that finds the result, or that
removes a registration of one of them. Three chunks are the first, one that
finds the file being opened, and a last. The runs stop when nothing is left to do (all requests
sent, all chunks arrived), so deadlock checking is off; that nobody is stuck is
what the liveness properties say.

`file_explorer` has any three starts, of which three moves give a visit, a step
back and one forward; a move and two operations let operations of two
directories overlap; two listings under way can cross. What can be typed is `../new` and `sub/new`, of
which the first leads out of a directory (and is a name alone in the root), the
second into one, and both to a name a new file gets. A redirect to the log-in
page is one of the three. The tree has a file in the root, a directory and a
file of the same name in it.

`uploader` has two uses of the button with a file each, or one with two, which
are an overlap and a sequence; a file of two chunks has a first, a last and,
when it grows from none or one, a chunk too many; two connections are the one an
upload began on and the current one; of two events one can change a file and the
other replace or close a connection, or one can follow the other. The proofs
below have no such bounds. `scanners` needs six acts to scan, save and come back
to the page while an older timer runs, and four to submit two devices; eight let
them meet with a reload.

`app_session` has an access token that expires on the next tick, a refresh token
that outlives it, and a remembered cookie that outlives its token; three ticks
see all of them go. Two requests are the least that can cross (a check and a
log-in, or two log-ins of different users), and three acts are a load, a log-in
and another log-in or visit.

## 4. The findings

Each is a disagreement between the program and a comment, message or error text
in it, shown by the run named:

1. `worker.go:99` (`worker_pool_drop`): a dropped chunk is not marked done;
   `worker.go:32` marks chunks done "to avoid deadlock".
2. `client.go:139` (`conn_broadcast`): queues are closed before the client counts
   as disconnected, and a broadcast panics.
3. `channel.go:31` (`channel_replaced`): the test for an existing channel uses
   the wrong key, and a second channel replaces the first.

Limits of the code that show in the models without a run of their own:

* Blobs read before their pool is published are lost (`client.go:125`), and the
  completion of such an upload waits for ever; `ChunksAccountedFor` counts them,
  and `UploadSettles` excepts them.
* A connection whose user does not have the id of `conn_api.go:29` stays in its
  channel when it closes (`client.go:142`, `channel.go:79`). Broadcasts skip it,
  but the next chunk sent to it meets a closed queue and brings the server down
  (`channel.go:182`): the exception of `TeardownIsFinal`.
* Any client that hangs up at the wrong moment does the same, with an honest
  count of chunks: while a worker sends to it (`worker.go:42`), before its answer
  is sent (`transfer.go:119`) or during the broadcast (`transfer.go:162`).
  `CrashOnlyOnSurplus` speaks of the other panics only.
* A chunk lost at a full `Outgoing` counts as done (`channel.go:184`), so a
  completion can be announced without it.
* A read that fails at the uploader ends its task without a word to the server
  (`lib/files.ts:42`), whose pool and workers wait for good.
* A file that grows between its two measurements has more chunks than declared
  (`useBlobBufferStore.ts:90`), which brings the server down.
* The test for an open file (`useChannelStore.ts:173`) is stale after the await
  that opens it, so a file can be opened again; and files of different tasks go
  by the name of their directory (`lib/files.ts:38`). `BlobBuffer` has both.
* A file selected when the app redirects to the log-in page stays selected, with
  no menu open, and the next deletion deletes it, too (`App.tsx:23-29`): the
  premise `kept` of `OneSelected`.
* A file that comes from the listing of another directory, or is chosen after a
  disk was selected, is moved by Rename even when a mere name is typed
  (`lib/files.ts:219`): the exception of `RenamesFromItsDirectory`.
* A scan of disks that was left unanswered brings the full list back when its
  answer comes after the user has saved some (`DiskScanner.tsx:66`): the premise
  `quiet` of `SavedStaySaved`.
* The app reads `id` from the answer to a log-in, which has `userID`
  (`Login.tsx:42`), so the client made then has no id and no group until the app
  is loaded again.

Where such a limit is an exception or a premise of a property, the property does
not catch it; the hazards in `PROJECT.json` say for which that is so, and there
the model shows the behaviour but no run objects to it.

## 5. What is proved

`WorkerPoolProofs` has, for every number of workers, queue capacity, declared
count and number of blobs (`PoolAssumption` asks only that they are naturals,
and workers and capacity not zero):

* `Inductive`: `Spec => []IInv`.
* `TypeCorrect`, `NoCrashWithinCount`, `ExactAnnouncement`: the type invariant,
  `CrashOnlyOnSurplus` and `AnnouncedExactly`.
* `PoolKeepsPromise`: every step of the pool is a step of `UploadPromise` or
  leaves it unchanged.
* `NoDeadlockUnlessMissing`: the safety half of `CompletesUnlessChunkMissing`.
  When no goroutine of the server can go on (`CanGoOn`, which spells out the
  guards of the actions under weak fairness), an announced task has no worker
  left, and a completer that still waits does so because a blob was dropped at a
  full queue, missed the pool, or never came (`StuckOnlyIfMissing`). It needs the
  converse of `QueueHolds` and `JobHolds`: a blob whose stage is "queued" is in
  its worker's queue, and one that is "busy" is its worker's job (`Placed`).

The safety properties are not inductive. What makes them so is an account of
where every blob is: a queue holds blobs of stage "queued" whose target is its
worker, each once (`QueueHolds`); a busy worker's blob is "busy" (`JobHolds`);
so a worker that finishes adds a new blob to those handled, and the WaitGroup
is the declared count less the blobs handled (`Accounting`). The queues are
closed exactly from `CloseQueues` on, and only once the count is used up
(`ClosingAfterWait`). `PanicCause` records what a panic implies. A negative
counter then means that more blobs were handled than declared; a send on a
closed worker queue means that as many were handled as declared and one more is
in a reader's hands. Both are more than `TotalChunks` blobs received, which is
`CrashOnlyOnSurplus`. The third kind of panic, a client's closed `Outgoing`,
implies nothing about the count, and the theorem claims nothing of it. The
argument for each action is a lemma of its own, by the
part of the pool it belongs to (`ControlStep`, `HangUpStep`, `LookupStep`, `OfferStep`,
`TakeStep`, `FinishStep`, `ExitStep`).

`ChannelRegistryProofs` has, for any connections, ids and numbers of requests:

* `TypeCorrect`: the type invariant, with every channel of the map kept under
  the group it was made for.
* `SettledStaysSettled`: `SettledForGood`, from the types alone: only
  `CreateChannel` writes the map, and it needs a lookup in vain.
* `ToldIsFoundAlways`: `ToldIsFound`. Its inductive form adds where joined
  channels come from: a channel that was made has some channel in the map under
  its group (`MadeIsKept`), and a processor about to join has a channel of its
  own group (`JoinsOwnGroup`), so a channel that is not in the map is one of
  two of its group. That finitely many were made lets them be counted.
* `NoneIsLeftBehind`: `NoneLeftBehind`. Its inductive form (`LeaveInv`) says
  that whoever is found under an id in the channel with that id can still leave
  it (`CanLeave`): it has not looked for its channel yet, or it has found this
  one. A channel is empty when it is put into the map (`EmptyWhenMade`), and a
  connection is put only under its own id (`KeptUnderId`).

`FileExplorerProofs` has, for any tree, places and names, and any number of
operations and listings under way:

* `LastListingIsTrue`: `LastAskedIsTrue`. Its inductive form adds that the
  listing asked for last is right as soon as it is read (`ReadIsTrue`), and
  that numbers only grow: every operation that changes the tree asks for a
  listing in the same step, so one read before is not the last any more.
* `LastListingIsWhereItIs`: `ShowsWhereItIs`, from the same fact about the
  listings still under way (`AskedWhereItIs`).
* `OneIsSelected` and `RenameStartsAtItsDirectory`: `OneSelected` and
  `RenamesFromItsDirectory`, from what the open menu is about (`Chosen`): its
  file is one of the current directory unless the listing was an old one or a
  disk has been selected since, and every way to go elsewhere closes it, by a
  click that clears the selection or by a redirect that leaves one behind
  (`RedirectIsChosen`). That needs listings to have files of their own directory
  only (`FilesOfItsPath`).
* `TypeCorrect`: `TypeOK`. It is not inductive by itself. That what is in the
  tree lies in a directory needs all directories above to be there (`Rooted`),
  which every operation keeps: a removal and a rename take a whole subtree, a
  rename does not go below itself, and a file is written into a directory that
  is there.
  That a number is left for every operation under way needs there to be no more
  of them than gestures, counted by cardinalities (`OperationTypes`).
* `NothingElseIsLost`: `OnlyByRequest`. A new file overwrites another only if
  that one came between choice and use; so the proof needs that a creation whose
  name is taken knows it is late (`CreationTypes`).
* `ImplementsBrowserHistory`: `KeepsHistory`, the refinement of `BrowserHistory`:
  on the back stack, the current path and the reversed forward stack as one
  trail, each step is a step of the history or leaves it (`TrailMoves`).

`TransferServerProofs` has, for any number of workers, queue capacities, declared
and sent chunks (`UploadAssumption`):

* `TypeCorrect`: `TypeOK`.
* `PathImplementsPool`: the composed path implements `WorkerPool`. Every step of
  the path is a step of the pool or does not touch it (`StepOfPool`), so what
  holds of the pool with its most general environment holds of the real one.
* `QueuesStayOpen`: `NeverSendOnClosedQueue`. It needs that nothing follows
  upload-complete on the wire (`OnWire`), that the reader has at most one chunk
  in hand (`InHand`), and that the processor's queue holds upload-complete only
  when both are empty (`Ends`); so no reader is left when the queues are closed.
* `ChunksAreAccountedFor`: `ChunksAccountedFor`. A chunk that finds no pool comes
  before `UploadStart` has published it, since the pool is removed only after
  everything was read (`Life`). A worker's queue and its job hold the chunks
  picked for it in rising order (`Held`), so the one finished is the least.
  What counts as sent is in the outgoing queue or was received (`Outbox`).
* `CompletionComesLast`: `CompleteArrivesLast`. With an honest count the wait
  ends with every chunk that was read handled (`SettledStep`, by cardinalities),
  and nothing is read after that, so nobody sends any more
  (`QuietAfterAnnounce`): the announcement is the last message (`Finale`).

`UploaderProofs` has, for any files and sizes, and any number of calls,
connections and events:

* `LoopsInStep`: `UInv`. Its inductive form adds the types of the messages on
  the wire (`Wired`), and that a task's connection was open when the task began,
  so that it is open or closed now and does not open any more (`Connected`):
  without it a task could have skipped chunks over a connection still opening.
  For every call (`CallInv`) nothing is at hand before files are chosen.
* `KeepsProtocol`: `ProtocolSpec`, the refinement of `UploadProtocol` by every
  task. From `InStep`, the chunk read next is the one after those sent, the last
  one read is the last one declared, and only a changed file is an exception;
  messages discarded because the connection has closed are stutters.

`BlobBufferProofs` has, for any tasks, sizes and ways to name them, with as many
handlers as there are chunks:

* `TypeCorrect`: `TypeOK`.
* `CountsStaySafe`: `CountsAreSafe`. Counts are low because every copy of the
  store is low, the one in the store and those each handler took before its
  mutex (`Low`), and a handler that counts has just written through the handle it
  counts for (`Writes`). The mutex is a queue in which whoever waits is found and
  whoever closes is first (`Queues`). A file with a name of its own that counts
  its last chunk has then all of them, for so many different chunks of it have
  been written (`LastIsLast`, by cardinalities); so it is complete before it is
  closed, and no handler of it can be left (`Complete`).

`ScannersProofs` has, for any disks and devices, and any number of scans,
submissions and acts:

* `TypeCorrect`: `TypeOK`.
* `SavedStay`: `SavedStaySaved`, which needs that since the disks were saved no
  scan is unanswered and the step is not the one that starts a scan when the page
  comes up (`DisksInv`).
* `DialogIsTrue`: `AnswersAreTrue`, which needs that submissions are made in the
  order of their numbers (`InOrder`).

`SessionProofs` has, for any number of requests and any capacities of the two
queues of `ClientConn`:

* `TypeCorrect`: `TypeOK`. A reader that pushes has read something, so this
  needs the numbers of the requests (`Numbered`).
* `RequestsInOrder`: `HandledInOrder`. The requests handled are 1, 2 and so on,
  those in `Incoming` follow, and the one in the reader's hands comes next
  (`Numbered`); a processor leaves only an empty queue that is closed
  (`ExitedAtTheEnd`).
* `LeftOrKept`: `LeavesChannelOfItsId`. Only one goroutine is past `closeOnce`
  (`OneCloses`), and what it has closed follows from where it is
  (`ClosedSoFar`). A join that is handled after the removal has an answer to
  give on the closed `Outgoing` (`JoinedTooLate`), which the server does not
  survive. Under another group nothing takes the client out of the channel its
  first handled join has put it in (`InFromTheJoin`).
* `TeardownStays`: `TeardownIsFinal`, from the same invariant: only a worker
  finds the client after the end, and only in the channel of another group than
  its id.

and for any users, lives of tokens and cookies, and bounds of `AppSession`:

* `SessionTypeCorrect`: `SessionTypeOK`. The requests under way are well-formed
  (`Sound`) and within their bound, by cardinalities; a number is left for the
  next (`NumberLeft`).
* `SessionsEnd`: `SessionEnds`. A refresh token never lives longer than its own
  life from the log-in on (`RefreshEnds`), for only a log-in makes one
  (`AnswerFits`); a valid one makes an access token that lives an access life
  more at most (`AccessEnds`). Requests and answers carry tokens, so both are
  kept for the tokens of every request, too.
* `ShowsWhoIsLoggedIn`: `ShownIsLoggedIn`. It is about cookies and the user; its
  inductive form (`OneLogIn`) names one log-in, a user and a time, that the
  cookies, the tokens of every request that is not late, what it is answered and
  the user shown are of (`AsOne`). The user may differ only while a log-in has
  been received and not been read (`LogInPending`). The cookies of a log-in
  begin a new one and make every other request late; `crossed` stays false only
  as long as no late request sets a cookie or is read.
* `OpenHasJoined`: `CurrentHasJoined`, which needs that the id the app has is
  the user's or none (`UserInv`) and that `checkUser` always synchronises the
  client (`Arrives`).

The steps of `AppSession` are first sorted by what they do (`AnyStep`): to load
or to arrive at a page, to send a request, to have it answered or its answer
dropped, to open or close a connection, a tick of the clock.

The assumptions of the constants say no more than what they stand for.
`ExplorerAssumption` has a first tree whose files lie in directories, and
`SessionAssumption` has lives that are not zero, room for one request, and a
`None` that is not a user, a token, a cookie, a client or a connection.

Every safety property and every refinement that a run checks is proved. Only
model-checked is liveness (`CompletesUnlessChunkMissing`, `UploadSettles`,
`GoroutinesEnd`, `EveryChunkSettles`, `AppSettles`, `StartedIsCompleted`,
`ScanLeadsOn`): it needs fairness and ENABLED, which the prover does not handle.
The findings are violations, which TLC shows.

## 6. What is not modelled, and the plan

In this order:

1. Proofs: the safety half of what must eventually happen, namely that whoever
   waits is waiting for somebody who can go on, as `WorkerPoolProofs` has it, for
   `ClientConn` and `Uploader`.
2. `FilesApi`: the upload that replaces a file in place, the download and the
   zip, which walk a tree that changes.
3. `BoundedQueue`: `utils/queue.go` against a sequence of its last elements.
4. A connection that closes in the middle of an upload, as one composition of
   `ClientConn` and `TransferServer`: `UploadProtocol` covers what it means for
   the messages, not for the destination's goroutines.

The number of runs is kept small. Runs of new modules take the place of the
runs of the smaller findings.

Left out for good: generated protobuf code, `utils/channels/transfer.ts` (not
imported), views, start-up and routes, the stateless queries of disks and of
the public address, the iOS viewer (the file explorer's hazards again),
`ClientManager` beyond its one write, `ChannelAddClient` and
`ChannelRemoveAllClients` (no caller that runs), `uploaderMap` (never read).
