# Specifications of the zir code base

`src/` collects several programs that share little code. This directory holds
TLA+ models of those that have logic worth model checking, what TLC and TLAPS
say about them, and the plan for the rest. `PROJECT.json` lists components,
runs, mutants, the source lines each definition stands for, the hazards, the
findings and the theorems.

## 1. Inventory

### Schedule daemon (`hermes/Hermes/Schedule/Daemon`)

| | |
|---|---|
| state | shared memory segment with a thread counter (`_INDEX_THREADS`), a slot table (`_INDEX_SLOTS`) and user data (`_INDEX_DATA`); one System V semaphore; the daemon process and its forked workers |
| operations | `_prerun`, the loop of `handle` (reap, wait for a slot, request it, `getNext`, fork or give the slot back), `run` and clean-up in the worker, `_postrun` |
| interaction | daemon and workers meet only in the segment, at the semaphore and through `pcntl_wait` |
| hard | every interleaving of daemon and workers; workers that die; the daemon killed and restarted while workers run; the `continue` that skips a `lock()` |
| correct when | no slot has two holders, at most `max_threads` jobs run, counter and table agree, a waiting daemon gets a slot |

`Example.php` is a user of it with a shared counter, `Logger.php` one that runs
a Spread subscriber for ever.

### dropr (`hermes/message/dropr`)

A store-and-forward message queue over HTTP.

| | |
|---|---|
| client state | spool directories `in/`, `proc/`, `sent/`; an IPC queue with at most 5 wake-up tokens; in the queue process the batch, the request under way, a blacklist of peers, a message count |
| client operations | `putMessage` (save, rename, notify), the loop of `client_queue.php` (scan, send per peer, rename what was taken, sleep), `droprd` that starts it again, `wipeSentMessages` |
| server state | directories `proc/`, `done/`; one PHP process per request |
| server operations | `handle` and `put` per message, `getMessages`, `setProcessed` |
| interaction | one HTTP request at a time per queue process, answered with an `inqueue` flag per message; a request that timed out is still handled |
| hard | programs that save at once; death at any point; answers that are lost; the same message in two requests; a consumer that moves files under the handlers; dead peers |
| correct when | no saved message is lost, `sent/` implies stored at the peer, duplicates only where a request was given up, live peers are not starved by dead ones, no wake-up is missed |

### Scripts of the pages (`toast`, `timepicker`, `qgantt`, `couchcms`)

Most of the repository's own and shipped code runs in a browser: one thread,
but with timers, answers and handlers that come back into code which is not
finished with what it was doing.

| component | state | hard | correct when |
|---|---|---|---|
| MooTools effects (`Fx.*`, `Chain`, `Accordion`) | timer, from, to, now, chain, calls delayed by 10 ms | a delayed `onComplete` after a new start; `set` while it runs | every start is answered once, links are called once and in order, what ran to its end is where it should be |
| MooTools requests (`XHR`, `Ajax`, `Json.Remote`) | transport, running, chain | `abort` and `send` from within handlers; an answer that is no JSON | one answer for each request, in order |
| MooTools dragging (`Drag.Base`, `Drag.Move`, `Slider`, `Sortables`) | listeners of the document, limits, what is under the mouse, ghost | press, move and release in any order, a release nobody hears | nothing is left attached, each `over` has its `leave`, the list is a permutation |
| MooTools plugins (`Tips`, `Group`) | one timer; who has fired | elements inside each other; several handlers | the box shows the tip under the mouse; the group waits for all |
| light box | step, preloaded image, four effects, overlay | closing and opening while effects and loads are under way | exactly one thing takes the next step; a closed box hears nothing |
| slides, image menu | intervals; effects in parallel | buttons, handles and ticks mixed | one interval, one gallery |
| Dojo `connect`, `subscribe` | listeners by index, dispatches under way | listeners that connect, disconnect and fire | a dispatch calls what was connected when it began |
| Dojo `Deferred`, `xhr` | chains, paused Deferreds, list of requests, one interval | handlers that send and cancel in the loop; timeouts | every request ends once, no handler twice |
| Dojo `_Animation` | timer, counter of the runner, repeat | repeats, delayed plays, listeners of `onEnd` that play, pause and stop, the list of the runner copied for a turn | the shared interval runs while one needs it |
| Dojo loader | modules, addresses, load and unload handlers | cycles, exceptions, handlers added meanwhile | handlers once and in order, files once for an address |
| Dojo `query` | cached places of nodes | nodes that move; two ways to answer | the answer is what the selector means |
| Gantt chart (`jsgantt.js`) | task list, calendar, rows shown, lines | folding, redrawing, invalid dates | rows, spans, columns and lines follow the tasks |
| chart menu (`dtree.js`) | open nodes, cookies, selection | reloads, `openTo`, ids given twice | the page shows what is open and remembers it |
| trumpet page | place, level, circle, list, requests | answers out of order, incomplete placemarks | circle, field and list belong together |

They meet in few places: the light box, the slides, the image menu and the
accordion are built on `Fx` (`MooBase` holds what they share), the trumpet page
on Dojo. One page never runs two of the programs above, so they are checked
side by side and not composed any further.

### Leecher (`ng/leecher`)

| | |
|---|---|
| state | a table of items, one for each url (which is unique), with `type` (`paging`, `content`, `got`, `sent`), `parent`, `title` and `content`; no transactions, no locks |
| operations | four cron jobs: `worker.php` for `list`, `paging` and `content` reads up to 5 items and has `leech.php` fetch each, which posts what it parsed to `save.php`; `uploader.php` posts articles of which all pages are there |
| interaction | through the table only; cron starts a job every minute, whether the last one has ended or not |
| hard | jobs that overlap, also with themselves; pages inserted one by one; two counts that are to be one; updates that ask for the url or the title only; answers that are lost |
| correct when | articles are posted whole and once, and what is `sent` was posted |

### PID-file daemon (`hermes/daemon/Daemon.class.php`)

A base class for daemons: a PID file that is read, and the process in it probed,
before a start; written by the child after its `fork()`; unlinked when a child
ends. Hard: starts at once, starts that fail halfway, kills, process ids that
are used again, the file unlinked by one who has not written it. Correct when one
daemon runs and the file names it.

### Others

| component | state and operations | hard part | status |
|---|---|---|---|
| Hermes message bus, logger (`hermes/Hermes`) | one call of the Spread group service for each operation | `reconnect` joins no channel, but only a publisher calls it | left out |
| SOCKS5 proxy (`ng/proxy65/proxy65`) | pending, waiting and active streams by hash | two connections and an activation in any order | by other authors, left out |
| session store (`hermes/distribute/phpdsm`) | session records with expiry on several hosts | inverted tests of the expiry | by another author, left out |
| Gantt model (`qgantt/model.py`) | tickets read for a request | none over time | left out |
| old schedule daemon (`hermes/daemon/mtd`) | as the schedule daemon | the same | a copy of it |
| proxysocket, RPC socket server, process threads | one connection, one loop | little | left out |
| ketama, memcached, memcachedb, memcache, MogileFS, Spread bindings, S3 | | | third-party |
| chart objects, CouchDB client, saved search page, packed libraries | no state over time, or a third party's | | left out |
| templates, couch views, generated docs | presentation | | left out |

## 2. Modules

| module | models | proved about in |
|---|---|---|
| `SlotPool` | what a slot table promises, without lock, counter or processes | |
| `ScheduleDaemon` | one life of `handle()` | `ScheduleDaemonProofs` |
| `ScheduleRestart` | extends it: the daemon is killed and started again | `ScheduleDaemonProofs` |
| `ScheduleExample` | extends it: `getNext` and `run` of the example | `ScheduleExampleProofs` |
| `DroprClient` | putting programs, spool, queue process | `DroprClientProofs` |
| `DroprServer` | upload handlers, spool, consumer | `DroprServerProofs` |
| `Delivery` | what dropr promises, without files and processes | |
| `Dropr` | client and server composed through requests and answers | `DroprProofs` |
| `MooBase` | timer, delayed calls and chain of a MooTools effect | `WidgetProofs`, `PageProofs` |
| `MooFx` | `Fx.Style`, `Styles`, `Elements`, `Scroll`, `Slide` | `WidgetProofs`, `PageProofs` |
| `MooAccordion`, `MooTips`, `MooGroup` | the plugins | `WidgetProofs`, `PageProofs` |
| `MooAjax` | requests | `WidgetProofs`, `PageProofs` |
| `MooDrag` | dragging, slider and sortable lists | `WidgetProofs`, `PageProofs` |
| `Lightbox` | the light box over `MooBase` | `PageProofs` |
| `NoobSlide`, `ImageMenu` | the other widgets over `MooBase` | `WidgetProofs`, `PageProofs` |
| `DojoFx` | animations of Dojo | `PageProofs` |
| `DojoConnect` | events and topics of Dojo | `WidgetProofs`, `PageProofs` |
| `DojoXhr`, `DojoLoader`, `DojoQuery` | the other parts of Dojo | |
| `JsGantt`, `DTree` | chart and menu | |
| `Trumpet` | trumpet page | `PageProofs` |
| `Leecher` | the cron jobs over the table of items | `LeecherProofs`, `PageProofs` |
| `PidDaemon` | starts, stops and kills over the PID file | `PageProofs` |
| `MC...` | instances for TLC | |

Definitions whose comment starts with "Faulty" are mutations of the definition
that follows: `PROJECT.json` names for each checked property one that breaks
it. No specification uses them.

### Schedule daemon

`mutex` is the semaphore, `threads` and `slots` the two shared variables,
`table` and `count` the copies that each process takes of them, `mpc` and
`wpc[w]` say where daemon and workers are. Each read and each write of shared
memory is a step of its own, although it happens under the lock, so that the
lock is checked and not assumed: `requestSlot()`, `releaseSlot()`,
`incThreads()` and `decThreads()` are a `shm_get_var` into the copy and a
`shm_put_var` of it changed. Two of them without the lock would lose an update.
`unlock()` is part of the step of the last access before it, `lock()` a step.
`Workers` are process ids; an id is used again after its process was collected.

* `MainRecheck` is the `continue` of line 175: the loop condition is evaluated
  without the lock. If the table is still full, `unlock()` fails and the daemon
  exits; if not, the request runs unlocked (`MainCountUnlocked`). The second
  happens only when an orphan of an earlier life gives its unit back.
* `WorkerCrash` is a fatal error or a signal. The kernel undoes a held
  semaphore (System V semaphores of PHP use SEM_UNDO); slot and unit stay lost.
* `MainPostrun` removes segment and semaphore while workers run. They are in
  `gone` from then on: their next `lock()` or `unlock()` fails (`WorkerFails`).
* `ScheduleRestart!Restart` is guarded by a free semaphore. What `sem_get()`
  makes of a semaphore that an orphan holds at this moment is not modelled.
* `getNext` and `run` may take the lock (`MainHookLock`, `WorkerHookLock`).
  `ScheduleExample` conjoins to exactly these steps what the example does in
  them; that it is a schedule daemon follows from this shape and is not listed
  as a result.

Left out: the semaphores for "main" and "children", which nothing calls;
debugger output; `idle_sleep_time`; the value of a job.

### dropr

Directories are functions from file names to messages. A name is a tuple
(priority, time stamp, peer): the encoding is left out, the order of
`scandir()` is kept (`Before`). Saving is split at `fopen`, `rename`,
`msg_stat_queue` and `msg_send`, the last two of which no lock holds together;
sending at the request, its answer and each rename. `racing` is history: the
most programs that ever were between check and `msg_send`. The IPC queue passes
its limit by one less than these (`CTypeOK`). `black` has a
value `"due"` for an entry whose time is over and that the next scan drops.

The handlers of `DroprServer` are split at the two `file_exists()` and the
`rename()` of `put()`, which is where requests and the consumer can come in
between. In `Dropr` the handler goes on when the client gives up
(`RequestFails`) or is killed, and its answer is a `LateAnswer`. `got`,
`abandoned`, `overlap`, `confirmed` and `processed` are history variables.

Assumptions of the model, each named in the constants or at the action:
priorities have one digit (`scandir()` sorts text); messages go out whole
(`fwrite()` is not checked by the code); `ClockRaces = FALSE` excludes a program
that is suspended between reading the clock and opening the file for so long
that another one saves under the same microsecond. Run `client_clock` shows
what happens without the last one. There is one consumer.

### Scripts of the pages

Each of these modules has one record variable with two letters for its name,
whose fields are the fields of the script's objects, and one action for each
thing that can come from outside: a click, a timer, an answer, a call of the
page. A handler is one action as it is one turn of the event loop, with all it
calls. Where the code calls back into the page in the middle of a handler
(`MooAjax`, `DojoXhr`, `DojoConnect`, `DojoFx`, `DojoLoader`), a stack of frames
holds what is left to do, and each call of a handler, a listener or a script is a
step. So are the calls of a group's listeners (`GrListener`), between which
nothing else comes.

* `MooAjax`: `aj.stack` holds the calls of `send()`, `cancel()` and
  `onStateChange()` whose handlers run. A handler may send, cancel and chain, at
  any depth, in `onRequest` and `onCancel` too; a `send()` whose transport is not
  open any more when its `onRequest` handlers return throws (`AjThrow`), and an
  answer that is no JSON throws in `Json.evaluate` before any handler of the
  page. `nested` and `broken` record which requests these two can lose.
* `DojoFx`: `turn` is the part of the runner's copied list that this tick of the
  interval has still to call, `ends` the `_cycle()` calls whose `onEnd` listeners
  run. The listeners may play, pause, stop and set any animation; what is left of
  such a `_cycle()` (`DfEndOver`) is the `_stopTimer()` behind `onEnd`.

* Time is the order of events. `setTimeout(.., 10)` puts a call into `pend`;
  calls of the same delay keep their order, and an effect that would outlast
  the delay is told from one that would not by `ripe` (`MooBase`).
* Sizes and positions are small numbers with a value "between" for what an
  effect shows on its way.
* `JsGantt` counts days; months are a table of their first days, and the day of
  the week is the remainder by 7. `GnInvalid` is an invalid date, which no
  comparison finds smaller or larger. The button of an open group is `&ndash;`
  from `Draw()` and the byte 0x96 from `folder()`, which `show()` compares; they
  are one text where the browser decodes the script as windows-1252 (`gn.latin`)
  and two where it decodes it as UTF-8. Both kinds of page are behaviours.
* `DojoQuery` starts from the tokens of a selector: `getQueryParts` is modelled on
  tokens and not on characters. `DqMeans` is the definition of what a selector
  means, written from the rules of CSS; it belongs to the property.
* `Trumpet` leaves the map and the geocoder external: a placemark is one of four
  with different parts missing.
* History fields (named as such at each `VARIABLE`) record that an odd case of
  the code happened; a property that makes an exception names the case and the
  comment says which lines cause it.

Left out: colours, transitions, styles, the text of cells and tips, and the
differences between browsers except the three that change control (listeners of
Internet Explorer in `DojoConnect`, its `setTimeout` in `DojoLoader`, XPath in
`DojoQuery`).

### Leecher and PID-file daemon

`Leecher` has one step for each statement of SQL that another job could see the
effect of, and one for each post; parsing and fetching are part of the step that
saves, as they touch nothing shared. `le.jobs` holds the runs cron has started, with
the rows each has read. A `LIMIT` without `ORDER BY` is any choice of that many
rows. A run that dies is one that takes no further step, so that no step is
needed for it; this also covers a page that cannot be fetched. Left out: the
content of pages, channels and rules, titles that break the SQL they are put into
unescaped, and that the shell of cron cuts the address of the list job at its
first `&`, without which no channel reaches it (the model's list job is called as
`worker.php` expects). A page of an article is never listed by itself.

`PidDaemon` has a step for each system call that matters: the look at the file,
`fork()`, `fopen()`, `fputs()`, the unlink. `dm.inode` tells a file from one of the
same name after it was unlinked, as a daemon may write into one that is gone. The
second of `file_exists()` and `unlink()` alone is modelled: the first adds no
behaviour. All starts are root's; another user could not probe the daemon's process.

## 3. Runs

| run | instance | shows |
|---|---|---|
| `daemon` | 2 slots, 3 process ids, 2 crashes; fair | types, `SlotsExclusive`, `MaxConcurrent`, `RequestSucceeds`, `CrashCostsOneSlot`, `Outch1NeedsCrashes`; refines `SlotPool`; `DaemonResumes`, `SlotsRecycled` |
| `daemon_outch1` | the same | finding: Outch1 is reachable |
| `restart` | 2 slots, 4 ids, 2 crashes, 1 kill, 1 restart | `CleanRestart`, `JobsBesideOrphans` |
| `restart_concurrency` | the same kind | finding: more jobs than threads |
| `example` | 2 slots, counting to a limit | `CountsEveryRun`, `OvershootBounded` |
| `client_safety` | 3 messages (2 can collide in name), 2 peers, batch 2, 1 kill, limit of 1 token | `CTypeOK`, `MessagesKept`, `RenamesSucceed`, `NoLostWakeup` |
| `client_live` | the same, one peer never answers, a life of 2 messages, no kill; fair | `EventuallySent` |
| `client_clock` | the same, `ClockRaces` | finding: one identifier for two messages |
| `server` | 2 messages, 2 handlers, 3 requests, consumer with limit 0 or 2 that dies once; fair consumer | `QueuedOnce`, `AckMeansStored`, `ProcessedOncePerArrival`, `ConsumerDrains` |
| `dropr` | 2 messages, 1 in a request, 2 handlers, 2 requests, 1 kill | `SentMeansStored`, `DuplicatesNeedAbandonment`; refines `Delivery` |
| `animation_repeat` | `DojoFx` alone, one call of the page | finding: a repeated animation has lost its interval |
| `pages` | one program of 19, each with its own bounds; see below | `PageFx` and ten more for the scripts of the pages (`PageParts` for the five smallest), `PageLe` for the leecher, `PageDm` for the PID-file daemon |

Why the bounds are enough. Two slots and three ids have a slot waiting, a slot
taken and a worker exiting at once, and two crashes are what makes the daemon
run out of slots. In `restart` four ids let an orphan, the daemon and a full set
of new workers meet, and two crashes let an orphan decrement the counter of a
new daemon that has just given up waiting (`MainCountUnlocked`).
Two handlers are what a race in `put()` needs, three requests allow a retry of
a retry. A batch of two is full with the messages of the dead peer. `MaxKills`,
`MaxRestarts`, `MaxCrashes` and `MaxRequests` bound only what the environment
does. In `dropr` a request carries one message: with two in a request and a kill
there are seven million states, more than a run of minutes checks. Batches that are
refused in part are in `client_safety` and `server`, each half for itself, and the
theorems about `Dropr` hold for every size of a batch.

In `pages`, `page` says which program runs, and the variables of the others stay
empty, so that the state space is the sum of 19 and not their product. Its
bounds: two starts and two links of an effect, so that a delayed call meets a
later start; two openings and two moves of the light box; three requests of
MooTools, two of Dojo (one sends the other); two presses of the mouse; three
listeners and two dispatches inside each other; two animations with one repeat
and three calls of the page or of a listener; one failing fetch and two more scripts; two changes of
a document of six elements, which is what a swap behind a cached place takes;
three clicks on groups nested three deep, under either decoding of the script; three clicks in a menu of eight
nodes; two clicks, three lists and one post. The leecher has five
sites: an article of two pages with two paging jobs or with two uploaders, one of
three pages, which `LIMIT 2` cuts, and two articles of one title, with and
without a comma in the url; two content jobs in each. The daemon is started three
times. There is no deadlock to check in
it (`CHECK_DEADLOCK FALSE`): a page on which nothing is left to happen rests,
as pages do.

Fairness. `ScheduleDaemon!Fairness` assumes that processes run, that the
semaphore is handed to whoever keeps asking, and that the hooks return:
`pcntl_wait`, `sem_acquire` and the scheduler of the kernel give this, and the
daemon's contract asks it of `getNext` and `run`. Strong fairness is needed as
the semaphore may be taken by others in between. `DroprClient!CFairSpec`
assumes that the queue process runs (`droprd` restarts it), that a request ends
(curl times out after 60 s), that time passes, and that a live peer asked again
and again takes the messages at last. `DroprServer!SFairSpec` assumes that the
consumer is run again. Nothing is assumed about handlers, crashes and kills.

`Terminated` in `ScheduleDaemon` is the only end of a behaviour: the daemon and
all workers gone. Deadlock is checked in every run but `pages`, which states no
fairness and no liveness.

### What the runs found

* **Outch1.** `handle()` says of line 173 that it should not happen. It
  does after `max_threads` worker deaths, whatever the time between them, as
  nothing gives a dead worker's unit back; the daemon then exits without
  `_postrun()`. `Outch1NeedsCrashes` shows that fewer deaths are never enough.
* **Restart.** `_prerun()` empties table and counter under the orphans of a
  killed daemon: more than `max_threads` jobs run, an orphan releases a slot of
  its successor, and its `decThreads()` makes the counter too small, so that
  even Outch2 is reachable. When the daemon ended by itself, `_postrun()` has
  removed the segment, and `CleanRestart` shows that slots, requests and counter of
  the next life are right. It does not bound the jobs: workers that outlive a daemon
  which ended by itself run on beside `max_threads` new ones. `JobsBesideOrphans`
  bounds the jobs beside those whose daemon was killed.
* **Identifiers.** `saveMessage()` is exclusive only within `in/`.
* **Repeats.** An animation with `repeat`, which line 7884 of `dojo.js` describes as
  "The number of times to loop the animation", stops moving after its first end: the last
  frame plays it again and calls `_stopTimer()` afterwards. `PageDf` shows that nothing
  but such an end leaves an animation playing without its interval.
* Without a finding, as no document says otherwise: two overlapping requests
  bring a message back after it was processed (why `QueuedOnce` exempts
  `overlap`); a consumer limit of 1 yields nothing (why `ConsumerDrains`
  exempts it); messages that a peer always refuses starve all others once they
  fill a batch (why `Accepts` takes all).

* In the scripts of the pages, the cases that the properties of `pages` name as their
  exceptions. The code goes wrong in them, so no property that holds can catch them;
  what the property shows is that nothing else does. Each is a hazard, in `PROJECT.json`
  with a note or in section 7.
  * The cancel that follows a timeout cancels what the error handler sent and
    returned, and never aborts the request (`dojo.js:7590`).
  * An `onEnd` listener that pauses another animation in the turn whose copied list
    still calls that one does not stop it: `_cycle()` asks only `_active`
    (`dojo.js:8062`).
  * A request sent from a handler of `onSuccess` or `onFailure`, or within another
    `send()`, can be lost (mootools, lines 5154 and 5202), and an answer that is no JSON
    ends the turn without `onComplete`, without the chain, with the transport still
    heard (5632).
  * A load handler that throws silences all later ones (`dojo.js:653`). A module whose
    file threw after its `provide()` counts as loaded (851); no property speaks of it.
  * `nth-child` gives nodes that changed places each other's (`dojo.js:6427`, where the
    comment allows it).
  * A light box opened again, moved or closed by a key while it fades loses its
    listeners or its step (`lightbox.js:224`).
  * A group with two handlers fires early (mootools, line 6935), though 6870 says that it
    "will fire when all of the events of the items of the group are fired".
  * A release outside of the window leaves the listeners of the drag on the document
    (mootools, line 4887).
  * The chart may end a month early (`jsgantt.js:1711`), though the comment at 1705 says
    "Set to last day of current Month". Where the script is not decoded as
    windows-1252, closing and opening a group again leaves rows hidden under open groups
    that were never clicked (1948, 1964).
  * A place without a locality leaves the field and the list of the place before
    (`trumpet.js:113`), and late or lost answers those of an earlier one (76, 156).

* In the programs of the server, exceptions of the same kind. An uploader that counts
  the pages of an article before `save.php` has inserted all of them posts a part,
  and the rest is never uploaded; the same for a page counted twice differently, as
  the two counts are two queries. A content job that ends late makes a `sent` page
  `got` again: an article of one page is uploaded twice, of a longer one the page
  stays `got` for ever and takes its place in the uploader's `LIMIT`. `update()`
  marks every item with the title, another article included. Two starts of the
  PID-file daemon at once both succeed, and the first to end unlinks the other's
  file. Nothing in the repository promises otherwise; without these races
  `LeUploads` and `DmGuarded` hold.

## 4. Proofs

TLAPS proves the following for every value of the constants: any number of slots,
processes, messages, peers, handlers, requests, crashes, kills, clicks and answers.
Every theorem has the form `Spec => []Property`, or `Spec => Abstract` for an
implementation. Each `...Proofs` module begins with its inductive invariant, has one
lemma per action or per part of the invariant, and ends with the theorems.

| module | theorem | states | rests on |
|---|---|---|---|
| `ScheduleDaemonProofs` | `TypeCorrectness` | `TypeOK` | `IInv` |
| | `SlotsAreExclusive` | `SlotsExclusive` | |
| | `RequestsSucceed` | `RequestSucceeds` | |
| | `ConcurrencyBounded` | `MaxConcurrent` | |
| | `CrashesCostOneSlot` | `CrashCostsOneSlot` | `PoolInv` |
| | `Outch1CostsAllSlots` | `Outch1NeedsCrashes` | |
| | `PoolIsImplemented` | `ImplementsPool` (refinement) | |
| | `RestartsAreClean` | `CleanRestart` | `RestartInv` |
| | `OrphansCostOneJob` | `JobsBesideOrphans` | |
| `ScheduleExampleProofs` | `NoUpdateIsLost` | `CountsEveryRun` | `ExampleInv` |
| | `OvershootIsBounded` | `OvershootBounded` | |
| `DroprServerProofs` | `ServerTypeCorrectness` | `STypeOK` | `ServerInv` |
| | `AcksAreStored` | `AckMeansStored` | |
| | `ArrivesOnce` | `QueuedOnce` | |
| | `WorkMatchesArrivals` | `ProcessedOncePerArrival` | |
| `DroprClientProofs` | `ClientTypeCorrectness` | `CTypeOK` | `ClientInv` |
| | `NoWakeupIsLost` | `NoLostWakeup` | |
| | `MessagesAreKept` | `MessagesKept`, without clock races | |
| | `RenamesAlwaysSucceed` | `RenamesSucceed`, without clock races | |
| `DroprProofs` | `SentIsStored` | `SentMeansStored` | `DroprInv` |
| | `DuplicatesArePaidFor` | `DuplicatesNeedAbandonment` | |
| | `DeliveryIsImplemented` | `KeepsPromise` (refinement), without clock races | |
| `PageProofs` | `OneDaemonRuns` | `PageDm` | `DmInv` |
| | `ShoutIsRight` | `PageTp` | `TpInv` |
| | `AnimationsAreSound` | `PageDf` | `DfInv` |
| | `BoxWalks` | `PageLb` | `LbInv` |
| | `ArticlesAreUploaded` | `PageLe` | `LeInv`, of `LeecherProofs` |
| | `EffectsEnd` | `PageFx` | `FxInv`, of `WidgetProofs` |
| | `ListenersAreCalled` | `PageDc` | `DcInv`, of `WidgetProofs` |
| | `RequestsAreAnswered` | `PageAj` | `AjInv`, of `WidgetProofs` |
| | `DragLetsGo` | `PageDr` | `DrInv`, of `WidgetProofs` |
| | `PartsAreSound` | `PageParts` | `NsInv`, `ImInv`, `AcInv`, `TiInv`, `GrInv`, of `WidgetProofs` |

### Assumptions

The named assumptions of the modules, which TLC evaluates in the runs:
`DaemonAssumption`, `ExampleAssumption`, `RestartAssumption`, `ClientAssumption`,
`ServerAssumption` (the directory order compares any two ids), `DroprAssumption`,
and those of the page modules, which say that bounds are numbers; `LeAssumption`
also says what a site is (`LeIsSite`). Every page has the title of its article, as
`update()` takes the title for the article; a further page belongs to one article,
and no list names it; addresses with a paginator have the comma by which
`save_item()` tells them. A site where a list names the middle of an
article, or where its pages are titled one by one, is outside the theorem and outside
the runs. The composition
does not assume the order of names: `DroprProofs` proves `ServerAssumption` for
file names from `ClientAssumption` (`BeforeIsOrder`).

"Without clock races" is the hypothesis `~ClockRaces`, an assumption about the clock
and the scheduler and not a result: a name that has left `in/` is never opened again.
That names are unique then is what the hypothesis says and is not listed as a theorem.
Run `client_clock` shows that `IdentifiesMessage` fails without it. The other runs of the client and of `Dropr` have no clock races.
`CTypeOK`, `NoLostWakeup`, `SentMeansStored` and `DuplicatesNeedAbandonment` are
proved with the races as well.

### The arguments

*Schedule daemon.* That `requestSlot()` finds a slot depends on counter and table
agreeing while processes are between the two updates. `IInv` has six parts:
`Types`; `LockInv` (who is in a critical section holds the semaphore); `SlotInv`
(who possesses a slot does so alone, and it is taken); `CountInv` (the taken slots
are at most the counter, corrected by one while a process has done one update and
not the other); `WaitInv` (a daemon that waits has, when the counter is full, a
reason); and `CopyInv`, that the copy a process has of table or counter is what is in
shared memory, as nobody else writes there while it holds the semaphore. `CopyInv` is
where the lock is needed; over lives `RLockInv` says it again for the daemon, whose
orphans may hold the semaphore of an earlier life. `MaxConcurrent` follows as running workers map one-to-one to taken slots.
The invariant does not say that the table has no other users: workers in `gone`,
cut off when an earlier life removed the segment, may still be there, and
cannot come back. So the same lemmas serve the lives that follow.

`SpentInv` adds the other direction, that a counted unit without a holder is
between `releaseSlot()` and `decThreads()` or was left by a crash. Each step
is described by what it does to the holders of slots (`Changes`); the cost
of crashes and the refinement of `SlotPool` both follow from these effects.

*Restarts.* `CleanInv` says that a daemon that was never killed keeps `PoolInv`;
the step to prove is `Restart`, which finds all old workers in `gone`. `JobsInv` bounds
the workers still to be counted down by the counter plus those inherited from
daemons that were killed: an inherited worker either was never counted by this
daemon or takes away one unit it does not own, and not both.

*Example.* A run between `lock()` and `unlock()` holds the value of `num` in its copy
(`HookInv`), so no update is lost. `LimitInv` counts what is counted, in flight and
decided; that the daemon owns a slot of its own while it decides is what keeps the
sum within the limit and the slots.

*dropr server.* `put()` is safe as it looks into `proc/` before `done/`, the
direction in which the consumer moves files. `OnceInv` says that what a handler has seen of
the directories is still so, for messages no two requests carry; `UsedInv` charges
each round of the consumer to an arrival or a death.

*dropr client.* `MemoryInv` says that what the queue process has in memory is in
`proc/`; `NameInv` ties each file to the step of its program; `UniqueInv`, without
clock races, makes names unique. `CountInv` bounds `$msgCount` across the loop.
`RaceInv` bounds the tokens together with the programs about to send one: each was
below the limit when it looked, and `racing` is how many looked at the same number.
`NoLostWakeup` says that a sleeping process without a token leaves only messages whose
peer is blacklisted, or whose program is about to look at the queue or to send, or died
before it could. Its proof follows the token a program saw when it sent none: that one is
still there, or was taken by a scan that came after the program's rename.

*dropr.* `DroprInv` conjoins the two invariants: every step is one of the client, of the
server or of both (`ServerSteps`), and each half keeps its own. `StoredInv` carries
`AckMeansStored` over the answer to `sent/`. `PaidInv` is what makes duplicates
countable: arrivals of a name, and handlers that may still bring it in, are at
most one more than the requests given up.

*PID file.* While no race has happened there is one start under way or one daemon
whose id the file holds, and the inode a start has opened is the file's
(`DmAlone`, `DmFileInv`).

*Trumpet.* Of the requests under way the one with the highest number carries the
last place (or list) asked for, or else what is shown is it, unless an answer was
overtaken or lost (`TpGeoInv`, `TpLoadsInv`).

*Animations.* `DfInv` says of each animation whether it hangs on the runner, may
still be called in this turn, or is inside the `onEnd` of its last frame, and of the
counter that it is the number of animations on the runner. The hard step is the last
frame: it may play the animation again, fires `onEnd`, whose listeners may do anything to
either animation and end others inside their own end, and stops the timer when they have
returned; so the proof follows a page of which all but one animation is well
(`DfWellBut`), and `DfEnding` carries the frame's unfinished business to `DfEndOver`.

*Light box.* `LbInv` says what `LbWalk` needs: until a race, the box is open and
`LbStepInv` ties each step to the one thing that takes the next (the image that
loads, the effect that runs, or its delayed `nextEffect`) and to what has its final size
by then; or it is closed and fades, has faded, or is gone. A `nextEffect` that was on
its way when the box closed comes before the overlay's end and comes to nothing
(`LbStray`), as the overlay is not ripe while a delayed call waits. The proof needs of
`MooBase` what `start()`, `stop()` and the last frame do to one effect
(`LbStartEffect`, `LbStopEffect`, `LbFinishEffect`).

*Effects.* `FxAnswerInv` counts, for each start, where it is answered: in the log, among
the delayed calls, or by the timer that still runs. `FxPendInv` is the order of the delayed
calls: a link stands behind another call, and the handlers that a scroll and a slide add
right behind the `onComplete` they belong to. So a link that is next has an `onComplete` before it in
the log that no other link has used up, and after a link is taken `onComplete` is next.
`FxChainInv` says that what was taken from the chain is a beginning of what was chained,
and rises from the log through the delayed calls. `FxDoneInv` is about an effect that ran
to its end: while its delayed handler has not come, the wheel may be listened to and
`open` be wrong; `setOpen` reads `now`, which is then what was drawn. The lemmas are one
per method (`FxStopStep`, `FxStartKeeps`, `FxEndStep`, `FxLinkStep`, `FxTakeStep`); counting in
a sequence that grows at one end and is eaten at the other is `FxCountAppend` and
`FxCallGone`.

*Listeners.* `DcOnInv` ties handles to what hangs on the event: a handle is the place of
its listener until it is disconnected, which leaves a hole, so that a place never changes
hands. `DcListInv` says that the list rises from hole to hole; a dispatch copies it, and what
it calls is therefore in order (`DcInOrder`). A disconnect while the dispatch runs changes
the list and not the copy, and the step to prove is that what is due is still what was
connected at the start. `DcKeysInv` counts the handles not yet spoilt. All but the shape of
the list is void once a stale handle was used.

*Requests.* `AjWireInv` says that only the transport in use is heard, with the last
request, so that a late `onreadystatechange` of an aborted one finds nobody; it leaves out
requests in `nested`, whose transport the outer call may reset. `AjAnswerInv` says that all
that was sent before is answered, or in `nested` or `broken`. Completions and links come one
for one with successes (`AjDoneInv`, `AjLinkInv`); while the handlers of a success run there
is one success more than links called for (`AjDue`). The frames of an answer are below
all others (`AjStackInv`), so that what a handler sends is known to be nested. Each method
has a lemma, over the log seen as places of events (`AjMoreAt`, `AjSameAt`).

*Leecher.* `LeRowInv` says of a row that its parent is its article once the paginator
was read, and that the first page gets its parent, and may be fetched, only after all
the others are there. So an uploader that finds the parent set has counted the whole
article (`LeUploadInv`), and one that finds it unset is known as early. `LeOneHolds`
(two uploaders hold one article only if it may be uploaded twice) and `LeOnce` (a page
posted is `sent`, or about to be marked by the uploader that has it) keep posts from
repeating; `LeSentWhole` carries the whole article over to `sent`. The jobs that are
no uploader share one lemma about what writing a single row can disturb
(`LeWritesInv`).

*Dragging.* `DrHoldInv` says, until a release is lost, that the document is listened to
exactly while the button is down, that a list has its ghost then, and that a droppable
was told what `over` says; `DrHeardInv` that the page was told the step the slider has
(`change` at every step, `ended` at rest). `DrPlaceInv` puts the element within limits
that lie around zero, grid included, and is why a slider rests on a step. The list
stays a permutation as each move swaps two neighbours (`DrSwapOrders`). What `start()`,
`check()`, `drag()`, `stop()` and the methods of the slider change is a lemma each.

*Slides.* The interval alive is the one `stop()` would clear (`NsOneInterval`), walks
as was promised (`NsPromised`), and the neighbours are those of the index
(`NsAtItem`).

*Image menu.* `ImThumbs` says of the galleries that the selected one is open or
bound to be by the last effect that runs on it, and that any other one shown is that
which is to be closed, while a call of `nextThumbs()` is outstanding. An effect that
ends (`ImFinishOpens`) or starts (`ImStartOpens`) keeps this as only the last effect on
an element counts.

*Accordion, tips, group.* `AcInv` ties the height each section is bound for to the
active one. `TiInv` ties timer, text and the element under the mouse; that an outermost
element exists (`TiOutermostIn`) is well-foundedness of the numbers. `GrInv` counts
the listeners still to be called.

### What stays with TLC

Liveness (`DaemonResumes`, `SlotsRecycled`, `EventuallySent`, `ConsumerDrains`): the
prover does not handle fairness and ENABLED. `PageDj` and `PageQg` speak of trees and lists
computed by recursive functions, whose values are known to the prover only by induction
over data. `PageXh` has no proof yet: its invariant must follow chains of Deferreds that
wait for each other across a stack of frames. What it says of a cancelled request goes
by who sent it (`by`), which with three requests is more than who returned it.

## 5. Plan

1. `PageXh`.
2. An abstract pipeline that `Leecher` implements when no two jobs overlap.

## 6. Not modelled

* Spread bus and logger of `hermes`: each operation is one call of the group
  service, and the logger's jobs never end.
* `proxy65`, `proxysocket`, the session store: small programs, the first and last by
  other authors. Pairing and activation in `proxy65` would make a module; the
  session store would not, as its `read()` finds expired sessions only.
* `qgantt/model.py` reads tickets for one request and computes.
* Dojo and MooTools beyond what section 1 lists: conversions, element
  extensions, colours, JSON, cookies of forms, NodeList. They compute a value
  and keep no state over time, or hand on to the browser.
* `couch.js`, `FusionCharts.js`, the scripts of the saved search page, packed
  libraries and everything third-party under `hermes`: not this project's logic,
  or one synchronous call without state.
* Templates, style sheets, couch views, generated documentation.

## 7. Further hazards

`PROJECT.json` lists the hazards that most need a model. These were met as well;
those without a property are in the plan, outside of what a model tells apart
(the content of a message, encodings, clock time, places on the page), or cases in
which the code goes wrong and which a property names as its exception.

| at | what | properties |
|---|---|---|
| `Daemon/Abstract.php:175` | `continue' in the inner loop goes back to its condition without the semaphore: the daemon releases what it does not hold or requests a slot unlocked. | `Outch1NeedsCrashes`, `JobsBesideOrphans` |
| `Daemon/Abstract.php:129` | _postrun() removes the segment and the semaphore while workers still run; they must not come back into the next life's variables. | `CleanRestart` |
| `Daemon/Abstract.php:222` | fork() fails with the slot taken and counted; the daemon ends while its workers go on. | `SlotsRecycled`, `CleanRestart` |
| `bin/client_queue.php:58` | $maxMessagesPerSend messages that their peer refuses for ever fill every batch: all lower ones starve and the loop spins without sleeping. | - |
| `bin/client_queue.php:59` | Two dead peers that take 60 s each to time out are due again in turn, as the blacklist lasts 60 s too. | - |
| `Storage/Filesystem.php:63` | fwrite() that writes less is not noticed: a truncated message is moved to proc/ and sent. | - |
| `Storage/Filesystem.php:61` | A peer key whose base64 form contains '/' makes fopen() fail for ever: saveMessage() never returns. | - |
| `Storage/Filesystem.php:83` | scandir() orders names as text: priority 10 comes before 9. | - |
| `Transport/HttpUpload.php:54` | One message of a request fails, the others are queued: the answer must tell them apart. | `AckMeansStored` |
| `Storage/Filesystem.php:94` | $k starts at 2, so that a limit of n yields n - 1 messages, and a limit of 1 none. | `ConsumerDrains` |
| `Adapter/Spread.php:39` | reconnect() opens a new mailbox and joins no channel again: a subscriber waits on nothing. | - |
| `backend/worker.php:16` | Five items that cannot be parsed stay in front of LIMIT 5 for ever and starve the others. | - |
| `backend/cronjob:4` | The address of the list job is not quoted: the shell of cron ends the command at the first `&`, and `channel` and `rule_name` never arrive. | - |
| `qgantt/model.py:50` | The time a ticket was closed is asked for without the ticket: every closed one gets that of the last. | - |
| `static/mootools-release-1.11.js:4335` | Fx.Scroll takes its mousewheel listener off in the delayed onComplete: a scroll that was cancelled keeps it, and the onComplete of an earlier one takes that of a later one off. | `PageFx` |
| `static/mootools-release-1.11.js:6807` | Elements with tips inside each other: entering the inner one starts the outer's tip last, and leaving it for the outer one hides the tip. | `PageParts` |
| `lib/dojo.js:3966` | A listener is disconnected by one that runs before it: the copy still holds it, and in Internet Explorer its entry of the table is gone. | `PageDc` |
| `lib/dojo.js:8109` | All animations share a counter and an interval: one that starts or stops twice must not stop the others' clock. | `PageDf` |
| `JS/dtree.js:451` | openTo() opens nodes and does not set the cookie: a page loaded again has them closed. | `PageQg` |
| `static/mootools-release-1.11.js:4140` | Fx.Styles.set() builds this.css anew from what is set: while an effect of other properties runs, its next frame finds no parser for them. | `PageFx` |
| `static/mootools-release-1.11.js:4463` | Fx.Slide.open is set in the delayed onComplete: hide(), show() or a new start come before it. | `PageFx` |
| `gallery/images.js:12` | A gallery is chosen while the effect that opens the last one runs. | `PageParts` |
| `static/mootools-release-1.11.js:7086` | A click on the toggler of the section that is open does nothing, also when its effect was stopped halfway: it stays so. | `PageParts` |
| `static/mootools-release-1.11.js:7055` | addSection() without a position puts a new section before the last one, as the toggler is in the list already when the list is indexed. | - |
| `static/mootools-release-1.11.js:5231` | abort() may call onreadystatechange before it returns; running must be false by then, or a cancelled request succeeds. | `PageAj` |
| `static/mootools-release-1.11.js:4919` | The grid is applied after the limits: with a lower limit above zero it brings the element below it. | `PageDr` |
| `static/mootools-release-1.11.js:6510` | toPosition() does not take the offset off that toStep() adds: set() puts the knob where dragging would not. | `PageDr` |
| `lib/dojo.js:3728` | The stealth keydown listener is counted: it must go with the last keypress listener and not before. | `PageDc` |
| `lib/dojo.js:7606` | The interval is cleared when the list is empty: a request added while the loop runs must not be left without one. | `PageXh` |
| `lib/dojo.js:2735` | _fire() runs handlers that add handlers, or return a Deferred that has fired: each must be called once. | `PageXh` |
| `lib/dojo.js:7981` | A delayed play is not forgotten by stop() or pause(): it starts the animation later. | `PageDf` |
| `static/mootools-release-1.11.js:5632` | Json.evaluate() throws for a malformed answer in the middle of onComplete: no handler of onComplete, no link of the chain, and the transport is still heard. | `PageAj` |
| `static/mootools-release-1.11.js:5202` | send() fires onCancel before it opens the transport and onRequest before it sends: a handler there that sends or cancels changes the transport under the send() that called it, whose request or its own is lost. | - |
| `lib/dojo.js:851` | A module is known from its provide() on: one whose file threw after that, or is being evaluated in a cycle, is returned as if it were there. | - |
| `lib/dojo.js:8062` | A listener of onEnd pauses another animation in the turn whose copied list of listeners still calls it: _cycle() asks only for _active, draws the frame and may even end the paused animation. | - |
| `lib/dojo.js:6427` | nth-child trusts the place it cached while the number of siblings is the same: nodes that changed places are given each other's. | - |
| `lib/dojo.js:605` | Files are remembered by the address before it is shortened: one file under two prefixes is evaluated twice. | `PageDj` |
| `lib/dojo.js:1589` | A beforeunload event that the user cancels has used up the unload handlers. | `PageDj` |
| `lib/dojo.js:6591` | nth-child(-an+b) and its bounds: off by one, or no bound for b of 0 or less. | `PageDj` |
| `lib/dojo.js:6698` | An id that is not there throws where it stands under a tag, and one outside of the root is found. | `PageDj` |
| `lib/dojo.js:6494` | [a|=v] with a space before the value: the value itself does not match, by XPath any word of it does. | `PageDj` |
| `js/jsgantt.js:726` | A task that depends on one that is not in the list ends DrawDependencies(): the lines of those behind it are missing. | `PageQg` |
| `js/jsgantt.js:1426` | Draw() makes the page anew and with it wipes what the Graphics object believes is drawn. | `PageQg` |
| `js/jsgantt.js:1469` | An invalid date in the first child is neither before nor after any other and becomes that of its group. | `PageQg` |
| `JS/dtree.js:651` | An empty cookie splits into one empty string, which equals the id 0: that node is open when none was. | `PageQg` |
| `JS/dtree.js:491` | closeLevel() must close what is below the folders it closes, and leave those with the same id. | `PageQg` |
| `js/trumpet.js:156` | Answers of load() come out of order: the list is that of an earlier place. | `PageTp` |
| `js/trumpet.js:147` | The answer to a post reads the field anew: it may have been changed since. | `PageTp` |
