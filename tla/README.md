# Behaviours, verified

TLA+ models, TLC runs and TLAPS proofs for *Behaviours* (`src/`): a C++ library that
executes graphs of events and actions (`lib/ab`), an HTTP server that lets a browser
edit, run and watch such a graph (`server`), the JavaScript editor (`server/static/js`)
and a few plugins.

A *behaviour* is a directed graph. Its events (`Start`, `Timeout`, `Alarm`, clicks, Lua
conditions) fire; the executor then follows connections from node to node, runs the action
of each node it enters and picks the next connection by its guard. While it runs, the
threads of the HTTP pool change the very same graph, and everything the executor does is
reported to the browsers through a ring of events. There is almost no locking: two mutexes,
one `volatile` flag and plain fields.

## 1. The system: parts, state, operations

| Part | State it keeps | Operations | Meets | Module |
|---|---|---|---|---|
| Event queue (`circularbuffer.hpp`, `eventqueue.cpp`) | ring of 10 slots, `start_id`, mutex, condition variable | `pushEvent`, `getEvents`, `getJSONStringBlock` | producers: executor and HTTP threads; consumers: requests of the browsers | `CircularBuffer`, `EventQueue`, `EventLog` |
| Browser event loop (`main.js`) | `last_event_id` | `checkEvents`, `processEvents` | long polls the event queue | `EventQueue` |
| Run control (`nodemanager.cpp`, `main.js`) | `running`, `abthread`, button class | run, stop, `exec_behaviour`, `exec_behaviour_thread` | HTTP threads, executor thread, Stop nodes | `RunControl` |
| Behaviour graph (`manager.cpp`, `connection.cpp`) | `nodes`, `activeEvents`, `nodeConnections`, `syncOnNextCycle` | `addNode`, `connect`, `setGuard`, `disconnect`, `deleteNode`, `clear`, load | executor, HTTP threads, Load nodes, Lua | `Graph` |
| Executor (`manager.cpp`) | `running_`, `lastNode`, `pendingNotifications`, its place in the loop | `exec`, `sync`, `notify`, `notifyOne`, `cancel` | graph, queue of notifications, event queue | `Executor` |
| Node API (`nodemanager.cpp`) | none of its own; nodes it looked up by name | create, connect, disconnect, guard, notify, remove, attribute, name, position | graph, executor, page | `Executor` against the executor, `EditorSync` and `Dialog` against the page |
| Timers (`timeout.cpp`, `alarm.cpp`) | start time, interval, repeat counts, list of alarms | `sync`, `check`, `setAttr` | polled and synced by the executor | planned |
| Other node types (`luaevent.cpp`, `luaaction.cpp`, `wait.cpp`, `webservice.cpp`, `start.h`, `load.cpp`, `stop.cpp`) | attributes | `exec`, `check`, `sync` | executor | `Start`, `Load`, `Stop` in `Executor` |
| XML reader and writer | none | load, save | graph, files | `LoadNode`, `LoadLink`, `LoadGuard` in `Executor`; `ListFile`, `WriteFile` and what a refresh reads in `EditorSync`; the rest planned |
| Lua binding, expressions (`lua.cpp`, `lua_helpers.cpp`, `Manager::resolve`) | Lua state, `lastNode` | `check`, `eval`, `resolve` | guards, Lua actions | not modelled |
| Plugins, settings, server process, static files | handles, ini values | load, read, write | everything at start | not modelled |
| Editor's copy of the graph (`behaviour.js`, `node.js`, `connections.js`) | `state`, `connections`, drawn elements, the button | add, delete, connect, disconnect, rename, clear, refresh, `processEvents` | Node API, event queue | `EditorSync` |
| Canvas and tool bars (`canvas.js`) | matrix of the viewpoint, its remembered inverse, dragged node, open bar and its first tool | pan, zoom, reset, view all, drag, scroll, resize | Node API, refresh, download | `Canvas` |
| Start of the page (`node_factory.js`, `main.ready`) | known types, buttons, scripts asked for | requests of types, files, descriptions and scripts; first refresh | static files, refresh | `Startup` |
| Dialog and node forms (`main.js`, `node.js`, `connections.js`, `modules/*.js`) | `#content`, `closeDialog`, the parameters of the nodes | configure, edit, accept, hide, guard, name, new behaviour | Node API, connect and disconnect | `Dialog` |
| Alarm form (`modules/alarm.js`) | its date, and the list of days of the class | configure, change, accept | dialog | `AlarmDate` |
| File browser (`browsefiles.js`, `browsefiles.cpp`) | its path, the listing it shows | chdir, open, accept | load, save | `FileBrowser` |
| Vendored browser code (`extra/`, jQuery, `require.js`), language tables | | | | not modelled |

What is hard in it:

* **No lock on the graph.** An HTTP handler finds its nodes by name, then acts; between the
  two steps, and between any two steps of the executor, other handlers run. A chain stands on
  a node that may be removed under it, on a copy of its connections.
* **One sync flag for many writers.** `syncOnNextCycle` is raised by graph operations, breaks
  the pass over the events, and is cleared by the executor *after* it synced the events.
* **Two flags for "running".** `NodeManager::running` and `Manager::running_` are written by
  different threads at different times; `exec` raises the second one itself.
* **Two-step answers.** A long poll waits in one critical section and reads in another.
* **Chains under a mutex.** Queued notifications are executed while `pendingNotificationsMutex`
  is held, which a notifying request needs.
* **A bounded ring** whose overwritten elements are counted by a second object.
* **A choice in three passes.** `notifyOne` copies the connections of a node, tests their guards,
  counts those without one and draws among them, while requests set guards and disconnect.
* **Saves in two steps.** `writeBehaviour` lists the behaviour and writes the file later, in any
  thread of the pool.
* **Undefined behaviour** in `disconnect(Node)` (an iterator used after `erase`), in the pass over
  `activeEvents` when its event is erased, and a pointer that is not tested in the guard request.

* **A page that never waits.** Each edit is a request of its own; answers come in any order,
  change ids, post the next request, or undo the edit, while the user goes on editing.
* **One dialog for every form.** The form on the screen, the function that will close it and the
  node that reads it are three things that are set at different times.
* **A matrix and its inverse**, kept apart through gestures that interrupt each other.
* **Start by counting.** Three rounds of requests and scripts that register what they define
  later than they are loaded; nothing handles a failure.

What makes each part correct is in `PROJECT.json` under `hazards`, line by line, with the
property that would notice.

## 2. The modules

### EventQueue (with CircularBuffer and EventLog)

`CircularBuffer` is the ring as operators on a record. `EventQueue` has one action per critical
section and per step of the browser: `PushEvent`; `Ask`, `WaitForEvent`, `SpuriousWakeup`,
`GetEvents`, `Process` for a browser; `LoseConnection`, after which the page never polls again
(there is no error callback). `log` is a history variable: everything ever pushed.

`EventLog` is what the queue promises, without ring, mutex or ids: a log; a fetch returns at
some moment a contiguous piece of it that starts at the reader's cursor, or where the newest
*Window* events begin when older ones are gone, and reaches to the end; a reader consumes what
it fetched; a reader may lose its connection. `EventQueue` implements it with `cursor <- last`,
`inbox <- reply` (`ImplementsEventLog`).

### RunControl

The play/stop button, the run and stop requests, the `std::thread` object and the executor
thread. Nothing is locked, so each read or write of a shared variable is a step: testing
`running`, looking at `abthread`, `join` (which may throw, and whose exception is swallowed),
making the thread, storing it (which terminates the process if the old object is joinable).
`Fail` is the `.error` branch of a request that was lost before it was served or answered: the button stays.
A request that fails while it is being served is the same to the page as one whose answer is lost.
The executor goes from the test of `while(running_)` (`looping`) into the body of the loop (`body`) and back
(`EnterBody`, `FinishBody`); a thread in `endless` has a chain that goes round in a circle in its body and
does not come back until an edit or a guard breaks it (`BreakCircle`).
`raced` remembers that two run requests were past the `running` test at once, `cancelled` that
a stop was served with no run request left.

### Graph and Executor

`Graph` has the operations of `Manager` on the graph as operators on a record
`[nodes, active, links, dirty]`. `Executor` is `Manager::exec`: `LoopHead`, `SyncEvents`,
`ClearFlag` (the two halves of `sync`, between which a change is lost), `Check` of one event of
the pass, `BreakForSync`, `EndOfPass`; the chain: `EnterNode`, `ActionThrows`, and the choice of `notifyOne`:
`CopyLinks` (the vector of connections is copied, the connections themselves are shared), `TestGuard` of one
copy after the other, `CountFree` of those without a guard, `PickFree` of the one that was drawn; a Load node:
`LoadNode`, `LoadLink`, `LoadGuard` for each entry of its file, or `NothingToLoad` (the early returns of
`readBehaviour`), or `ActionThrows` half way; the end of the cycle: `LockQueue`, `TakePending`, `UnlockQueue`,
`WakeUp`. The HTTP threads `Create`, or `Find` their nodes and then `ConnectNodes` (which sets the guard of the
request in a step of its own), `DisconnectNodes`, `SetGuardOf`, `PushNotification` or `RemoveNode`. `World`
changes what guards see.

`copied` holds, for each connection of the choice, its guard as it is now (a request that finds the connection in
the graph changes the copy too; once it was dropped from the graph only a handler that still holds it may), and
`seen`, a history: whether it was without a guard, or its guard held or failed, at any time since the copy.
`Documented` is the promise of manager.h:115 over that history: a connection that was one of the right kind *at some
moment of the choice* is followed, and the chain stops only when there was none, or when those without a guard
changed during the choice. That last exception is the code's: between the count and the draw a guard may be
set on a connection that was counted, and the draw then finds nothing although others have no guard.

What is abstracted: a node is its identity (names are not modelled, so a handler's lookup is
membership); a guard is a value that is true or not at any time; a graph operation is one
step. The data races *inside* a graph operation (two threads in one `std::set`) are not modelled; what they
could do is undefined. Where one thread alone meets undefined behaviour the model
takes all outcomes: `RemoveNode` with an incoming connection crashes the process or not, and a pass whose event was
erased goes on, starts over, ends or crashes (`BreakForSync`).
A Load node reads its file once with effect, because node objects are created once (`used`). Both are
bounds on the model, not on the properties.

History variables: `orphaned` (nodes were removed since the chain began), `dangling` (a
connection to a removed node was made, or left by `clear`), `unsynced`, `stale` (the graph
changed since the last sync, in whatever way, and events checked since), `lost` (it changed between the two
halves of a sync, or in a way that leaves the flag down while it was down: a removal, a disconnection, a guard), `started`, `refired`.

### EditorSync

The page and the server, each with its own copy of the behaviour, and the requests between them.
A request (`calls`) is sent, then served in any order (`Serve...`, one action per branch of
`NodeManager::node` and `NodeManager::manager`), then answered in any order (`Created`,
`Removed`, `Linked`, `Renamed`, `Refreshed`, ...), and an answer may post the next one: a node that is
created has its position posted and then the file saved; an arrow the server refused is
disconnected again and again. `Fails` loses a request or its answer. The page's objects keep
their identity, an index, while their `id`, their entry in `state`, their drawing and the label of
the drawing change at different moments, as in the code. The executor visits nodes and tells the page, which
marks them active and refuses to delete them: the events go by a ring of `RingSize` slots (`Push`, `Prints` for the
lines Lua code prints into the same ring), which drops its oldest when it is full, then in the answer to a poll
(`FetchEvents`, `ProcessEvents`); a poll that fails is the last (`PollFails`). A Load node may replace the whole
graph (`LoadBehaviour`). A behaviour that was told to stop goes on until the chain it is in ends (`ExecEnds`).
`ServeRemove` of a node with an incoming connection crashes the process or not, as in `Executor`. A save is two
steps, `ListFile` and `WriteFile`, and a refresh a third, `ReadFile`: saves overtake each other, and a refresh may
be sent a file that another save wrote.

The history variable `crossed` says which kinds of edits overtook each other that the page does
not keep apart (`Clash`, `Reused`, and a refresh of connections whose ends are gone): then the copies do
diverge in the code and the properties say nothing. So does a rename whose prompt is cancelled or left empty, a
refresh that is sent an older file than it wrote, and a Load node. `crossed` also notes an event that the ring
dropped, a rename during a visit, and a removal that was served before a disconnection posted with it.
`unsaved` says that the list that was written last misses a change the code never
saves, or that a newer list had been taken before. Two of these exceptions came out of the proof of `ArrowsAgree`, beyond the sessions the run plays:

* rename, delete, disconnect, connect: a disconnect that was refused is asked for again and again under
  the ids its nodes have by then (`connections.js`), and so may remove a connection that was made anew
  between nodes that got these names;
* clear, add, rename, add, rename, refresh: `Manager::clear` keeps `nodeConnections`, and what a refresh reads
  of them joins whatever nodes have the names of the dead ones.

### Canvas, Startup, Dialog, AlarmDate, FileBrowser, and Page

* `Canvas`. Matrices are the elements of a group that acts on the points, with the translations as
  a normal subgroup: all that pan, zoom and reset use of SVG matrices, so that rounding is not
  modelled. One action per mouse handler, with the posts of `updateServer` on their way. The box that
  `viewAll` computes is any pair of points and any zoom. A node is dragged between `DragStart` and `DragStop`;
  `Drag` leaves the drawing alone on an axis, where the code takes 0 for false. The tool bar
  counts in pixels, as `updateTools` and `toolsScrollL/R` do.
* `Startup`. `updateAvailableNodes` round by round; a script is `loading`, `loaded`, then `ran`, when
  the scripts its own `require` names are there. `preempted` types got a class before their
  description was read, and so no button.
* `Dialog`. A form is its numbered fields; a node that reads another's form finds what has the
  number it looks for. `Reads` tells the three families of `getParams` apart: nodes that read a
  visible dialog, timeouts, that always read, and code nodes, that need their editor. `Blank` is a
  value that is not there; a select without a value for it shows none (jQuery clears its
  selection). `EditForm` includes `realtime_update`, `Accept` whatever `closeDialog` is by then, `ConnectEvent` the
  `acceptConfigure` that turns an event off and on; a timeout's `getParams` knows of that (`Obeys`, timeout.js:118). Posts are numbered per slot; `mixed` are nodes that
  read another's form, `unsent` those changed after their last post, `fresh` those as loaded.
  When a connection to an event tells it to be on or off (`ConnectEvent`) while the form of another is visible, it
  reads that form (`mixed`). For a code event whose editor was never opened this throws (`ConnectThrows`, lua.js:148):
  `changing` is then the `changevalor` that its next Accept obeys whatever its form says. The exception leaves an
  arrow that is drawn and not registered; that arrow is no part of EditorSync.
* `AlarmDate`. Day and month of the alarms, and the one list of days they share. `window` and `whose` are the shared
  dialog as an alarm sees it: its own form, another alarm's, or any other (`OtherForm`). `ConnectAlarm` reads
  whatever is there; `edited`, `strayed` and `misread` are the history.
* `FileBrowser`. Paths as `split('/')` has them, with their empty names; `listing` is what is shown,
  `path` what will be posted, `asking` the listings under way.
* `Page` puts these five together: `part` is chosen at the start and that part moves. The one thing two parts
  share is the dialog, which an alarm reads: `AlarmDate` keeps a picture of it of its own in which every other form
  comes and goes at any time, so nothing is lost by letting one part move. One run and one
  theorem (`PageCorrect`) then speak of the whole page. What the page shares with the server's graph is EditorSync.

## 3. The runs

| Run | Question | Bounds, and why they are enough |
|---|---|---|
| `event_queue` | Does long polling lose, repeat or reorder anything but overwritten events, or leave a browser asleep? | 2 slots, 2 browsers, 2 kinds of event, 5 pushes: each slot is overwritten, `start_id` moves past a waiting request, both indices wrap, two requests wait at once |
| `run_control` | Which executors exist, who joins them, does a stop that is seen end the loop? | 2 requests in flight, 4 clicks: two overlapping runs, a run after a stop with the old thread in any stage, any of them failing, any cycle caught in a circle or freed: 183,873 states |
| `executor` | Is the graph followed as documented while it is edited? | one node of each kind, 2 HTTP threads, 2 of 9 requests, at every point of the cycle, of a choice and of a Load: 1,661,174 states |
| `executor_live` | Does every event, notification, request and cancel get its turn? | two polled events, an acyclic graph with a Load node; one HTTP thread that connects and disconnects one of the events *without end* (`Endless`), so that any pass may be broken for a sync any number of times, and 3 other requests: one thread is enough for a pass that is broken, a notification that waits and a node that goes |
| `editor_sync` | Do page, server and file agree when the answers are in? | two nodes and an arrow, every pair of edits, each edit with a lost request, each with a running executor, a ring of 2 slots, up to 3 steps of what executes (nodes entered, lines printed, a Load), and the longer sessions that bring a connection into a removal or a refresh: 895,598 states |
| `page` | Do the five parts keep their state, drawing and posts together? | matrices modulo 3 (where zooms and shifts do not commute); 3 gestures of the view, or a drag of 4, or 6 of the bar; 4 nodes, one of each family, and 5 steps in the dialog; 2 alarms and a month of each length; two folders in each other; 1 lost post: 365,988 states |
| `lost_stop`, `cyclic_chain`, `event_guards`, `start_twice`, `removal_no_sync`, `canvas_refresh` | where the code departs from its documentation, see below | the smallest instance that shows it |

The invariants and properties:

* `RingHoldsNewest`: ring and `start_id` together are the end of the log, slot by slot.
* `NoSleepOverEvents`: no request is parked over an event its browser has not seen.
* `ReplyMovesForward`: releasing the mutex between wait and read is harmless: no answer is
  empty, none moves the browser back.
* `ImplementsEventLog`, `EveryEventReachesEveryBrowser`: the promise, and that it is kept in time.
* `EveryExecutorOwned`, `OneExecutorUnlessRaced`: executors are joinable; only overlapping run
  requests make a second one or terminate the server. They are conditioned on `raced` because
  the code has this race: two overlapping runs do terminate the server.
* `RunningFlagTruthful`, `StopEndsLoop`: the flag that guards all this says what it should; a
  cancel that comes once exec is in its loop ends it, unless the cycle under way is caught in a circle of
  connections: manager.h:228 makes no such exception, and what the code does then is the finding of `cyclic_chain`.
* `EnteredNodesBelong`: a chain stays inside the graph, with the two exceptions the code has.
* `AtMostOneStaleCheck`: events are synced in time after a change of any kind, unless the flag was being cleared or
  the change left it down. A change that leaves it down is a removal, a disconnection or a guard, against
  manager.h:305: `removal_no_sync`.
* `ActionsChooseAsDocumented`: an action's chain goes where `Manager::notify` documents, whoever edits the
  connections and guards during the choice.
* `EveryEventChecked`: every polled event gets its turn, unless changes break the pass infinitely often (the code
  starts over at the first event then, and does starve the others).
* `EveryNotificationServed`, `NotifyReturns`, `CancelEndsExec`: in an acyclic behaviour.

* `NodesAgree`, `ArrowsAgree`: when nothing is under way the page shows the server's nodes, once
  and under their names, and its connections. `DanglingArrowPending`: an arrow whose node is gone
  has a request under way. `GoneWhenAcknowledged`: nothing leaves the canvas before the server let it go.
* `ServerSurvives`: only edits that overtake each other (or lost ones) crash the process; so may, as the code is, a
  removal that is served before one of the disconnections the page posts beside it (manager.cpp:224).
* `NodesSaved`, `BusyIsExecuting`: the file, and the mark that forbids a deletion, are true, unless saves wrote in
  another order than they listed; an event was dropped, or the page polls no more.
* `RememberedInverse`, `PanFollowsCursor`, `ServerHasCanvas`: matrix, inverse, server; what was
  grabbed stays under the cursor whatever came since the press.
* `HiddenToolsReachable`: no tool is lost behind the end of a bar.
* `EveryTypeHasButton`, `KindBeforeScript`, `PageStarts`: how the page starts.
* `FormReadByOwner`, `ServerHasForms`, `PictureSaysParams`: Accept gives the form to the node it
  was shown for; the server gets it; an event is drawn on or off as its parameter says.
* `AlarmDates`, `ChosenAsShown`: dates that exist; files from the folder that is shown.

Each of these excuses, by a named history variable, what the code really does wrong (the notes
of the hazards say where): an alarm accepted over the list of another or connected while the form of another is shown,
a code event whose connection threw, a viewpoint that was moved and not
posted, a window widened over a scrolled bar, edits that cross.

**Fairness.** Event queue: the page's timer fires, pool threads get the mutex and answers
arrive (weak fairness per step of a browser); nobody has to push, and a connection may break.
Run control: posted requests are served and threads are scheduled; the body of exec's loop returns unless a chain goes
round in a circle, and nobody has to click or to break a circle.
Page: while the page starts, what it asked for is answered, or counted as a failure, and scripts run
(weak fairness of `Browser` as a whole: the requests of a page are finitely many); the user and
failures are not fair. Executor: its thread is scheduled (weak fairness of the cycle as a whole: the order of the
events within a pass is not assumed fair). An HTTP thread is scheduled strongly fairly, for the
mutex a notifying request needs is free for the 200 ms of each cycle's `usleep` and for that
time only. Requests and `World` are not fair.

**Deadlock** is not checked: in each model the system may really stop. Clicks, requests and
events are bounded, a process may crash, an executor ends when cancelled, a user has nothing left to do.

### Where code and documentation differ

1. `lost_stop`: `exec` sets `running_=true` (manager.cpp:288), so a stop served before that is
   forgotten; manager.h:228 says cancel "Stops the execution of the manager."
2. `cyclic_chain`: the chain loop (manager.cpp:343) never tests `running_`; same sentence.
3. `event_guards`: with no guard true, an *event* with some unguarded connection follows its
   first connection whatever its guard; manager.h:116 promises one without a guard.
4. `start_twice`: any edit of a running behaviour fires its Start events again; start.html:3
   says "Event activated just once when the behaviour starts to execute."
5. `removal_no_sync`: `deleteNode` does not raise the flag that, by the comment on
   manager.h:305, every removal raises. (Neither does a disconnection, manager.cpp:183-204, nor `setGuard`.)
6. `canvas_refresh`: loading a behaviour posts the identity viewpoint (behaviour.js:306) and then
   shows the one that was loaded without posting it; main.js:366 says the handler updates the
   "canvas, to be properly sync with server".

## 4. What is proved

All theorems are checked by TLAPS for every value of the constants that satisfies the
named assumptions of the modules (a positive capacity; a first graph that is closed and has at
most one connection between two nodes; a file whose nodes differ and are made by no request; a menu of well-formed requests; names
the server makes up that differ from each other; a group that acts on the points; timeouts that obey a
connection). Every invariant and action property of the passing runs is proved so.

* `EventQueueProofs`. Lemmas on `Discard`, `Add` and `ReadAfter` (arithmetic modulo the
  capacity) give the ring; `RingHoldsNewest` with type correctness is inductive; `NoSleepOverEvents`
  and `ReplyMovesForward` need in addition that a browser's id never exceeds the number of
  events and that a request that left its wait is behind it. `RefinesEventLog` maps each step
  to a step of `EventLog` or a stutter.
* `RunControlProofs`. `EveryExecutorOwned` is not inductive: it needs that a thread number
  belongs to one request, that a request past its join found the old thread ended, and, for the
  parts conditioned on `raced`, that a request inside `exec_behaviour` is alone there and no
  executor older than it is alive.
* `ExecutorProofs`. First the operations of `Graph`: each keeps the shape of a graph and "at most one
  connection between two nodes", and what it does to targets. Then the inductive invariant `IInv`: `TypeOK`; `GraphInv` (the graph is sane;
  nodes that were never created have no connections; requests hold created nodes; the graph is
  closed unless `dangling`); `EnteredNodesBelong`, with the same of the copied connections (`CopiesBelong`), which a
  chain may follow long after they are gone; `SyncInv` (an unsynced change that is not `lost` has its flag up
  and the executor is not between the halves of a sync; at the pass no event was checked stale), which gives
  `AtMostOneStaleCheck`; `PlaceInv` and `FreshInv` (what the executor holds at each place of a choice or of a Load).
  `ActionsChooseAsDocumented` needs `ChoiceInv`, what each pass of the choice has found: no guard of a copy that was
  tested held all the time, and, when no connection got or lost its guard, the count is the number of those
  without one so far, and the draw is among those ahead.
* `CanvasProofs`. For every group, action and normal subgroup of shifts (the named assumptions
  of `Canvas`): during a pan the remembered inverse differs from the inverse by a shift, which is what makes
  `RememberedInverse` and `PanFollowsCursor` inductive; the posts are numbered, and the newest says what the
  page has; a bar's index and arrows agree with the tools and the width (`BarInv`, integer arithmetic).
* `DialogProofs`. `DialogInv`: the shapes of the data; posts of a slot have distinct numbers, up to the
  number sent; what a node has, what its form shows, what is on its way and what the server
  has was typed for it, or told it by a connection (`Typed`); and the newest post of a slot says what the page says (`ParamsSaid`, `NameSaid`,
  `GuardSaid`).
  For `PicturesAreRight`: every change of a node's parameters draws it anew, in one of three ways that agree on the two
  options of an event.
* `PageProofs`. The start: a type has a class only by its description or by a script that ran, and a description that
  was read gave all its types their buttons; `KindBeforeScript` follows from it step by step. The alarms' and the
  browser's invariants. Then the lemma that an invariant of a part holds of the page, which gives `PageCorrect` and
  `PageTyped`.
* `EditorSyncProofs`. One invariant per concern, each proved with those before it, for one lemma per action:
  * `Types`: the types in full, with what each kind of request may hold.
  * `SavedRight`: each save under way has listed once, for a call that waits for it (`Owned`); the list that was taken
    last and is still to be written has the server's names, and so has the file, or a request that will save is under
    way or will be posted by an answer (`Listed`, `Filed`). Gives `NodesSaved`.
  * `NamesRight` (while no edits about nodes crossed): an object is listed under its id and drawn under it, names are
    unique at the server, each request about nodes fits both sides (`Fits`) and any two are about different things
    (`KeptApart`). Gives `GoneWhenAcknowledged`, and is what all that follows rests on.
  * `BusyRight`: a node is active on the page only if it is executing or what the page has not processed (`Unread`, the
    answer on its way and then the ring) ends with its leaving, and so it is after each entering that is unread; a
    node that is being renamed is neither. It holds while the page polls, the ring dropped nothing and no rename fell
    into a visit. Gives `BusyIsExecuting`.
  * `AgreeRight`: a listed node is drawn and lives, or a request that makes, removes or renames it is under way; a node
    that lives is listed or an answer tells of it; only what is gone is refused. Gives `NodesAgree`, with the
    bijection that its cardinalities need.
  * `SurviveRight`: while a connect is under way nothing that moves its ends is; and a process that has died was killed
    by a removal that came before a disconnection of its node. Gives `ServerSurvives`.
  * `DanglingRight`: an arrow's ends are both listed or it is being disconnected; the arrows of a node whose removal
    is asked for are leaving. Gives `DanglingArrowPending`.
* `EditorArrowsProofs`. `LinksRight` gives `ArrowsAgree`. A page object *stands* for a node of the server under its
  id, or under the name of a rename the page was not told of. `Matched`: every arrow has a request under way or
  joins what a connection joins; a connect that was answered did make its connection, a disconnect did remove it;
  every connection between nodes that live has its arrow, or the page will be cleared or read anew; no two arrows, and no
  two connections, have the same ends; a connect is the only request about its arrow. `Told`: a request about an arrow
  names its ends or what is gone, no rename takes one of these names, a node in the making has no arrow, and a
  refresh that was served read what the server still has. `Matched` is not inductive without `Told`: a
  disconnect that is asked for again removes the right connection only because of it.

**Model-checked only:** the liveness properties (`EveryEventReachesEveryBrowser`, `StopEndsLoop`, `EveryEventChecked`,
`EveryNotificationServed`, `NotifyReturns`, `CancelEndsExec`, `PageStarts`: fairness and `ENABLED` are out of the
prover's reach), and the six violations.

## 5. Plan: what is left, in this order

1. `Timers`: `Timeout` and `Alarm` against a clock, `noderepeat`/`nodeon` and what a sync does
   to a running timer; theorem: an interval is never cut short between syncs.
2. `EventToggle`: `addEvent`/`removeEvent` from `setAttr`, the executor and `connect`, composed
   with `Graph`; an event outside `nodes` but in `activeEvents`.
3. `SavedGraph`: save, load, clear and upload; what a file round trip keeps (guards, names,
   connections to nodes that are gone); an abstract specification "load after save is the graph".
4. Composition of `RunControl` with `Executor`.
5. Proofs: `SavedGraph` and the timers as they come, and an abstract specification of `EditorSync` (two copies that
   are equal whenever no request is under way), whose refinement the invariants of section 4 would carry.

**Not modelled, and why:** the Lua interpreter, curl, Python embedding and plugin loading
(foreign code), static files (pure I/O), settings (an ini file), how nodes, forms and messages
are drawn (layout), the Lua console, the texts of the languages. In the dialog: sliders, the
text of code editors, and nodes that were just made on the page, whose parameters are empty until their form
is accepted; in the file browser: the upload behind a file that is opened, which the refresh of
Accept may overtake (main.js:342). A restart of the server under a browser is left out: its
page stops polling when the connection breaks. Between page and server: the exception a connect to a code event whose
form was never opened ends in (the arrow stays drawn and unregistered, and nothing is posted), the radio nodes that
are deleted with their manager, the file that is cut short while it is written and read (a write is one step), and what else
shares the ring of events besides the marks of nodes and Lua's prints.

About two thirds of the JavaScript in the repository is vendored (`codemirror.js`,
`codemirror_python.js` twice, `jquery.svg.js`, jQuery plugins) and is not modelled. Of the editor's own files the map
covers nearly all handlers that change state; what is left of them is markup, drawing and messages.
`main.cpp`'s exit destroys a joinable thread when an executor
runs; it is a single path without interleavings to explore. `Manager::exec`'s removal of
events that reached their repeat limit is dead code: `find(...)<0` on an unsigned value is
never true (manager.cpp:299).

## 6. Running it

`tlc -config MCEventQueue.cfg MCEventQueue` and likewise for each run of `PROJECT.json`;
`tlapm EventQueueProofs.tla` and likewise for the other `*Proofs` modules. The mutants in
`PROJECT.json` are plausible bugs of the code, each with the property that finds it.
