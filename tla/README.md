# Web eID application: TLA+ models, checks and proofs

The Web eID application (`src/`) is started by a browser extension, reads one command
from standard input (get a signing certificate, authenticate, sign), performs it with a
smart card and a dialog, writes one JSON response to standard output and exits. This
directory holds TLA+ models of what is hard to test in it: the threads, the event
handling, the dialog, the language of the dialog, the channel to the browser and the two
halves of the Safari extension. TLC configurations check them on small instances, and
TLAPS proofs show the most important properties of five of these parts for every
instance.

## The system

| Component | Source (`src/src/...`) | State | Operations |
| --- | --- | --- | --- |
| Controller | `controller/controller.cpp` | `window`, `commandHandler`, child threads (as QObject children), `_result` | `run`, `startCommandExecution`, `onCardsAvailable`, `onCertificatesLoaded`, `onConfirmCommandHandler`, `onCommandHandlerConfirmCompleted`, `onRetry`, `onDialogOK`, `onDialogCancel`, `onCriticalFailure`, `finish`, `waitForChildThreads` |
| Child threads | `controller/threads/` | one static mutex and wait condition, the interruption flag of each thread | `run` of the waiting, monitoring, command and confirm thread |
| Command handlers | `controller/command-handlers/` | arguments, signal connections | `run`, `onConfirm`, `connectSignals`, `getPin` |
| Dialog | `ui/webeiddialog.cpp` | `currentCommand`, `pin`, page, visibility and state of the buttons and of the PIN pad progress bar | one slot per signal, OK, Cancel, Try again, select another certificate, reject |
| Application | `app/main.cpp`, `controller/application.cpp` | event loop, translator | `parseArgs`, `loadTranslations`, `requestQuit`, about page |
| Language selection | `ui/languageselect.cpp` | the stored language, the one it was when the selection was opened | click on a language, Select, Cancel, close |
| Translations | `ui/translations/*.ts` | none | ten catalogues of 74 messages |
| Native messaging | `controller/inputoutputmode.cpp`, `writeresponse.cpp` | standard input and output | framed read and write |
| Safari bridge | `mac/` | shared user defaults, pending extension contexts | request and response notifications, start of the app |
| Errors | `controller/retriableerror.hpp` | none | classification of exceptions |
| Logging, installers, card library | | | not modelled, see the end |

How they interact: the main thread runs a Qt event loop and all slots of `Controller`
and of the dialog. A child thread posts its signals to that loop, where they are
delivered in order (also after `thread->disconnect()`; only the deletion of a receiver
drops them). A dialog signal is a direct call. All card work is done in child threads
that hold `controllerChildThreadMutex`; the two polling threads release it for a second
at a time. `onCriticalFailure` shows a modal dialog, an event loop inside the handler,
and goes on when it is closed. A command's arguments are read before there is a dialog;
its `lang` argument and the language selection load a catalogue in the application, and
the dialog hears of that by a posted `LanguageChange` event.

What is hard, and what each part must guarantee:

* **Threads**: exclusive use of the readers; a join that stops children one at a time
  while the others run, without holding the mutex for the wake-up, must be complete and
  must come back; a monitor that is told to stop must be silent.
* **Controller**: signals that were posted before a restart, a cancel or an exit are
  delivered after it; handlers run inside the fatal error dialog; the response must be
  written, once where the user and the cards are quiet, the program must end, a restart
  must not see anything of the last attempt, threads must not outlive the controller.
* **Dialog**: the PIN passes from the main thread to the confirm thread through a field,
  once; the dialog must outlive the thread that has its pointer; pages without a button
  must give way; cards are monitored while the user is asked. Its ten widgets are set by
  many slots, each of them a part: OK must stand for the certificate on the screen, the
  PIN must fit it, the user must be able to leave.
* **Language**: three sources of a language (stored, requested, the system's), and texts
  that are set by slots and again by an event that comes later.
* **Channel**: whatever comes on standard input is answered while somebody is there to
  read it, and nothing but frames goes to the browser.
* **Safari bridge**: a notification reaches only a process that observes it, the start
  and the exit of the app are polled with timeouts, and requests must not mix in the
  app.

`PROJECT.json` lists these hazards at their lines with the properties that cover them.

## Modules

| Module | Models | Depends on |
| --- | --- | --- |
| `JoinBarrier` | What the controller may rely on: threads start only outside a join, end during one, and the join returns when none is left | |
| `ChildThreads` | The four thread kinds, mutex, timed wait, interruption, `waitForChildThreads` step by step | implements `JoinBarrier` |
| `ChildThreads_proofs` | Type correctness, mutual exclusion, refinement of the barrier | extends `ChildThreads` |
| `Session` | One response, then exit: what the browser may expect | |
| `Controller` | Controller, event queue, thread outcomes, dialog as the controller sees it, nested dialogs, exit | implements `Session` in an orderly environment |
| `MCController` | Sets of refused PINs for the instances of `Controller` | extends `Controller` |
| `ControllerSequences_proofs` | Lemmas on lists and on the operators that take signals, threads and connections out of them | extends `Controller` |
| `Controller_proofs` | Types; the dialog and the PIN of a confirm thread, clean restarts; a page without a button is never left alone | extends `ControllerSequences_proofs` |
| `ControllerTurns_proofs` | Whose turn it is in a calm environment: PINs, monitors and certificates are where they are needed | extends `Controller_proofs` |
| `ControllerPages_proofs` | In a calm environment the dialogs of the controller show the pages of `DialogPages`; in an orderly one the program ends with one response and no thread | extends `ControllerTurns_proofs` |
| `SafariBridge` | The handler in the Safari extension, the app's process, shared defaults and notifications | |
| `SafariBridge_proofs` | Types; requests are kept apart in the app, none is lost, failed ones are not served, calm ones all are | extends `SafariBridge` |
| `DialogPages` | The pages of one dialog and which may follow which | |
| `Dialog` | The widgets of `WebEidDialog`, slot by slot and click by click | implements `DialogPages` |
| `MCDialog` | Eight certificates for `Dialog` | extends `Dialog` |
| `Dialog_proofs` | Types; OK, PIN and Cancel of the dialog; refinement of the pages, one PIN at a time | extends `Dialog` |
| `Translations` | The ten catalogues: how many translations each has for each message of the dialog, plural rules | |
| `Language` | Settings, translator, texts of all pages of the dialog, language selection | extends `Translations` |
| `NativeMessaging` | Start of the process, standard input and output, exit code | |
| `Launch` | Runs of the program one after the other | composes `Language` and `NativeMessaging` |
| `Launch_proofs` | Types; language, texts on the screen, plural forms, channel, exit codes | extends `Launch` |

`Controller` is one level below `Launch`, where it is the process in state `serving`:
between the start of a command and its response. It is one level above `Dialog`: both
are shown to follow `DialogPages`, `Dialog` as a refinement of its widgets
(`ShowsPages`), `Controller` for each of its dialogs (`EveryDialogShowsPages`), so that
the pages `Controller` reasons about are those the widgets really show.

### ChildThreads

`pc[t]` is the point a thread has reached: `lock` (QMutexLocker at the start of `run`),
`scan` (a call of the smart card layer), `check` and `recheck` (looks at the
interruption flag), `compare`, `enter` (about to wait), `sleep` (in
`waitForControllerNotify.wait(&mutex, 1s)`, without the mutex), `relock`, `done`.
`mainPc` steps through `waitForChildThreads`: disconnect, `requestInterruption`,
`wakeAll`, `wait`, in any order of children. `interrupted`, `connected` and `owner` are
the flags, the signal connections and the mutex. A look for cards may fail;
`availableSupportedCards` never returns an empty list (the comment in
`waitforcardthread.hpp` says so, and the monitor's first list relies on it). The flag is
set only for running threads, as Qt does.

### Controller

The event queue `queue` holds records with the signal's name, its receiver and its data;
`Deliver` takes the first one that is deliverable (a deferred delete waits for its event
loop level) and performs the whole slot. Thread objects and dialogs are slots of bounded
sets that are used again after deletion. A section of a thread between taking and
releasing the mutex is one step, justified by `OneThreadUsesTheReaders` of
`ChildThreads`: a thread that owns the mutex cannot be disturbed by another thread, and
its signals reach the queue at the end of its step. Only a card operation has a
beginning (`GetPin`) and an end (`Confirm`). A join is `BeginJoin`, then `StopChild` and
`WaitForChild` per child, then `Restart` or `EmitFinished`; the other threads run in
between. `depth` counts the handlers that are suspended in a fatal error dialog,
`quitting` and `pc = "unwind"` model `QCoreApplication::quit()` leaving all loops. A
dialog is its page (`wait`, `alert`, `select`, `pin`, `pinpad`, `busy`, `retry`,
`blocked`), whether its `currentCommand` is still the command (`right`), whether
certificates can be chosen (`choice`) and whether it caches a PIN. Texts and layout are
left out; the version message that precedes the command is not counted as a response.
What is taken out of a list (a deleted receiver's signals, an object, a connection) is
named by the positions that stay (`Part`, `Nth`), which can be reasoned about, unlike
the recursion behind `SelectSeq`.

A PIN that is refused comes with a status and a count of retries (`PinFailures`, a set
of pairs), and the two are looked at separately, as in the code: the handlers'
`onConfirm` decides by the status what the dialog is told (`HandlerSignals`) and by the
count whether the failure is thrown on (`Rethrown`, where `Authenticate` takes an
unknown count for none and `Sign` does not), and `ControllerChildThread::run` by the
status again what becomes of it (`CaughtSignals`). `onVerifyPinFailed` changes the
buttons of the page that is on top and leaves a page that waits as it is
(`PageAfterPinFailure`).

Abstractions to know of: one reader whose card is there or not (several cards are the
outcome `multiple`); a certificate that is expired, not active or blocked is `unusable`;
`quit()` is modelled as in Qt 5, leaving the loops at once (Qt 6 closes the windows
first, which ends in the same place); a status that is already in the queue is not
posted again; the object of a joined thread is inert and its slot is reused. In the
Safari app the controller runs in an event loop of its own that `finished()` ends
directly; `responses` is then what is written to standard output, while the extension
gets the last `_result`.

### SafariBridge

`ext[r]` is how far the extension is with a request: the flag is raised (`launch`), the
app has been launched and the flag is polled (`wait`), the request is posted (`sent`),
its response is held until the app has exited (`forward`). `app` is the app's process:
before its observer is registered (`main`), before it has looked at the flag
(`observing`), with the timer that clears the flag pending (`starting`), in its event
loop (`loop`), showing the about page, or leaving after `quit()`. `messages` and
`starting` are the shared defaults, `toApp` and `toExt` the notifications on their way;
a notification posted while nobody observes it is lost, and so are those to an app that
ends. `serving` is the stack of `notificationEvent` calls, since each runs an event loop
in which the next may arrive. The handler is one object on one thread: its dictionary of
contexts is not protected by a lock. The extension process itself does not fail. The
outcome of the controller is `result`, or `unfinished` when its loop is ended by the
`quit()` of another request.

`calm` is a history variable: it stays true as long as no poll times out that would have
succeeded later, no launch fails, requests do not overlap, and the user neither starts
nor kills the app. Some properties are promised only while it holds.

### Dialog and DialogPages

`ui` is a record with one field per widget or member that decides what the user can do:
the page on top (`stack`), OK (visible, enabled, what its click is connected to and the
certificate that the closure has captured), Cancel, the PIN field and its text, the
validator, whether the progress bar and the link to select another certificate are
hidden, the certificate buttons and the one that is checked, `currentCommand`. Slots are
functions on this record, built from the code's own pieces (`setupOK`, `setupPinPrompt`,
`displayFatalError`, `onRetryImpl`) in the order in which the code calls them; `SetText`
includes what `textChanged` does to OK, `Click` what a disabled button does not.
`isVisible()` depends on the page on top, which `reject()` and `onVerifyPinFailed` rely
on. `working` is the environment: the certificates of the confirm threads that have not
come to an end. A PIN is the rule it fits, a beginning of a PIN, or nothing.

A slot runs whenever its signal arrives, on whatever page, with or without a thread at
work, as in the code. How the signals *should* come is a history: `turn` is `look` while
cards are looked for, `read` while the certificates are read and `ask` once the user is
asked, and `strays` counts the status, waiting, certificate and reading-failed signals
that come out of turn, up to `MaxStrays`. `Controller` shows that they really do
(`PromptIsMonitored` under "Runs"). `OkHasCertificate` and `PinFitsCertificate` hold
whatever comes; `ConfirmsWhatIsShown`, `OnePinAtATime`, `UserCanLeave` and `ShowsPages`
hold until the first stray, and each has a counterexample behind it: a second
certificate signal shows the PIN field again while the first PIN is verified, one of
another kind shows a certificate that the closure behind OK does not stand for, and one
that takes the PIN pad's page away leaves Cancel hidden.

`Page` maps the widgets to the pages of `DialogPages`: `pin` is where OK can be clicked
or a PIN can be typed that enables it, `busy` is after OK.

Left out: focus, sizes and colours. On macOS the Return key clicks OK even when it is
hidden, which is not modelled. After a failure of an external PIN dialog the code shows
the PIN field, set up for nothing (`NoRule`); the model has that page. When the user
goes from a typed PIN to an external PIN dialog the field and the error of the last
certificate stay on the page; `Dialog` keeps them too.

### Translations and Language

A catalogue is a record: the plural rule of its language, and for each message of the
dialog, the certificate widgets and the language selection how many translations it has:
none if it is not finished, when `tr()` returns the source text, one, or one for each
plural form of a message with a number. The wording is left out. `Language` has the
stored language (`setting`), the `lang` argument (`asked`), the catalogue (`loaded`),
where `LanguageChange` is on its way to (`change`), which dialog there is (of a command,
about, fatal) and what its OK button does (`action`), the text each of thirteen labels
displays (`text`, with the language and the plural form) and the one that `setTrText`
has connected to `languageChange()` (`says`). Every slot that sets texts is an action,
on every page and in any order; `Retriable` and `PinFailure` are the tables of
`retriableErrorToTextTitleAndIcon` and `onVerifyPinFailed`. A label has to be right
whether the page shows it or not: which page shows what is the matter of `Dialog`.
`ChangeDialog` is the whole `event()`: `retranslateUi()` first, then the connected
texts. The language button is there in every dialog, also on the about page and the
fatal error page. `MaxSlots` bounds the slots of one dialog. `chosen` and `cancelled`
are history variables.

Left out: `pinTimeRemaining`, which the next frame of its progress bar sets again, and
the macOS menu, which is never translated again.

### NativeMessaging and Launch

`process` is where the program is: `main` (up to the version message), `reading`,
`serving` (a command, which `Controller` models), `fatal` (the fatal error dialog),
`about`, `leaving`, or `off` with an exit code. A message is its announced length,
whether that many bytes come, and what its JSON turns out to be. `output` is what has
arrived at the browser, `stdout` what descriptor 1 is: the browser's pipe (`browser`),
the same pipe after the browser has gone (`gone`), or a broken one. The browser may
close both pipes at any time; writing then ends the process with SIGPIPE, or is an error
that nobody notices (Windows). The help button points descriptor 1 to a pipe while it
opens the web browser, which prints; without descriptors for `pipe()` the noise goes
through, and without one for `dup()` the pipe stays in its place and the response kills
the process (`spoilt` remembers either).

A response is not the last thing that happens: up to `MaxLate` signals that were posted
before `disconnect()` are delivered behind it, or over the fatal error dialog, and write
another result (`LateResponse`), show a fatal error (`LateFailure`) or write one from
under another (`LateFailureOverFatal`), or do nothing. Which of them can meet is
`Controller`'s matter; `ChannelIsClean` therefore says what is written and not how
often. `Launch` lets runs follow each other, so that what one run stores is what the
next one starts with, and joins the argument `lang` to the handler's constructor: an
`origin` that is rejected comes before it, the other arguments after it. Two dialogs are
left out there: the one of another attempt that a card event starts behind the response,
and a second fatal error dialog over the first.

## Runs

| Run | Configuration | Question and bounds |
| --- | --- | --- |
| `child_threads` | `ChildThreads.cfg` | One waiting, one monitoring, one command thread, one card that comes and goes, fair scheduling. Three threads are what can contend: one that is joined, one that holds the mutex, one that waits for it. |
| `adverse` | `Controller_adverse.cfg` | Authentication by keyboard and PIN pad; the user acts at any time, one wrong PIN after another, one card move or failed look, two nested fatal dialogs, four thread objects, two dialogs. |
| `orderly` | `Controller_orderly.cfg` | Fairness; every command but "about", keyboard and PIN pad, every outcome of reading, seven ways to refuse a PIN; the user waits for the queue and does not cancel, the card stays: refinement of `Session`, restarts, waiting pages, the pages of each dialog, no thread at exit. |
| `exit` | `Controller_exit.cfg` | Fairness, cancellations and clicks at any time, keyboard and an external PIN dialog; three nested dialogs. |
| `reselect` | `Controller_inputs.cfg` | Choice of certificates, going back to it at any time, the Safari app: what becomes of a cached PIN. |
| `safari_bridge` | `SafariBridge.cfg` | Fairness, three requests at any time, one crash, any number of starts by the user. Two requests can meet in the app, and the third can meet what they leave behind. |
| `dialog` | `Dialog.cfg` | Every sequence of slots, clicks and typed PINs with eight certificates, one or two of them in the readers, two confirm threads, and one signal out of turn: two rules for the PIN, three ways to enter it, and each reason why a certificate cannot be used. |
| `launch` | `Launch.cfg` | Fairness; any number of runs, all ways to start, a browser that goes away at any time, one signal behind a response. |
| `second_answer`, `unknown_retries`, `empty_pin`, `unmonitored_pin` | `Controller_secondanswer.cfg`, `..._pincount.cfg`, `..._reselect.cfg`, `..._monitor.cfg` | Each ends in a counterexample to what the code or a document says, see below. |

The bounds: `MaxThreads` and `MaxWindows` limit objects that exist at the same time. A
restart has one dialog that waits for its deletion and one that is new; four threads are
a waiting or run thread, a monitor, a confirm thread and one that has been left over.
`MaxQueue` is larger than what they can post between two deliveries in these instances,
`MaxResponses = 2` is enough to see a second response, and `MaxCardMoves` counts card
movements and failed looks for cards. Deadlock checking is off because the program ends
(`pc = "exited"`), and, in `ChildThreads`, threads end. `Dialog` and `Launch` never
stop, and deadlock is checked.

`orderly` refuses PINs in seven ways (`EveryRefusal`): wrong with retries left and with
an unknown count, too short, blocked, cancelled and disabled with none left, and
unknown. Left out are an external PIN dialog, which `exit` has; unknown or wrong without
retries left, which make up no decision that the seven do not have; and cancelled or
disabled with retries left, which are dead ends (see below).

`adverse` does not check `PinForEveryConfirm` and `CertificatesAreExpected`: the first
needs a user who goes back to the choice, or two moves of the card, to break, and the
second three moves, none of which the run has. They are theorems for calm instances, and
`empty_pin` is the counterexample to the first.

`Launch.cfg` has one value of each kind that matters: a system language without a
catalogue (lv), a requested language (et), one that can be clicked on with three plural
forms (cs), and 5 attempts, for which Czech needs the third of them; one command, one
error of reading and one of the PIN, a PIN typed in the dialog, a card whose PIN2 is not
active, which brings the warning that Czech has not finished; two slots that set texts
per dialog, so that one of them can put a text where the other one's was; a message
whose length is just too short and one whose length is just enough; and descriptors that
are there, or two of three. No descriptors at all only adds noise to a channel that the
property then says nothing of. More of each kind multiplies the states and repeats these
cases, as `Best` treats languages and `SetTrText` texts alike; the theorems about
`Launch` are for all of them.

What holds: a dialog is never deleted while a confirm thread has still to take its PIN;
a PIN in a dialog always has a thread on its way to it; a restart starts with no thread
and no connection; unless a PIN is refused in one of the ways that nobody is told of, a
page without a button always has a thread or a signal at work on it, and under fairness
gives way; once there is a response, the program always exits. In an orderly environment
it exits after exactly one response and no thread is left at exit, and each dialog shows
the pages in the order that the widgets know. The last is promised only there: with a
user who clicks while signals are on their way, a stale status or certificate signal can
put a page on top that no dialog by itself would show.

In the dialog OK on the selection page always has a certificate and a PIN fits the
certificate it is for, whatever signals arrive; going back and choosing again does not
change that, and "CertificateButton not found" is not reached from there. As long as the
signals come in turn, OK means the certificate on the screen, with one certificate one
PIN is used at a time, and the user can leave when no thread is at work. A language that
was stored is shown whatever the site asks for, and without one the language it asks
for; cancelling the selection restores what was stored. The screen is in one language
once `LanguageChange` has been handled. A run of the program that ends by itself has
answered, if the browser was there to read it. A second answer may follow
(`SingleResponse` below).

Two limits of the language came up: cancelling the selection loads the system's language
although the site has asked for another (`loadTranslations()` without its argument), so
README.md:152 holds only while `cancelled` is false; and README.md:154 lists five
languages where the code has ten.

In the Safari app requests never mix, none is lost while the app lives, one that was
reported as failed is never carried out, and each is completed; requests that come one
after the other all succeed. Two limits came up while modelling. `OneAtATime` needs
`crashes = 0`: when the app dies right after it has cleared the flag and the user starts
it again at once, a second request within the same moment can clear the flag through the
new app and both are served, one loop inside the other. `IdleAppIsExpected` needs
`calm`: after a failed launch the flag stays set, and an app that has read the flag
before the extension takes it back goes on waiting; both leave an app without a page,
which clears no flag, and each request then fails after ten seconds until it is killed.

What does not hold, with the shortest story TLC finds:

* `SingleResponse`: the user cancels while the waiting thread finds a card. Its
  `cardsAvailable` was posted before the thread was disconnected and is delivered
  between the response and `quit()`; there is no window any more, so a critical failure
  writes a second response. The same happens when a card event and a completed operation
  meet: success is followed by a fatal error.
* `ForeseenIsNotFatal` with an unknown retry count: `Authenticate` takes -1 for a
  blocked PIN, unlike `Sign`, and a fatal error dialog follows the PIN page that asks
  again.
* `PinForEveryConfirm` with reselection: two confirm threads and one PIN. Without
  reselection the story of `PromptIsMonitored` below comes to the same, with two moves
  of the card.
* `PromptIsMonitored` when a stale `cardEvent` is followed by a stale `cardsAvailable`:
  two run threads report the certificate, and the second report shows the PIN page again
  after OK has stopped the monitor.

Two more stories have no run of their own, because no document says what should happen;
each property below holds in the runs and theorems that name their conditions.

* `NoDeadEnd` when a PIN is disabled, or its entry cancelled, with retries left. For a
  disabled PIN both handlers emit `retry`, which only the run thread relays, and that
  has been deleted by then; for a cancelled entry they emit nothing. Since retries are
  left the thread ends without another signal, and the dialog stays on a page that no
  thread is at work for; with a PIN pad the user cannot even cancel. Without retries
  left the failure is thrown on: a disabled PIN is a fatal error, a cancelled entry a
  cancelled command.
* `CertificatesAreExpected` with a card that moves three times: a `cardsAvailable` left
  over from the last attempt starts a run thread, the waiting thread of this attempt
  then fails to see a card and its status sets the dialog's command to `INSERT_CARD`,
  and the certificates that come next find a dialog that does not expect them. The
  dialog reports this as a failure and the command ends in a fatal error.

`ExitsClean` is checked in the orderly environment; with cancellation a run thread that
ends during the join of `finish()` still reports its certificates (the handler's signals
stay connected), and the monitor that this starts is not joined.

## Fairness

`ChildThreads!Fairness`: the main thread goes on with a join, threads run (weak
fairness), the timed wait times out, and the mutex is not withheld for ever from a
thread while others take and release it (strong fairness of `Lock`; the polling threads
release it for up to a second each turn). `Controller!FairSpec` is the same one level
up: weak fairness of the main thread, strong fairness of each thread's step, which
includes that a card operation comes back (the PIN pad has its own timeout). Nothing is
assumed of the user or of the card. `SafariBridge!Fairness`: both processes go on, a
poll that is in vain ends, and a controller finishes (the user answers the dialog, as
`Controller` shows under its own fairness once a response is written).
`Launch!FairSpec`: the program and the browser go on (`Proceed`), and a command that can
end in spite of everything the user does meanwhile does end (strong fairness of
`Answer`, since opening the language selection or the help does not keep a command from
ending); `EveryRunEnds` needs both. `Dialog` has safety properties only and states no
fairness.

## Proofs

`ChildThreads_proofs` proves, for any sets of threads and cards,

* `TypeCorrect`: `Spec => []TypeOK`,
* `MutualExclusion`: `Spec => []OneThreadUsesTheReaders`,
* `ImplementsBarrier`: `Spec => BarrierSafety`, the safety part of `JoinBarrier`: in
  particular, a join that returns has left no thread running.

They rest on one inductive invariant, `Inv == TypeOK /\ LockInv /\ JoinInv`. `LockInv`
says which points of a thread hold the mutex: exactly the owner is at one of them, which
mutual exclusion alone does not say and every step needs. `JoinInv` says what the join
has achieved: while it goes on, a thread that is alive is on the list `todo`, which it
leaves only when it has been waited for. Without it the end of the join knows nothing
about threads it has dealt with before. The only assumptions are the ones declared in
`ChildThreads`: the kinds of threads are disjoint and `NoThread` is none of them.

Out of the prover's reach and left to TLC: liveness under fairness (`BarrierSpec`,
`LostCardNoticed`, the leads-to properties of `Controller`), `ENABLED`, induction over
data, and RECURSIVE operators (none are used).

`Controller_proofs` proves, for any bounds, commands, outcomes and users,

* `TypeCorrect`: `Spec => []TypeOK`,
* `DialogOutlivesConfirm`: `Spec => []WindowOutlivesConfirm`,
* `PinIsTaken`: `Spec => []NoStalePin`,
* `CleanRestart`: `Spec => RestartIsClean`,
* `NobodyWaitsForNothing`: `EveryRefusalIsTold /\ Spec => []NoDeadEnd`.

The assumptions are those of `Controller`: `Bounds`, `Switches` and `Inputs`. The
inductive invariant `Inv` has, besides the types,

* `SignalsAreAddressed`: the receiver of a signal in the queue exists, so that the slot
  of an object that was deleted and made again never gets a signal of the old one;
* `ThreadsAreKept`, `WindowsAreLive`: outside a join a thread keeps its connections, and
  the dialogs that are shown or connected to exist;
* `StartIsFresh`: before the command has been read there is nothing;
* `JoinWaitsForAll`: during a join no dialog is shown, and every child that exists is on
  the list or the one that is waited for; `RestartIsClean` is this at the end of the
  list;
* `ConfirmHasDialog`: the core of `WindowOutlivesConfirm`. While a confirm thread has
  still to call `getPin()`, a deferred delete of its dialog that is in the queue waits
  for an event loop that is suspended, or a join is going on. The property alone is not
  inductive, since it does not say why a delete in the queue will not be delivered next;
* `RestartIsDue`: a join that leads to a restart finds the connections cut;
* `PinIsWanted`: as `NoStalePin`, and a PIN or its page is there only for a command that
  has one;
* `WindowIsConnected`: the command handler reports to the dialog that is shown before it
  can have anything to report, and run threads relay its `retry`.

`EveryRefusalIsTold` says that `PinFailures` has no pair of which nobody is told: a PIN
that is disabled or whose entry is cancelled with retries left (`Silent`). It is a
hypothesis because the code does not ensure it, as told under "Runs". `NoDeadEnd` rests
on `WaitIsDue`, which names what will end the wait: a thread that is at work (`AtWork`),
a signal whose slot changes the page (`Telling`), or the handler's own `retry`
(`RetryIsDue`). Only for the last does the order in the queue matter: it is relayed by
the object of the run thread, and is lost when the deferred delete of this object is
delivered first. `FirstRetry` says that it never is. `ControllerSequences_proofs` has
the lemmas on lists that all of this needs.

What else the runs check of `Controller` does not hold of every instance, and is proved
for those that are *calm*:

    Unhurried == "hasty" \notin UserActs /\ "pinpad" \notin PinModes
    Calm == "reselect" \notin UserActs /\ (MaxCardMoves = 0 \/ Unhurried)

The user does not go back to the choice of a certificate and, if the cards move at all,
uses the keyboard and acts only when the events before have been delivered. Nothing is
assumed of commands, outcomes, cancelling and trying again, of the number of dialogs,
threads and signals, or of Safari. `Calm` is a hypothesis of the theorems and not an
assumption of `Controller`, because the code does not ensure it: `empty_pin` shows what
happens when the user goes back to the choice, `unmonitored_pin` when a click overtakes
a card event, and with a PIN pad nothing comes between the prompt and the confirm
thread, so that a card event may be left in the queue behind them. `orderly` checks an
instance with cards that stay; cards that move up to three times were tried with TLC
before the proofs.

`ControllerTurns_proofs` proves for calm instances

* `EveryConfirmHasItsPin`: `Calm /\ Spec => []PinForEveryConfirm`,
* `EveryPromptIsMonitored`: `Calm /\ Spec => []PromptIsMonitored`,
* `EveryCertificateIsExpected`: `Calm /\ Spec => []CertificatesAreExpected`, which no
  run checks,

all from `TakingTurns`, `Calm /\ Spec => []Turns`. None of the three can be proved
alone: each depends on what else may be in the queue when a page is shown. `Turns` says

* `OneTurn`: a command is with one thread, or with one signal, or with the user;
* `Wiring`: the command handler is connected to one dialog and one thread, and to
  nothing left of an attempt before;
* `SteadyCard`, `OneWatch`: cards that stay give monitors nothing to say; when they move
  there is one monitor, or one signal for or from one, and none while another attempt is
  under way or on offer;
* `Monitored`: whoever is asked, or about to be, has the cards watched;
* `StatusIsOver`: the last status of the readers has been delivered before the
  certificates are read, so the dialog expects them.

Most steps give nobody the turn. They are proved to be `Quiet`, and one lemma says that
a quiet step keeps the turns; the others hand the turn on.

`ControllerPages_proofs` proves `DialogsShowTheirPages`, `Calm /\ Spec =>
EveryDialogShowsPages`: every step of the controller is a step of `DialogPages` for each
of its dialogs, or leaves it alone. Together with `WidgetsShowThePages` below, the
widgets and the controller agree on the pages. `Paged` adds to the turns which page goes
with each: `wait` or `alert` while cards are looked for, `wait` while certificates are
read, `busy` or `pinpad` while an answer is used (`PageOfTurn`); that no status of the
readers is left by then (`StatusComesFirst`); which pages have a choice to go back to
(`PagesOfDialogs`); and that several certificates are never offered for a signature
(`CertificatesFit`).

The second part of the module is about how the program ends. It proves for *orderly*
instances

* `NoThreadSurvives`: `Orderly /\ Spec => []ExitsClean`,
* `OneAnswerIsWritten`: `Orderly /\ "about" \notin Commands /\ Spec => OneAnswerOnly`,
  the refinement of `Session` but for fairness: one response, and no exit before it,

both from `EndsWell`, `Orderly /\ Spec => []Ends`, where

    Orderly ==
        /\ UserActs \cap {"hasty", "cancel", "reselect"} = {}
        /\ \/ MaxCardMoves = 0
           \/ /\ "pinpad" \notin PinModes
              /\ \A f \in PinFailures : ~Twofold(f)

Every orderly instance is calm. Again this is a hypothesis, since the code does not
ensure it. A user who cancels or hurries can meet a run thread that ends during the last
join, or a signal that is delivered behind the response (`ExitsClean` and
`SingleResponse` under "Runs"). The last conjunct was found with TLC while looking for
the invariant: when a PIN is wrong, or refused for an unknown reason, and no known
number of retries is left (`Twofold`), the confirm thread may report both
`verifyPinFailed`, for which a monitor is started, and a failure. The monitor lives on
behind the fatal error dialog, and a card that moves then restarts the command, which
writes a second response. With cards that stay nothing of the kind happens, and all
refusals are allowed. Trying again is allowed in both, and the number of commands'
threads, dialogs, nested event loops and signals is any. The command "about" is started
without the browser, and quits without a response; the session is stated for the others.
`Ends` says

* `NobodyGoesOn`: once an ending (`completed`, `cancel` or `failure`) is in the queue,
  or there is no dialog and will be none, no thread has the turn, and no card event will
  give it back;
* `OneEnding`: at most one ending is in the queue, and it is there before anything is
  written;
* `NoLateMonitor`: a call for a monitor is delivered before the ending, never after, so
  that no monitor is started which the last join does not wait for;
* `FinishedIsDone`: when `quit()` is called no thread runs, and the response is there;
* `OneAnswer`: a response means that it is over, there is one of them, and one fatal
  error dialog at most.

The order of two signals in the queue matters in the second and third: both hold only
because a thread says all it has to say, in this order, before it ends. The lemmas on
lists are again in `ControllerSequences_proofs`; `Less` compares the queue before and
after a step.

`SafariBridge_proofs` proves, for any requests and crashes and without assumptions,

* `OneRequestAtATime`: `Spec => []OneAtATime`,
* `FailedIsNeverEverServed`: `Spec => []FailedIsNeverServed`,
* `SentIsAlwaysInGoodHands`: `Spec => []InGoodHands`,
* `TypeCorrect`: `Spec => []TypeOK`.

The invariant `Inv == FlagType /\ FlagInv` says why the flag is enough: the handler's
thread is inside one call (`OneCall`), an app that has not cleared the flag or has
answered holds no request (`OnlyInLoop`), it has one at most, announced or served
(`OneRequest`), and a flag that is cleared while the extension waits was cleared by an
app with nothing to do (`ClearedByIdle`). The last part is what makes the next request
safe to post; `OneAtATime` alone says nothing about a request that is still on its way.
`PlaceInv` says where a request is: announced, in one of the app's nested calls (each
once, `Apart`), or announced back, and in each case the extension has it as sent
(`OnePlace`); and that an answer is the last thing that happens to it (`AnsweredLast`).
It holds whatever crashes. `IdleAppIsAlwaysExpected` and `CalmRequestsAlwaysServed` are
the two properties of calm days; their invariant `CalmPhase` says where the app is at
each step of the one request that is being made. That nothing is lost needs both: the
app observes when a request is posted (`ClearedByIdle`) and exits with none
(`OnlyInLoop`).

`Dialog_proofs` proves, for any commands, certificates, number of confirm threads and
number of strays,

* `OkAlwaysHasCertificate`: `Spec => []OkHasCertificate`,
* `OnlyFittingPinIsUsed`: `Spec => PinFitsCertificate`,
* `TypeCorrect`: `Spec => []TypeOK`,
* `UserCanAlwaysLeave`: `Spec => []UserCanLeave`,
* `OnlyShownIsConfirmed`: `Spec => ConfirmsWhatIsShown`,
* `OnePinIsUsedInTurn`: `Spec => []OnePinAtATime`,
* `WidgetsShowThePages`: `Spec => ShowsPages`.

The first three speak of every state; the properties of the others speak of the states
before the first stray. Their assumptions are `CertificatesOK` and `CommandsOK`, what a
certificate and a command may be, and `BoundsOK`. So there are two invariants. `Sure`
holds whatever arrives: a dialog that has been told to wait for a card does so, OK does
only what belongs to the command and the page, it is enabled on the selection page only
with a button checked, and the closure behind OK, the validator and the typed PIN agree.
`Inv` holds in turn: what the turn says of the page (`TurnInv`), which action OK may
have on which page (`PageInv`), that a checked button stands for a usable certificate
once OK is enabled (`CheckedInv`), what the closure behind OK has in common with the PIN
page (`PinInv`), and that Cancel is missing only while a thread is there that brings it
back (`LeaveInv`). `IInv` is `Sure`, and `Inv` as long as `strays` is 0. Part of it is
not what one would write first: `PinInv` must say that a card that is not active never
has a thread at work, or a failing one could show the field again and enable OK. The
lemmas say first what each piece of a slot does to the widgets, then that each action
keeps the invariants.

`WidgetsShowThePages` is the refinement of `DialogPages`. The page is a function of the
widgets, so each action is a step of the pages by what it does to the button, the field
and the progress bar; `SeveralInv` says when there are certificates to choose from.
`OnePinIsUsedInTurn` needs `SingleInv`: with one certificate no page leads back to OK
while its confirm thread is at work.

`Launch_proofs` proves

* `EveryNumberHasItsForm`: each catalogue has a form for every number, not only for
  those of the run,
* `RightLanguageIsAlwaysShown`, `ChoiceIsAlwaysKept`: `RightLanguageIsShown` and
  `ChoiceIsKept`, for any languages,
* `ExitAlwaysMeansAnswered`, `ChannelIsAlwaysClean`: the properties of the channel, for
  any lengths, starts, failures of the help button and signals behind the response,
* `ScreenIsAlwaysTranslated`: `ScreenIsTranslated`, for any errors, prompts, numbers of
  attempts and slots,
* `TypeCorrect`: `Spec => []TypeOK`.

`ScreenInv` says that the labels follow the loaded language unless `LanguageChange` is
on its way, and that `languageChange()` will give the OK button the name of what it
does. `LanguageInv` adds to the two properties that an open selection remembers what was
chosen before it was opened. `ChannelInv` says what has been written in each state of
the process: nothing in `main`, the version message while reading and serving, an answer
when leaving, unless the browser has gone; the assumptions are `Choices` and
`ChannelInputs`.

The types of `ChildThreads`, `SafariBridge`, `Dialog` and `Launch` are theorems and not
checked again by a run; those of `Controller` are both. The safety part of `JoinBarrier`
is proved, and checked as a part of `BarrierSpec`.

Only model-checked: everything about liveness, including what `OneAnswerSession` adds to
`OneAnswerOnly` (that the program does exit). What is proved of calm or orderly
instances does not hold of every instance; the counterexamples are under "Runs".

## Not modelled

Formatting and logging, the dark theme, fonts, installers and the build;
libelectronic-id, whose source is a submodule (its results are choices of the
environment); the content of JSON and of certificates (that they are accepted or not is
modelled); the wording of the translations; the mock UI and tests, which were read for
what they promise. The classification of error codes in `retriableerror.hpp` is modelled
by its result, retriable or fatal, and its table of texts in `Language`. That a message
which is cut off is not valid JSON is assumed of the parser. Choosing the certificate
that `Sign` was given among several cards is an outcome, `single` or `mismatch`.

Two processes of the program at the same time share only the settings file and the
readers, which the card library locks; `Launch` runs one after the other.

## Plan

1. `ChildThreads`, `JoinBarrier`, `Session`, `Controller`, `SafariBridge`, `Dialog`,
   `DialogPages`, `Translations`, `Language`, `NativeMessaging`, `Launch`: done, with
   the proofs named above.
2. The inductive invariant of `Controller`, the refinement `ShowsPages`, and the
   remaining invariants of `SafariBridge` and `Launch`: done.
3. What `Controller` promises of a calm user (`ControllerTurns_proofs`,
   `ControllerPages_proofs`): done.
4. `ExitsClean` and `OneAnswerOnly`, the safety part of `OneAnswerSession`, in an
   orderly environment: done.
5. To come: which of the conditions of `Calm` and `Orderly` each theorem needs, one by
   one, so that a cancelling user is excluded only where a counterexample asks for it.
