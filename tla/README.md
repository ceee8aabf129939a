# Verification of the term's QNX programs

TLA+ models of the concurrent programs in this repository, checked with TLC, and
theorems about them checked with TLAPS.

## 1. Inventory

The repository holds independent programs for QNX Neutrino; programs within one
row group talk to each other.

| component | state it keeps | operations | talks to |
|---|---|---|---|
| `des_inputs` (assignment1) | text and number of the message, last response, connection | prompt, send, switch on the response code, number round, exit | sends to `des_controller`, blocks for the reply |
| `des_controller` | `next_state` (function pointer), `context` (doors, guards, id, weight), `rsp` | sixteen state handlers, `state_exit`, `get_first_state`, `update_display`, receive/reply loop | clients (messages), display (shared log and pulse) |
| `des_display` | channel, log descriptor | receive pulse, print log | reads the log the controller writes |
| metronome `main`, `io_write`, `parse_args` (assignment2) | `mtm_attrs`, `running`, `mtm_coid` | start, stop, pause, set, quit, exit | pulses to the metronome thread; shares `mtm_attrs` and `running` with it, unlocked |
| metronome thread | channel, timer, index `j` | attach, arm, handle five kinds of pulse, clean up | pulses from `main` and from the timer |
| metronome `io_read` and the OCB | per-open device, buffer and offset | open, read, lseek, close | reads `mtm_attrs`, which `set` writes |
| `sighandler`, `sigproc` (lab3) | flag, child list, counter `i` | signal handlers, fork loop, cleanup | SIGUSR1 between parent, children and user |
| `thread_factory`, `thread_waker` (lab4) | named semaphore, thread pool | wait/sleep loop, cancel, post, unlink | semaphore `tf_sem` |
| `calc_server`, `calc_client` (lab5) | one message and one response | calculate, message loop, argument checks | message passing |
| `my_device`, `my_controller` (lab7) | the stored text, a connection to the controller | open, read, write, alert, status check | pulses, reads and writes |
| `my_first_project` (lab2) | none | prints a greeting | nothing |

What is hard in them: the controller's state machine is spread over sixteen
functions, none of which looks at all the doors and guards; replies, pulses and
the shared log of the door system can be out of step, and any process may die;
the metronome's two threads share memory without a lock and send pulses that may
come too early, too late or behind timer ticks; readers keep an offset in a text
that others replace; signals find a process before its handler is attached, or
between a fork and the counting of it; a semaphore, a shared memory object and a
connection outlive the process they were made for. `PROJECT.json` lists each
hazard at its line.

What makes each correct:

- `des_controller`: doors and guards interlocked; a person is identified,
  weighed and shut in before being let out; a refused event changes nothing.
- door entry system: every blocked client is released; the screen catches up with
  the controller; a response is acted on only when it is one.
- metronome: the last start or stop decides whether it runs; interval and pattern
  follow the settings; the beat is one of the pattern; quit ends it.
- metronome devices: a reader sees the text that is there, whole if nobody set
  anything meanwhile, and never a byte from behind the buffer.
- `sigproc`: cleanup signals only children, none is left behind, and signalled
  groups end.
- `thread_factory` and `thread_waker`: a backlog is worked off, a killed factory
  leaves neither threads nor a name behind, and killing it does not crash it.
- calculator: a client gets the answer to its own question, exact or an error;
  none stays blocked; a client fails only because its server has gone.
- `my_device` and `my_controller`: alerts and the end of the device reach the
  controller that runs, and a text is read once.

## 2. Plan

In order of importance. All of it is done.

1. `Airlock` (abstract) and `DesController`; proofs of safety and refinement.
2. `DesSystem`, which composes the controller with clients and display.
3. `Metronome`, threads, pulses and timer; `MetronomeDevice` with `TextFile`, its
   abstract specification.
4. `SigProc`, `SigHandler`, `ThreadPool`, `CalcServer`, `MyDevice`.
5. Their runs, and the counterexamples to what the documents say.
6. Proofs of type correctness and of the safety properties of every module of 3
   and 4 but `SigHandler`.
7. Proofs of the safety properties of `DesSystem`.
8. Proofs of the safety part of the liveness properties: that nothing a waiting
   process waits for is lost or overtaken, and that the process it waits for is never
   stuck itself. For some counterexamples of section 6, that their cause is the only one.

## 3. Modules

| module | models | notes |
|---|---|---|
| `Airlock` | nothing in the code: what the door system promises | abstract specification: identify, admit, open, weigh, close, lock, release |
| `DesController` | `des_controller.c`, the handlers | one action per handler; extended by `MCDesController` |
| `DesControllerProofs` | | invariants, action properties and that `DesController` implements `Airlock`, proved |
| `DesSystem` | the loops of `des_inputs.c`, `des_controller.c`, `des_display.c` | uses the handlers of `DesController` by `INSTANCE` |
| `Queues` | what waits on a QNX channel | used by `DesSystem` and `CalcServer` |
| `Metronome` | `metronome_resmgr.c` without `io_read` | |
| `TextFile` | nothing in the code: a file that is replaced as a whole and read piece by piece | abstract specification |
| `MetronomeDevice` | `io_read` and the open control blocks | implements `TextFile` |
| `SigHandler` | `partA_sighandler.c` | several copies of the program |
| `SigProc` | `partB_sigproc.c` | |
| `ThreadPool` | `thread_factory.c` and `thread_waker.c` | they share the semaphore |
| `CalcServer` | `calc_server.c`, `calc_client.c`, `calc_message.h` | servers and clients of any number |
| `MyDevice` | `my_device.c` and `my_controller.c` | |
| `DesSystemProofs`, `MetronomeProofs`, `MetronomeDeviceProofs`, `SigProcProofs`, `ThreadPoolProofs`, `CalcServerProofs`, `MyDeviceProofs` | | theorems about the module each is named after |
| `MC...` | | constants of the runs, one module per model |

`Accept`, `Answer` and `Otherwise` in `DesController` are the three ways every
handler ends. Each module also defines a few *slips*: variants of its actions with
a plausible mistake, used to show that a property would notice it (the `mutants`
of `PROJECT.json`). They are not part of any specification.

### How state and actions correspond to the code

*DesController.* `next_state` is the static function pointer, by the name of the
function; `context` the static struct without `users_waiting_left/right`, which
no code touches; `code` what the handler returned; `disp_log` the shared memory
object; `notify` says that the handler called `update_display`, whose pulse is
sent by `DesSystem`. `sprintf` in `update_display` is one-to-one on the fields,
zero standing for "Unknown", so the log is a copy of the context. Writing and
reading the log are each one call and taken as atomic. `atoi` is left to the
user: any number of `Extras` may be given; zero is also what text gives.

*DesSystem.* A client is a record: `pc` is where its loop is (`prompt`, `send` and
`send_number` blocked in the two `MsgSend`s, `switch`, `ask`), `msg`, `rsp`, and
`connected`, false once the controller it attached to is gone. `status` is the
result of `MsgSend`, which the code drops. `ctl` is where the controller's loop
is: `receive`, `pulse` (log written, pulse not yet sent), `reply`, or `dead`. A
handler's private work is one step with the receive; only the log, the pulse and
the reply can be seen from outside and these are separate. `Crash` clears what
was the process's memory; the log is shared memory and stays. `told` is a history
variable. A client that dies leaves the queue (`TakenBack`). Reading the channel ids from shared memory at start is part of `Launch`
and `Restart`; that a program is started with the right process id is assumed.

*Metronome.* `main` is where the dispatching thread is; a write command is one
step, except `set`, which has a window (`main = "set"`) in which the attributes
are being written, and `quit`, whose pulse, assignment to `running` and the end
of the process are separate. In the window each read by the thread of each field
may find the old or the new value (`Reads`); one computation of the interval is
taken to overlap at most one set. The interval is kept as the three numbers
it is computed from, without rounding. Time is left out: an armed timer may
expire at any moment. `pattern[j]` past the end is undefined: the process crashes
or goes on with `j` either reset or increased. `coid` is `mtm_coid # -1`.
The loop that looks for the pattern reads both halves of the signature again
and again; `seen` are the halves it has seen new while a set is being written, which it will
not see old again. `wanted` is history: whether, by the help text, the
metronome is to run, decided by `start` and `stop` alone. `strayed` says how a command
since then has not kept to that text: it was lost, it was a pause or set that
resumed a stopped metronome, or a pause of 0 seconds. `shortened` is true from a
set to a shorter pattern until the line ends. A write that changes nothing (missing
arguments, unknown command, the help device) is a stuttering step.

*MetronomeDevice.* One handler runs at a time, so a read is one step. An OCB is the
record `ocb[r]` with the fields of `mtm_ocb_t`; a text is an id and its length,
and its bytes are pairs of id and position, so that a reader's bytes tell which
text they come from. `bufsize` counts the NUL, as the code does. A read fills
the buffer anew with the text of that moment and goes on at its offset.
`Count` is the code's comparison, with the difference wrapped when the offset is
behind the text. Open, lseek and close are the resource manager library's default
handlers. `last`, `got` and `since` are history.

*SigProc.* A child is known by its index. `i` and `chld_list` are what `fork`
copies: a child that still has the parent's handler cleans up its own copies. A
pending SIGUSR1 is a set member, since it is not queued without `SA_SIGINFO`; it is
masked while its handler runs. `Reap` is the parent's `waitpid`, `NoneLeft` its
return when there is no child. A failing `fork` ends the parent's loop as in the code.

*SigHandler.* `main` from the printed pid to the loop; a user signals a pid that was
printed, and the default action of a signal before `sigaction` ends the process.

*ThreadPool.* A semaphore is a number, `name` the one the name leads to; a process
that opened one keeps it (`psem`, `waker[w].sem`) when the name is unlinked.
`pool` is `NULL` or the entries written so far, `freed` whether it was freed. SIGUSR1 is
blocked only in a thread that handles it, so a signal may go to `main`, which is
thread 0, or to any thread of the pool, and handlers may run side by side. `hdl[t]`
is the part of the handler thread `t` is in, `i[t]` its loop variable, one entry of
the pool per step; while it runs, what it interrupted does not. A thread that was
cancelled goes on until a cancellation point, where it ends (`ThreadEnds`), also
inside a handler it runs. `CancelEntry` reads an entry: one that is written gives its thread;
one that is not, or was freed, gives that thread, no thread or a crash, all of
which the code leaves undefined; `HandlerFree` of a freed pool and `StoreThread` into one
crash or go on. `Ends` takes threads and handlers with the process. No signal makes
`sem_wait` return with `EINTR`, as no handler returns, so the loop at line 32 is one wait. `early`
and `signals` are history: whether a signal came while the factory made its pool, and how
many came. A waker posts one at a time.

*CalcServer.* A server is a record with the local `rsp`, which survives from message
to message, and `rcvid`, whom it serves: a client, `Pulse` for 0, or `Nobody` when
the client was killed meanwhile. `calculate` is the code's switch: it sets part of
`rsp` (`fail`, `succeed`) and leaves the rest. An answer is a fraction. A client's steps are
its argument checks, the reading of the shared memory, the connection, the send
and the reply; `ToInt` is the cast to `int`. A death of a client or a
server takes its messages with it and releases who waits for it.

*MyDevice.* The device handles one message at a time. `server_coid` is the device's
one variable for all opens; the connection is to the controller by its number,
which is never used again. A controller attaches its name, opens the device and
reads in three steps. `due` and `told` are history, from a controller's first `fopen` on: an alert
not shown yet, and an alert sent while the text was the `closed` that it still is.

## 4. Runs

| run | bounds | shows |
|---|---|---|
| `des_controller` | numbers 0..2, all commands | every order of commands: interlock, recorded crossing, current log, refinement of `Airlock` |
| `des_system` | two clients, commands `ls glu exit`, one crash, two pulses | blocked clients accounted for, not overtaken and released, screen agrees with the controller |
| `des_one_client` | one client, crossings from left to left, one crash, one display death | number accepted, screen settles, the steps of `Airlock` between two deaths of the controller |
| `metronome` | 3/4, sets to 2/4 and back and two refused sets, pause 0 and 3, queue of three pulses | last start or stop wins, stop and quit take effect |
| `metronome_timing` | all eight signatures at three tempos, sets between any two, a refused set, pause 3, queue of two | measure in time, beat in pattern unless the pattern was shortened |
| `metronome_device` | two readers, statuses of 3 and 5 characters, help of 4, reads of 2 and 3 bytes, lseek to 0, 4 and 7 | no read leaves the buffer, texts are read whole, readers end, refinement of `TextFile` |
| `sigproc` | up to three children or none, any fork may fail, any signals | cleanup signals children only, no orphans, groups and cleanups end |
| `thread_pool` | two threads, two starts, two signals to each of any thread, one waker, two semaphores, three posts to each | names unlinked, threads of a complete pool cancelled, crashes only by an early or a second signal, backlog served |
| `calc` | two servers, two clients, one operand, one pulse; symmetric | failures are the server's, blocked clients are heard |
| `calc_released` | one server, two clients, operands at the limits of three-bit integers, one pulse | calculate exact for all pairs of integers, answers to one's own question, clients released |
| `my_device` | two writers, one reader with buffers of 2 and 4, two controllers, two alerts | alerts reach the controller that has opened the device and are shown, it ends when it should, texts are read once |
| `sighandler` | two copies, two signals | *violation*: the signal comes before the handler |

The other `.cfg` files give the rest of the counterexamples of section 6; each
checks one property, and TLC reports it violated:

| cfg, with the module of | property |
|---|---|
| `MCDesFailedSend` (`MCDesSystem`) | `FailedSendNoticed` |
| `MCMetronomeShorter`, `MCMetronomeStartup`, `MCMetronomeResume`, `MCMetronomePause0`, `MCMetronomeJoin` (`MCMetronome`) | `BeatInPattern`, `CommandHeeded`, `StopStays`, `PauseEnds`, `JoinedBeforeExit` |
| `MCSigProcParentEnds`, `MCSigProcOnlySignalledEnd` (`MCSigProc`) | `ParentEnds`, `OnlySignalledEnd` |
| `MCThreadPoolUnlinked`, `MCThreadPoolQ`, `MCThreadPoolTwice` (`MCThreadPool`) | `WakerReachesFactory`, `QuitsWhenTold`, `WholePoolSafe` |
| `MCCalcValid`, `MCCalcEcho` (`MCCalcServer`) | `ValidOperandsAccepted`, `EchoesOperands` |
| `MCMyDeviceSmallReads`, `MCMyDeviceStart` (`MCMyDevice`) | `ReadContinues`, `AlertReaches` |

Why the bounds are enough. The controller's handlers compare the number with zero
only, so two nonzero numbers tell a stale one from a new one. Two clients are the
smallest number that interleave and leave one queued while the other is served;
the commands of `des_system` reach handlers of each kind of answer (`OK`, `EXTRA`,
`INVAL`, `DISCONNECT`), while `des_controller` covers all commands. One crash and
one restart leave stale clients, new clients and an old log together. A second
pulse lets the display lag by more than one update. In the metronome, two or
three pulses let a command wait behind ticks and behind another command; the
signatures 3/4 and 6/8 mix to 6/4, which is not supported, so that a torn read
makes `timer_settime` fail; a set from 3/4 to 2/4 shortens the pattern, and all pairs of
the eight signatures do so by any number of beats. A short and a long status put an offset before, at and
behind the end; the sizes do and do not divide the texts. Three children give a
middle one a sibling that is in its copy of the list and one that is not. Two
threads let one sleep while the other waits, and three posts are more than both. Two
signals let handlers run side by side on two threads, and `main` beside both; a third would find
the states two leave. One waker suffices for what is claimed of the factory; the
counterexamples have two.
Two servers let a client read the id an earlier one left. `INT_MAX` is small so
that every pair of integers is checked, and of two digits where the length of a
number matters. A second controller finds a connection to the first.

`MaxPulses`, `MaxQueue`, `MaxAlerts` and `MaxPosts` delay a sender, which the code
does not do; the receiver is fair, so nothing is blocked for good. `MaxIndex` only
limits how far an undefined read goes on, `MaxGot` how much a reader
collects before it lseeks or closes; `MaxSems`, `MaxStarts`, `MaxControllers`,
`MaxSignals` and `MaxReads` end a history that would go on alike.

`NumberAccepted` is about a system with one client; with two, another client's
event may come between the prompt and the number, and the refusal is not seen
because `des_inputs` does not look at the second response. `LastCommandWins` claims
nothing between a command that strayed from the help text and the next start or stop:
`CommandHeeded`, `StopStays` and `PauseEnds` do, and fail (section 6). In the same way
`InPatternUnlessShortened` leaves to `BeatInPattern` what follows a set to a shorter pattern,
`CrashExplained` to `WholePoolSafe` a second signal, and `AlertsShown` to `AlertReaches` an
alert between `name_attach` and the controller's first `fopen`.
`EndsIfStaysClosed` says nothing of a status that is written again between the
alert and the controller's reading: the controller acts on what it then reads.

Deadlock is checked for the door system, the metronome's devices and the
calculator. The other programs end, so their runs allow it.

### Fairness

Every program's own steps get the processor (weak fairness); users, who type,
signal, kill, open and close, owe nothing, and no process has to die, to be started
or to time out. In `DesSystem` these are the controller's loop, the display's loop and a client
that has its response. In `Metronome` they are the thread's steps and `Continue`, `main` after it has
taken a command, which never waits for the user; the timer owes nothing. In
`MetronomeDevice` a reader that has opened a device goes on with reads, lseeks or
closes: `ReadersEnd` is about readers that do. In
`SigProc` each process, the delivery of a pending signal among its steps; in
`ThreadPool` `main` and each thread, whose `sleep` returns (no property waits for a handler); in
`CalcServer` each server and each client; in `MyDevice` the controller, whose
reads the device answers while it runs.

## 5. Proofs

All are for any values of the constants that the modules' assumptions allow: any
number of children, threads, servers, clients, readers and any settings, and the
bounds any numbers. Each proof module defines an inductive invariant `IInv`, shows
that `Init` implies it and every step keeps it, action by action, and derives the
theorems.

*DesController.* For every set `Extras` of integers with 0 in it and any `NoLog`.
`IInv` is `TypeOK`, `Chamber`, `CrossingRecorded` and
`LogAgrees`. `Interlock` is not inductive: `state_ro` closes a door, `state_gru`
opens one, without looking at the others, so a state with another position but
the same `next_state` would step to one that breaks it. `Chamber` gives for every
handler the positions it may be called in, and implies `Interlock`. The proof
splits the handlers' steps into three: an answer (nothing changes), `Accept` of a
context that the next handler may be called in, and the restart. From the
invariant follow `TypeCorrect` (every call finds a handler: the assertion in
`main`), `InterlockSafe`, `CrossingsRecorded`, `LogIsCurrent`, and the action
properties `EventsMoveOne` and `RefusalIsHarmless` (which needs no invariant).

`ImplementsTheAirlock`: the chamber is a function of `next_state` and `context`.
Every transition between two handlers is one named step of `Airlock`; its guard
follows from `Chamber` before the step and its effect from `Chamber` after it, or
from the assignment where two positions are possible (`opened`, `weight`).

*DesSystem.* For any number of clients, crashes and pulses, and any commands and numbers.
One lemma, `Handled`, says what a call of any of the sixteen handlers does: it is
ready for the next call (`Chamber`), announces what it changed and nothing else,
and answers `EXTRA` only where a number will be accepted. `IInv` is `TypeOK`,
`Chamber`, `Heard` (`BlockedAccountedFor` for a client) and three facts about the
display. `ToldOK`: a display that was told is linked, by a controller that is up.
`LogOK`: what this controller announces, or has announced, agrees with its context;
a log that an earlier one left need not, hence `told` in `ScreenAgrees`. It needs
`Chamber`, because the restart of the crossing shows one context and then
resets another. `ShownOK`: with no pulse waiting, the log is on the screen. For
`NumberIsAccepted` the invariant is strengthened by `Number`: from the `EXTRA` to the handler
that gets the number, the controller stays in the state that asked, unless the
connection is lost. `ChamberBetweenDeaths` carries the steps of `Airlock` over
to the system: a receive is a step of `Airlock` or none, the other steps leave the
chamber alone, and only a death and a restart put it back.

`NobodyOvertaken` and `BlockedIsAttended` are what is behind `ClientReleased`.
The first: the count of what has to be served before a blocked client never
rises, and each step of the controller lowers it (`BlockedMovesUp`, also checked).
The second: while a client is blocked, the controller is up, has a message when it
receives, and when the bound `MaxPulses` delays its pulse there is a display that takes
one. What is left is the fairness of both.

*Metronome.* `IInv` is `TypeOK`, `Valid` (what is in force was accepted by
`parse_args`), `InLoop` (until quit the thread is before or in its loop, attached
once it has left the start) and `Armed`: when no command is left in the queue and
none is being written, the timer is disarmed or exactly as the settings say. The
point is that every write of the settings is followed by a `START` behind all
pulses that were computed from torn values, so the last arming reads settled
ones. With `PatternIsLookup`, that `mtm_lookup` and `ttp` agree for all eight
signatures, `Armed` gives `EveryMeasureInTime`. `LastCommandDecides` adds
`Heeded`: as long as no command has strayed from the help text, the last command in the
queue says what `wanted` says, and if none is left the timer does. `OnlyShorteningLeavesPattern`
needs `InLine`: while a set that does not shorten the pattern is being written, every
pattern the thread may still find has the next beat. By `MixedPattern` two supported signatures mix
to the pattern of one of them or to none, and what the thread has `seen` of the longer one it sees
again (`ViewsGrow`), so a beat of the longer pattern is never followed by a look at the shorter.
`StopNotOvertaken` says of a stop in the queue what `NobodyOvertaken` says
of a client; `NoPulseUnheard`, that no pulse waits before the thread attaches or after
it has ended.

*MetronomeDevice.* `IInv` adds `ReadSoFar` to `InBuffer`: as long as nothing was set and
the reader did not move, what it has got is the text up to its offset, and all of it
once a read returned nothing: `WholeTextRead`. `ImplementsTheTextFile` maps each
handler to one step of `TextFile`; a read fills the buffer anew, so that what it
copies are the bytes of the text of that moment. `EveryReadAdvances`: a read either
gets nearer to the end of the text or says that it is there, which is what
`ReadersEnd` needs besides reads that go on.

*SigProc.* `ListIsPrefix`: all entries below `i` are written, and `i`'s own between the
store and the count, in the parent and in each child's copy; since a child's copy
is made by `fork`, it inherits the fact. It gives `KillsOnlyChildren`. `NoneYet`: before
`sigaction`, when a signal is fatal, there are no children to be orphaned. `Signalled`, an
invariant too, says of each child that was signalled that it no longer just waits for a
signal: it has one pending, or is past its loop on its way to the end. It gives
`NoSignalLost`, and `CleanupReachesTheRest`: what a cleanup that waits has not signalled
is one child at most, the one between its `fork` and its `i++`.

*ThreadPool.* `FactoryOK` ties where `main` is to what exists: threads, pool entries and
the open semaphore. `HandlersOK`: handlers run on threads that are there, and once one has
unlinked the name, the name is another semaphore's. `SemsOK`: names and wakers have only
semaphores that were created, so a new one is not the factory's. They give `KilledFactoryUnlinks`
for any number of signals to any threads. `CrashOK` adds that before a signal there is no
handler and nothing freed, that a first one is alone and frees the pool last, and that without an
early signal none is there while `main` makes the pool: a handler of one signal reads only
ids that are written (`ReadsIds`), which gives `CrashesAreExplained`. `ThreadsOK`: entries a handler
has passed hold threads that are gone, which gives `NoThreadSurvives`; and until a signal
comes, every thread created is there, which gives `NoThreadEnds`.

*CalcServer.* `ServerOK` (a server that has received a message has its sender, and once
it has calculated, the verdict of that message in `rsp`), `ClientOK` (an answered
client holds the verdict of what it sent) and `Heard` (a client is blocked on a
server if and only if it is at exactly one place there); and while a client's server is up,
the shared memory and the client hold the channel's id. `CalculateMatches`, the
arithmetic, is by cases on the operator for all integers of any width, against
`Verdict`, which tests operands and never forms the result. `NobodyOvertaken` and
`BlockedIsAttended` are as in `DesSystem`, here for any number of servers, with pulses
between the messages. `PositiveOperandsEchoed` bounds the counterexample to
`EchoesOperands`: only negative operands are echoed wrong.

*MyDevice.* `ReadOnce`: an undisturbed reader with a large buffer has read nothing and
is at the start, or the text once and is at its end; `ToldAtEnd`: only there is it told so.
`WholeReadContinues` follows: small buffers and rewritten texts are all that
`ReadContinues` fails for. `DueWaits` (one pulse that waits, and only one, is the one `due`
stands for), `ToldWaits` and `EndIsKnown` say what a controller that owes something has
waiting or is doing: it never waits for nothing (`NeverWaitsForNothing`), and the
alert it owes comes up with each pulse it takes (`AlertNotOvertaken`).

Only model-checked: everything about `SigHandler` and the abstract
specifications themselves, and all liveness properties
(`ClientReleased`, `ScreenSettles`, `StopTakesEffect`, `QuitExits`, `ReadersEnd`,
`GroupEnds`, `CleanupEnds`, `BacklogServed`, `Released`, `AlertsShown`,
`EndsIfStaysClosed`, `EndsWithDevice`): the prover does neither fairness, which needs
`ENABLED`, nor the induction over the counts that the theorems above bound.
`ScreenSettles` and `QuitExits` have no theorem about their safety part.

## 6. Where code and documents disagree

`PROJECT.json` quotes the lines; section 4 names the configurations. In short:

- door entry: a failed `MsgSend` is not noticed by `des_inputs`, and `exit` then
  does not exit.
- metronome: `set` to a shorter pattern reads past its end; a command written
  before the metronome thread is ready is lost; a `set`, even a refused one, and a `pause`
  start a metronome that was stopped; `pause 0` is accepted and stops the
  metronome; `main` does not wait for the metronome thread. The last one hides
  another: with a working join the program could hang, because quit's pulse may be
  received before `running` is cleared (the slip `ExitAfterJoin` and `QuitExits`
  show it).
- `sigproc`: a parent signalled between `fork` and `i++` waits for ever for a child it
  has not signalled; a child signalled before its own `sigaction` cleans up its
  siblings. `sighandler`: the pid is printed before the handler is attached.
- `thread_factory`: a second SIGUSR1, which another thread may handle, frees the pool
  twice or cancels from a freed one. No text of the repository says otherwise, so this is a
  hazard in `PROJECT.json` and not a finding.
- `thread_waker`: a waker that quits unlinks the semaphore, and the next one posts to
  another; `q` is read as a number, and 113 quits.
- calculator: integers of ten digits below zero are refused, although valid;
  negative operands are echoed as unsigned.
- `my_device`: a buffer smaller than the text gets the same bytes again. An alert
  of a writer that had the device open goes to the former controller until the new
  one's first `fopen`, and is lost: a hazard too, as no text speaks of it.

## 7. Not modelled

`my_first_project`, which prints a greeting. Failures of start-up calls, which end
the program: of `sigaction`, `sem_open`, `pthread_create`, shared memory and name
attachment; `malloc` only in `thread_factory`. An error of the controller's
`MsgReceive` (its case -1, reported on stderr). A client that is given the pid of an
unrelated process. An empty line written to the metronome (`strtok` returns no
command, undefined behaviour) and a message too long for its buffer (no reply).
Rounding: of the interval, and of quotients and their two printed decimals.
Unknown pulses to the display, which it ignores. The end of a program's input and
what `stdin` buffers or `fflush` drops. In `my_device`, words longer than its buffer,
what follows the newline in a message, and incomplete messages; `name_open` is
taken to succeed if and only if the name is attached. Real time: sleeps and timers
end at some moment.
