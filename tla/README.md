# A TLA+ model of OSASK: windows, signals, timers and keyboard

OSASK is a small operating system for PC/AT (and FM TOWNS and PC-9801) machines:
`src/OSASK/`. A few tasks run on a kernel that gives each of them a *signal box*, a
ring of words that other tasks and drivers write to. This directory models the parts
of it whose correctness rests on several of them acting together:

- the window manager `winman0`, the job list it works from, and the protocol between
  it and the GUI library (`pioneer0`) in every task that owns a window;
- the way of a signal from the kernel through the software interrupt of a task into
  the box from which the program takes it (`tapi0`, `pioneer0`);
- the timer driver, whose interrupt handler works on a chain of intervals;
- the driver of keyboard and mouse, a queue of commands to devices that answer, ask
  for a repetition, and send keys in between.

The repository also holds three compilers (`20GO`, `28GO`, `osaski`), emulators,
libraries and applications. Those are vendored or sequential programs and not the
subject; nearly all of the repository's lines are theirs.

## 1. Inventory

| component | state | operations | what is hard |
|---|---|---|---|
| job list (`winman0.c:206-215, 2509-2610`) | a ring of words with read and write position and a free count | `writejob_n`, `readjob`, `runjobnext` | commands and arguments are plain words; zero is both the stopper and a legal argument; wrapping inside a job; a full ring |
| windows (`winman0.c:1405-1686, 2171-3361`) | the ring of open windows (`top`, `up`, `down`), the free slots, per window `condition` and `job_flag0`, the job in progress (`STR_JOB`), `iactive`, `press0`, the key table | requests to open and close, the keys F9..F12, arrows and Enter, mouse, answers of tasks; jobs open, activate, move, close | a job spans many signals: it leaves a function to call with the next answer; requests keep coming meanwhile; other tasks draw on the same screen |
| window protocol of `pioneer0` (`pioneer0.ask`) | per window `draw_enable`, `mode0` | signals 0x41..0x49 from winman0, open and close commands, drawing | runs as a software interrupt between any two drawing commands |
| signal boxes (`tapi0.ask:640-1144, 1665-1802`) | per task a ring of words with free count and positions, full mark, `softint_mask`, `softint_nest`, `msgbox_status`, `softint_oldLlv`, the level of the task | send with and without wait, lift the mask, enter and leave the software interrupt, sleep | sender and receiver of a box run at once; a signal never wraps, the rest of the ring is skipped; four reasons to mask are one counter; wake-ups against going to sleep |
| user signal box of `pioneer0` (`pioneer0.ask:2778-2871, 6019-6660`) | the program's ring, its free count and positions, full mark | the software interrupt passes signals on, `cmd018` gives words back and waits | two rings with a handler between; the program's becomes full in the middle of a run, and what was handled must be credited once |
| timer driver (`pcat/timerdrv.ask`) | `head`, the chain of nodes with time and interval, the nodes that timed out, the counter of ticks | set, cancel, get the time; tick, handler with calls | three words of time but signed intervals of one; marks that are numbers; setting a timer while the clock counts or while timers are called; cancelling what has timed out |
| keyboard and mouse driver (`pcat/keymos0.ask`, `pcat/decode0.ask`) | for each device a ring of micro commands, the position of the one being executed, who gets the next byte | send a batch, interrupt, run the queue | the device may ask for a byte again, answer late, or send a key in between; answers and keys are the same bytes; the queue fills |
| tasks and memory (`tapi0.ask`, `papi0.ask`, `init.ask`) | tasks by level, page tables, the table of window handles | task switch, allocation, shell calls | sequential with interrupts off |
| sound tracks (`winman0.c:1559-1596`) | a table of 16 tracks, the active one | open, close | table limit; hand-over when the active one closes |
| video modes (`winman0.c:3629-3909`) | mode, the lock on the v86 task | change mode | several asynchronous steps, each of which can fail |
| mouse and key signals of tasks (`winman0.c:1506-1557, 2279-2360, 4574-4611`) | tables of declared signals, `mws_mousewin`, `mws_sensitivecount` | declare, send, window closed | stale windows in the tables and in `press0` |
| floppy driver (`pcat/fdcdrv0.ask`) | track cache, two state machines | read, write, motor | timeouts against answers of the controller |
| shell (`pokon0.c`) | running applications, file selectors | start and kill applications | a selector whose application has gone |
| boot, drawing, fonts, TOWNS and NEC98 ports | | | sequential, or variants of the above |

How they interact: interrupts of timer and keyboard send signals into the box of
winman0 and of tasks; winman0 sends signals to tasks through the same boxes, and a
task's `pioneer0` handles those meant for the library and passes the rest on to the
program. The window modules take boxes as FIFOs that lose nothing; that they are is
what `SignalDelivery` is about, and in which circumstances they are not.

What makes each correct, in a sentence: the job list is a FIFO of whole jobs; the
screen shows the windows in their order, nobody draws over what stands above, every
request is carried out, and no job or answer touches a window that has gone; every
signal accepted for a program reaches it once and in order, and no program sleeps with
signals waiting; a timer rings at its tick, once, unless cancelled; every command to a
device is sent in order and answered before the next, the queue comes to its end, and
no key is taken for an answer; a track, a mode or a signal declaration outlives its
owner nowhere.

## 2. Modules

| module | models |
|---|---|
| `JobList` | what the job list promises: a bounded FIFO of words that takes a batch as a whole or not at all |
| `JobRing` | the job list as it is kept: array, positions, free count, stopper |
| `JobRing_proofs` | theorems about `JobRing` |
| `WindowSignals` | what winman0 and the tasks share: signal boxes, messages, and the screen |
| `WinMan` | winman0: the signal handlers and the jobs open, activate, move and close |
| `PioneerWindow` | a task with a window: it opens, closes and draws, and its GUI library answers winman0 |
| `WindowSystem` | the composition of `WinMan`, `PioneerWindow` and the user; the properties |
| `WindowFacts_proofs` | lemmas about what `WindowSystem` is built from: boxes, lists, rings of windows, the loop that redraws |
| `WindowSystem_proofs` | theorems about `WindowSystem`: its control, and who waits for whom |
| `WindowDrawing_proofs` | theorems about `WindowSystem`: who may draw, and who knows it |
| `SignalRing` | the ring of words that a signal box is, written by kernel and `pioneer0` in the same way |
| `Mailbox` | what the two boxes of a task promise: a FIFO of signals |
| `SignalDelivery` | kernel, soft interrupt handler and program with the two boxes between them |
| `CalmSenders` | `SignalDelivery` with senders that do not fill the boxes at the wrong time |
| `SignalDelivery_proofs` | theorems about `SignalRing`, `SignalDelivery` and `CalmSenders` |
| `AlarmClock` | what the timer driver promises: each alarm rings at its tick |
| `TimerDriver` | the chain of timers, the calls, and the interrupt handler of the clock |
| `TimerDriver_proofs` | theorems about `TimerDriver` in general |
| `TimerDaily_proofs` | theorems about `TimerDriver` as clients use it from day to day |
| `CommandQueue` | what the queue of micro commands promises |
| `KeyQueue` | the driver of keyboard or mouse with its queue, and the device behind it |
| `KeyClients` | `KeyQueue` with the batches its clients hand in |
| `KeyQueue_proofs` | theorems about `KeyQueue` and `KeyClients` |
| `MCJobRing`, `MCWindowSystem`, `MCFiveWindows`, `MCSignalDelivery`, `MCTimerDriver`, `MCKeyQueue` | instances for TLC |

Definitions whose names begin with `Bug` are used by no specification. Each stands
just before a definition and is that definition with a slip this code could have had;
`PROJECT.json` says which property notices which.

### How the model corresponds to the code

**`JobRing`.** One action per call: `WriteJob(p)` is a call of `writejob_n` with the
words of `p` (all the loop and the stopper written at the end), `RunJobNext` one turn
of the loop of `runjobnext` with the `readjob` calls of its `case`, `EndJob` the
reset of `pjob->now` by whatever job is in progress. `Batches` holds what the callers
pass: one job or, at initialization (1428-1435), two in a row. `Garbage` is what
`malloc` left in the cells. `starts` is a history variable: where commands were
written, which the code does not know and the invariant needs.

**`WinMan`.** One action per signal handled, with everything it calls, and one per
job started. The main loop starts jobs until one is in progress or none waits before
it looks at the next signal (`fin_wrtjob`, `check_jobnext`, end of `mousesignal`); so
signals are handled only if no job could start (`JobsFirst`, `Listens`). `stack` is
the ring of windows from `top` down, `unuse` the ring of free slots. `General1` and
`RedrawFrom` are `job_general1` and the loop of `job_general2`: they are the end of
all four jobs. `job.func` is the function pointer that gets the next answer; it is
never reset, as in the code. `General2` throws an answer away that no flag waits for.

`list` here is the sequence that `JobRing` is proved to implement, a job being one
element; when it is full the new job is lost, for no caller looks at the answer.

`wild` becomes true where the code follows a pointer to no window or to one that is
closed (`handle2window` returns `NULL`, a job names a freed slot). Nothing is modelled
beyond that point; that it is not reached is part of `SlotsAreSafe`. A request to close
(0x24) names a handle. When its window has been closed before, the handle is that of no
window, or of another that got it meanwhile; 1495 asks neither, and `HearClose` is wild
then in both cases: what is lost or closed beyond is not modelled.

Keys become signals when they are pressed, if the key table says so (`keys`): the
table holds F9..F12 after `redirect_input`, nothing once a move starts, and arrows
and Enter once the frame is drawn. What the mouse does means what it means when
winman0 handles it, so it is an action of the handling.

**`PioneerWindow`.** One action per signal handled by the interrupt routine for a task
that installed no handler of its own. Drawing takes time (`BeginDraw`, `EndDraw`),
and winman0 is told only when it ends. A task may also draw by itself whenever
`draw_enable` is set (`AppDraw`).

A window is `"open"`, then `"ending"` once its library has asked winman0 to close it
(`CloseRequested`: 0x43 without a handler falls into `sig0020`, and `cmd0040` sends 0x24
for every handle marked 0x0100), and `"closing"` once its program has (`AppClose`:
`cmd024`, whose shell call 0x104 takes the mark off). Nothing else takes it off: the store
in `cmd0040` is commented out (`init.ask:4730`). So **every** further 0x43 sends another
0x24, and so does a program that closes its window after its library did (`Marked`). What
keeps the second request from harm is not the task: it is that F12 is not pressed again,
or that the flag set at `winman0.c:1496` is still there when it comes.

**The screen** is two history variables: `damaged`, the windows whose picture is not
what it should be, and `frame`, the places where an odd number of exclusive-or frames
stands. A full drawing mends a window; any drawing damages the windows above, for
nothing clips it.

**`SignalDelivery`.** One task. Every shell call of the kernel is one action, since the
kernel runs with interrupts disabled: `SignalMessage` and `SignalMessage2` are the
calls of others (with and without wait), `AddNestSleep` and `SoftintReturn` the two the
task makes itself. A call of the task is first put into `call` by the step that makes
it, so that others may send between the instruction before it and the call.
`EnterHandler` and `LeaveHandler` are what happens when the kernel is left
(`TAPI_SysCntZero`). `pioneer0`'s handler takes one action per turn of its loop, the
program one per step of `cmd018` between its shell calls. What a signal says is
abstracted to its number; its length is kept, for it decides where the rings rewind.
`sent` and `received` are histories.

**`TimerDriver`.** One action per call of the driver, which runs with interrupts
disabled. The interrupt handler is as atomic, but it is cut into one action per turn of
its loops (`TimesOut`, `FindInterval`, `Call`, `Wait`); nothing but the handler is
enabled until it is back at `"idle"`. Words are those of the machine: `Unit` is a
sixteenth of a word, `Signed` and `Unsigned` its two readings, and the marks
0x90000000 and 0xa0000000 are the numbers the code calculates with. Times have three
words, which do not overflow in the life of a machine, and are integers. `now` is a
history.

**`KeyQueue`.** `device` chooses which of the two copies of the code is meant; they
differ in a few places, which the actions name. `Submit` is the whole of
`KeyboardQueueExecute`; a run of the queue, also atomic, is cut into one action per
micro command, since a command may wait for the controller. As in the code, a batch is
some groups of words, each with its commands whole (`BatchAssumption`, which the command
lines of the driver and of its clients satisfy); the code copies a group word by word,
the model at once. A word that is not the first of its command is `Rest`, and the
byte it holds is kept with the command. The devices are modelled from what the driver expects of them
(`Take`, `Use`: external). `asked`, `wanted` and `strays` are histories.

### Abstractions

- A task has one window, and a window is identified with its slot. A slot is given to
  another window only after its former owner has handled all its signals. This is a
  restriction of the model, not of the code: there a stale request to close may also be
  heard after its handle was given to another window, which it then closes. Here it is
  heard before, and is `wild`.
- A program draws no more once it or its library has asked for the end of its window
  (`AppDraw`). `job_closewin0` relies on this (3052), and nothing in winman0 or `pioneer0`
  sees to it: a program that draws until it hears 0x45 may draw over what is redrawn below.
- Counting the notices to the end of a task (`ending_count`) and `cmd008`, which closes
  what is still marked in the same way, are left out.
- Coordinates are *places* with an overlap relation. A move chooses any place; the
  code's moves reach every place by steps of `moveunit`.
- Fields of a free slot are set to fixed values, since they are written before read.
- A task's signal box is unbounded. `movewindow` messages (which carry a position and
  ask no answer), user-defined handlers and the close button of the title bar are
  left out.
- The shell owns the first window and never closes it.
- `screen.x2 # 0`: the windows are modelled after the first mode has been set.
- `LengthAssumption`: no signal is as long as half a box. A longer one may fit neither
  before the end of the box nor after the rewind although the box is empty, and its
  program would sleep on. The signals that winman0 and the drivers send have a few
  words and boxes many times that; so `CalmSenders` assumes it, and the theorems about
  calm senders with it. The others do not.
- The program behind the box reads what is there and then waits, as the main loops of
  winman0 and pokon0 do. Handlers of the program that are called from the soft
  interrupt are left out.
- A key is a byte; make and break codes and prefixes are the decoder's affair.
- Timers: the pool of nodes is a set, and clients own the node they use.

## 3. Properties and runs

| run | instance | what it asks |
|---|---|---|
| `job_ring` | the ring small enough that it wraps in every way | `TypeOK`, `Framing`, `ImplementsJobList` (refinement), `QueuedJobStarts` (liveness) |
| `window_keys` | 3 slots, two windows open at first, 3 places in a row of which neighbours overlap; open, F9, F10, F11, F12, arrows, Enter | `TypeOK`, `TasksKnow`, `ScreenIsPainted`, `FrameExclusion`, `EnabledExclusion`, `DrawExclusion`, `TopIsActive`, `AnswersAwaited`, `SlotsAreSafe`, `ClosedIsLast`, `MoveStartsOnTop` |
| `window_drag` | 2 slots, from nothing; open, close by the program and by F12, click, title bar, pointer, with fairness | `TasksKnow`, `FrameExclusion`, `SlotsAreSafe`, `ClosedIsLast`, `JobSettles`, `CloseCompletes`, `OpenCompletes` |
| `move_behind_open` | F11 while another window is about to open | `MoveStartsOnTop` is violated |
| `two_enters` | Enter twice | `TopIsActive` is violated |
| `two_closes` | F12 twice | `SlotsAreSafe` is violated |
| `five_windows` | five windows, one closes | `RedrawsAbove` is violated |
| `signal_delivery` | two boxes of 7 words, runs of 4, signals of 1 and 2 words and system signals, 5 signals, calm senders | `TypeOK`, `MasksAddUp`, `NoLostWakeup`, `CountsAreExact`, `ImplementsMailbox` (refinement and liveness) |
| `signal_full` | the same boxes, senders at any time | `NoneTwice` is violated |
| `signal_asleep` | a program's box of 5 words, signals of 1 word, senders at any time | `AwakeWithSignals` is violated |
| `timer` | 2 timers, one of them periodic with 2, words of 4 bits, 18 ticks | `TypeOK`, `ChainIsExact`, `EachOnce`, `NowIsRight`, `KeepsTime` (refinement and liveness) |
| `key_queue` | a ring of 16 words, 5 batches, 2 keys or reports, 1 repetition, either device | `TypeOK`, `FreeIsExact`, `StartsEmpty`, `NoBreakpoint`, `AnswersAreNotKeys`, `LampsAreRight`, `ImplementsQueue` (refinement), `EndsAtLast` (liveness) |

**The patient user.** In `window_keys` and `window_drag`, and in all that is proved about
windows, `Eager` is empty: it names what is done without waiting. A patient user asks
for something only when nothing else is being asked of winman0 (`Quiet`): no request of
a task or key is in its box and no job waits. He presses F12 only when no 0x43 waits in
the box of the window on top (`TopNotAsked`), so each close is asked for once. And a
program does not close its window again after its library has (`ClosesWindow`). Jobs may
be in progress, tasks may open and close windows right after, and all answers interleave.

This is a restriction on users and programs, not something the code ensures, and every
result about windows is to be read with it. Without it the code goes wrong, and not only
in theory: `move_behind_open`, `two_enters` and `two_closes` show three ways. A fourth is
F9 or a click for a window whose close job waits (add `"F9"` to `Eager` in
`WindowKeys.cfg`: `SlotsAreSafe` fails within thirty steps, since `job_activewin0` takes
a freed slot for a window). As for `two_closes`, a bound would have hidden it: with
`MaxKeys = 1` in that run, there is never a second 0x43 in the box of a task.

**Bounds.** `JobCap = 127` is the code's list; it never fills in these runs.
`MaxJobs` and `MaxKeys` bound only what the user adds: the jobs that wait when he asks
for one more, the keys that wait in the box of winman0, and the 0x43 that wait at the
window on top when he presses F12. For a patient user they are no restriction beside
`Quiet`, `FrameShown` and `TopNotAsked`, which say more. There are two
million states in `window_keys`, 49,000 in `window_drag`. Three windows give every order
of a window above, between and below; every property about two windows and a third
that hides them, or is hidden, is exercised. They are *not* enough for the order in
which `job_general1` marks windows: that needs a chain of two windows above one that
is not the bottom, plus one that goes away, and is the subject of `five_windows`.
So `ScreenIsPainted` is a statement about up to four windows. What decides who may draw
does not depend on that order; `TasksKnow` and the three exclusions are proved for any
number of windows (section 5).

**Calm senders.** In `signal_delivery` a signal is sent only if neither box can become
full by it (`Fitting`), or if nothing else waits in the kernel's box (`Alone`), so that
the program's box does become full, but with the first signal of a run of the handler.
When it becomes full later in a run, signals are passed on twice (finding 4), and none
of the properties would hold; `signal_full` shows that. The boxes of 7 words are the
smallest in which a signal of 2 words goes before the end, exactly to it, and behind a
rewind; five signals take both boxes round more than once. 470,000 states. What
`CalmSpec` says is proved for boxes of every size (section 5).

**Timers from day to day.** The driver keeps time only for clients that do what all do
in practice (`DailySpec`), and the run adds that they call it in a few chosen ticks
(`CallTimes`, those around 0, a quarter, half and all of a word) and add to a time that
is not older than a tick (`Fresh`). The two conditions of `DailySpec` are there because
the driver fails without them:

- `Near`: timers are set for less than `Horizon` ahead, in the run half a word (24 days
  at 1 kHz). Farther ones take the path that compares times, whose result is right,
  but whose interval may be given up for a number (`Interval` compares signed words).
- `IdleTooLong`: `GetTimeAndFixZero` adds what the clock has still to count to head's
  interval. When that is the mark and the clock was to count for 24 to 28 days, the sum
  looks valid (587-591).

With *three* timers, `ChainIsExact` fails even so: timers for 7, 10 and 8 ticks, set in
one tick with words of 4 bits, leave a first interval that is not the distance, since
behind the second the code takes the difference to the next node as a word although it
may not fit (437-443 and 476-481); the third then rings late. Add `t3` to `Node` in
`Timer.cfg` to see it at tick 4. On the machine this takes three timers that span more
than 24 days. So `timer` has two, and it is proved below that with any number of
timers that are set for less than a sixteenth of a word (3 days) there is no such case.

The instance has 665,000 states: 18 ticks are more than a word (16), so each timer
crosses the sign and the end of a word; delays of 3 and 7 fit, and 7 with the period of
2 and what others leave of an interval does not.

**Keyboard and mouse.** The clients are those of the repository: a reset first of all
(`init.ask`), LEDs (`decode0.ask`), the A20 line, enabling the mouse. 16 words make the
ring wrap, fill and refuse batches as 32 do with twice the batches. A key that comes
while the keyboard's queue waits is taken for the answer to its byte: that is what the
code says, and `strays` counts it. `AnswersAreNotKeys`, `LampsAreRight` and
`EndsAtLast` are claimed only while that has not happened, so only
`NoBreakpoint` looks at the case itself (the key is lost, for which the comment at 853
allows); `NoBreakpoint`,
`FreeIsExact`, `StartsEmpty` and `ImplementsQueue` always. 650,000 states. The batches
are those of `KeyClients`; what that module says is proved for rings of every size and
any number of batches and keys (section 5).

**Deadlock** is not looked for in the runs of `MCSignalDelivery`, `MCTimerDriver` and
`MCKeyQueue`: senders, ticks and users are bounded, and the system rightly stops when
they have. That it does not stop earlier is what the liveness properties say.

**Fairness.** winman0 waits in `lib_waitsignal` and handles whatever comes (weak
fairness of starting jobs, strong fairness of handling signals: the box is one FIFO,
so a signal in it is reached although handlers and jobs alternate). Each task answers
what it is told and ends what it draws (weak fairness of `Answer`). Nothing obliges
anyone to open, close, press or click; so the liveness properties except a move that
the user does not end (`job.ready`).

In a task, the kernel finishes calls, the handler its run, and the program reads its box
and then waits: weak fairness of `Kernel`, `Softint` and `Program`. Nobody has to send;
but those who send signals for the library itself must pause for ever at last
(`SendersPause`), since the handler is entered again before it returns as long as
signals come, and the program does not run. The clock ticks and its handler ends (weak
fairness of `Tick` and `Handler`); no client has to call. The queue runs on, the
interrupt of a byte is taken, and the device takes a byte (weak fairness of `Run`,
`Interrupt` and `Take`); the user need not press a key.

## 4. Findings

1. `job_movewin0` requires that its window be the top (2778) and is called with one
   that need not be (`move_behind_open`): the old top stops drawing, the new top is
   moved and keeps drawing under the frame.
2. `job_activewin0` relies on `top` and `iactive` being equal (2747); an Enter that
   arrives after the move has ended breaks that, because cases 0xd0..0xf0 do not ask
   `movewin4_ready` (`two_enters`).
3. `job_general1` says that it visits the windows from below and redraws all above a
   redrawn one (3226); it visits the bottom first and then goes down from the top, so
   marks do not travel up through more than one window (`five_windows`).

4. `usersigboxfull` tells the kernel that the signals handled so far in this run are
   done, but does not store the read position, which only the end of a run does; the
   next run passes the same signals on again (`signal_full`).
5. `softint_oldLlv`, the level to return to from the soft interrupt, is said to become
   0xff once used, and never does; with a program's box that is full when the program
   lifts its mask, an old level is restored and the program sleeps with signals in its
   box (`signal_asleep`).
6. `chain_unuse` clears the handle of a closed window so that `handle2window` does not
   find it by mistake (2192), and case 0x24 looks at a flag so that a window is closed
   once (1495). But each 0x43 makes a task send 0x24 again, and F12 sends 0x43 until the
   flag is set, that is, until the first 0x24 is heard. With F12 pressed twice before that,
   the second 0x24 may be heard after the close: `handle2window` finds nothing, and the
   flag of no window is read, or that of the window which has the handle now
   (`two_closes`: F12, F12, the task answers the first, the window is closed, the task
   answers the second).

The flaw with three timers (above) is not a finding in this sense: no comment or test
says that intervals fit.

## 5. Proofs

Each `_proofs` module follows the same line: an invariant `IInv` (or `EInv`) that is
inductive, a lemma for each action saying that it keeps it, a theorem of invariance,
and the theorems that follow from it. The assumptions are those the modules make on
their constants, and where a theorem needs one more it states it.

**`JobRing_proofs`**, for every `JOBLIST_SIZE > 1` and every set of words, commands and
batches such that zero is a word and no command, and each batch is a sequence of whole
jobs that fits into an empty ring:

- `TypeCorrect`: `Spec => []TypeOK`;
- `FramingHolds`: `Spec => []Framing`;
- `Refinement`: `Spec => ImplementsJobList`, the initial states and every step of the
  ring mapped to `JobList`.

All follow from `Invariance`, `Spec => []IInv`. `Framing` alone is not inductive: it
speaks of the command at the read position, and says nothing of the one that will be
there next. `IInv` adds that the free count is exact and the stopper stands at the
write position (`RingInv`), and that the waiting cells form a chain in which every
command is followed by its arguments and then by another command or the end
(`Chained`), for which `starts` was introduced. Most of the work is arithmetic on a
ring without `%`: the lemmas about `Slot` and `Ahead` say that they are inverse to
each other and how they move when the read position does.

**`SignalDelivery_proofs`**, for boxes of every size, any signals (long ones too) and
senders that are calm or not:

- `SendIntoIsExact`, about the operator both kernel and `pioneer0` write with: a signal
  goes in place or behind a rewind or is refused, and in each case the free count is
  still what the reader has left; the writer never reaches the reader;
- `MasksAlwaysAddUp`: `Spec => []MasksAddUp`;
- `HandlerIsNotReentered`: the soft interrupt handler is entered only if it does not
  run and the program's box is not full.

and, for calm senders (`CalmSpec`), if there are lengths and none is as long as half a
box (`CalmAssumption`):

- `CalmTypes`, `CalmCounts` and `CalmSleepers`: `TypeOK`, `CountsAreExact` and
  `NoLostWakeup` are invariants;
- `CalmNoneTwice` and `CalmAwake`: so are `NoneTwice` and `AwakeWithSignals`, which
  other senders break (finding 4 and the run `signal_asleep`);
- `CalmMailbox`: `CalmSpec` implements the initial states and the steps of `Mailbox`.

`MasksAddUp` is not inductive: that 0xff, which a return adds when the box is full, or
128 and 2 come and go in pairs depends on who may call when. `IInv` adds that the
handler waits for its return only after its run and no call of the program is open
meanwhile (`Places`), and that a full box and a request exclude each other
(`FullMasks`).

Nor are the five for calm senders, and here `IInv` does not help either. `CountsAreExact`
counts words between reader and writer, but what the reader takes off at its next step
depends on the header that lies there, and `AwakeWithSignals` on whether the program's
box can become full, that is, on every signal that is still in the kernel's box. So
the invariant `Inv` says what lies where, in both boxes at once:

- `RingsHold` numbers the accepted signals and gives each cell the number of the signal
  at which a reader would be there (`vK`, `vB`). From the reader to the writer one
  signal begins right behind the other, with a rewind between at most two such rows
  (`Row`, `Filled`); the program's box ends with the number with which the kernel's
  begins. Hence each signal is in one of them, once and in order, also in the middle of
  a run of the handler, when it has been copied but not yet reported.
- `CalmHolds` says what calm senders are for: either all that waits fits into the
  program's box, with a rewind wherever it comes (`Fit`), or it is one signal alone that
  the handler finds first in its run (`Single`). So `BoxFull` happens only when nothing
  was handled before it in the run, and a program that was interrupted asleep is not left
  asleep with a full box.
- `Control` says what the level to return to may be in each place of the handler and of
  the program.

`vK` and `vB` need not be histories of the model: they are quantified in `Held`, and
each step's lemma says what they are after it. `SendIntoFilled` and the lemmas before it do
this once for `SendInto`, for both boxes. TLC evaluated `Inv` with computed witnesses
in all states of the run `signal_delivery` before it was proved.

**`KeyQueue_proofs`**, for rings of every size of at least 2, all batches of whole
commands, either device, and whatever bytes come:

- `QueueTyped`: `Spec => []TypeOK`;
- `FreeStaysExact`: `Spec => []FreeIsExact`;
- `QueueStartsEmpty`: `Spec => []StartsEmpty`;
- `OnlyQueueSends`: nothing is sent to the device but by the queue while it runs;
- `QueueOfCommands`: `Spec => ImplementsQueue`, the refinement of `CommandQueue`.

Beside `StartsEmpty`, `IInv` says that only in the mode of the queue one is executed
(`OnlyQueueRuns`), and that what a refused batch leaves behind is a queue (`AtRest`).
That is enough for the last two. `FreeIsExact` says how many words wait and not which,
so it does not tell where a command ends or what a `quecmd_restore` frees; `QInv` adds
what the words are (`Filled`): a row of whole commands from the one that is executed up
to the end, or one up to a `quecmd_restore` and one from the start of the ring, and a
queue that does not run waits at a command that has an answer. Most of the work is in
`PutFollows`: whether a group goes behind the others, starts again at the start or is
refused, and however many have been put in before, the words in use are untouched; so a
batch refused half-way is undone by putting the end back (`PutAllHolds`).

For the refinement, `QInv` must also say that behind a command there are only words that
belong to it (`Rested`), so that a step to the next command passes over no other. `Waiting`
is what `Pending` reads from the words of the ring. Groups put into it add their commands
at its end, in place or behind a `quecmd_restore` (`PutWaits`, `AllPutWaits`); a batch that
was put adds its own and one that was refused none (`PutAllWaits`); going on to the next
command takes off the first (`AdvancedWaits`), also over the `quecmd_restore`, which is
itself not one of the commands (`RestoreWaits`). `StepImplements` gives each step of the
driver its step of `CommandQueue`: `Submit` accepts or refuses, a micro command that ends
is `Execute`, another byte than the awaited one with a check behind it is `PassOver`, all
others stutter.
`Begin` is a recursive function and is reasoned about by the smallest word up to which it
would be wrong (`BeginShift`, `BeginJoin`).

And for the batches of the clients (`ClientSpec`; `KeyBatches` and `MouseBatches` may be
any of those of `KeyClients`), any number of them, in rings of every size of at least 2,
with any number of keys, reports and repetitions:

- `ClientsNoBreakpoint`: `ClientSpec => []NoBreakpoint`;
- `ClientsAnswers`: `ClientSpec => []AnswersAreNotKeys`;
- `ClientsLamps`: `ClientSpec => []LampsAreRight`.

They follow from `ClientInvariance`, `ClientSpec => []CInv`. None is inductive: that the
byte on top is an answer depends on what the device was sent before, and what the lamps
will be on words that still wait in the ring. So each word of the ring at which a command
begins gets a *label*: how far the device is there (`stage`: nothing was sent yet, a byte
for the LEDs was announced, a check is due, all is done) and what the LEDs show. `Goes`
says which command leads from which label to which, and `Leads` that there are labels for
all words that wait, from the command that is executed to the end, also across the
`quecmd_restore` in between. `Leading` ties them to the device: the bytes under way are
what one at this label sends (`Talks`: for the keyboard nothing, an answer, or the 0xaa of
a reset, with keys only where they may be; for the mouse an answer behind whole reports, or
the bytes of a plug), and the last label has the LEDs that were asked for. A batch put
behind others continues their labels and leaves them (`LeadsPutAll`); one that is refused
changes none. That a reset is only handed in first of all (`count = 0`) is why one leads
from `"new"` alone.

**`WindowSystem_proofs`**, for any number of windows, any places and overlaps, any windows
open and free at first, and any bound on jobs and keys. Two hypotheses are stated:
`Eager = {}`, the patient user and the programs that do not close again what their library
has closed, since for others three of the runs show the contrary; and `Room`, that the list
has place for two jobs of each window and one of the user's. With the list of the code,
127 jobs, that is up to 63 windows. winman0 has 80, and beyond `Room` a close may really
be lost (hazard at `winman0.c:1497`). The first hypothesis is not a detail:
`SlotsStaySafe` does not say that winman0 is safe from a second request to close, but
that it is as long as nobody makes one, and that nothing else leads it to a slot that is
free.

- `Typed`: `[]TypeOK`;
- `SlotsStaySafe`: `[]SlotsAreSafe`, no pointer to a closed window or to none is followed;
- `TopStaysActive`: `[]TopIsActive`, the keys go to the window on top when nothing is in
  progress;
- `AnswersStayAwaited`: `[]AnswersAwaited`, winman0 counts as many answers as tasks owe,
  and each is owed for exactly one order from the order to its hearing;
- `ClosedStaysLast`: `[]ClosedIsLast`, the last a task hears is that its window is closed;
- `MovesStartOnTop`: the action property `MoveStartsOnTop`.

All follow from `Invariance`, `Spec => []IInv`. None of these is inductive, for what keeps
each of them is a step of somebody else much earlier: that a job finds its window depends
on what the task was told when it asked (`LifeInv`: where a window is in its life, and
what its task thinks of it; a window whose library has asked for its end has no 0x43 in its
box, and its request is in the box of winman0, or a job, or the task is told), on which
requests are under way (`AskInv`: one close of each window, by that; an open names the
next free slot), on what the waiting jobs are about (`JobsInv`) and which keys can come
when (`KeysInv`, the place where patience is used: a key finds no job before it, and F12 a
window that has not been asked to close, so that there is one 0x43 in its box at most,
`Orderly`); and that the
count of answers is right depends on how far the job in progress is (`JobInv`: who
`job.func` listens to, whose flags wait) and that the flags of one window say exactly what
is due (`OwedInv`). Ending a job draws an unknown number of windows at once
(`RedrawFrom`, recursive); `RedrawFromRedraws` and `General1Redraws` say by induction
over the stack, as the smallest window for which it would be wrong, that it orders what
it then waits for and nothing else.

**`WindowDrawing_proofs`**, under the same two hypotheses:

- `EnabledStayApart`: `[]EnabledExclusion`, two windows that overlap are never both free
  to draw;
- `DrawnStayApart`: `[]DrawExclusion`, nor are they ever being redrawn at the same time;
- `FrameStaysClear`: `[]FrameExclusion`, nobody draws where the frame of a moving window
  stands;
- `TasksStayRight`: `[]TasksKnow`, between two jobs each task knows the condition of its
  window and may draw exactly when nothing hides it, nothing is being drawn, and no frame
  is left.

They follow from `DrawingInvariance`, `Spec => [](IInv /\ DInv)`. What a task believes and
what winman0 has noted differ as long as an order waits in a box, so none of the four is
inductive: whether a task that is free to draw will stop before the window over it is let
draw depends on an order that winman0 sent several steps ago. `DInv` says:

- `TasksInv`: for each open window, `draw_enable` and `mode0` are what winman0 takes them
  to be (`condition`, and the flag `override` for the time of a move), or the order that
  makes them so is in the box; no order says anything else; and what a task must know
  before it redraws comes before the order to redraw (`Ordered`);
- `ApartInv`: of two windows that overlap one does not draw as winman0 sees it, and does
  not owe the answer that it has stopped;
- `IdleInv`: between two jobs no flag is left, and `condition` is what the stack and the
  places say (`Right`);
- `SteerInv`: while a window moves, it is the only one whose condition is not right, the
  frame is on the screen exactly when no answer is awaited, and `override` is the mark of
  those who are shown where it is;
- `RedrawInv`: while the windows are redrawn, those above the one whose turn it is still
  wait, with flags that carry their new condition (`Pending`), and those below it are
  done. This is why going from the bottom up is right: a window that is to be hidden
  stops no later than its own turn, and whoever hides it comes after it.

`RedrawInv` does not say that a window is marked when one below it is, which is false of
five windows; who may draw does not depend on it, only what is painted does.

**`TimerDriver_proofs`**, for any nodes, periods and delays, words of every width, any
number of ticks, and clients that call whatever they like whenever they may:

- `TimerTypeCorrect` and `TimerEachOnce`: `Spec => []TypeOK` and `Spec => []EachOnce`;
- `CallsKeepTime`: no call changes the time that `GetNowTime` tells.

`IInv` says that both chains are sequences without repetition, disjoint, together the
linked nodes, with `last` at the end of one (`Lists`), that every interval is a word
(`Typed`), and that somebody is there to be called when the handler calls.

**`TimerDaily_proofs`**, for `DailySpec` and the same constants, if `Horizon <= Unit`,
that is, if timers are set for less than a sixteenth of a word ahead (3 days at 1 kHz):

- `DailyChainIsExact`: `DailySpec => []ChainIsExact`;
- `DailyNowIsRight`: `DailySpec => []NowIsRight`;
- `DailyRings`: `DailySpec` implements the initial states and steps of `AlarmClock`:
  no timer rings before its time or after it was cancelled, and the clock does not
  pass over one.

The argument: with head in place 0, the chain is a row of times and a row of intervals,
and `Exact` says that the one is sorted, the other its differences, and the mark stands
only at the end. Putting a number in, taking one out and moving head keep that
(`InsertKeepsExact`, `RemoveKeepsExact`, `NewHeadKeepsExact`); that the code, which
only subtracts intervals, finds the place where the time belongs is `FoundIsRight`,
and that it takes none of its other paths is where the horizon is used: all differences
are less than a sixteenth of a word, and the two marks, seven and six sixteenths below
zero, can be taken for no interval and an interval for neither mark.
`EInv` adds to `IInv` that every timer is near (`Timely`), and what holds between head,
the counter and the current tick in each place of the handler (`Counting`); while the
handler looks at the chain, the first interval is in a register (`FirstInterval`).
With two timers `Horizon` may be half a word, which the run `timer` shows; with three
it may not (section 3). The bound in between is not known.

The recursion of `Behind` is a recursive function and is reasoned about by the smallest
place in which it would be wrong (`Smallest`, `SumOfIntervals`).

**Only model-checked:** all liveness and the liveness parts of the refinements (out of the
prover's reach); of the windows, `ScreenIsPainted`, which is false of five windows by
finding 3 (put it for `RedrawsAbove` in `FiveWindows.cfg`: the window on top is left with
what was drawn over it). The correspondence of `WinMan`'s `list` with `JobRing` is by
definition.

## 6. Not modelled

What a further extension would begin with:

- **`Desktop`**, an abstract specification of the windows (a stack with places and one
  active window, changed by open, raise, move and close in one step each), and
  `WindowSystem` shown to implement it. The three findings about stale requests mean
  that this holds for the patient user only.
- **Mouse and key signals of tasks** (`winman0.c:1506-1557, 2279-2360, 4574-4611`). A
  task declares which areas send it which signals; `mws_sensitivecount` is to say
  whether any are declared, but 3075 counts down only if flags are set that the line
  before has cleared. The count only saves a search (2285, 2356), and is computed anew
  the next time a task sets such flags (4574-4611).
- **The full job list** (1497): what `writejob_n` answers is ignored, and the close of
  a window is then lost. With `JobCap = 4` `WindowSystem` stops for ever. It takes some
  60 requests while one job is in progress.
- **The close button, `movewindow` messages and handlers of the program** for window
  signals: variants of what is modelled. **`cmd008` and the end of a task**
  (`pioneer0.ask:2679-2709`, `ending_count`): they close what is still marked, once more.
- **Sound tracks** (1559-1596): a table without a check of its limit, three messages
  handled one at a time.
- **Video modes** (3629-3909): a chain of requests to the v86 task, of which the
  repository has no source that says what it answers when. A failure after 3780 leaves
  the lock taken.
- **`tapi0`: which task runs**, the lists of tasks by level and memory. Interrupts are
  off; a task here just runs or sleeps.
- **Timers**: the pool of nodes (`timerdrv.ask:1085`) and the conversion of units,
  sequential; `SubTimeNode`, and `SetNowTimeNode` and `AddTimeNode` on a node that is
  linked (807), which would leave the chain unsorted: no client does it.
- **Keyboard**: the decoder of key codes, `CancelErrSignal`, and the reset of the CPU.
  `device` is one of the two for a whole behaviour: that keyboard and mouse share one
  controller, and what a command to one does to the bytes of the other, is not modelled.
- **The floppy driver** (`pcat/fdcdrv0.ask`): two state machines against a controller
  whose behaviour is in its data sheet and not in this repository.
- **`papi0`, graphics drivers, boot, fonts, pixel drawing, decompression**: sequential,
  with no protocol of their own. **`pokon0`**: its file selectors come and go with
  messages that are those modelled.
- **TOWNS and NEC98**: variants of the drivers for other hardware.
- The compilers, emulators, libraries and applications beside `src/OSASK/`.
