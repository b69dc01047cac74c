# Verification of the CS681 performance projects

The repository holds three programs about the performance of a web server:

* **A-2/simulator**, a discrete-event simulator of a multi-core web server with a
  bounded thread pool, closed-loop users, round-robin or shortest-job-first cores,
  timeouts and drops. This is the largest piece of logic and the core of this project;
* **A-3/loader.cpp**, a multi-threaded load generator with a work queue, a pool of
  workers and a "killer" thread that cancels them;
* **A-1**, two small load generators, one closed-loop, one open-loop.

Around them are scripts that start experiments, plot results and control a container.

## 1. Inventory

| Component | State | Operations | Interacts with |
|---|---|---|---|
| `Core` (`core.h`, `core.cpp`) | run queue, idle flag, `current_thread`, `busy_time` | `add_runnable`, `schedule_next_slice`, `handle_slice_start`, `handle_slice_end`, `pop_one` | pushes events to the simulator; calls `release_thread_to_pool`, which calls it back |
| `QueueingSystem`, `ThreadWorker` | `free_threads`, `waiting_requests`, the request of each thread | `set_cores`, `admit_request`, `release_thread_to_pool`, `assign_request`, `release` | calls `Core::add_runnable` |
| `Event`, `EventCompare` | the event queue, `seq_counter` | `push_event`, `pop_event` | the only way time passes |
| `Request` | service left, deadline, `timed_out`, `completion_time` | constructor, `mark_completed` | shared by core, pool, events and statistics |
| `Simulator` | clock, `all_requests`, the three outcomes | the six event handlers, `run` | owns everything above |
| `main.cpp`, `common.h` | options, distributions | parsing, sampling | parameters of the run |
| `run_test`, `WorkQueue` (`A-3/loader.cpp`) | task queue, `successful`, `stop`, latencies | push, pop, `set_done`; worker, killer and main loops | threads, condition variable, `pthread_cancel` |
| `closed_loop.cpp`, `load.cpp` (A-1) | shared counters and latencies | clients, detached requests, the loop over experiments | threads, a mutex |
| `mva.py` | none | the mean-value recursion | compared with the simulator in the report |
| scripts (`*.sh`, `*.php`, plotters) | none of their own | start, stop, plot | processes, files |

What is hard about them, and what makes each correct:

* **Simulator.** One thread, but the *simulated* system is concurrent: events of several
  users, threads and cores interleave, and events of one instant are ordered only by
  the sequence number they were created with. A core is marked idle during a context
  switch although threads may be queued; a finishing thread takes over a waiting request
  in the middle of `handle_slice_end`; a request whose user gave up stays in the server
  as a zombie. Correct means: one slice per core, a thread in exactly one place, no queued
  thread forgotten, requests served first come first served and counted once, every user
  woken exactly once, response times and utilisation that add up.
* **Load generator (A-3).** Workers, killer and main thread share two relaxed atomics, a
  condition variable and a vector under a mutex, and the killer cancels workers wherever
  they are. Correct means: no counted success is lost, the test stops neither early nor
  never, and it reports exactly its target. Inside `http_get` a worker handles descriptors
  in plain variables, with a dozen ways out: each must close what was opened and nothing
  else, and must count only a reply that arrived as far as its time.
* **Load generators (A-1).** Counters are reset between experiments while detached
  threads of the last experiment may still run.
* **Options.** The samplers of the simulator are built twice, from defaults before `main`
  and from the options after the last one; an option takes whatever word follows it.
  Correct means: a run has exactly the parameters its command line gives, or does not start.
* **`mva.py`.** A recursion whose result nobody knows by heart. Correct means: the
  throughput of the product form.

`PROJECT.json` lists each hazard at its line with the properties that guard it.

## 2. The modules

| Module | What it is |
|---|---|
| `Core` | one CPU core: the run queue of the active policy, its dispatch |
| `WebSim` | the simulator: composes the cores with the thread pool, the requests, the event queue and the users; one action per handler |
| `WebSimProperties` | types and correctness properties of `WebSim` |
| `WebSim_proofs` | theorems about `WebSim`: types, cores, and the thread pool as a station |
| `WebSimPlaces_proofs` | what each handler does to events, threads and cores; theorems about threads, busy time and the heap of SJF |
| `WebSimRequests_proofs` | the stages of a request, the loop of a user, what each slice adds; theorems about all three, among them that `UserLoop` is implemented |
| `Station`, `UserLoop` | what the thread pool promises (a first-come-first-served station, without threads, cores or time) and what the simulator promises its users (one request at a time, one outcome each) |
| `WebSimRefinement` | the refinement mappings from `WebSim` to both |
| `SimReport` | the figures `Simulator::run` reports, against what the report (`A-2/main.tex`) says they are |
| `Loader` | `run_test` and `WorkQueue` of A-3 |
| `LoaderProperties` | its properties |
| `HttpLoader` | `Loader` with the calls of `http_get` in place of its one step |
| `HttpLoaderProperties` | its properties |
| `Loader_proofs` | theorems about both, among them that `HttpLoader` implements `Loader` |
| `CommandLine` | how websim and the load generator get their parameters |
| `Mva` | the loop of `mva.py` |
| `Programs`, `ProgramsProperties`, `Programs_proofs` | `CommandLine` and `Mva` put together, their properties, and theorems about both |
| `OpenLoad` | the open-loop generator of A-1, in a timed model |
| `OpenLoadProperties`, `OpenLoad_proofs` | its properties and theorems |
| `ClosedLoad` | the closed-loop generator of A-1, in a timed model |
| `ClosedLoadProperties`, `ClosedLoad_proofs` | its properties and theorems |
| `Counting_proofs` | lemmas that several proofs need: least numbers, sums over finite sets, recursion |

### Core and WebSim

A step of `WebSim` is one iteration of the loop of `Simulator::run`: it takes the least
event by `(time, seq)`, sets the clock and runs the whole handler, with every call it
makes. `Pop` is that choice, `Emit` gives the events a handler creates their sequence
numbers in order of creation.

| Action | Code |
|---|---|
| `Init` | `reset_for_run`, `make_cores`, `set_cores`, `schedule_initial_users` |
| `ArrivalRuns`, `ArrivalWaits`, `ArrivalDropped` | `handle_user_arrival` with the three answers of `admit_request` |
| `handle_thread_slice_start` | `Core::handle_slice_start` |
| `SliceEndCompletes`, `SliceEndPreempts` | `Simulator::handle_thread_slice_end` and both branches of `Core::handle_slice_end`; the first includes `release` and `release_thread_to_pool` |
| `handle_thread_available` | the same name |
| `CompleteInTime`, `CompleteLate` | the branches of `handle_request_complete` |
| `TimeoutIgnored`, `UserGivesUp` | the branches of `handle_request_timeout` (CHECK_TIMEOUT) |
| `LoopEnds` | both breaks of the loop |

The member functions of a core are operators from a core to the set of cores they may
leave. The set has several members only under SJF, where the heap may bring out any of
several equally short jobs. `add_runnable` and the following `schedule_next_slice` thread
the core through, and the field `dispatched` collects the THREAD_SLICE_START events they push
so that the handler can order them among its own.

Abstractions. Time is an integer number of ticks; the distributions are the finite sets
`ServiceTimes`, `Timeouts`, `ThinkTimes` and `StartTimes`, and every draw may return any
member. Pointers are identifiers. A policy's unused queue is left out (it is pushed to and
never read), so are `start_time`, `retry_left`, `busy` and `assigned_thread`, which are
written and never read, and trace output. The thresholds `1e-7` and `1e-6` below which a
remaining service counts as none are the constants `DoneEps` and `CheckEps`; with whole
ticks both are 0, and `ClosedLoopEps.cfg` gives them a scale on which they differ.
Floating-point rounding is not modelled.

### Station and UserLoop

`WebSimRefinement` maps the state of `WebSim` to the two abstract specifications.

* `Station`: the customers in service are the requests that threads hold, the queue is
  `waiting_requests`, arrivals are the requests created so far and those turned away are
  `dropped_requests`. `handle_user_arrival` is `Enters`, `Waits` or `TurnedAway`;
  `SliceEndCompletes` is `Leaves`; every other handler is a stutter. The mapping hides all of
  scheduling: a thread is a busy server whether it runs, is queued, or waits for its core to
  switch. A request given up stays in the station.
* `UserLoop`: `AwaitedBy(u)` is the request of `u` that is neither answered in time nor given
  up. `CompleteInTime` and `UserGivesUp` are the two ways of `LearnsOf`, `CompleteLate` and
  everything inside the server is a stutter. When the loop of `run` ends it may take the event
  of an answer off the queue without handling it; the mapping lets nobody wait any more
  from there (`Closes`).

Both specifications are safety only: that the station serves is `NothingStranded` and
`Terminates`.

### Loader

A step is one access to a shared variable, one critical section, or one wait. Each worker,
the killer and the main thread have a place (`worker`, `killer`, `main`), named for what
they do next. `Pop` evaluates the predicate of the wait under the lock; a worker that
waits is woken by `notify_one`, `notify_all`, a spurious wake-up, or ended by a
cancellation. Cancellation is deferred (`pthread_setcanceltype`): it takes effect only in
the wait of `pop` and in the system calls of `http_get` (`CancellationPoints`). The
relaxed atomics are taken in one order for all threads: each variable is used alone, and
`latencies` is guarded by its mutex and by the joins.

The HTTP exchange is one step here that succeeds or fails; a failure may come after the last
call in which a cancellation could take effect. The order of the tasks does not
matter to any property, so the queue is its length.

### HttpLoader

| Action | Code in `http_get` |
|---|---|
| `Resolves`, `ResolveFails` | `getaddrinfo` |
| `SocketOpens`, `SocketFails` | `socket` and `continue` for the next address |
| `Connects`, `ConnectFails` | `connect`: `break` and `freeaddrinfo`, or `close`, `sockfd = -1` and the next address |
| `AddressesTried` | the end of the loop, `freeaddrinfo`, the test of `sockfd` |
| `Sends`, `SendFails`, `SendKills` | the loop of `send` and `shutdown`; the error path; SIGPIPE |
| `Receives` | a chunk of the reply |
| `ReplyEnds` | `recv` returns 0 or an error other than a timeout, `close`, the tests and `parse_buf` |
| `ReplyTimesOut` | `recv` fails with EAGAIN |
| `HttpCancelled` | a cancellation inside any of the calls but `socket`, which is no cancellation point |

Descriptors are numbers shared by the process, the system gives out the lowest one that
is free, so that a number that was closed comes back at once. `open` records which worker
opened a descriptor. A reply is known by what `parse_buf` could find in what has come so far:
nothing, text, or digits after `Time = `; that a cut inside these digits still parses is part of
it. Sending is one step: `send` in parts changes nothing but how much is left. EINTR
changes nothing.

Everything outside `http_get` is the action of `Loader`, with the variables of `http_get`
unchanged. After SIGPIPE (`killed`) nothing more happens.

### CommandLine, Mva and Programs

| Action | Code |
|---|---|
| `CmdInit` | the defaults of `common.h` and `Params`, the samplers built before `main` |
| `TakesValue`, `RejectsValue` | an option with its value: `need_value`, `parse_int`, `parse_double`, and the cases of the switch of `main.cpp` |
| `WebsimUnknown` | what `getopt_long` does with other words |
| `LoaderHelp`, `LoaderUnknown`, `LoaderRuns` | the last branches of `param_setter`, and its end |
| `BuildsSamplers`, `WebsimRuns` | `main.cpp` from the end of its loop to the start of the simulation |
| `NextUser` (`Mva`) | one turn of the loop of `run_mva` |

A command line is a sequence of words. A word is an option name, another word, or a numeral;
`7x` stands for the words that begin with a number and go on, which `atoi`, `atof` and
`stoul` read as the number and `parse_int` and `parse_double` refuse. Times are counted in tenths.
`getopt_long` is a library: the model has what `main.cpp` relies on, a required argument
is the next word, words that are no options are passed over, unknown options are errors.

`Mva` computes with fractions kept as numerator and denominator, and in units of
1/quantum, in which the demand with `--use_quantum` is a whole number. Its options come from
argparse and are any values of the constants.

`Programs` is the union of the three programs: `program` says which one a behaviour is of.

### OpenLoad and ClosedLoad

| Action | Code |
|---|---|
| `InitFails`, `Starts`, `Completes`, `Fails`, `Pushes` | `send_request` of `load.cpp`: no handle, the transfer, its two results, `push_back` under the lock |
| `ResetCompleted`, `ResetFailed`, `ClearLatencies` | the three resets of its `main`, one step each |
| `Spawn`, `ArrivalsEnd` | the loop of arrivals and the 10 s after it |
| `ReportStarts`, `ReportEnds` | the report and the 20 s after it; a push in between may be lost, as the report reads without the lock |
| `NextRate` | the loop over the rates, with the 1 s before a measurement |
| `CurlFails`, `CurlReady`, `Requests`, `Leaves`, `Succeeds`, `Fails`, `Thinks`, `Merges` | `client_worker` of `closed_loop.cpp` |
| `StartExperiment`, `JoinAll`, `Report`, `NextExperiment` | its `main` |
| `Tick` | a tick of the clock |

The correctness of both rests on waiting times, so both have a clock. It does not pass while
a thread can take a step: the time a thread needs between two blocking calls is small
against the sleeps of seconds. No transfer outlasts `CURLOPT_TIMEOUT`, which is what the
option promises. In `load.cpp` the margin is one second (31 s of pauses for a timeout of
30 s), so that the first assumption matters there: a thread delayed for longer than that is
outside the model. `latencies` is the number of latencies recorded. `sent` is a history
variable that counts the threads created for a rate.

## 3. What is checked

All with TLC; the configuration of each run is in the `.cfg` of its name.

| Run | Question | Properties |
|---|---|---|
| `RoundRobin` | Does a loaded server keep its threads, requests and users in order? | `TypeOK`, `OneSlicePerCore`, `ThreadInOnePlace`, `NoLostWakeup`, `RequestInOnePlace`, `FifoAdmission`, `OneTokenPerUser`, `VerdictsAgree`, `ResponseLowerBound`, `WorkConserved`, `ImplementsStation` |
| `Sjf` | Under SJF with free context switches, several threads on one core and a warmup: are the heap, the busy time and what the users see right? | `UtilizationBound`, `SJFKeysStable`, `ImplementsUserLoop` |
| `OpenLoop` | Does everything admitted get served when no more requests come, on two cores? | `ThreadInOnePlace`, `NothingStranded`, `Terminates` |
| `Loader` | Does a test count right, stop right and return, whenever the killer strikes? | `TypeOK`, `EverySuccessRecorded`, `ReportsTarget`, `StopsAtTarget`, `SurplusBounded`, `NoSleepingPool`, `RunReturns` |
| `HttpLoader` | Does `http_get` keep its descriptors, count only answers and end, whatever fails in it and whenever it is cancelled? | `DescriptorsOwned`, `SuccessesAnswered`, `ReturnsOrKilled` |
| `Programs` | Does every program run with what its command line says, or not at all; does mean value analysis compute the product form? | `RunsAsTold`, `RunsIfSound`, `SamplersAsTold`, `UtilizationAtMostOne`, `ProductForm` |
| `OpenLoad` | Do requests that nobody joins count once, and for the rate they were sent at? | `TypeOK`, `RoundsApart`, `EveryRequestCounted`, `LatencyPerCompletion`, `OnlyLateAnswersDisturb` |
| `ClosedLoad` | Is a report taken of a finished experiment, and is the loop closed? | `ReportConsistent`, `RequestsBounded`, `OverrunBounded` |

Four runs end in a counterexample, each a disagreement between the code and the
description of the simulator in `A-2/main.tex`:

| Run | The report says | The code does |
|---|---|---|
| `ReportWarmup` | statistics are collected only after the warmup | counts of completed, timed-out and dropped requests start at time 0 and are divided by the interval after the warmup; only the response times are filtered |
| `ReportUtilization` | utilisation is a fraction | a slice that straddles the end of the warmup is counted whole, the reported fraction can exceed 1 |
| `ReportTimeouts` | the timeouts are the requests that exceed the threshold | a request that was given up counts only once the server has served it |
| `ClosedLoopEps` | request, wait, think, repeat | a request with a remaining service between 1e-7 and 1e-6 at its deadline is not given up, and its late answer schedules no arrival: the user never comes back. It takes a service time that close above a multiple of the quantum, so it is rare with continuous distributions, yet nothing excludes it |

Disagreements found on the way that no run shows:

* `mva.py:17` subtracts `think_base` from the cycle time, while the delay it was computed with
  (`mva.py:32`) is `think_base + think_mean_exp`. The latency printed includes the mean of the
  exponential think time, 10 ms in the experiments; `main.tex` compares it with the
  simulator's response time, which does not.
* `--help` of the load generator prints the usage and then runs the test with the options before it
  (`loader.cpp:652` returns 0, and `main` stops only for other results).
* `loader.cpp:691` comments out the request that would start the container: `--memory`, `--cpus` and
  `--device-write` change nothing but the line printed before ("Starting container") and the
  CSV row.
* `--service_time_dist uniform` draws between 10 and `--service_time_avg`, whose mean is not that
  average, and for an average below 10 the bounds are the wrong way round.

### Bounds

* `RoundRobin`: 3 users, 2 threads, 1 place in the queue, so that the third user waits and a
  request can be dropped when zombies hold the server; services of 1 and 3 ticks with a
  quantum of 2 (one slice, or a full and a partial one); a timeout of 3, so that deadlines
  fall before, on and after answers; simulated time 8, long enough for each user to time
  out and come back.
* `Sjf`: 3 threads on one core, services below, above and twice the quantum, context switch 0
  so that THREAD_AVAILABLE comes at the instant of its slice's end, warmup in mid-slice.
* `OpenLoop`: 2 cores with one thread each and up to three slices per request; a timeout
  that nobody reaches, time enough for all events to run out.
* `Loader`: 3 workers for a target of 2, so that two workers can pass the target together
  while a third is cancelled anywhere; `MAX_QUEUE` = 2 delays the producer, `MAX_FAILURES` = 1.
* `HttpLoader`: 2 workers, the least number for one to meet a descriptor of another; 3 descriptors,
  so that one leaked by a cancellation leaves enough; 2 addresses, so that a failed one is
  followed by another; 2 faults in all (`MAX_FAULTS`, at most `MAX_FAILURES`, as a request
  fails after at least one fault): a failed connection and then anything else. One success is
  wanted, so that the second worker is cut off anywhere.
* `Programs`: command lines of up to four words, so that two options meet in either order, one
  is given twice, or one takes another for its value; for each program a vocabulary with an
  option of each kind, a word of each sort, and `--help`. Mean value analysis up to 4 users with
  demands from 1 to 6 and think times from 0 to 6, from a saturated to a lightly used server;
  theorems cover all longer command lines and all other numbers of users, demands and times.
* `OpenLoad`: the sleeps and the timeout of the code in seconds, so that the margin between
  them is the real one; two rates, for what one leaves to the next; arrivals for 4 s instead
  of 180, at most 4 threads at a time (`MAX_IN_FLIGHT`; a `Spawn` waits for a free place).
* `ClosedLoad`: experiments with 1 and 3 users, two to three think times long, staggered
  starts, transfers that end at once or take longer than a think time.
* In the simulator nothing else is bounded: simulated time and the finite sets of draws
  bound the run.

### Fairness

`WebSim`: weak fairness of `Next`, the loop is the program's only thread and nothing in it
blocks. `Loader`: weak fairness for each worker, for the killer and for the main thread:
threads keep being scheduled, and `http_get` returns because its socket has send and
receive timeouts. No fairness for spurious wake-ups. The server fails finitely many
requests; against a server that always fails, `run_test` does not return, and `--workers 0`
has the same effect. `HttpLoader`: the same for the
whole step of a worker, so that a worker inside `http_get` always gets to its next call. Its calls
return because of the timeouts of the socket, and a server that sends for ever is excluded: a reply
has at most two chunks that matter. `ReturnsOrKilled` allows for the signal. `Programs`, `OpenLoad` and `ClosedLoad` assume none: they have safety
properties only.

## 4. What is proved

The proof modules are checked by TLAPS from the named assumptions on the constants
(`PolicyAssumption`, `SizesAssumption`, `TimesAssumption`, `LoopAssumption`;
`LoaderAssumption`, `HttpAssumption`; `OpenLoadAssumption`, `PausesAssumption`;
`ClosedLoadAssumption`; `MvaAssumption`, `CommandLineAssumption`), that is for any number of users, cores, threads,
workers, clients and requests and for any finite or infinite sets of draws and words. Five theorems
have hypotheses of their own, given where they are listed.

`WebSim_proofs`
* `TypeCorrect` (`TypeOK`). It is more than types: events refer to users, threads and
  requests that exist, and the run queue of a core holds only threads bound to it. `TypeOK`
  is inductive; there is one lemma per action, resting on lemmas about the core operators
  (`ScheduleOutcome`, `AddOutcome`: what a dispatch can leave) and about the event queue
  (`EmitType`).
* `CoreExclusive` (`OneSlicePerCore`). Given `TypeOK` it is inductive. A handler removes one
  event and creates others for one core at most; `SlicesAfter` says what becomes of the
  slices in flight, `QuietStep` covers the handlers that touch neither slices nor cores and
  `CoreStep` reduces the others to the one core they change. The hardest case is
  `SliceEndCompletes`, where a thread may be queued by `add_runnable` on a core whose idle
  flag is still down and then dispatched by `schedule_next_slice`.
* `FirstComeFirstServed` (`FifoAdmission`) and `StationRefined` (`ImplementsStation`). `FifoAdmission` is
  inductive with `TypeOK` and `PoolExact`: every thread is either free, once, or holds a request, and
  no two hold the same. With it the number of busy
  servers is `MAX_THREADS` less the free threads, by a bijection (`BusyCount`), and the three answers
  of `admit_request` are the three arrivals of the station. One lemma per handler says that it is a
  step of the station or leaves it alone.

`WebSimPlaces_proofs`. Eleven formulas (`RunsEffect`, ..., `GivesUpEffect`) say what a handler
does: the event it takes, the ones it creates, and how cores, pool and requests change,
with `QueueBecomes` and `CoreBecomes` for the core. One lemma per action
shows that it has its effect, and the invariants below are proved from the effects, never from
the handlers.
* `ThreadsNeverLost` (`ThreadInOnePlace`). The inductive invariant is `Steady`: the invariants
  above and `ThreadsPlaced`, in which no run queue holds a thread twice, and a thread that holds a request is
  in exactly one of a run queue and the events. `OnePlace` counts the places from that.
* `WakeupsNeverLost` (`NoLostWakeup`). A core that becomes idle with threads in its queue has just created a
  THREAD_AVAILABLE; nobody but the handler of that event takes it away.
* `UtilizationBounded` (`UtilizationBound`). With `SlicesBounded`, what the slice in flight will add: a slice is
  accounted at its end, when the time that passed since its start is the slice itself.
* `KeysNeverChange` (`SJFKeysStable`), an action property: the handlers that write `service_remaining` do
  so for the request of a thread in an event, which by `Steady` is in no queue.
* `NobodyStranded` (`NothingStranded`). Without events no thread holds a request (`ThreadsPlaced` and
  `NoLostWakeup`), and by `FifoAdmission` nobody waits for a free one.

`WebSimRequests_proofs`. `UnservedKept`, `StagesEvents` and a lemma per effect say how requests move
between the stages: admitted, answered, counted.
* `RequestsAccountedFor` (`RequestInOnePlace`). From `RequestsPlaced`, what is known of a request in each
  stage, and `GoneCounted`: the requests that are nowhere are `dropped_requests` many.
* `VerdictsNeverDiffer` (`VerdictsAgree`), under `GapAvoided`. It needs `VerdictsKept`, what is known of a request that was answered or given up;
  `WholeSlices`, that a request has received whole quanta while it is unserved; and `DeadlinesWatched`:
  the CHECK_TIMEOUT of an awaited request is in the event queue before the slice that may end its service,
  so that an answer and a deadline of one instant are handled in the order `seq` gives them.
* `UsersKeepOneToken` (`OneTokenPerUser`) and `UserLoopRefined` (`ImplementsUserLoop`), under `GapAvoided` and
  `CLOSED_LOOP`. `Tokens`, which says that a user has one arrival ahead or awaits one request, is
  inductive with the above; each effect is then a step of `UserLoop` or a stutter.

`GapAvoided` says that no service time leaves, after whole quanta, a rest above `DoneEps` and not above `CheckEps`.
It holds whenever both thresholds are 0, as in the runs with whole ticks, and for every set of service times
that keeps clear of the gap of 9e-7 above the multiples of the quantum. Without it the theorems are false:
`ClosedLoopEps` is the counterexample. `CLOSED_LOOP` is what the two properties are about: in the open
mode a user never comes back.

* `ResponsesTakeTime` (`ResponseLowerBound`), under `NothingNegligible`. The inductive invariant is `Paced`: an
  unserved request that has received j slices has been in the server for at least j quanta and j context switches.
  With `WholeSlices` the last slice ends no sooner than the property says (`LastSlice`).
* `NoWorkLost` (`WorkConserved`), under `NothingNegligible` and `WARMUP_TIME = 0`. The sums of the property
  are folds over finite sets, and `Counting_proofs` shows that such a sum is the number of pairs of an
  element and a number up to its value (`SumIsCount`). The pairs of the cores and those of the requests grow
  alike: a slice that ends adds its length on both sides (`SliceCounts`), everything else changes neither (`OthersDoNot`).

`NothingNegligible` says that no service time leaves, after whole quanta, a rest above 0 and not above `DoneEps`. It holds whenever
`DoneEps` is 0, as in the runs with whole ticks. Otherwise `handle_slice_end` drops such a rest, and both are false by it.
During a warmup slices are served but not accounted.

`Loader_proofs`
* `LoaderTypeCorrect` (`TypeOK`).
* `StopOnlyAtTarget` (`StopsAtTarget`). Strengthened by `TargetSeen`: whoever is about to store
  `stop` has seen the target reached, and the counter only grows.
* `SuccessesRecorded` (`EverySuccessRecorded`). Inductive with `TypeOK`: counting moves a worker
  into `Unrecorded` and recording moves it out, no other step may, in particular no
  cancellation.
* `TargetReported` (`ReportsTarget`). From the two above and `Joined`: past its loop the main
  thread has seen `stop`, past the joins everyone has ended and nobody starts again.
* `SurplusIsSmall` (`SurplusBounded`). From `SurplusLeaves`: each success at the target or
  beyond it was counted by a worker that leaves, and leaving is for good.
* `PoolNeverOversleeps` (`NoSleepingPool`). The property says nothing of a state in which a worker is up, so it is
  not inductive. `TasksNotified` says that while someone waits the tasks are at most the workers woken and not yet up, plus the
  `notify_one` that main still owes. `EndNotified` says that someone waits after the end only while a `notify_all`
  is still owed, so a woken worker that is cancelled instead strands no one.
* `HttpImplementsLoader`: every step of `HttpLoader` is a step of `Loader` or a stutter, with no invariant needed.
  `HttpCountsRight` carries `EverySuccessRecorded`, `ReportsTarget` and `SurplusBounded` over, and
  `HttpPoolNeverOversleeps` carries over `NoSleepingPool`.
* `DescriptorsStayOwned` (`DescriptorsOwned`). `Owns` ties the open descriptor of a worker to the call it is
  at, `OneOwner` says that no number is open twice; `ClosesOwn` follows from both: closing `sockfd`
  closes what this worker opened and nothing else. Steps outside `http_get`, returns, and
  steps to the next call are each reduced to one lemma.
* `SuccessesBacked` (`SuccessesAnswered`). `RepliesInv` adds to the workers with an answer those inside `http_get`
  whose reply already holds its time (`Backed`): a reply is counted when it gets there, and can
  only turn into one success.

`OpenLoad_proofs`
* `OpenLoadTypeCorrect` (`TypeOK`).
* `RequestsStayInTheirRound` (`RoundsApart`) and `ReportAwaitsAnswers`
  (`OnlyLateAnswersDisturb`). Both from `InTime`: a thread in flight is at most `TIMEOUT` old, and
  the wake-up time of the main thread is at least its start plus the pauses so far. When the
  counters are reset all three pauses are over, `PausesAssumption` says they exceed `TIMEOUT`,
  hence nothing is in flight.
* `RequestsCounted` (`EveryRequestCounted`) and `LatenciesMatch` (`LatencyPerCompletion`). From `CountsInv`, which says what
  holds between the three resets too; they rest on `RoundsApart`, as an answer between two
  resets would break the sums.

`ClosedLoad_proofs`
* `ReportsComplete` (`ReportConsistent`). The latencies that clients have not handed over yet are counted as the
  pairs of a client and a number (`Pairs`), so that no sum over clients is needed: `latencies` and
  the unmerged pairs make `success_cnt` (`Sums`), a client without a handle has no latency to lose, and after the joins no pair
  is left.
* `ClosedLoopBound` (`RequestsBounded`). There is a number of answers for each client (`AllPaced`) that
  add up to the counters and are a think time apart (`Paced`); the last was asked for before the end, so that
  each is at most (`DURATION` - 1) / `THINK_TIME` + 1.
* `OverrunIsShort` (`OverrunBounded`). From `OnTime`: what a client waits for ends before the bound, and the clock
  does not pass it. That the longest of the `Responses` exists is proved too (`LongestResponse`).

`Programs_proofs`
* `UtilizationIsBounded` (`UtilizationAtMostOne`). The bound is not inductive by itself: it needs the queue to be
  long enough, at least n less Z/S with n users, which the next turn preserves because the
  utilisation it computes is at most one.
* `ThroughputOfProductForm` (`ProductForm`). The inductive invariant `ProductInv` adds Little's law for the users who think. The weight of
  m + 1 users is a power of the think time and a multiple of the weight of m users (`WeightGoesOn`), term by term (`Terms`), and
  the turn of the loop does the same to its fraction (`ProductStep`). Underneath are facts about the recursive functions: that
  `factorial` and `Powers` exist and go on as they say (`Recursion`), that m!/j! is whole (`Quotients`). They are shown
  by induction for one set (`Induction`), from least numbers, which needs no operator as a parameter.
* `OptionsAreTold` (`RunsAsTold`), `OnlySoundLinesRun` (`RunsIfSound`) and `SamplersAreTold` (`SamplersAsTold`). The
  properties read a whole line at once, by positions; `NamesExist` shows that the positions of the option names they choose
  exist, and are unique, in every line. The inductive invariant `CmdInv` says that while a program reads, what it has
  read was sound, the next word is no value, and its options are what these words tell (`Sound`), and how it came to its
  outcome (`Ended`).

Every safety and action property that a passing run checks, and both refinements, are proved. Only model-checked,
for good, are the liveness properties `Terminates`, `RunReturns` and `ReturnsOrKilled`, which are outside the
prover's reach. The four runs that end in a counterexample need no proof.

## 5. What is not modelled

* A second run of the same `Simulator` object: `reset_for_run` leaves the cores, the waiting
  queue and the event counter as they were. `main` runs once per process.
  The model would have to take a step that the program does not take.
* The rest of what the programs do: printing, trace files, averages and percentiles, abbreviated
  options. Floating-point rounding.
* The values of service times in replies (`parse_buf` returns one, the model knows that it did).
* The container scripts run one command each and leave their state to docker, the experiment drivers
  are loops that start programs with fixed options, the plotters read logs: input and
  output only, without state of their own.
* `A-1/report.tex` gives a request timeout of 20 s; the model has the 30 s of `load.cpp`.

## 6. Plan

In this order:

1. done: `Core`, `WebSim`, `WebSimProperties`, `SimReport`; types and one slice per core proved.
2. done: `Loader`, `LoaderProperties`; all its safety properties but one proved.
3. done: `OpenLoad` and `ClosedLoad`, the A-1 generators; what separates two rates proved.
4. done: `Station` and `UserLoop`, implemented by `WebSim`; the station proved.
5. done: `HttpLoader`, implementing `Loader`; the ownership of descriptors proved.
6. done: `CommandLine`, `Mva`, `Programs`; the bound of the utilisation proved.
7. done: the invariants of threads, requests and users, and `UserLoop` implemented by `WebSim`; the
   pool of `Loader`, the replies of `HttpLoader`, the counts of `OpenLoad` and `ClosedLoad`.
8. done: response times and the work of the cores, command lines of any length.
9. done: the product form.
