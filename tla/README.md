# Verification of fnec-rust

TLA+ modules, TLC configurations and TLAPS proofs about fnec-rust, a
method-of-moments antenna solver: its distributed sweep (`crates/nec_worker`), its
desktop program (`apps/nec-gui`), its command line (`apps/nec-cli`), the GPU device
they share (`crates/nec_accel`), and the path of a deck from its text to cards
(`crates/nec_parser`) and on to the geometry, sections, equations, caveats and sources
of its solve (`crates/nec_solver`). Every definition is
translated from the source; `PROJECT.json` maps each one to the lines it stands for.

## The system

fnec-rust is a workspace of libraries and three front ends. A deck is parsed, its
geometry built, a matrix filled and solved, a report printed. What a test hardly
reaches lies in two places: at the edges, where the program waits for something
(workers, tasks, files, a device), and in the bookkeeping that decides what is
solved (which segment a card names, where one conductor ends and the next begins,
which solver holds which feature of the deck).

| Part | State | Operations | Interacts with | Hard behaviour | Correct when |
|---|---|---|---|---|---|
| Worker pool (`pool.rs`) | the handles, `next_worker`; in a batch: cursor, slots, orphans, survivors, strikes | `dispatch`, `dispatch_batch`, `shutdown_all` | owns the handles; called by the distributed sweep | one thread per worker, failures in mid-task, a second, sequential phase | each task gets one outcome; no worker or task is lost or doubled; a task that kills workers is stopped after two; a task is given up only on an empty pool |
| Worker handle (`controller.rs`, `ssh_worker.rs`, `pipe.rs`) | a child process, its writer and reader threads, a poisoned flag | `dispatch`, `reconnect`, `shutdown`, `Drop` | pool above, worker process below | deadlines, death at any step, reconnect and resend | a result is its own task's; every wait ends; what a failure says of the task is true |
| Worker process (`worker.rs`) | stdin's unread bytes, one buffer | the read loop, `process_task` | the handle's pipe | bounded reads, over-long lines, panics, EOF in mid-line | one answer per line, in order |
| Protocol, host list, capability (`protocol.rs`, `hosts.rs`, `capability.rs`) | none | parse, serialise | | | |
| CLI: one run (`main.rs`, `solve_session.rs`) | execution mode, shared counter, GPU lane, results kept | input checks, `resolve_execution_mode`, sweep on threads with a GPU lane, or on workers; output | pool, calibration, device | fifteen checks in an order, a memory budget, failed points, five solvers with fallbacks | a refused run does nothing; every point once, in order; no answer is another antenna's |
| CLI: calibration (`exec_calibration.rs`) | three files: calibration, lock, declined marker | offer, measure, save | other fnec processes | stale-lock take-over, kill at any step | processes measure alone; no half file is read; no lock left behind |
| CLI: refine | candidates | cards rewritten for a refined mesh | geometry builder | refined decks renumber | a reference names the place the deck names |
| CLI: converge, resonance, match (`converge_cmd.rs` with `convergence.rs`, `resonance_search.rs`, `match_cmd.rs` with `lnetwork.rs`) | meshes solved, a bracket, points read back | a study, a bisection, one network after another | repeated solves, the run as a child process | a refusal half way through a study; a series that only looks settled; a jump for a crossing; roots that do not exist or coincide | what is printed is what the solves showed, and a refusal costs no solve |
| Frequencies (`frequency.rs`) | none that outlives a run | list, range, FR cards | run, GUI, workers | an end on the grid but for rounding; cards that replace each other; a cap on points | the points are those typed, what is left out is said |
| GPU device (`wgpu_device.rs`) | `GPU_CACHE`: untried, ready, or failed since | `shared_device`, discard, waits | threads of a sweep | loss and hang while others wait, backoff | one build at a time; the driver is spared; a healed device serves |
| GUI reducer (`app_state.rs`) | phases with run ids, results, caveat strip | one arm per message | tasks spawned by `main.rs` answer with messages | answers in any order, after the state they were asked for has gone | nothing stale shown, nothing awaited for ever |
| Sweep stream (`sweep_stream.rs`) | its place in the sweep | one message per step | reducer | two streams at once, failure on the way | one sweep on screen, qualified by its caveats |
| Viewport legs | geometry, currents, grid, lobe, what is drawn | three loads, toggles, the editor's preview | reducer, editor | legs that land in any order, or after an edit | what is drawn is what is held |
| Deck editor (`model_doc.rs`, `deck_write.rs`) | document, undo and redo, file binding | edits, undo, load, save | reducer, file system | loads and saves in flight across edits; two saves at once; a crash in a save | a file holds what the document said; "saved" is true when it is said |
| Parser (`nec_parser/src/lib.rs`) | cards, program cards, warnings; a tapered wire awaiting its GC; the GE line, the last GN | one arm per mnemonic | text in, cards out; the editor's writer is its inverse | a card's meaning depends on its place and on how its fields are spelled; retired layouts | what a deck says is solved or named; what the editor writes is read back |
| Geometry builder (`geometry.rs`) | segments with tags and numbers | GW, GM, GR, GX, GS, free-end refinement, references | everything that solves | copies compose; refinement shifts numbers; cards in any order | references name one place; conductors are whole |
| Section graph (`section_graph.rs`) and Hallen routing (`hallen_session.rs`) | sections, nodes, the rows and groups of a system | cut, walk, junctions, layout | geometry, solve session | interior joints, radius steps, loops; the equations written once over paths and once over the graph | sections are the maximal straight runs; both layouts are one system, determined |
| Caveats (`validate.rs`), MPIE refusals (`mpie_session.rs`) | none | asked before a solve | geometry, routing, ground contact, every front end | each works out again what the solve will leave out | what is said of a deck is true of its solve |
| Ground contact (`ground_contact.rs`) | the doubled structure | image, map back | geometry, loads | image tags among the deck's | each image is its original's |
| Excitation (`excitation.rs`) | driven segments | EX cards in order | geometry | cards that replace and cards that add | the drive is NEC-2's |
| Loads, networks, other validation, far field, reports, project files, Python bindings | none that outlives a call | pure or sequential | | floating point, text | see Not modelled |

`PROJECT.json` lists every part under `components` with its status, and every
hazard, at its line, under `hazards` with the properties that would catch it.

## The modules

| Module | Models | How |
|---|---|---|
| `BatchService` | what a batch promises its caller | abstract: a batch opens, tasks settle once, workers are lost, a batch closes complete |
| `WorkerPool` | `pool.rs` | each thread step, each retry and each call is an action; a handle's answer to a dispatch is one step, chosen from the constant `Answers` |
| `MCWorkerPool` | | the two sets of answers, local and ssh, and the symmetry of the workers |
| `WorkersProofs` | | the theorems about `WorkerPool` (its types, its safety, that it implements `BatchService`), about `WorkerLoop`, and about `MCWorkers`, which composes them with a handle |
| `WorkerHandleProofs` | | the theorems about `WorkerHandle` |
| `GuiProofs`, `EditorProofs`, `CliProofs` | | the theorems about what the runs `gui`, `editor` and `cli` check: `MCGui`, `MCEditor`, `MCCli`; `GuiProofs` also holds those about `GuiRuns`, `GuiSweep` and `GuiViewport` |
| `DocumentProofs` | | upon `EditorProofs`, what a save writes reads back |
| `DeckProofs`, `DeckReferenceProofs` | | the theorems about `Deck`: its types, its drive and its images; and, upon those, where a card's reference leads |
| `WorkerHandle` | `controller.rs`, `ssh_worker.rs`, `pipe.rs`, with the process at the other end | the caller is at one of the waits of `dispatch`; a connection is one record: child, worker, the line in the writer thread's hands, unread lines either way. Handing a line over, writing it, acknowledging it and taking the ack are four steps |
| `WorkerLoop` | `run_worker_stdio` | stdin is a sequence of what is left of each line, in bytes |
| `MCWorkers` | | the pool and both ends of a worker's pipe for TLC |
| `GuiRuns` | tabs and caveat strip of `app_state.rs`, spawns of `main.rs` | one call of `FnecGui::update` is one step; `tasks` is what was spawned and has not answered |
| `GuiSweep` | sweep phase of `app_state.rs` with `sweep_stream.rs` | a stream sends one message a step; streams interleave |
| `GuiViewport` | the viewport's three legs, toggles and the editor's preview | as `GuiRuns`; what is held and what is drawn are separate |
| `MCGui` | | the three panels over the deck path and the solver they share |
| `DeckText` | `parse` | a line is a mnemonic and its fields, a field a number in halves and how it is spelled; `ReadLine` folds a text into cards, records and warnings |
| `DeckDocument` | `model_doc.rs`, `deck_write.rs` | a document is three sequences of entries, an entry a card whose boxes hold what was typed; one action per kind of edit; `WriteDeck` is the text a save writes |
| `MCText` | | four alphabets of lines |
| `DeckEditor` | editor, undo history, loads, `save_deck_file` | each call on a file is a step; a file's content is two halves, so that a reader can come between |
| `MCEditor` | | `DeckEditor` and `DeckDocument` for TLC |
| `SolvePoint` | `solve_frequency_point` and the worker's `solve_deck` | operators: which solver answers a point, after which declines and fallbacks, and which features its equations hold |
| `CliRun` | one run of `fnec` | checks in order, mode pick, threads that claim points, the GPU lane, one batch on workers (an outcome per point, as `BatchService` promises), output |
| `Calibration` | the measurement of a host by several processes | each call on a file is a step; a process may be killed between any two |
| `GpuDevice` | the shared device | threads ask, build, wait and blame; the driver fails and heals; a clock ticks |
| `MeshStudy` | `fnec converge` and the settle rule | refine and judge every factor, then solve mesh by mesh, then judge each series; a tail is compared as the quotient of integers it is |
| `Resonance` | `bisect` behind `sweep --resonance` | one probe a step; a probe may fail or answer any reactance |
| `MatchRun` | `fnec match` | what is typed or read back from a run, one point after another |
| `LNetwork` | `lnetwork.rs` | the formulas on exact quotients, over loads and targets whose roots are rational |
| `Frequencies` | `frequency.rs` and what `main.rs` says or refuses of a run's frequencies | cards on integers, a range in halves of an ulp with the sum of its roundings chosen |
| `MCCommands`, `MCCli` | | the commands, and with them one run, the calibration and the device, for TLC, and what is asked of each |
| `DeckGeometry` | cards to segments, numbering, refinement, references, images | pure operators |
| `Conductors` | wires, conductor paths, order, section graph | pure operators on a segment list |
| `HallenLayout` | what a Hallen solve makes of its conductors | pure operators: the groups with constants of their own, the points their corner terms refer to, the rows; from paths and from the graph |
| `DeckDrive` | EX cards to driven segments | pure operators, with NEC-2's rule beside them as the reference |
| `Caveats` | the caveats of a Hallen run, the refusals of the MPIE | pure operators on the problem the solve runs on, each beside what it second-guesses |
| `Deck`, `MCDeck` | a deck read card by card, built and driven | one action per card; the geometry is extended by `GeometryCard`, judged and built by `GeometryEnd` |

`WorkerPool` sees of a handle only its answer and whether a process was lost with
the task. `WorkerHandle` is where that pair comes from: by `AnswerContract` a local
handle loses no process when it answers with a result or a task's fault, exactly one
when it answers "worker", and one at most when it answers "unreachable" because its
write timed out; those are `LocalAnswers`. An ssh handle may lose up to two and answer
anything; `SshAnswers` has those that lose one. `CliRun` in turn sees of the
pool what `BatchService` promises, which `WorkerPool` implements
(`ImplementsService`): every task one outcome by the time the batch returns.

### Correspondence and abstraction

* Pool: the cursor and indices count tasks from 1, `next_worker` and `try.idx` from
  0 as the code does. `slots`, `orphaned` and `survivors` are mutexes taken for one
  statement; each such statement falls in the step of the worker thread it belongs
  to, because no other thread reads them before the scope ends. A slot's value is
  how the dispatch ended ("ok", "task", "blamed", "lost"), not its text.
* History variables, which properties read and no guard does: `charged`, `deaths` and
  `evicted` (pool); `lost`, `read` and `expired` (handle); `asked`, `refreshed` and `kept`
  (GUI); `from`, `owned` and `own` (editor); `robbed` (calibration); `standing`,
  `missed` and `dying` (device).
* Handle: time is not modelled, a deadline may expire at any wait. A line that is half
  written is still in the writer's hands (`job` is "queued"). `WriterGone` and
  `Poisoned` are cases of a failed write; a poisoned pipe is always dropped, because
  a timed-out write ends the dispatch in "unreachable". A line that arrives in parts
  makes the reader wait for the rest, which is the same as not having arrived.
* GUI: a result is where it came from (deck or document, solver); the vars file is
  part of the deck in `GuiRuns` and `GuiViewport`. A run id is minted anew in the
  code and here from the least number nothing holds, so that a behaviour may go on
  for ever. Sorting, camera, text fields and rendering are left out.
* Editor: a document is its text, one of `Texts`, or `Bad`, a half-typed field that
  does not render. A template file loads through the vars file as another text. A
  crash loses the session and leaves the files; the next process has another id, so
  a temporary file left over is never used again and is dropped from the state.
* `SolvePoint` and `CliRun`: a run record says what a deck has (a current source, a
  network, a wire that touches ground), not its numbers. Where a number decides (a
  residual, a device that fails) either outcome is possible.
* Device: the clock counts seconds; the driver answers within one. `MAX_BACKOFF` 3
  and `GPU_WAIT_TIMEOUT` 5 stand for 60 and 120: the timeout is longer than the
  longest backoff, which is what matters, and 3 is not a power of two, so the cap
  is seen to bite.
* Decks: points lie on an integer grid, scaled by 3 so that a segment can be refined
  by the code's factor and its middle still be a point; comparisons are exact where
  the code has tolerances; rotations are quarter turns. Arcs, helices and tapered
  wires are left out. A refused deck is a value of its own.
* Text: numbers are in halves, which is enough to tell a fraction from a whole number
  and both from a spelling no parser reads; angles and digits (`360`, XNDA) keep
  their values. A field past those a card reads is written only where an arm looks
  at it. Comments carry no text, a refusal only its kind.
* Commands: a study's meshes answer integer series chosen with it, so that a tail
  `d2 r / (1 - r)` is compared without rounding; a later mesh has the feedpoints of
  the first. A search knows of its curve only what it has probed, on an integer grid
  whose middle is the code's; tolerances are not negative, and reading the template
  is left out. A network's elements are exact quotients. Where rounding decides, in
  a range's count, it is modelled: quantities are halves of an ulp of the largest
  frequency, `Tolerance` 8, `MinStep` 16 and `Rounding` 5 being the code's 4 and 8
  ulp and what five roundings add up to.
* Panels: `MCGui`, `MCCli`, `MCEditor` and `MCWorkers` hold several specifications, and each of
  their behaviours uses one of them. That is sound because none writes what another
  reads: a reducer arm of one panel of the desktop program touches no field of
  another but at the solver switch, which resets each alike, and each panel
  includes that switch; the calibration's files and the device's cache are read by a
  run once, as the fields `calibrated` and `device` of its record, whose values are
  all considered, and each command is a process of its own; the pool takes of a handle the answers `AnswerContract` allows, the handle of the
  worker that it answers or dies, which the loop shows; the editor's files hold a text
  as a whole, and what the text says is `DeckDocument`'s.

Every bound is a constant: `MaxTasks`, `MaxCalls` (pool; `MaxTasks` also the
viewport's tasks in flight), `MaxDispatch`, `MaxLines`, `MaxRuns`, `MaxSweeps`,
`Points`, `MaxLoads`, `MaxSaves`, `MaxCards`, `MaxSources`, `DrivenDecks`,
`MaxFailures`, `MaxPoints` (points a child of `match` prints), and `max` of each alphabet (lines of a text and edits of it together;
a document that has become invalid is not edited on). They limit how often something is started, nothing else, but for
`MaxTag` (a tag past it is refused, as in the code one past `u32`) and
`MAX_HISTORY`, `MAX_SEGMENTS`, `MAX_FR_POINTS`, `N`, `Threads`, which are the code's own limits made
small. `Overlap` and `Outlasts` are switches: may a file be saved while a save to it
is in flight, may a measurement outlast the age at which its lock counts as stale.

## The runs

| Run | Question | Bounds, and why they are enough |
|---|---|---|
| `workers` | can threads, faults and retries lose or double a worker or a task, or let a task kill too much? Does the pool implement `BatchService`, does every call return? What does a handle's answer say of the task when its caller, its writer thread and the process race, is a result its own task's, do waits end? Is every line answered once, in order? | pool: 3 workers, 3 tasks, 2 calls, answers of local handles: two deaths in the batch phase and one more in the retry; a second call on a shrunken pool with `next_worker` moved; the safety properties are proved for every size. Handle: both kinds, 3 dispatches: a late line of an earlier dispatch needs two, one more shows that it does not pile up. Loop: maximum of 3 bytes, lengths 1, 2 and 4 to 8: one, two and three reads for a line, and a drain that ends on and off a chunk's boundary; 2 lines, every kind |
| `handle_late_write` | (violation) is a task answered "unreachable" one no worker has read? | one dispatch, either kind of handle |
| `pool_ssh_budget` | (violation) is the strike budget kept over ssh? | 4 workers, 4 tasks, 2 calls, answers of ssh handles, workers symmetric |
| `loop_exact_maximum` | (violation) what does a line of exactly the maximum do? | the same, with lengths 2 and 3 |
| `gui` | is anything stale shown, awaited for ever, merged or drawn over an edit? | 2 decks, 2 solvers; 4 run ids: two asks, or an ask between two switches of solver, with every order of their answers; 3 sweeps of 2 points; 2 viewport tasks in flight, a deck and an edit |
| `gui_strip_deck` | (violation) do the caveats describe the deck in front of the user? | one solver |
| `editor` | does a file hold one whole deck, is a document saved only over its own file, is "saved" true when it is said? Is what a deck says solved or named, and what is saved the document? | files: 2, one with or without a template, 1 text besides `Bad`, a history of 1, one load and one save in flight at a time and any number in sequence, a crash anywhere. Text: every sequence of up to 4 of 12 lines about tapers and comments, 3 of 22 about geometry, 4 of 11 about ground, 3 of 35 program cards, each form an arm tells apart; an edit takes the place of a line, and every box is given each of five inputs |
| `editor_shared_temp` | (violation) and two saves of one file at once? | 1 file, 2 texts |
| `editor_added_entry` | (violation) and a wire or a control added to a deck that has no plain wire? | the same alphabets, two lines or one line and one edit being enough |
| `cli` | is a refused run refused before it does anything, every point answered once and by equations that hold the deck? Do two processes measure at once? Is the driver spared, and used again when it heals? Is what a study, a search or a match says true of its solves? Are the frequencies those typed? | 3 points, 3 threads; every combination of solver, drive, route, ground, networks and loads; every mode with every memory budget; every pair of failing checks, which is what an order of checks is about. 3 processes, 2 of them asked: one to leave a lock, two to find it. 2 users of the device: one that holds it while the other rebuilds. Every series of four values of 4, and two feedpoints of three; every way a list of factors is refused. Searches over a range of 16 with a resolution of 2 and up to 4 halvings: all three exits of the loop, every sign at every probe. 12 loads and 6 targets with none, one or two roots per topology. Ranges of every remainder around 8 ulp, 1 to 3 points allowed; up to 2 FR cards |
| `deck` | do references survive refinement and images, does the order of cards matter, are sections the structure, do the two layouts agree, do the caveats say what is left out, is the drive NEC-2's? | every deck of up to 3 of 10 wires and 8 moves, 9 segments (the cap is reached), 3 EX cards of 7 on one deck: the shapes are an arm in both directions, a mast, a tee, a step in radius, a loop, a slanted link and a tag-0 wire. On each deck the layout is asked with a feed on every segment, on every two neighbours, and with a load on every segment, and the caveats with a feed on every segment |
| `deck_image_tags` | (violation) do images carry their originals' loads? | the same decks |

`CHECK_DEADLOCK FALSE` stands where the system really stops: a pool closed, a
handle retired, a worker that has seen shutdown or EOF, a GUI out of run ids, a run
of `fnec` that has ended, a deck that is built.

### Fairness

* `workers`, pool: weak fairness of the calling thread and of each worker thread. The
  operating system schedules threads, and a dispatch ends because every wait in it
  has a deadline: that is what `DispatchReturns` checks in `WorkerHandle`. New calls
  are not fair; the caller owes none.
* `workers`, pipe: weak fairness of the caller, whose waits are bounded by `recv_timeout`
  and `SHUTDOWN_GRACE`, and of the worker's own loop, since a solve is a finite
  loop. Nothing is assumed of ssh or of the other end, which may be silent for ever.
* `gui`: weak fairness of the tasks and of the streams, by run id; the executor polls
  every task. The user owes nothing.
* `cli`: weak fairness of the run's next step, of a command's, since each is a
  sequential process whose solves are finite loops, of each thread that uses the device
  and of the clock. The driver may stay ill, a process may be killed, and nobody
  need start a calibration.
* `editor`, `deck`: none; nothing there is promised to happen.

## What the checks show

All safety and liveness properties of the passing runs hold. Of the
statements of the repository that do not hold of the code, seven have a run that shows
it:

1. **A line of exactly `MAX_LINE_BYTES`** is read together with its newline, so the
   read returns one byte more than the maximum; the loop takes the line for
   over-long and drains "the rest of it", which is the next line. That line is never
   answered, and if none follows the worker waits (`worker.rs:34`).
2. **Changing the deck** clears the caveat strip and leaves the refresh armed, so one
   in flight fills the strip with the previous deck's caveats (`app_state.rs:733`).
3. **Over ssh a task can cost the pool more than `MAX_DIED_HOLDING` workers** without
   a strike (`pool.rs:226`).
4. **Two saves of one deck file** share one temporary file; the first rename can
   publish what the second has half written (`deck_write.rs:331`).
5. **The image of a tag-0 wire** gets the tag of the deck's largest-tagged wire, and
   with it that wire's whole-tag loads (`ground_contact.rs:94`).
6. **What is added in the editor to a deck without a plain wire** (arcs, helices or
   tapered wires only) is written behind the deck's GE, where the parser refuses it, or
   behind its EN, where nobody reads it (`model_doc.rs:550`).
7. **A write that times out leaves its line with the writer thread**, which may have
   written it already or write it until the handle is dropped: a worker can read, hold
   and be killed with a task that was answered "unreachable", though every failure of a
   write is documented as a line not delivered (`pipe.rs:79`, `pipe.rs:182`). Over ssh
   the same answer follows when the first connection delivered the task and the
   reconnect or the resend fails (`ssh_worker.rs:185`). Nothing is lost by it but a
   strike: a worker lost so is charged to nobody, as in number 3.

What holds is as telling: nothing else stale reaches the screen; a timed-out worker's
late answer is never taken for another task's although nobody compares `task_id`;
the retry loop skips no live worker although it indexes a vector it shrinks; a
crash at any step of a single save leaves the old deck or the new one; no order of
the command line's checks lets a refused run print, solve or dial, but for the two
refusals that come of the dialling and the solving themselves (no host answers, and
`RefusedBeforeSolving` below); no fallback drops
a feature of the deck; a renumbered, refined or doubled geometry keeps every
reference where the deck put it; the equations over paths and those over the graph
have the same sections, rows and references wherever both apply; no line between a
tapered wire and its GC goes unnoticed, no field NEC reads is dropped without a
warning but for those named below, and no edit makes the saved text a card of another
layout.

Two caveats never fire for a geometry Hallen solves, because its builder refuses
those that would: a topology nothing takes, and a feed on a junction that neither
paths nor graph carry. `CaveatsSayTheRoute` states that. It states only one
direction of the caveat on joined rows: the caveat judges each path by itself, while
a single path with a short section sends every path back to one pair of constants,
and then it speaks of a row that is not there.

### Divergences without a run

Each of these is stated beside the model it is about and does not hold of it; they
have no run of their own, because they follow from or resemble one above, or weigh
less than those that have one.

* `GuiRuns.CaveatsOfSelectedSolver`: picking a solver refreshes the caveat strip with
  the caveats of the solver just left, because `update` reads `self.state.solver`
  before the reducer changes it (`main.rs:159`; `app_state.rs:531`).
* `DeckEditor.UnmarkedIsOnDisk`: undoing an edit that a save has written, or is writing,
  brings back a snapshot with the `dirty` flag it had, so the document is not marked
  "unsaved" and its file holds another text (`model_doc.rs:739`; line 13 says the flag is
  "set on any edit, cleared on save"). A load that reads the file before a save in flight
  replaces it ends likewise. `SavedIsOnDisk` is about the step that marks a save only.
* `GpuDevice.HungDeviceBacksOff`: a device that hangs at every dispatch is rebuilt after
  the shortest backoff each time, because a hang takes longer to notice than the longest
  backoff, so the device counts as one that had served (`wgpu_device.rs:272`; line 447 says
  it "is not rebuilt at every point").
* `GuiViewport.CurrentsOfTheGeometry`: the currents, the grid and the lobe drawn over
  a geometry may be of another deck, after a load that fails or a path that changes
  between two legs (`app_state.rs:238`, `app_state.rs:864`).
* `Calibration.NeverTwoMeasure`: the take-over of a stale lock stats, removes and
  creates in three steps, so of two processes that find one stale lock the second
  removes the lock the first has just made (`exec_calibration.rs:247`). `MeasuresAlone`
  says that nothing else lets two processes measure at once.
* `CliRun.RefusedBeforeSolving`: a run with `--output nec2d` and an RP card that the
  automatic pick sends to the GPU is refused only after it was solved
  (`main.rs:514`; `docs/cli-guide.md:884`).
* `MeshStudy.DriftIsNotSettled`: a series whose steps stay within 0.7 to 1.3 of each
  other is called a drift "for which no tail exists" (`convergence.rs:54`), and yet the
  same rows get a tail and may be called settled. The tail of an alternating series is
  likewise that of a monotone one: the rule takes lengths of steps, not signs, and
  `SettledIsPriced` says of a series only how far it may still go.
* `Resonance.ConvergedWithinTolerance`: the result says converged when the bracket is
  narrower than the resolution, also at a jump where no reactance is within the
  tolerance (`resonance_search.rs:196`; the field's doc, line 112, says "within
  tolerance_ohm"). `ResultIsSeen` says that such a value stands beside a crossing.
* Two bends of one tag make one wire, so a section can hold a bend where
  `section_graph.rs:9` says "maximal straight run", and the graph route solves that
  bend without bend rows and without a caveat. `ConductorsAreTheStructure` says of the
  graph, and `CaveatsSayTheRoute` of the graph route's bends, that they are right for
  decks whose wires carry tags of their own (`PlainlyTagged`).
* A thread that still waits on a lost device discards whatever device is cached when
  its wait ends, a rebuilt healthy one too (`wgpu_device.rs:449`). Today's programs
  let one thread at a time use the device; `DeviceBacksOff` allows the rebuild.
* The parser takes some numbers for others without a word: a fraction in GM's tag
  increment is cut (`lib.rs:705`, where `lib.rs:1107` says one rule is shared by every
  integer field), and a negative GW tag or segment count, GM repeat count or first tag,
  or NE/NH count becomes 0 (`lib.rs:1594`). `DeckIsRead` names them as `Rounded`.
  `parse`'s own comment (`lib.rs:256`) says that an unknown card is a warning; it is
  refused.
* The editor loses what the parser only warns of: a save drops XQ, EK, GD and the
  other ignored cards, GN's I3 and I4, RP's RFLD, GNOR and its first digit
  (`model_doc.rs:8` says the surrounding cards are preserved verbatim).
* GN's medium cleared in one box only, or set to zero in both, is read back as another
  medium (`SaysItsMedium`); a finite GN type picked over radials, an EX kind whose kept
  I4 it does not allow, or GN deleted under `GE 1` is saved and then refused
  (`RenderedReadsBack` allows a refusal of a value, and no other).

## What is proved

About `WorkerPool`, for every finite set of workers, every number of tasks and
calls, every budget of at least two and every set of answers (`PoolAssumption`):

| Theorem | Says | Assumes besides |
|---|---|---|
| `TypeCorrect` | `TypeOK`; in particular the retry loop never indexes outside the pool it shrinks | |
| `HoldersExclusive` | `OneHolderPerTask` | |
| `WorkersConserved` | `NoWorkerLostOrDuplicated` | |
| `GivenUpOnEmptyPool` | `GivenUpOnlyWithNoWorkerLeft` | |
| `CompleteOnReturn` | `ReturnedComplete` | |
| `StrikeBudget` | `StrikesWithinBudget`: the budget, of the "worker" answers | |
| `BlameIsDeserved` | `BlamedOnlyForDeaths`: a blamed task has cost its budget of processes | `DeathsAreDeaths` |

`DeathsAreDeaths` says that a "worker" answer stands for a process lost with the task. It
is true of local handles (`HandlesAnswerHonestly` proves it) and false of the ssh handles
`fnec` dials, whose host may never have read the task: for them only `StrikeBudget`
holds, which counts answers and assumes nothing. The budget of processes,
`DeathsWithinBudget`, is kept by neither kind: over ssh it is `pool_ssh_budget`, and a
local handle whose write timed out may lose one without saying so (`handle_late_write`).

None of these properties is inductive by itself. The argument is in
`WorkersProofs`, in parts that each use those before:

* `PhaseInv`: what each phase of a call excludes. A thread runs only in the batch
  phase, the pool is empty then, and the retry loop has exactly as many iterations
  left as the pool has workers. The last part is what makes "the loop ran out" and
  "the pool is empty" the same thing, hence `GivenUpOnEmptyPool`.
* `HoldingInv`: what a thread holds lies behind the cursor, and everything from the
  cursor on is untouched: no outcome, no orphan, no holder. So the task a thread
  claims is nobody else's.
* `OutcomeInv`: in the retry phase a task without an outcome is still to retry; only
  an empty pool gives a task up.
* `StrikeInv`: in the batch phase a task has been charged once if it is an orphan with a
  strike and not at all otherwise; afterwards its strikes are its charges, and a task
  still to retry is below the budget. `BlameIsDeserved` adds that no task has been
  charged more often than it has cost a process (`StrikesAreDeaths`).
* `PlaceInv`: the five places a worker can be in are disjoint and together hold every
  worker. Its step needs `PushOne` and `RemoveOne`, which say what pushing to and
  removing from a sequence of distinct workers does.

`PoolImplementsService`: whatever its handles answer, the pool implements
`BatchService`, step by step. A claim of the cursor, a thread's leaving, the join and
`shutdown_all` are stutters; a thread's or the retry loop's answer is `Settle`,
`LoseUncharged` or `LoseCharged`; giving up, refusing, opening and closing map to the
actions of those names. `TaskInv` is the one invariant it adds: what is in a thread's
hands, orphaned or still to retry belongs to the call and has no outcome.

About the other modules, for every value of their constants:

| Theorem | Says | Assumes |
|---|---|---|
| `HandleKeepsContract` | `TypeOK`, `ResultIsForItsTask`, `QuietBetweenDispatches`, `OneDeadlinePerDispatch`, `AnswerContract`, `RetiredLeavesNoChild` | `HandleAssumption` |
| `GuiProofs.TabsAloneShowLastAsked` | `ShownIsOfSelectedSolver`, `ShownIsLastAsked`, `StripIsLastRefresh`, `AwaitedIsInFlight` | `RunsAssumption` |
| `GuiProofs.SweepShowsOne` | `OneSweepOnScreen`, `PointsOfSelectedSolver`, `PointsAreQualified`, `DoneIsComplete` | `SweepAssumption` |
| `GuiProofs.ViewportShowsWhatIsHeld` | `DrawnIsHeld`, `OverlaysOfSelectedSolver`, `EditKeepsTheScreen` | `ViewportAssumption` |

* Handle: what is on the line depends on where the caller stands. The invariant names
  it: which line may be with the writer and which unread in each direction at each wait,
  also once the caller has given up (`Lines`), which ends
  are still open (`Ends`), what the dispatch has been charged with (`Charges`), and
  that what was read was for the task in hand (`Reads`). A reply left on the line would
  be the next task's result, so `QuietBetweenDispatches` needs all four. That a local
  "worker" is one process lost is what `BlameIsDeserved` assumes of the pool's handles.
* `GuiRuns`: no task holds an id above the last one minted (`RunsMinted`), so one spawned
  before is told from one spawned now; and a task whose id its tab awaits answers what
  the tab was last asked, for the solver selected (`TasksAnswer`).
* `GuiSweep`: two streams never share an id (`StreamsDistinct`), a running panel
  awaits a stream that exists (`Awaited`), what is on screen is what the awaited stream
  has already sent (`StreamsInStep`), and a panel that awaits nothing shows no half
  sweep as whole (`SweepSettled`).
* `GuiViewport`: a solved leg that would land is of the selected solver (`TasksLand`),
  and while the picture kept is an edit's the geometry is that one and no leg is awaited
  (`EditOwns`). That an
  id can be minted at all is part of its type theorem: there are more ids than tasks in
  flight and legs that wait, a cardinality argument.

About the components together, as the runs check them. In each behaviour of `MCWorkers`,
`MCGui`, `MCEditor` or `MCCli` one part is at work and the others rest; the proof shows
that a step of the whole is a step of the part or leaves it alone, and carries over what
holds of the part.

| Theorem | Says | Assumes |
|---|---|---|
| `WorkersProofs.WorkersTypeCorrect` | `WorkersTypeOK` | no line of exactly `MAX_LINE_BYTES` |
| `HandlesAnswerHonestly` | `AnswerContract` | |
| `LoopRepliesOnce` | `OneReplyPerLine` | no line of exactly `MAX_LINE_BYTES` |
| `PoolAsAlone` | the pool's safety, beside handle and loop | |
| `GuiProofs.TypeCorrect`, `NothingShownOfAnotherSolver`, `TabsShowLastAsked`, `ScreenShowsOneSweep`, `ViewportDrawsWhatItHolds` | `TypeOK`, `NothingOfAnotherSolver`, `ShownIsLastAsked`, `OneSweepOnScreen`, `DrawnIsHeld` | |
| `NoStepTakesPointsAway` | `PointsStay`, an action property | |
| `EditorProofs.TypeCorrect`, `DocumentKeepsItsFile` | `TypeOK`, `DocumentOfItsFile` | |
| `FilesStayWhole`, `MarkedIsOnDisk` | `FilesWhole`, and `SavedIsOnDisk`, of the step that marks a document saved | `Overlap = FALSE` |
| `DecksAreRead` | `DeckIsRead` | |
| `DocumentProofs.SavedReadsBack` | `RenderedReadsBack`, which excepts documents that are invalid or have entries behind a GE or EN put before the table, and the medium of a GN | |
| `CliIsTyped` | `TypeOK` | |
| `RefusalsComeFirst` (but the refusals "unreachable" and "pattern"), `PointsAreComplete`, `DeckIsAnswered` | `NothingBeforeRefusal`, `PointsComplete`, `AnswersTheDeck` | |
| `CalibrationIsAlone` | `MeasuresAlone` | |
| `DeviceIsAskedLater` | `DeviceBacksOff`, an action property | |
| `FrequenciesAreTyped` | `FrequenciesAsTyped` | |
| `SearchSaysWhatItSaw`, `StudiesAreWhole` | `ResultIsSeen` and `RefusedWhole`, two conjuncts of `CommandsAreHonest` | |

They hold for every value of the constants that the modules' assumptions allow. These
are: sets and counts are what the code can be given (positive numbers of points and
threads, a backoff and a timeout that are numbers of seconds, frequencies and cards of
integers); the value `None` is no code, kind or refusal; and the runs, studies, searches
and sweeps asked for are records of the described form. Two say more.
`SearchAssumption` has the grid of values finer than the resolution (`Resolution` at least
2, and no range of one step), as doubles are finer than 1e-9 at the values a search is
made over. `MAX_LINE_BYTES \notin Lengths` and `Overlap = FALSE` exclude exactly what
`loop_exact_maximum` and `editor_shared_temp` show to go wrong.

About the geometry of a deck, for any cards in any order (`DeckAssumption`: as many as
there may be, steps of a wire that are multiples of three so that a third of one is a
whole number, and rotations by quarter turns, which keep whole coordinates whole):

| Theorem | Says |
|---|---|
| `DeckInvariant`, `DeckTypes` | `DeckInv`, and `TypeOK` of it |
| `DeckDriveIsNec2s` | `DriveIsNec2s` |
| `DeckImagesComplete` | `ImagesComplete`, an action property |
| `DeckReferences` | `ReferencesSurvive`: on the refined geometry, on the deck meshed three times finer, and on the structure with its image |

* `WorkerLoop` (`LoopInv`): what is left of stdin is the last of what was sent, in order
  and whole but for the line being drained (`LinesInOrder`); that line is over-long and
  the rest of it comes first (`Draining`); nothing behind a shutdown is read
  (`NoShutdown`); and the replies are those owed for the lines consumed, one each
  (`Answered`).
* `MCGui`: what the panels share is the deck path and the solver. A panel nobody has
  used is as it started, and the switch of solver in its reducer arm changes nothing of
  it but the solver (`TabsUnused`, `SweepUnused`, `ViewUnused`).
* Editor files (`TypeInv`, `DocumentInv`, `WriterInv`): the load the editor waits
  for is of the path and vars file of now (`LoadsCurrent`), no step of a save makes a
  template (`NoTemplateSaved`), the save it waits for has the document's text
  (`AwaitedText`), so a late answer never binds a document to another's file; a temporary
  file holds what its one save has written so far (`WriterInv`), which is where `Overlap`
  is needed.
* Parser (`ReadInv`): each line read is a card, is warned of, or is none (`LinesSeen`); the
  cards are those of accepted lines, in their order (`CardsOfLines`), the record of the
  program cards is of its lines (`ProgramOfLines`), and a wire that awaits its taper is the
  last card (`TaperAwaited`). The step of this invariant is one `ReadLine`, so it holds
  of texts of any length.
* Saved text (`DocumentProofs`): reading back is a fold over the text of a fold over the
  document, and the proof splits it by card, by line and by order. By card: what is read
  holds what each of its fields settles to (`Regular`: an integer field is whole, the
  planes of a GX are flags, a count is not negative, and GN holds the fields its
  radials leave it), a form `KeptValue` does not change a second time, so `WriteCard`
  is read as the card it wrote (`ReadsAsWritten`). By line: a card refused in its place
  in the saved text would have been refused where it was first read (`ReadAgain`,
  preserved by each line read), and an edited one is refused for a value at most. By
  order: a reader asks of the cards before a line only what `Orderly` says (a tapered GW
  and its GC are neighbours, no geometry after GE, nothing after EN), so an orderly deck
  is read card for card, by induction over its length (`WrittenInOrder`). The document's
  three parts are each orderly, and one may follow the other (`PartsForm`,
  `PartsOrder`); opening a deck splits it so (`Opened`) and each edit keeps it so
  (`BoxEdited`, `RowAdded`, `ControlAdded` and the others), which makes `ReadInv`
  with `PartsInv` inductive.
* One run of the CLI (`RunInv`): where a run can be (`RunWhere`) and which checks lie
  behind it (`RunRefusals`); every point handed out by the counter is kept, in a
  thread's hands or with the GPU lane, exactly once (`Accounted`); no more threads are
  busy than the budget allows (`BusyFew`); the lane is shut by the first point the
  device did not solve (`LaneSound`); and sorting what was kept gives a sequence of
  points in order (`SortedAre`, `EmittedAre`), hence `PointsComplete`. `DeckIsAnswered`
  rests on lemmas about the operators of `SolvePoint`: which labels each solver, device
  and worker can answer with, and which features each label's equations hold.
* Calibration (`CalInv`): as long as no live lock was taken over, whoever measures made
  the lock on disk (`LockIsHeld`).
* Device (`DeviceInv`): one thread builds at a time and holds no device meanwhile
  (`OneBuilds`); the cache remembers at least the failures in a row, and a device that
  stands while failures are counted has somebody waiting on it for as long
  (`Remembered`); with
  `BackoffGrows`, that a failure more never shortens the backoff, proved from its
  recursive definition.
* Frequencies (`FreqInv`): `RangeCounts` shows that the count of a range is the number of
  multiples of its step up to its end for every sum of roundings the arithmetic can make.
* Search and study (`SearchInv`, `StudyInv`): the ends of a bracket have been probed on
  either side of the target (`Bracketed`); what was refined is the beginning of the list
  and what was solved the beginning of that (`Leads`), and `FactorsGrow`, that an accepted
  list increases, makes a size refusal's offer whole.

* Deck (`DeckInv`): between cards, the deck and its finer twin are lists of whole,
  unnumbered segments of some length, within the budget, whose steps divide as often as
  they will be refined (`Lists`); what is built is numbered from them (`Built`). Every copy
  is made by a map that keeps points apart and thirds thirds (`Rigid`), so a move, a
  rotation, a reflection and a scaling are one argument. The lists are folds and functions
  from one index to the next; what they hold is proved from the least index at which it
  would fail (`LeastOf`).
* Drive (`ReadUpto`): the entries after the first cards of a deck are, for each segment
  they drive, its slopes and its last gap with the gaps before it overridden, and a row
  for each current. This is the definition `DriveIsNec2s` compares with, card by card.
* Images (`Tagged`, `BlocksApart`): a plane of GX adds the structure once more with tags
  beyond those that were there, so the copies of different planes never meet; the lines of
  the structure are completed plane by plane (`CompletedLines`).
* References: the number in a reference is the rank of its segment among those of its tag,
  and a map that rises strictly on the segments that count, and is onto them, keeps ranks
  (`RanksKept`). On a refined list the middles of the pieces are such a map
  (`CutFrom`, `CutNumbers`), where the pieces of one segment never overlap another's
  (`CutOverlaps`: overlap on an axis, cancelled out of the cross products); on the doubled
  structure the segments that stand for themselves are (`Doubles`, `ImagePicks`). The finer
  deck is built again from its own cards, so there `FineCut`, an invariant of the
  building, says that card by card it is the deck with every segment cut in three
  (`ExpandedMatched`), and a rank becomes three ranks (`PieceRanks`).

Only checked by TLC:

* the liveness properties (`EveryCallReturns`, `DispatchReturns`, `EverySweepEnds`,
  `RunEnds` and their like), which rest on fairness and ENABLED;
* of `CommandsAreHonest`: `SettledIsPriced`, inequalities of high degree between series;
  `BracketHolds`, whose halving is a power of two, and `PresentsTarget`, the algebra of
  quotients in lowest terms, which needs Euclid's algorithm. Both are inductions over
  data;
* of `Deck`: `ConductorsAreTheStructure`, `RoutesAgree` and `CaveatsSayTheRoute`, which are
  about walks of the section graph: that a walk ends, and finds the same sections as a
  definition by reachability, is an induction over paths of any shape.

## Plan

1. `WorkerPool` over `WorkerHandle` in place of `Answers`.
2. The order of a report's rows, and deck templates, against reference definitions.
3. The rewriting of cards by `refine.rs`, beside the renumbering that is modelled.
4. Proofs about the section graph and the two layouts of a Hallen system, for which the
   lemmas of `DeckProofs` about the lists of a deck are there; and the halving of
   `Resonance`.

## Not modelled

* The numerical core (Hallen, MPIE, Pocklington, Sommerfeld ground, far field,
  matrix fill and factorisation, the GPU kernels): arithmetic over reals and complex
  numbers, which TLC cannot enumerate. Its tests compare it with reference codes. It
  is by far the largest part of the code, which is why the map covers a small share
  of it.
* How a number is spelled beyond integer, real and unreadable, a deck template's
  variables, and report formatting: functions of text with no state.
* Rendering, plots, session settings: synchronous, no protocol.
* `probe_capability` and `connect_all` of the ssh handle: the CLI does not call
  them.
* A wire with the tag `u32::MAX`, which `wire_endpoints_from_segs` takes for "no wire
  yet" and so for no wire at all (`geometry.rs:761`): `Conductors` treats it as any other.
* Validation's errors, the caveats on frequency and height over ground, the remedies
  a caveat names: comparisons of a deck's numbers; that they
  are asked, and when, is in `CliRun`. Networks are left out of `Caveats`.
