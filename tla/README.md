# A verification development for aimrt_samples

This directory models the repository in TLA+, checks the models with TLC and proves
most of their safety properties with TLAPS. It has two parts: the `lingxi_x1_sim`
robot controller, and the life cycles of the other samples (`helloworld`,
`my_pb_channel`, `my_pb_rpc`, `my_ros2_channel`, `my_ros2_rpc`), which demonstrate the
AimRT framework.

Paths below are relative to `src/lingxi_x1_sim/src/` unless they begin with `src/`.

## 1. Inventory

| component | state | operations | threads |
|---|---|---|---|
| mode graph, `module/control_module/state_machine/` | `current_state_name_`, `controllers_`, the constant graph `states_` | `ChangeState`, `GetCurrentStateEnum`, `GetCurrentControllerNames`, each one critical section | all of the control module's |
| control module, `module/control_module/control_module.cc` | `controller_map_`, the static `cmd_msg`, `current_velocity_`, the joint index maps, the timer | `Start`, `Shutdown`; `JointCmdPublishTask` (1 kHz); RPCs `SetState`, `GetState`, `SetVelocity`, `GetVelocity`; callbacks `ImuDataCallback`, `JointStateCallback` | executor, RPC client, simulator |
| controller interface, `controller/controller_base.cc` | `joy_data_`, `imu_data_`, `joint_state_data_`, a mutex each | the three setters | as above |
| PD controller, `controller/pd_controller.cc` | `start_joint_angles_`, `trans_mode_percent_`, the planned trajectory: no lock | `RestartController`, `Update`, `GetJointCmdData` | RPC client and executor |
| RL controller, `controller/rl_controller.cc` | `is_first_frame_` (atomic), `loop_count_`, history, actions, filters | the same | RPC client and executor |
| interpolator, low-pass filter, `controller/utilities.cc` | the points and the current row; two samples | `Init`, `GetNextPoint`; `init`, `input`, `output` | those of the controller that owns it |
| keyboard window, `module/keyboard_module/keyboard/` | `current_event_` and `last_button_state_` under a mutex, `running_` | `eventThread`, `handleMouseButton`, `GetKeyboardEvent` | event thread, timer task |
| keyboard module, `module/keyboard_module/keyboard_module.cc` | the timer | `Start`, `Shutdown`, `MainTask` (every 100 ms) | executor |
| protocol, `protocols/robot_control.proto` | - | the `State` enum, four RPCs | - |
| mujoco simulator, AimRT runtime | outside the repository | publishes IMU and joint states, reads `/joint_cmd`; executors, timers, local RPC and channels | - |
| loops of the samples, `src/*/src/module/*/` | ROS 2: `run_flag_`, `stop_sig_`; protobuf and helloworld: `Running()` of their context, helloworld also the scope of its coroutine | `Initialize`, `Start`, `MainLoop` or `CoLoopTask`, `Shutdown` | host, executor |
| subscribers of the channel samples | none; the order of the events | `EventHandle` | executor |
| servers of the RPC samples | none | one constant answer | executor |
| `src/my_ros2_channel`, `src/my_ros2_rpc`: `main.cc` | `global_core_ptr_` | `main`, `SignalHandler` | main thread |
| `src/.devcontainer/auto_detect_sources.py` | mirror choice, configuration files | probe, choose, rewrite | one |

How they interact. The keyboard's event thread leaves one pending event; the
timer task takes it and makes a synchronous local RPC. A local RPC runs the
handler inline, on the client's thread (`ServeInline`,
`control_module.cc:54-72`), and a local channel runs the callback on the
publisher's thread. So up to four kinds of thread are inside the control module
at once: the tick, the RPC clients, and the two sensor callbacks. Nothing
spans the calls of one handler: `SetState` first changes the mode, then copies
the list of controllers, then restarts them one by one, and a tick, a sensor
callback or another client may run between any two of these.

A sample's module is created, initialised, started and shut down by its host; its loop
runs on an executor until a flag is cleared, and in the channel samples publishes the
events that the subscriber's callback handles on an executor of its own or, in
`my_ros2_channel`, on the same pool of two threads. The ROS 2 samples bring their host
along: `main.cc`, whose signal handler tells the core to shut down.

What is hard, and so what the properties are about: the window between a switch
and the restarts; the fields of a PD controller that two threads use without a
lock; the flag of the RL controller that is tested and cleared in two steps; a
counter that restarts do not reset; the half-merged message of `stand`; setters
that reach only the controllers active at that moment; a one-slot event buffer; a
window that one thread draws and another destroys; a press that passes through four
components on its way to the joints; a flag that is tested a sleep before it matters; a
`Shutdown` that waits for a loop, or does not; a pool that an endless loop shares; a
signal at any moment of `main`.
`PROJECT.json` lists each with its line.

## 2. Modules

| module | models | state and actions |
|---|---|---|
| `StateMachine` | `state_machine.cc` | `current_state_name`, `controllers`; `ChangeState(e)` / `RefuseState(e)` are the two outcomes of the C++ method. The graph is a parameter (`ModeGraph`, `OneEnumPerMode`, `FirstStateNamed`). |
| `RobotService` | the promise of `RobotControlService` about the mode, independent of threads | a switch is one legal step between call and answer, a query answers a mode of that interval, the latest switch is answered when its controllers are ready |
| `ControlModule` | `control_module.cc`, `controller_base.cc`; extends `StateMachine` | one action per step between two locked calls, a program counter per thread: `tick`, `call[p]`, `imu`, `joint` |
| `ControlProps` | the properties of `ControlModule`, and its refinement mapping to `RobotService` | |
| `ControlProof` | theorems about `ControlModule`: types, restarts, what reaches the controllers and what they send | |
| `ControlServiceProof` | the theorem that `ControlModule` implements `RobotService`; extends `ControlProof` | |
| `PDController` | `pd_controller.cc`, `Interpolator::Init` and `GetNextPoint` | the RPC thread's restart and the control thread's tick, one shared-memory access per action |
| `PDControllerProof` | theorems about `PDController` | |
| `RLController` | `rl_controller.cc` | the restart against the steps of a tick |
| `RLControllerProof` | theorems about `RLController` | |
| `Keyboard` | `keyboard.cc`, `keyboard.h`, `keyboard_module.cc` | constructor and destructor of the window (`life`, `resources`), its event thread, the timer task; mouse and event queue are external |
| `KeyboardProof` | theorems about `Keyboard` | |
| `RobotSystem` | the robot as its user sees it: extends `Keyboard`, instantiates `RobotService` for the mode and adds the walking controller's velocity | `Send` is `TakeEvent` and the request, `Handle` and `Steer` the handler's steps that matter, `Receive` `CallAnswered` and the answer |
| `RobotSystemProof` | theorems about `RobotSystem`; uses those of `KeyboardProof` | |
| `RobotThreads` | the threads of the two modules together: `ControlModule` and, as an instance, `Keyboard`, whose timer task is the one client; its refinement mapping to `RobotSystem` | `Send` is `TakeEvent` with the handler's `Call`, `Receive` `CallAnswered` with its `Return`, `KeyboardStep` and `ControlStep` every other step of one module |
| `RobotThreadsProof` | the theorem that `RobotThreads` implements `RobotSystem`, and what follows for the joints; uses those of `ControlProof` and `ControlServiceProof` | |
| `SampleLoop` | the looping modules of the five samples and the subscribers' callback | `module` is how far the host has brought it, `loop` where the loop is; `Initialize`, `RaiseFlag`/`PostLoop`/`SpawnInline`, `Test`, `Act`, `Rest`, `SetStopSig`, `Shutdown`, `ShutdownReturns` |
| `SampleApp` | `main.cc` of the two ROS 2 samples, around `SampleLoop` | a step of `main` per statement that matters, the signal handler in between |
| `WorkerService` | what a host relies on, however a sample's loop is posted and stopped | off, on, closing, closed; at most one act begins after the module was told to stop |
| `SampleProof` | theorems about `SampleApp`, with the refinement of `WorkerService` | |
| `MC...` | the constants of the runs | `MCControl` and `MCRobotSystem` hold the shipped configuration, `rl_x1_sim.yaml:8-25` |

Correspondence, where it is not one to one:

- A controller that runs in `ControlModule` is one step per call; what happens
  inside the call is in `PDController` and `RLController`. Their data appear in
  `ControlModule` as what the callers can tell apart: has it been restarted since
  its mode was entered (`fresh`), which velocity it holds (`joy_data`), which
  message of a topic it holds (`imu_data`, `joint_state_data`: being delivered,
  last delivered, older, none so far).
- A command is who computed it and whether that controller was fresh.
- `PDController` represents an angle by the pose it belongs to, and counts the
  percentage in steps of `1 / (2.0 * 1000)`, so that `RampLen` stands for 1. Its
  `kind` is the configuration's choice: keep, plan or neither.
- The read-modify-writes of `trans_mode_percent_` and of `current_row_` are a load and a
  store each (`UpdateLoad`, `UpdateStore`; `PlanCount`, `PlanAdvance`), so that a reset or
  a rewind between the two is undone. `+=` and `std::min` are one store: no other thread
  reads the percentage, so none sees the sum above 1, and whatever a reset between the
  two leaves is what one before or after them leaves.
- `GetNextPoint` is a step per access: the row against the size, the flag, the address of
  the point, the copy joint by joint, the increment. `Interpolator::Init` is a step for
  the flag, the points dropped, the points built, the row and the flag again, and the
  copy of the start angles into the plan's ends is a step per joint (`knots`).
- A point of a trajectory is its number and the trajectory it belongs to; a plan has no
  point (Ruckig refuses the input) or two and more, because its first segment alone lasts
  a second and has a point a millisecond. A point that `Interpolator::Init` has freed, or
  that lies past the end, is `Garbage`, also for a tick that found it before it was freed.
- `RLController` represents every datum by when it was read relative to the last
  restart; a restart relabels them all. The observation's `last` is its
  last-actions part.
- `Keyboard` has one window state per call of SDL that can fail, and `ThreadStarts` for
  the `std::thread` at the end of the constructor, which can throw as well. A task of the
  timer that fired before `Cancel` may in the code still take an event; in the model it
  does not, and no property depends on it: after `Shutdown` none speaks of what is sent
  but for its order. `Rendered` is the end
  of a pass of `eventThread`: draw, then test `running_`. A press of a mode button and a
  press of a direction key are posted with a number, so that "newer" can be said.
- `RobotSystem` replaces `ControlModule` by `RobotService`, and a velocity by its key.
  `RobotThreads` has the control module itself, and implements `RobotSystem`: the mode is
  `current_state_name`, the velocity what the walking controller holds, and `SetTarget`
  of that controller is `Steer`.
- In `RobotThreads` the task and the handler it called begin and end together, because
  the local RPC runs the handler inline. The velocities are those of the direction
  keys and are named after them; the `RobotState` member a press asks for is the one
  that `Keyboard` reads from the button's id (`state_id`, 0 where an event has none).
- An act of a sample is one pass's publication, call or line of output. The status of
  a call is only logged, so an answer, an error and a timeout all end the act; an
  exception leaves the loop of a ROS 2 sample (`ActThrows`). In the protobuf samples an
  exception would end the process; they are modelled without.
- `module = "refused"` is a `Start` that could not post the loop and left
  `run_flag_` raised.
- A signal handler that finds no core calls `raise`: the signal is then pending
  (`"raised"`) until the handler returns, and enters it again.
- History variables (`ghosts` in each module) record and guard nothing.
- Operators under a comment that begins with `Mutant` are wrong variants of the
  definition after them. No specification uses them; each is there to be
  substituted for the definition, to see that a property notices.

## 3. Runs

Every run is exhaustive within its bounds, with deadlock checked unless said otherwise.

| run | what is asked | bounds | states |
|---|---|---|---|
| `control_keyboard` | types; a settled tick publishes the mode's commands; a lasting mode takes over; commands stop after `Shutdown` | one client (as shipped), all five targets and queries, three joint classes | 94 000 |
| `control_clients` | no controller is left unrestarted, with two clients switching against each other; a velocity reaches the controllers that stay active; the module implements `RobotService` | two clients that reach `idle`, `zero` and `stand` between them, one of which also steers, the other also queries and asks for a mode that does not exist | 1 350 000 |
| `control_sensors` | an IMU message reaches the controllers that stay active; a restart starts from the latest pose | both topics, three modes | 399 000 |
| `control_velocity` | finding: `GetVelocity` can answer a velocity nobody follows | one client, two velocities | |
| `pd_restart` | what the unlocked fields can do to a command of a tick no restart disturbed; the ramp ends | two joints, two poses, ramp of 3 steps, two trajectories of none, 2 or 3 points, all three kinds | 2 200 000 |
| `pd_plan_start` | finding: a plan need not start at the measured pose | as `pd_restart`, plans of none or 2 points | |
| `rl_walk` | nothing of an earlier walk stays in history, filters or actions longer than stated | decimation 3, history of 3, failing inferences | 2 400 |
| `keyboard_events` | presses are acted upon once, in order, the newest always; buttons and ids agree; the window is not drawn when gone, and left behind only when its thread cannot start | all mode buttons, one direction key, `QueueLen = 1`, `MaxEvents = 3` | 520 000 |
| `robot_system` | mode and velocity are what the presses sent amount to; Idle stops the robot; after the window is closed nothing moves it | the shipped graph, `QueueLen = 1`, `MaxEvents = 4`, clicks only | 135 000 |
| `robot_threads` | the threads of keyboard and control module are the robot of `robot_system`; mode, velocity and published commands follow the presses | the shipped configuration with a shortcut from `idle` to `walk_leg`, one joint class, no sensor messages, `QueueLen = 1`, `MaxEvents = 2`, clicks only | 1 090 000 |
| `samples` | each sample is the worker its host relies on and stops for good; events are handled, in order; the handler finds its core; a core told to shut down lets the process end | all five samples, faults, three events, two signals | 4 400 |
| `samples_signal` | finding: a signal without a core never ends the process | the ROS 2 samples without faults, one signal | 114 |

Why the bounds are enough. Joints are in three classes that no controller's joint
list tells apart (legs, what `pd_stand` adds, the rest). Two clients are enough for
each handler to be overtaken once at every step, and nothing in the module counts
clients; `zero` and `stand` share a controller, `idle` shares none. One velocity besides
the first is enough: a controller that is passed over keeps the one before. The messages
of a topic need no numbers: a controller's datum is compared
with the last complete delivery only. The ramp, the plan, the decimation and the
history only have to be long enough for a restart to meet a beginning, a middle and
an end; a plan of three points and one of two make a row that was not rewound fall
within the new trajectory or past its end, and two trajectories tell an old point from a
new one. `Joints = {}` in the runs that say nothing about commands; the tick then
still goes through all its steps. Three presses are enough for one to be taken, one
overwritten and one pending; four lead through the graph from `idle` to `walk_leg` and
on to a velocity. With `Drags = FALSE` the user of `RobotSystem` and `RobotThreads` does
not drag or click beside the buttons, which `keyboard_events` has; the theorems hold of
both. In `robot_threads` two presses are a switch and, thanks to the shortcut (one more
edge of the graph, which is a parameter), a velocity in the walk, or a switch that is
overtaken or refused; sensor messages touch nothing the properties speak of, and are in
`control_sensors`. Three events fill the two threads of the pool
with one more waiting; two signals are one that shuts the core down and one that comes
too late. `keyboard_events`, `robot_system` and `robot_threads` stop posting after `MaxEvents` events, a
system whose window is closed and whose timer is cancelled has nothing left to do, and
an application ends or waits for a loop nobody posted: hence `CHECK_DEADLOCK FALSE` in
these runs and in `samples_signal`.

Fairness. Weak fairness of the tick, of a handler that has begun and of a
delivery: the framework's executors and the simulator's threads keep running what
they are in, and no step waits for another thread for long (the mutexes are held
for one copy). Strong fairness of `TickUpdate` and of `ComputeActions`: the policy
inference may throw (`TickThrow`, `InferenceThrows`), but not every time from some
point on. In `Keyboard` and `RobotSystem`: weak fairness of the event thread, of
the timer task and the handler it calls, and of `Start`, which the framework calls once
the module is there. In `SampleApp`: weak fairness of `main` with its core, of the
signal handler that has been entered, of the loop and of the callbacks; a sleep ends,
and a call answers or times out. Clients need not call, users need not click or
close, nobody need send a signal, nothing need fail, and nothing forces a `Shutdown` or
a restart.

Assumptions about the environment, each a named `ASSUME` or a shape of the model:
one thread per topic publishes, one message at a time; the tick is on a
single-thread executor; the local backends run handlers inline; at most one client
uses the velocity calls (`OneVelocityClient`: `current_velocity_` has no lock);
a mode answers to one enum member at most, the first mode to one (`OneEnumPerMode`,
`FirstStateNamed`), and no member is a return code (`AnswersDiffer`);
one mouse button; no two buttons share a label (`Labels`). The framework destroys a module only after it has stopped it and its
executors, and calls `Initialize`, `Start` and `Shutdown` once each, in this order; it
constructs all modules before it starts one and stops all before it destroys one
(`KeyboardStep` and `ControlStep` in `RobotThreads`). The keyboard is the only client, a
mode exists for each of its buttons, and exactly one mode has the walking controller
(`Deployment`, with the shipped configuration in mind). Of
the core in `SampleApp`: its `Shutdown` makes its `Start` return, which then shuts the
modules down and joins the executors' threads; when a module's `Start` fails it may
throw at once or clean up first. An executor without a `thread_num` has one thread.
The kernel delivers signals to the main thread, and `signal` of glibc keeps the
handler installed. The host of the protobuf samples and of helloworld,
`aimrt_main`, is outside the repository; they are checked under the same host.

Findings (`PROJECT.json`, "findings"): a velocity set outside `walk_leg` is
reported by `GetVelocity` but never reaches the walking controller; a planning
controller's trajectory may begin elsewhere than at the measured pose (no shipped
controller plans); a signal before the core exists or after it is gone is raised in its
own handler for ever (`main.cc:21`). Beside these, the comment at `keyboard.h:23` gives
ids that are not those of the buttons (`keyboard.h:93-98`, which agree with the
protocol): the mutant of `ButtonAsksItsMode` is the comment's table. The same old ids are
in `install/linux/bin/cfg/keyboard_module/keyboard_x1.yaml:4-11` (relative to
`src/lingxi_x1_sim/src/`): the module loads that file and uses nothing of it.

Some properties describe a limit of the code as it is and are weaker than one might
wish: `SettledCommand` excludes the ramp whose reset was undone by an Update in
progress, and `SettledPlan` the trajectory whose rewind was undone by a `GetNextPoint` in
progress (`lost` in both): the robot then jumps to the target pose, or skips the beginning
of the plan, or is held at a point of the plan before or at what was read of a freed one.
`ImuReachesDue` is about the controllers that are active throughout a delivery; one
activated meanwhile waits for the next message. `NothingUsedAfterUse` allows what
`keyboard.cc:53` does: when the event thread cannot be started, SDL, the window and the
renderer are left behind. `StaleCommandsBounded` allows `Decimation` commands of the walk
before, `HistoryStartsOver` allows old actions after a failed inference (`WalksOnNewData`
says that they leave the history again),
`OnlyDraggedButtonsIgnore` allows the ignored press after a drag,
`ClosedWindowFreezes` says that a robot that walks when its window is closed walks on,
`StopsForGood` and `AskedAppEnds` except the `Shutdown` that waits for a loop nobody
posted, `AskedAppEnds` also the late second signal, and `HandlerFindsCore` the time
between an exception and the end of `main`.

## 4. Proofs

TLAPS checks every theorem of the eight proof modules, to the last leaf, for every value
of the constants that satisfies the named assumptions.

`PDControllerProof` assumes `Sizes` (at least one joint, a ramp of at least one step, and
room for a plan of two points) and `Values` (the zero pose is a pose, and there is a
trajectory). It proves

- `TypeCorrect`: `Spec => []TypeOK`.
- `SettledCommandHolds`: `Spec => []SettledCommand`. `SettledCommand` speaks of the
  finished command only, so the inductive invariant `IInv` adds to the types what
  leads there: `Steps` (each kind of controller goes through its own steps, and no
  restart is under way in a settled tick), `OnePose` (the copy of the start angles
  has reached joint `k` and holds one pose, because `RestartController` holds
  `joint_state_mutex_`), `Loaded` (what an Update has read of the percentage is still the
  percentage, unless it missed a reset) and `Filling` (the joints the tick has
  already filled). `OnePose` and `Loaded` feed `Filling`, which gives
  `SettledCommand`. One lemma per conjunct, one step per group of actions.
- `RampNeverSlips`: `Spec => RampOnlyRestartsAtZero`, an action property, from the
  smaller invariant `Ahead`: between the load and the store of an Update the shared
  percentage is either what was loaded or the 0 of a restart.
- `SettledPlanHolds`: `Spec => []SettledPlan`, from `IInv`, to which `RowBound` belongs
  (the row is incremented only where there was a point, which types it), and from
  `Planning`. With the rewind done and not undone, the row is the number of points given
  out since (`Counted`). A tick that met the restart may have left anything in the start
  angles, a freed point too, but has used up one point at most, so that there is a second
  one for the tick after it; from then on the angles are the last point given (`Kept`),
  the point that `GetNextPoint` finds is the next (`Giving`), and a settled tick fills its
  command with it joint by joint (`PlanFilling`). `PlanningRestart` and `PlanningTick` go
  through the steps of the two threads.

`ControlProof` assumes `ModeGraph` (`StateMachine`) and `Configuration`
(`ControlModule`): the values a configuration file gives are of the right kind. The
number of clients, the mode graph, the controllers and their joints are arbitrary;
of the other assumptions only `OneVelocityClient` is used, by `VelocityHolds`. It proves

- `TypeCorrect`: `Spec => []TypeOK`, from `Types`, the same invariant in parts, one
  per group of variables, each kept by every step (`SMStep`, `CallsStep`, ...).
- `RestartedHolds`: `Spec => []RestartedUnlessSwitching`. With `Types` the property
  is inductive as it stands, because it names what a handler still owes: every
  controller until it copies the names, the names from `k` on afterwards. The lemmas
  `AllRemain`, `OneLess` and `NoneRemains` say that the copy owes all of them, that
  a restart takes away only the controller it restarts, and that a handler leaves
  its loop owing nothing. The argument does not depend on who copies whose switch:
  a handler that copies the names of a later switch owes the controllers of that
  one, and the handler of the later switch owes them as well.

Its second half adds to `Types` one inductive invariant per property:

- `ImuHolds`: `Reaching` -- during a delivery a controller that has been active since
  the names were copied has the message or is still among the names to come.
- `PoseHolds`: `Latest` -- the same for joint states and the controller map, which lists
  every controller, so that no controller ever holds an older message than the last
  one delivered.
- `VelocityHolds`: `Asked` (who sets velocities may) and `Follows`: a controller that
  has been active since the velocity was written has it, or the handler that set it is
  still to give it. It uses `OneVelocityClient`: the handler that is under way is the
  one that wrote `current_velocity`.
- `CleanTickHolds`: `CleanInv` -- as long as the tick is clean it works on the names of
  the current mode, whose controllers are all restarted, and `Upto` says of both messages
  that a joint carries the command of the last controller, of those that have had their
  turn, that has it. `UptoMerge` is the lemma about one more controller, `UptoAll`
  compares the last of all with the `CHOOSE` of `LastWith`.

`ControlServiceProof` proves `ServiceImplemented`: `Spec => ImplementsService`, the
refinement of `RobotService`. The invariant has three parts besides `Types`: `Phases`
(what a call has answered, by where it is), `ModeNamed` (an enum member names the mode:
`FirstStateNamed` for the first, and a switch goes where a member asks) and
`SwitcherOwes`, which is stronger than `RestartedUnlessSwitching`: what the mode has not
restarted yet is owed by the handler of the *latest* switch itself. It is what lets the
answer of that handler be the service's `Return`. `SetStateAccept` is `Switch`, which
leaves the mode unready because a mode has a controller (`Configuration`);
`RestartController` is `BecomeReady` when it restarts the last one, otherwise nothing;
`GetState` is `Query` because `OneEnumPerMode` makes the two choices of a member the
same one; `AnswersDiffer` keeps an enum member from being read as a return code.

`RLControllerProof` assumes `Sizes` (decimation and history of at least one). Its
theorems `TypeCorrect`, `HistoryClean`, `FiltersClean` and `FewStaleCommands` prove the
four invariants of `rl_walk` from one inductive invariant, `IInv`: `InTick` (the policy
is computed only in a tick of count 0, from what that tick has read), `StartedOver` (with
the flag down, where data of the walk before can still be, step by step), `Missed` (a
restart behind the test of the flag leaves only data that a first frame will replace)
and `Bounded` (commands on old actions never outnumber the ticks counted since the
restart). `Missed` is what makes `FiltersStartOver` inductive: it keeps the actions of
such a tick from counting as new. `ShiftFacts` is the lemma about the history's shift.

`KeyboardProof` assumes `Bounds`. Presses are numbered, so order is arithmetic:
`Numbered` says that the pending number is above all that were sent, and every step
either posts the next number, sends the pending one or leaves both alone (`EventSteps`).
From it follow `TypeCorrect`, `InOrder` and `NewestKept`. `WindowOutlivesThread` rests on
`Holds`: while it is constructed the window holds a prefix of `Acquired`, of which `Undo`
releases all (`UndoAll`), a constructor that failed holds nothing, or all if it failed at
its last step, and the event thread lives between the constructor and the join only. `AskedAsWritten` follows from the types: a state change under way is one
of a mode button. `DraggedIgnore` uses `Labels` too; its invariant `DragInv` joins the
mouse, the queue and the buttons: a `trail` of held places leads from what the event
thread has seen, through the events that wait, to where the mouse is now
(`TrailGrows`, `TrailShrinks`), and at its beginning a button remembers a press if it is
held or was dragged off (`Marks`).

`RobotSystemProof` assumes `Bounds`, `Labels` and `Graph`. `KeyboardInside` shows that a
behaviour of the system is one of `Keyboard`, so that the theorems above hold of it.
`PressesFollowed` proves `RobotFollowsPresses` from `Called`, which says what the call
under way still owes: nothing asked yet, asked and not yet handled (the effect is still
to come), or answered (it has come). `WindowFreezes` needs that an ended event thread
posts nothing and that nothing newer than the last press sent is pending.

`RobotThreadsProof` assumes what `StateMachine` and `ControlModule` assume, `Deployment`
and `Buttons`; the mode graph, the controllers, their joints, the direction keys, the
queue and the number of events are arbitrary, and the user may drag. `ControlInside`
shows that a behaviour of the threads is one of `ControlModule`, so that the theorems
about that module hold of it. It proves

- `SystemImplemented`: `ThreadsSpec => ImplementsSystem`, the refinement of `RobotSystem`.
  The invariant `ThreadsInv` joins the two modules: `Linked` (the task is inside its
  call exactly while the handler is, with the request that belongs to its event),
  `Listed` (the controllers are those of the mode), `Steered` (the handler of a velocity
  has given it to the walking controller, if that is active, or still has it on its
  list) and `Owed` (what the presses amount to is the state of the robot, but for what the
  call under way still has to do). `Steered` needs that no other client can switch:
  the list that the handler copied is still the list of the mode. Each action has a
  lemma that says what it is above: the lemmas of `ControlServiceProof` (`SwitchSeen`,
  `RefuseSeen`, ...) say it for the mode, `SteerSeen` adds the velocity, `KeyboardSeen` the
  window. `SystemAssumptions` shows that what `RobotSystem` assumes of its constants
  holds of the mapping, so that what is proved of `RobotSystem` holds of the threads.
- `PressesReach`: `ThreadsSpec => []PressesReachRobot`. It follows from the refinement and
  from `PressesFollowed`, but the prover cannot use a theorem of an instantiated
  module; it is proved from `Owed`.
- `JointsFollow`: `ThreadsSpec => []JointsFollowPresses`, from `Owed`, `Listed` and
  `CleanTickHolds`: the chain from the click to the command of each joint.

`SampleProof` assumes `SampleChoice` and `MaxSignalsAssumed`; which samples are looked
at, whether calls throw, and how many events and signals there are is arbitrary.
`WorkerImplemented` is a refinement, `Spec => ImplementsWorker`: every step of the
application is a step of `WorkerService` or none. It rests on `LoopInv`: what the state of
the module tells of the flag and of the loop (`Posted`, `Flagged`), that a stop signal
and a returned `Shutdown` find the loop ended (`Final`), and that the one act begun
after the flag was cleared leaves the loop where the next test ends it (`LastAct`).
`CoreFound` follows from `Handling`: `main` stands still while its handler runs. `InOrder`
needs the order of what is handled, in handling and waiting together (`OneByOne`), as long
as the loop keeps its thread.

Only model-checked: everything about liveness, which is out of the prover's reach.

## 5. Not modelled

- `Initialize` of the control and the keyboard module, but for what it sets: it is
  sequential start-up code, and its faults need no interleaving to be seen (a
  controller of an unknown kind is dereferenced all the same, `control_module.cc:38`;
  without a configuration path there is no timer for `Start`, `control_module.cc:110`).
- The joint index map of `JointStateCallback`: filled once from the first message, by
  the one thread that reads it; a datum is which message it is, not its fields.
- Arithmetic on angles, quaternions and filters, Ruckig's trajectories, the policy, and
  the contents of configuration vectors: floating point, out of TLC's reach.
- What is drawn in the window, logging.
- The framework and the simulator (outside the repository) and the vendored
  libraries.
- The servers of the RPC samples, which have no state and answer a sum, and
  helloworld's `Task` and `LoopTask`, which nothing calls.
- `.devcontainer/auto_detect_sources.py`: one thread, whose work is to time downloads
  and to replace text; a model that abstracts text would leave nothing of it.

## 6. Plan

Done: `StateMachine`, `RobotService`, `ControlModule`, `PDController`, `RLController`,
`Keyboard`, `RobotSystem`, `RobotThreads`, `SampleLoop`, `SampleApp`, `WorkerService`, and
the proofs above. What remains worth doing: the index map of `JointStateCallback`, as an operator
on messages with missing and permuted joints.
