# cnr_ros_control in TLA+

cnr_ros_control runs robots with ros_control: a *configuration* names pieces of
hardware (`RobotHW` plugins) and, for each, the controllers to run on it. A node,
`configuration_manager`, is asked by service to start one configuration, to stop
it, or to move to another one; it loads a driver with a control loop of its own
for every piece of hardware, and loads, switches and unloads the controllers of
that driver. What is hard about it is not the control laws but the
choreography: threads of a spinner, a main thread that polls and handles SIGINT,
one control loop and one diagnostics thread per driver, phases that fail half
way, timeouts that leave threads behind, and copies of a state that get old.
Inside the control loop it goes on: controllers that start, fail and stop
themselves, flags that another thread sets while the loop writes with them,
messages that are late, lost or malformed.

This directory models that choreography, model-checks it with TLC, and proves
the safety of it for any number of hardware interfaces, controllers,
configurations, joints, topics, clients and requests with TLAPS.

    ConfigurationService      what the node promises: one transaction at a time
                 ^ implements (ImplementsService)
    ConfigurationManager      services, mutex, phases of a transition, main thread
      EXTENDS ConfigurationLoader   drivers, one operation per piece of hardware
                 ^                              ^
                 | implements                   | the driver from the inside
    ControllerManagerInterface             HwDriver
      (ImplementsLoader)                   read, update, write in its control loop
                                                |                    |
             JointCommandController      HardwareSwitch: FakeHw, TopicHw, TopicsHw
      EXTENDS ControllerLifeCycle

Paths below are relative to `src/`. Short names: CM
`cnr_configuration_manager.cpp`, CL `cnr_configuration_loader.cpp`, DRV
`cnr_hardware_driver_interface.cpp`, DRVH its header, CMIB
`cnr_controller_manager_interface_base.cpp`, CMI
`cnr_controller_manager_interface.cpp`, CI
`cnr_controller_interface_impl.h`, JC `cnr_joint_controller_interface_impl.h`,
JCC `cnr_joint_command_controller_interface_impl.h`, FAKE, TOPIC and TOPICS the
three `cnr_*_robot_hw.cpp`, CLAIM `claimed_resources.cpp`, CLAIMI its
`claimed_resources_impl.h`.

## 1. The system

| component | state | operations | interacts by |
|---|---|---|---|
| configuration manager node (CM, `configuration_manager_node.cpp`, `signal_handler.cpp`) | `m_configurations`, `m_active_configuration_name`, `m_callback_mutex`, the exit signal | services start, stop and list; `run()`: `isOk()` 100 times per second, stop on a fault or SIGINT; `callback()`: one transition; destructor | calls the loader under the mutex; reads the state of the drivers |
| configuration loader (CL) | `drivers_`, `running_configuration_` | `loadHw`, `unloadHw`, `purgeHw`, `loadAndStartControllers`, `stopAndUnloadAllControllers` | one thread per hardware for starting and for stopping controllers |
| hardware driver (DRV) | `m_state`, `m_stop_run`, the two diagnostics flags, `m_cmi`, the threads | `init`, `start`, `stop`, `run`, `diagnosticsThread`, `getState`, destructor | unguarded members shared by three threads; service calls answered by `run()` itself |
| controller manager interface (CMI, CMIB, proxy, services) | `controllers_`, `error_`, `mtx_` | list, load, switch, unload, and combinations of them | calls `controller_manager` of ros_control and its services |
| controller base class (CI) | `state_` of ros_control, subscriptions and their queue, status history, callback watchdogs | init, starting, update, stopping, waiting, aborting, each with hooks a derived class overrides | called by the control loop; subscribers |
| joint and joint command controllers (JC, JCC) | target, last target, handles, overrides, a thread for transformations | the hooks of the base class, `setCommand...`, override callbacks | thread with two flags; messages |
| fake hardware (FAKE) | positions, speeds, commands, three flags | `init`, `write`, `prepareSwitch`, `checkForConflict` | flags set by the thread of the client, read by the control loop |
| topic hardware (TOPIC) | the same, arrival of messages and a counter of missing ones | and `read`, the callback | messages |
| topics hardware (TOPICS, CLAIM, CLAIMI) | five kinds of claimed resources with values, outputs and tables of indexes; arrival per topic; warm-up | construction of the resources, and the above | messages on many topics |
| reader of the configurations | none (pure) | closure of dependencies, merge of components, set operations on vectors | parameter server |
| clients (dispatcher, terminal UI, joystick) | none of interest | call the services | services |

Hard behaviours, each listed with its line in `PROJECT.json` under hazards:

* *Interleaving*: services against the main thread; `isOk()` and the stop it
  leads to are two critical sections; the teardown takes no mutex; the driver's
  three threads share plain members.
* *Partial failure*: a transition can fail in each phase and on each piece of
  hardware; what a failed one leaves behind is what the next one starts from.
* *Stale state*: the active name, `running_configuration_` and `m_state` are
  copies of something that goes on changing.
* *Waiting*: list and switch are answered by the control loop of the driver and
  have no timeout of their own, and the loop ends on the first fault.
* *Timeouts*: `start()` gives up, its thread goes on.
* *Flags without a lock*: `doPrepareSwitch()` stores what is to be written while
  the control loop still writes for the controllers that stop.
* *Hooks of derived classes*: each may fail or throw, and `ros_control` stores a
  state of its own whatever they did.

What makes each component correct:

* manager and loader: a transition reported as successful leaves exactly the
  drivers and controllers of the active configuration; a running configuration
  is not disturbed before its successor is loaded; one transition at a time;
  every call is answered; SIGINT ends the node.
* driver: a stop stops, and its destruction ends with all its threads; a fault of the loop is visible in
  the state; start tells the truth.
* controller manager interface: after a switch that returned true the wanted
  controllers run and the others are gone; list, map and manager agree.
* controllers: a thread lives only as long as its controller runs; a controller
  that stops leaves a joint at rest; what the filter sends moves no faster than the
  limit and the acceleration asked for; no call hangs.
* hardware: no two controllers drive a joint; what is written or published is
  that of a controller that runs; a message reaches the names it is for; silence,
  and nothing else, ends the loop.
* reader: every dependency is in the closure, once; the merge keeps every
  controller.

## 2. Modules

### ConfigurationService

What the node promises to those who call it, without maps, lists and threads. The
robot holds some hardware with some controllers (`content`); a transition works
for the one thread that holds it, in stages:

| stage | what may be done | phase of `callback()` |
|---|---|---|
| clear | hardware and controllers go | purge |
| prepare | hardware comes, without controllers | load |
| move | controllers of wanted hardware come and go | start |
| retire | hardware that is not wanted, and its controllers, go | stop, unload |

A stage is left only when it is done: nothing that runs is touched before all the
new hardware is there, and nothing old goes before all the new controllers are.
`Commit`, which alone changes the active name, needs the content to be exactly the
new configuration. `Fail` stays where it is, with the last piece of work maybe half
done. A transition that finds the robot `tidy` skips the first stage.
ConfigurationManager implements it: `StageBar`, `ContentBar` and `TidyBar` are
the mapping, `ImplementsService` the property, checked by TLC in `cm_sequence` and
proved. `Coherent` and `OldConfigurationKept` look at states; this looks at the order
of everything between a request and its answer.

### ConfigurationLoader

The variables `drivers`, `cmi`, `state`, `loaded`, `running` stand for the keys
of `drivers_`, the drivers whose `init()` got as far as a controller manager,
`m_state` of each driver, the controllers its controller manager has, and
`running_configuration_`. One operator per operation and hardware interface,
with the returned value as parameter `ok`:

| TLA+ | code |
|---|---|
| `LoadHw` = `HwParamBroken`, `InitFails`, `InitAndStart` | `loadHw` CL:146-229: parameters, the entry in the map (before anything can fail), `init()`, `start()` |
| `StopUnloadAllControllers` | DRV:647-678, and the lists and the switch it waits for |
| `UnloadHw` | `unloadHw`, `purgeHw` CL:136-144, 231-268 |
| `StopHwControllers`, `StartHwControllers` | the parallel stoppers and starters CL:329-488 |
| `ReplaceRunning` | CL:407, executed whatever the starters returned |
| `HwFault`, `LateRun` | the control loop of a driver, at any time |

An operation that has to wait for a control loop that has ended is *not
enabled*: the call does not return. That is how the code behaves: listing is a
service served by `m_callback_queue.callAvailable()` inside `run()` (DRV:504),
and a switch is executed by `update()` in the same loop.

### ConfigurationManager

Composes the loader with the node. `lock` is the holder of `m_callback_mutex`;
`phase` with `next`, `toLoad`, `toUnload`, `todo` and `ok` are the locals of
`callback()` (CM:431-595), which is split into one step per hardware interface
of each phase, because drivers fail in between:

    EnterCallback -> purge -> load -> start -> stop -> unload -> Commit
    (PurgeHw ... PurgeDone, LoadNextHw ... LoadDone, StartControllers ... StartDone,
     StopControllers ... StopDone, UnloadOldHw)

`purge` is entered when what is in `drivers_` is not what the running
configuration says. Every phase ends in `Fail` when one of its calls returned
false. `Service(t)` is what a thread does until `callback()` or an early answer;
the main thread's state is `main` (`init`, `check`, `signal`, `faultStop`,
`signalStop`), and `TearDown` is the destructor. `node` is `"crashed"` after an
access through a null `m_cmi` (`NullDereference`), after the configurations were
replaced under a reference (`DanglingConfiguration`) and after a teardown
concurrent with a callback (`TearDownCrash`).

### HwDriver

One driver from the inside, after a successful `init()`: the client thread
(`start`, switching, the destructor), `run()` and `diagnosticsThread()`. No
member is atomic or guarded, so each access that another thread can get in
between is a step. `Retrieve`, `Store` and `TestRunning` are the three parts of
`retriveState() == RUNNING` in `start()`; `Arm` is the line that resets
`m_stop_run`. The flags start with any value, as nobody initialises them.
`cnrHw` chooses between a plain `hardware_interface::RobotHW` and a
`cnr_hardware_interface::RobotHW`; only the latter has a state of its own and a
diagnostics thread.

HwDriver is finer than the driver of ConfigurationLoader. Where they differ:
`Alive(h)` there identifies a live loop with `m_state = RUNNING`. HwDriver has one
interleaving, inside `start()`, in which that is wrong (section 3, "Seen while
modelling"); with it the manager would see a driver as running whose loop has
ended. The manager's model is a model without that race, and that is why there is
no refinement between the two. What holds instead is proved (`StateIsTrueInUse`):
after `start()` has answered for a cnr RobotHW, `m_state` says RUNNING if and only if
the loop is alive and ERROR if it broke down, or it is the one stale store of
`start()`; and once it is true it stays true until the driver is destroyed.

### ControllerManagerInterface

The controllers of one driver. An operation ("start" is `switchControllers`,
"stop" the driver's `stopUnloadAllControllers`, "destroy" the one of the base
class that the destructors call) goes through

    list -> load -> switch -> executing -> check -> relist -> unload
    (PlanStart, PlanStop, PlanDestroy;  Load, LoadFails;  NothingToSwitch, Request,
     RequestRefused;  Execute, in run();  Check, CheckFails;  ListToUnload;  Unload,
     Unloaded)

and "destroy" goes back to list until nothing runs. `toStart`, `toStop`,
`toUnload` and `todo` are the locals; `state[c]` is what the controller manager
knows of a controller, `controllers` the keys of `controllers_`. Between any two
steps `ControllerEnds` stops or aborts a controller whose `update()` failed, and
`LoopEnds` ends the control loop, after which only a refused switch comes back.

`ImplementsLoader` ties it to the rest: seen from its call to its return, an
operation is a `StartHwControllers` or `StopHwControllers` of ConfigurationLoader
with the same return value (`Loader == INSTANCE ConfigurationLoader WITH ...`,
where `loaded` is what was loaded at the call until the operation returns). That
is checked by TLC and proved, so the effects the manager's model
takes for granted (an operation that succeeds leaves exactly what was wanted; one
that fails leaves all of the old or all of the new, and maybe more) are effects
the code has.

What `controller_manager` does is external: it refuses or ignores to stop what
does not run and to start what runs, depending on strictness (`Acceptable`), may
refuse any switch for a conflict, and executes it in `update()`. With strictness
2 every start that keeps a running controller is refused, as the kept ones are
among those to start; the debug text "To Stop and Restart" is not what happens.

### ControllerLifeCycle and JointCommandController

One controller under any sequence of the requests of ros_control. The requests
are external: they call `starting()`, `update()`, `stopping()`, `waiting()` or
`aborting()` of CI and then store `state_` themselves, whatever happened inside.
That is the point of the module: `FinishStarting` stores RUNNING also for a start
whose hooks failed and which was aborted. The parameters `o` and `a` are the
outcomes of the hooks and of the abort ("ok", "fail", "throw").

| TLA+ | code |
|---|---|
| `InitRefused`, `InitRequest`, `EnterInit` | `init`, `prepareInit` CI:72-252, `enterInit` JC:105-254 |
| `StartRequest`, `StartRefused`, `StartGoesOn`, `LaunchThread`, `Launched`, `FinishStarting` | `starting` CI:254-284, the thread JC:362-385 |
| `UpdateRequest`, `UpdateEnds`, `UpdateThrows`, `UpdateFails` | `update` CI:286-339 |
| `StopRequest`, `Stopping`, `Joined`, `Exited`, `FinishStopping` | `stopping` CI:341-371, `stopUpdateTransformationsThread` JC:387-398 |
| `WaitRequest`, `AbortRequest`, `Destroy`, `Destroyed` | CI:373-416, the destructors |
| `ThreadBegins`, `ThreadPasses`, `ThreadEnds` | `updateTransformationsThread` JC, JCC:476-522 |
| `Start`, `StartSends`; `Update`, `Filtered`, `UpdateSends`; `Stop`, `Hold`, `StopSends`; `SetCommand` | JCC: `enterStarting`, the filter of `exitUpdate` 181-276, `exitStopping` 278-297, `setCommand...` |

A hook may also throw what is no `std::exception` ("alien"): `starting()` and
`stopping()` do not catch it (CI:279, 365), `update()` does, and from the control
loop's thread it ends the process (`crashed`).

`pc` is where the control loop is inside a call: it waits for the first pass of the
thread or for a join, or it is between the line that decides the target and the one
that sends it (`"starting"`, `"updating"`, `"exiting"`). The setters lock a mutex
that the hooks do not (JCC:420-460), so `SetCommand` may come there as well.
JointCommandController conjoins to each step of the life cycle what it does to
`target` and to the command that is `sent` to the handles. Positions, speeds and
accelerations are integers and a cycle has length 1. `NaN` stands for everything that
is not a number; the build sets `-ffast-math`, under which a compiler may remove the
test for it, and the model follows the source. What the acceleration of the target
adds to a position is checked nowhere (JCC:238, 434-439): `Accelerations` are any
integers, or NaN, and `CommandBounded` is about the rest of the step. `touched` is the
history of who wrote the target besides the filter: the property speaks of updates with
no such write in between or inside.

### HardwareSwitch, FakeHw, TopicHw, TopicsHw

HardwareSwitch is what the three pieces of hardware share: the thread of the
client (`Ask`, the three `StoreFlag`), the control loop's `Control` (the `update()`
of the controller manager, which executes the switch that waits), and `Commands`,
what the controllers that run, start and stop leave in the handles. The
controllers are JointCommandControllers: those that start or stop hold the joint
(`enterStarting`, `exitStopping`), those that go on write what they want. Any
controller may stop itself in any cycle (`quits`).

* *FakeHw*: a joint is where it is commanded to be (`Write`). `Prepared` clears
  the flags of what stops and sets those of what starts.
* *TopicHw*: `Callbacks` (a usable message, a malformed one, or none), `Read`
  (counter and error), `Update`, `Write` (`Publish`). A value is abstracted to
  where it comes from: from `doInit()`, from a message, or from a controller. A
  controller that was started before the first message is `blind`: its own target is
  still based on the zeros of `doInit()`, and so are the positions it writes.
* *TopicsHw*: five kinds of resources in one piece of hardware, for any
  configuration of names, subscribed and published topics. `Made`, `Succeeds`,
  `ConstructorThrows` and `InitThrows` are `doInit()` with its exceptions;
  `Callback` distributes a message by the two tables of the constructor (`Tables`:
  places and names, filled in one loop; `ToPlaces` reads both) or by its frame
  (`ToFrame`); bringing the values of a message into the order of the names is
  `name_sorting`, which is external. `Unlabelled` is the read past the labels of a
  message of channels (CLAIM:253). `Read` needs a usable message of every topic in the
  same cycle; both of its counters wrap around at `Width`, and so may `WarmLimit`, a
  product; `SwitchThrows` is the twist resource, which reads past the end of its flags.

The callbacks of these classes run in the control loop, as the driver gives the
node handle its own queue and empties it before `read()` (DRV:203, 504); the
mutexes of the resources are therefore left out.

### What the models abstract

* Names, configurations and controllers are model values or short strings; a
  controller is loaded or not. Texts, logging, the mirrors of the state on the
  parameter server are left out.
* `StatusHw`: `ERROR` stands for `ERROR`, `CTRL_ERROR` and `SRV_ERROR` in the
  manager, which treats them alike; `INITIALIZED` also for `CREATED`.
* A watchdog that may expire is a failure that may happen.
* The checks of the parameters (CM:138-149, `ParamsMissing`) are atomic with
  taking the mutex: nothing else can be in between that changes them, but the
  parameter server, which `EditServer` changes at any other time.
* `next` is a copy of the configuration, where the code holds a reference into
  `m_configurations`. `ConfigurationHeld` shows that the two are the same after
  `init()`; the one place where they are not is `DanglingConfiguration`.
* `loadHw` skips a name that is in the map (CL:162), and
  `loadAndStartControllers` loads hardware that is missing (CL:337-347): the
  model has no such branch, and `DriversAsAssumed` shows
  that their conditions never hold. The overload for one hardware
  (CL:270-326) has no caller.
* Strictness 1 and 2 differ only in which switches succeed.
* Efforts of joints are left out (their flag is kept): they are written and
  published like speeds. Filters work joint by joint; the scaling of
  `rosdyn::saturateSpeed` is a bound.
* Contents of messages are where they come from. Which messages come, in which
  cycle, and whether they can be used, is free.
* The ROS node stays `ok()` until the process ends.
* `controller_manager`, `RobotHW`, pluginlib and roscpp are not in `src/`: what
  they return is any of the values the code distinguishes.

## 3. Runs

The manager runs use two pieces of hardware, two controllers and two names,
with the definitions of `MCConfigurationManager`: one on the first hardware, one
on both, and in `cm_sequence` one on the second, with a controller that is
shared. Two pieces of hardware are enough for each relation between two
configurations that `callback()` distinguishes (kept, new, and old hardware).
`MaxRequests` and `MaxEdits` bound the service calls and the changes of the
parameter server.

| run | states | bounds | shows |
|---|---|---|---|
| `cm_sequence` | 792 k | 1 client, 3 requests, 3 definitions | `Coherent`, `OldConfigurationKept`, `DriversAsAssumed`, `HalfLoadedIsReported`, and the transactional service (`ImplementsService`), for any sequence of outcomes. Three requests are needed: start, failed start, start that purges |
| `cm_concurrent` | 1.9 M | 2 clients, 2 requests, 1 edit | two clients and the main thread: `ConfigurationHeld`, and the same service (`ImplementsService`) |
| `cm_liveness` | 109 k | 1 client, 2 requests | `RequestAnswered`, `InterruptEnds` |
| `hw_driver` | 1758 | none needed | the threads of a driver: `TypeOK`, `StartedIsPastReset`, `FaultIsReported`, `CallsAnswered`, `DestructionEnds` |
| `cmi` | 63 k | 3 controllers: one that stays, one that comes, one that goes | `SuccessIsComplete`, `NeverRefused`, `KeptControllersRun`, `ImplementsLoader`, `OperationReturns` |
| `controller` | 756 k | 3 positions, limit 1, speeds asked for 2, accelerations 0 and 2, no topic | one controller: `JointTypeOK`, `ThreadOnlyWhileRunning`, `HaltedUnlessRunning`, `CallsReturn`, `CommandBounded` |
| `fake_hw` | 87 k | 2 joints, 4 controllers, 2 positions, 3 speeds | `ExclusiveJoints`, `NoPhantomSpeed`, `StillWhenNothingRuns` |
| `topic_hw` | 369 k | 2 joints, 2 controllers, limit of 1 missing message | `NoFalseAlarm`, `QuietStop`, `ZerosOnlyOfBlind`, `SilenceEndsTheLoop` |
| `topics_hw` | 217 k | 12 configurations, controllers of two joints and of channels, `Width` 4, `WarmFactor` 5, so that both counters and the limit wrap around | `NoOutOfRange`, `OwnTopicFeeds`, `StartedAreHeard`, `StaleOnlyWithoutFlags`, `SilenceEndsTheLoop` |

In `controller` a limit of 1 with requests of 2, positions up to 2 and an acceleration
that adds 2 has steps within, at and beyond the limit; the topics of a controller and
their queue appear in no property that run checks, so the run has none. In `fake_hw` the
controllers overlap in every way: two on different joints, two on the same, one on both.
In `topic_hw` the counter stops at `Enough`, one more than what ends the loop: no guard
tells larger values apart (past it the count matters only to hardware whose warm-up is over, where it has ended the loop). In `topics_hw`, where missing messages are no error
before the end of the warm-up, both counters wrap around. Three joints on two topics,
`<<"A", "B", "A">>`, tell the place of a name in its topic from that in the resource;
one of them is claimed, and the switches between controllers of different joints happen
on hardware without feedback, as no flag of a switch depends on a message. The types of ConfigurationManager, TopicHw and
TopicsHw and `NoTerminate` are proved, and not run on their own: `NoTerminate` is a
consequence of `ThreadOnlyWhileRunning`.

`CHECK_DEADLOCK` is off because the systems really stop: the node exits, the
requests run out, a driver or a controller is gone, a control loop has ended, and
a call can wait forever.

*Fairness.* In the manager every thread (`Service(t)`, `CallbackStep`,
`MainStep`) is weakly fair: they are threads the operating system schedules.
Clients, SIGINT and hardware are not fair. A mutex needs strong fairness in
general; with bounded requests weak fairness is enough, as every other holder
runs out of requests. The liveness properties assume `<>[]ControlLoopsAlive`,
because without it a call really can wait forever (`cm_fault_stop`). In HwDriver
the three threads are weakly fair; the client need not call anything. In
ControllerManagerInterface the thread of the operation (`OperationStep`) and the
control loop that executes a switch (`Execute`) are; `OperationReturns` assumes
that the loop does not end. In JointCommandController the thread of the
transformations is fair, and so is the control loop once it is inside a call
(`Launched`, `StopJoined`, `Destroyed`); nobody has to call anything. In TopicHw
and TopicsHw the control loop (`LoopStep`) is fair, a thread of its own, and in
TopicHw time goes on (`Elapse`); messages, clients and controllers are not fair,
so that silence is among the behaviours.

### Disagreements between the code and what it says

Each of these runs checks one property that a comment, a message or a document
states, and ends in a counterexample.

| run | what happens |
|---|---|
| `cm_fault_stop` | stopping a configuration whose control loop has ended waits forever, with the mutex held |
| `fake_hw_follows` | two position controllers on different joints: the stop of one clears the flag of the other, which keeps running unheard, against "set the joint states equal to the joint command" |
| `topics_hw_conflict` | two controllers of one joint run, against "A joint can be used only by a controller": the conflict is found, reported, and not returned |

Two of them are theorems too. `FaultBlocksForEver`: from the moment a starter or
stopper waits for a loop that has ended, in any instance, the mutex is never given
back and no request that waits is ever answered (once `init()` is over, and if no
starter or stopper still to come meets a driver without a controller manager, which
crashes the node instead). `FollowsWithoutSharedFlag`: on a
robot where no two controllers command positions of different joints the joint states
do equal the joint commands, so the shared flag is the only cause of the second.

Seen while modelling, and without a run of their own:

* a failed start leaves the old active name over a new running configuration
  (CL:407); starting the old one again is answered "already active" (CM:138);
* strictness 0 does not force a restart of the active configuration: the early
  answer of `startCallback` (CM:138) does not look at strictness;
* the purge after a failed `init()` dereferences the controller manager interface
  the driver never got (DRV:656; `NullDereference`);
* `isOk()` and the stop it leads to are two critical sections (CM:320): a service
  may start another configuration in between, which is stopped in its place;
* `running_configuration_` is replaced before a stop has stopped anything
  (CL:407): when it fails half way, `isOk()` looks at no hardware any more, while
  drivers with controllers are there and may be in ERROR;
* the destructor unloads the drivers without the mutex (CM:87-104), with spinner
  threads inside callbacks (`TearDownCrash`);
* after a `start()` that ran into its watchdog, `run()` resets `m_stop_run` (DRV:475)
  after the destructor's `stop()` set it, and the join never returns; or it creates
  the diagnostics thread (DRV:434) after the destructor looked for it, which is
  `std::terminate`. `StartedIsPastReset` and `DestructionEnds` say when neither
  can happen;
* `start()` may store a RUNNING it read before over the ERROR of a loop that has
  ended (DRVH:121);
* while the control loop goes on, a CTRL_ERROR of the hardware does not reach
  `m_state`, which is what `getState()` returns (DRVH:111);
* a controller that stops itself right after the switch that started it: the check
  of the switch finds it not running and reports success (CMI:226-235);
* a controller whose start failed is RUNNING for the controller manager, without
  subscriptions and with its queue disabled (CI:254-284); one that is started for
  the second time hears nothing either (CI:521);
* the period of the thread of the transformations is reset by
  `JointController::doInit()` (JC:71), so that the thread runs only in classes that
  override it without calling it;
* an acceleration in the target adds half of it times the square of the period to the
  position without any check or limit (JCC:238, 434-439), and one that is not a number
  makes the position none. A `setCommand...` of another thread between two updates
  changes what the filter starts from (JCC:420); between the filter and the copy to the
  handles (JCC:238, 259), or between the two lines of `exitStopping()` that hold the
  joint and update the handles (JCC:287-288), it goes out unfiltered;
* `starting()` and `stopping()` catch `std::exception` only (CI:279, 365): anything else
  that a hook throws there ends the process;
* a controller that is started on the topic hardware before the first message holds the
  zeros of `doInit()`. The first message puts the measured positions into the commands
  (TOPIC:215-221), but the `update()` of the same cycle writes the target of that
  controller back, and `doWrite()` (TOPIC:263-266) publishes it: the robot is sent to
  zero, or to a target computed from there. `ZerosOnlyOfBlind` says that nothing else
  does;
* the first message that the topic hardware publishes for controllers of speeds alone has
  the positions zero (TOPIC:292);
* with no flag left `doWrite()` and `write()` return before they publish (TOPIC:256,
  CLAIM:142-145): a controller that is stopped leaves speed zero in the commands, and the
  last speed in the last message. That is an ordinary stop of the only controller, and on
  the topics hardware any switch that starts none;
* a message of channels is accepted only with as many values as there are channels
  (CLAIM:246), so that a topic that brings its own channels and no others is never
  usable when there are several; its labels are read without looking how many there are
  (CLAIM:253);
* the commands of the fake hardware start from zero, not from the initial position
  (FAKE:149-151, and CLAIM:37-39 for the topics hardware): the last assignment
  names the wrong vector; `initial_position_from` is tested for and `position_from`
  read (FAKE:121-124);
* the flags of the joints of the topics hardware are those of the last start list
  (CLAIM:183): a switch that starts or stops one controller silences the others;
* `m_warmup` of the topic hardware is never initialised nor counted (TOPIC:237): it
  decides once and for all whether silence is an error. In the topics hardware the
  warm-up lasts a million cycles for each missing one that is allowed, and starts
  again when the counter wraps around (TOPICS:362). The counter of the missing messages
  has the same type and wraps around as well: silence is an error at the first call for
  which both are past their limits. There is one in every silence exactly if
  `maximum_missing_cycles` and the limit of the warm-up, which is a product modulo 2^32,
  are together less than 2^32 - 1 (`WarmUpEnds`): so for every value up to 4294, and
  beyond that, where the product wraps around, for all but the few whose product comes
  close to the width;
* topics that come in turns count as missing in every cycle (TOPICS:351);
* the messages of an error list all topics, as they have been reset before
  (TOPICS:360, 371); the timeout of the feedback is read into `published_topics`
  (TOPICS:284);
* `doShutdown()` after a `doInit()` that failed half way calls resources that are
  null; the assertions before it are compiled out of a Release build (TOPICS:483).

## 4. Proofs

The eight `...Proofs` modules extend the modules TLC checks; every theorem is of
the same `Spec`. The assumptions, which TLC evaluates in the runs:

| assumption | module | says |
|---|---|---|
| `ManagerAssumption` | ConfigurationManager | identifiers of threads, names and requests are different things, definitions are components, bounds are naturals |
| `CommandAssumption` | JointCommandController | positions, requests and accelerations are integers (or, the last, NaN), the limit is positive, `NaN` is no number |
| `ClaimsAssumption` | HardwareSwitch | a controller claims joints by the interfaces of ros_control |
| `RangesAssumption` | FakeHw | positions and speeds are integers, and zero is one |
| `MissingAssumption` | TopicHw | the limit is a natural number |
| `TopicsAssumption` | TopicsHw | a configuration has lists of names and topics, and one name for a sensor and a pose; the width is positive and the limit of missing messages below it |

HwDriver has no constants, and ControllerManagerInterface assumes nothing of its
own.

*ConfigurationManagerProofs.* `TypeCorrect` first (with one lemma per operation
of the loader). The holder of the mutex is the one thread inside a transition
(`HolderServes`), a lemma for what follows and no theorem of its own, as the model has
one `phase` for all threads.
`Coherent` is not inductive: that a committed transition has exactly the right
drivers depends on each phase having handed over the right ones. The
strengthening is `PhaseInv`, which says for each phase what `drivers` is in
terms of `Target`, the next hardware and what is still to be unloaded:

* purge: what is left to purge is what is in the map, and the last outcome was
  no success;
* load: loaded and to be loaded make up the target, and are disjoint;
* start: the map is the target, and the starters that are through have their
  controllers, as long as none failed;
* stop: the running configuration is already the next one;
* unload: the map is the next hardware and what is still to do.

`SafetyInv` = `PhaseInv` + `Coherent` + `OldConfigurationKept` +
`HalfLoadedIsReported`, and it is inductive with the types and `HolderServes`
(theorem `Invariance`). `DriversAsAssumed` follows from
`PhaseInv`; `ConfigurationHeld` from the mutex. `FaultBlocksForEver` has an invariant of
its own (`Stuck`): the holder is in the phase it is in, for a piece of hardware whose
loop has ended, and nobody but the holder could change that.

*ConfigurationServiceProofs.* `ManagerImplementsService` has one lemma per kind of
step: an operation of the loader is a piece of work (`UnloadRemoves`, `StopRemoves`,
`StartReplaces`, `LoadAdds`), the end of a phase is the end of a stage or a failure, and
all else (faults, edits, signals, lists) is a stutter. `ServiceInv` is the invariant of
the manager with two parts that only the refinement needs: `NothingLeftBehind`, hardware
that is not in `drivers_` has no controllers, so that what is loaded comes in bare; and
`MainAsksToStop`, the main thread asks for a stop exactly while it waits for one, so that
its next request finds it without one. That the end of the last phase is a `Commit` is
`PhaseInv`; that a transition skips the purge only from a tidy robot is the definition of
`TidyBar`, as the code compares the map with the running configuration.

*HwDriverProofs.* `StartedIsPastReset` needs that during the start-up of `run()`
of a cnr RobotHW none of the three copies of the state says RUNNING
(`NotYetRunning`). It is about a cnr RobotHW only: a plain one is RUNNING (DRV:448)
before the reset (DRV:475).
`FaultIsReported` is an action property, proved step by step. `StateIsTrueInUse` adds
`NotAskedToStop`: before the destructor asks for it no stop is pending in the loop of a
cnr RobotHW, so that the loop ends only with an ERROR.

*ControllerManagerInterfaceProofs.* Not even `TypeOK` is inductive, as it says
that `controllers_` is what the controller manager has: a controller that is
loaded twice or unloaded without being there would break it. `Inv` adds, for
each `pc`: `Wanted` (only a start wants anything, and it starts all of it),
`Accounted` (the map is what is wanted and what goes, which are disjoint; while
loading, with what is still to be loaded) and `Switching` (what goes and runs is
among what is stopped, nothing wanted is, and after the switch nothing that goes
runs). Theorem `Invariance`; from it `MapIsTrue`, `SuccessLeavesWanted`,
`NothingRefused` and, step by step,
`KeptControllersStay`. `OperationsImplementLoader` needs in addition how the map
relates to what was loaded at the call (`Before`): what a start has not yet
unloaded was there, and it unloads nothing before everything wanted is loaded.
That is why a start that fails leaves all of the old or all of the new, which is
what ConfigurationLoader says of it. The refinement is about what is loaded, not
about waiting: the mapped driver is RUNNING throughout, as a call returns only if
the control loop was there for its last wait.

*JointCommandControllerProofs.* First the filter, as lemmas without any state: a
saturated speed is within the limit or NaN, the filter starts from a number when
the last position is one (`NominalNumber`), and so what it leaves, less what the
acceleration adds, is a number and no further away than the limit (`FilteredBounded`).
`FilterBounds` (`CommandBounded`) follows with the types and with what `touched` says of
the target between the filter and the handles (`FollowsStep`). `ControllerInv` adds to
the invariants `InsideInv`, where the control loop is inside the controller: it waits
for the thread only while the controller does not run yet, joins it only while it still
runs, and is in the destructor only with a joint at rest.

*FakeHwProofs.* Even `TypeOK` is not inductive: that a joint stays in `Positions`
depends on whose speed is integrated. `Inv` adds `SpeedsDriven` (a speed in the
commands is that of a running controller, as the ones that stop leave zero),
`RoomToMove`, `PositionsWritten` (once positions are written and nothing is
started, the joints are where the commands are) and `NothingNew` (a switch that
starts nothing sets no flag). `NoPhantomSpeed` follows from `SpeedsDriven`, and
`StillWhenNothingRuns`, an action property, from `PositionsWritten`: a write with
a flag nobody cleared rewrites the positions the joints have.
`FollowsWithoutSharedFlag` needs `PositionsHeard`, the flag is set for those who command
positions or are about to, which a switch keeps only because at most one of them can be
left after it (`ExclusiveJoints` and the hypothesis).
`ExclusiveJoints` is inductive by itself: what quits only makes the sets smaller.

*TopicHwProofs.* `Inv` = types, `Commanded` (after the first message a command that is a
zero of `doInit()` is that of a running controller that was started before it),
`Published` (nothing before the first message) and `Counting`, which relates the counter
of `doRead()` to the silent cycles in each phase of the loop; `NoFalseAlarm` is its last
conjunct. `OnlyBlindControllersPublishZeros` follows from `Commanded`, step by step.

*TopicsHwProofs.* `Inv` adds `Staged` (how far the three flags have come, in terms
of the start list), `Commanded`, `Published` and `Initialised` (hardware whose
`doInit()` failed is never asked for a switch). `SwitchesInRange` rests on
`Succeeds`: a constructor and an `init()` that returned have compared the lengths
`prepareSwitch()` depends on, given the one assertion that is compiled out.
`StopsArePublished` allows the stale message of hardware without flags, as its property
does. `OwnTopicFeeds` is left to TLC: the tables are built by a fold over the topics, and
what a fold computes is beyond the prover.

*Half of the liveness.* Fairness and ENABLED are beyond TLAPS, so the eight liveness
properties are model-checked only. Each of them says that something happens if the
threads go on; what can be proved is that going on is enough, that is, that every
step decreases a variant and no step of anybody else takes it back. That half is a
theorem for each:

| checked by TLC | proved | the variant, and what it needs |
|---|---|---|
| `RequestAnswered` | `TransitionsMoveOn` | the phase, then the hardware still to treat; the holder and its goal stay |
| `InterruptEnds` | `InterruptLeadsOut` | what the main thread has left; SIGINT is not forgotten |
| `CallsAnswered` | `AnswersComeCloser` | the step of `run()` to the next answer; no list and no switch is passed over |
| `DestructionEnds` | `DestructionComesCloser` | client, diagnostics thread and loop; nobody resets what the destructor set (`Ending`) |
| `OperationReturns` | `OperationsGetOn` | the stage, then the controllers still to load or unload; the loop of `stopUnloadAllControllers()` is executed once (`Quieting`) |
| `CallsReturn` | `ReturnsComeCloser` | at most three steps of the thread; a thread that is joined is there and was told to stop (`Asking`) |
| `SilenceEndsTheLoop` (TopicHw) | `SilenceCounts` | `Distance`, at most 4 * (`MaxMissing` + 2) + 3 steps, for any limit |
| `SilenceEndsTheLoop` (TopicsHw) | `SilenceCounts` | `Distance`, which goes on decreasing while the two counters wrap around, for any width and limits with `WarmUpEnds`: one of them may wrap around on the way to its limit, and the other one then waits (`FewerReads`) |

What is left to TLC is that a thread that can take a step takes it, and that it can.

## 5. Plan, and what has become of it

Done first, in this order: ConfigurationLoader and ConfigurationManager, HwDriver,
ControllerManagerInterface with the refinement of ConfigurationLoader,
ControllerLifeCycle and JointCommandController, HardwareSwitch with FakeHw, TopicHw
and TopicsHw; each with runs, mutants and proofs.

Done after that: the abstract service that the node implements, the safety half of
every liveness property, and the conditions under which the disagreements of
`cm_fault_stop` and `fake_hw_follows` appear or not.

Not done, and why: HwDriver as an implementation of the driver of ConfigurationLoader.
It is not one, because of the race of `start()`; `StateIsTrueInUse` says how far it is
one. What a controller does under a switch is modelled twice, in JointCommandController
and as `Commands` in HardwareSwitch, and nothing states the relation of the two: what
the second takes from the first is that a controller which starts or stops holds its
joint (`Hold`, `HaltedUnlessRunning`).

## 6. Not modelled

* The control laws and kinematics (Eigen, rosdyn): numbers, without a behaviour
  that steps could tell apart.
* The reader of the configurations (`cnr_configuration_manager_xmlrpc.h`,
  `..._utils.h`): functions over data from the parameter server. The manager's model
  takes their result, or their failure, as an input.
* The controller manager proxy and the variant over services: nothing in the
  repository calls them, and every service of the proxy blocks on its own mutex in
  its first call.
* Watchdogs of subscribers and publishers, diagnostics, formatting and logging, the
  mirrors of states on the parameter server: they report and decide nothing.
* The overrides of the speed: the callbacks run in the control loop and no class of
  the repository applies them to a command.
* `doShutdown()` and `doSetParam()` of the hardware, and the simulated wrench.
* The clients of the services, which are the requests of ConfigurationManager, and
  the test descriptions (data).
