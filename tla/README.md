# Verification of the pixel_845 device tree's native code

The repository is the Android device tree of the SDM845 Xiaomi phones
(dipper, beryllium, ...). Most of it is configuration: overlays, audio and
display XML, init scripts, kernel headers, makefiles. The code that runs and
keeps state is a handful of native programs. This directory holds TLA+ models
of that code, TLC configurations that check them on small instances, and
TLAPS proofs.

## 1. Inventory

### 1.1 USB gadget HAL (`usb/UsbGadget.cpp`, `UsbGadget.h`, `service.cpp`)

*State.* `mCurrentUsbFunctions`, `mCurrentUsbFunctionsApplied`,
`mMonitorCreated`, `mEndpointList`, three descriptors (inotify, eventfd, epoll),
`mLock`/`mCv`, the global `gadgetPullup`; and in the kernel: the links in
`configs/b.1`, idVendor/idProduct, the `UDC` attribute.

*Operations.* `setCurrentUsbFunctions` (tear down, wait, validate and set the
identity, set up, maybe wait for the pull-up, answer), `getCurrentUsbFunctions`
(reads two members), `reset` (pull down). `monitorFfs` is a thread started by
`setupFunctions` for configurations with FunctionFS functions (MTP, PTP, ADB):
it watches the endpoint files with inotify and pulls the gadget up when they
are all there, and again after a daemon restarts.

*Interaction.* One binder thread (`configureRpcThreadpool(1, true)`), the
monitor, the FunctionFS daemons through the kernel, the framework through a
callback, the properties `ro.build.type`, `ro.bootmode`, `vendor.usb.config`,
`persist.vendor.usb.usbradio.config`.

*Hard.* The old monitor runs on while the next request tears the gadget down;
it reads members without a lock; the wait has a time-out that races the
pull-up; every file operation can fail in the middle; the process can be
restarted while the kernel keeps the gadget; daemons die and come back.

*Correct means.* The disconnect wait is really spent disconnected; a running
monitor never loses what it works on; one answer per request, and SUCCESS only
for a pull-up of this request; the host sees the requested configuration;
requests return; the wake-up is not lost; the gadget comes up again after a
daemon restart.

### 1.2 rmnet control library and command line (`dataservices/rmnetctl`)

*State.* A handle (`rmnetctl_hndl_s`: pid, transaction id, netlink socket), the
kernel's queue of answers on that socket, the kernel's virtual devices.
*Operations.* `rmnetctl_init`/`rtrmnet_ctl_init`, cleanup/deinit, about 25
requests of the form "check arguments, build message, send, receive, check
type, translate the code"; `rmnetcli` maps command lines to them.
*Hard.* An answer is matched to its request only by order on the socket
(no sequence number is compared); message building can run out of room; error
codes from library and kernel share one number space; the command line's common
exit frees handles.
*Correct means.* A success is reported only for a request the kernel carried
out; a failed request leaves the handle usable or says so; every handle is
released exactly once; attribute building stays in its buffer.

### 1.3 datatop (`dataservices/datatop`)

*State.* A list of data point groups, each with a polling function, current and
initial (baseline) values, an optional CSV file; a thread for the IP table
statistics with its own list and a mutex.
*Operations.* parse options, construct groups, poll, print differences since
the last reset, reset, write CSV lines, terminate; the IP table thread polls
and adds groups on the side.
*Hard.* A poll that fails between baseline and print; values read before the
first poll; the thread against exit handlers that free its list; `select`
time-outs computed from elapsed time.
*Correct means.* Differences relate to the last reset; nothing is used after it
is freed; every poll period is served; every group is released once.

### 1.4 json-c (`json-c/`)

*State.* A tokener: a stack of parser states, the text of the token, the depth,
flags. A value: reference count, type, members. An object's hash table: slots,
the list of its entries. A print buffer. The seed of the hash function, which all
threads share.
*Operations.* parse a document in pieces, print a value with layout flags, load
and save files, add, replace, look up and delete members and elements, walk
through an object, `json_object_get` and `json_object_put`.
*Hard.* Local variables of the parser that do not survive the end of a piece; a
tokener that is used again; deleted entries that searches must pass; tables that
move; releases that release further values; system calls that do part of their
work; threads that each draw a seed.
*Correct means.* What is printed is read back; how a document is cut does not
show; a table is an ordered map; every value lives as long as somebody refers to
it and no longer; what is loaded is what was saved.

### 1.5 Light HAL (`light/Light.cpp`)

*State.* The last light requested by each of three users of one LED, the LED's
sysfs attributes. *Operations.* `setLight` for backlight, battery, notification
and attention. *Hard.* The LED is shared, whatever the order of calls. *Correct
means.* The LED shows the first lit user; the ramp fits the time the LED is on.

### 1.6 Small parts

| part | what it does | modelled |
|---|---|---|
| `power/power-mode.cpp` | double-tap-to-wake switch: finds the touch screen, writes an event | `TouchWake` |
| `kernel-headers/media/msm_media_info.h` | functions that compute the sizes of video buffers | `MediaInfo` |
| `powerstats/service.cpp` | registers state residency providers, no state of its own | no |
| `libqti-perfd-client/client.cpp` | stub returning constants | no |
| `light/service.cpp`, `usb/service.cpp` | register a HAL; single-threaded pools | used as an assumption |
| init scripts, overlays, XML, `.mk`, other kernel headers | configuration, declarations | no |

## 2. Plan

| | modules | state |
|---|---|---|
| 1 | `UsbFunctions`, `UsbGadget`, abstract `UsbSession`, `UsbGadgetProofs` | done, section 3 |
| 2 | `RmnetCodes`, `NetlinkHandle`; on them `RmnetData` and `RtRmnet` (with `RtaMessage`); `RmnetCli` on the codes; `RmnetDataProofs`, `RtRmnetProofs`, and `PartsProofs` for `RmnetCli` | done, section 4 |
| 3 | `DatatopOpts`, `DatatopGroups`, `DatatopIpTable`; `Datatop` composes them; `DatatopProofs` on `FoldFacts` | done, section 5 |
| 4 | json-c: `JsonValue`; on it `JsonText`, `JsonTokener` and `JsonFile`; `JsonReadBack` on the first two of these; `JsonStore`, `JsonTable` with the abstract `JsonMap`, `JsonObject`, `JsonPrintbuf`, `JsonSeed`; `JsonTableProofs` on `FoldFacts`; `JsonObjectProofs` on both; `PartsProofs` for the parser, the files, the print buffer and the seed | done, section 6 |
| 5 | `Light`, `TouchWake`, `MediaInfo`, all in `PartsProofs` | done, section 7 |

## 3. The USB gadget HAL

### 3.1 Modules

| module | models |
|---|---|
| `UsbFunctions` | the pure part: which combinations `validateAndSetVidPid` supports and with which identity; the order in which `setupFunctions` links |
| `UsbGadget` | the HAL, the kernel as the HAL uses it, daemons, crash; all properties |
| `UsbSession` | abstract: what framework and host see of a request |
| `MCUsbGadget`, `MCUsbSettings` | instances for TLC: the second has three settings, of which a behaviour takes one |
| `UsbGadgetProofs` | the inductive invariant and the theorems |

`pc` says where the binder thread is: `idle`; `tearDown` and `unlink`
(`tearDownGadget` before and in `unlinkFunctions`); `join`; `pulledDown` (the
disconnect wait); `validated`; `setup` (in `setupFunctions` with `mLock` held);
`cvWait` (`mCv.wait_for`); `callback`. `mpc` does the same for `monitorFfs`:
`check` (the loop of `access` calls, one endpoint list entry per step), `write`
(`UDC`), `lock` (the critical section), `dispatch` (`epoll_wait` and its
results), `done` (returned, not joined). The check before the monitor's loop
does exactly what one event's processing does with `writeUdc` true, so the
thread starts with a batch of one event.

Each shared access is a step of its own: one `access`, the write to `UDC`, one
`remove`, one function linked, each read of a descriptor. Two things are larger
on purpose: a critical section under `mLock` of the monitor is one step, and so
are the writes of the device attributes, which nobody else reads.

Abstractions: a request is the set of its bits; the endpoints of one instance
appear and vanish together; inotify events carry nothing, because the code looks
only at how many there are; sleeps are points where others may step. Failures
are nondeterministic, per kind, switched by `Faults`.

External, modelled from how the HAL uses it: configfs binds only an unbound
gadget with functions whose FunctionFS descriptors are all written; unlinking a
function of a bound gadget unbinds it; the instances are mounted with
`no_disconnect=1` (`init.hardware.usb.rc`), so a daemon's death leaves the
gadget bound and reopening `ep0` resets the instance and unbinds it; reading an
eventfd clears it; an inotify queue is bounded.

### 3.2 Runs

| run | properties | instance | shows |
|---|---|---|---|
| `usb_settings`, setting `failures` | `TypeOK`, `DisconnectWaitIsDown`, `MonitorResourcesAlive`, `AnsweredExactlyOnce`, `SuccessMeansPulledUp`, `EndpointListStable`, `ImplementsSession`, `RequestReturns`, `WakeUpNotLost` | NONE, two FunctionFS functions and MIDI; every file operation may fail; crash and restart, `reset` | safety holds whatever fails, the HAL implements `UsbSession`, no request hangs, and a published pull-up ends the wait without help from the timer |
| the same, setting `vendor` | the same | one daemon, the vendor property changing, the same failures | the same where validation and the links read different values |
| the same, setting `restarts` | the same, `HostSeesRequestOnRestart`, `PullsUpAgainOnRestart` | two requests, no faults, "usbradio" boot, two daemons, restart only after the monitor caught up | old and new configuration are never mixed outside tear-down; the monitor's restart handling works |
| `usb_bounce` | `PullsUpAgain` (violated) | one daemon, restart at any speed | see 3.4 |

*Bounds.* Requests are picked so that every branch is taken: NONE, one and two
FunctionFS functions, none of them, an unsupported combination. Two events in
the inotify queue are enough for a batch of more than one, for events left after
a read (`ReadMax`, `Burst`) and for an overflow; `writeUdc` and the endpoint
state are all that one event can change, so longer queues only repeat this. The
number of requests, restarts and failures is not bounded. `UsbSession` has an
action for the restart of the service: the request is forgotten, the host sees
what it saw.

*Fairness.* `ThreadSpec`: both threads are scheduled (weak fairness of the
binder thread's own steps and of the monitor). `CvTimeout` is not part of
`Binder`: only `RequestReturns` assumes, as `TimerFires`, that `mCv.wait_for`'s
timer fires; `WakeUpNotLost` and `PullsUpAgain` do not use the timer.
`SettingsSpec` assumes the same of each setting. Clients,
daemons, failures and crashes owe nothing.

*Mutants.* For every property the definition `Bug_X` next to `X` is the slip
that breaks it: no join before the resets, the endpoint list cleared before the
join, `gadgetPullup` not reset, an error path without an answer, a missing
watch, a lost `notify_all`, the wrong stop value, and so on.

### 3.3 Proofs

`UsbGadgetProofs` proves, for every set of requests, every set of faults, every
vendor property and every queue bound (the assumption `UsbConstants`):
`TypeCorrect`, `QuietPeriod`, `MonitorSafe`, `OneAnswer`, `HonestSuccess` (each
`Spec => []P` for a property of `usb_settings`), `ListStable` (`Spec =>
EndpointListStable`), `SessionRefined` (`Spec => ImplementsSession`), and
`HostTold` (`Spec => []HostSeesRequest`) under `TearDownReliable`.

They follow from one invariant `IInv`. None of the properties is inductive:

* `DisconnectWaitIsDown` needs that after the last unlink nobody can bind
  (`BoundInv`: a bound gadget has links) and that the join leaves no monitor
  (`NoMonitorInv`);
* `MonitorResourcesAlive` needs what `setupFunctions` builds before the thread
  exists (`WatchInv`, `LinkInv`: the list is not empty when the monitor starts,
  because every FunctionFS function of the request was linked and listed);
* `SuccessMeansPulledUp` needs that a pull-up seen in the wait belongs to this
  request: `gadgetPullup` is false when the monitor starts (`PullUpInv`), every
  requested function is linked by then (`LinkInv`, resting on the lemma
  `LinkOrderCovers` and on the fact that no supported request has MTP and PTP,
  `SupportedRequests`), and what the monitor binds is what is linked;
* the event accounting of the monitor (`EventInv`) and the lock (`LockInv`).

`IInv` was checked by TLC on an instance with every failure before it was proved.
The proof has one lemma per action; `EnvironmentStep` covers daemons, `reset`
and property writers together, `SetupFailsKeepsInv` the early returns.

`SessionRefined` takes the actions one by one: each maps to one action of
`UsbSession` or to a stutter. `IInv` is needed where the two levels look at
different variables: that no monitor runs in the quiet period, where the session may
not attach (`NoMonitorInv`), that the gadget is detached when that period begins
(`BoundInv`), that a published pull-up is one of this request (`PullUpInv`), and that
no call is answered twice (`AnswerInv`).

`HostTold` needs a second invariant, `HostInv`: from the pull-down on, what is
linked and what is still to link make up what the request asks for (`ToShow`),
under the identity that was set before the first link, and a monitor that could
bind finds nothing left to link. Its hypothesis `TearDownReliable` is the line
between what the code ensures and what it does not: `tearDownGadget` returns at
the first write or `remove` that fails, and a restarted service starts with empty
members over a gadget that may be bound, so the old configuration stays; and the
vendor property is read anew by every request while others write it. Failures to
link, to get descriptors and to write `UDC` remain allowed.

Only model-checked: the liveness properties (the prover does no fairness
reasoning).

### 3.4 Finding

`usb_bounce`: the comment above the start of the monitor says it "Also takes of
the pulling up the gadget again if the userspace process dies and restarts"
(`usb/UsbGadget.cpp:607-609`). If the daemon is back before the monitor has
looked, the monitor sees all endpoints present with `writeUdc` false and does
nothing, although reopening `ep0` has unbound the gadget. It stays down until
the next request or restart. `usb_settings` shows that a slower restart is
handled.

### 3.5 Not modelled

The text of `DESC_USE_PATH` and the device class attributes (only that writing
them may fail), the exact delays, log output, a failing callback (only logged by
the code).

## 4. librmnetctl and rmnetcli

### 4.1 Modules

| module | models |
|---|---|
| `RmnetCodes` | return values, error codes, name checks, `_rmnetctl_set_codes`; the table of outcomes |
| `NetlinkHandle` | a handle, its socket's queue, the call in progress: open, close, send, finish |
| `RmnetData` | every call to the rmnet_data driver, from `rmnetctl_init` to `rmnet_add_del_vnd_tc_flow` |
| `RtRmnet` | every call to the rtnetlink driver, from `rtrmnet_ctl_init` to `rtrmnet_set_wda_freq` |
| `RtaMessage` | how a link request's attributes are laid out in 500 bytes and found again: operators only |
| `RmnetCli` | one run of the command line program |
| `MCRmnetData`, `MCRmnetCli`, and `MCParts` (section 6) for `RtRmnet` and `RmnetCli` | instances for TLC |
| `RmnetDataProofs`, `RtRmnetProofs`, `PartsProofs` | the inductive invariants and the theorems |

A call is a send and a receive on one blocking socket. The kernel runs the
request during the send and queues the answer, so a call has two steps in
`RmnetData`: the call itself (arguments, memory, number, send and the driver's
decision) and `Receive`/`ReceiveFails`. In `RtRmnet` it has three: the lookup of
interface indices is a step of its own (`Call`), since other processes create
and remove interfaces between it and the request that carries the index
(`SendRequest`); then `rmnet_get_ack`, or for `rtrmnet_ctl_getvnd` the two
receives `PeekLink` and `ReadLink` with an allocation (`NoBuffer`) in between.
`outq` is what the socket still holds, in order. `hndl` is `null`, `live`, or
`dangling`: a failed initialisation frees the structure and leaves the caller's
pointer, which the model's callers do not use.

`own` (the kernel's answer to the present call's request), `behind` (how many
older answers were queued when it was sent) and `carried` (types of request
carried out for this handle) are history; no action tests them.

Names are atoms with a length; `strlcpy` gives the name and whether it was cut.
Numbers keep the values of `librmnetctl.h` because the code adds and compares
them. Wire formats of the data requests are left out; those of the link
requests are `RtaMessage`.

External: the rmnet_data driver (stores the value a request names, or refuses it
with one of its codes; a query answers with the value or a code), the kernel's
links (found by index; by name for RTM_NEWLINK; indices are not reused), the
callers' threads.

`RmnetCli` takes the library's outcomes from `DataOutcomes` and `RtOutcomes`.
There are no others: a theorem `OutcomesKnown` says so of each interface. Those of
`RtRmnet` are one more than the header documents, see 4.4.

### 4.2 Runs

| run | properties | instance | shows |
|---|---|---|---|
| `data_calls` | `TypeOK`, `OwnAnswer`, `SameKind`, `EndpointNamesWhole`, `CallReturns` | three transactions on a handle; names of 15, 16, 17 characters and null; endpoints -2 and 31; failed allocations, sends, receives | every call is right about its own request unless an older answer was queued |
| `data_stale` | `SuccessMeansDone` (violated) | one name, failed receives | 4.4 |
| `data_names` | `NamesWhole` (violated) | the same names, no failures | 4.4 |
| `parts`, part `rtnetlink` | `RtTypeOK`, `AnswersMatched`, `AnswerComes`, `MessageSound` | two transactions, two interfaces that come and go, names that are right or missing (too long ones are in `data_calls`, whose library checks them in the same way), every fault, lost answers | the same for rtnetlink, where answers of the two kinds (acknowledgement, link) are never taken for each other; messages read back |
| `parts`, part `rmnetcli` | `RunsClean` | every command, 0 to 6 arguments, every outcome | printed status, exit code and handle agree; a missing argument is refused |
| `cli_once` | `ReleasedOnce` (violated) | the same | 4.4 |

*Bounds.* `MaxCalls` bounds the transactions of one handle. Falling behind takes
one call that leaves its answer and one that reads it; the third reads an answer
two calls old. `MaxOpens` is 1: closing discards the queue, so a later handle
starts as the first did (but for what the driver holds). `MaxIndex` 2 lets an
interface be removed and another of the same name created between lookup and
request. The lengths are those around `RMNET_MAX_STR_LEN` = 16; `MessageSound`
ranges over every length that passes the check. `Errnos` of the command line has
one value below and one above the end of the library's table of texts.

*Fairness.* The thread that made a call goes on until it returns: weak fairness
of `Receive`. `CallReturns` says so of the rmnet_data calls. For the rtnetlink
calls the invariant `AnswerComes` says why they return: a waiting call has reached
the kernel, and its answer is the last on the socket unless the kernel dropped it. The
socket has no receive time-out, so a call whose answer is dropped waits for ever.
`rmnetcli`'s runs are finite and deadlock is switched off there: a run ends.

### 4.3 Proofs

`RmnetDataProofs` proves for every set of names and lengths, every argument set,
every bound and every set of faults (the assumptions `NamesAssumption`,
`FaultsAssumption`, `DataAssumption`): `DataTypeCorrect`, `FateReported`
(`OwnAnswer`), `SuccessIsBacked` (`SameKind`), `OutcomesKnown` (`KnownOutcome`),
`EndpointNamesStoredWhole`
(`EndpointNamesWhole`); `OnlyBoundaryNamesCut`: what `data_names` shows happens to
names of exactly 16 characters only; and `SuccessIsOwn`: if no receive fails,
`SuccessMeansDone` holds, so the failed receive is the only cause of what
`data_stale` shows.

None of them is inductive: they speak of a call that has returned, and the step
that makes them true is the receive, which depends on what is queued. `IInv`
therefore says of the queue that every answer in it is well formed and a good
one is backed by `carried` (`Backed`), and of a waiting call that its own answer
has its type and, if nothing older was queued, is alone on the socket or lost
(`Aligned`); that without failing receives no call leaves anything behind
(`Drained`); and that what the driver holds passed the name checks (`CfgTyped`),
which `KnownOutcome` needs too, as the answer to a name query is measured.

The proof has one lemma for each way a call can go: refused (`RefuseStep`), sent
(`TransactStep`), received (`ReceiveStep`, resting on `DecodeOwn`), failed
(`ReceiveFailsStep`), and the handle's own operations (`HandleStep`). `CallStep`
joins the first two for any call whose request is `GoodReq`, and `DeviceReq`,
`EndpointReq`, `VndReq`, `FlowReq` show that the argument checks of each family
of calls make it so.

`RtRmnetProofs` proves `TypeCorrect` (`RtTypeOK`), `AnswersJustified`
(`AnswersMatched`) and `OutcomesKnown` (`KnownOutcome`) for every set of interfaces and configurations, every fault
and every bound (`RtAssumption`: the kernel's own names are shorter than
`RMNET_MAX_STR_LEN`, its error numbers are 1 to 4095, and the null pointer is no
link). Here the invariant must also carry what other processes may not break
between a lookup and the request that uses it: an index belongs to one interface
(`LinkInv`), a call between the two has a handle and no answer yet (`LookInv`),
its own answer is alone on the socket if nothing older was there (`CallInv`), and
a queued acknowledgement stands for a request that was carried out (`QueueInv`).

`PartsProofs` proves `RunsEndClean` (`RunsClean`) for every number of arguments
and every error number. The printed status, the exit code and the handle are set
in different steps; `Before` and `After` say what each step hands to the next one.
`OutcomesLemma` goes through the tables of outcomes, so the proof stands on the
outcomes that the two theorems `OutcomesKnown` show to be all.

Only model-checked: `CallReturns` (liveness), `AnswerComes`, and `MessageSound`: it speaks of
constants of the code, the lengths up to 500 bytes, and TLC evaluates all of them.

### 4.4 Findings

* `data_stale` (`librmnetctl.c:296`): the answer's message type is compared, its
  sequence number is not. After a `recvfrom` that failed, the next call of the
  same type takes the unread answer and can report success for a request the
  driver refused. `SameKind` is what remains true.
* `cli_once` (`rmnetcli.c:633`): a run that reaches the label `end` releases the
  handle by `rmnetctl_cleanup` and again by `rtrmnet_ctl_deinit`.

* `data_names` (`librmnetctl.c:340`): the check after the copy compares with
  `>`, so that a virtual device's name or prefix of exactly 16 characters passes and
  is cut to 15. The comment of the check says "lesser than RMNET_MAX_STR_LEN", the
  usage text of `rmnetcli` "must be less than 15 chars". Endpoint names are
  checked before the copy too and stay whole (`EndpointNamesWhole`).

Two more places contradict a comment and have no run of their own; the properties
are stated so that they do not hide them:

* the rtnetlink calls return 4 where a receive fails (`RtOutcomes`), while
  `librmnetctl.h:551-557` and `609-613` list four other values. `RtTypeOK` says
  nothing of return values; `KnownOutcome` lists this one;
* a kernel error of 26 or more, and the return value 4, print nothing, while
  `rmnetcli.c:312-313` and `647-648` promise the error code. `RunsClean` speaks of
  the runs that print a status.

Described by the properties, with nothing written against them:
`rtrmnet_ctl_getvnd` returns after a failed `malloc` with the datagram
still queued, and the next call, for another device, stores it
(`librmnetctl.c:1567`; `AnswersMatched` speaks of calls that found nothing
queued, and of the kind of answer of all others); `flowactivate` converts a sixth
argument it has not checked (`RunsClean` leaves that command out).

### 4.5 Not modelled

The text of messages, the usage text of `rmnetcli`, the conversion of numbers on the
command line, what a flow message holds (only the driver looks at it), the
bounds of `rta_parse`'s table, `memset` and byte order. Two threads sharing one
handle: nothing in the repository does, and the library has no lock.

## 5. datatop

### 5.1 Modules

| module | models |
|---|---|
| `DatatopOpts` | the command line: every option, what the file system says of the names given, the defaults, the refusals |
| `DatatopGroups` | the seven kinds of files (`gen`, `cpu`, `stat`, `dev`, `single`, `meminfo`, `dual`): what a search registers, what a poll stores and by what rule (position, field, name), which blocks each kind allocates |
| `DatatopIpTable` | the thread of `-r` and its exit handler |
| `Datatop` | `main`, the search, the poll loop, the terminal, the CSV file, the snapshot and its child processes, the release; composed with the thread |
| `MCDatatop` | instances for TLC |

One group is searched or polled in one step; files change between the steps, and
only before a step that reads them (`Bump`, `LineMoves`, `FileMoves`): a counter
steps, a line comes or goes, a file can no longer be opened. `pc` names the part
of `main` that runs and `todo` the groups left in the present walk over the
list. `mem` holds the allocated blocks of each group and remembers a free that
went wrong. `seen`, `base`, `moved` and `wasReset` are history: what the last
good poll of a group read, what the first one since the last reset read, which
files changed their lines, whether the user has reset.

The buffers of `stdin` are modelled because the code mixes `select` on the
descriptor with `scanf`: `term` is what the kernel holds, `stdio` the words that
`scanf` left in the buffer, where `select` does not see them.

The thread and the exit handler share `dtop_ip_table_lock`. A child of `fork`
has a copy of the lock in the state of that moment.

### 5.2 Runs

| run | properties | instance | shows |
|---|---|---|---|
| `datatop` | `TypeOK`, `ColumnsMeanNames`, `HeapSound`, `NoNeedlessWait`, `IpListSound`, `DifferencesTrue`, `RunsEnd` (`RunEnds` and `QuitObeyed`) | a file of every kind, each in a run of one second and some in endless ones, pairs of groups, snapshots, `-p`, `-r`, absent files, twelve command lines that end at once or test a refusal | the CSV file and the differences say what the files said; the heap is used and given back as it should be; runs end |
| `datatop_snapshot` | `SnapshotReturns` (violated) | `-r` with `-s` | 5.4 |
| `datatop_freed` | `FreedNoLongerNeeded` (violated) | `-r` with `-w` | 5.4 |

*Bounds.* Counters have two values: a difference needs no more. Every file starts
with one or two lines and may gain one (`NewLine`) and lose one. `Sec` = 3 ticks
and a period of 2 make the clock's seconds and the polls fall apart;
`WorkTimes` = 2, 3 are polls as long as the period and longer. The user types
one line - a word, two, or Enter alone (`Typable`) -, two in the runs of `cpu` and `snmp6`, or closes the terminal. The 42
commands of the thread are two, the 23 of a snapshot two. Deadlock is switched
off because a run ends.

*Fairness.* Both threads are scheduled: weak fairness of `Main` and `IpThread`.
`Leave` (the exit handler takes the lock) is strongly fair: the thread releases
the lock and sleeps for half a second in every round, which a waiting handler
uses. Nothing is assumed of the kernel's files, the clock's rate or the user.

*Where the properties stop.* The conditions in them are places where the code
does go wrong, met while modelling:

* `ColumnsMeanNames`, `DifferencesTrue`, `HeapSound` speak of groups whose file
  kept its lines (`moved`): values are stored by position, so that a line that
  comes or goes shifts the columns, and `dtop_stat_poll` writes behind its array
  when `/proc/stat` gains lines (an onlined CPU).
* `DifferencesTrue` needs `FlagKnown`: the searches of `single` and `meminfo` files
  leave `initial_data_populated` uninitialised.
* `NoNeedlessWait` names the two cases in which polling stops and `scanf` waits for
  the user: Enter alone makes `select` ready, while `scanf("%s")` skips the end of the
  line (`datatop.c:136-138`); and after a poll longer than the period
  `select` gets a negative time-out, fails, and its -1 is taken for input
  (`datatop.c:131-138`). A line typed late enough has the second effect too (`slow`).
* `RunEnds` therefore ends with the run or with a `scanf` that the user never answers
  (`[]AwaitsWord`). It leaves out `-r` with `-s`, the subject of `SnapshotReturns`.
* `QuitObeyed` speaks of a `q` alone on its line: of two words on a line the second
  is read only when the terminal has input again, and at the end of `stdin` the
  loop polls without a pause.
* `IpListSound` is what the lock does achieve: the polls and the exit handler keep
  apart. The thread opens its files without the lock, and the handler leaves `ip_dpg_list`
  on the freed list; of a behaviour in which the thread has used a freed group
  (`touched`) only that no group is freed twice is said. `datatop_freed` shows such
  a behaviour.
* `RunEnds` counts the crash in `dtop_get_file_line_amount` on a missing file as an
  end.

### 5.3 Proofs

Proved for any number of groups of any kind, files of any length, any command
lines that `main` may be given, and any user (`DatatopAssumption`,
`FileAssumption`, `IpAssumption`):

* `IpListSafe` (`IpListSound`): the invariant adds when the thread can exist and
  who has the lock in which state (`StartInv`, `LockInv`), and that only the exit
  handler frees (`FreedInv`).
* `WaitsExplained` (`NoNeedlessWait`), for polls of any length. `ParseLemma` shows what
  options every command line can end in, `SpentInv` that without a slow poll the time
  that is taken off a wait is no more than the period, `TermInv` that a
  line stays until it is read, so that what made `select` ready is there for `scanf`.
* `HeapAlwaysSound` (`HeapSound`), `ColumnsAlwaysNamed` (`ColumnsMeanNames`),
  `DifferencesAlwaysTrue` (`DifferencesTrue`), from one invariant, `DataInv`:
  a group is looked for once (`WalkInv`); memory holds the groups of the list
  (`MemInv`); the lines of a file that has not moved are those it had first
  (`FileInv`), so the data points are at the places of those lines and a poll finds
  them all (`GroupInv`); they hold what the last good poll read, and as a
  baseline what the first one since the reset did (`SeenInv`); the header is that of
  the listed groups in order, and so is a row (`CsvInv`). None of these follows from
  the property it serves: a column means its name because a search
  and every later poll walk over the same places.

* `TypesHold` (`TypeOK`), from `DataInv` and what is known of the options. A data
  point that a search finds is junk; a poll stores what stands in a line, in the
  buffer behind the last line or in memory nobody wrote, each a value or junk, also
  for a file whose lines moved - if the data points of a device stay in the lines
  that were counted (`Typed`), and a key of a `dual` file is looked for in a
  set of lines that has a greatest one (`Greatest`). Only `dual`, `dev` and `stat`
  files move (`DpsInv`), so that every other poll is one that `DataInv` describes.
  The clock never runs past the end of the run, and what polls took never exceeds the
  period by more than one (`ClockInv`), which the parsed options make numbers.

`FileAssumption` says of the files what the kernel's formats say (`Shaped`): no two
lines have one name, a line of `single` and `meminfo` files has one value, every line
of `dev` has `DevCols`, and the files of `gen` and `cpu` are one line. `Argv` asks of an option's argument what `atoi` and the file system can
give. The searches and polls are folds and flattened sequences; what these compute for
every length is shown by taking the least length that would be an exception
(`WFMin`, in `FoldFacts` and `JoinedExists`), since the prover has no induction.

Only model-checked: `RunsEnd` (liveness).

### 5.4 Findings

`datatop_snapshot` (`datatop_sys_snap.c:100`): with `-r`, a child that cannot
execute its command calls `exit(0)`, whose handler waits for the lock that the
polling thread held when `fork` was called. Nobody releases that copy, and
`datatop` waits for the child for ever.

`datatop_freed` (`datatop_ip_table_poll.c:160`, `216`): the deconstructor of the
thread's groups "frees ... memory no longer needed". The thread registers the exit handler and
then walks the list in `dtop_ip_table_init_files` without the lock: a `main` that ends
then (the CSV file cannot be opened, say) frees the groups under it. And since the
handler leaves the list's head where it was, a thread that was asleep
polls the freed groups if the process lives on long enough.

### 5.5 Not modelled

How lines are cut into words, the layout of the printed table and of the CSV
file, the texts of the commands, failed allocations. Also without a property:
`dtop_create_dir` is tested inverted twice, the snapshot's result is always
`FILE_SUCCESS`, `char s[4]` holds "quit" without its terminator, and failed polls
leak `line_len`.

## 6. json-c

### 6.1 Modules

| module | models |
|---|---|
| `JsonValue` | values, characters, and the number readers |
| `JsonText` | the text that each printing flag gives a value, escapes included |
| `JsonTokener` | the parser: every state of `json_tokener_parse_ex` as a function of the parser and a character. A call begins with a piece of the document (`FeedPiece`, or `FeedEnd` where it ends early); one action is one turn of the loop (`Turn`: the switch, then the next character, the same one again, or the label `out`), and the piece runs out (`PieceEnds`) |
| `JsonReadBack` | the same parser as one recursive function of a whole text, against the printer and against the parser in pieces |
| `JsonFile` | `json_object_to_file_ext` and `json_object_from_file` by system call: short writes and reads, failures, the end of the program. The printer and the parser are parameters (`TextOf`, `ParseOf`, `Says`), which the run fills with those of `JsonText` and `JsonReadBack` |
| `JsonStore` | `lh_table` and `array_list`: operators |
| `JsonMap` | abstract: an ordered map |
| `JsonTable` | the table of one object with the two kinds of walks; refines `JsonMap` |
| `JsonObject` | a graph of objects, their counts, and a client that keeps to the rules of `json_object.h`; one step is one call of `json_object_put`, which releases what a dead object held (`jputs`), and a replaced or deleted value is put before its place is written (`jdue`) |
| `JsonPrintbuf` | sizes in the print buffer, the inline append and the growing one |
| `JsonSeed` | threads that hash their first name at the same time: the look at `random_seed`, the draw (which may yield -1, or end the process), the compare-and-swap, the second look |

The strings here are sequences of characters since cutting a text anywhere is
what the parser is about. One element stands for all bytes of a character beyond
ASCII: no code looks into it. A document in its pieces is compared with the same
document in one call: `CutsAndPastInvisible` compares the value and the error,
also when the tokener has parsed another document before.

### 6.2 Properties and findings (run `parts`)

| property | says |
|---|---|
| `PrintedTextReadBack` | whatever is printed with any flags is parsed to the same value, in any pieces (-Infinity excepted, see below); a text that is cut short or nested too deeply is refused |
| `CutsAndPastInvisible` | neither the cuts nor what the tokener parsed before changes the outcome (some texts excepted, see below) |
| `LevelsClean` | after a success, and in every level above the present one, nothing of a value is left; the levels below hold the container that the value above will be stored in |
| `LoadedWasSaved` | a save that reports success has left the whole value; a value that is loaded is the one saved last, never the remains of a broken save |
| `TableSound` | lookups find exactly the names on the list; walks show every lasting name once, in order (loops that lost their saved entry excepted, see below) |
| `ImplementsMap` | the hash table implements the ordered map |
| `ReferencesSound` | an object is alive exactly while the client, or a reference still to be put, leads to it; every count is the number of references there are; a change finds its container, its slot and its value when all that the old value held is gone |
| `TextWholeAndClosed` | the buffer holds the whole text and a terminator, inside its size |
| `SeedAgreed` | however many threads are the first, all names are hashed with one seed, and never with the mark of an unset one |

*Bounds.* `IntMax` 127 keeps 64-bit saturation reachable. `MaxDepth` 3 lets a
document be too deep. The documents take every transition of the parser: all
literals, escapes, surrogate pairs, comments, both kinds of quotes, numbers with
sign, fraction and exponent, and every kind of error. Pieces have one to three
characters or all the rest. A table of two slots holds three names, two with
the same hash: it resizes, probes and fills tombstones. An object, an array and
a leaf are the smallest graph that shares a value; the client holds at most one
reference to each, which it may give away and take again (`MaxRefs`), and an array of
two elements grows twice (`MaxLen`). A buffer of 4 takes pieces of
1, 3 and 8: each side of both tests. Three threads draw two seeds: one thread can
set the seed, one lose the race and one come late.

*Findings.* `json_cuts` checks `FedFreely`, the comparison of cuts without the exemption
of `CutsAndPastInvisible`, on a document with -Infinity and on one with a surrogate
pair. It is violated: behind a "-" the tokener goes over to -Infinity only if the sign was
read in the same call (`case_len`, `json_tokener.c:670-688`), although
`json_tokener.h:141-142` says that the parser can be called "with additional bytes in str to
continue the parsing". `json_foreach` checks `ForeachShowsAll`: a body of
`json_object_object_foreach` that deletes the entry already fetched as the next one makes
the loop stop there (`linkhash.c:587` clears its `next`), while
`json_object.h:336-337` allows "Deleting an existing key".

*Where the properties stop.* `CutsAndPastInvisible` leaves out the texts on which the
code does depend on the cut (`CutSensitive`): a number sign with an I behind it, with or without
number characters in between, and the high half of a surrogate pair, as
`case_len` and `got_hi_surrogate` are local to a call (`json_tokener.c:670`, `535`).
`PrintedTextReadBack` leaves out values with the double -Infinity, which
`json_object.c:609` prints: behind another literal or an escape of the same text the tokener
refuses it uncut too, because `st_pos` is not set back at the "-"
(`json_tokener.c:336-340`). `WalkComplete` leaves out a loop whose saved entry
was deleted (`lost`); an iterator whose own pair is deleted is invalid by
`json_object_iterator.h:79` and a client does not do it (the guard of `TabDel`).
`LoadedWasSaved` leaves out the empty file, for which an uninitialised buffer is
parsed (`json_util.c:94`). Zeros of an exponent are cut too under `NOZERO`
(`json_object.c:619-627`); no value of the run has one. A client that adds a name
during a walk and makes the table resize gives up the walk, as the iterator points
into the old table (`linkhash.c:498`).

`LevelsClean` leaves out, for the state after a success, texts with a comment: one that
ends in a comment of either kind inside an array is accepted with the depth left at 1
(`json_tokener.c:857-877`), and nothing is said of the levels of a document that begins on
such a depth (`FromGround`).

Seen in the code, without a property: the end of
`/***/` is missed (467-475); strict mode accepts single-quoted names (768); a NUL
counts as a hex digit (539); names end at `\u0000` (785).

### 6.3 Proofs

In `PartsProofs`: `SeedAlwaysAgreed` (`SeedAgreed`) for every number of threads and
every set of seeds without -1 (`SeedAssumption`). The invariant adds what the
property does not say: a seed that waits for the compare-and-swap is a real one, and
a thread about to hash comes behind a compare-and-swap, so that the variable is set
and stays. `TextAlwaysWhole` (`TextWholeAndClosed`) for pieces of every length and a
buffer of every first size (`PbAssumption`), allocations succeeding: the invariant is that between
calls `bpos` is below `size`; the inline append and the growing one test different
sums, and `PieceLemma` and `AppendLemma` show that both leave it so.

In `JsonTableProofs`, for every set of names, every set of values, every first size
and every hash function (`TableAssumption`: it gives each name a number; `StoreAssumption`:
the size is not 0): `TableAlwaysSound` (`TableSound`) and `TableIsMap` (`ImplementsMap`).
The first depends on the places in the table, which neither property mentions. `TableOk`
says that the list holds exactly the slots in use (`Listed`), each with a name of its
own (`Once`), and that probing for the name of an entry comes to the entry before it
comes to an empty slot (`Found`). `ProbeLemma`: the steps of a probe come to every
slot once; so there is room for a new name while `count` is below `size` (`FreeSlot`), which
the load factor keeps. `PlaceKeeps`, `ChangeLemma` and `DeleteLemma` keep `TableOk` over
an insertion, a changed value and a deletion, where the tombstone is what keeps `Found`.
`ResizeLemma` is about the fold over the list that moves the entries: `FoldFacts` gives
the tables on the way, and the new list is the old one. `LookupLemma` then gives
`LookupExact`.

A walk is right (`WalkOk`) when it has seen, of the names that have stayed since it
began, those that it is past, once each and in order. Where it is depends on the kind of
loop: an iterator is past the entry it is at, `json_object_object_foreach` is before the
entry that it has saved (`Past`). `WalkKept`: a change of the table that keeps a set of
names with their slots and their order keeps every walk whose cursor is on one of
them. That is any entry but the one that the loop looks at
next: an iterator's client does not delete it (the guard of `TabDel`), and a
`foreach` that does is `lost`. `VisitLemma`: a walk that goes on with the next entry is
right again.

In `JsonObjectProofs`, for any number of objects of any types, every set of member names
and every bound (`TypeOfAssumption`): `ReferencesAlwaysSound` (`ReferencesSound`). Being
reachable is not inductive: it says nothing of an object that is unreachable and
alive. The invariant (`Sound`) says instead that the counts are exact, that an object with the
count 0 refers to nothing, and that no set of objects is without one that none
of them refers to (`Acyclic`; `json_object.h` asks this of the client, and `MayStore` is where
the client keeps to it). From these follows what is alive (`AliveLemma`): live objects that
nothing leads to would each be referred to by another of them. For the change that waits,
`DueOk` says that its container can be reached from the client and not from the new value,
so that no put of the cascade frees either. A reference whose slot is being changed counts
no longer as the container's (`Owned`): it is the one in `jputs`. Each action then is a step of a
graph: a reference given (`GiveStep`), taken (`TakeStep`), counted (`CountStep`), or an
object freed (`FreeStep`); `InsertObj`, `ValueObj`, `DeleteObj`, `ExpandObj` and `ElementObj` say
which of them a change of a table or an array is, and the first three stand on the lemmas about
tables above: moving a table to twice its size loses no reference.

Of the parser `PartsProofs` proves two theorems, for documents of any characters and
length, cut into pieces of any size or ended early, for every number of levels
(`DocsAssumption`, `PieceSizesAssumption`, `MaxDepthAssumption`), with or without a document
before. `LevelsAlwaysClean` (`LevelsClean`): the property speaks of open levels and of
successes, and a turn of the loop could break either through the state or the saved state of
the top level, which it does not mention. The invariant (`TokInv`) therefore says which saved
state and which kind of container each state needs (`LevelOk`), that a level below waits for
the value above it (`Waits`), and that a level is in a comment only if the text fed so far has
one. Most states edit the top level only (`Edited`, `GoesOn`); those that do not are
`FinishHandled` and `DescendHandled`. `SwitchHandled` puts the 25 states together, and
`CallEnds` is the label `out`, where a success below the ground is seen to need a comment.
`CallsGetOn` is about termination: the code leaves 17 places with `goto redo_char`, which
look at the same character again in another state. Every such turn goes down a ladder
(`Rung`) of eleven rungs, across levels too, and every other turn goes on to a later character or
ends the call; so no call goes round for ever. `LevelsAlwaysClean` has the exemption of
`LevelsClean` for texts with a comment.

`FileAlwaysSound` (`LoadedWasSaved`), for every set of values, flags and lengths of transfers.
Its hypothesis is what the files need of the other two components (`ReadBackAssumption`): the
text of a value is read back as that value, and no proper beginning of it is taken for
one. For the printer and the parser of json-c that is `PrintedTextReadBack`; TLC checks it on the
values of the run, and evaluates the assumption itself there. The invariant (`FileInv`) says that what is in the file and
what is still to be written are together the text, and after a failure that the file is a proper
beginning of one.

Only model-checked: `PrintedTextReadBack` and `CutsAndPastInvisible`. They speak of
recursive functions of whole values and texts, so that a proof would need induction over
documents.

### 6.4 Not modelled

Failed allocations, serializers set by the program, the typed getters'
conversions, sorting and searching arrays, the byte order dependent hash, the
debug output, build files.

## 7. Light, touch screen, video buffers

* `Light`: `setLight` is one action (it holds `mLock`, and the service has one
  thread). `LedServesUsers`: the LED shows the first user in order that is lit
  and is dark if none is, also after a covered request comes back; a flash with
  its ramps takes no longer than it may, and its duty never falls on the way up. The states have colours with and
  without alpha, and times on both sides of the limit of the ramp. Users that
  have not called yet are left out (`lightKnown`): the constructor does not
  initialise `mLightStates` (`Light.cpp:108`). Writes succeed: the code ignores a
  failure.
* `TouchWake`: one action is one entry of `/dev/input`. `OnlyTouchScreenUsed`:
  an event goes to the first device with a known name that opens and to no
  other, and no descriptor stays open after a call. The
  result of the write is ignored by the code.
* `MediaInfo`: strides, scanlines and sizes for every colour format.
  `BufferHoldsFrame`: the size holds all planes that the header draws for a
  format, the metadata planes of the compressed RGB formats included, in the
  alignments of the code, and the extra data where the code makes room for it; every
  line and every tile's byte of metadata has its place; a smaller frame needs no larger
  buffer. The run takes sizes around every alignment and the threshold 2400;
  `MediaNext` is a stream that changes its resolution.

All three are proved in `PartsProofs`. `LedAlwaysServes`: for every sequence of
requests with bytes for colours (`LightAssumption`); the invariant says what one
`write` leaves in the attributes for the user that was chosen (`Serves`), and
`ClaimLemma` that the code's chain of tests chooses the first lit user.
`TouchScreenAlone`: for directories of any length (`TouchAssumption`); while the
directory is read, nothing read so far was a touch screen, and afterwards the one
that is open is the first.

`BuffersHoldFrames` (`MediaSpec => []BufferHoldsFrame`) is proved for all widths and heights (`FrameAssumption`: 1 to 8192, which keeps the sizes below
2^32, so that C's wrapping is out of play). Products of a stride and a number of
scanlines are opaque numbers in the proof: it needs only that they grow with
both factors (`TimesMonotone`), that rounding up grows (`AlignMonotone`), and that
rounding twice a size gives at most twice the rounded size (`AlignDouble`). The
last is what makes the interesting case true: `VENUS_BUFFER_SIZE` sizes NV12_UBWC
for two fields of half the height, and `FieldsHoldPicture` shows that this covers
a progressive picture too.

The comments of the header differ from the code in ways that the property follows
the code in, and says so: BPP10_UBWC is drawn with alignments of 128 and 32, the code has
256 and 16; RGBA8888_UBWC is drawn with 128 and 32 (lines 576-577) and RGB565_UBWC
with a stride of 128 (line 672), the code has 256 and 16; the totals of P010_UBWC
(765-769) and of the four RGB formats (537-539, 583-586, 630-633, 677-680) add extra data
that the code leaves out (`Extra`), so that their buffers are smaller than the totals
written there; the metadata of the UV plane of NV12_UBWC is drawn
from the full sides, the code takes half.

The nine parts of sections 6 and 7 and the two of section 4 (`RtRmnet`,
`RmnetCli`) are independent. `MCParts` runs them in one state machine, of which a behaviour takes
one (`part`), so that one run checks them; deadlock is switched off because a document ends, a
descriptor search ends, and a stream cannot grow for ever.

## 8. What is not modelled, and why

The kernel headers other than `msm_media_info.h` (more than half of the
repository's lines of C) declare ioctls, structures and register numbers for
drivers that are not here: they have no behaviour of their own, and a model of
the drivers would not be a translation of anything in the repository. The
overlays, XML, scripts and makefiles are configuration. The power statistics
service only passes constants to a library; the perfd client returns constants.
The parts left out of the modelled programs are named in 3.5, 4.5, 5.5 and 6.4.

Proved, for all values of the constants: the safety of the USB HAL and that it
implements `UsbSession`; the safety of both rmnet interfaces and of the command
line; datatop's types, heap, columns, differences, thread and waits; the LED, the touch
screen, the sizes of video buffers; json-c's hash table with its walks and that it
implements `JsonMap`, its reference counts, its seed, its print buffer, the levels and the
turns of its parser, and its files. Two of these have a hypothesis beyond the constants' types:
`TearDownReliable` (3.3) is there because the code does go wrong without it,
and `ReadBackAssumption` (6.3) is what the files take from the printer and the parser.

Checked on the instances described above, not proved: all liveness (`RequestReturns`,
`WakeUpNotLost`, `PullsUpAgain`, `CallReturns`, `RunsEnd`), which is outside what the prover
does; `AnswerComes`; `MessageSound`, which TLC evaluates completely; that json-c's parser reads back what its
printer writes, in any pieces, where both are recursive definitions, which the prover cannot take.
