# mate-user-share: specifications and proofs

mate-user-share shares the user's Public directory: over WebDAV, by an Apache
`httpd` it starts, and over Bluetooth, by two OBEX servers it asks
`org.openobex` for. This directory holds TLA+ modules for the parts of it that
keep state, TLC configurations that check them on small instances, and proofs
for the TLA+ proof system. `PROJECT.json` relates every definition to the lines
it models.

File names below are relative to `src/src/` unless a path is given.

## The system

| part | state | operations | hard part |
|---|---|---|---|
| `http.c`, web server manager | `httpd_pid`; the pid file; the httpd processes | `http_up`, `http_down`, `http_get_pid` | httpd is no child: the daemon knows it by a pid file only, waits in fixed sleeps, polls five times |
| `user_share.c`, the daemon | exit timer, `bluetoothd_enabled`, `has_console`, the Bluetooth client, the X selection | one handler per settings key, adapter and session callbacks, timer, signal and X error handlers | handlers block for seconds while settings change; three ways to exit; the selection decides who serves |
| `obexftp.c` | manager and server proxies | up, stop, down, restart | each of three remote calls can fail with or without effect |
| `obexpush.c`, server part | the same two proxies | up, stop, down, restart | the same |
| `obexpush.c`, sessions | `num_notifications`, the icon, per-session data | session created, transfer started, completed, cancelled, error, notification closed | event order, the unsigned counter, the accept policy read per transfer |
| `file-share-properties.c`, preferences | widgets, password file, pending writes | one callback per control, `update_ui`, `launch_share` | feedback from notifications through widgets to writes; writes are asynchronous |
| `user_share-private.c` | none | strings to enumerations and back | values the window shows and the daemon understands differently |
| `user_share-common.c` | none | directory lookup | none |
| `share-extension.c`, `caja-share-bar.c` | the bars | which folder gets which bar | the bars of several windows share one Bluetooth client |
| `data/dav_user_2.4.conf`, httpd | none of ours | Apache access rules | three password modes against methods |
| settings database (GSettings, dconf), external | eight keys | write, notify | a reader sees the value before, or long after, its notification |
| X server, external | owner of the selection | get, set | two instances at a time |

The preferences window writes a key and, when a switch goes on, launches the
daemon. A launched instance quits if the selection `_MATE_USER_SHARE` has an
owner, and becomes the daemon otherwise. The daemon is told of a written key by
a `changed::` notification which its main loop dispatches when it gets there;
the handler then reads the key **as it is at that time**. Handlers call
`http.c`, `obexftp.c` and `obexpush.c`, which block: `http_down` for a second,
`http_up` for up to five, the OBEX calls for as long as D-Bus takes. All
interesting behaviour comes from what happens meanwhile: another key changes, an
instance is launched and quits, httpd dies or is slow, a signal arrives.

What makes each part correct:

* `http.c`: the server `http_down` would kill is the only one there is; two
  servers with different password modes never overlap; the number of an old server
  is never taken for a new one; calls come back.
* the daemon: nothing is served that the user switched off, what runs has the
  password mode of the database, the timer never ends a share that was switched
  on again, a daemon that goes leaves nothing behind, a user who switches
  sharing on is eventually served.
* OBEX: the proxies come and go together, a server runs only if wanted and only
  with an adapter and an active session, settings reach the running server.
* sessions: the icon is shown while and only while there is something to show;
  a transfer is accepted only under the policy in force; no rejected one is announced.
* preferences: a value the user chose is not undone by a refresh of the window.

All of these parts are modelled, except `user_share-common.c`, the file manager
extension (`share-extension.c`, `caja-share-bar.c`) and the access rules of
Apache; see "Not modelled".

## Modules

| module | models | uses |
|---|---|---|
| `WebService` | what `http.c` promises its caller: an abstract specification | |
| `Httpd` | `http.c`, httpd and its pid file; on its own it has the daemon as a caller that keeps to `user_share.c`'s discipline | INSTANCE `WebService` |
| `HttpdHistory` | `Httpd` with a history of the processes since the last unlink of the pid file | EXTENDS `Httpd` |
| `Obex` | the server parts of `obexftp.c` and `obexpush.c`, as operators from proxies and remote state to the set of possible results | |
| `UserShare` | `user_share.c`, the settings database, launches, adapter, session, signals | EXTENDS `Httpd`, `Obex` |
| `SettingStrings` | `user_share-private.c` and the reading of the password mode by `http.c` | |
| `ObexPush` | the sessions of `obexpush.c` and the handlers that set their policy | EXTENDS `SettingStrings` |
| `Preferences` | `file-share-properties.c` over GSettings and dconf | EXTENDS `SettingStrings` |
| `Selection` | the beginning of `main`: instances racing for the X selection | |
| `Desktop` | the session: window, database and instances together | EXTENDS `Preferences`, `Selection` |
| `MCHttpd`, `MCUserShare`, `MCObexPush`, `MCDesktop` | values for TLC | EXTEND the above |
| `Httpd_proof`, `History_proof`, `UserShare_proof`, `ObexPush_proof` | theorems about each; `UserShare_proof` has the lemmas about `Obex` | EXTEND the above |
| `Settings_proof` | the handlers against the queue of notifications | EXTENDS `UserShare_proof` |
| `WebDav_proof` | the daemon as a user of `Httpd`: the build without Bluetooth, and what is left of it with Bluetooth | EXTENDS `Settings_proof` |
| `Bluetooth_proof` | the OBEX servers under the handlers | EXTENDS `Settings_proof` |
| `Desktop_proof` | the window, its refreshes and the instances | EXTENDS `Desktop` |

A module of a proof reaches no recursive operator; no module here needs one.

### Httpd

`call` says where in `http.c` the daemon is: `"kill"` and `"sleep"` in
`kill_httpd`, `"up"`, `"spawn"`, `"wait"` and `"poll"` in `http_up`. Between two of them
other processes move, so each is an action: `KillHttpd`, `KillSlept`,
`ReadSettings` (`get_port`, the search for the program, the argv with the
password mode), `SpawnHttpd` (unlink, `g_spawn_sync`), and `PollFound`,
`PollAgain`, `PollGivesUp`. `g_spawn_sync` waits for the program it starts and nothing bounds
that wait. With the fault `httpd_hangs` the server stays in the foreground and `http_up` in
`"wait"` until that server dies (`WaitEnds`), and `httpd -v`, which is part of `ReadSettings`,
need not end (`Hangs`). A process goes from `"starting"` (detached, no pid
file) through `"opened"` (file created, still empty, only with the fault
`torn_pidfile`) to `"up"`, and on SIGTERM to `"dying"`. The value of `pidfile` is
what `atoi` would read. Directory names, `env` and the configuration file are left
out. `socks` counts the sockets `get_port` leaves open.

Time is modelled by what it decides. Without the fault `slow_exit` the sleep of
`kill_httpd` does not end while the server still runs; without `slow_start` the
polling does not give up on a server that has still to write its file. With the faults
those waits end at any moment. The other faults are described in the module.
`ProcessEnds` is the end of the daemon's process with its statics; it is possible
at any time only with `daemon_killed`.

`HttpdHistory` adds one history variable, `since`: the processes that have been alive since
`http_up` last removed the pid file. `FreshPidAdopted` says that a number read from the file is
that of one of them, or 0 for an empty file; it holds under every fault, over a killed daemon
and reused ids, and is what the unlink is for.

### WebService, and the refinement

`WebService` knows no pid file, no signal and no poll: a call is under way
(`phase`), a server with one mode is there or not (`serving`), and the daemon
knows of one or not (`known`). A server appears only inside `http_up` and only if
there is none; when `http_up` returns, a server that is there is known; when
`http_down` returns there is none. The mapping is in `Httpd`: `Phase` from `call`,
`Served` from the processes alive, `Known` from `httpd_pid`. `ServiceImplemented` is
checked of the whole daemon (run `webdav`) and proved of `HttpdSpec` and of the
daemon. It is false with an httpd that does not react in time: that is what
`httpd_pidfile` shows in the concrete.

### Obex

A call is atomic for the daemon (one thread, blocking D-Bus calls) and nobody
else uses these servers, so a call is an operator `state -> set of states`. With
`ObexErrors` every D-Bus call can fail, with and without effect, and the results
follow the error branches: `CreateBluetoothServer` clears the manager proxy,
`Start` releases both unless the error is `Error.Started`, `Close` returns with
both still set unless it is `Error.NotStarted`. `remote` is the server at
`org.openobex`, which is external: states are what those error names tell apart.

### UserShare

`pc` is where the daemon's thread is: in a handler before its call (`"enabled"`,
`"ftp"`, `"push"`), in `http.c` (`"down"`, `"up"`), after it (`"arm"`, `"check"`,
`"ftp_check"`, `"push_check"`, `"cleanup"`), in the main loop (`"idle"`), on its way out
(`"exit"`), or nowhere (`"off"`, and `"boot"` before the settings are looked at).
`handler` is who called, so that returns go back to the right place; `"main"`
stands for the initial calls in `main`, which run the handlers in a row.

`db` is the settings database, `write` the one write under way, `notes` the FIFO
of `changed::` notifications, `launched` the instances that have not looked for
the selection. A handler that reads the database twice with a blocking call in
between is split there (`FtpEnabledChanged`/`FtpChecks`,
`PushEnabledChanged`/`PushChecks`, `TimerFires`/`TimerChecks`). Reads inside one OBEX
operation are taken at one moment, which the notification that follows any later
change makes good.

The session may take any value whenever the main loop is idle: nothing in the code depends on
what made it change. `adapter` is the adapter itself, external, which comes and goes at any
moment (`AdapterSwitched`); a live client is told of it by an event that waits for the main loop
(`adapter_note`), and `bluetoothd_enabled` is what the daemon saw when it last looked.
`ServicesStart` keeps the code's `g_object_unref (client)` at its end: after the first one no
adapter callback comes any more, so that `adapter` goes on and `bluetoothd_enabled` does not, and a
second one is undefined behaviour, modelled as a
choice between going on and the end of the process. `ObexOnlyIfActive` speaks of the adapter
itself as long as the client lives and its last change has been dealt with, and claims nothing of
it afterwards: an adapter that goes then leaves the servers up (`user_share.c:102`, see the hazards). When the process ends, so
does its bus name and with it its servers at `org.openobex`; httpd goes on.

`Signal` can come at any `pc`, `DisplayLost` only in the main loop, where Xlib
reads. `Dispatch` takes a notification; without Bluetooth the Bluetooth keys have
no handler.

What happens between two instances before one of them owns the selection is in
`Selection`; `UserShare` has `Launch` as one step and one daemon at a time. The
policy of `ObexPush` is kept out of `UserShare` in the same way: its two keys,
`bluetooth-accept-files` and `bluetooth-notify`, meet no handler of the others.

### SettingStrings

The four conversions between strings and enumerations with their fallbacks, an
out-of-range number and an unknown string included. `HttpdMode` is the reading
`http.c` has of the same key without them. `Preferences` and `ObexPush` go through
these operators wherever the code does, so an error in one is an error of theirs:
the mutants `MutAcceptStrings` and `Mutpassword_string_from_setting` are in this module.

### ObexPush

One action per callback (`SessionCreated`, `TransferStarted`, `TransferOver`,
`TransferCancelled`, `ErrorOccurred`, `NotificationClosed`), dispatched from `bus`,
the FIFO of the signals of `org.openobex`. A callback keeps the main loop until it returns, and
but for one it is one step. `transfer_started_cb` is two, `TransferStarted` up to its decision and
`TransferAnswered` for its Accept or Reject, because bluez is asked between them: meanwhile
(`answering`) the device may be unpaired, the transfer end and the next one begin. A signal may be
old too: `remote` is the transfer as the service has it, which may be over, or be another
one, when the callback of its start runs. `Answered` and `Unanswered` are the two
outcomes of Accept or Reject.

`AcceptedOnlyIfAllowed` speaks of the pairing this callback found (`was_paired`): a device unpaired
between that look and Accept is accepted, by this code and by any that cannot ask and answer at once.

A Reject that comes late hits the next transfer of the session, whose own callback then comes with
nothing to answer, keeps the file name and announces the file when the transfer ends. Whose answer a
transfer got is kept with it: `remote` becomes `"rejected"` by the answer to its own TransferStarted
and `"crossed"` by that to an earlier one (`Waiting`), and each signal on the bus carries whether
the transfer it ends was rejected by its own answer, a history. `RejectedIsSilent` is about those;
of a crossed transfer it claims nothing, as the code does announce it.

`data` is what the code keeps on the proxy of a session with `g_object_set_data`:
the file name, the address, the method a decision was taken under, the decision.
The method is never stored after the first transfer (line 302), so each transfer is
decided anew; `MutStored` is the code with the line that seems to be missing, and breaks
`AcceptedOnlyIfAllowed` because a device may be unpaired between two transfers.

`num_notifications` is a guint and wraps modulo `Guints`. `hide_statusicon` is called by
three callbacks, twice in one of them, so `Hide` takes the number of calls. A few
histories take the counter away from what it counts: a rejected file, a cancelled one, a
second one in hand, a notification that was not shown, a counter at its limit. Each is
named where it happens by the history variable `miscounted`; `IconCounts` says that there are
no others. That the icon stays or goes at the wrong time after one of them is what the code
does (the comment at line 374 says that a cancelled transfer is not implemented properly), and no
document promises better.
`bluetooth-notify` is read from the database at the end of a transfer; the variable
`show_notifications` that its handler sets is read by nobody. "ask" is accepted as a
policy but asks nobody: it rejects (the comment at line 315).

### Preferences

GSettings tells a process of its own write before the write returns, so a handler that
writes runs `update_ui` from within, which sets the controls, which call their handlers.
`updates` is the stack of the running calls; each has the values it read (`UpdateOf`: its
eight reads are taken as one) and the control it is at, and `UpdateUi` runs the innermost
up to its next control that calls its handler. A toggle button that is already as it
should be is silent, and so is a combo box with the row it has; `Emits` is that, with the
case of a row that does not exist.

`mine` holds the writes of the window that dconf-service has not taken: the window reads
through them (`View`), nobody else does. Another program's write (`ForeignWrite`) is told to
the window by its main loop; `foreign` is the log of those writes, a history, and each frame
of `updates` remembers in `seen` how much of it there was when the frame read the
settings. `NoEffectDropped` says whether dconf drops a write that
changes nothing, as its later versions do; without that each control of a window that
opens writes and the refreshes nest deeper, too many states beside two instances, so that
the run has it; the theorems are about both. `Handler` launches the daemon together with the write; in the code the
launch follows the nested refresh, so that an instance here may start earlier than it can,
never later.

The password file is a variable of its own: `write_out_password` runs on each change of the text,
not on a key. `chosen` has the password typed last whether or not the file could be opened for it;
when it could not, the history `unopened` has the password that stayed, and `UserChoiceKept` says
that it does stay.

### Selection and Desktop

An instance goes through look, set, look again, `file_sharing_enabled`, stay. The X server
lets `XSetSelectionOwner` take the selection from its owner, and gives it back when a process
ends. `raced` is a history: an instance set itself while another had looked and found no
owner. `SecondOnlyByRace` says that this is the one way to two daemons; after it, whoever lost
the selection keeps nobody out once the winner has ended. In `Desktop` the session and the window launch instances, an instance reads `db`, where
the window's last write may be missing, and a daemon may leave at any time (its own reasons
are in `UserShare`).

## Runs

| run | result | what it asks |
|---|---|---|
| `httpd_faults` | pass | `CallReturns` and `FreshPidAdopted` under every fault, a daemon killed and programs that never end among them |
| `httpd_pidfile` | violation | the promise of `http.c:338` against a server that is slow to exit |
| `webdav` | pass | the build without Bluetooth down to the httpd processes, with failing spawns, crashes and no descriptors, but an httpd that reacts in time: `NoOrphan`, `ServersNeverOverlap`, `PasswordFresh`, `ServedOnlyIfEnabled`, `NothingLeftBehind`, types; it implements `Httpd` (`HttpdImplemented`, the identity mapping) and the abstract service (`ServiceImplemented`) |
| `webdav_live` | pass | `EventuallyServed`, `EventuallyGone` in that build |
| `webdav_restart` | violation | the promise of `user_share.c:257` in the Bluetooth build |
| `bluetooth` | pass | who runs when: `ManagedOnlyIfEnabled`, `ObexOnlyIfWanted`, `ObexOnlyIfActive`, `NoStrayObex`, with the adapter and the session coming and going and the display lost |
| `obex_pairing` | violation | the promise of `user_share.c:311-312` |
| `bt_orphan` | violation | an exit of the Bluetooth build that leaves httpd serving |
| `faults` | pass | `ProxiesPaired`, `TimerOnlyWhileDown`, types: failing D-Bus calls, lost servers, signals everywhere |
| `push` | pass | a device sends files while the policy changes, answers come late or hit the next transfer and calls fail: `IconCounts`, `AcceptedOnlyIfAllowed`, `RejectedIsSilent`, `EveryOfferAnswered`, types |
| `desktop` | pass | the window, another program, a slow dconf and two instances: `UserChoiceKept`, `ShownIsStored`, `RefreshesNest`, `SecondOnlyByRace`, `DaemonComes`, types |
| `two_daemons` | violation | the promise of `user_share.c:424` against two instances launched together |

Every property of a passing run has a mutant: a change of one definition that
would be a plausible bug of the mapped code (`Mut...`, next to the definition it
changes) and that breaks the property in that run.

### What the violations say

* `httpd_pidfile`: kill, one second, unlink, spawn. If the old httpd takes longer
  it removes the pid file when it exits, and that file may by then be the new
  server's. `http_up` gives up with the server up and `httpd_pid` 0.
* `webdav_restart`: the timer handler is in `http_down` when the user switches
  sharing on. The instance the window launches finds the selection owned and
  quits. In the Bluetooth build the handler then checks only the Bluetooth switches
  and exits. The build without Bluetooth checks `enabled` there.
* `obex_pairing`: the pairing changes and the switch goes off. The change of the pairing is
  dispatched while the switch reads FALSE, so its handler does nothing. The switch is on again
  before its own handler reads it, so that one does not take the server down either: it finds the
  proxies set, `Start` answers `Error.Started`, and the server runs on with the old pairing.
* `bt_orphan`: at startup with WebDAV alone on, which is switched off after `main` has started the
  server. The next call in `main`, `file_sharing_bluetooth_enabled_changed`, finds its own switch
  off, then the other two as well, and exits with the change of `enabled` still waiting and httpd
  up. Line 341, the exit of the ObexPush switch, does the same; the timer and the signal handler
  call `http_down` first.
* `two_daemons`: both instances find no owner. The first sets itself, looks and stays; then
  the second sets itself, which takes the selection from the first, looks and stays. Nobody
  listens for the loss of the selection. The other order, both set before either looks, is
  what the second look is for and leaves one.

### Bounds, and why they are enough

* `Pids`: two process ids, the old server and the new, so a reused id happens too; three in the runs of `Httpd`
  alone, where servers can be left behind. `Modes`: two, as the code only copies the mode. `faults` has one id and one mode, since nothing it checks is about
  either.
* `Tries`: 5 as in the code in `httpd_pidfile` and `webdav`, where the loop is what is
  asked about, fewer where only its end matters.
* `MaxNotes`: notifications the daemon has not dispatched, 1 to 3. Two are needed
  to have one of each of two keys waiting and three to have a stale one of each. At
  the bound the database takes no further write until one is dispatched: a
  restriction of the environment.
* `MaxLaunched`: two instances make the second find an owner. `SockLimit` 2: one
  server started, one replaced, then none.
* `WrittenKeys`, `Login`: which settings the user touches in the run and their
  values at login. The others keep the schema's default. `bluetooth` writes the three
  switches only: the handlers of `bluetooth-allow-write` and
  `bluetooth-require-pairing` restart ObexFTP without asking `OBEX_ENABLED`, and with them
  `ObexOnlyIfActive` does not hold (no document promises it of them).
* `Sessions`: one in `push`, whose states are already many with a policy, a queue and three
  faults; that sessions do not disturb each other is what the theorems of `ObexPush_proof` add,
  which hold for any number. `Guints` 4 lets the counter wrap. `MaxLoad` 3 bounds signals,
  files and notifications together: enough for a transfer to end and the next one to
  begin before the first signal is dispatched.
* `UserKeys`, `ForeignKeys`, `PrefsLogin`: the user uses one switch and the combo box
  without a row for "ask"; another program writes `notify`, once. The two logins have "ask", an
  unknown string and "bonded_and_trusted", a switch on and all off, and one lets the password entry be used.
  Nothing bounds the nesting of refreshes but what `RefreshesNest` asserts; the login with the two
  strings the window writes otherwise reaches all three levels of it.
  `Instances` 2: with a third nothing new can be between look and set.
* One change of the adapter waits for the main loop at a time; the adapter itself is what the
  handler looks at, so that a second waiting change would show it nothing else.
* One server stays in the foreground at a time, as `http_up` waits for it; the pid file such a
  server writes is left out.
* `DaemonFaults`: `slow_commit` lets the launched instance read the database before
  the write that preceded it; it is absent where the run asks what the code does
  with an orderly database.

### Fairness

`HttpdSpec`: the daemon goes on in `http.c` and httpd gets to its next step
(`HttpdWorks`), as the kernel schedules both and the sleeps end. Nothing makes a
server crash or a spawn fail, nor, with `httpd_hangs`, `httpd -v` end or a server in the foreground
die: `CallReturns` says that a call comes back unless it waits for one of these two for ever. `Spec` adds: the thread of the daemon, the timer (an
idle main loop runs a due source), a write that was made reaches the database, a
launched instance looks for the selection. Nothing makes the user, the adapter, the
session or a signal act. `PushSpec` has the main loop get to the signals and to the policy's
notification and the calls of a callback return (D-Bus calls time out), and nothing makes a device or the notification daemon act. `Desktop` has the
instances run; the window needs no fairness, as `DaemonComes` speaks of instances already
launched. All of it is weak fairness: each of these stays
enabled until taken or until something makes it pointless.

## Proofs

Checked by `tlapm` for every value of the constants that satisfies
`HttpdAssumption`, `ObexAssumption`, `UserShareAssumption`, `PushAssumption`,
`PreferencesAssumption` and `SelectionAssumption`.

| theorem | module | says |
|---|---|---|
| `HttpdTypeCorrect` | `Httpd_proof` | `HttpdTypeOK` |
| `NoServerIsLost` | `Httpd_proof` | `NoOrphan`, if httpd reacts in time (`Prompt`) |
| `NoTwoServers` | `Httpd_proof` | `ServersNeverOverlap`, under `Prompt` |
| `HttpdImplementsService` | `Httpd_proof` | `ServiceImplemented` of `HttpdSpec`, under `Prompt` |
| `PidIsFresh` | `History_proof` | `FreshPidAdopted`, under every fault |
| `UserShareTypeCorrect` | `UserShare_proof` | `UserShareTypeOK` |
| `ProxiesStayPaired` | `UserShare_proof` | `ProxiesPaired`, whatever call fails |
| `TimerNeverHarms` | `Settings_proof` | `TimerOnlyWhileDown`, both builds, every fault |
| `ServerIsWanted` | `Settings_proof` | `ManagedOnlyIfEnabled`, both builds, every fault |
| `DaemonImplementsHttpd` | `WebDav_proof` | `HttpdImplemented`, under `WebDavOnly` |
| `NothingIsLeftBehind` | `WebDav_proof` | `NothingLeftBehind`, under `WebDavOnly` and `Prompt` |
| `OnlyTheWantedIsServed` | `WebDav_proof` | `ServedOnlyIfEnabled`, under the same |
| `PasswordIsFresh` | `WebDav_proof` | `PasswordFresh`, under the same |
| `DaemonImplementsService` | `WebDav_proof` | `ServiceImplemented` of the daemon, under the same |
| `TwoWaysToLoseServers` | `WebDav_proof` | `NoOrphan`, `ServersNeverOverlap`, `ServedOnlyIfEnabled` and `PasswordFresh` in both builds under `Prompt`, as long as no exit has left a server behind and no signal has come while `http_up` waits for httpd or its pid file |
| `NoStrayServers` | `Bluetooth_proof` | `NoStrayObex`, if no D-Bus call fails that need not (`CallsSucceed`) |
| `ObexIsWanted` | `Bluetooth_proof` | `ObexOnlyIfWanted`, under `CallsSucceed` |
| `ObexIsActive` | `Bluetooth_proof` | `ObexOnlyIfActive`, under `CallsSucceed` and `OnlySwitchesWritten` |
| `PushTypeCorrect` | `ObexPush_proof` | `PushTypeOK` |
| `IconIsRight` | `ObexPush_proof` | `IconCounts` |
| `AcceptedByPolicy` | `ObexPush_proof` | `AcceptedOnlyIfAllowed`, of the pairing the callback found |
| `RejectedStaysSilent` | `ObexPush_proof` | `RejectedIsSilent`, per transfer |
| `PreferencesTypes` | `Desktop_proof` | `PreferencesTypeOK` |
| `ChoiceIsKept` | `Desktop_proof` | `UserChoiceKept` |
| `WindowShows` | `Desktop_proof` | `ShownIsStored` |
| `NestingIsBounded` | `Desktop_proof` | `RefreshesNest`, with either version of dconf |
| `SecondIsByRace` | `Desktop_proof` | `SecondOnlyByRace`, any number of instances |

`WebDavOnly` is the build without Bluetooth, without signals:
`bt_orphan` shows that the Bluetooth build does not have these properties by itself, and a
signal while `http_up` waits for httpd or its pid file can leave the server it just spawned.
`Prompt` says that `Faults` has none of `slow_start`, `slow_exit`,
`torn_pidfile` and `daemon_killed`: with any of them these theorems are false, and the
counterexamples are what `httpd_pidfile` shows and the hazards of `PROJECT.json` list.

`NoOrphan` is not inductive: it says nothing while the daemon is inside `http.c`.
`ServerInv` adds what the polling relies on: between the spawn and the end of
the polls the one process alive is the one just spawned, the pid file is empty or
names it, and outside of that window a process alive is `httpd_pid`.

`PidIsFresh` rests on `FreshInv`: while `http_up` polls, every process alive is in `since`, and so is
the number in the pid file unless it is empty. Nothing is assumed of the faults: a killed daemon leaves
its servers and its file behind, and the unlink comes between them and the next look.

`ProxiesPaired` needs the operators of `Obex`: each lemma about them in `UserShare_proof` shows
that one call takes paired proxies to paired proxies, through every error branch;
its step lemma then goes through the actions.

`DaemonInv` (`Settings_proof`) is what the handlers and the queue of notifications
maintain together. Its core are two readings of the same queue: between the moment
a handler read the switch as off and the moment it arms the timer, a switch that is on
again has a notification waiting (`Downed`); and while a server is there, or a
handler is on its way to start one, a switch that is off has one waiting, or its handler
is running (`ServerWanted`). Both rest on `PendingOfCommit` and
`PendingOfDispatch`: a write to a running daemon queues its key at the end, and
taking another key off the front leaves it there. `CallPlaced` says which handlers
can be inside `http.c`.

`WebDav_proof` then shows that every step of the system is a step of `Httpd`
(`StepIsHttpd`), for which `WaysOut` is needed: each way to the end of the process
leads through `http_down`. With that, `ServerInv` of `Httpd_proof` holds in the
whole system, and with `NoneAlive` (no known server, none alive) the three properties
that relate servers to settings follow; `ServersFresh` carries the password
mode from the argv of `spawn_httpd` to the process.

With Bluetooth the exits of its handlers do not go through `http_down`, which is what `bt_orphan`
shows, and in both builds a signal between the spawn of a server and its pid file finds
`httpd_pid` 0, as does one that comes while `http_up` waits for a server in the foreground. `TwoWaysToLoseServers` says that nothing else goes wrong: its hypotheses are
`[]NothingLeftBehind` and `[][SignalSafe]_vars` (a signal comes at any moment but that), and under
them the same invariant is kept by every step of both builds (`SystemStep`). Both are properties of
a behaviour, not of the constants, since the same build has behaviours with and without them. The
theorems of the build without Bluetooth and without signals are the case in which both
hypotheses are themselves theorems (`NothingIsLeftBehind`).

The refinement proofs (`HttpdImplementsService`, `DaemonImplementsService`) go step by step:
each action of `Httpd` is an action of `WebService` or a stutter under the mapping, for which
`ServerInv` is needed again: that `PollFound` makes a living server known, that `PollGivesUp` leaves none,
that `KillSlept` ends with none. The daemon's theorem combines the first with
`DaemonImplementsHttpd`.

`ObexInv` (`Bluetooth_proof`) has three parts: a server that runs has its proxies
(`BtHeld`); none runs outside a process or in a build without Bluetooth
(`SilentOutside`); and one that runs has its switch on in the database, a
notification of it waiting, its handler about to run, or a process on its way out
(`ServersWanted`), which again rests on `PendingOfCommit` and `PendingOfDispatch`. A failing
`Close` leaves a server running with its switch off, so `CallsSucceed` is needed.
For the adapter and the session `ActiveInv` adds that only
written keys are ever notified, so that with `OnlySwitchesWritten` the two handlers that
do not ask `OBEX_ENABLED` never run. `AdapterKnown` ties what the daemon saw to the adapter itself:
with a live client and no change waiting the two agree, and every change of the one makes the
other's event wait (`KnownStep`).

`ObexPush_proof` counts: the cardinality of the files in hand changes by one exactly where
`num_notifications` does, or the step sets `miscounted`. The counter stays below its limit as long as
nothing is miscounted, which is why a full counter is one of the named histories.
`AcceptedOnlyIfAllowed` needs that a decision stored on a session was never taken under the
policy in force now (its method is never an actual one), so that `Decided` decides; and since the
decision and the answer are two steps, that between them it stays the one of this callback, by the
policy still in force, with `was_paired` what bluez was asked (`DecisionHolds`). For
`RejectedIsSilent`, `SilentInv` follows a transfer to the signal of its end: from the answer that
rejects it until that signal is dispatched its session has no file name, and no TransferStarted of the
session waits ahead of the signal that could give it one.

`Desktop_proof` is about a stack of refreshes, each going by what it once read. What the proofs
share is what the two conversions do in a row (`Canon`): a value keeps its meaning and its
control, twice is once, and only "ask" changes, to "bonded" (`CanonOf`).

* `UserChoiceKept` is not inductive, as it does not look at the refreshes that still run.
  `ChoiceInv` has each frame hold what the user chose as well: the user acts only at rest, and what a
  frame writes means what it read.
* `ShownIsStored` is about a window at rest. `ShownInv` says of any moment without a notification
  waiting that every frame agrees with the settings up to `Canon`, and that each control that does not
  show them has a frame that has still to come to it; the same for the groups and the password entry.
  When a frame returns nothing is left to the others that it has not set right.
* For `RefreshesNest` `ReadInv` says how old a frame may be: but for the keys others have written
  since, the settings are what it read, as it was or as `Canon` makes it. `Todo` is the set of keys a
  frame can still write, and `DepthInv` says that depth and the size of `Todo` together
  stay below a constant plus the writes of others: a refresh within another has a key less
  (`TodoOfNew`). "ask" counts as a key more, since it is written once as itself and once over.
* `RaceInv`: without a race, who has set itself is the owner, and nobody has looked that would set
  itself later.

Only model-checked, because liveness with its fairness is out of the prover's reach:
`CallReturns`, `EventuallyServed`, `EventuallyGone`, `EveryOfferAnswered`,
`DaemonComes`. Every other property of a passing run is a theorem. Of `RefreshesNest` and of the other
three invariants of the window the run shows the case of a dconf that drops writes without effect; the
theorems have both.

## Not modelled

* The file manager extension. It has one hazard, listed in `PROJECT.json`: the callback of a bar
  that was destroyed stays connected to the client all bars share. That client is inside
  libmate-bluetooth, and a model of the extension would be a model of the library.
* `user_share-common.c` (directory names), the access rules in `dav_user_2.4.conf` (interpreted by
  Apache), translations, help, build files, the help button and the error dialogs.
* The loss of the session bus (`obexpush_stop` then reads a NULL error, see the
  hazards), a process other than httpd getting the signal that a reused pid was meant for, and
  a signal inside a D-Bus call, which would re-enter libdbus.
* `obexftp_init`, `obexpush_init`, `http_init`: failing there ends the process
  before it has started anything.
* `migrate_old_configuration`: a call of an external converter that ends before any setting is read.
* What a notification shows, the file its actions open, the sound.
* The handlers of the daemon against the handlers of sessions: `UserShare` and `ObexPush` each
  have a main loop of their own, as no state is shared but the two proxies of the server, which no session callback
  touches.
* A write of the window between two of the eight reads of one `update_ui`: the process itself makes
  none there, and another program's is followed by a notification that refreshes again.

## What could come next

* An abstract specification of a transfer (offered, decided once, announced or not) that `ObexPush`
  implements, in the place of three separate invariants.

* `DaemonComes` for any number of instances, by model checking three, without the window.
