------------------------------ MODULE ObexPush ------------------------------
(***************************************************************************)
(* src/src/obexpush.c, the sessions: devices send files over the ObexPush  *)
(* server, the daemon accepts or rejects each by the policy of the         *)
(* setting bluetooth-accept-files, shows a status icon while something is  *)
(* in hand, and announces a received file with a notification.             *)
(*                                                                         *)
(* The module starts where main enters its main loop with the server up.   *)
(* A callback keeps the main loop until it returns: accept_setting changes *)
(* only outside it, and the signals of org.openobex that arrive meanwhile  *)
(* wait in the FIFO of the bus.  transfer_started_cb is two steps, for the *)
(* world goes on between its look at bluez and its answer: by then the     *)
(* transfer may be over, another may wait in its place, and the device may *)
(* no longer be paired.                                                    *)
(*                                                                         *)
(* External are the devices, the sessions of org.openobex, the settings    *)
(* database and the notification daemon.                                   *)
(***************************************************************************)
EXTENDS SettingStrings, FiniteSets

CONSTANTS
  Sessions,    \* the sessions devices open
  Policies,    \* values of bluetooth-accept-files that occur
  Guints,      \* values of a guint (num_notifications), 2^32 in the code
  MaxLoad,     \* bound: signals waiting, files in hand and open notifications
  PushFaults   \* what may fail, a subset of AllPushFaults

\* info_fails: GetServerSessionInfo fails or has no address.  call_fails: an
\* Accept or Reject fails though the transfer waits for it, and bluez does not
\* tell whether a device is paired.  show_fails: no notification appears.
AllPushFaults == {"info_fails", "call_fails", "show_fails"}

ASSUME PushAssumption ==
  /\ IsFiniteSet(Sessions)
  /\ Policies \subseteq AcceptValues
  /\ Guints \in Nat \ {0, 1}
  /\ MaxLoad \in Nat
  /\ PushFaults \subseteq AllPushFaults

VARIABLES
  db_accept, db_notify,  \* bluetooth-accept-files, bluetooth-notify
  accept_note,           \* the changed:: notification of the first waits
  accept_setting,        \* static AcceptSetting accept_setting
  num_notifications,     \* static guint num_notifications
  icon,                  \* statusicon: "none" (NULL), "hidden" or "visible"
  data,                  \* the proxy of each session and the data set on it
  open,                  \* notifications on the screen
  answering,             \* the session transfer_started_cb is to answer
  paired,                \* the device of the session is paired
  remote,                \* the transfer as org.openobex has it
  bus,                   \* its signals the main loop has not dispatched
  was_paired,            \* history: paired, when this callback asked bluez
  failed,                \* history: the last callback gave no answer
  miscounted             \* history: the icon's counter has gone wrong

settingVars == <<db_accept, db_notify, accept_note, accept_setting>>
iconVars == <<num_notifications, icon, open>>
callbackVars == <<answering, was_paired, failed>>
deviceVars == <<paired, remote>>
pushVars == <<settingVars, iconVars, callbackVars, deviceVars, data, bus, miscounted>>

Ends == {"completed", "cancelled", "error"}
Signals == {"created", "started"} \cup Ends

\* offered: the device waits for an answer.  crossed: rejected, but by the
\* answer to an earlier transfer of the session.
Transfers == {"none", "idle", "offered", "running", "rejected", "crossed"}

\* A signal on the bus, with a history of the transfer it ends: the daemon
\* rejected it, in answer to its own TransferStarted.
Messages == Sessions \X Signals \X BOOLEAN
Started(i, s) == bus[i][1] = s /\ bus[i][2] = "started"
Waiting(s) == \E i \in DOMAIN bus : Started(i, s)

NoMethod == -1
SessionData == [proxy : BOOLEAN, filename : BOOLEAN, bdaddr : BOOLEAN,
                method : {NoMethod} \cup 0 .. ACCEPT_ASK, authorise : BOOLEAN]
NoProxy == [proxy |-> FALSE, filename |-> FALSE, bdaddr |-> FALSE,
            method |-> ACCEPT_ALWAYS, authorise |-> FALSE]

InHand == {s \in Sessions : data[s].filename}

PushTypeOK ==
  /\ db_accept \in Policies /\ db_notify \in BOOLEAN
  /\ accept_note \in BOOLEAN
  /\ accept_setting \in 0 .. ACCEPT_ASK
  /\ num_notifications \in 0 .. Guints - 1
  /\ icon \in {"none", "hidden", "visible"}
  /\ data \in [Sessions -> SessionData]
  /\ open \in Nat
  /\ answering = {} \/ \E s \in Sessions : answering = {s}
  /\ paired \in [Sessions -> BOOLEAN]
  /\ remote \in [Sessions -> Transfers]
  /\ bus \in Seq(Messages)
  /\ was_paired \in BOOLEAN
  /\ failed \in [Sessions -> BOOLEAN]
  /\ miscounted \in BOOLEAN

\* main has passed the two settings on before it enters the main loop.
PushInit ==
  /\ db_accept \in Policies /\ db_notify \in BOOLEAN
  /\ accept_note = FALSE
  /\ accept_setting = accept_setting_from_string(db_accept)
  /\ num_notifications = 0 /\ icon = "none" /\ open = 0
  /\ data = [s \in Sessions |-> NoProxy]
  /\ paired \in [Sessions -> BOOLEAN]
  /\ remote = [s \in Sessions |-> "none"]
  /\ bus = <<>>
  /\ answering = {} /\ was_paired = FALSE
  /\ failed = [s \in Sessions |-> FALSE]
  /\ miscounted = FALSE

-----------------------------------------------------------------------------
(* The settings *)

\* Somebody writes bluetooth-accept-files or bluetooth-notify (external).
AcceptWritten(value) ==
  /\ value # db_accept
  /\ db_accept' = value /\ accept_note' = TRUE
  /\ UNCHANGED <<db_notify, accept_setting, iconVars, callbackVars, deviceVars,
                 data, bus, miscounted>>

NotifyWritten ==
  /\ db_notify' = ~db_notify
  /\ UNCHANGED <<db_accept, accept_note, accept_setting, iconVars, callbackVars,
                 deviceVars, data, bus, miscounted>>

\* No callback is under way.
InMainLoop == answering = {}

\* file_sharing_bluetooth_obexpush_accept_files_changed.  Its sister for the
\* other key sets a variable nobody reads.
AcceptFilesChanged ==
  /\ InMainLoop /\ accept_note
  /\ accept_note' = FALSE
  /\ accept_setting' = accept_setting_from_string(db_accept)
  /\ UNCHANGED <<db_accept, db_notify, iconVars, callbackVars, deviceVars, data,
                 bus, miscounted>>

-----------------------------------------------------------------------------
(* The devices and org.openobex, external *)

\* A session's signals reach the daemon only once it has a proxy for it.
Emitted(s, event) ==
  IF event = "created" \/ data[s].proxy
    THEN Append(bus, <<s, event, remote[s] = "rejected">>) ELSE bus

Connect(s) ==
  /\ remote[s] = "none"
  /\ remote' = [remote EXCEPT ![s] = "idle"]
  /\ bus' = Emitted(s, "created")
  /\ UNCHANGED <<settingVars, iconVars, callbackVars, data, paired, miscounted>>

\* TransferStarted: the device waits for an answer.
Offer(s) ==
  /\ remote[s] = "idle"
  /\ Len(bus) + open + Cardinality(InHand) < MaxLoad
  /\ remote' = [remote EXCEPT ![s] = "offered"]
  /\ bus' = Emitted(s, "started")
  /\ UNCHANGED <<settingVars, iconVars, callbackVars, data, paired, miscounted>>

\* The transfer ends.  The sender may cancel, or an error occur, before the
\* answer too.  After a Reject any signal may come, or none.
End(s) ==
  /\ \/ \E event \in Ends :
          /\ event = "completed" => remote[s] # "offered"
          /\ bus' = Emitted(s, event)
     \/ remote[s] \in {"rejected", "crossed"} /\ bus' = bus
  /\ remote[s] \notin {"none", "idle"}
  /\ remote' = [remote EXCEPT ![s] = "idle"]
  /\ UNCHANGED <<settingVars, iconVars, callbackVars, data, paired, miscounted>>

Repair(s) ==
  /\ paired' = [paired EXCEPT ![s] = ~paired[s]]
  /\ UNCHANGED <<settingVars, iconVars, callbackVars, data, remote, bus, miscounted>>

-----------------------------------------------------------------------------
(* The status icon *)

\* A plausible bug: only a new icon is counted.
MutCountedUp == IF icon = "none" THEN 1 ELSE num_notifications
CountedUp == IF num_notifications = Guints - 1 THEN 0 ELSE num_notifications + 1

\* hide_statusicon, as often as the callback calls it: the counter wraps, and
\* the icon hides whenever it passes 0.  A plausible bug: a counter that does not
\* wrap.
MutCountedDown(times) == num_notifications - times
CountedDown(times) ==
  IF times <= num_notifications THEN num_notifications - times
  ELSE num_notifications + Guints - times
Passes0(times) == times > 0 /\ num_notifications \in 1 .. times

Hide(times) ==
  /\ num_notifications' = CountedDown(times)
  /\ icon' = IF Passes0(times) /\ icon # "none" THEN "hidden" ELSE icon

-----------------------------------------------------------------------------
(* The callbacks *)

\* session_created_cb
SessionCreated(s) ==
  /\ data' = [data EXCEPT ![s].proxy = TRUE]
  /\ UNCHANGED <<iconVars, callbackVars, miscounted>>

\* The first transfer of a session: who is it?  The answer may lack the address.
FirstTransfer(d) ==
  IF d.bdaddr THEN {d}
  ELSE LET known == [d EXCEPT !.bdaddr = TRUE, !.method = NoMethod]
       IN {known} \cup IF "info_fails" \in PushFaults
                         THEN {[known EXCEPT !.bdaddr = FALSE]} ELSE {}

\* device_is_authorised: whatever goes wrong, the answer is no.
DeviceIsAuthorised(s) ==
  {paired[s]} \cup IF "call_fails" \in PushFaults THEN {FALSE} ELSE {}

\* The policy; "ask" is not implemented.
Policy(bonded) ==
  accept_setting = ACCEPT_ALWAYS \/ (accept_setting = ACCEPT_BONDED /\ bonded)

\* The method a decision was taken under is never stored on the session, so
\* each transfer is decided anew.  A plausible bug: it is, as if a device
\* stayed paired for ever.
MutStored(method) == accept_setting
Stored(method) == method

\* Unless the last decision of the session was taken under the same method.
Decided(s, d) ==
  IF d.method = accept_setting THEN {d}
  ELSE {[d EXCEPT !.authorise = d.bdaddr /\ Policy(bonded), !.method = Stored(@)] :
          bonded \in DeviceIsAuthorised(s)}

\* transfer_started_cb up to its answer: the file is in hand and the icon shown
\* before anything can fail; without the session information it gives none.
\* A second file in hand for a session is never made good, nor is a counter
\* that is full.
TransferStarted(s) ==
  /\ icon' = "visible"
  /\ num_notifications' = CountedUp
  /\ open' = open
  /\ LET named == [data[s] EXCEPT !.filename = TRUE]
     IN \/ /\ \E d \in UNION {Decided(s, f) : f \in FirstTransfer(named)} :
               data' = [data EXCEPT ![s] = d]
           /\ answering' = {s} /\ was_paired' = paired[s]
           /\ failed' = failed
        \/ /\ ~named.bdaddr /\ "info_fails" \in PushFaults
           /\ data' = [data EXCEPT ![s] = named]
           /\ failed' = [failed EXCEPT ![s] = TRUE]
           /\ UNCHANGED <<answering, was_paired>>
  /\ miscounted' = (miscounted \/ data[s].filename \/ CountedUp = 0)

\* A plausible bug: the name of a rejected file is kept.
MutNameForgotten(d) == d
NameForgotten(d) == [d EXCEPT !.filename = FALSE]

\* A file no longer in hand that the icon still counts is never made good.
Settle(s, d, at) ==
  /\ data' = [data EXCEPT ![s] = d]
  /\ remote' = [remote EXCEPT ![s] = at]
  /\ failed' = [failed EXCEPT ![s] = FALSE]
  /\ miscounted' = (miscounted \/ ~d.filename)

\* A plausible bug: a transfer that is not to be accepted is left waiting.
MutAnswered(s, d) ==
  /\ remote[s] = "offered"
  /\ \/ d.authorise /\ Settle(s, d, "running")
     \/ ~d.authorise /\ Settle(s, NameForgotten(d), "offered")

\* Accept or Reject, done.  It is the transfer now waiting that is answered,
\* a later one than the callback's if its TransferStarted is yet to come.
Answered(s, d) ==
  /\ remote[s] = "offered"
  /\ \/ d.authorise /\ Settle(s, d, "running")
     \/ /\ ~d.authorise
        /\ Settle(s, NameForgotten(d), IF Waiting(s) THEN "crossed" ELSE "rejected")

\* ... or failed, as it does when no transfer waits any more.
Unanswered(s) ==
  /\ remote[s] # "offered" \/ "call_fails" \in PushFaults
  /\ failed' = [failed EXCEPT ![s] = TRUE]
  /\ UNCHANGED <<data, remote, miscounted>>

\* transfer_started_cb, its answer and its return.
TransferAnswered(s) ==
  /\ answering = {s}
  /\ Answered(s, data[s]) \/ Unanswered(s)
  /\ answering' = {} /\ was_paired' = FALSE
  /\ UNCHANGED <<settingVars, iconVars, paired, bus>>

\* show_notification: without a URI for the name nothing is shown, and a
\* notification that was not shown is never closed.
Shown == {TRUE} \cup IF "show_fails" \in PushFaults THEN {FALSE} ELSE {}

\* transfer_completed_cb; its caller makes the given number of calls of
\* hide_statusicon after it.  A transfer it knows nothing of is none of its own.
TransferOver(s, hides) ==
  /\ data' = [data EXCEPT ![s].filename = FALSE]
  /\ IF data[s].filename /\ db_notify
       THEN \E shown \in Shown :
              /\ Hide(hides)
              /\ open' = IF shown THEN open + 1 ELSE open
              /\ miscounted' = (miscounted \/ ~shown \/ hides > 0)
       ELSE /\ Hide(IF data[s].filename THEN hides + 1 ELSE hides)
            /\ open' = open
            /\ miscounted' = (miscounted \/ hides > 0)
  /\ UNCHANGED callbackVars

\* cancelled_cb hides the icon once more than the end of the transfer does.
TransferCancelled(s) == TransferOver(s, 1)

\* error_occurred_cb is registered for a signal without arguments; dbus-glib
\* may drop the one that comes with two.
ErrorOccurred(s) ==
  TransferOver(s, 0) \/ UNCHANGED <<iconVars, callbackVars, data, miscounted>>

\* The main loop dispatches a signal of org.openobex.
Dispatch ==
  /\ InMainLoop /\ bus # <<>>
  /\ bus' = Tail(bus)
  /\ LET s == Head(bus)[1]
         event == Head(bus)[2]
     IN \/ event = "created" /\ SessionCreated(s)
        \/ event = "started" /\ TransferStarted(s)
        \/ event = "completed" /\ TransferOver(s, 0)
        \/ event = "cancelled" /\ TransferCancelled(s)
        \/ event = "error" /\ ErrorOccurred(s)
  /\ UNCHANGED <<settingVars, deviceVars>>

\* on_close_notification: the user chose an action, or the time is over.
NotificationClosed ==
  /\ InMainLoop /\ open > 0
  /\ open' = open - 1
  /\ Hide(1)
  /\ UNCHANGED <<settingVars, callbackVars, deviceVars, data, bus, miscounted>>

PushNext ==
  \/ Dispatch \/ AcceptFilesChanged \/ NotificationClosed
  \/ \E s \in Sessions : TransferAnswered(s)
  \/ \E s \in Sessions : Connect(s) \/ Offer(s) \/ End(s) \/ Repair(s)
  \/ NotifyWritten \/ \E value \in Policies : AcceptWritten(value)

\* The main loop gets to its events and the calls of a callback return; nothing
\* makes a device, the user or the notification daemon act.
PushSpec ==
  /\ PushInit /\ [][PushNext]_pushVars
  /\ WF_pushVars(Dispatch) /\ WF_pushVars(AcceptFilesChanged)
  /\ \A s \in Sessions : WF_pushVars(TransferAnswered(s))

-----------------------------------------------------------------------------
(* Properties *)

\* While nothing was cancelled, rejected or lost on the way, the icon counts
\* the files in hand and the notifications on the screen, and is visible while
\* and only while there are any: the pairs of show_icon and hide_statusicon
\* are spread over five callbacks.
IconCounts ==
  ~miscounted =>
    /\ num_notifications = Cardinality(InHand) + open
    /\ icon = "visible" <=> InHand # {} \/ open > 0

\* A file is accepted only by the policy in force and, where that asks for a
\* paired device, if its device was paired when this callback asked bluez (it
\* may not be when Accept arrives).  The policy is the one in the database,
\* unless the daemon has yet to be told of a change: no earlier decision of the
\* session is taken for this one.
AcceptedOnlyIfAllowed ==
  [][\A s \in Sessions : remote[s] = "offered" /\ remote'[s] = "running" =>
       /\ accept_setting # ACCEPT_ASK
       /\ accept_setting = ACCEPT_BONDED => was_paired
       /\ accept_setting = accept_setting_from_string(db_accept) \/ accept_note]_pushVars

\* No notification announces a file whose transfer the daemon rejected in
\* answer to its own TransferStarted, whatever other transfers of the session
\* were cancelled, answered too late or not at all.  Nothing is claimed of a
\* transfer hit by the Reject that was meant for an earlier one: its own
\* callback keeps the name when its Reject fails, and it is announced.
RejectedIsSilent ==
  [][open' > open => Head(bus)[2] \in Ends /\ ~Head(bus)[3]]_pushVars

\* A device that asks is answered, unless its question came before the daemon
\* listened, or the callback for the last transfer it started gave no answer
\* because a call failed: no policy leaves it waiting.
EveryOfferAnswered ==
  \A s \in Sessions :
    remote[s] = "offered" /\ Waiting(s)
      ~> remote[s] # "offered" \/ (failed[s] /\ ~Waiting(s))
=============================================================================
