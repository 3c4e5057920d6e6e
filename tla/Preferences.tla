---------------------------- MODULE Preferences ----------------------------
(***************************************************************************)
(* src/src/file-share-properties.c: the preferences window over the        *)
(* settings database.  Each control writes its key and a change of any key *)
(* refreshes every control, which calls the handlers that write, so that   *)
(* refreshes nest: GSettings notifies of a write of this process before    *)
(* the write returns.                                                      *)
(*                                                                         *)
(* External are GTK, GSettings and dconf.  A process sees its own writes   *)
(* at once and the others see them when dconf-service has taken them,      *)
(* which it does with all that wait; so does another program's write, and  *)
(* of that the window is told by its main loop.  update_ui reads its eight *)
(* keys in one go here.                                                    *)
(***************************************************************************)
EXTENDS SettingStrings, FiniteSetsExt, SequencesExt

CONSTANTS
  UserKeys,     \* the controls the user touches
  ForeignKeys,  \* the keys other programs write
  PrefsLogin,   \* the values of the settings at login
  NoEffectDropped, \* dconf drops a write without effect, as its later versions do
  Texts,        \* what may stand in the password entry
  MaxForeign,   \* bound: writes of other programs
  MaxLaunched   \* bound: launched daemons that have not started

Switches == {"enabled", "ftp", "push"}
Combos == {"require_password", "accept"}
PrefsKeys == Switches \cup Combos \cup {"allow_write", "require_pairing", "notify"}
PrefsValues(k) ==
  IF k = "require_password" THEN PasswordValues
  ELSE IF k = "accept" THEN AcceptValues ELSE BOOLEAN

ASSUME PreferencesAssumption ==
  /\ UserKeys \subseteq PrefsKeys /\ ForeignKeys \subseteq PrefsKeys
  /\ \A d \in PrefsLogin : d = [k \in PrefsKeys |-> d[k]]
  /\ \A d \in PrefsLogin : \A k \in PrefsKeys : d[k] \in PrefsValues(k)
  /\ NoEffectDropped \in BOOLEAN
  /\ {MaxForeign, MaxLaunched} \subseteq Nat

VARIABLES
  db,         \* the settings database
  mine,       \* writes of the window dconf-service has not taken
  notes,      \* changes by others the main loop has not dispatched
  window,     \* it is open
  widgets,    \* the state of each control; a combo box has its active row
  sensitive,  \* which groups of controls, and the password entry, can be used
  updates,    \* the calls of update_ui that run, the innermost last
  launched,   \* daemons launched that have not started
  passwd,     \* the password the file passwd is made of
  chosen,     \* history: what the user chose, and the password typed last
  unopened,   \* history: the password that stayed, if the file could not be opened
  foreign     \* history: the keys other programs have written, the first one first

windowVars == <<notes, window, widgets, sensitive, updates, launched>>
prefsVars == <<db, mine, windowVars, passwd, chosen, unopened, foreign>>

\* A key whose value is not among the settings is taken for one of them.
SettingOf(k, value) ==
  IF k = "require_password" THEN password_setting_from_string(value)
  ELSE IF k = "accept" THEN accept_setting_from_string(value) ELSE value

\* What a control in the given state writes.
StringOf(k, w) ==
  IF k = "require_password" THEN password_string_from_setting(w)
  ELSE IF k = "accept" THEN accept_string_from_setting(w) ELSE w

\* The combo box of bluetooth-accept-files has no row for "ask".
NoRow == -1
Rows(k) == IF k = "require_password" THEN 0 .. PASSWORD_ALWAYS ELSE 0 .. ACCEPT_BONDED
States(k) == IF k \in Combos THEN Rows(k) ELSE BOOLEAN

\* The controls as they come from the .ui file.
NewWidgets == [k \in PrefsKeys |-> IF k \in Combos THEN NoRow ELSE FALSE]
AllSensitive == [g \in Switches \cup {"entry"} |-> TRUE]

\* The session launches an instance for each of its desktop files whose switch
\* is on.
PrefsInit ==
  /\ db \in PrefsLogin
  /\ mine = <<>> /\ notes = 0
  /\ window = FALSE
  /\ widgets = NewWidgets /\ sensitive = AllSensitive
  /\ updates = <<>>
  /\ launched = Min({MaxLaunched, Cardinality({k \in Switches : db[k]})})
  /\ passwd = "login"
  /\ chosen = [k \in PrefsKeys \cup {"password"} |-> IF k = "password" THEN passwd ELSE db[k]]
  /\ unopened = {}
  /\ foreign = <<>>

-----------------------------------------------------------------------------
(* The settings *)

\* What g_settings_get returns when these writes wait.
ReadOver(waiting) ==
  [k \in PrefsKeys |-> IF k \in DOMAIN waiting THEN waiting[k] ELSE db[k]]
View == ReadOver(mine)

\* dconf-service takes what the window has written.
Taken ==
  /\ mine # <<>>
  /\ db' = View /\ mine' = <<>>
  /\ UNCHANGED <<windowVars, passwd, chosen, unopened, foreign>>

\* The keys with a handler for their changed:: signal.  A plausible bug: one
\* is forgotten.
MutConnected == PrefsKeys \ {"notify"}
Connected == PrefsKeys

ForeignWrite(k, value) ==
  /\ k \in ForeignKeys /\ Len(foreign) < MaxForeign
  /\ value # db[k]
  /\ db' = [db EXCEPT ![k] = value]
  /\ foreign' = Append(foreign, k)
  /\ notes' = IF window /\ k \in Connected THEN notes + 1 ELSE notes
  /\ UNCHANGED <<mine, window, widgets, sensitive, updates, launched, passwd, chosen, unopened>>

-----------------------------------------------------------------------------
(* The controls *)

\* update_ui, called: it has read the settings and is at its first control.
\* History: how many of the writes of others it has seen.
UpdateOf(waiting) == [values |-> ReadOver(waiting), at |-> 1, seen |-> Len(foreign)]

\* launch_share; a bound: more launches than the limit are one.
LaunchShare ==
  launched' = IF launched < MaxLaunched THEN launched + 1 ELSE launched

\* The handler of a control that now is in the given state, over the running
\* calls of update_ui.  Its write refreshes the window, unless dconf drops
\* it as one without effect.  The code launches after that refresh; here the
\* instance may start while it runs.
Handler(k, w, running) ==
  LET value == StringOf(k, w)
      waiting == [x \in DOMAIN mine \cup {k} |-> IF x = k THEN value ELSE mine[x]]
  IN /\ widgets' = [widgets EXCEPT ![k] = w]
     /\ IF NoEffectDropped /\ value = View[k]
          THEN mine' = mine /\ updates' = running
          ELSE mine' = waiting /\ updates' = Append(running, UpdateOf(waiting))
     /\ IF k \in Switches /\ w = TRUE THEN LaunchShare ELSE launched' = launched

\* The order in which update_ui sets the controls.
Order == <<"enabled", "require_password", "ftp", "allow_write",
           "require_pairing", "push", "notify", "accept">>

\* gtk_toggle_button_set_active and gtk_combo_box_set_active: a button that
\* is as it should be stays silent, a row that is not there says so.
\* A plausible bug: the row for "ask" is taken to be there.
MutTarget(k, value) == SettingOf(k, value)
Target(k, value) ==
  IF k \in Combos /\ SettingOf(k, value) \notin Rows(k) THEN NoRow ELSE SettingOf(k, value)

Emits(k, value) ==
  widgets[k] # Target(k, value) \/ (k \in Combos /\ Target(k, value) = NoRow)

\* The groups whose switch was set when update_ui has come from where it was
\* to the control before the given one.
Passed(update, next) ==
  LET done == {Order[i] : i \in {j \in DOMAIN Order : update.at - 1 <= j /\ j < next}}
      values == update.values
  IN sensitive' = [g \in DOMAIN sensitive |->
       IF g \in done THEN values[g]
       ELSE IF g = "entry" /\ "enabled" \in done
         THEN values["enabled"] /\ SettingOf("require_password", values["require_password"]) # 0
       ELSE sensitive[g]]

\* The innermost update_ui goes on, to the next control that calls its
\* handler or to its end.
UpdateUi ==
  /\ updates # <<>>
  /\ LET update == Last(updates)
         calling == {i \in update.at .. Len(Order) : Emits(Order[i], update.values[Order[i]])}
     IN \/ /\ calling = {}
           /\ Passed(update, Len(Order) + 1)
           /\ updates' = Front(updates)
           /\ UNCHANGED <<mine, widgets, launched>>
        \/ \E next \in calling :
             /\ \A i \in calling : next <= i
             /\ Passed(update, next)
             /\ Handler(Order[next], Target(Order[next], update.values[Order[next]]),
                        Append(Front(updates), [update EXCEPT !.at = next + 1]))
  /\ UNCHANGED <<db, notes, window, passwd, chosen, unopened, foreign>>

Idle == window /\ updates = <<>>

\* The main loop dispatches a changed:: signal: all of its handlers are alike.
Changed ==
  /\ Idle /\ notes > 0
  /\ notes' = notes - 1
  /\ updates' = <<UpdateOf(mine)>>
  /\ UNCHANGED <<db, mine, window, widgets, sensitive, launched, passwd, chosen, unopened, foreign>>

Group(k) ==
  IF k = "require_password" THEN "enabled"
  ELSE IF k \in {"allow_write", "require_pairing"} THEN "ftp" ELSE "push"
Usable(k) == k \in Switches \/ sensitive[Group(k)]

\* The user brings a control into another state.
UserChooses(k, w) ==
  /\ Idle /\ k \in UserKeys /\ Usable(k)
  /\ w # widgets[k]
  /\ Handler(k, w, <<>>)
  /\ chosen' = [chosen EXCEPT ![k] = StringOf(k, w)]
  /\ UNCHANGED <<db, notes, window, sensitive, passwd, unopened, foreign>>

\* password_entry_changed: each change of the text is written to the file
\* passwd, an empty text is not, and a file that cannot be opened stays.
PasswordTyped(text) ==
  /\ Idle /\ sensitive["entry"] /\ text # ""
  /\ chosen' = [chosen EXCEPT !["password"] = text]
  /\ \/ passwd' = text /\ unopened' = {}
     \/ passwd' = passwd /\ unopened' = {passwd}
  /\ UNCHANGED <<db, mine, windowVars, foreign>>

-----------------------------------------------------------------------------
(* The window *)

\* The text "none" is put into the entry before its handler is connected.  A
\* plausible bug: after it.
MutPlaceholderSet == "none"
PlaceholderSet == passwd

\* activate without a window: create_window sets up the controls as they come
\* from the .ui file, connects the handlers and calls update_ui.  The last
\* process has left its writes to dconf-service when it ended.
Opened ==
  /\ ~window /\ mine = <<>>
  /\ window' = TRUE
  /\ widgets' = NewWidgets /\ sensitive' = AllSensitive
  /\ updates' = <<UpdateOf(mine)>>
  /\ passwd' = PlaceholderSet
  /\ UNCHANGED <<db, mine, notes, launched, chosen, unopened, foreign>>

\* The close button: the application ends with its last window, which leaves
\* nothing of the controls.
Closed ==
  /\ Idle
  /\ window' = FALSE /\ notes' = 0
  /\ widgets' = NewWidgets /\ sensitive' = AllSensitive
  /\ UNCHANGED <<db, mine, updates, launched, passwd, chosen, unopened, foreign>>

UserActs ==
  \/ Opened \/ Closed
  \/ \E k \in UserKeys : \E w \in States(k) : UserChooses(k, w)
  \/ \E text \in Texts : PasswordTyped(text)

PrefsNext ==
  \/ UpdateUi \/ Changed \/ UserActs \/ Taken
  \/ \E k \in ForeignKeys : \E value \in PrefsValues(k) : ForeignWrite(k, value)

-----------------------------------------------------------------------------
(* Properties *)

PreferencesTypeOK ==
  /\ DOMAIN db = PrefsKeys /\ \A k \in PrefsKeys : db[k] \in PrefsValues(k)
  /\ DOMAIN mine \subseteq PrefsKeys /\ \A k \in DOMAIN mine : mine[k] \in PrefsValues(k)
  /\ foreign \in Seq(ForeignKeys) /\ Len(foreign) <= MaxForeign
  /\ notes \in 0 .. Len(foreign)
  /\ window \in BOOLEAN
  /\ \A k \in PrefsKeys : widgets[k] \in States(k) \/ (k \in Combos /\ widgets[k] = NoRow)
  /\ sensitive \in [Switches \cup {"entry"} -> BOOLEAN]
  /\ \A i \in DOMAIN updates : updates[i].at \in 1 .. Len(Order) + 1
  /\ launched \in 0 .. MaxLaunched
  /\ passwd \in Texts \cup {"login", "none"}
  /\ unopened \subseteq Texts \cup {"login", "none"}

\* What a value of a key makes the daemon do: http.c has its own reading of
\* the password mode.
Meaning(k, value) ==
  IF k = "require_password" THEN HttpdMode(value) ELSE SettingOf(k, value)

\* What the user chose stays in force until somebody chooses again: opening
\* the window and its refreshes write the settings many times over, through
\* two conversions, and change none ("ask" excepted, which the window has no
\* row for).  So does the password typed last, unless the file could not be
\* opened for it, and then the one in the file does.
UserChoiceKept ==
  /\ \A k \in PrefsKeys \ ForeignKeys :
       Meaning(k, View[k]) = Meaning(k, chosen[k]) \/ chosen[k] = "ask"
  /\ passwd \in IF unopened = {} THEN {chosen["password"]} ELSE unopened

\* At rest the window shows what is in force, and lets the user touch just the
\* controls of the features that are on, the password entry when a password is
\* asked for: whoever wrote, and however the refreshes were nested.  A combo
\* box without a row stands for "bonded", which is in force then; it is left
\* so only after "ask", which the user does not choose here.
ShownIsStored ==
  Idle /\ notes = 0 =>
    /\ \A k \in PrefsKeys :
         /\ Meaning(k, StringOf(k, widgets[k])) = Meaning(k, View[k])
         /\ \/ widgets[k] \in States(k)
            \/ k = "accept" /\ widgets[k] = NoRow /\ (chosen[k] = "ask" \/ k \in ForeignKeys)
    /\ \A g \in Switches : sensitive[g] = View[g]
    /\ sensitive["entry"] =
         (View["enabled"] /\ Meaning("require_password", View["require_password"]) # "never")

\* Refreshes do not nest without end.  Where dconf drops a write without
\* effect, a refresh writes only a string that is not as the window writes it,
\* or over what another program has written since; otherwise it writes for
\* each control that is not as it should be, and for "ask" once more.
RefreshesNest ==
  updates # <<>> =>
    LET since == Len(foreign) - updates[1].seen
    IN Len(updates) <= IF NoEffectDropped THEN 1 + Cardinality(Combos) + since
                       ELSE 2 + Cardinality(PrefsKeys) + 2 * since
=============================================================================
