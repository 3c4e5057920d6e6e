------------------------------ MODULE Desktop ------------------------------
(***************************************************************************)
(* The desktop session: the settings database, the preferences window and  *)
(* the instances of mate-user-share that the session and the window        *)
(* launch.  Module Preferences is the window, module Selection the         *)
(* instances; an instance reads the database, where the last writes of the *)
(* window may still be missing.                                            *)
(***************************************************************************)
EXTENDS Preferences, Selection

vars == <<prefsVars, selectionVars>>

Init == PrefsInit /\ SelectionInit

\* file_sharing_enabled, of another process than the window.
file_sharing_enabled == \E k \in Switches : db[k]

InstanceStarts(i) ==
  /\ launched > 0 /\ launched' = launched - 1
  /\ Started(i)
  /\ UNCHANGED <<db, mine, notes, window, widgets, sensitive, updates, passwd, chosen, unopened, foreign>>

InstanceActs(i) == Main(i, file_sharing_enabled) /\ UNCHANGED prefsVars

DaemonLeaves(i) == Leaves(i) /\ UNCHANGED prefsVars

Next ==
  \/ PrefsNext /\ UNCHANGED selectionVars
  \/ \E i \in Instances : InstanceStarts(i) \/ InstanceActs(i) \/ DaemonLeaves(i)

\* The kernel runs every process; nobody has to act.
Spec ==
  /\ Init /\ [][Next]_vars
  /\ \A i \in Instances : WF_vars(InstanceStarts(i)) /\ WF_vars(InstanceActs(i))

-----------------------------------------------------------------------------
(* Properties *)

\* With something to share, and no instance on its way out that may still own
\* the selection, an instance that was launched leads to a daemon, itself or
\* another, unless all sharing is switched off.
DaemonComes ==
  launched > 0 /\ file_sharing_enabled /\ (\A i \in Instances : inst[i] # "leaving") ~>
    ~file_sharing_enabled \/ \E i \in Instances : inst[i] = "daemon"
=============================================================================
