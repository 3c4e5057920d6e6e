----------------------------- MODULE Selection -----------------------------
(***************************************************************************)
(* src/src/user_share.c, the beginning of main: of the instances of        *)
(* mate-user-share that the session and the preferences window launch, one *)
(* is to stay.  They find each other by the owner of the X selection       *)
(* _MATE_USER_SHARE: look for one, become it, look again.                  *)
(*                                                                         *)
(* External is the X server: XSetSelectionOwner takes the selection from   *)
(* whoever has it, and the end of a process gives its selection back.      *)
(* What an instance does once it stays is in module UserShare.             *)
(***************************************************************************)
EXTENDS Naturals, FiniteSets

CONSTANTS
  Instances,    \* processes there can be at a time
  None          \* no owner

ASSUME SelectionAssumption == None \notin Instances

VARIABLES
  inst,      \* where the main of each process is, "free" without one
  owner,     \* the owner of the selection
  raced      \* history: one set itself when another had looked and found none

selectionVars == <<inst, owner, raced>>

\* started: before XGetSelectionOwner.  looked: it has found no owner.
\* set: it has set itself.  owner: it has found itself owner.  daemon: it
\* stays.  leaving: it returns from main, or exits.
Stages == {"free", "started", "looked", "set", "owner", "daemon", "leaving"}

SelectionTypeOK ==
  /\ inst \in [Instances -> Stages]
  /\ owner \in Instances \cup {None}
  /\ raced \in BOOLEAN

SelectionInit ==
  /\ inst = [i \in Instances |-> "free"]
  /\ owner = None
  /\ raced = FALSE

Goes(i, from, to) == inst[i] = from /\ inst' = [inst EXCEPT ![i] = to]

Started(i) == Goes(i, "free", "started") /\ UNCHANGED <<owner, raced>>

\* There is an owner already: quit.  A plausible bug: only the second look
\* can make an instance quit.
MutLooks(i) == Goes(i, "started", "looked") /\ UNCHANGED <<owner, raced>>
Looks(i) ==
  /\ Goes(i, "started", IF owner = None THEN "looked" ELSE "leaving")
  /\ UNCHANGED <<owner, raced>>

SetsOwner(i) ==
  /\ Goes(i, "looked", "set")
  /\ owner' = i
  /\ raced' = (raced \/ \E j \in Instances \ {i} : inst[j] = "looked")

\* A plausible bug: an instance that finds any owner quits, itself included.
MutGotIt(i) == owner = None
GotIt(i) == owner = i

LooksAgain(i) ==
  Goes(i, "set", IF GotIt(i) THEN "owner" ELSE "leaving") /\ UNCHANGED <<owner, raced>>

\* An instance that finds nothing to share returns.
Stays(i, something) ==
  Goes(i, "owner", IF something THEN "daemon" ELSE "leaving") /\ UNCHANGED <<owner, raced>>

\* The daemon comes to one of its exits.
Leaves(i) == Goes(i, "daemon", "leaving") /\ UNCHANGED <<owner, raced>>

\* The process ends.
Ends(i) ==
  /\ Goes(i, "leaving", "free")
  /\ owner' = IF owner = i THEN None ELSE owner
  /\ raced' = raced

\* What an instance does by itself once it is started.
Main(i, something) ==
  Looks(i) \/ SetsOwner(i) \/ LooksAgain(i) \/ Stays(i, something) \/ Ends(i)

-----------------------------------------------------------------------------
(* Properties *)

\* "There is an owner already, quit" (user_share.c:424): one daemon at most.
AtMostOneDaemon == Cardinality({i \in Instances : inst[i] = "daemon"}) <= 1

\* A second daemon comes only after two instances have both found no owner
\* before either set itself: one that looks later quits (user_share.c:424), so
\* that the looks and the ends of instances leave no other way.
SecondOnlyByRace ==
  (\E i, j \in Instances : i # j /\ inst[i] = "daemon" /\ inst[j] = "daemon") => raced
=============================================================================
