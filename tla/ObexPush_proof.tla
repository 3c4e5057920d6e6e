--------------------------- MODULE ObexPush_proof ---------------------------
(***************************************************************************)
(* Theorems about ObexPush, for any finite set of sessions, any size of    *)
(* the counter and any of its faults: what the icon counts, under which    *)
(* policy a file is accepted, and that a rejected file is not announced.   *)
(***************************************************************************)
EXTENDS ObexPush, FiniteSetTheorems, TLAPS

LEMMA SettingsOfStrings ==
  ASSUME NEW str
  PROVE  accept_setting_from_string(str) \in 0 .. ACCEPT_ASK
BY DEF accept_setting_from_string, ACCEPT_ALWAYS, ACCEPT_BONDED, ACCEPT_ASK

-----------------------------------------------------------------------------
(* Types *)

\* hide_statusicon, called twice at most in a row, leaves a guint.
LEMMA HideTyped ==
  ASSUME PushTypeOK, NEW times \in 0 .. 2, Hide(times)
  PROVE  /\ num_notifications' \in 0 .. Guints - 1
         /\ icon' \in {"none", "hidden", "visible"}
BY PushAssumption DEF PushAssumption, PushTypeOK, Hide, CountedDown

LEMMA SettleTyped ==
  ASSUME PushTypeOK, NEW s \in Sessions, NEW d \in SessionData,
         NEW at \in Transfers, Settle(s, d, at)
  PROVE  /\ data' \in [Sessions -> SessionData]
         /\ remote' \in [Sessions -> Transfers]
         /\ failed' \in [Sessions -> BOOLEAN]
         /\ miscounted' \in BOOLEAN
<1>1. d.filename \in BOOLEAN
  BY DEF SessionData
<1>2. miscounted' \in BOOLEAN
  BY <1>1 DEF PushTypeOK, Settle
<1> QED BY <1>2 DEF PushTypeOK, Settle

\* The decision is of the transfer at hand: no earlier one is ever in force.
Undecided(d) == d.bdaddr => d.method = NoMethod

LEMMA DecidedTyped ==
  ASSUME PushTypeOK, NEW s \in Sessions, NEW named \in SessionData, Undecided(named),
         NEW f \in FirstTransfer(named), NEW d \in Decided(s, f)
  PROVE  /\ d \in SessionData /\ d.method = NoMethod /\ d.filename = named.filename
         /\ d.authorise => accept_setting # ACCEPT_ASK
         /\ d.authorise /\ accept_setting = ACCEPT_BONDED => paired[s]
<1> USE DEF SessionData, NoMethod, ACCEPT_ASK, ACCEPT_BONDED, ACCEPT_ALWAYS
<1>1. f \in SessionData /\ f.method = NoMethod /\ f.filename = named.filename
  BY DEF FirstTransfer, Undecided
<1>2. f.method # accept_setting
  BY <1>1 DEF PushTypeOK
<1>3. PICK bonded \in DeviceIsAuthorised(s) :
        d = [f EXCEPT !.authorise = f.bdaddr /\ Policy(bonded),
                      !.method = Stored(f.method)]
  BY <1>2 DEF Decided
<1>4. bonded \in BOOLEAN /\ (bonded => paired[s])
  BY DEF DeviceIsAuthorised, PushTypeOK
<1>5. (f.bdaddr /\ Policy(bonded)) \in BOOLEAN
  BY <1>1, <1>4 DEF Policy
<1>6. d \in SessionData /\ d.method = NoMethod /\ d.filename = named.filename
  BY <1>1, <1>3, <1>5 DEF Stored
<1>7. d.authorise => Policy(bonded)
  BY <1>1, <1>3
<1> QED BY <1>4, <1>6, <1>7 DEF Policy

-----------------------------------------------------------------------------
(***************************************************************************)
(* The invariant.  The counter rests on nothing else; that a file is       *)
(* accepted by today's policy rests on the method never being stored, on   *)
(* a change of the setting being announced, and on the callback keeping    *)
(* the main loop until it has answered.                                    *)
(***************************************************************************)
DecisionHolds ==
  \A s \in answering :
    /\ data[s].filename
    /\ data[s].authorise => accept_setting # ACCEPT_ASK
    /\ data[s].authorise /\ accept_setting = ACCEPT_BONDED => was_paired

PushInv ==
  /\ PushTypeOK
  /\ IconCounts
  /\ DecisionHolds
  /\ \A s \in Sessions : Undecided(data[s])
  /\ accept_setting = accept_setting_from_string(db_accept) \/ accept_note

LEMMA InHandFinite ==
  IsFiniteSet(InHand) /\ Cardinality(InHand) \in Nat
<1>1. IsFiniteSet(Sessions) /\ InHand \subseteq Sessions
  BY PushAssumption DEF PushAssumption, InHand
<1> QED BY <1>1, FS_Subset, FS_CardinalityType

\* One more file is in hand, and the icon is shown for it.
LEMMA CountOneMore ==
  ASSUME PushTypeOK, IconCounts, NEW s \in Sessions, ~data[s].filename,
         CountedUp # 0, num_notifications' = CountedUp, icon' = "visible",
         open' = open, miscounted' = miscounted, InHand' = InHand \cup {s}
  PROVE  IconCounts'
<1>1. s \notin InHand
  BY DEF InHand
<1>2. Cardinality(InHand') = Cardinality(InHand) + 1
  BY <1>1, InHandFinite, FS_AddElement
<1>3. num_notifications' = num_notifications + 1
  BY DEF CountedUp
<1> QED BY <1>2, <1>3, InHandFinite DEF IconCounts, PushTypeOK

\* A file leaves the hand: its notification takes its place, or the icon goes.
LEMMA CountOneLess ==
  ASSUME PushTypeOK, IconCounts, NEW s \in Sessions, data[s].filename,
         InHand' = InHand \ {s}, miscounted' = miscounted,
         \/ open' = open + 1 /\ Hide(0)
         \/ open' = open /\ Hide(1)
  PROVE  IconCounts'
<1> SUFFICES ASSUME ~miscounted PROVE IconCounts'
  BY DEF IconCounts
<1>1. s \in InHand
  BY DEF InHand
<1>2. Cardinality(InHand') = Cardinality(InHand) - 1 /\ Cardinality(InHand) # 0
  BY <1>1, InHandFinite, FS_RemoveElement, FS_EmptySet
<1>3. /\ num_notifications = Cardinality(InHand) + open
      /\ icon = "visible"
  BY <1>1 DEF IconCounts
<1>4. IsFiniteSet(InHand')
  BY InHandFinite, FS_RemoveElement
<1>5. InHand' = {} <=> Cardinality(InHand') = 0
  BY <1>4, FS_EmptySet
<1>6. CASE open' = open + 1 /\ Hide(0)
  BY <1>2, <1>3, <1>6, InHandFinite
     DEF Hide, CountedDown, Passes0, IconCounts, PushTypeOK
<1>7. CASE open' = open /\ Hide(1)
  <2>1. num_notifications' = num_notifications - 1 /\ num_notifications >= 1
    BY <1>2, <1>3, <1>7, InHandFinite DEF Hide, CountedDown, PushTypeOK
  <2>2. num_notifications' = Cardinality(InHand') + open'
    BY <1>2, <1>3, <1>7, <2>1, InHandFinite DEF PushTypeOK
  <2>3. CASE num_notifications = 1
    <3>1. icon' = "hidden"
      BY <1>3, <1>7, <2>3 DEF Hide, Passes0
    <3>2. Cardinality(InHand') = 0 /\ open' = 0
      BY <1>2, <1>3, <1>7, <2>3, InHandFinite DEF PushTypeOK
    <3> QED BY <1>5, <2>2, <3>1, <3>2 DEF IconCounts
  <2>4. CASE num_notifications # 1
    <3>1. icon' = "visible"
      BY <1>1, <1>3, <1>7, <2>1, <2>4 DEF Hide, Passes0, PushTypeOK
    <3>2. Cardinality(InHand') # 0 \/ open' > 0
      BY <1>2, <1>3, <1>7, <2>4, InHandFinite DEF PushTypeOK
    <3> QED BY <1>5, <2>2, <3>1, <3>2 DEF IconCounts
  <2> QED BY <2>3, <2>4
<1> QED BY <1>6, <1>7

LEMMA StartedKeepsInv ==
  ASSUME PushInv, NEW s \in Sessions, TransferStarted(s), InMainLoop,
         UNCHANGED <<settingVars, deviceVars>>, bus' \in Seq(Messages)
  PROVE  PushInv'
<1> DEFINE named == [data[s] EXCEPT !.filename = TRUE]
<1>1. PushTypeOK
  BY DEF PushInv
<1>2. /\ data[s] \in SessionData /\ named \in SessionData /\ named.filename
      /\ Undecided(named) /\ paired[s] \in BOOLEAN /\ answering = {}
  BY DEF PushInv, PushTypeOK, SessionData, Undecided, InMainLoop
<1>3. PICK d \in SessionData :
        /\ data' = [data EXCEPT ![s] = d]
        /\ d.filename /\ Undecided(d)
        /\ \/ answering' = {} /\ UNCHANGED was_paired
           \/ /\ answering' = {s} /\ was_paired' = paired[s]
              /\ d.authorise => accept_setting # ACCEPT_ASK
              /\ d.authorise /\ accept_setting = ACCEPT_BONDED => paired[s]
        /\ failed' \in [Sessions -> BOOLEAN]
  <2>1. CASE \E f \in FirstTransfer(named) : \E d \in Decided(s, f) :
               /\ data' = [data EXCEPT ![s] = d]
               /\ answering' = {s} /\ was_paired' = paired[s] /\ failed' = failed
    <3>0. PICK f \in FirstTransfer(named) : \E d \in Decided(s, f) :
            /\ data' = [data EXCEPT ![s] = d]
            /\ answering' = {s} /\ was_paired' = paired[s] /\ failed' = failed
      BY <2>1
    <3>1. PICK d \in Decided(s, f) :
            /\ data' = [data EXCEPT ![s] = d]
            /\ answering' = {s} /\ was_paired' = paired[s] /\ failed' = failed
      BY <3>0
    <3>2. /\ d \in SessionData /\ d.method = NoMethod /\ d.filename = named.filename
          /\ d.authorise => accept_setting # ACCEPT_ASK
          /\ d.authorise /\ accept_setting = ACCEPT_BONDED => paired[s]
      <4> HIDE DEF named
      <4> QED BY <1>1, <1>2, DecidedTyped
    <3> HIDE DEF named
    <3> QED BY <1>1, <1>2, <3>1, <3>2 DEF Undecided, PushTypeOK
  <2>2. CASE /\ data' = [data EXCEPT ![s] = named]
             /\ failed' = [failed EXCEPT ![s] = TRUE]
             /\ UNCHANGED <<answering, was_paired>>
    <3> HIDE DEF named
    <3> QED BY <1>1, <1>2, <2>2 DEF PushTypeOK
  <2> QED BY <2>1, <2>2 DEF TransferStarted
<1> HIDE DEF named
<1>4. \A t \in Sessions : data'[t] = IF t = s THEN d ELSE data[t]
  BY <1>1, <1>3 DEF PushTypeOK
<1>5. CountedUp \in 0 .. Guints - 1
  BY <1>1, PushAssumption DEF PushAssumption, PushTypeOK, CountedUp
<1>6. /\ icon' = "visible" /\ num_notifications' = CountedUp /\ open' = open
      /\ miscounted' = (miscounted \/ data[s].filename \/ CountedUp = 0)
  BY DEF TransferStarted
<1>7. miscounted' \in BOOLEAN
  BY <1>6, Zenon
<1>8. PushTypeOK'
  <2>1. data' \in [Sessions -> SessionData]
    BY <1>1, <1>3 DEF PushTypeOK
  <2>2. was_paired' \in BOOLEAN /\ (answering' = {} \/ answering' = {s})
    BY <1>1, <1>2, <1>3 DEF PushTypeOK
  <2> QED
    BY <1>1, <1>3, <1>5, <1>6, <1>7, <2>1, <2>2
       DEF PushTypeOK, settingVars, deviceVars
<1>9. IconCounts'
  <2>1. CASE miscounted'
    BY <2>1 DEF IconCounts
  <2>2. CASE ~miscounted'
    <3>1. ~miscounted /\ ~data[s].filename /\ CountedUp # 0
      BY <1>6, <2>2, Zenon
    <3>2. InHand' = InHand \cup {s}
      BY <1>3, <1>4 DEF InHand
    <3>3. miscounted' = miscounted
      BY <1>1, <1>7, <2>2, <3>1 DEF PushTypeOK
    <3> QED BY <1>1, <1>6, <3>1, <3>2, <3>3, CountOneMore DEF PushInv
  <2> QED BY <2>1, <2>2
<1>10. DecisionHolds'
  BY <1>3, <1>4 DEF DecisionHolds, settingVars
<1>11. \A t \in Sessions : Undecided(data[t])'
  BY <1>3, <1>4 DEF PushInv, Undecided
<1> QED BY <1>8, <1>9, <1>10, <1>11 DEF PushInv, settingVars

LEMMA AnsweredKeepsInv ==
  ASSUME PushInv, NEW s \in Sessions, TransferAnswered(s)
  PROVE  PushInv'
<1>1. /\ PushTypeOK /\ data[s] \in SessionData /\ data[s].filename
      /\ Undecided(data[s])
  BY DEF PushInv, PushTypeOK, TransferAnswered, DecisionHolds
<1>2. /\ answering' = {} /\ was_paired' = FALSE
      /\ UNCHANGED <<settingVars, iconVars, paired, bus>>
  BY DEF TransferAnswered
<1>3. DecisionHolds'
  BY <1>2 DEF DecisionHolds
<1>4. CASE Unanswered(s)
  <2>1. PushTypeOK'
    BY <1>1, <1>2, <1>4 DEF Unanswered, PushTypeOK, settingVars, iconVars
  <2> QED
    BY <1>2, <1>3, <1>4, <2>1
       DEF PushInv, Unanswered, IconCounts, InHand, Undecided, settingVars, iconVars
<1>5. CASE Answered(s, data[s])
  <2>1. PICK d \in {data[s], NameForgotten(data[s])} :
          /\ \E at \in Transfers : Settle(s, d, at)
          /\ d.filename => d = data[s]
    <3>1. NameForgotten(data[s]).filename = FALSE
      BY <1>1 DEF NameForgotten, SessionData
    <3>2. \/ Settle(s, data[s], "running")
          \/ Settle(s, NameForgotten(data[s]), "crossed")
          \/ Settle(s, NameForgotten(data[s]), "rejected")
      BY <1>5, Zenon DEF Answered
    <3> QED BY <3>1, <3>2 DEF Transfers
  <2>2. PICK at \in Transfers : Settle(s, d, at)
    BY <2>1
  <2>3. d \in SessionData /\ Undecided(d)
    BY <1>1, <2>1 DEF NameForgotten, SessionData, Undecided
  <2>4. PushTypeOK'
    BY <1>1, <1>2, <2>2, <2>3, SettleTyped DEF PushTypeOK, settingVars, iconVars
  <2>5. \A t \in Sessions : Undecided(data[t])'
    BY <1>1, <2>2, <2>3 DEF Settle, PushInv, PushTypeOK, Undecided
  <2>6. IconCounts'
    <3>1. CASE miscounted'
      BY <3>1 DEF IconCounts
    <3>2. CASE ~miscounted'
      <4>1. ~miscounted /\ d.filename
        BY <2>2, <3>2, Zenon DEF Settle
      <4>2. data' = data
        BY <1>1, <2>1, <2>2, <4>1 DEF Settle, PushTypeOK
      <4> QED
        BY <1>2, <4>1, <4>2 DEF PushInv, IconCounts, InHand, iconVars
    <3> QED BY <3>1, <3>2
  <2> QED BY <1>2, <1>3, <2>4, <2>5, <2>6 DEF PushInv, settingVars
<1> QED BY <1>4, <1>5 DEF TransferAnswered

LEMMA OverKeepsInv ==
  ASSUME PushInv, NEW s \in Sessions, NEW hides \in 0 .. 1, TransferOver(s, hides),
         InMainLoop, UNCHANGED <<settingVars, deviceVars>>, bus' \in Seq(Messages)
  PROVE  PushInv'
<1>1. PushTypeOK /\ IconCounts
  BY DEF PushInv
<1>2. \A t \in Sessions :
        data'[t] = IF t = s THEN [data[s] EXCEPT !.filename = FALSE] ELSE data[t]
  BY <1>1 DEF TransferOver, PushTypeOK
<1>3. /\ data' \in [Sessions -> SessionData]
      /\ \A t \in Sessions : Undecided(data[t])'
      /\ \A t \in Sessions : data'[t].filename <=> t # s /\ data[t].filename
      /\ InHand' = InHand \ {s}
  <2>1. data[s] \in SessionData /\ [data[s] EXCEPT !.filename = FALSE] \in SessionData
    BY <1>1 DEF PushTypeOK, SessionData
  <2>2. data' \in [Sessions -> SessionData]
    BY <1>1, <2>1 DEF TransferOver, PushTypeOK
  <2>3. ~data'[s].filename /\ data'[s].method = data[s].method
        /\ data'[s].bdaddr = data[s].bdaddr
    BY <1>2, <2>1 DEF SessionData
  <2>4. \A t \in Sessions : Undecided(data[t])'
    BY <1>2, <2>3 DEF PushInv, Undecided
  <2>5. \A t \in Sessions : data'[t].filename <=> t # s /\ data[t].filename
    BY <1>2, <2>3
  <2>6. InHand' = InHand \ {s}
    BY <2>5 DEF InHand
  <2> QED BY <2>2, <2>4, <2>5, <2>6
<1>4. UNCHANGED callbackVars /\ DecisionHolds'
  BY DEF TransferOver, InMainLoop, callbackVars, DecisionHolds
<1>5. \E times \in 0 .. 2 : Hide(times)
  BY DEF TransferOver
<1>6. /\ num_notifications' \in 0 .. Guints - 1
      /\ icon' \in {"none", "hidden", "visible"}
  BY <1>1, <1>5, HideTyped
<1>7. open' \in Nat /\ miscounted' \in BOOLEAN
  <2>1. CASE data[s].filename /\ db_notify
    <3>1. PICK shown \in Shown :
            /\ open' = IF shown THEN open + 1 ELSE open
            /\ miscounted' = (miscounted \/ ~shown \/ hides > 0)
      BY <2>1 DEF TransferOver
    <3>2. open' \in Nat
      BY <1>1, <3>1 DEF PushTypeOK
    <3>3. miscounted' \in BOOLEAN
      BY <3>1, Zenon
    <3> QED BY <3>2, <3>3
  <2>2. CASE ~(data[s].filename /\ db_notify)
    <3>1. open' = open /\ miscounted' = (miscounted \/ hides > 0)
      BY <2>2 DEF TransferOver
    <3>2. miscounted' \in BOOLEAN
      BY <3>1, Zenon
    <3> QED BY <1>1, <3>1, <3>2 DEF PushTypeOK
  <2> QED BY <2>1, <2>2
<1>8. PushTypeOK'
  BY <1>1, <1>3, <1>4, <1>6, <1>7
     DEF PushTypeOK, settingVars, deviceVars, callbackVars
<1>9. IconCounts'
  <2>1. CASE miscounted'
    BY <2>1 DEF IconCounts
  <2>2. CASE ~miscounted' /\ data[s].filename
    <3>1. ~miscounted /\ ~(hides > 0)
      BY <2>2, Zenon DEF TransferOver
    <3>4. hides = 0
      BY <3>1
    <3>2. \/ open' = open + 1 /\ Hide(0)
          \/ open' = open /\ Hide(1)
      <4>1. CASE db_notify
        <5>1. PICK shown \in Shown :
                /\ Hide(hides)
                /\ open' = IF shown THEN open + 1 ELSE open
                /\ miscounted' = (miscounted \/ ~shown \/ hides > 0)
          BY <2>2, <4>1, Zenon DEF TransferOver
        <5>2. shown
          BY <2>2, <5>1, Zenon
        <5> QED BY <3>4, <5>1, <5>2
      <4>2. CASE ~db_notify
        <5>1. Hide(hides + 1) /\ open' = open
          BY <2>2, <4>2 DEF TransferOver
        <5> QED BY <3>4, <5>1
      <4> QED BY <4>1, <4>2
    <3>3. miscounted' = miscounted
      BY <1>1, <1>7, <2>2, <3>1 DEF PushTypeOK
    <3> QED BY <1>1, <1>3, <2>2, <3>2, <3>3, CountOneLess
  <2>3. CASE ~miscounted' /\ ~data[s].filename
    <3>4. ~miscounted /\ ~(hides > 0) /\ Hide(hides) /\ open' = open
      BY <2>3, Zenon DEF TransferOver
    <3>1. ~miscounted /\ Hide(0) /\ open' = open
      <4>1. hides = 0
        BY <3>4
      <4> QED BY <3>4, <4>1
    <3>2. InHand' = InHand
      BY <1>3, <2>3 DEF InHand
    <3>3. num_notifications' = num_notifications /\ icon' = icon
      BY <1>1, <3>1 DEF Hide, CountedDown, Passes0, PushTypeOK
    <3> QED BY <1>1, <3>1, <3>2, <3>3 DEF IconCounts
  <2> QED BY <2>1, <2>2, <2>3
<1> QED BY <1>3, <1>4, <1>8, <1>9 DEF PushInv, settingVars

LEMMA DispatchKeepsInv ==
  ASSUME PushInv, Dispatch
  PROVE  PushInv'
<1> DEFINE s == Head(bus)[1]
<1>1. /\ Head(bus) \in Messages
      /\ bus' \in Seq(Messages)
  BY DEF PushInv, PushTypeOK, Dispatch
<1>2. s \in Sessions /\ InMainLoop /\ UNCHANGED <<settingVars, deviceVars>>
  BY <1>1 DEF Dispatch, Messages
<1>3. CASE SessionCreated(s)
  <2>1. \A t \in Sessions :
          data'[t] = IF t = s THEN [data[s] EXCEPT !.proxy = TRUE] ELSE data[t]
    BY <1>2, <1>3 DEF SessionCreated, PushInv, PushTypeOK
  <2> HIDE DEF s
  <2>3. data[s] \in SessionData
    BY <1>2 DEF PushInv, PushTypeOK
  <2>4. [data[s] EXCEPT !.proxy = TRUE] \in SessionData
    BY <2>3 DEF SessionData
  <2>5. data' \in [Sessions -> SessionData]
    BY <1>2, <1>3, <2>4 DEF SessionCreated, PushInv, PushTypeOK
  <2>6. /\ data'[s].filename = data[s].filename
        /\ data'[s].method = data[s].method
        /\ data'[s].bdaddr = data[s].bdaddr
    BY <1>2, <2>1, <2>3 DEF SessionData
  <2>2. /\ data' \in [Sessions -> SessionData]
        /\ \A t \in Sessions : Undecided(data[t])'
        /\ \A t \in Sessions : data'[t].filename = data[t].filename
    BY <2>1, <2>5, <2>6 DEF PushInv, Undecided
  <2>10. InHand' = InHand
    BY <2>2 DEF InHand
  <2>7. /\ UNCHANGED <<settingVars, iconVars, callbackVars, deviceVars, miscounted>>
        /\ DecisionHolds'
    BY <1>2, <1>3 DEF SessionCreated, callbackVars, InMainLoop, DecisionHolds
  <2>8. PushTypeOK'
    BY <1>1, <2>2, <2>7
       DEF PushInv, PushTypeOK, settingVars, iconVars, deviceVars, callbackVars
  <2>9. IconCounts'
    BY <2>7, <2>10 DEF PushInv, IconCounts, iconVars
  <2> QED
    BY <2>2, <2>7, <2>8, <2>9 DEF PushInv, settingVars
<1>4. CASE TransferStarted(s)
  BY <1>1, <1>2, <1>4, StartedKeepsInv
<1>5. CASE TransferOver(s, 0) \/ TransferOver(s, 1)
  BY <1>1, <1>2, <1>5, OverKeepsInv
<1>6. CASE UNCHANGED <<iconVars, callbackVars, data, miscounted>>
  BY <1>1, <1>2, <1>6
     DEF PushInv, PushTypeOK, IconCounts, DecisionHolds, Undecided, InHand,
         settingVars, iconVars, deviceVars, callbackVars
<1> QED
  BY <1>3, <1>4, <1>5, <1>6 DEF Dispatch, TransferCancelled, ErrorOccurred

LEMMA ClosedKeepsInv ==
  ASSUME PushInv, NotificationClosed
  PROVE  PushInv'
<1>1. PushTypeOK /\ IconCounts /\ Hide(1) /\ open' = open - 1 /\ open > 0
  BY DEF PushInv, NotificationClosed
<1>2. /\ UNCHANGED <<settingVars, callbackVars, deviceVars, data, bus, miscounted>>
      /\ InHand' = InHand
  BY DEF NotificationClosed, InHand
<1>3. PushTypeOK'
  BY <1>1, <1>2, HideTyped DEF PushTypeOK, settingVars, deviceVars, callbackVars
<1>4. IconCounts'
  <2>1. InHand = {} <=> Cardinality(InHand) = 0
    BY InHandFinite, FS_EmptySet
  <2> QED
    BY <1>1, <1>2, <2>1, InHandFinite
       DEF IconCounts, PushTypeOK, Hide, CountedDown, Passes0
<1> QED
  BY <1>2, <1>3, <1>4
     DEF PushInv, DecisionHolds, Undecided, settingVars, callbackVars

LEMMA EmittedTyped ==
  ASSUME PushTypeOK, NEW s \in Sessions, NEW event \in Signals
  PROVE  Emitted(s, event) \in Seq(Messages)
<1>1. (remote[s] = "rejected") \in BOOLEAN
  BY Zenon
<1>2. <<s, event, remote[s] = "rejected">> \in Messages
  BY <1>1, Zenon DEF Messages
<1>3. bus \in Seq(Messages)
  BY DEF PushTypeOK
<1>4. Append(bus, <<s, event, remote[s] = "rejected">>) \in Seq(Messages)
  <2> DEFINE m == <<s, event, remote[s] = "rejected">>
  <2>1. m \in Messages
    BY <1>2
  <2> HIDE DEF m
  <2>2. Append(bus, m) \in Seq(Messages)
    BY <1>3, <2>1
  <2> QED BY <2>2 DEF m
<1> QED BY <1>3, <1>4, Zenon DEF Emitted

LEMMA EnvironmentKeepsInv ==
  ASSUME PushInv,
         \/ AcceptFilesChanged \/ NotifyWritten \/ UNCHANGED pushVars
         \/ \E s \in Sessions : Connect(s) \/ Offer(s) \/ End(s) \/ Repair(s)
         \/ \E value \in Policies : AcceptWritten(value)
  PROVE  PushInv'
<1> USE DEF PushInv, PushTypeOK, IconCounts, DecisionHolds, Undecided, InHand,
            settingVars, iconVars, deviceVars, callbackVars
<1>1. CASE AcceptFilesChanged \/ NotifyWritten
  BY <1>1, SettingsOfStrings DEF AcceptFilesChanged, NotifyWritten, InMainLoop
<1>2. CASE UNCHANGED pushVars
  BY <1>2 DEF pushVars
<1>3. CASE \E value \in Policies : AcceptWritten(value)
  BY <1>3, PushAssumption DEF PushAssumption, AcceptWritten
<1>4. ASSUME NEW s \in Sessions, Connect(s) \/ Offer(s) \/ End(s)
      PROVE  PushInv'
  <2>1. \A event \in Signals : Emitted(s, event) \in Seq(Messages)
    BY EmittedTyped
  <2>2. bus' = bus \/ \E event \in Signals : bus' = Emitted(s, event)
    BY <1>4 DEF Connect, Offer, End, Signals
  <2>3. bus' \in Seq(Messages)
    BY <2>1, <2>2
  <2> QED BY <1>4, <2>3 DEF Connect, Offer, End, Transfers
<1>5. ASSUME NEW s \in Sessions, Repair(s)
      PROVE  PushInv'
  BY <1>5 DEF Repair
<1> QED BY <1>1, <1>2, <1>3, <1>4, <1>5

LEMMA PushInvariant == PushSpec => []PushInv
<1>1. PushInit => PushInv
  <2> SUFFICES ASSUME PushInit PROVE PushInv
    OBVIOUS
  <2>1. PushTypeOK
    <3>1. NoProxy \in SessionData
      BY DEF NoProxy, SessionData, ACCEPT_ASK, ACCEPT_ALWAYS
    <3>2. data \in [Sessions -> SessionData]
      BY <3>1 DEF PushInit
    <3>3. 0 \in 0 .. Guints - 1
      BY PushAssumption DEF PushAssumption
    <3>4. bus \in Seq(Messages)
      BY DEF PushInit
    <3> QED
      BY <3>2, <3>3, <3>4, SettingsOfStrings DEF PushInit, PushTypeOK, Transfers
  <2>2. InHand = {} /\ Cardinality(InHand) = 0
    BY FS_EmptySet DEF PushInit, InHand, NoProxy
  <2> QED
    BY <2>1, <2>2
       DEF PushInit, PushInv, IconCounts, DecisionHolds, Undecided, NoProxy
<1>2. PushInv /\ [PushNext]_pushVars => PushInv'
  BY DispatchKeepsInv, AnsweredKeepsInv, ClosedKeepsInv, EnvironmentKeepsInv
     DEF PushNext
<1> QED BY <1>1, <1>2, PTL DEF PushSpec

\* Type correctness; the counter stays a guint however often it wraps.
THEOREM PushTypeCorrect == PushSpec => []PushTypeOK
<1>1. PushInv => PushTypeOK
  BY DEF PushInv
<1> QED BY <1>1, PushInvariant, PTL

\* The icon counts what is in hand and on the screen, for any number of
\* sessions, as long as nothing was cancelled, rejected or lost.
THEOREM IconIsRight == PushSpec => []IconCounts
<1>1. PushInv => IconCounts
  BY DEF PushInv
<1> QED BY <1>1, PushInvariant, PTL

-----------------------------------------------------------------------------
(* Under which policy a file is accepted *)

\* Only the answer to a transfer makes it run.
LEMMA AcceptedByAnswer ==
  ASSUME PushInv, PushNext, NEW s \in Sessions,
         remote[s] = "offered", remote'[s] = "running"
  PROVE  /\ accept_setting # ACCEPT_ASK
         /\ accept_setting = ACCEPT_BONDED => was_paired
<1> USE DEF PushInv, PushTypeOK
<1>1. ASSUME NEW t \in Sessions, TransferAnswered(t)
      PROVE  t = s /\ data[t].authorise
  <2>1. Answered(t, data[t])
    BY <1>1 DEF TransferAnswered, Unanswered
  <2> QED BY <2>1 DEF Answered, Settle
<1>2. CASE ~ \E t \in Sessions : TransferAnswered(t)
  BY <1>2 DEF PushNext, Dispatch, AcceptFilesChanged, NotificationClosed,
              NotifyWritten, AcceptWritten, Connect, Offer, End, Repair, deviceVars
<1> QED BY <1>1, <1>2 DEF TransferAnswered, DecisionHolds

\* A file is accepted by the policy in force for its device, whatever was
\* decided before for the session and whatever happens between the daemon's
\* look at the device and its answer.
THEOREM AcceptedByPolicy == PushSpec => AcceptedOnlyIfAllowed
<1>1. PushInv /\ [PushNext]_pushVars =>
        [\A s \in Sessions : remote[s] = "offered" /\ remote'[s] = "running" =>
           /\ accept_setting # ACCEPT_ASK
           /\ accept_setting = ACCEPT_BONDED => was_paired
           /\ accept_setting = accept_setting_from_string(db_accept) \/ accept_note]_pushVars
  BY AcceptedByAnswer DEF PushInv
<1> QED BY <1>1, PushInvariant, PTL DEF PushSpec, AcceptedOnlyIfAllowed

-----------------------------------------------------------------------------
(***************************************************************************)
(* What becomes of a rejected transfer.  The name is forgotten before the  *)
(* end of the transfer is on the bus, and nothing that could name a file   *)
(* again comes before it: its own TransferStarted has been dispatched, and *)
(* that of the session's next transfer is sent after it.                   *)
(***************************************************************************)
NothingNamed(s) == ~data[s].filename

SilentInv ==
  /\ \A s \in Sessions : remote[s] = "rejected" => NothingNamed(s) /\ ~Waiting(s)
  /\ \A i \in DOMAIN bus : bus[i][3] =>
       /\ NothingNamed(bus[i][1])
       /\ \A j \in 1 .. i - 1 : ~Started(j, bus[i][1])

LEMMA BusIsSequence ==
  ASSUME PushTypeOK
  PROVE  /\ bus \in Seq(Messages) /\ DOMAIN bus = 1 .. Len(bus) /\ Len(bus) \in Nat
         /\ \A i \in DOMAIN bus : bus[i] \in Messages /\ bus[i][1] \in Sessions
BY DEF PushTypeOK, Messages

\* The main loop takes the first signal off the bus: nothing new is named but
\* for the transfer that signal starts.
LEMMA TakenKeepsSilent ==
  ASSUME PushTypeOK, SilentInv, bus # <<>>, bus' = Tail(bus), remote' = remote,
         \A s \in Sessions : NothingNamed(s) =>
           NothingNamed(s)' \/ Started(1, s)
  PROVE  SilentInv'
<1>1. /\ DOMAIN bus' = 1 .. Len(bus) - 1 /\ 1 \in DOMAIN bus
      /\ \A i \in DOMAIN bus' : i + 1 \in DOMAIN bus /\ bus'[i] = bus[i + 1]
  BY BusIsSequence
<1>2. ASSUME NEW s \in Sessions, remote'[s] = "rejected"
      PROVE  NothingNamed(s)' /\ ~Waiting(s)'
  <2>1. NothingNamed(s) /\ ~Waiting(s)
    BY <1>2 DEF SilentInv
  <2>2. ~Started(1, s)
    BY <1>1, <2>1 DEF Waiting
  <2> QED BY <1>1, <2>1, <2>2 DEF Waiting, Started
<1>3. ASSUME NEW i \in DOMAIN bus', bus'[i][3]
      PROVE  /\ NothingNamed(bus[i][1])'
             /\ \A j \in 1 .. i - 1 : ~Started(j, bus[i][1])'
  <2>1. i + 1 \in DOMAIN bus /\ bus'[i] = bus[i + 1] /\ i \in 1 .. Len(bus) - 1
    BY <1>1
  <2>s. PICK s \in Sessions : s = bus[i + 1][1]
    BY <2>1, BusIsSequence
  <2>2. /\ NothingNamed(s)
        /\ \A j \in 1 .. i : ~Started(j, s)
    BY <1>3, <2>s, <2>1, BusIsSequence DEF SilentInv
  <2>3. \A j \in 1 .. i - 1 : bus'[j] = bus[j + 1] /\ j + 1 \in 1 .. i
    BY <1>1, <2>1, BusIsSequence
  <2>4. ~Started(1, s)
    BY <2>1, <2>2, BusIsSequence
  <2>5. NothingNamed(s)'
    BY <2>2, <2>4
  <2> QED BY <2>1, <2>s, <2>2, <2>3, <2>5 DEF Started, NothingNamed
<1> QED BY <1>2, <1>3 DEF SilentInv

LEMMA DispatchKeepsSilent ==
  ASSUME PushTypeOK, SilentInv, Dispatch
  PROVE  SilentInv'
<1> DEFINE s == Head(bus)[1]
<1>1. bus # <<>> /\ bus' = Tail(bus) /\ remote' = remote /\ Head(bus) = bus[1]
  BY BusIsSequence DEF Dispatch, deviceVars
<1>2. s \in Sessions /\ data[s] \in SessionData
  BY <1>1, BusIsSequence DEF PushTypeOK
<1>3. CASE Head(bus)[2] = "started"
  <2>1. Started(1, s)
    BY <1>1, <1>3 DEF Started
  <2>2. \A t \in Sessions : t # s => data'[t] = data[t]
    BY <1>1, <1>3, <1>2 DEF Dispatch, TransferStarted, PushTypeOK
  <2>3. \A t \in Sessions : NothingNamed(t) => NothingNamed(t)' \/ Started(1, t)
    BY <2>1, <2>2 DEF NothingNamed
  <2> QED BY <1>1, <2>3, TakenKeepsSilent
<1>4. CASE Head(bus)[2] # "started"
  <2>1. \/ data' = data
        \/ data' = [data EXCEPT ![s].proxy = TRUE]
        \/ data' = [data EXCEPT ![s].filename = FALSE]
    BY <1>4, Zenon DEF Dispatch, SessionCreated, TransferOver, TransferCancelled, ErrorOccurred
  <2>2. \A t \in Sessions : NothingNamed(t) => NothingNamed(t)'
    BY <1>2, <2>1 DEF NothingNamed, PushTypeOK, SessionData
  <2> QED BY <1>1, <2>2, TakenKeepsSilent
<1> QED BY <1>3, <1>4

\* A rejection by the transfer's own callback: nothing of the session waits.
LEMMA AnsweredKeepsSilent ==
  ASSUME PushTypeOK, SilentInv, NEW s \in Sessions, TransferAnswered(s)
  PROVE  SilentInv'
<1> USE DEF NothingNamed
<1>1. bus' = bus /\ data[s] \in SessionData
  BY DEF TransferAnswered, PushTypeOK
<1>2. \A t \in Sessions : NothingNamed(t) => NothingNamed(t)'
  BY <1>1 DEF TransferAnswered, Answered, Unanswered, Settle, NameForgotten,
              PushTypeOK, SessionData
<1>3. ASSUME NEW t \in Sessions, remote'[t] = "rejected"
      PROVE  NothingNamed(t)' /\ ~Waiting(t)'
  <2>1. CASE remote[t] = "rejected"
    BY <1>1, <1>2, <2>1 DEF SilentInv, Waiting, Started
  <2>2. CASE remote[t] # "rejected"
    <3>1. t = s /\ data' = [data EXCEPT ![s] = NameForgotten(data[s])] /\ ~Waiting(s)
      BY <1>3, <2>2
         DEF TransferAnswered, Answered, Unanswered, Settle, PushTypeOK
    <3> QED
      BY <1>1, <3>1 DEF NameForgotten, PushTypeOK, SessionData, Waiting, Started
  <2> QED BY <2>1, <2>2
<1>4. \A i \in DOMAIN bus' : bus'[i][3] =>
        /\ NothingNamed(bus[i][1])'
        /\ \A j \in 1 .. i - 1 : ~Started(j, bus[i][1])'
  BY <1>1, <1>2, BusIsSequence DEF SilentInv, Started
<1> QED BY <1>3, <1>4 DEF SilentInv

\* A signal is sent: of a rejected transfer only the end.
LEMMA SentKeepsSilent ==
  ASSUME PushTypeOK, SilentInv, NEW s \in Sessions, NEW event \in Signals,
         bus' = Emitted(s, event), data' = data,
         remote[s] = "rejected" => event # "started",
         NEW at \in Transfers \ {"rejected"}, remote' = [remote EXCEPT ![s] = at]
  PROVE  SilentInv'
<1> DEFINE m == <<s, event, remote[s] = "rejected">>
           n == Len(bus) + 1
<1>1. \A t \in Sessions : NothingNamed(t)' = NothingNamed(t)
  BY DEF NothingNamed
<1>2. ASSUME NEW t \in Sessions, remote'[t] = "rejected"
      PROVE  t # s /\ NothingNamed(t) /\ ~Waiting(t)
  BY <1>2 DEF PushTypeOK, SilentInv
<1>3. CASE bus' = bus
  BY <1>1, <1>2, <1>3, BusIsSequence DEF SilentInv, Waiting, Started
<1>4. CASE bus' = Append(bus, m)
  <2>1. /\ DOMAIN bus' = DOMAIN bus \cup {n} /\ bus'[n] = m
        /\ \A i \in DOMAIN bus : bus'[i] = bus[i]
    BY <1>4, BusIsSequence
  <2>2. \A t \in Sessions : t # s /\ ~Waiting(t) => ~Waiting(t)'
    BY <2>1 DEF Waiting, Started
  <2>3. ASSUME NEW i \in DOMAIN bus, bus[i][3]
        PROVE  /\ NothingNamed(bus[i][1])'
               /\ \A j \in 1 .. i - 1 : ~Started(j, bus[i][1])'
    <3>1. \A j \in 1 .. i - 1 : j \in DOMAIN bus
      BY BusIsSequence
    <3>2. PICK t \in Sessions : t = bus[i][1]
      BY BusIsSequence
    <3>3. NothingNamed(t) /\ \A j \in 1 .. i - 1 : ~Started(j, t)
      BY <2>3, <3>2 DEF SilentInv
    <3>4. bus'[i] = bus[i] /\ \A j \in 1 .. i - 1 : bus'[j] = bus[j]
      BY <2>1, <3>1
    <3>5. NothingNamed(bus[i][1])'
      BY <3>2, <3>3, <3>4 DEF NothingNamed
    <3>6. ASSUME NEW j \in 1 .. i - 1
          PROVE  ~Started(j, bus[i][1])'
      <4>1. ~(bus[j][1] = bus[i][1] /\ bus[j][2] = "started")
        BY <3>2, <3>3 DEF Started
      <4>2. bus'[j] = bus[j] /\ bus'[i] = bus[i]
        BY <3>4
      <4> QED BY <4>1, <4>2 DEF Started
    <3> QED BY <3>5, <3>6
  <2>4. ASSUME remote[s] = "rejected"
        PROVE  NothingNamed(s)' /\ \A j \in DOMAIN bus : ~Started(j, s)'
    BY <1>1, <2>1, <2>4 DEF SilentInv, Waiting, Started
  <2>5. n \in Nat /\ 1 .. n - 1 = DOMAIN bus
    BY BusIsSequence
  <2> HIDE DEF n
  <2>6. ASSUME NEW i \in DOMAIN bus', bus'[i][3]
        PROVE  /\ NothingNamed(bus[i][1])'
               /\ \A j \in 1 .. i - 1 : ~Started(j, bus[i][1])'
    <3>1. CASE i \in DOMAIN bus
      BY <2>1, <2>3, <2>6, <3>1
    <3>2. CASE i = n
      <4>1. m[1] = s /\ (m[3] => remote[s] = "rejected")
        OBVIOUS
      <4> HIDE DEF m
      <4>2. bus'[i][1] = s /\ remote[s] = "rejected"
        BY <2>1, <2>6, <3>2, <4>1
      <4>3. NothingNamed(s)' /\ \A j \in DOMAIN bus : ~Started(j, s)'
        BY <2>4, <4>2
      <4>4. NothingNamed(bus[i][1])'
        BY <4>2, <4>3 DEF NothingNamed
      <4>5. ASSUME NEW j \in 1 .. i - 1
            PROVE  ~Started(j, bus[i][1])'
        BY <2>5, <3>2, <4>2, <4>3 DEF Started
      <4> QED BY <4>4, <4>5
    <3> QED BY <2>1, <3>1, <3>2
  <2> QED BY <1>1, <1>2, <2>2, <2>6 DEF SilentInv
<1> QED BY <1>3, <1>4 DEF Emitted

LEMMA SilentStep ==
  ASSUME PushTypeOK, SilentInv, [PushNext]_pushVars
  PROVE  SilentInv'
<1>1. CASE UNCHANGED <<data, bus, remote>>
  BY <1>1 DEF SilentInv, NothingNamed, Waiting, Started
<1>2. CASE \/ AcceptFilesChanged \/ NotificationClosed \/ NotifyWritten
           \/ UNCHANGED pushVars
           \/ \E value \in Policies : AcceptWritten(value)
           \/ \E s \in Sessions : Repair(s)
  BY <1>1, <1>2
     DEF AcceptFilesChanged, NotificationClosed, NotifyWritten, AcceptWritten,
         Repair, pushVars, deviceVars
<1>3. ASSUME NEW s \in Sessions, Connect(s) \/ Offer(s)
      PROVE  SilentInv'
  <2>1. /\ remote[s] # "rejected" /\ data' = data
        /\ \E event \in Signals : bus' = Emitted(s, event)
        /\ \E at \in Transfers \ {"rejected"} : remote' = [remote EXCEPT ![s] = at]
    BY <1>3 DEF Connect, Offer, Signals, Transfers
  <2> QED BY <2>1, SentKeepsSilent
<1>4. ASSUME NEW s \in Sessions, End(s)
      PROVE  SilentInv'
  <2>1. remote' = [remote EXCEPT ![s] = "idle"] /\ data' = data
    BY <1>4 DEF End
  <2>2. CASE bus' = bus
    <3>1. \A t \in Sessions : remote'[t] = "rejected" => remote[t] = "rejected"
      BY <2>1 DEF PushTypeOK
    <3> QED BY <2>1, <2>2, <3>1 DEF SilentInv, NothingNamed, Waiting, Started
  <2>3. CASE \E event \in Ends : bus' = Emitted(s, event)
    <3>1. \E event \in Signals : bus' = Emitted(s, event) /\ event # "started"
      BY <2>3 DEF Ends, Signals
    <3> QED BY <2>1, <3>1, SentKeepsSilent DEF Transfers
  <2> QED BY <1>4, <2>2, <2>3 DEF End
<1> QED
  BY <1>2, <1>3, <1>4, DispatchKeepsSilent, AnsweredKeepsSilent DEF PushNext

\* Only the end of a transfer that has a name raises a notification.
LEMMA AnnouncedHasName ==
  ASSUME PushTypeOK, PushNext, open' > open
  PROVE  /\ Dispatch /\ Head(bus)[2] \in Ends
         /\ ~NothingNamed(Head(bus)[1])
<1>1. open \in Nat
  BY DEF PushTypeOK
<1>2. CASE ~Dispatch
  <2>1. open' = open \/ open' = open - 1
    BY <1>2 DEF PushNext, TransferAnswered, AcceptFilesChanged, NotificationClosed,
                NotifyWritten, AcceptWritten, Connect, Offer, End, Repair, iconVars
  <2> QED BY <1>1, <2>1
<1>3. CASE Dispatch
  <2>1. open' = open \/ \E hides \in 0 .. 1 :
          Head(bus)[2] \in Ends /\ TransferOver(Head(bus)[1], hides)
    BY <1>3 DEF Dispatch, SessionCreated, TransferStarted, TransferCancelled,
                ErrorOccurred, Ends, iconVars
  <2>2. PICK hides \in 0 .. 1 :
          Head(bus)[2] \in Ends /\ TransferOver(Head(bus)[1], hides)
    BY <1>1, <2>1
  <2>3. ~data[Head(bus)[1]].filename => open' = open
    BY <2>2, Zenon DEF TransferOver
  <2> QED BY <1>1, <1>3, <2>2, <2>3 DEF NothingNamed
<1> QED BY <1>2, <1>3

\* No notification announces a file whose transfer the daemon rejected in
\* answer to its own TransferStarted.
THEOREM RejectedStaysSilent == PushSpec => RejectedIsSilent
<1>1. PushInit => SilentInv
  BY DEF PushInit, SilentInv
<1>2. PushTypeOK /\ SilentInv /\ [PushNext]_pushVars => SilentInv'
  BY SilentStep
<1>3. PushTypeOK /\ SilentInv /\ [PushNext]_pushVars =>
        [open' > open => Head(bus)[2] \in Ends /\ ~Head(bus)[3]]_pushVars
  <2> SUFFICES ASSUME PushTypeOK, SilentInv, PushNext, open' > open
               PROVE  Head(bus)[2] \in Ends /\ ~Head(bus)[3]
    OBVIOUS
  <2>1. /\ bus # <<>> /\ Head(bus)[2] \in Ends /\ ~NothingNamed(Head(bus)[1])
    BY AnnouncedHasName DEF Dispatch
  <2>2. 1 \in DOMAIN bus /\ Head(bus) = bus[1]
    BY <2>1, BusIsSequence
  <2> QED BY <2>1, <2>2 DEF SilentInv
<1>4. PushSpec => []PushTypeOK
  BY PushTypeCorrect
<1> QED BY <1>1, <1>2, <1>3, <1>4, PTL DEF PushSpec, RejectedIsSilent
=============================================================================
