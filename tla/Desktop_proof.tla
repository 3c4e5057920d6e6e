--------------------------- MODULE Desktop_proof ---------------------------
(***************************************************************************)
(* What the preferences window does, for every set of controls the user    *)
(* touches, of keys other programs write, of settings at login and of      *)
(* instances, and every bound: no refresh undoes a choice, the window at   *)
(* rest shows what is in force, the refreshes nest only so deep, and two   *)
(* daemons come only by a race.                                            *)
(***************************************************************************)
EXTENDS Desktop, SequenceTheorems, FiniteSetTheorems, TLAPS

-----------------------------------------------------------------------------
(* The conversions *)

\* What the window makes of a value: the string it writes for the control it
\* sets from it.
Canon(k, value) == StringOf(k, Target(k, value))
Readings(k, value) == {value, Canon(k, value)}

\* The states a control can be in.
ControlState(k, w) == w \in States(k) \/ (k \in Combos /\ w = NoRow)

IsAsk(k, value) == k = "accept" /\ value = "ask"

LEMMA KeyKinds ==
  ASSUME NEW k \in PrefsKeys
  PROVE  \/ k = "require_password" /\ PrefsValues(k) = PasswordValues /\ States(k) = 0 .. 2
         \/ k = "accept" /\ PrefsValues(k) = AcceptValues /\ States(k) = 0 .. 1
         \/ k \notin Combos /\ PrefsValues(k) = BOOLEAN /\ States(k) = BOOLEAN
BY DEF PrefsKeys, Combos, Switches, PrefsValues, States, Rows, PASSWORD_ALWAYS, ACCEPT_BONDED

\* A control that is set from a value is in one of its states; only "ask" has
\* no row.
LEMMA TargetOf ==
  ASSUME NEW k \in PrefsKeys, NEW value \in PrefsValues(k)
  PROVE  /\ ControlState(k, Target(k, value))
         /\ IF IsAsk(k, value) THEN Target(k, value) = NoRow
            ELSE Target(k, value) \in States(k) /\ (k \in Combos => Target(k, value) # NoRow)
<1>1. CASE k = "require_password"
  BY <1>1, KeyKinds DEF ControlState, IsAsk, Target, SettingOf, Rows, NoRow, Combos, PasswordValues,
     password_setting_from_string, PASSWORD_ALWAYS
<1>2. CASE k = "accept"
  BY <1>2, KeyKinds DEF ControlState, IsAsk, Target, SettingOf, Rows, NoRow, Combos, AcceptValues,
     accept_setting_from_string, ACCEPT_ALWAYS, ACCEPT_ASK, ACCEPT_BONDED
<1>3. CASE k \notin Combos
  BY <1>3, KeyKinds, Zenon DEF ControlState, IsAsk, Target, SettingOf, Combos
<1> QED BY <1>1, <1>2, <1>3, KeyKinds

\* A control writes a value of its key, which is not "ask".
LEMMA StringOfState ==
  ASSUME NEW k \in PrefsKeys, NEW w, ControlState(k, w)
  PROVE  StringOf(k, w) \in PrefsValues(k) /\ ~IsAsk(k, StringOf(k, w))
<1>1. CASE k = "require_password"
  BY <1>1, KeyKinds DEF ControlState, IsAsk, StringOf, NoRow, Combos, PasswordValues, PasswordStrings,
     password_string_from_setting, PASSWORD_ALWAYS
<1>2. CASE k = "accept"
  BY <1>2, KeyKinds DEF ControlState, IsAsk, StringOf, NoRow, Combos, AcceptValues, AcceptStrings,
     accept_string_from_setting, ACCEPT_ALWAYS, ACCEPT_ASK, ACCEPT_BONDED
<1>3. CASE k \notin Combos
  BY <1>3, KeyKinds, Zenon DEF ControlState, IsAsk, StringOf, Combos
<1> QED BY <1>1, <1>2, <1>3, KeyKinds

\* Through both conversions a value keeps what it means and the control it
\* sets, except that "ask" becomes "bonded"; twice through them is once.
LEMMA CanonOf ==
  ASSUME NEW k \in PrefsKeys, NEW value \in PrefsValues(k)
  PROVE  /\ Canon(k, value) \in PrefsValues(k) /\ ~IsAsk(k, Canon(k, value))
         /\ Canon(k, Canon(k, value)) = Canon(k, value)
         /\ k \notin Combos => Canon(k, value) = value
         /\ IF IsAsk(k, value)
              THEN Meaning(k, Canon(k, value)) = ACCEPT_BONDED /\ Meaning(k, value) = ACCEPT_ASK
              ELSE /\ Meaning(k, Canon(k, value)) = Meaning(k, value)
                   /\ Target(k, Canon(k, value)) = Target(k, value)
<1>0. Canon(k, value) \in PrefsValues(k) /\ ~IsAsk(k, Canon(k, value))
  BY TargetOf, StringOfState DEF Canon
<1>1. CASE k = "require_password"
  <2>1. value \in PasswordValues
    BY <1>1, KeyKinds DEF Combos
  <2>2. /\ \A v \in PasswordValues : SettingOf(k, v) = password_setting_from_string(v)
        /\ \A v \in PasswordValues : password_setting_from_string(v) \in 0 .. 2
        /\ \A w : StringOf(k, w) = password_string_from_setting(w)
    BY <1>1 DEF SettingOf, StringOf, PasswordValues, password_setting_from_string, PASSWORD_ALWAYS
  <2>3. \A v \in PasswordValues : Target(k, v) = password_setting_from_string(v)
    BY <1>1, <2>2 DEF Target, Rows, PASSWORD_ALWAYS
  <2>4. \A v \in PasswordValues : Canon(k, v) = HttpdMode(v)
    BY <2>2, <2>3 DEF Canon, HttpdMode, PasswordValues, PasswordStrings,
       password_string_from_setting, password_setting_from_string, PASSWORD_ALWAYS
  <2>5. /\ HttpdMode(value) \in PasswordValues
        /\ HttpdMode(HttpdMode(value)) = HttpdMode(value)
        /\ password_setting_from_string(HttpdMode(value)) = password_setting_from_string(value)
    BY <2>1 DEF HttpdMode, PasswordValues, password_setting_from_string, PASSWORD_ALWAYS
  <2> QED BY <1>0, <1>1, <2>1, <2>3, <2>4, <2>5 DEF IsAsk, Combos, Meaning
<1>2. CASE k = "accept"
  <2>1. value \in AcceptValues
    BY <1>2, KeyKinds DEF Combos
  <2>2. /\ \A v \in AcceptValues : SettingOf(k, v) =
             IF v = "always" THEN 0 ELSE IF v = "ask" THEN 2 ELSE 1
        /\ \A w : StringOf(k, w) = accept_string_from_setting(w)
    BY <1>2 DEF SettingOf, StringOf, AcceptValues, accept_setting_from_string,
                ACCEPT_ALWAYS, ACCEPT_ASK, ACCEPT_BONDED
  <2>3. \A v \in AcceptValues : Target(k, v) =
          IF v = "always" THEN 0 ELSE IF v = "ask" THEN NoRow ELSE 1
    BY <1>2, <2>2 DEF Target, Rows, Combos, ACCEPT_BONDED
  <2>4. \A v \in AcceptValues : Canon(k, v) = IF v = "always" THEN "always" ELSE "bonded"
    BY <2>2, <2>3 DEF Canon, AcceptValues, NoRow, AcceptStrings, accept_string_from_setting,
       ACCEPT_ASK, ACCEPT_BONDED
  <2> QED
    BY <1>0, <1>2, <2>1, <2>2, <2>3, <2>4
       DEF IsAsk, Combos, Meaning, AcceptValues, ACCEPT_ASK, ACCEPT_BONDED
<1>3. CASE k \notin Combos
  BY <1>3, <1>0, KeyKinds, Zenon DEF Canon, IsAsk, StringOf, Target, SettingOf, Meaning, Combos
<1> QED BY <1>1, <1>2, <1>3, KeyKinds

-----------------------------------------------------------------------------
(* Types *)

AnyValue == BOOLEAN \cup PasswordValues \cup AcceptValues
Settings == {d \in [PrefsKeys -> AnyValue] : \A k \in PrefsKeys : d[k] \in PrefsValues(k)}
Frames == [values : Settings, at : 1 .. 9, seen : Nat]

\* A refresh that has just read the settings.
Fresh == [values |-> View, at |-> 1, seen |-> Len(foreign)]

TypeInv ==
  /\ db \in Settings
  /\ DOMAIN mine \subseteq PrefsKeys /\ \A k \in DOMAIN mine : mine[k] \in PrefsValues(k)
  /\ foreign \in Seq(ForeignKeys) /\ Len(foreign) <= MaxForeign
  /\ notes \in 0 .. Len(foreign)
  /\ window \in BOOLEAN
  /\ widgets \in [PrefsKeys -> BOOLEAN \cup (-1 .. 2)]
  /\ \A k \in PrefsKeys : ControlState(k, widgets[k])
  /\ sensitive \in [Switches \cup {"entry"} -> BOOLEAN]
  /\ updates \in Seq(Frames)
  /\ launched \in 0 .. MaxLaunched
  /\ passwd \in Texts \cup {"login", "none"}
  /\ unopened \subseteq Texts \cup {"login", "none"}
  /\ chosen \in [PrefsKeys \cup {"password"} -> AnyValue \cup Texts \cup {"login", "none"}]
  /\ \A k \in PrefsKeys : chosen[k] \in PrefsValues(k)

LEMMA OrderOf ==
  /\ Len(Order) = 8 /\ DOMAIN Order = 1 .. 8
  /\ \A p \in 1 .. 8 : Order[p] \in PrefsKeys
  /\ \A k \in PrefsKeys : \E p \in 1 .. 8 : Order[p] = k
  /\ \A p, q \in 1 .. 8 : Order[p] = Order[q] => p = q
  /\ \A p \in 1 .. 8 : Order[p] = "enabled" => p = 1
  /\ Order[1] = "enabled"
BY DEF Order, PrefsKeys, Switches, Combos

LEMMA ValuesOfKeys ==
  ASSUME NEW k \in PrefsKeys
  PROVE  PrefsValues(k) \subseteq AnyValue /\ States(k) \subseteq BOOLEAN \cup (-1 .. 2)
BY KeyKinds DEF AnyValue

\* Reading the database over writes that wait gives settings.
LEMMA ReadOverTyped ==
  ASSUME db \in Settings, NEW waiting, DOMAIN waiting \subseteq PrefsKeys,
         \A k \in DOMAIN waiting : waiting[k] \in PrefsValues(k)
  PROVE  ReadOver(waiting) \in Settings
<1>1. \A k \in PrefsKeys : ReadOver(waiting)[k] \in PrefsValues(k)
  BY DEF ReadOver, Settings
<1>2. DOMAIN ReadOver(waiting) = PrefsKeys
      /\ ReadOver(waiting) = [k \in PrefsKeys |-> ReadOver(waiting)[k]]
  BY DEF ReadOver
<1>3. ReadOver(waiting) \in [PrefsKeys -> AnyValue]
  BY <1>1, <1>2, ValuesOfKeys
<1> QED BY <1>1, <1>3 DEF Settings

LEMMA ViewTyped ==
  ASSUME TypeInv
  PROVE  View \in Settings /\ Fresh \in Frames
<1>1. View \in Settings
  BY ReadOverTyped DEF TypeInv, View
<1>2. Len(foreign) \in Nat
  BY LenProperties DEF TypeInv
<1> QED BY <1>1, <1>2 DEF Fresh, Frames

\* The handler of a control either writes, and runs a new refresh over those
\* that run, or its write is dropped as one without effect.
Drops(k, w) == NoEffectDropped /\ StringOf(k, w) = View[k]

LEMMA HandlerEffect ==
  ASSUME TypeInv, NEW k \in PrefsKeys, NEW w, ControlState(k, w), NEW running,
         Handler(k, w, running), db' = db, foreign' = foreign
  PROVE  /\ widgets' = [widgets EXCEPT ![k] = w]
         /\ launched' \in 0 .. MaxLaunched
         /\ DOMAIN mine' \subseteq PrefsKeys /\ \A x \in DOMAIN mine' : mine'[x] \in PrefsValues(x)
         /\ View' \in Settings
         /\ \A x \in PrefsKeys : x # k => View'[x] = View[x]
         /\ View'[k] = StringOf(k, w)
         /\ \/ Drops(k, w) /\ View' = View /\ updates' = running
            \/ ~Drops(k, w) /\ updates' = Append(running, Fresh')
<1> DEFINE value == StringOf(k, w)
           waiting == [x \in DOMAIN mine \cup {k} |-> IF x = k THEN value ELSE mine[x]]
<1>1. value \in PrefsValues(k)
  BY StringOfState
<1>2. DOMAIN mine' \subseteq PrefsKeys /\ \A x \in DOMAIN mine' : mine'[x] \in PrefsValues(x)
  <2>1. mine' = mine \/ mine' = waiting
    BY DEF Handler
  <2>2. DOMAIN waiting \subseteq PrefsKeys /\ \A x \in DOMAIN waiting : waiting[x] \in PrefsValues(x)
    BY <1>1 DEF TypeInv
  <2> QED BY <2>1, <2>2 DEF TypeInv
<1>3. View' \in Settings
  BY <1>2, ReadOverTyped DEF TypeInv, View, ReadOver
<1>4. widgets' = [widgets EXCEPT ![k] = w] /\ launched' \in 0 .. MaxLaunched
  BY PreferencesAssumption DEF Handler, LaunchShare, TypeInv
<1>5. CASE Drops(k, w)
  <2>1. mine' = mine /\ updates' = running
    BY <1>5 DEF Handler, Drops
  <2>2. View' = View
    BY <2>1 DEF View, ReadOver
  <2> HIDE DEF waiting
  <2> QED BY <1>2, <1>3, <1>4, <1>5, <2>1, <2>2 DEF Drops
<1>6. CASE ~Drops(k, w)
  <2>1. mine' = waiting /\ updates' = Append(running, UpdateOf(waiting))
    BY <1>6 DEF Handler, Drops
  <2>2. View' = ReadOver(waiting)
    BY <2>1 DEF View, ReadOver
  <2>3. Fresh' = UpdateOf(waiting)
    BY <2>2 DEF Fresh, UpdateOf
  <2>4. View'[k] = value /\ \A x \in PrefsKeys : x # k => View'[x] = View[x]
    BY <2>2 DEF View, ReadOver
  <2> HIDE DEF waiting, value
  <2> QED BY <1>2, <1>3, <1>4, <1>6, <2>1, <2>3, <2>4 DEF value
<1> QED BY <1>5, <1>6

-----------------------------------------------------------------------------
(* The innermost refresh *)

Top == Last(updates)

\* It comes to the control at p past controls that are silent.
Silent(p) == \A i \in Top.at .. p - 1 : ~Emits(Order[i], Top.values[Order[i]])

\* The refreshes around it stay as they are.
OuterKept == \A i \in 1 .. Len(updates) - 1 : updates'[i] = updates[i]

\* It ends.
Returns ==
  /\ Silent(9) /\ Passed(Top, 9)
  /\ UNCHANGED <<mine, widgets, launched>> /\ View' = View
  /\ Len(updates') = Len(updates) - 1 /\ OuterKept

\* It sets the control at p, whose handler is called.
Sets(p) ==
  LET k == Order[p]
      w == Target(k, Top.values[k])
  IN /\ p >= Top.at /\ Silent(p) /\ Passed(Top, p)
     /\ Emits(k, Top.values[k])
     /\ widgets' = [widgets EXCEPT ![k] = w]
     /\ launched' \in 0 .. MaxLaunched
     /\ DOMAIN mine' \subseteq PrefsKeys /\ \A x \in DOMAIN mine' : mine'[x] \in PrefsValues(x)
     /\ View'[k] = Canon(k, Top.values[k])
     /\ \A x \in PrefsKeys : x # k => View'[x] = View[x]
     /\ OuterKept
     /\ updates'[Len(updates)] = [values |-> Top.values, at |-> p + 1, seen |-> Top.seen]
     /\ \/ Drops(k, w) /\ View' = View /\ Len(updates') = Len(updates)
        \/ /\ ~Drops(k, w) /\ Len(updates') = Len(updates) + 1
           /\ updates'[Len(updates')] = Fresh'

LEMMA TopOf ==
  ASSUME TypeInv, updates # <<>>
  PROVE  /\ Len(updates) \in Nat \ {0} /\ DOMAIN updates = 1 .. Len(updates)
         /\ Top = updates[Len(updates)] /\ Top \in Frames
         /\ \A i \in 1 .. Len(updates) : updates[i] \in Frames
         /\ Top.values \in Settings /\ Top.at \in 1 .. 9 /\ Top.seen \in Nat
<1>1. updates \in Seq(Frames)
  BY DEF TypeInv
<1>2. /\ Len(updates) \in Nat \ {0} /\ DOMAIN updates = 1 .. Len(updates)
      /\ \A i \in 1 .. Len(updates) : updates[i] \in Frames
  BY <1>1, LenProperties, EmptySeq, ElementOfSeq
<1> QED BY <1>2 DEF Top, Last, Frames

LEMMA FrontOf ==
  ASSUME TypeInv, updates # <<>>
  PROVE  /\ Front(updates) \in Seq(Frames) /\ Len(Front(updates)) = Len(updates) - 1
         /\ \A i \in 1 .. Len(updates) - 1 : Front(updates)[i] = updates[i]
<1>1. Len(updates) \in Nat \ {0} /\ \A i \in 1 .. Len(updates) - 1 : updates[i] \in Frames
  BY TopOf
<1>2. Front(updates) = SubSeq(updates, 1, Len(updates) - 1)
  BY DEF Front
<1>3. /\ SubSeq(updates, 1, Len(updates) - 1) \in Seq(Frames)
      /\ Len(SubSeq(updates, 1, Len(updates) - 1)) =
           IF 1 <= Len(updates) - 1 THEN Len(updates) - 1 - 1 + 1 ELSE 0
      /\ \A i \in 1 .. Len(updates) - 1 - 1 + 1 :
           SubSeq(updates, 1, Len(updates) - 1)[i] = updates[1 + i - 1]
  BY <1>1, SubSeqProperties
<1> DEFINE n == Len(updates)
           front == SubSeq(updates, 1, n - 1)
<1> HIDE DEF n, front
<1>4. Len(front) = n - 1
  <2>1. n \in Nat \ {0} /\ Len(front) = IF 1 <= n - 1 THEN n - 1 - 1 + 1 ELSE 0
    BY <1>1, <1>3 DEF n, front
  <2> QED BY <2>1
<1>5. ASSUME NEW i \in 1 .. n - 1
      PROVE  front[i] = updates[i]
  <2>1. i \in 1 .. n - 1 - 1 + 1 /\ 1 + i - 1 = i
    BY <1>1 DEF n
  <2>2. front[i] = updates[1 + i - 1]
    BY <1>3, <2>1 DEF n, front
  <2> QED BY <2>1, <2>2
<1> QED BY <1>2, <1>3, <1>4, <1>5 DEF n, front

LEMMA UpdateUiEffect ==
  ASSUME TypeInv, UpdateUi
  PROVE  /\ updates # <<>> /\ updates' \in Seq(Frames)
         /\ Returns \/ \E p \in 1 .. 8 : Sets(p)
<1> DEFINE calling == {i \in Top.at .. Len(Order) : Emits(Order[i], Top.values[Order[i]])}
           advanced(p) == [values |-> Top.values, at |-> p + 1, seen |-> Top.seen]
           running(p) == Append(Front(updates), advanced(p))
<1>1. updates # <<>> /\ foreign' = foreign /\ db' = db
  BY DEF UpdateUi
<1>2. /\ Top = updates[Len(updates)] /\ Top \in Frames
      /\ Len(updates) \in Nat \ {0} /\ DOMAIN updates = 1 .. Len(updates)
      /\ Top.values \in Settings /\ Top.at \in 1 .. 9 /\ Top.seen \in Nat
  BY <1>1, TopOf
<1>3. ASSUME NEW p \in 1 .. 8
      PROVE  [Top EXCEPT !.at = p + 1] = advanced(p) /\ advanced(p) \in Frames
  BY <1>2 DEF Frames
<1>4. ASSUME NEW p \in 1 .. 8
      PROVE  /\ running(p) \in Seq(Frames) /\ Len(running(p)) = Len(updates)
             /\ \A i \in 1 .. Len(updates) - 1 : running(p)[i] = updates[i]
             /\ running(p)[Len(updates)] = advanced(p)
  <2> HIDE DEF advanced
  <2>1. advanced(p) \in Frames
    BY <1>3
  <2>2. /\ Front(updates) \in Seq(Frames) /\ Len(Front(updates)) = Len(updates) - 1
        /\ \A i \in 1 .. Len(updates) - 1 : Front(updates)[i] = updates[i]
    BY <1>1, FrontOf
  <2>3. /\ running(p) \in Seq(Frames) /\ Len(running(p)) = Len(Front(updates)) + 1
        /\ \A i \in 1 .. Len(Front(updates)) : running(p)[i] = Front(updates)[i]
        /\ running(p)[Len(Front(updates)) + 1] = advanced(p)
    BY <2>1, <2>2, AppendProperties
  <2> HIDE DEF running
  <2> QED BY <1>2, <2>2, <2>3
<1>5. \/ /\ calling = {} /\ Passed(Top, Len(Order) + 1)
         /\ updates' = Front(updates) /\ UNCHANGED <<mine, widgets, launched>>
      \/ \E p \in calling :
           /\ \A i \in calling : p <= i
           /\ Passed(Top, p)
           /\ Handler(Order[p], Target(Order[p], Top.values[Order[p]]),
                      Append(Front(updates), [Top EXCEPT !.at = p + 1]))
  BY DEF UpdateUi, Top
<1>6. CASE /\ calling = {} /\ Passed(Top, Len(Order) + 1)
           /\ updates' = Front(updates) /\ UNCHANGED <<mine, widgets, launched>>
  <2>1. View' = View
    BY <1>1, <1>6 DEF View, ReadOver
  <2>2. Silent(9)
    BY <1>2, <1>6, OrderOf DEF Silent
  <2>3. Passed(Top, 9)
    BY <1>6, OrderOf
  <2> QED BY <1>1, <1>6, <2>1, <2>2, <2>3, FrontOf DEF Returns, OuterKept
<1>7. ASSUME NEW p \in calling,
             \A i \in calling : p <= i,
             Passed(Top, p),
             Handler(Order[p], Target(Order[p], Top.values[Order[p]]),
                     Append(Front(updates), [Top EXCEPT !.at = p + 1]))
      PROVE  updates' \in Seq(Frames) /\ \E q \in 1 .. 8 : Sets(q)
  <2> DEFINE k == Order[p]
             w == Target(k, Top.values[k])
  <2>1. p \in 1 .. 8 /\ p >= Top.at /\ k \in PrefsKeys
    BY <1>2, OrderOf
  <2>2. Top.values[k] \in PrefsValues(k)
    BY <1>2, <2>1 DEF Settings
  <2>3. ControlState(k, w) /\ StringOf(k, w) = Canon(k, Top.values[k])
    BY <2>1, <2>2, TargetOf DEF Canon
  <2>4. Handler(k, w, running(p))
    BY <1>3, <1>7, <2>1
  <2>5. Silent(p)
    <3> SUFFICES ASSUME NEW i \in Top.at .. p - 1, Emits(Order[i], Top.values[Order[i]])
                 PROVE  FALSE
      BY DEF Silent
    <3>1. Top.at \in Int /\ p \in 1 .. Len(Order) /\ Len(Order) \in Int
      BY <1>2, <2>1, OrderOf
    <3>2. i \in Top.at .. Len(Order) /\ i < p
      <4> HIDE DEF calling
      <4> QED BY <3>1
    <3>3. i \in calling
      BY <3>2
    <3>4. p <= i /\ i \in Int
      BY <1>7, <3>2, <3>3
    <3> HIDE DEF calling
    <3> QED BY <3>1, <3>2, <3>4
  <2>6. Emits(k, Top.values[k])
    OBVIOUS
  <2> HIDE DEF k, w, running, advanced, calling
  <2>7. /\ widgets' = [widgets EXCEPT ![k] = w]
        /\ launched' \in 0 .. MaxLaunched
        /\ DOMAIN mine' \subseteq PrefsKeys /\ \A x \in DOMAIN mine' : mine'[x] \in PrefsValues(x)
        /\ View' \in Settings
        /\ View'[k] = StringOf(k, w)
        /\ \A x \in PrefsKeys : x # k => View'[x] = View[x]
        /\ \/ Drops(k, w) /\ View' = View /\ updates' = running(p)
           \/ ~Drops(k, w) /\ updates' = Append(running(p), Fresh')
    BY <1>1, <2>1, <2>3, <2>4, HandlerEffect
  <2>8. Fresh' \in Frames
    <3>1. Len(foreign') \in Nat
      BY <1>1, LenProperties DEF TypeInv
    <3> QED BY <2>7, <3>1 DEF Fresh, Frames
  <2>9. /\ updates' \in Seq(Frames) /\ OuterKept
        /\ updates'[Len(updates)] = advanced(p)
        /\ \/ Drops(k, w) /\ View' = View /\ Len(updates') = Len(updates)
           \/ /\ ~Drops(k, w) /\ Len(updates') = Len(updates) + 1
              /\ updates'[Len(updates')] = Fresh'
    <3>1. /\ running(p) \in Seq(Frames) /\ Len(running(p)) = Len(updates)
          /\ \A i \in 1 .. Len(updates) - 1 : running(p)[i] = updates[i]
          /\ running(p)[Len(updates)] = advanced(p)
      BY <1>4, <2>1
    <3>2. CASE Drops(k, w)
      BY <2>7, <3>1, <3>2 DEF OuterKept
    <3>3. CASE ~Drops(k, w)
      <4> DEFINE fresh == Fresh'
                 run == running(p)
      <4> HIDE DEF fresh, run
      <4>1. run \in Seq(Frames) /\ fresh \in Frames /\ updates' = Append(run, fresh)
        BY <2>7, <2>8, <3>1, <3>3 DEF fresh, run
      <4>2. /\ updates' \in Seq(Frames) /\ Len(updates') = Len(updates) + 1
            /\ \A i \in 1 .. Len(updates) : updates'[i] = run[i]
            /\ updates'[Len(updates) + 1] = fresh
        BY <3>1, <4>1, AppendProperties DEF run
      <4>3. updates'[Len(updates')] = Fresh'
        BY <4>2 DEF fresh
      <4>4. OuterKept /\ updates'[Len(updates)] = advanced(p)
        BY <1>2, <3>1, <4>2 DEF OuterKept, run
      <4> QED BY <3>3, <4>2, <4>3, <4>4
    <3> QED BY <2>7, <3>2, <3>3
  <2> QED BY <1>7, <2>1, <2>3, <2>5, <2>6, <2>7, <2>9 DEF Sets, k, w, advanced
<1> QED BY <1>1, <1>5, <1>6, <1>7, FrontOf

-----------------------------------------------------------------------------
(* The other steps *)

\* A refresh begins, and none was running.
Begins == updates' \in Seq(Frames) /\ Len(updates') = 1 /\ updates'[1] = Fresh'

LEMMA BeginsOf ==
  ASSUME Fresh' \in Frames, updates' = <<Fresh'>> \/ updates' = Append(<<>>, Fresh')
  PROVE  Begins
<1> DEFINE fresh == Fresh'
<1> HIDE DEF fresh
<1>1. fresh \in Frames /\ (updates' = <<fresh>> \/ updates' = Append(<<>>, fresh))
  BY DEF fresh
<1> QED BY <1>1 DEF Begins, fresh

LEMMA FreshTyped ==
  ASSUME View' \in Settings, foreign' \in Seq(ForeignKeys)
  PROVE  Fresh' \in Frames
BY LenProperties DEF Fresh, Frames

LEMMA ChoosesEffect ==
  ASSUME TypeInv, NEW k \in UserKeys, NEW w \in States(k), UserChooses(k, w)
  PROVE  /\ window /\ updates = <<>> /\ k \in PrefsKeys
         /\ widgets' = [widgets EXCEPT ![k] = w]
         /\ launched' \in 0 .. MaxLaunched
         /\ DOMAIN mine' \subseteq PrefsKeys /\ \A x \in DOMAIN mine' : mine'[x] \in PrefsValues(x)
         /\ StringOf(k, w) \in PrefsValues(k) /\ ~IsAsk(k, StringOf(k, w))
         /\ View'[k] = StringOf(k, w)
         /\ \A x \in PrefsKeys : x # k => View'[x] = View[x]
         /\ chosen' = [chosen EXCEPT ![k] = StringOf(k, w)]
         /\ \/ Drops(k, w) /\ View' = View /\ updates' = <<>>
            \/ Begins
<1>1. k \in PrefsKeys /\ ControlState(k, w)
  BY PreferencesAssumption DEF ControlState
<1>2. Handler(k, w, <<>>) /\ db' = db /\ foreign' = foreign
  BY DEF UserChooses
<1>3. /\ widgets' = [widgets EXCEPT ![k] = w]
      /\ launched' \in 0 .. MaxLaunched
      /\ DOMAIN mine' \subseteq PrefsKeys /\ \A x \in DOMAIN mine' : mine'[x] \in PrefsValues(x)
      /\ View' \in Settings
      /\ View'[k] = StringOf(k, w)
      /\ \A x \in PrefsKeys : x # k => View'[x] = View[x]
      /\ \/ Drops(k, w) /\ View' = View /\ updates' = <<>>
         \/ ~Drops(k, w) /\ updates' = Append(<<>>, Fresh')
  BY <1>1, <1>2, HandlerEffect
<1>4. Fresh' \in Frames
  BY <1>2, <1>3, FreshTyped DEF TypeInv
<1>5. (Drops(k, w) /\ View' = View /\ updates' = <<>>) \/ Begins
  BY <1>3, <1>4, BeginsOf
<1> QED BY <1>1, <1>3, <1>5, StringOfState DEF UserChooses, Idle

LEMMA OpenedEffect ==
  ASSUME TypeInv, Opened \/ Changed
  PROVE  View' = View /\ Begins
<1>1. UNCHANGED <<db, mine, foreign>> /\ updates' = <<UpdateOf(mine)>>
  BY DEF Opened, Changed
<1>2. View' = View /\ Fresh' = UpdateOf(mine)
  BY <1>1 DEF View, ReadOver, Fresh, UpdateOf
<1>3. Fresh' \in Frames
  BY <1>1, <1>2, ViewTyped, FreshTyped DEF TypeInv
<1> QED BY <1>1, <1>2, <1>3, BeginsOf

LEMMA TakenEffect ==
  ASSUME TypeInv, Taken
  PROVE  View' = View /\ db' = View /\ mine' = <<>>
<1>1. db' = View /\ mine' = <<>>
  BY DEF Taken
<1>2. View' = [k \in PrefsKeys |-> db'[k]]
  BY <1>1 DEF View, ReadOver
<1>3. View = [k \in PrefsKeys |-> View[k]]
  BY DEF View, ReadOver
<1> QED BY <1>1, <1>2, <1>3

LEMMA ForeignEffect ==
  ASSUME TypeInv, NEW k \in ForeignKeys, NEW value \in PrefsValues(k), ForeignWrite(k, value)
  PROVE  /\ k \in PrefsKeys /\ \A x \in PrefsKeys : x # k => View'[x] = View[x]
         /\ db' \in Settings
         /\ foreign' \in Seq(ForeignKeys) /\ Len(foreign') = Len(foreign) + 1
         /\ Len(foreign) \in Nat
         /\ \A i \in 1 .. Len(foreign) : foreign'[i] = foreign[i]
         /\ foreign'[Len(foreign')] = k
<1>1. k \in PrefsKeys /\ db' = [db EXCEPT ![k] = value] /\ mine' = mine
  BY PreferencesAssumption DEF ForeignWrite
<1>2. \A x \in PrefsKeys : x # k => View'[x] = View[x]
  BY <1>1 DEF View, ReadOver, TypeInv, Settings
<1>3. db' \in Settings
  <2>1. value \in AnyValue
    BY <1>1, ValuesOfKeys
  <2> QED BY <1>1, <2>1 DEF TypeInv, Settings
<1>4. /\ foreign' \in Seq(ForeignKeys) /\ Len(foreign') = Len(foreign) + 1
      /\ Len(foreign) \in Nat
      /\ \A i \in 1 .. Len(foreign) : foreign'[i] = foreign[i]
      /\ foreign'[Len(foreign')] = k
  BY AppendProperties, LenProperties DEF TypeInv, ForeignWrite
<1> QED BY <1>1, <1>2, <1>3, <1>4

-----------------------------------------------------------------------------
(* The type invariant *)

LEMMA MinOfTwo ==
  ASSUME NEW a \in Nat, NEW b \in Nat
  PROVE  Min({a, b}) \in 0 .. a
<1>1. \E x \in {a, b} : \A y \in {a, b} : x <= y
  <2>1. CASE a <= b
    BY <2>1
  <2>2. CASE b <= a
    BY <2>2
  <2> QED BY <2>1, <2>2
<1>2. Min({a, b}) \in {a, b} /\ \A y \in {a, b} : Min({a, b}) <= y
  BY <1>1 DEF Min
<1> QED BY <1>2

LEMMA NewControls ==
  /\ NewWidgets \in [PrefsKeys -> BOOLEAN \cup (-1 .. 2)]
  /\ \A k \in PrefsKeys : ControlState(k, NewWidgets[k])
  /\ AllSensitive \in [Switches \cup {"entry"} -> BOOLEAN]
<1>1. ASSUME NEW k \in PrefsKeys
      PROVE  NewWidgets[k] \in BOOLEAN \cup (-1 .. 2) /\ ControlState(k, NewWidgets[k])
  <2>1. NewWidgets[k] = IF k \in Combos THEN NoRow ELSE FALSE
    BY DEF NewWidgets
  <2>2. CASE k \in Combos
    BY <2>1, <2>2 DEF ControlState, NoRow
  <2>3. CASE k \notin Combos
    BY <2>1, <2>3, KeyKinds DEF ControlState, Combos
  <2> QED BY <2>2, <2>3
<1>2. NewWidgets \in [PrefsKeys -> BOOLEAN \cup (-1 .. 2)]
  BY <1>1 DEF NewWidgets
<1> QED BY <1>1, <1>2 DEF AllSensitive

LEMMA TypeInvInit == PrefsInit => TypeInv
<1> SUFFICES ASSUME PrefsInit PROVE TypeInv
  OBVIOUS
<1>1. db \in Settings
  <2>1. db = [k \in PrefsKeys |-> db[k]] /\ \A k \in PrefsKeys : db[k] \in PrefsValues(k)
    BY PreferencesAssumption DEF PrefsInit
  <2> QED BY <2>1, ValuesOfKeys DEF Settings
<1>2. launched \in 0 .. MaxLaunched
  <2>1. IsFiniteSet(Switches)
    <3>1. IsFiniteSet({}) /\ Switches = (({} \cup {"enabled"}) \cup {"ftp"}) \cup {"push"}
      BY FS_EmptySet DEF Switches
    <3> QED BY <3>1, FS_AddElement
  <2>2. Cardinality({k \in Switches : db[k]}) \in Nat
    BY <2>1, FS_Subset, FS_CardinalityType
  <2> QED BY <2>2, MinOfTwo, PreferencesAssumption DEF PrefsInit
<1>3. /\ chosen \in [PrefsKeys \cup {"password"} -> AnyValue \cup Texts \cup {"login", "none"}]
      /\ \A k \in PrefsKeys : chosen[k] \in PrefsValues(k)
  <2>1. "password" \notin PrefsKeys
    BY DEF PrefsKeys, Switches, Combos
  <2> QED BY <1>1, <2>1 DEF PrefsInit, Settings
<1>4. /\ widgets \in [PrefsKeys -> BOOLEAN \cup (-1 .. 2)]
      /\ \A k \in PrefsKeys : ControlState(k, widgets[k])
      /\ sensitive \in [Switches \cup {"entry"} -> BOOLEAN]
  BY NewControls DEF PrefsInit
<1>6. foreign \in Seq(ForeignKeys) /\ Len(foreign) <= MaxForeign /\ notes \in 0 .. Len(foreign)
  BY PreferencesAssumption, EmptySeq DEF PrefsInit
<1>7. updates \in Seq(Frames) /\ DOMAIN mine = {}
  BY EmptySeq DEF PrefsInit
<1> QED BY <1>1, <1>2, <1>3, <1>4, <1>6, <1>7 DEF PrefsInit, TypeInv

LEMMA WidgetsSet ==
  ASSUME TypeInv, NEW k \in PrefsKeys, NEW w, ControlState(k, w),
         widgets' = [widgets EXCEPT ![k] = w]
  PROVE  /\ widgets' \in [PrefsKeys -> BOOLEAN \cup (-1 .. 2)]
         /\ \A x \in PrefsKeys : ControlState(x, widgets'[x])
         /\ widgets'[k] = w /\ \A x \in PrefsKeys : x # k => widgets'[x] = widgets[x]
<1>1. w \in BOOLEAN \cup (-1 .. 2)
  BY ValuesOfKeys DEF ControlState, NoRow
<1> QED BY <1>1 DEF TypeInv

\* What the controls passed on the way to p, and the one set last, leave of
\* the sensitivity of their groups.
LEMMA PassedEffect ==
  ASSUME TypeInv, updates # <<>>, NEW p \in 1 .. 9, Passed(Top, p)
  PROVE  /\ sensitive' \in [Switches \cup {"entry"} -> BOOLEAN]
         /\ \A q \in 1 .. 8 : Order[q] \in Switches =>
              sensitive'[Order[q]] = IF Top.at - 1 <= q /\ q < p
                                       THEN Top.values[Order[q]] ELSE sensitive[Order[q]]
         /\ sensitive'["entry"] =
              IF Top.at - 1 <= 1 /\ 1 < p
                THEN Top.values["enabled"]
                     /\ password_setting_from_string(Top.values["require_password"]) # 0
                ELSE sensitive["entry"]
<1> DEFINE done == {Order[i] : i \in {j \in DOMAIN Order : Top.at - 1 <= j /\ j < p}}
           groups == Switches \cup {"entry"}
<1>1. sensitive' = [g \in groups |->
         IF g \in done THEN Top.values[g]
         ELSE IF g = "entry" /\ "enabled" \in done
           THEN Top.values["enabled"]
                /\ password_setting_from_string(Top.values["require_password"]) # 0
         ELSE sensitive[g]]
  <2>1. DOMAIN sensitive = groups
    BY DEF TypeInv
  <2> QED BY <2>1 DEF Passed, SettingOf
<1>2. \A q \in 1 .. 8 : Order[q] \in done <=> Top.at - 1 <= q /\ q < p
  BY OrderOf
<1>3. "entry" \notin done /\ "entry" \notin Switches
  BY OrderOf DEF PrefsKeys, Switches, Combos
<1>4. "enabled" \in done <=> Top.at - 1 <= 1 /\ 1 < p
  BY <1>2, OrderOf
<1>5. \A g \in Switches : Top.values[g] \in BOOLEAN
  BY TopOf, KeyKinds DEF Settings, PrefsKeys, Switches, Combos
<1> HIDE DEF done
<1>6. \A g \in groups : sensitive'[g] \in BOOLEAN
  BY <1>1, <1>3, <1>5, Zenon DEF TypeInv
<1>7. sensitive' \in [groups -> BOOLEAN]
  BY <1>1, <1>6, Zenon
<1>8. ASSUME NEW q \in 1 .. 8, Order[q] \in Switches
      PROVE  sensitive'[Order[q]] = IF Top.at - 1 <= q /\ q < p
                                      THEN Top.values[Order[q]] ELSE sensitive[Order[q]]
  BY <1>1, <1>2, <1>3, <1>8, Zenon
<1>9. sensitive'["entry"] =
        IF Top.at - 1 <= 1 /\ 1 < p
          THEN Top.values["enabled"]
               /\ password_setting_from_string(Top.values["require_password"]) # 0
          ELSE sensitive["entry"]
  BY <1>1, <1>3, <1>4, Zenon
<1> QED BY <1>7, <1>8, <1>9

LEMMA TypeInvStep ==
  ASSUME TypeInv, [Next]_vars
  PROVE  TypeInv'
<1> USE DEF windowVars
<1>1. CASE UpdateUi
  <2>1. UNCHANGED <<db, notes, window, passwd, chosen, unopened, foreign>>
    BY <1>1 DEF UpdateUi
  <2>2. updates # <<>> /\ updates' \in Seq(Frames)
    BY <1>1, UpdateUiEffect
  <2>3. CASE Returns
    <3>1. sensitive' \in [Switches \cup {"entry"} -> BOOLEAN]
      BY <2>2, <2>3, PassedEffect DEF Returns
    <3> QED BY <2>1, <2>2, <2>3, <3>1 DEF Returns, TypeInv
  <2>4. ASSUME NEW p \in 1 .. 8, Sets(p)
        PROVE  TypeInv'
    <3> DEFINE k == Order[p]
               w == Target(k, Top.values[k])
    <3>1. k \in PrefsKeys /\ Top.values[k] \in PrefsValues(k)
      BY <2>2, OrderOf, TopOf DEF Settings
    <3>2. ControlState(k, w)
      BY <3>1, TargetOf
    <3>3. sensitive' \in [Switches \cup {"entry"} -> BOOLEAN]
      BY <2>2, <2>4, PassedEffect DEF Sets
    <3>4. /\ widgets' = [widgets EXCEPT ![k] = w] /\ launched' \in 0 .. MaxLaunched
          /\ DOMAIN mine' \subseteq PrefsKeys /\ \A x \in DOMAIN mine' : mine'[x] \in PrefsValues(x)
      BY <2>4 DEF Sets
    <3> HIDE DEF k, w
    <3>5. /\ widgets' \in [PrefsKeys -> BOOLEAN \cup (-1 .. 2)]
          /\ \A x \in PrefsKeys : ControlState(x, widgets'[x])
      BY <3>1, <3>2, <3>4, WidgetsSet
    <3> QED BY <2>1, <2>2, <3>3, <3>4, <3>5 DEF TypeInv
  <2> QED BY <1>1, <2>3, <2>4, UpdateUiEffect
<1>2. ASSUME NEW k \in UserKeys, NEW w \in States(k), UserChooses(k, w)
      PROVE  TypeInv'
  <2>1. UNCHANGED <<db, notes, window, sensitive, passwd, unopened, foreign>>
    BY <1>2 DEF UserChooses
  <2>2. /\ k \in PrefsKeys /\ launched' \in 0 .. MaxLaunched
        /\ widgets' = [widgets EXCEPT ![k] = w]
        /\ DOMAIN mine' \subseteq PrefsKeys /\ \A x \in DOMAIN mine' : mine'[x] \in PrefsValues(x)
        /\ StringOf(k, w) \in PrefsValues(k)
        /\ chosen' = [chosen EXCEPT ![k] = StringOf(k, w)]
        /\ updates' \in Seq(Frames)
    BY <1>2, ChoosesEffect, EmptySeq DEF Begins
  <2>3. /\ widgets' \in [PrefsKeys -> BOOLEAN \cup (-1 .. 2)]
        /\ \A x \in PrefsKeys : ControlState(x, widgets'[x])
    BY <2>2, WidgetsSet DEF ControlState
  <2>4. /\ chosen' \in [PrefsKeys \cup {"password"} -> AnyValue \cup Texts \cup {"login", "none"}]
        /\ \A x \in PrefsKeys : chosen'[x] \in PrefsValues(x)
    BY <2>2, ValuesOfKeys DEF TypeInv
  <2> QED BY <2>1, <2>2, <2>3, <2>4 DEF TypeInv
<1>3. CASE Opened \/ Changed
  <2>1. updates' \in Seq(Frames)
    BY <1>3, OpenedEffect DEF Begins
  <2>2. UNCHANGED <<db, mine, launched, passwd, chosen, unopened, foreign>> /\ notes' \in 0 .. Len(foreign)
    BY <1>3, LenProperties DEF Opened, Changed, PlaceholderSet, TypeInv
  <2>3. /\ window' \in BOOLEAN
        /\ widgets' \in [PrefsKeys -> BOOLEAN \cup (-1 .. 2)]
        /\ \A k \in PrefsKeys : ControlState(k, widgets'[k])
        /\ sensitive' \in [Switches \cup {"entry"} -> BOOLEAN]
    BY <1>3, NewControls DEF Opened, Changed, TypeInv
  <2> QED BY <2>1, <2>2, <2>3 DEF TypeInv
<1>4. CASE Closed
  <2>1. UNCHANGED <<db, mine, updates, launched, passwd, chosen, unopened, foreign>>
        /\ notes' \in 0 .. Len(foreign)
    BY <1>4, LenProperties DEF Closed, TypeInv
  <2>2. /\ window' \in BOOLEAN
        /\ widgets' \in [PrefsKeys -> BOOLEAN \cup (-1 .. 2)]
        /\ \A k \in PrefsKeys : ControlState(k, widgets'[k])
        /\ sensitive' \in [Switches \cup {"entry"} -> BOOLEAN]
    BY <1>4, NewControls DEF Closed
  <2> QED BY <2>1, <2>2 DEF TypeInv
<1>5. ASSUME NEW text \in Texts, PasswordTyped(text)
      PROVE  TypeInv'
  <2>1. UNCHANGED <<db, mine, windowVars, foreign>>
    BY <1>5 DEF PasswordTyped
  <2>2. /\ passwd' \in Texts \cup {"login", "none"}
        /\ unopened' \subseteq Texts \cup {"login", "none"}
        /\ chosen' = [chosen EXCEPT !["password"] = text]
    BY <1>5 DEF PasswordTyped, TypeInv
  <2>3. "password" \notin PrefsKeys
    BY DEF PrefsKeys, Switches, Combos
  <2>4. /\ chosen' \in [PrefsKeys \cup {"password"} -> AnyValue \cup Texts \cup {"login", "none"}]
        /\ \A x \in PrefsKeys : chosen'[x] \in PrefsValues(x)
    BY <2>2, <2>3 DEF TypeInv
  <2> QED BY <2>1, <2>2, <2>4 DEF TypeInv
<1>6. CASE Taken
  <2>1. db' \in Settings /\ mine' = <<>>
    BY <1>6, TakenEffect, ViewTyped
  <2> QED BY <1>6, <2>1 DEF Taken, TypeInv
<1>7. ASSUME NEW k \in ForeignKeys, NEW value \in PrefsValues(k), ForeignWrite(k, value)
      PROVE  TypeInv'
  <2>1. UNCHANGED <<mine, window, widgets, sensitive, updates, launched, passwd, chosen, unopened>>
    BY <1>7 DEF ForeignWrite
  <2>2. /\ db' \in Settings /\ foreign' \in Seq(ForeignKeys)
        /\ Len(foreign') = Len(foreign) + 1 /\ Len(foreign) \in Nat
    BY <1>7, ForeignEffect
  <2>3. Len(foreign') <= MaxForeign /\ notes' \in 0 .. Len(foreign')
    BY <1>7, <2>2, PreferencesAssumption DEF ForeignWrite, TypeInv
  <2> QED BY <2>1, <2>2, <2>3 DEF TypeInv
<1>8. ASSUME NEW i \in Instances, InstanceStarts(i)
      PROVE  TypeInv'
  <2>1. launched' \in 0 .. MaxLaunched
    BY <1>8, PreferencesAssumption DEF InstanceStarts, TypeInv
  <2>2. UNCHANGED <<db, mine, notes, window, widgets, sensitive, updates, passwd, chosen, unopened, foreign>>
    BY <1>8 DEF InstanceStarts
  <2> QED BY <2>1, <2>2 DEF TypeInv
<1>9. CASE UNCHANGED prefsVars
  BY <1>9 DEF prefsVars, TypeInv
<1> QED BY <1>1, <1>2, <1>3, <1>4, <1>5, <1>6, <1>7, <1>8, <1>9
        DEF Next, PrefsNext, UserActs, InstanceActs, DaemonLeaves, vars

LEMMA TypeInvariant == Spec => []TypeInv
BY TypeInvInit, TypeInvStep, PTL DEF Spec, Init

\* Every variable has its type, and no more notifications wait than other
\* programs have written.
THEOREM PreferencesTypes == Spec => []PreferencesTypeOK
<1>1. TypeInv => PreferencesTypeOK
  <2> SUFFICES ASSUME TypeInv PROVE PreferencesTypeOK
    OBVIOUS
  <2>1. DOMAIN db = PrefsKeys /\ \A k \in PrefsKeys : db[k] \in PrefsValues(k)
    BY DEF TypeInv, Settings
  <2>2. \A k \in PrefsKeys : widgets[k] \in States(k) \/ (k \in Combos /\ widgets[k] = NoRow)
    BY DEF TypeInv, ControlState
  <2>3. \A i \in DOMAIN updates : updates[i].at \in 1 .. Len(Order) + 1
    <3>1. ASSUME NEW i \in DOMAIN updates
          PROVE  updates[i].at \in 1 .. 9
      <4>1. updates \in Seq(Frames) /\ i \in 1 .. Len(updates)
        BY LenProperties DEF TypeInv
      <4>2. updates[i] \in Frames
        BY <4>1, ElementOfSeq
      <4> QED BY <4>2 DEF Frames
    <3> QED BY <3>1, OrderOf
  <2> QED BY <2>1, <2>2, <2>3 DEF TypeInv, PreferencesTypeOK
<1> QED BY <1>1, TypeInvariant, PTL

-----------------------------------------------------------------------------
(* What the user chose *)

\* A value means what the user chose.
Kept(k, value) == Meaning(k, value) = Meaning(k, chosen[k])

\* The settings and every refresh that still runs hold the user's choice.
ChoiceInv ==
  /\ passwd \in IF unopened = {} THEN {chosen["password"]} ELSE unopened
  /\ \A k \in PrefsKeys \ ForeignKeys :
       \/ IsAsk(k, chosen[k])
       \/ Kept(k, View[k]) /\ \A i \in 1 .. Len(updates) : Kept(k, updates[i].values[k])

\* No other value means what "ask" does.
LEMMA AskAlone ==
  ASSUME NEW k \in PrefsKeys, NEW v \in PrefsValues(k), NEW u \in PrefsValues(k),
         Meaning(k, v) = Meaning(k, u)
  PROVE  IsAsk(k, v) <=> IsAsk(k, u)
<1>1. CASE k = "accept"
  BY <1>1, KeyKinds DEF IsAsk, Meaning, SettingOf, accept_setting_from_string, AcceptValues,
     Combos, ACCEPT_ALWAYS, ACCEPT_ASK, ACCEPT_BONDED
<1> QED BY <1>1 DEF IsAsk

\* What UpdateUi leaves of the refreshes.
LEMMA RefreshesAfter ==
  ASSUME TypeInv, UpdateUi, NEW i \in 1 .. Len(updates')
  PROVE  \/ /\ i \in 1 .. Len(updates)
            /\ updates'[i].values = updates[i].values /\ updates'[i].seen = updates[i].seen
         \/ i = Len(updates) + 1 /\ updates'[i] = Fresh'
<1>1. updates # <<>>
  BY UpdateUiEffect
<1>2. Len(updates) \in Nat \ {0} /\ Top = updates[Len(updates)]
  BY <1>1, TopOf
<1>3. CASE Returns
  BY <1>2, <1>3 DEF Returns, OuterKept
<1>4. ASSUME NEW p \in 1 .. 8, Sets(p)
      PROVE  \/ /\ i \in 1 .. Len(updates)
                /\ updates'[i].values = updates[i].values /\ updates'[i].seen = updates[i].seen
             \/ i = Len(updates) + 1 /\ updates'[i] = Fresh'
  <2>1. /\ OuterKept
        /\ updates'[Len(updates)] = [values |-> Top.values, at |-> p + 1, seen |-> Top.seen]
        /\ \/ Len(updates') = Len(updates)
           \/ Len(updates') = Len(updates) + 1 /\ updates'[Len(updates')] = Fresh'
    BY <1>4 DEF Sets
  <2>2. CASE i = Len(updates)
    BY <1>2, <2>1, <2>2
  <2>3. CASE i \in 1 .. Len(updates) - 1
    BY <1>2, <2>1, <2>3 DEF OuterKept
  <2>4. CASE i = Len(updates) + 1
    BY <1>2, <2>1, <2>4
  <2> QED BY <1>2, <2>1, <2>2, <2>3, <2>4
<1> QED BY <1>3, <1>4, UpdateUiEffect

LEMMA FramesTyped ==
  ASSUME TypeInv, NEW i \in 1 .. Len(updates)
  PROVE  updates[i] \in Frames /\ updates[i].at \in 1 .. 9 /\ updates[i].seen \in Nat
<1>1. updates[i] \in Frames
  BY ElementOfSeq DEF TypeInv
<1> QED BY <1>1 DEF Frames

LEMMA ValuesTyped ==
  ASSUME TypeInv, NEW i \in 1 .. Len(updates), NEW k \in PrefsKeys
  PROVE  updates[i].values[k] \in PrefsValues(k)
BY FramesTyped DEF Frames, Settings

LEMMA ChoiceInvInit == PrefsInit => ChoiceInv
<1> SUFFICES ASSUME PrefsInit PROVE ChoiceInv
  OBVIOUS
<1>1. "password" \notin PrefsKeys
  BY DEF PrefsKeys, Switches, Combos
<1>2. \A k \in PrefsKeys : View[k] = db[k] /\ chosen[k] = db[k]
  BY <1>1 DEF PrefsInit, View, ReadOver
<1>3. chosen["password"] = passwd /\ unopened = {}
  BY DEF PrefsInit
<1>4. Len(updates) = 0
  BY DEF PrefsInit
<1> QED BY <1>2, <1>3, <1>4 DEF ChoiceInv, Kept

LEMMA ChoiceInvStep ==
  ASSUME TypeInv, ChoiceInv, [Next]_vars
  PROVE  ChoiceInv'
<1> USE DEF windowVars
<1>1. CASE UpdateUi
  <2>1. UNCHANGED <<passwd, chosen, unopened>>
    BY <1>1 DEF UpdateUi
  <2> SUFFICES ASSUME NEW k \in PrefsKeys \ ForeignKeys, ~IsAsk(k, chosen[k])
               PROVE  /\ Kept(k, View'[k])
                      /\ \A i \in 1 .. Len(updates') : Kept(k, updates'[i].values[k])
    BY <2>1 DEF ChoiceInv, Kept
  <2>2. Kept(k, View[k]) /\ \A i \in 1 .. Len(updates) : Kept(k, updates[i].values[k])
    BY DEF ChoiceInv
  <2>3. Kept(k, View'[k])
    <3>1. CASE View' = View
      BY <2>2, <3>1
    <3>2. ASSUME NEW p \in 1 .. 8, Sets(p)
          PROVE  Kept(k, View'[k])
      <4>1. CASE Order[p] = k
        <5> DEFINE value == Top.values[k]
        <5>1. updates # <<>>
          BY <1>1, UpdateUiEffect
        <5>2. value \in PrefsValues(k) /\ Kept(k, value)
          BY <2>2, <5>1, TopOf DEF Settings
        <5>3. ~IsAsk(k, value)
          BY <5>2, AskAlone DEF Kept, TypeInv
        <5>4. View'[k] = Canon(k, value)
          BY <3>2, <4>1 DEF Sets
        <5> QED BY <5>2, <5>3, <5>4, CanonOf DEF Kept
      <4>2. CASE Order[p] # k
        BY <2>2, <3>2, <4>2 DEF Sets
      <4> QED BY <4>1, <4>2
    <3> QED BY <1>1, <3>1, <3>2, UpdateUiEffect DEF Returns
  <2>4. ASSUME NEW i \in 1 .. Len(updates')
        PROVE  Kept(k, updates'[i].values[k])
    <3>1. CASE i \in 1 .. Len(updates) /\ updates'[i].values = updates[i].values
      BY <2>2, <3>1
    <3>2. CASE updates'[i] = Fresh'
      BY <2>3, <3>2 DEF Fresh
    <3> QED BY <1>1, <3>1, <3>2, RefreshesAfter
  <2> QED BY <2>3, <2>4
<1>2. ASSUME NEW key \in UserKeys, NEW w \in States(key), UserChooses(key, w)
      PROVE  ChoiceInv'
  <2>1. /\ key \in PrefsKeys /\ UNCHANGED <<passwd, unopened>>
        /\ chosen' = [chosen EXCEPT ![key] = StringOf(key, w)]
        /\ View'[key] = StringOf(key, w)
        /\ \A x \in PrefsKeys : x # key => View'[x] = View[x]
        /\ updates' = <<>> \/ Begins
    BY <1>2, ChoosesEffect DEF UserChooses
  <2>2. "password" \notin PrefsKeys
    BY DEF PrefsKeys, Switches, Combos
  <2>3. chosen'["password"] = chosen["password"]
    BY <2>1, <2>2 DEF TypeInv
  <2>4. ASSUME NEW k \in PrefsKeys \ ForeignKeys, ~IsAsk(k, chosen'[k])
        PROVE  Meaning(k, View'[k]) = Meaning(k, chosen'[k])
    BY <2>1, <2>4 DEF ChoiceInv, Kept, TypeInv
  <2>5. ASSUME NEW i \in 1 .. Len(updates')
        PROVE  updates'[i].values = View'
    BY <2>1 DEF Begins, Fresh
  <2> QED BY <2>1, <2>3, <2>4, <2>5 DEF ChoiceInv, Kept
<1>3. CASE Opened \/ Changed
  <2>1. View' = View /\ Begins
    BY <1>3, OpenedEffect
  <2>2. UNCHANGED <<passwd, chosen, unopened>>
    BY <1>3 DEF Opened, Changed, PlaceholderSet
  <2>3. ASSUME NEW i \in 1 .. Len(updates')
        PROVE  updates'[i].values = View
    BY <2>1 DEF Begins, Fresh
  <2> QED BY <2>1, <2>2, <2>3 DEF ChoiceInv, Kept
<1>4. ASSUME NEW text \in Texts, PasswordTyped(text)
      PROVE  ChoiceInv'
  <2>1. /\ UNCHANGED <<db, mine, updates>>
        /\ chosen' = [chosen EXCEPT !["password"] = text]
        /\ \/ passwd' = text /\ unopened' = {}
           \/ passwd' = passwd /\ unopened' = {passwd}
    BY <1>4 DEF PasswordTyped
  <2>2. "password" \notin PrefsKeys
    BY DEF PrefsKeys, Switches, Combos
  <2>3. chosen'["password"] = text /\ \A k \in PrefsKeys : chosen'[k] = chosen[k]
    BY <2>1, <2>2 DEF TypeInv
  <2>4. View' = View
    BY <2>1 DEF View, ReadOver
  <2> QED BY <2>1, <2>3, <2>4 DEF ChoiceInv, Kept
<1>5. ASSUME NEW key \in ForeignKeys, NEW value \in PrefsValues(key), ForeignWrite(key, value)
      PROVE  ChoiceInv'
  <2>1. UNCHANGED <<updates, passwd, chosen, unopened>>
    BY <1>5 DEF ForeignWrite
  <2>2. \A k \in PrefsKeys \ ForeignKeys : View'[k] = View[k]
    BY <1>5, ForeignEffect
  <2> QED BY <2>1, <2>2 DEF ChoiceInv, Kept
<1>6. CASE UNCHANGED <<updates, passwd, chosen, unopened>> /\ View' = View
  BY <1>6 DEF ChoiceInv, Kept
<1>7. Closed \/ Taken \/ UNCHANGED prefsVars \/ (\E i \in Instances : InstanceStarts(i))
        => UNCHANGED <<updates, passwd, chosen, unopened>> /\ View' = View
  <2>1. Taken => View' = View
    BY TakenEffect
  <2>2. UNCHANGED <<db, mine>> => View' = View
    BY DEF View, ReadOver
  <2> QED BY <2>1, <2>2 DEF Closed, Taken, prefsVars, InstanceStarts
<1> QED BY <1>1, <1>2, <1>3, <1>4, <1>5, <1>6, <1>7
        DEF Next, PrefsNext, UserActs, InstanceActs, DaemonLeaves, vars

LEMMA ChoiceInvariant == Spec => []ChoiceInv
BY TypeInvariant, ChoiceInvInit, ChoiceInvStep, PTL DEF Spec, Init

\* What the user chose stays in force until the user chooses again, and so
\* does the password, unless its file could not be opened: no opening of the window, no nested refresh, no delay of
\* dconf-service and no write of another program to other keys undoes it.
THEOREM ChoiceIsKept == Spec => []UserChoiceKept
<1>1. ChoiceInv => UserChoiceKept
  BY DEF ChoiceInv, Kept, IsAsk, UserChoiceKept
<1> QED BY <1>1, ChoiceInvariant, PTL

-----------------------------------------------------------------------------
(* What the window shows *)

\* A refresh that has read a value agrees with the setting as it now is: it
\* sets the control to what the setting means.  With "ask" it sets none, and
\* writes "bonded".
Agrees(k, value, setting) ==
  \/ Meaning(k, value) = Meaning(k, setting)
  \/ IsAsk(k, value) /\ Meaning(k, setting) = ACCEPT_BONDED

\* The control shows the setting.
Shown(k) ==
  /\ Meaning(k, StringOf(k, widgets[k])) = Meaning(k, View[k])
  /\ \/ widgets[k] \in States(k)
     \/ k = "accept" /\ widgets[k] = NoRow /\ (chosen[k] = "ask" \/ k \in ForeignKeys)

EntryShown ==
  sensitive["entry"] =
    (View["enabled"] /\ Meaning("require_password", View["require_password"]) # "never")

\* While every change by others has been dealt with, a control that does not
\* show its setting has a refresh that is yet to come to it, and so have the
\* groups of controls.
AllAgree ==
  \A i \in 1 .. Len(updates) : \A k \in PrefsKeys : Agrees(k, updates[i].values[k], View[k])
AllShown ==
  \A p \in 1 .. 8 : Shown(Order[p]) \/ \E i \in 1 .. Len(updates) : updates[i].at <= p
GroupsShown ==
  \A p \in 1 .. 8 : Order[p] \in Switches =>
    \/ sensitive[Order[p]] = View[Order[p]]
    \/ \E i \in 1 .. Len(updates) : updates[i].at - 1 <= p

ShownInv ==
  /\ ~window => updates = <<>> /\ notes = 0
  /\ window /\ notes = 0 =>
       /\ AllAgree /\ AllShown /\ GroupsShown
       /\ EntryShown \/ \E i \in 1 .. Len(updates) : updates[i].at - 1 <= 1

\* After one refresh has written, every refresh agrees with what it wrote.
LEMMA AgreesAfter ==
  ASSUME NEW k \in PrefsKeys, NEW v \in PrefsValues(k), NEW u \in PrefsValues(k),
         NEW setting \in PrefsValues(k), Agrees(k, v, setting), Agrees(k, u, setting)
  PROVE  Agrees(k, v, Canon(k, u))
<1>1. CASE ~IsAsk(k, u)
  <2>1. Meaning(k, Canon(k, u)) = Meaning(k, setting)
    BY <1>1, CanonOf DEF Agrees
  <2> QED BY <2>1 DEF Agrees
<1>2. CASE IsAsk(k, u)
  <2>1. Meaning(k, Canon(k, u)) = ACCEPT_BONDED
    BY <1>2, CanonOf
  <2>2. CASE Meaning(k, setting) = ACCEPT_BONDED
    BY <2>1, <2>2 DEF Agrees
  <2>3. CASE Meaning(k, u) = Meaning(k, setting) /\ Meaning(k, setting) # ACCEPT_BONDED
    BY <1>2, <2>1, <2>3, AskAlone DEF Agrees
  <2> QED BY <1>2, <2>2, <2>3 DEF Agrees
<1> QED BY <1>1, <1>2

\* A control that stays silent shows the setting.
LEMMA SilentShown ==
  ASSUME TypeInv, NEW k \in PrefsKeys, NEW value \in PrefsValues(k),
         Agrees(k, value, View[k]), ~Emits(k, value)
  PROVE  Shown(k)
<1>1. widgets[k] = Target(k, value) /\ ~(k \in Combos /\ Target(k, value) = NoRow)
  BY DEF Emits
<1>2. ~IsAsk(k, value) /\ Target(k, value) \in States(k)
  BY <1>1, TargetOf DEF IsAsk, Combos
<1>3. Meaning(k, StringOf(k, widgets[k])) = Meaning(k, value)
  BY <1>1, <1>2, CanonOf DEF Canon
<1> QED BY <1>1, <1>2, <1>3 DEF Shown, Agrees

\* What a refresh has read of a switch that is not a string is the setting.
LEMMA AgreesOnFlags ==
  ASSUME NEW k \in PrefsKeys, k \notin Combos, NEW value, NEW setting, Agrees(k, value, setting)
  PROVE  value = setting
BY DEF Agrees, Meaning, SettingOf, Combos, IsAsk

LEMMA EntryMeaning ==
  ASSUME NEW v \in PasswordValues
  PROVE  password_setting_from_string(v) # 0 <=> Meaning("require_password", v) # "never"
BY DEF PasswordValues, password_setting_from_string, PASSWORD_ALWAYS, Meaning, HttpdMode

LEMMA SwitchKeys ==
  /\ \A g \in Switches : g \in PrefsKeys /\ g \notin Combos
  /\ "enabled" \in Switches /\ "require_password" \in PrefsKeys
  /\ PrefsValues("require_password") = PasswordValues
BY DEF Switches, PrefsKeys, Combos, PrefsValues

\* What Passed makes of the groups, while the refresh agrees with the settings.
LEMMA PassedShown ==
  ASSUME TypeInv, AllAgree, updates # <<>>, NEW p \in 1 .. 9, Passed(Top, p)
  PROVE  /\ \A q \in 1 .. 8 : Order[q] \in Switches =>
              sensitive'[Order[q]] = IF Top.at - 1 <= q /\ q < p
                                       THEN View[Order[q]] ELSE sensitive[Order[q]]
         /\ sensitive'["entry"] =
              IF Top.at - 1 <= 1 /\ 1 < p
                THEN View["enabled"] /\ Meaning("require_password", View["require_password"]) # "never"
                ELSE sensitive["entry"]
<1>1. \A k \in PrefsKeys : Agrees(k, Top.values[k], View[k]) /\ Top.values[k] \in PrefsValues(k)
  BY TopOf DEF AllAgree, Settings
<1>2. \A g \in Switches : Top.values[g] = View[g]
  BY <1>1, SwitchKeys, AgreesOnFlags
<1>3. password_setting_from_string(Top.values["require_password"]) # 0
        <=> Meaning("require_password", View["require_password"]) # "never"
  <2>1. Meaning("require_password", Top.values["require_password"])
          = Meaning("require_password", View["require_password"])
    BY <1>1, SwitchKeys DEF Agrees, IsAsk
  <2> QED BY <1>1, <2>1, SwitchKeys, EntryMeaning
<1>4. /\ \A q \in 1 .. 8 : Order[q] \in Switches =>
           sensitive'[Order[q]] = IF Top.at - 1 <= q /\ q < p
                                    THEN Top.values[Order[q]] ELSE sensitive[Order[q]]
      /\ sensitive'["entry"] =
           IF Top.at - 1 <= 1 /\ 1 < p
             THEN Top.values["enabled"]
                  /\ password_setting_from_string(Top.values["require_password"]) # 0
             ELSE sensitive["entry"]
  BY PassedEffect
<1>5. sensitive'["entry"] =
        IF Top.at - 1 <= 1 /\ 1 < p
          THEN View["enabled"] /\ Meaning("require_password", View["require_password"]) # "never"
          ELSE sensitive["entry"]
  BY <1>2, <1>3, <1>4, SwitchKeys, Zenon
<1>6. ASSUME NEW q \in 1 .. 8, Order[q] \in Switches
      PROVE  sensitive'[Order[q]] = IF Top.at - 1 <= q /\ q < p
                                      THEN View[Order[q]] ELSE sensitive[Order[q]]
  BY <1>2, <1>4, <1>6
<1> QED BY <1>5, <1>6

LEMMA ReturnsShown ==
  ASSUME TypeInv, updates # <<>>, Returns, chosen' = chosen,
         AllAgree, AllShown, GroupsShown,
         EntryShown \/ \E i \in 1 .. Len(updates) : updates[i].at - 1 <= 1
  PROVE  /\ AllAgree' /\ AllShown' /\ GroupsShown'
         /\ EntryShown' \/ \E i \in 1 .. Len(updates') : updates'[i].at - 1 <= 1
<1>1. /\ Len(updates) \in Nat \ {0} /\ Top = updates[Len(updates)]
      /\ Top.values \in Settings /\ Top.at \in 1 .. 9
  BY TopOf
<1>2. /\ widgets' = widgets /\ View' = View
      /\ Len(updates') = Len(updates) - 1
      /\ \A i \in 1 .. Len(updates) - 1 : updates'[i] = updates[i]
      /\ Silent(9) /\ Passed(Top, 9)
  BY DEF Returns, OuterKept
<1>3. /\ \A q \in 1 .. 8 : Order[q] \in Switches =>
           sensitive'[Order[q]] = IF Top.at - 1 <= q /\ q < 9
                                    THEN View[Order[q]] ELSE sensitive[Order[q]]
      /\ sensitive'["entry"] =
           IF Top.at - 1 <= 1 /\ 1 < 9
             THEN View["enabled"] /\ Meaning("require_password", View["require_password"]) # "never"
             ELSE sensitive["entry"]
  BY <1>2, PassedShown
<1>4. AllAgree'
  BY <1>1, <1>2 DEF AllAgree
<1>5. ASSUME NEW p \in 1 .. 8
      PROVE  Shown(Order[p])' \/ \E i \in 1 .. Len(updates') : updates'[i].at <= p
  <2>1. CASE Shown(Order[p])
    BY <1>2, <2>1 DEF Shown
  <2>2. CASE Top.at <= p
    <3>1. Order[p] \in PrefsKeys
      BY OrderOf
    <3>2. ~Emits(Order[p], Top.values[Order[p]])
      BY <1>1, <1>2, <2>2 DEF Silent
    <3>3. Top.values[Order[p]] \in PrefsValues(Order[p])
          /\ Agrees(Order[p], Top.values[Order[p]], View[Order[p]])
      BY <1>1, <3>1 DEF AllAgree, Settings
    <3>4. Shown(Order[p])
      BY <3>1, <3>2, <3>3, SilentShown
    <3> QED BY <1>2, <3>4 DEF Shown
  <2>3. ASSUME NEW i \in 1 .. Len(updates) - 1, updates[i].at <= p
        PROVE  \E j \in 1 .. Len(updates') : updates'[j].at <= p
    BY <1>2, <2>3
  <2>4. \/ Shown(Order[p])
        \/ \E i \in 1 .. Len(updates) : updates[i].at <= p
    BY DEF AllShown
  <2> QED BY <1>1, <2>1, <2>2, <2>3, <2>4
<1>6. ASSUME NEW p \in 1 .. 8, Order[p] \in Switches
      PROVE  \/ sensitive'[Order[p]] = View'[Order[p]]
             \/ \E i \in 1 .. Len(updates') : updates'[i].at - 1 <= p
  <2>1. CASE Top.at - 1 <= p
    BY <1>2, <1>3, <1>6, <2>1
  <2>2. CASE ~(Top.at - 1 <= p)
    <3>1. sensitive'[Order[p]] = sensitive[Order[p]]
      BY <1>3, <1>6, <2>2
    <3>2. CASE sensitive[Order[p]] = View[Order[p]]
      BY <1>2, <3>1, <3>2
    <3>3. ASSUME NEW i \in 1 .. Len(updates), updates[i].at - 1 <= p
          PROVE  \E j \in 1 .. Len(updates') : updates'[j].at - 1 <= p
      BY <1>1, <1>2, <2>2, <3>3
    <3> QED BY <1>6, <3>2, <3>3 DEF GroupsShown
  <2> QED BY <2>1, <2>2
<1>7. EntryShown' \/ \E i \in 1 .. Len(updates') : updates'[i].at - 1 <= 1
  <2>1. CASE Top.at - 1 <= 1
    BY <1>2, <1>3, <2>1 DEF EntryShown
  <2>2. CASE ~(Top.at - 1 <= 1)
    <3>1. sensitive'["entry"] = sensitive["entry"]
      BY <1>3, <2>2
    <3>2. CASE EntryShown
      BY <1>2, <3>1, <3>2 DEF EntryShown
    <3>3. ASSUME NEW i \in 1 .. Len(updates), updates[i].at - 1 <= 1
          PROVE  \E j \in 1 .. Len(updates') : updates'[j].at - 1 <= 1
      BY <1>1, <1>2, <2>2, <3>3
    <3> QED BY <3>2, <3>3
  <2> QED BY <2>1, <2>2
<1> QED BY <1>4, <1>5, <1>6, <1>7 DEF AllShown, GroupsShown

\* A control that a refresh sets while its write is dropped shows the setting.
LEMMA DroppedShown ==
  ASSUME TypeInv, ChoiceInv, NEW k \in PrefsKeys, NEW i \in 1 .. Len(updates),
         Drops(k, Target(k, updates[i].values[k])),
         widgets' = [widgets EXCEPT ![k] = Target(k, updates[i].values[k])],
         View' = View, chosen' = chosen
  PROVE  Shown(k)'
<1> DEFINE value == updates[i].values[k]
           w == Target(k, value)
<1>1. value \in PrefsValues(k) /\ chosen[k] \in PrefsValues(k)
  BY ValuesTyped DEF TypeInv
<1>2. StringOf(k, w) = View[k] /\ widgets'[k] = w
  BY DEF Drops, TypeInv
<1>3. CASE ~IsAsk(k, value)
  BY <1>1, <1>2, <1>3, TargetOf DEF Shown
<1>4. CASE IsAsk(k, value)
  <2>1. k = "accept" /\ w = NoRow
    BY <1>1, <1>4, TargetOf DEF IsAsk
  <2>2. k \in ForeignKeys \/ IsAsk(k, chosen[k])
    BY <1>1, <1>4, AskAlone DEF ChoiceInv, Kept
  <2> QED BY <1>2, <2>1, <2>2 DEF Shown, IsAsk
<1> QED BY <1>3, <1>4

LEMMA SetsShown ==
  ASSUME TypeInv, ChoiceInv, updates # <<>>, NEW q \in 1 .. 8, Sets(q), chosen' = chosen,
         AllAgree, AllShown, GroupsShown,
         EntryShown \/ \E i \in 1 .. Len(updates) : updates[i].at - 1 <= 1
  PROVE  /\ AllAgree' /\ AllShown' /\ GroupsShown'
         /\ EntryShown' \/ \E i \in 1 .. Len(updates') : updates'[i].at - 1 <= 1
<1> DEFINE n == Len(updates)
           key == Order[q]
           value == Top.values[key]
           w == Target(key, value)
<1>1. /\ n \in Nat \ {0} /\ Top = updates[n]
      /\ Top.values \in Settings /\ Top.at \in 1 .. 9
  BY TopOf
<1>2. /\ key \in PrefsKeys /\ value \in PrefsValues(key)
      /\ Agrees(key, value, View[key])
  BY <1>1, OrderOf DEF AllAgree, Settings
<1>3. /\ q >= Top.at /\ Silent(q) /\ Passed(Top, q)
      /\ widgets' = [widgets EXCEPT ![key] = w]
      /\ View'[key] = Canon(key, value)
      /\ \A x \in PrefsKeys : x # key => View'[x] = View[x]
      /\ \A i \in 1 .. n - 1 : updates'[i] = updates[i]
      /\ updates'[n] = [values |-> Top.values, at |-> q + 1, seen |-> Top.seen]
      /\ \/ Drops(key, w) /\ View' = View /\ Len(updates') = n
         \/ /\ Len(updates') = n + 1
            /\ updates'[n + 1] = Fresh'
  BY DEF Sets, OuterKept
<1>4. /\ \A p \in 1 .. 8 : Order[p] \in Switches =>
           sensitive'[Order[p]] = IF Top.at - 1 <= p /\ p < q
                                    THEN View[Order[p]] ELSE sensitive[Order[p]]
      /\ sensitive'["entry"] =
           IF Top.at - 1 <= 1 /\ 1 < q
             THEN View["enabled"] /\ Meaning("require_password", View["require_password"]) # "never"
             ELSE sensitive["entry"]
  BY <1>3, PassedShown
<1> HIDE DEF n, key, value, w
<1>5. AllAgree'
  <2>1. ASSUME NEW i \in 1 .. n, NEW k \in PrefsKeys
        PROVE  Agrees(k, updates[i].values[k], View'[k])
    <3>1. updates[i].values[k] \in PrefsValues(k) /\ Agrees(k, updates[i].values[k], View[k])
      BY ValuesTyped DEF AllAgree, n
    <3>2. CASE k # key
      BY <1>3, <3>1, <3>2
    <3>3. CASE k = key
      <4>1. View[k] \in PrefsValues(k)
        BY ViewTyped DEF Settings
      <4> QED BY <1>2, <1>3, <3>1, <3>3, <4>1, AgreesAfter
    <3> QED BY <3>2, <3>3
  <2>2. ASSUME NEW i \in 1 .. Len(updates'), NEW k \in PrefsKeys
        PROVE  Agrees(k, updates'[i].values[k], View'[k])
    <3>1. CASE i \in 1 .. n - 1
      BY <1>1, <1>3, <2>1, <3>1
    <3>2. CASE i = n
      BY <1>1, <1>3, <2>1, <3>2
    <3>3. CASE updates'[i] = Fresh'
      BY <3>3 DEF Fresh, Agrees
    <3> QED BY <1>1, <1>3, <3>1, <3>2, <3>3
  <2> QED BY <2>2 DEF AllAgree
<1>6. CASE Len(updates') = n + 1 /\ updates'[n + 1] = Fresh'
  <2>1. n + 1 \in 1 .. Len(updates') /\ updates'[n + 1].at = 1
    BY <1>1, <1>6 DEF Fresh
  <2>2. ASSUME NEW p \in 1 .. 8
        PROVE  \E i \in 1 .. Len(updates') : updates'[i].at <= p /\ updates'[i].at - 1 <= p
    BY <2>1
  <2>3. AllShown' /\ GroupsShown'
    BY <2>2 DEF AllShown, GroupsShown
  <2>4. \E i \in 1 .. Len(updates') : updates'[i].at - 1 <= 1
    BY <2>1
  <2> QED BY <1>5, <2>3, <2>4
<1>7. CASE Drops(key, w) /\ View' = View /\ Len(updates') = n
  <2>1. ASSUME NEW p \in 1 .. 8
        PROVE  Shown(Order[p])' \/ \E i \in 1 .. Len(updates') : updates'[i].at <= p
    <3>1. Order[p] \in PrefsKeys
      BY OrderOf
    <3>2. CASE p = q
      <4>1. Order[p] = key
        BY <3>2 DEF key
      <4>2. n \in 1 .. Len(updates) /\ w = Target(key, updates[n].values[key])
        BY <1>1 DEF n, w, value
      <4>3. Shown(key)'
        BY <1>2, <1>3, <1>7, <4>2, DroppedShown
      <4> QED BY <4>1, <4>3
    <3>3. CASE p # q
      <4>1. Order[p] # key
        BY <3>3, OrderOf DEF key
      <4>2. Shown(Order[p]) => Shown(Order[p])'
        BY <1>2, <1>3, <1>7, <3>1, <4>1 DEF Shown, TypeInv
      <4>3. CASE Shown(Order[p])
        BY <4>2, <4>3
      <4>4. CASE Top.at <= p /\ p < q
        <5>1. ~Emits(Order[p], Top.values[Order[p]])
          BY <1>1, <1>3, <4>4 DEF Silent
        <5>2. Top.values[Order[p]] \in PrefsValues(Order[p])
              /\ Agrees(Order[p], Top.values[Order[p]], View[Order[p]])
          BY <1>1, <3>1 DEF AllAgree, Settings, n
        <5> QED BY <3>1, <4>2, <5>1, <5>2, SilentShown
      <4>5. CASE p > q
        BY <1>1, <1>3, <1>7, <4>5
      <4>6. ASSUME NEW i \in 1 .. n - 1, updates[i].at <= p
            PROVE  \E j \in 1 .. Len(updates') : updates'[j].at <= p
        BY <1>1, <1>3, <1>7, <4>6
      <4>7. Shown(Order[p]) \/ \E i \in 1 .. n : updates[i].at <= p
        BY DEF AllShown, n
      <4> QED BY <1>1, <3>3, <4>3, <4>4, <4>5, <4>6, <4>7
    <3> QED BY <3>2, <3>3
  <2>2. ASSUME NEW p \in 1 .. 8, NEW i \in 1 .. n, updates[i].at - 1 <= p,
               ~(Top.at - 1 <= p /\ p < q)
        PROVE  \E j \in 1 .. Len(updates') : updates'[j].at - 1 <= p
    BY <1>1, <1>3, <1>7, <2>2
  <2>3. ASSUME NEW p \in 1 .. 8, Order[p] \in Switches
        PROVE  \/ sensitive'[Order[p]] = View'[Order[p]]
               \/ \E i \in 1 .. Len(updates') : updates'[i].at - 1 <= p
    <3>1. \/ sensitive[Order[p]] = View[Order[p]]
          \/ \E i \in 1 .. n : updates[i].at - 1 <= p
      BY <2>3 DEF GroupsShown, n
    <3> QED BY <1>4, <1>7, <2>2, <2>3, <3>1
  <2>4. EntryShown' \/ \E i \in 1 .. Len(updates') : updates'[i].at - 1 <= 1
    <3>1. CASE Top.at - 1 <= 1 /\ 1 < q
      BY <1>4, <1>7, <3>1 DEF EntryShown
    <3>2. CASE ~(Top.at - 1 <= 1 /\ 1 < q)
      <4>1. EntryShown => EntryShown'
        BY <1>4, <1>7, <3>2 DEF EntryShown
      <4>2. EntryShown \/ \E i \in 1 .. n : updates[i].at - 1 <= 1
        BY DEF n
      <4> QED BY <2>2, <3>2, <4>1, <4>2
    <3> QED BY <3>1, <3>2
  <2> QED BY <1>5, <2>1, <2>3, <2>4 DEF AllShown, GroupsShown
<1> QED BY <1>3, <1>6, <1>7

\* A refresh that has just begun will come to every control.
LEMMA BeginsShown ==
  ASSUME Begins
  PROVE  /\ AllAgree' /\ AllShown' /\ GroupsShown'
         /\ \E i \in 1 .. Len(updates') : updates'[i].at - 1 <= 1
<1>1. 1 \in 1 .. Len(updates') /\ updates'[1].at = 1
  BY DEF Begins, Fresh
<1>2. ASSUME NEW p \in 1 .. 8
      PROVE  \E i \in 1 .. Len(updates') : updates'[i].at <= p /\ updates'[i].at - 1 <= p
  BY <1>1
<1>3. AllShown' /\ GroupsShown'
  BY <1>2 DEF AllShown, GroupsShown
<1>4. \E i \in 1 .. Len(updates') : updates'[i].at - 1 <= 1
  BY <1>1
<1>5. ASSUME NEW i \in 1 .. Len(updates')
      PROVE  updates'[i].values = View'
  BY DEF Begins, Fresh
<1> QED BY <1>3, <1>4, <1>5 DEF AllAgree, Agrees

LEMMA ShownInvStep ==
  ASSUME TypeInv, ChoiceInv, ShownInv, [Next]_vars
  PROVE  ShownInv'
<1> USE DEF windowVars
<1>1. CASE UpdateUi
  <2>1. UNCHANGED <<notes, window, chosen>> /\ updates # <<>> /\ window
    BY <1>1 DEF UpdateUi, ShownInv
  <2> SUFFICES ASSUME notes = 0
               PROVE  /\ AllAgree' /\ AllShown' /\ GroupsShown'
                      /\ EntryShown' \/ \E i \in 1 .. Len(updates') : updates'[i].at - 1 <= 1
    BY <2>1 DEF ShownInv
  <2>2. /\ AllAgree /\ AllShown /\ GroupsShown
        /\ EntryShown \/ \E i \in 1 .. Len(updates) : updates[i].at - 1 <= 1
    BY <2>1 DEF ShownInv
  <2> QED BY <1>1, <2>1, <2>2, ReturnsShown, SetsShown, UpdateUiEffect
<1>2. ASSUME NEW k \in UserKeys, NEW w \in States(k), UserChooses(k, w)
      PROVE  ShownInv'
  <2>1. /\ window /\ updates = <<>> /\ k \in PrefsKeys
        /\ widgets' = [widgets EXCEPT ![k] = w]
        /\ chosen' = [chosen EXCEPT ![k] = StringOf(k, w)]
        /\ \/ Drops(k, w) /\ View' = View /\ updates' = <<>>
           \/ Begins
    BY <1>2, ChoosesEffect
  <2>2. UNCHANGED <<notes, window, sensitive>>
    BY <1>2 DEF UserChooses
  <2>3. CASE Begins
    BY <2>1, <2>2, <2>3, BeginsShown DEF ShownInv
  <2>4. CASE Drops(k, w) /\ View' = View /\ updates' = <<>>
    <3> SUFFICES ASSUME notes = 0
                 PROVE  /\ AllAgree' /\ AllShown' /\ GroupsShown' /\ EntryShown'
      BY <2>1, <2>2 DEF ShownInv
    <3>1. Len(updates) = 0 /\ Len(updates') = 0
      BY <2>1, <2>4
    <3>2. /\ \A p \in 1 .. 8 : Shown(Order[p])
          /\ GroupsShown /\ EntryShown
      BY <2>1, <3>1 DEF ShownInv, AllShown
    <3>3. ASSUME NEW x \in PrefsKeys, Shown(x)
          PROVE  Shown(x)'
      <4>1. CASE x = k
        <5>1. widgets'[x] = w /\ StringOf(x, w) = View'[x]
          BY <2>1, <2>4, <4>1 DEF Drops, TypeInv
        <5> QED BY <4>1, <5>1 DEF Shown
      <4>2. CASE x # k
        BY <2>1, <2>4, <3>3, <4>2 DEF Shown, TypeInv
      <4> QED BY <4>1, <4>2
    <3>4. AllShown'
      BY <3>2, <3>3, OrderOf DEF AllShown
    <3>5. AllAgree'
      BY <3>1 DEF AllAgree
    <3>6. GroupsShown' /\ EntryShown'
      BY <2>2, <2>4, <3>1, <3>2 DEF GroupsShown, EntryShown
    <3> QED BY <3>4, <3>5, <3>6
  <2> QED BY <2>1, <2>3, <2>4
<1>3. CASE Opened \/ Changed
  <2>1. Begins
    BY <1>3, OpenedEffect
  <2>2. window' = TRUE
    BY <1>3 DEF Opened, Changed, Idle, TypeInv
  <2> QED BY <2>1, <2>2, BeginsShown DEF ShownInv
<1>4. CASE Closed
  BY <1>4 DEF Closed, Idle, ShownInv
<1>5. ASSUME NEW key \in ForeignKeys, NEW value \in PrefsValues(key), ForeignWrite(key, value)
      PROVE  ShownInv'
  <2>1. /\ UNCHANGED <<window, updates>>
        /\ notes' = IF window THEN notes + 1 ELSE notes
    BY <1>5, PreferencesAssumption DEF ForeignWrite, Connected
  <2>2. notes \in Nat
    BY LenProperties DEF TypeInv
  <2> QED BY <2>1, <2>2 DEF ShownInv
<1>6. CASE /\ UNCHANGED <<notes, window, widgets, sensitive, updates>> /\ View' = View
           /\ \A k \in PrefsKeys : chosen'[k] = chosen[k]
  <2>1. \A k \in PrefsKeys : Shown(k) => Shown(k)'
    BY <1>6 DEF Shown
  <2>2. AllShown => AllShown'
    BY <1>6, <2>1, OrderOf DEF AllShown
  <2>3. AllAgree => AllAgree'
    BY <1>6 DEF AllAgree
  <2>4. GroupsShown => GroupsShown'
    BY <1>6 DEF GroupsShown
  <2>5. EntryShown => EntryShown'
    BY <1>6 DEF EntryShown
  <2> QED BY <1>6, <2>2, <2>3, <2>4, <2>5 DEF ShownInv
<1>7. Taken \/ UNCHANGED prefsVars \/ (\E i \in Instances : InstanceStarts(i))
        \/ (\E text \in Texts : PasswordTyped(text))
        => /\ UNCHANGED <<notes, window, widgets, sensitive, updates>> /\ View' = View
           /\ \A k \in PrefsKeys : chosen'[k] = chosen[k]
  <2>1. Taken => View' = View
    BY TakenEffect
  <2>2. UNCHANGED <<db, mine>> => View' = View
    BY DEF View, ReadOver
  <2>3. ASSUME NEW text \in Texts, PasswordTyped(text), NEW k \in PrefsKeys
        PROVE  chosen'[k] = chosen[k]
    BY <2>3 DEF PasswordTyped, TypeInv, PrefsKeys, Switches, Combos
  <2>4. UNCHANGED chosen => \A k \in PrefsKeys : chosen'[k] = chosen[k]
    OBVIOUS
  <2> QED BY <2>1, <2>2, <2>3, <2>4 DEF Taken, prefsVars, InstanceStarts, PasswordTyped
<1> QED BY <1>1, <1>2, <1>3, <1>4, <1>5, <1>6, <1>7
        DEF Next, PrefsNext, UserActs, InstanceActs, DaemonLeaves, vars

LEMMA ShownInvariant == Spec => []ShownInv
<1>1. PrefsInit => ShownInv
  BY DEF PrefsInit, ShownInv
<1> QED BY <1>1, TypeInvariant, ChoiceInvariant, ShownInvStep, PTL DEF Spec, Init

\* At rest the window shows what is in force, whatever the settings at login,
\* whoever wrote and however the refreshes were nested.
THEOREM WindowShows == Spec => []ShownIsStored
<1>1. TypeInv /\ ShownInv => ShownIsStored
  <2> SUFFICES ASSUME TypeInv, ShownInv, Idle, notes = 0
               PROVE  /\ \A k \in PrefsKeys : Shown(k)
                      /\ \A g \in Switches : sensitive[g] = View[g]
                      /\ EntryShown
    BY DEF ShownIsStored, Shown, EntryShown
  <2>1. window /\ Len(updates) = 0
    BY DEF Idle
  <2>2. AllShown /\ GroupsShown /\ EntryShown
    BY <2>1 DEF ShownInv
  <2>3. \A p \in 1 .. 8 : /\ Shown(Order[p])
                          /\ Order[p] \in Switches => sensitive[Order[p]] = View[Order[p]]
    BY <2>1, <2>2 DEF AllShown, GroupsShown
  <2>4. ASSUME NEW k \in PrefsKeys
        PROVE  Shown(k) /\ (k \in Switches => sensitive[k] = View[k])
    <3>1. PICK p \in 1 .. 8 : Order[p] = k
      BY OrderOf
    <3> QED BY <2>3, <3>1
  <2> QED BY <2>2, <2>4, SwitchKeys
<1> QED BY <1>1, TypeInvariant, ShownInvariant, PTL

-----------------------------------------------------------------------------
(* How refreshes nest *)

\* The keys that other programs have written since a refresh began.
Since(update, log) == {log[j] : j \in update.seen + 1 .. Len(log)}

\* But for those, the settings are what a refresh has read, as they were or
\* as the window writes them; so is what the refreshes within it have read.
ReadInv ==
  \A i \in 1 .. Len(updates) :
    /\ updates[i].seen <= Len(foreign)
    /\ \A k \in PrefsKeys \ Since(updates[i], foreign) : View[k] \in Readings(k, updates[i].values[k])
    /\ \A j \in i + 1 .. Len(updates) :
         /\ updates[i].seen <= updates[j].seen
         /\ \A k \in PrefsKeys \ Since(updates[i], foreign) :
              updates[j].values[k] \in Readings(k, updates[i].values[k])

LEMMA SinceOf ==
  ASSUME TypeInv, NEW update \in Frames, update.seen <= Len(foreign)
  PROVE  /\ Since(update, foreign) \subseteq ForeignKeys /\ Since(update, foreign) \subseteq PrefsKeys
         /\ IsFiniteSet(Since(update, foreign))
         /\ Cardinality(Since(update, foreign)) <= Len(foreign) - update.seen
<1> DEFINE a == update.seen + 1
           b == Len(foreign)
           f == [j \in a .. b |-> foreign[j]]
<1>1. a \in Nat /\ b \in Nat /\ a >= 1 /\ a <= b + 1
  BY LenProperties DEF TypeInv, Frames
<1>2. \A j \in a .. b : foreign[j] \in ForeignKeys
  BY <1>1, ElementOfSeq DEF TypeInv
<1>3. Since(update, foreign) \subseteq ForeignKeys /\ Since(update, foreign) \subseteq PrefsKeys
  BY <1>2, PreferencesAssumption DEF Since
<1>4. f \in Surjection(a .. b, Since(update, foreign))
  BY DEF Surjection, Since
<1>5. IsFiniteSet(a .. b) /\ Cardinality(a .. b) = b - a + 1
  <2> HIDE DEF a, b
  <2>1. /\ IsFiniteSet(a .. b)
        /\ Cardinality(a .. b) = IF a > b THEN 0 ELSE b - a + 1
    BY <1>1, FS_Interval
  <2> QED BY <1>1, <2>1
<1> HIDE DEF f
<1>6. IsFiniteSet(Since(update, foreign)) /\ Cardinality(Since(update, foreign)) <= Cardinality(a .. b)
  BY <1>4, <1>5, FS_Surjection
<1> QED BY <1>1, <1>3, <1>5, <1>6 DEF Frames

LEMMA SinceOfWrite ==
  ASSUME TypeInv, NEW k \in ForeignKeys, NEW value \in PrefsValues(k), ForeignWrite(k, value),
         NEW update \in Frames, update.seen <= Len(foreign)
  PROVE  Since(update, foreign') = Since(update, foreign) \cup {k}
<1>1. /\ Len(foreign') = Len(foreign) + 1 /\ Len(foreign) \in Nat
      /\ \A i \in 1 .. Len(foreign) : foreign'[i] = foreign[i]
      /\ foreign'[Len(foreign) + 1] = k
  BY ForeignEffect
<1>2. update.seen \in Nat
  BY DEF Frames
<1>3. update.seen + 1 .. Len(foreign') = (update.seen + 1 .. Len(foreign)) \cup {Len(foreign) + 1}
  BY <1>1, <1>2
<1>4. \A j \in update.seen + 1 .. Len(foreign) : foreign'[j] = foreign[j]
  BY <1>1, <1>2
<1> QED BY <1>1, <1>3, <1>4 DEF Since

\* After UpdateUi the settings are still as the refreshes have read them.
LEMMA ReadAfterSets ==
  ASSUME TypeInv, ReadInv, updates # <<>>, NEW q \in 1 .. 8, Sets(q),
         NEW i \in 1 .. Len(updates), NEW k \in PrefsKeys \ Since(updates[i], foreign)
  PROVE  View'[k] \in Readings(k, updates[i].values[k])
<1>1. /\ Len(updates) \in Nat \ {0} /\ Top = updates[Len(updates)]
      /\ Top.values[k] \in PrefsValues(k)
  BY TopOf DEF Settings
<1>2. /\ View'[Order[q]] = Canon(Order[q], Top.values[Order[q]])
      /\ \A x \in PrefsKeys : x # Order[q] => View'[x] = View[x]
  BY DEF Sets
<1>3. CASE k # Order[q]
  BY <1>2, <1>3 DEF ReadInv
<1>4. CASE k = Order[q]
  <2>1. Top.values[k] \in Readings(k, updates[i].values[k])
    BY <1>1 DEF ReadInv, Readings
  <2>2. updates[i].values[k] \in PrefsValues(k)
    BY ValuesTyped
  <2>3. Canon(k, Top.values[k]) = Canon(k, updates[i].values[k])
    BY <2>1, <2>2, CanonOf DEF Readings
  <2> QED BY <1>2, <1>4, <2>3 DEF Readings
<1> QED BY <1>3, <1>4

LEMMA ReadOfFresh ==
  ASSUME TypeInv, foreign' = foreign
  PROVE  Fresh'.seen = Len(foreign) /\ Fresh'.values = View' /\ Len(foreign) \in Nat
BY LenProperties DEF Fresh, TypeInv

LEMMA ReadInvStep ==
  ASSUME TypeInv, ReadInv, [Next]_vars
  PROVE  ReadInv'
<1> USE DEF windowVars
<1>1. CASE UpdateUi
  <2>1. foreign' = foreign /\ updates # <<>>
    BY <1>1, UpdateUiEffect DEF UpdateUi
  <2>2. \A i \in 1 .. Len(updates) : \A k \in PrefsKeys \ Since(updates[i], foreign) :
          View'[k] \in Readings(k, updates[i].values[k])
    BY <1>1, <2>1, UpdateUiEffect, ReadAfterSets DEF Returns, ReadInv
  <2>3. ASSUME NEW i \in 1 .. Len(updates')
        PROVE  \/ /\ i \in 1 .. Len(updates)
                  /\ updates'[i].values = updates[i].values /\ updates'[i].seen = updates[i].seen
                  /\ Since(updates'[i], foreign') = Since(updates[i], foreign)
               \/ /\ i = Len(updates) + 1 /\ updates'[i].values = View'
                  /\ updates'[i].seen = Len(foreign)
    <3>1. CASE /\ i \in 1 .. Len(updates)
               /\ updates'[i].values = updates[i].values /\ updates'[i].seen = updates[i].seen
      BY <2>1, <3>1 DEF Since
    <3>2. CASE i = Len(updates) + 1 /\ updates'[i] = Fresh'
      BY <2>1, <3>2, ReadOfFresh
    <3> QED BY <1>1, <3>1, <3>2, RefreshesAfter
  <2>4. Len(updates) \in Nat /\ Len(updates') \in Nat /\ Len(foreign) \in Nat
    BY <2>1, <1>1, UpdateUiEffect, LenProperties DEF TypeInv
  <2>5. ASSUME NEW i \in 1 .. Len(updates')
        PROVE  /\ updates'[i].seen <= Len(foreign)
               /\ \A k \in PrefsKeys \ Since(updates'[i], foreign') :
                    View'[k] \in Readings(k, updates'[i].values[k])
    <3>1. CASE updates'[i].values = View' /\ updates'[i].seen = Len(foreign)
      BY <2>4, <3>1 DEF Readings
    <3> QED BY <2>2, <2>3, <3>1 DEF ReadInv
  <2>6. ASSUME NEW i \in 1 .. Len(updates'), NEW j \in i + 1 .. Len(updates')
        PROVE  /\ updates'[i].seen <= updates'[j].seen
               /\ \A k \in PrefsKeys \ Since(updates'[i], foreign') :
                    updates'[j].values[k] \in Readings(k, updates'[i].values[k])
    <3>0. j \in 1 .. Len(updates') /\ i < j
      BY <2>4
    <3>1. i \in 1 .. Len(updates)
          /\ updates'[i].values = updates[i].values /\ updates'[i].seen = updates[i].seen
          /\ Since(updates'[i], foreign') = Since(updates[i], foreign)
      BY <2>3, <2>4, <3>0
    <3>2. CASE j \in 1 .. Len(updates)
      BY <2>3, <2>4, <3>0, <3>1, <3>2 DEF ReadInv
    <3>3. CASE updates'[j].values = View' /\ updates'[j].seen = Len(foreign)
      BY <2>2, <3>1, <3>3 DEF ReadInv
    <3> QED BY <2>3, <3>0, <3>2, <3>3
  <2> QED BY <2>1, <2>5, <2>6 DEF ReadInv
<1>2. CASE Begins
  <2>1. ASSUME NEW i \in 1 .. Len(updates')
        PROVE  updates'[i].values = View' /\ updates'[i].seen = Len(foreign')
    BY <1>2 DEF Begins, Fresh
  <2>2. \A i \in 1 .. Len(updates') : i + 1 .. Len(updates') = {}
    BY <1>2 DEF Begins
  <2>3. foreign' \in Seq(ForeignKeys)
    BY TypeInvStep DEF TypeInv
  <2>4. Len(foreign') \in Nat
    BY <2>3, LenProperties
  <2> QED BY <2>1, <2>2, <2>4 DEF ReadInv, Readings
<1>3. CASE updates' = <<>>
  BY <1>3 DEF ReadInv
<1>4. ASSUME NEW key \in ForeignKeys, NEW value \in PrefsValues(key), ForeignWrite(key, value)
      PROVE  ReadInv'
  <2>1. updates' = updates
    BY <1>4 DEF ForeignWrite
  <2>2. /\ \A x \in PrefsKeys : x # key => View'[x] = View[x]
        /\ Len(foreign') = Len(foreign) + 1 /\ Len(foreign) \in Nat
    BY <1>4, ForeignEffect
  <2>3. ASSUME NEW i \in 1 .. Len(updates)
        PROVE  /\ updates[i].seen <= Len(foreign) + 1
               /\ Since(updates[i], foreign') = Since(updates[i], foreign) \cup {key}
    <3>1. updates[i] \in Frames /\ updates[i].seen \in Nat
      BY FramesTyped
    <3>2. updates[i].seen <= Len(foreign)
      BY DEF ReadInv
    <3> QED BY <1>4, <2>2, <3>1, <3>2, SinceOfWrite
  <2>4. ASSUME NEW i \in 1 .. Len(updates)
        PROVE  /\ updates[i].seen <= Len(foreign')
               /\ \A k \in PrefsKeys \ Since(updates[i], foreign') :
                    View'[k] \in Readings(k, updates[i].values[k])
    BY <2>2, <2>3 DEF ReadInv
  <2>5. ASSUME NEW i \in 1 .. Len(updates), NEW j \in i + 1 .. Len(updates)
        PROVE  /\ updates[i].seen <= updates[j].seen
               /\ \A k \in PrefsKeys \ Since(updates[i], foreign') :
                    updates[j].values[k] \in Readings(k, updates[i].values[k])
    BY <2>3 DEF ReadInv
  <2> QED BY <2>1, <2>4, <2>5 DEF ReadInv
<1>5. CASE UNCHANGED <<updates, foreign>> /\ View' = View
  BY <1>5 DEF ReadInv, Since
<1>6. Taken \/ UNCHANGED prefsVars \/ (\E i \in Instances : InstanceStarts(i))
        \/ (\E text \in Texts : PasswordTyped(text)) \/ Closed
        => UNCHANGED <<updates, foreign>> /\ View' = View
  <2>1. Taken => View' = View
    BY TakenEffect
  <2>2. UNCHANGED <<db, mine>> => View' = View
    BY DEF View, ReadOver
  <2> QED BY <2>1, <2>2 DEF Taken, prefsVars, InstanceStarts, PasswordTyped, Closed
<1> QED BY <1>1, <1>2, <1>3, <1>4, <1>5, <1>6, ChoosesEffect, OpenedEffect
        DEF Next, PrefsNext, UserActs, InstanceActs, DaemonLeaves, vars

LEMMA ReadInvariant == Spec => []ReadInv
<1>1. PrefsInit => ReadInv
  BY DEF PrefsInit, ReadInv
<1> QED BY <1>1, TypeInvariant, ReadInvStep, PTL DEF Spec, Init

\* What may make a refresh write, as far as other programs have not written
\* since it began.  Where dconf drops a write without effect: the strings that
\* are not as the window writes them.  Otherwise: the controls that are not as
\* they should be, and for "ask", which is written twice, one name more.
Todo(update, controls, log) ==
  IF NoEffectDropped
    THEN {k \in Combos : Canon(k, update.values[k]) # update.values[k]}
    ELSE {k \in PrefsKeys \ Since(update, log) : controls[k] # Target(k, update.values[k])}
           \cup (IF "accept" \notin Since(update, log) /\ IsAsk("accept", update.values["accept"])
                   THEN {"accept", "ask"} ELSE {})

\* What the writes of other programs may add to it.
Extra(update, log) ==
  Since(update, log)
    \cup (IF ~NoEffectDropped /\ "accept" \in Since(update, log) THEN {"ask"} ELSE {})

Base == IF NoEffectDropped THEN 1 + Cardinality(Combos) ELSE 2 + Cardinality(PrefsKeys)

\* What the writes of other programs between two lengths of the log may add.
Worth(from, to) == IF NoEffectDropped THEN to - from ELSE 2 * (to - from)

\* Each refresh within another has less left to write, but for what other
\* programs have written since.
DepthInv ==
  \A i \in 1 .. Len(updates) :
    i + Cardinality(Todo(updates[i], widgets, foreign))
      <= Base + Worth(updates[1].seen, updates[i].seen)

LEMMA KeysFinite ==
  /\ IsFiniteSet(PrefsKeys) /\ IsFiniteSet(Combos) /\ IsFiniteSet(PrefsKeys \cup {"ask"})
  /\ Cardinality(PrefsKeys) \in Nat /\ Cardinality(Combos) \in Nat
  /\ Cardinality(PrefsKeys \cup {"ask"}) = Cardinality(PrefsKeys) + 1
<1>1. IsFiniteSet({}) /\ IsFiniteSet({"enabled"}) /\ IsFiniteSet({"enabled", "ftp"})
      /\ IsFiniteSet(Switches)
  <2>1. /\ {"enabled"} = {} \cup {"enabled"} /\ {"enabled", "ftp"} = {"enabled"} \cup {"ftp"}
        /\ Switches = {"enabled", "ftp"} \cup {"push"}
    BY DEF Switches
  <2>2. IsFiniteSet({}) /\ IsFiniteSet({"enabled"})
    BY <2>1, FS_EmptySet, FS_AddElement
  <2>3. IsFiniteSet({"enabled", "ftp"})
    BY <2>1, <2>2, FS_AddElement
  <2>4. IsFiniteSet(Switches)
    BY <2>1, <2>3, FS_AddElement
  <2> QED BY <2>2, <2>3, <2>4
<1>2. IsFiniteSet(Combos)
  <2>1. Combos = {"require_password"} \cup {"accept"} /\ {"require_password"} = {} \cup {"require_password"}
    BY DEF Combos
  <2> QED BY <1>1, <2>1, FS_AddElement
<1>3. IsFiniteSet(PrefsKeys)
  <2> DEFINE a == Switches \cup Combos
             b == a \cup {"allow_write"}
             c == b \cup {"require_pairing"}
  <2>1. PrefsKeys = c \cup {"notify"}
    BY DEF PrefsKeys
  <2>2. IsFiniteSet(a)
    BY <1>1, <1>2, FS_Union
  <2>3. IsFiniteSet(b)
    BY <2>2, FS_AddElement
  <2>4. IsFiniteSet(c)
    BY <2>3, FS_AddElement
  <2> HIDE DEF c
  <2> QED BY <2>1, <2>4, FS_AddElement
<1>4. "ask" \notin PrefsKeys
  BY DEF PrefsKeys, Switches, Combos
<1> QED BY <1>2, <1>3, <1>4, FS_CardinalityType, FS_AddElement

\* Whatever there is to write is less than the base.
LEMMA TodoBound ==
  ASSUME NEW update, NEW controls, NEW log
  PROVE  /\ IsFiniteSet(Todo(update, controls, log))
         /\ Cardinality(Todo(update, controls, log)) \in Nat
         /\ Cardinality(Todo(update, controls, log)) <= Base - 1
<1> DEFINE todo == Todo(update, controls, log)
<1>1. CASE NoEffectDropped
  <2>1. todo \in SUBSET Combos
    BY <1>1 DEF Todo
  <2> HIDE DEF todo
  <2>2. IsFiniteSet(todo) /\ Cardinality(todo) <= Cardinality(Combos) /\ Cardinality(todo) \in Nat
    BY <2>1, KeysFinite, FS_Subset, FS_CardinalityType
  <2> QED BY <1>1, <2>2, KeysFinite DEF Base, todo
<1>2. CASE ~NoEffectDropped
  <2>1. todo \in SUBSET (PrefsKeys \cup {"ask"})
    BY <1>2 DEF Todo, PrefsKeys, Combos
  <2> HIDE DEF todo
  <2>2. IsFiniteSet(todo) /\ Cardinality(todo) <= Cardinality(PrefsKeys) + 1 /\ Cardinality(todo) \in Nat
    BY <2>1, KeysFinite, FS_Subset, FS_CardinalityType
  <2> QED BY <1>2, <2>2, KeysFinite DEF Base, todo
<1> QED BY <1>1, <1>2, PreferencesAssumption

LEMMA ExtraBound ==
  ASSUME TypeInv, NEW update \in Frames, update.seen <= Len(foreign)
  PROVE  /\ IsFiniteSet(Extra(update, foreign)) /\ Cardinality(Extra(update, foreign)) \in Nat
         /\ Cardinality(Extra(update, foreign)) <= Worth(update.seen, Len(foreign))
<1> DEFINE since == Since(update, foreign)
           n == Len(foreign) - update.seen
<1>1. IsFiniteSet(since) /\ Cardinality(since) <= n
  BY SinceOf
<1>2. Cardinality(since) \in Nat
  BY <1>1, FS_CardinalityType
<1>3. n \in Nat
  BY LenProperties DEF TypeInv, Frames
<1> HIDE DEF since, n
<1>4. CASE NoEffectDropped \/ "accept" \notin since
  <2>1. Extra(update, foreign) = since
    BY <1>4 DEF Extra, since
  <2> QED BY <1>1, <1>2, <1>3, <2>1 DEF Worth, n
<1>5. CASE ~NoEffectDropped /\ "accept" \in since
  <2>1. Extra(update, foreign) = since \cup {"ask"}
    BY <1>5 DEF Extra, since
  <2>2. /\ IsFiniteSet(since \cup {"ask"}) /\ Cardinality(since \cup {"ask"}) <= Cardinality(since) + 1
        /\ Cardinality(since \cup {"ask"}) \in Nat
    <3>1. /\ IsFiniteSet(since \cup {"ask"})
          /\ Cardinality(since \cup {"ask"}) =
               IF "ask" \in since THEN Cardinality(since) ELSE Cardinality(since) + 1
      BY <1>1, FS_AddElement
    <3> QED BY <1>2, <3>1
  <2>3. Cardinality(since) # 0
    BY <1>1, <1>5, FS_EmptySet
  <2> QED BY <1>1, <1>2, <1>3, <1>5, <2>1, <2>2, <2>3 DEF Worth, n
<1> QED BY <1>4, <1>5

\* A control that is set leaves no refresh with more to write.
LEMMA TodoKept ==
  ASSUME TypeInv, ReadInv, updates # <<>>, NEW q \in 1 .. 8, Sets(q),
         NEW i \in 1 .. Len(updates), updates'[i].values = updates[i].values,
         updates'[i].seen = updates[i].seen, foreign' = foreign
  PROVE  Todo(updates'[i], widgets', foreign') \subseteq Todo(updates[i], widgets, foreign)
<1> DEFINE key == Order[q]
           since == Since(updates[i], foreign)
<1>1. Since(updates'[i], foreign') = since
  BY DEF Since
<1>2. CASE NoEffectDropped
  BY <1>2 DEF Todo
<1>3. CASE ~NoEffectDropped
  <2>1. key \in PrefsKeys /\ widgets' = [widgets EXCEPT ![key] = Target(key, Top.values[key])]
    BY OrderOf DEF Sets
  <2>2. /\ Len(updates) \in Nat \ {0} /\ Top = updates[Len(updates)]
        /\ Top.values[key] \in PrefsValues(key) /\ updates[i].values[key] \in PrefsValues(key)
    BY <2>1, TopOf, ValuesTyped DEF Settings
  <2> HIDE DEF key
  <2>3. ASSUME NEW k \in PrefsKeys \ since, widgets'[k] # Target(k, updates[i].values[k])
        PROVE  k \in Todo(updates[i], widgets, foreign)
    <3>1. CASE k # key
      <4>1. widgets[k] # Target(k, updates[i].values[k])
        BY <2>1, <2>3, <3>1 DEF TypeInv
      <4> QED BY <1>3, <4>1 DEF Todo
    <3>2. CASE k = key
      <4>1. Target(key, Top.values[key]) # Target(key, updates[i].values[key])
        BY <2>1, <2>3, <3>2 DEF TypeInv
      <4>2. Top.values[key] \in Readings(key, updates[i].values[key])
        BY <2>1, <2>2, <3>2 DEF ReadInv, Readings
      <4>3. IsAsk(key, updates[i].values[key])
        BY <2>1, <2>2, <4>1, <4>2, CanonOf DEF Readings
      <4> QED BY <1>3, <3>2, <4>3 DEF Todo, IsAsk
    <3> QED BY <3>1, <3>2
  <2> QED BY <1>1, <1>3, <2>3 DEF Todo
<1> QED BY <1>2, <1>3, PreferencesAssumption

\* A refresh that a write begins has less to write than the one that wrote.
LEMMA TodoOfNew ==
  ASSUME TypeInv, ReadInv, updates # <<>>, NEW q \in 1 .. 8, Sets(q), foreign' = foreign,
         ~Drops(Order[q], Target(Order[q], Top.values[Order[q]]))
  PROVE  \E x \in Todo(Top, widgets, foreign) \cup Extra(Top, foreign) :
           Todo(Fresh', widgets', foreign')
             \subseteq (Todo(Top, widgets, foreign) \cup Extra(Top, foreign)) \ {x}
<1> DEFINE key == Order[q]
           value == Top.values[key]
           since == Since(Top, foreign)
           old == Todo(Top, widgets, foreign) \cup Extra(Top, foreign)
           new == Todo(Fresh', widgets', foreign')
<1>1. /\ key \in PrefsKeys
      /\ widgets' = [widgets EXCEPT ![key] = Target(key, value)]
      /\ View'[key] = Canon(key, value)
      /\ \A x \in PrefsKeys : x # key => View'[x] = View[x]
      /\ Emits(key, value)
  BY OrderOf DEF Sets
<1>2. /\ \A k \in PrefsKeys : Top.values[k] \in PrefsValues(k)
      /\ \A k \in PrefsKeys \ since : View[k] \in Readings(k, Top.values[k])
  BY TopOf DEF Settings, ReadInv
<1>3. Fresh'.values = View' /\ Since(Fresh', foreign') = {}
  <2>1. Fresh'.seen = Len(foreign) /\ Fresh'.values = View' /\ Len(foreign) \in Nat
    BY ReadOfFresh
  <2>2. Fresh'.seen + 1 .. Len(foreign') = {}
    BY <2>1
  <2> QED BY <2>1, <2>2 DEF Since
<1>4. since \subseteq old
  BY DEF Extra
<1>5. ~(NoEffectDropped /\ Canon(key, value) = View[key])
  BY DEF Drops, Canon
<1>6. "ask" \notin PrefsKeys /\ "accept" \in PrefsKeys /\ Combos \subseteq PrefsKeys
  BY DEF PrefsKeys, Switches, Combos
<1> HIDE DEF key, value, since
<1>7. CASE NoEffectDropped
  <2>1. key \in old
    <3>1. CASE key \in since
      BY <1>4, <3>1
    <3>2. CASE key \notin since
      <4>1. View[key] \in {value, Canon(key, value)}
        BY <1>1, <1>2, <3>2 DEF Readings, value
      <4>2. Canon(key, value) # value /\ key \in Combos
        BY <1>1, <1>2, <1>5, <1>7, <4>1, CanonOf DEF value
      <4> QED BY <1>7, <4>2 DEF Todo, value
    <3> QED BY <3>1, <3>2
  <2>2. ASSUME NEW k \in new
        PROVE  k \in old /\ k # key
    <3>1. k \in Combos /\ k \in PrefsKeys /\ Canon(k, View'[k]) # View'[k]
      BY <1>3, <1>6, <1>7, <2>2 DEF Todo
    <3>2. k # key
      BY <1>1, <1>2, <3>1, CanonOf DEF value
    <3>3. View'[k] = View[k]
      BY <1>1, <3>1, <3>2
    <3>4. CASE k \in since
      BY <1>4, <3>2, <3>4
    <3>5. CASE k \notin since
      <4>1. View[k] = Top.values[k]
        BY <1>2, <3>1, <3>3, <3>5, CanonOf DEF Readings
      <4> QED BY <1>7, <3>1, <3>2, <3>3, <4>1 DEF Todo
    <3> QED BY <3>4, <3>5
  <2> QED BY <2>1, <2>2
<1>8. CASE ~NoEffectDropped
  <2> DEFINE x == IF IsAsk(key, value) THEN "ask" ELSE key
  <2>1. IsAsk("accept", Top.values["accept"]) => {"accept", "ask"} \subseteq old
    <3>1. CASE "accept" \in since
      BY <1>4, <1>8, <3>1 DEF Extra, since
    <3>2. CASE "accept" \notin since
      BY <1>8, <3>2 DEF Todo, since
    <3> QED BY <3>1, <3>2
  <2>2. ASSUME NEW k \in PrefsKeys \ since, widgets[k] # Target(k, Top.values[k])
        PROVE  k \in old
    BY <1>8, <2>2 DEF Todo, since
  <2>3. IsAsk(key, value) => {"accept", "ask"} \subseteq old
    BY <2>1 DEF IsAsk, value
  <2> HIDE DEF old
  <2>4. x \in old
    <3>1. CASE IsAsk(key, value)
      BY <2>3, <3>1
    <3>2. CASE ~IsAsk(key, value)
      <4>1. widgets[key] # Target(key, value)
        BY <1>1, <1>2, <3>2, TargetOf DEF Emits, value
      <4> QED BY <1>1, <1>4, <2>2, <3>2, <4>1 DEF value
    <3> QED BY <3>1, <3>2
  <2>5. ASSUME NEW k \in PrefsKeys, widgets'[k] # Target(k, View'[k])
        PROVE  k \in old /\ k # x
    <3>1. CASE k = key
      <4>1. Target(key, value) # Target(key, Canon(key, value))
        BY <1>1, <2>5, <3>1 DEF TypeInv
      <4>2. IsAsk(key, value)
        BY <1>1, <1>2, <4>1, CanonOf DEF value
      <4> QED BY <1>6, <2>3, <3>1, <4>2 DEF IsAsk
    <3>2. CASE k # key
      <4>1. widgets[k] # Target(k, View[k]) /\ k # x
        BY <1>1, <1>6, <2>5, <3>2 DEF TypeInv
      <4>2. CASE k \in since
        BY <1>4, <4>1, <4>2
      <4>3. CASE k \notin since
        <5>1. widgets[k] # Target(k, Top.values[k]) \/ IsAsk(k, Top.values[k])
          BY <1>2, <4>1, <4>3, CanonOf DEF Readings
        <5> QED BY <2>1, <2>2, <4>1, <4>3, <5>1 DEF IsAsk
      <4> QED BY <4>2, <4>3
    <3> QED BY <3>1, <3>2
  <2>6. ASSUME IsAsk("accept", View'["accept"])
        PROVE  {"accept", "ask"} \subseteq old \ {x}
    <3>1. key # "accept"
      BY <1>1, <1>2, <2>6, CanonOf DEF value
    <3>2. View["accept"] = View'["accept"] /\ x = key
      BY <1>1, <1>6, <3>1 DEF IsAsk
    <3>3. CASE "accept" \in since
      <4>1. "ask" \in old /\ "accept" \in old
        BY <1>4, <1>8, <3>3 DEF Extra, since, old
      <4> QED BY <1>1, <1>6, <3>1, <3>2, <4>1
    <3>4. CASE "accept" \notin since
      <4>1. IsAsk("accept", Top.values["accept"])
        BY <1>2, <1>6, <2>6, <3>2, <3>4, CanonOf DEF Readings
      <4> QED BY <1>1, <1>6, <2>1, <3>1, <3>2, <4>1
    <3> QED BY <3>3, <3>4
  <2>7. new \subseteq old \ {x}
    BY <1>3, <1>8, <2>5, <2>6 DEF Todo
  <2> QED BY <2>4, <2>7 DEF old
<1> QED BY <1>7, <1>8, PreferencesAssumption

LEMMA TodoOfWrite ==
  ASSUME TypeInv, ReadInv, NEW k \in ForeignKeys, NEW value \in PrefsValues(k),
         ForeignWrite(k, value), NEW i \in 1 .. Len(updates)
  PROVE  Todo(updates[i], widgets, foreign') \subseteq Todo(updates[i], widgets, foreign)
<1>1. updates[i] \in Frames /\ updates[i].seen <= Len(foreign)
  BY ElementOfSeq DEF TypeInv, ReadInv
<1>2. Since(updates[i], foreign) \subseteq Since(updates[i], foreign')
  BY <1>1, SinceOfWrite
<1> QED BY <1>2 DEF Todo

LEMMA WorthTyped ==
  ASSUME NEW a \in Int, NEW b \in Int
  PROVE  Worth(a, b) \in Int /\ Worth(a, a) = 0
BY DEF Worth

LEMMA WorthAdds ==
  ASSUME NEW a \in Int, NEW b \in Int, NEW c \in Int
  PROVE  Worth(a, b) + Worth(b, c) = Worth(a, c)
BY DEF Worth

\* One refresh within another.
LEMMA DepthOfNew ==
  ASSUME TypeInv, ReadInv, DepthInv, updates # <<>>, NEW q \in 1 .. 8, Sets(q),
         foreign' = foreign, ~Drops(Order[q], Target(Order[q], Top.values[Order[q]]))
  PROVE  Len(updates) + 1 + Cardinality(Todo(Fresh', widgets', foreign'))
           <= Base + Worth(updates[1].seen, Len(foreign))
<1> DEFINE n == Len(updates)
           todo == Todo(Top, widgets, foreign)
           extra == Extra(Top, foreign)
           new == Todo(Fresh', widgets', foreign')
           first == updates[1].seen
           last == Top.seen
           total == Len(foreign)
<1>1. /\ n \in Nat \ {0} /\ Top = updates[n] /\ Top \in Frames
      /\ last \in Nat /\ first \in Nat /\ total \in Nat /\ last <= total
  <2>1. n \in Nat \ {0} /\ Top = updates[n] /\ Top \in Frames /\ last \in Nat
    BY TopOf
  <2>2. 1 \in 1 .. n /\ n \in 1 .. n
    BY <2>1
  <2>3. first \in Nat /\ last <= total
    BY <2>1, <2>2, FramesTyped DEF ReadInv
  <2>4. total \in Nat
    BY LenProperties DEF TypeInv
  <2> QED BY <2>1, <2>3, <2>4
<1>2. n + Cardinality(todo) <= Base + Worth(first, last)
  BY <1>1 DEF DepthInv
<1>3. /\ IsFiniteSet(todo) /\ Cardinality(todo) \in Nat
      /\ IsFiniteSet(new) /\ Cardinality(new) \in Nat
      /\ IsFiniteSet(extra) /\ Cardinality(extra) \in Nat
      /\ Cardinality(extra) <= Worth(last, total)
  BY <1>1, TodoBound, ExtraBound
<1>4. PICK x \in todo \cup extra : new \subseteq (todo \cup extra) \ {x}
  BY TodoOfNew
<1> HIDE DEF n, todo, extra, new, first, last, total
<1>5. /\ IsFiniteSet(todo \cup extra)
      /\ Cardinality(todo \cup extra) <= Cardinality(todo) + Cardinality(extra)
      /\ Cardinality(todo \cup extra) \in Nat
  <2>1. /\ IsFiniteSet(todo \cup extra)
        /\ Cardinality(todo \cup extra) =
             Cardinality(todo) + Cardinality(extra) - Cardinality(todo \cap extra)
    BY <1>3, FS_Union
  <2>2. IsFiniteSet(todo \cap extra)
    BY <1>3, FS_Subset
  <2>3. Cardinality(todo \cap extra) \in Nat /\ Cardinality(todo \cup extra) \in Nat
    BY <2>1, <2>2, FS_CardinalityType
  <2> QED BY <1>3, <2>1, <2>3
<1>6. /\ IsFiniteSet((todo \cup extra) \ {x})
      /\ Cardinality((todo \cup extra) \ {x}) = Cardinality(todo \cup extra) - 1
  BY <1>4, <1>5, FS_RemoveElement
<1>7. Cardinality(new) <= Cardinality((todo \cup extra) \ {x})
  BY <1>4, <1>6, FS_Subset
<1>8. Cardinality(new) + 1 <= Cardinality(todo) + Worth(last, total)
  <2>1. Worth(last, total) \in Int
    BY <1>1, WorthTyped
  <2> QED BY <1>3, <1>5, <1>6, <1>7, <2>1
<1>9. Base \in Int
  BY KeysFinite DEF Base
<1> HIDE DEF Base, Worth
<1>10. /\ Worth(last, total) \in Int /\ Worth(first, last) \in Int
       /\ Worth(first, last) + Worth(last, total) = Worth(first, total)
  <2>1. first \in Int /\ last \in Int /\ total \in Int
    BY <1>1
  <2>2. Worth(last, total) \in Int /\ Worth(first, last) \in Int
    BY <2>1, WorthTyped
  <2>3. Worth(first, last) + Worth(last, total) = Worth(first, total)
    BY <2>1, WorthAdds
  <2> QED BY <2>2, <2>3
<1>11. n + 1 + Cardinality(new) <= Base + Worth(first, total)
  <2> DEFINE cardNew == Cardinality(new)
             cardTodo == Cardinality(todo)
             before == Worth(first, last)
             added == Worth(last, total)
             worth == Worth(first, total)
  <2>1. n \in Int /\ Base \in Int /\ cardNew \in Int /\ cardTodo \in Int
        /\ before \in Int /\ added \in Int /\ worth = before + added
    BY <1>1, <1>3, <1>9, <1>10
  <2>2. n + cardTodo <= Base + before /\ cardNew + 1 <= cardTodo + added
    BY <1>2, <1>8
  <2> HIDE DEF cardNew, cardTodo, before, added, worth
  <2>3. n + 1 + cardNew <= Base + worth
    BY <2>1, <2>2
  <2> QED BY <2>3 DEF cardNew, worth
<1> QED BY <1>11 DEF n, new, first, total

LEMMA DepthInvStep ==
  ASSUME TypeInv, ReadInv, DepthInv, [Next]_vars
  PROVE  DepthInv'
<1> USE DEF windowVars
<1> DEFINE DepthOf(i) ==
      i + Cardinality(Todo(updates[i], widgets, foreign))
        <= Base + Worth(updates[1].seen, updates[i].seen)
<1>0. /\ Base \in Int
      /\ \A u, c, l : IsFiniteSet(Todo(u, c, l)) /\ Cardinality(Todo(u, c, l)) \in Nat
                      /\ Cardinality(Todo(u, c, l)) <= Base - 1
      /\ \A a, b \in Int : Worth(a, b) \in Int
  <2>1. Base \in Int
    BY KeysFinite DEF Base
  <2>2. \A a, b \in Int : Worth(a, b) \in Int
    BY WorthTyped
  <2> QED BY <2>1, <2>2, TodoBound
<1>1. ASSUME NEW i \in 1 .. Len(updates), NEW update, update.seen = updates[i].seen,
             updates'[1].seen = updates[1].seen,
             Todo(update, widgets', foreign') \subseteq Todo(updates[i], widgets, foreign)
      PROVE  i + Cardinality(Todo(update, widgets', foreign'))
               <= Base + Worth(updates'[1].seen, update.seen)
  <2>1. Cardinality(Todo(update, widgets', foreign'))
          <= Cardinality(Todo(updates[i], widgets, foreign))
    BY <1>0, <1>1, FS_Subset
  <2>2. DepthOf(i)
    BY DEF DepthInv
  <2>3. updates[i].seen \in Int /\ updates[1].seen \in Int /\ i \in Int
    <3>1. Len(updates) \in Nat
      BY LenProperties DEF TypeInv
    <3>2. 1 \in 1 .. Len(updates) /\ i \in Int
      BY <3>1
    <3> QED BY <3>2, FramesTyped
  <2>4. Worth(updates'[1].seen, update.seen) = Worth(updates[1].seen, updates[i].seen)
    BY <1>1
  <2> DEFINE after == Cardinality(Todo(update, widgets', foreign'))
             before == Cardinality(Todo(updates[i], widgets, foreign))
             worth == Worth(updates[1].seen, updates[i].seen)
  <2>5. IsFiniteSet(Todo(update, widgets', foreign')) /\ after \in Nat
    BY <1>0
  <2>6. before \in Nat
    BY <1>0
  <2>7. worth \in Int
    BY <1>0, <2>3
  <2>8. i + before <= Base + worth
    BY <2>2
  <2>9. after <= before
    BY <2>1
  <2> HIDE DEF after, before, worth, Base
  <2>10. i + after <= Base + worth
    BY <1>0, <2>3, <2>5, <2>6, <2>7, <2>8, <2>9
  <2> QED BY <2>4, <2>10 DEF after, worth
<1>2. CASE UpdateUi
  <2>1. foreign' = foreign /\ updates # <<>> /\ Len(updates) \in Nat \ {0}
    BY <1>2, UpdateUiEffect, TopOf DEF UpdateUi
  <2>2. ASSUME NEW j \in 1 .. Len(updates')
        PROVE  \/ /\ j \in 1 .. Len(updates)
                  /\ updates'[j].values = updates[j].values /\ updates'[j].seen = updates[j].seen
               \/ j = Len(updates) + 1 /\ updates'[j] = Fresh'
    BY <1>2, RefreshesAfter
  <2>3. ASSUME NEW i \in 1 .. Len(updates')
        PROVE  i + Cardinality(Todo(updates'[i], widgets', foreign'))
                 <= Base + Worth(updates'[1].seen, updates'[i].seen)
    <3>1. updates'[1].seen = updates[1].seen
      <4>1. 1 \in 1 .. Len(updates')
        BY <1>2, UpdateUiEffect, LenProperties
      <4> QED BY <2>1, <2>2, <4>1
    <3>2. CASE /\ i \in 1 .. Len(updates)
               /\ updates'[i].values = updates[i].values /\ updates'[i].seen = updates[i].seen
      <4>1. CASE Returns
        <5>1. widgets' = widgets
          BY <4>1 DEF Returns
        <5>2. Todo(updates'[i], widgets', foreign') \subseteq Todo(updates[i], widgets, foreign)
          BY <2>1, <3>2, <5>1 DEF Todo, Since
        <5> QED BY <1>1, <3>1, <3>2, <5>2
      <4>2. ASSUME NEW q \in 1 .. 8, Sets(q)
            PROVE  Todo(updates'[i], widgets', foreign') \subseteq Todo(updates[i], widgets, foreign)
        BY <2>1, <3>2, <4>2, TodoKept
      <4> QED BY <1>1, <1>2, <3>1, <3>2, <4>1, <4>2, UpdateUiEffect
    <3>3. CASE i = Len(updates) + 1 /\ updates'[i] = Fresh'
      <4>1. Len(updates') > Len(updates)
        BY <2>1, <3>3, <1>2, UpdateUiEffect, LenProperties
      <4>2. PICK q \in 1 .. 8 : Sets(q)
        BY <1>2, <2>1, <4>1, UpdateUiEffect DEF Returns
      <4>3. ~Drops(Order[q], Target(Order[q], Top.values[Order[q]]))
        BY <2>1, <4>1, <4>2 DEF Sets
      <4>4. Fresh'.seen = Len(foreign)
        BY <2>1, ReadOfFresh
      <4> QED BY <2>1, <3>1, <3>3, <4>2, <4>3, <4>4, DepthOfNew
    <3> QED BY <2>2, <3>2, <3>3
  <2> QED BY <2>3 DEF DepthInv
<1>3. CASE Begins
  <2>1. \A i \in 1 .. Len(updates') : i = 1
    BY <1>3 DEF Begins
  <2>2. updates'[1].seen \in Int
    <3>1. updates'[1] \in Frames
      BY <1>3, ElementOfSeq DEF Begins
    <3> QED BY <3>1 DEF Frames
  <2>3. Worth(updates'[1].seen, updates'[1].seen) = 0
    BY <2>2, WorthTyped
  <2>4. ASSUME NEW i \in 1 .. Len(updates')
        PROVE  i + Cardinality(Todo(updates'[i], widgets', foreign'))
                 <= Base + Worth(updates'[1].seen, updates'[i].seen)
    <3> DEFINE todo == Cardinality(Todo(updates'[1], widgets', foreign'))
               worth == Worth(updates'[1].seen, updates'[1].seen)
    <3>1. todo \in Nat /\ todo <= Base - 1
      BY <1>0
    <3>2. worth = 0
      BY <2>3
    <3> HIDE DEF todo, worth, Base
    <3>3. 1 + todo <= Base + worth
      BY <1>0, <3>1, <3>2
    <3>4. i = 1
      BY <2>1
    <3> QED BY <3>3, <3>4 DEF todo, worth
  <2> QED BY <2>4 DEF DepthInv
<1>4. CASE updates' = <<>>
  BY <1>4 DEF DepthInv
<1>5. ASSUME NEW key \in ForeignKeys, NEW value \in PrefsValues(key), ForeignWrite(key, value)
      PROVE  DepthInv'
  <2>1. updates' = updates /\ widgets' = widgets
    BY <1>5 DEF ForeignWrite
  <2>2. ASSUME NEW i \in 1 .. Len(updates)
        PROVE  Todo(updates[i], widgets', foreign') \subseteq Todo(updates[i], widgets, foreign)
    BY <1>5, <2>1, TodoOfWrite
  <2> QED BY <1>1, <2>1, <2>2 DEF DepthInv
<1>6. CASE UNCHANGED <<updates, foreign, widgets>>
  BY <1>6 DEF DepthInv
<1>7. Taken \/ UNCHANGED prefsVars \/ (\E i \in Instances : InstanceStarts(i))
        \/ (\E text \in Texts : PasswordTyped(text))
        => UNCHANGED <<updates, foreign, widgets>>
  BY DEF Taken, prefsVars, InstanceStarts, PasswordTyped
<1>8. Closed => updates' = <<>>
  BY DEF Closed, Idle
<1> QED BY <1>2, <1>3, <1>4, <1>5, <1>6, <1>7, <1>8, ChoosesEffect, OpenedEffect
        DEF Next, PrefsNext, UserActs, InstanceActs, DaemonLeaves, vars

LEMMA DepthInvariant == Spec => []DepthInv
<1>1. PrefsInit => DepthInv
  BY DEF PrefsInit, DepthInv
<1> QED BY <1>1, TypeInvariant, ReadInvariant, DepthInvStep, PTL DEF Spec, Init

\* With either version of dconf the refreshes nest only so deep, and each
\* write of another program adds one level at most, or two.
THEOREM NestingIsBounded == Spec => []RefreshesNest
<1>1. TypeInv /\ ReadInv /\ DepthInv => RefreshesNest
  <2> SUFFICES ASSUME TypeInv, ReadInv, DepthInv, updates # <<>>
               PROVE  Len(updates) <= Base + Worth(updates[1].seen, Len(foreign))
    <3>1. RefreshesNest <=>
            (updates # <<>> =>
               Len(updates) <= IF NoEffectDropped
                 THEN 1 + Cardinality(Combos) + (Len(foreign) - updates[1].seen)
                 ELSE 2 + Cardinality(PrefsKeys) + 2 * (Len(foreign) - updates[1].seen))
      BY DEF RefreshesNest
    <3> QED BY <3>1 DEF Base, Worth
  <2> DEFINE n == Len(updates)
             first == updates[1].seen
             last == updates[n].seen
  <2>1. /\ n \in Nat \ {0} /\ first \in Nat /\ last \in Nat /\ Len(foreign) \in Nat
        /\ last <= Len(foreign)
    <3>1. n \in Nat \ {0} /\ Len(foreign) \in Nat
      BY TopOf, LenProperties DEF TypeInv
    <3>2. 1 \in 1 .. n /\ n \in 1 .. n
      BY <3>1
    <3> QED BY <3>1, <3>2, FramesTyped DEF ReadInv
  <2>2. n + Cardinality(Todo(updates[n], widgets, foreign)) <= Base + Worth(first, last)
    BY <2>1 DEF DepthInv
  <2>3. Cardinality(Todo(updates[n], widgets, foreign)) \in Nat /\ Base \in Nat
    BY TodoBound, KeysFinite DEF Base
  <2> HIDE DEF n, first, last
  <2>4. Worth(first, last) <= Worth(first, Len(foreign))
        /\ Worth(first, last) \in Int /\ Worth(first, Len(foreign)) \in Int
    BY <2>1 DEF Worth
  <2>5. n <= Base + Worth(first, Len(foreign))
    <3> HIDE DEF Base, Worth
    <3> QED BY <2>1, <2>2, <2>3, <2>4
  <2> QED BY <2>5 DEF n, first
<1> QED BY <1>1, TypeInvariant, ReadInvariant, DepthInvariant, PTL

-----------------------------------------------------------------------------
(* The instances *)

\* Without a race an instance that has set itself is the owner until its
\* process ends, and none has looked that would set itself after it.
RaceInv ==
  /\ SelectionTypeOK
  /\ ~raced =>
       /\ \A i \in Instances : inst[i] \in {"set", "owner", "daemon"} => owner = i
       /\ owner # None => \A i \in Instances : inst[i] # "looked"

\* A step of one instance.
LEMMA InstanceSteps ==
  ASSUME RaceInv, NEW i \in Instances, NEW something,
         Started(i) \/ Main(i, something) \/ Leaves(i)
  PROVE  RaceInv'
<1> USE SelectionAssumption DEF Stages, SelectionTypeOK
<1>1. CASE Started(i)
  BY <1>1 DEF RaceInv, Started, Goes
<1>2. CASE Looks(i)
  BY <1>2 DEF RaceInv, Looks, Goes
<1>3. CASE SetsOwner(i)
  <2>1. /\ inst' \in [Instances -> Stages] /\ owner' = i /\ raced' \in BOOLEAN
        /\ inst[i] = "looked" /\ inst' = [inst EXCEPT ![i] = "set"]
    BY <1>3 DEF RaceInv, SetsOwner, Goes
  <2>2. ASSUME ~raced'
        PROVE  \A j \in Instances : j # i => inst[j] # "looked" /\ inst'[j] = inst[j]
    BY <1>3, <2>1, <2>2 DEF RaceInv, SetsOwner
  <2>3. ASSUME ~raced'
        PROVE  \A j \in Instances \ {i} : inst[j] \notin {"set", "owner", "daemon"}
    <3>1. ~raced
      BY <1>3, <2>3 DEF SetsOwner
    <3>2. owner = None
      BY <2>1, <3>1 DEF RaceInv
    <3> QED BY <3>1, <3>2 DEF RaceInv
  <2>4. inst'[i] = "set"
    BY <2>1 DEF RaceInv
  <2> QED BY <2>1, <2>2, <2>3, <2>4 DEF RaceInv
<1>4. CASE LooksAgain(i)
  BY <1>4 DEF RaceInv, LooksAgain, Goes
<1>5. CASE Stays(i, something)
  BY <1>5 DEF RaceInv, Stays, Goes
<1>6. CASE Leaves(i)
  BY <1>6 DEF RaceInv, Leaves, Goes
<1>7. CASE Ends(i)
  <2>1. CASE owner = i
    BY <1>7, <2>1 DEF RaceInv, Ends, Goes
  <2>2. CASE owner # i
    BY <1>7, <2>2 DEF RaceInv, Ends, Goes
  <2> QED BY <2>1, <2>2
<1> QED BY <1>1, <1>2, <1>3, <1>4, <1>5, <1>6, <1>7 DEF Main

LEMMA RaceInvariant == Spec => []RaceInv
<1>1. Init => RaceInv
  BY SelectionAssumption DEF Init, SelectionInit, RaceInv, SelectionTypeOK, Stages
<1>2. RaceInv /\ [Next]_vars => RaceInv'
  <2> SUFFICES ASSUME RaceInv, [Next]_vars
               PROVE  RaceInv'
    OBVIOUS
  <2>1. CASE UNCHANGED selectionVars
    BY <2>1 DEF selectionVars, RaceInv, SelectionTypeOK
  <2>2. CASE \E i \in Instances : InstanceStarts(i) \/ InstanceActs(i) \/ DaemonLeaves(i)
    BY <2>2, InstanceSteps DEF InstanceStarts, InstanceActs, DaemonLeaves
  <2> QED BY <2>1, <2>2 DEF Next, vars
<1> QED BY <1>1, <1>2, PTL DEF Spec

\* For any number of instances a second daemon comes only by the race of two
\* that have both found no owner.
THEOREM SecondIsByRace == Spec => []SecondOnlyByRace
<1>1. RaceInv => SecondOnlyByRace
  BY DEF RaceInv, SecondOnlyByRace
<1> QED BY <1>1, RaceInvariant, PTL
=============================================================================
