--------------------------- MODULE SettingStrings ---------------------------
(***************************************************************************)
(* src/src/user_share-private.c: the conversions between the strings of    *)
(* the settings database and the enumerations PasswordSetting and          *)
(* AcceptSetting, and the reading of require-password by http.c, which     *)
(* does not use them.  The enumerations are their numbers, because the     *)
(* rows of the combo boxes are meant to be in the same order.              *)
(***************************************************************************)
EXTENDS Integers, Sequences

PASSWORD_ALWAYS == 2
ACCEPT_ALWAYS == 0
ACCEPT_BONDED == 1
ACCEPT_ASK == 2

PasswordStrings == <<"never", "on_write", "always">>

\* A plausible bug: they are in alphabetical order, not in that of the enum.
MutAcceptStrings == <<"always", "ask", "bonded">>
AcceptStrings == <<"always", "bonded", "ask">>

\* The key is a string of any value: "other" stands for what no one writes.
PasswordValues == {"never", "on_write", "always", "other"}
AcceptValues == {"always", "bonded", "bonded_and_trusted", "ask", "other"}

\* The string of a setting, the secure one for a number out of range (a combo
\* box without an active row has -1, which arrives as a large unsigned number).
\* A plausible bug: the rows are counted from one.
Mutpassword_string_from_setting(setting) ==
  IF setting \in 1 .. PASSWORD_ALWAYS
    THEN PasswordStrings[setting] ELSE PasswordStrings[PASSWORD_ALWAYS + 1]

password_string_from_setting(setting) ==
  IF setting \in 0 .. PASSWORD_ALWAYS
    THEN PasswordStrings[setting + 1] ELSE PasswordStrings[PASSWORD_ALWAYS + 1]

accept_string_from_setting(setting) ==
  IF setting \in 0 .. ACCEPT_ASK
    THEN AcceptStrings[setting + 1] ELSE AcceptStrings[ACCEPT_BONDED + 1]

password_setting_from_string(str) ==
  IF str = "never" THEN 0 ELSE IF str = "on_write" THEN 1 ELSE PASSWORD_ALWAYS

accept_setting_from_string(str) ==
  CASE str = "always" -> ACCEPT_ALWAYS
    [] str = "ask" -> ACCEPT_ASK
    [] OTHER -> ACCEPT_BONDED

\* The mode spawn_httpd puts on the command line of httpd (http.c).
HttpdMode(str) == IF str \in {"never", "on_write"} THEN str ELSE "always"
=============================================================================
