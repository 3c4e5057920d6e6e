----------------------------- MODULE MCDesktop -----------------------------
(* Desktop on a small instance: two processes at a time.                    *)
EXTENDS Desktop

CONSTANTS i1, i2

TwoInstances == {i1, i2}

\* The defaults of the schema but for the given switches and strings.
LoginWith(on, password, accept) ==
  [k \in PrefsKeys |->
     IF k = "require_password" THEN password
     ELSE IF k = "accept" THEN accept
     ELSE k \in on \cup {"require_pairing"}]

MCLogin == {LoginWith({"push"}, "never", "ask"), LoginWith({}, "other", "bonded_and_trusted")}

TwoSwitchesOn == {LoginWith({"enabled", "push"}, "never", "bonded")}
=============================================================================
