---------------------------- MODULE MCConfigSync ----------------------------
(***************************************************************************)
(* Small instances of ConfigSync.  Three of the five sections: wireless,   *)
(* which is only reloaded, fry-agent, and fry-config, which reloads itself. *)
(***************************************************************************)
EXTENDS ConfigSync

CONSTANTS a, b

Config(w, g, f) ==
  [s \in Sections |-> CASE s = "wireless" -> w [] s = "fry-agent" -> g [] OTHER -> f]

\* The configuration the device starts with, one that changes every section,
\* one that changes a part and drops a section.
Old   == Config(a, a, a)
New   == Config(b, b, b)
Other == Config(a, b, Absent)

MCSections == {"wireless", "fry-agent", "fry-config"}
MCConfigs  == {Old, New, Other}

\* The server may go anywhere from anywhere.
AnyTarget == [c \in MCConfigs |-> MCConfigs \ {c}]

\* The server decides twice, or skips the decision between: a section goes on
\* to another value or is dropped for a while, but none goes back.
Forward == [c \in MCConfigs |-> CASE c = Old -> {New, Other}
                                  [] c = Other -> {New}
                                  [] OTHER -> {}]

\* Both values set one option, b one more, and the image some of its own: over
\* b a leaves the second, over the image both leave that of the image.
MCOptions == {"path", "ssid", "hidden"}
MCOptionsOf == [v \in Values \cup {Factory} |-> CASE v = a -> {"ssid"}
                                                [] v = b -> {"ssid", "hidden"}
                                                [] OTHER -> {"path"}]

\* One set of faults for each antecedent of the properties.
Decided   == {{"restart", "rollback", "crash"}, {"restart"}}
OneKind   == {{"restart", "return"}, {"script", "return"}}
Noticed   == {{"script", "restart", "rollback", "crash", "return"}}
Surprises == {{"commit", "restart", "return"},
              {"full", "restart", "return"},
              {"package", "crash"}}
AnyFaults == Decided \cup OneKind \cup Noticed \cup Surprises

OnlyRestart == {{"restart", "return"}}
TwoKinds    == {{"restart", "script", "return"}}

FreshOrOld == {None, Old}
OnlyOld    == {Old}
=============================================================================
