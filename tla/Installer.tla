----------------------------- MODULE Installer -----------------------------
(***************************************************************************)
(* What a user of a build script may rely on, whatever the script does to  *)
(* get there and wherever it is cut off: no installation changes before    *)
(* the new version has been built; then the files of the chosen place turn *)
(* to that version in some order, and only documentation and programs may  *)
(* be deleted; and success is reported of a complete installation only.    *)
(***************************************************************************)
CONSTANTS Versions, Places, Home, Files, Kind, Ships

VARIABLES
    prefix,  \* prefix[p][f]: the versions file f at place p was made from
    phase,   \* "rest", "done" (rest after a success), "building", "writing"
    key,     \* the version that is installed
    where    \* the place it is installed to

vars == <<prefix, phase, key, where>>

Running == {"building", "writing"}

Init == /\ prefix \in [Places -> [Files -> SUBSET Versions]]
        /\ key \in Versions /\ where \in Places /\ phase = "rest"

Begin == /\ phase \notin Running /\ phase' = "building"
         /\ key' \in Versions /\ where' \in Places
         /\ UNCHANGED prefix

Built == /\ phase = "building" /\ phase' = "writing"
         /\ UNCHANGED <<prefix, key, where>>

\* One command may change many files, and fail when it has.
Write ==
    /\ phase = "writing" /\ phase' \in {"writing", "rest"}
    /\ prefix' \in [Places -> [Files -> SUBSET Versions]]
    /\ \A p \in Places, f \in Files :
          \/ prefix'[p][f] = prefix[p][f]
          \/ p = where /\ f \in Ships[key]
             /\ \/ prefix'[p][f] = {key}
                \/ Kind[f] = "archive" /\ prefix'[p][f] = prefix[p][f] \cup {key}
          \/ p = where /\ Kind[f] \in {"bin", "share"} /\ prefix'[p][f] = {}
          \/ p = Home /\ Kind[f] = "ini" /\ f \in Ships[key] /\ prefix'[p][f] = {key}
    /\ UNCHANGED <<key, where>>

Succeed == /\ phase = "writing" /\ phase' = "done"
           /\ \A f \in Ships[key] :
                 /\ Kind[f] = "lib" => prefix[where][f] = {key}
                 /\ Kind[f] = "archive" => key \in prefix[where][f]
                 /\ Kind[f] \in {"bin", "share"} => prefix[where][f] \in {{}, {key}}
           /\ UNCHANGED <<prefix, key, where>>

GiveUp == phase' = "rest" /\ UNCHANGED <<prefix, key, where>>

Remove == /\ phase \notin Running /\ phase' = "rest"
          /\ \E p \in Places : prefix' = [prefix EXCEPT ![p] = [f \in Files |-> {}]]
          /\ UNCHANGED <<key, where>>

Next == Begin \/ Built \/ Write \/ Succeed \/ GiveUp \/ Remove

Spec == Init /\ [][Next]_vars
=============================================================================
