------------------------------ MODULE FvbStore ------------------------------
(***************************************************************************)
(* What MesonSpifcFvbDxe promises the variable and fault-tolerant-write    *)
(* drivers above it: a store whose cells read back what was last written   *)
(* to them with success, across power cuts, until they are written again.  *)
(* Only the cells of a write or an erase under way, or failed, are in      *)
(* doubt; a power cut settles those one way or another.  A store is        *)
(* formatted only if its header is invalid, and carries a valid header     *)
(* again only when nothing of its old contents is left.                    *)
(***************************************************************************)
EXTENDS FvbLayout

VARIABLES
    view,            \* [Window -> Cell]: what a reader sees, or would see
    unsure,          \* cells in doubt
    up               \* the store is being served

vars == <<view, unsure, up>>

Init == view \in [Window -> Cell] /\ unsure = {} /\ up = FALSE

Serve ==
    /\ ~up /\ HeaderValid(view)
    /\ up' = TRUE
    /\ UNCHANGED <<view, unsure>>

\* A write or an erase puts cells in doubt ...
Start ==
    /\ up
    /\ unsure \subseteq unsure' /\ unsure' \subseteq unsure \cup Managed
    /\ UNCHANGED <<view, up>>

\* ... and takes out of it again those that it has verified, and no others.
Verified ==
    /\ up
    /\ unsure' \subseteq unsure
    /\ \A w \in Window : w \in unsure' \/ w \notin unsure => view'[w] = view[w]
    /\ view' \in [Window -> Cell]
    /\ UNCHANGED up

PowerCut ==
    /\ up' = FALSE
    /\ unsure' = {}
    /\ view' \in [Window -> Cell]
    /\ \A w \in Window \ unsure : view'[w] = view[w]

Reformat ==
    /\ ~up /\ ~HeaderValid(view)
    /\ view' \in [Window -> Cell]
    /\ \A w \in Window \ Managed : view'[w] = view[w]
    /\ HeaderValid(view') => \A w \in Managed \ HeaderCells : view'[w] = {}
    /\ UNCHANGED <<unsure, up>>

Next == Serve \/ Start \/ Verified \/ PowerCut \/ Reformat

Spec == Init /\ [][Next]_vars
=============================================================================
