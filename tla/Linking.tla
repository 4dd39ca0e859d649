------------------------------- MODULE Linking -------------------------------
(***************************************************************************)
(* What linking a PC promises, with the whole of POST /enroll as one step: *)
(* a child has at most one linked device, a code links at most one device, *)
(* and a device that was cut off never comes back.                         *)
(***************************************************************************)
CONSTANTS Children, Codes, Devices

VARIABLES
    linked,  \* the pairs of a child and the device that may speak for it
    spent,   \* codes that have linked a device
    past     \* devices that are or were linked

linkVars == <<linked, spent, past>>

OfOthers(c) == {link \in linked : link[1] # c}

\* Nothing is linked when the first child is added.
LinkInit ==
    /\ linked = {}
    /\ spent = {}
    /\ past = {}

\* A device that was never linked takes the child over, for a code not yet spent.
Link(d) ==
    /\ d \notin past
    /\ past' = past \cup {d}
    /\ \E k \in Codes : k \notin spent /\ spent' = spent \cup {k}
    /\ \E c \in Children : linked' = OfOthers(c) \cup {<<c, d>>}

\* The child's device, if any, is cut off: by the parent, or by an enrollment that
\* ends before its device is in.
Unlink(c) ==
    /\ linked' = OfOthers(c)
    /\ UNCHANGED <<spent, past>>

LinkNext == (\E c \in Children : Unlink(c)) \/ (\E d \in Devices : Link(d))

LinkSpec == LinkInit /\ [][LinkNext]_linkVars

=============================================================================
