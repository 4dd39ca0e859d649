-------------------------------- MODULE Relay --------------------------------
(***************************************************************************)
(* What bringing numbered documents from the cloud to a PC promises, with  *)
(* the whole of a sync as two steps: the cloud publishes, a file takes     *)
(* over what is published, the service loads the files.  No copy is ahead  *)
(* of the one it was made from, and none ever goes back.                   *)
(***************************************************************************)
EXTENDS Integers

CONSTANT Items  \* what is carried: the policy and the list version, or the lists

VARIABLES
    source,  \* Items -> the version published in the cloud
    stored,  \* Items -> the version in the file, 0 if there is none
    loaded   \* Items -> the version the service works with, 0 if there is none

relayVars == <<source, stored, loaded>>

UpTo(old, new) == \A i \in Items : old[i] <= new[i]

RelayInit ==
    /\ source \in [Items -> Nat]
    /\ stored = [i \in Items |-> 0]
    /\ loaded = stored

Publish ==
    /\ source' \in [Items -> Nat]
    /\ UpTo(source, source')
    /\ UNCHANGED <<stored, loaded>>

\* What was fetched may be behind by now, but not behind what is stored.
Save ==
    /\ stored' \in [Items -> Nat]
    /\ UpTo(stored, stored') /\ UpTo(stored', source)
    /\ UNCHANGED <<source, loaded>>

\* All items at once, from the files and from nowhere else
Load ==
    /\ loaded' = stored
    /\ UNCHANGED <<source, stored>>

RelayNext == Publish \/ Save \/ Load

RelaySpec == RelayInit /\ [][RelayNext]_relayVars

=============================================================================
