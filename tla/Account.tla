------------------------------- MODULE Account -------------------------------
(***************************************************************************)
(* What the worker promises of one parent's sessions and recovery key,     *)
(* with every call as one step: there is one session at a time, it is      *)
(* opened once and used only within its two limits, and a recovery key     *)
(* comes with the sign-in that made it.  Neither ever comes back.          *)
(***************************************************************************)
EXTENDS Integers

CONSTANTS
    SignIns,     \* sign-ins, each of which names the session and key it makes
    Given,       \* session and key of an old account
    None,
    IdleTTL, AbsoluteTTL

VARIABLES
    session,     \* the account's session
    key,         \* the recovery key that works
    minted,      \* SignIns -> when the session was made, Unopened if it was not yet
    used,        \* SignIns -> when it was last used
    clock

accountVars == <<session, key, minted, used, clock>>

Unopened == -1

AccountInit ==
    /\ session \in {None, Given}
    /\ key = session
    /\ minted = [s \in SignIns |-> Unopened]
    /\ used = minted
    /\ clock = 0

\* The new session replaces the one there is; sometimes there is a new key too.
Open(s) ==
    /\ used[s] = Unopened
    /\ session' = s
    /\ key' \in {key, s}
    /\ \E m \in 0 .. clock :
          /\ minted' = [minted EXCEPT ![s] = m]
          /\ used' = [used EXCEPT ![s] = m]
    /\ UNCHANGED clock

Use(s) ==
    /\ session = s
    /\ clock - used[s] < IdleTTL
    /\ clock < minted[s] + AbsoluteTTL
    /\ used' = [used EXCEPT ![s] = clock]
    /\ UNCHANGED <<session, key, minted, clock>>

Close ==
    /\ session' = None
    /\ UNCHANGED <<key, minted, used, clock>>

ClockTick ==
    /\ clock' = clock + 1
    /\ UNCHANGED <<session, key, minted, used>>

AccountNext == (\E s \in SignIns : Open(s) \/ Use(s)) \/ Close \/ ClockTick

AccountSpec == AccountInit /\ [][AccountNext]_accountVars

=============================================================================
