-------------------------------- MODULE Inbox --------------------------------
(***************************************************************************)
(* What asking for blocked sites promises, with no message in sight: the   *)
(* child's oldest question waits until a parent has it on the list, only a *)
(* restart of the service loses questions, a question on the list is       *)
(* answered once, and an answer is a change of the policy.                 *)
(***************************************************************************)
EXTENDS Integers, Sequences, FiniteSets

CONSTANTS
    Sites,
    NoRule,
    Copies       \* how often one site may be open on the list at once

VARIABLES
    asked,       \* sites the child waits for, oldest first
    noted,       \* whether the oldest is known to have been put on the list
    list,        \* questions put to the parents, in order, with their status
    rule,        \* Sites -> rule of the parents
    revision     \* of the policy

inboxVars == <<asked, noted, list, rule, revision>>

Opened(s) == {i \in DOMAIN list : list[i].domain = s /\ list[i].status = "pending"}

InboxInit ==
    /\ asked = <<>>
    /\ noted = FALSE
    /\ list = <<>>
    /\ rule = [s \in Sites |-> NoRule]
    /\ revision = 1

AskFor(s) ==
    /\ asked' = Append(asked, s)
    /\ UNCHANGED <<noted, list, rule, revision>>

\* A question goes on the list, with or without word of it.
List(s) ==
    /\ Cardinality(Opened(s)) < Copies
    /\ list' = Append(list, [domain |-> s, status |-> "pending"])
    /\ \/ noted' = noted
       \/ asked # <<>> /\ s = Head(asked) /\ noted' = TRUE
    /\ UNCHANGED <<asked, rule, revision>>

\* The oldest question is found on the list, open.
Note ==
    /\ asked # <<>>
    /\ Opened(Head(asked)) # {}
    /\ noted' = TRUE
    /\ UNCHANGED <<asked, list, rule, revision>>

\* Word of it is lost.
Doubt ==
    /\ noted' = FALSE
    /\ UNCHANGED <<asked, list, rule, revision>>

Settle ==
    /\ noted
    /\ asked' = Tail(asked)
    /\ noted' = FALSE
    /\ UNCHANGED <<list, rule, revision>>

Lose ==
    /\ asked' = <<>>
    /\ noted' = FALSE
    /\ UNCHANGED <<list, rule, revision>>

\* An answer settles an open question; an approval allows its site.
Decide(i, answer) ==
    /\ list[i].status = "pending"
    /\ list' = [list EXCEPT ![i].status = answer]
    /\ rule' = IF answer = "approved" THEN [rule EXCEPT ![list[i].domain] = "allow"] ELSE rule
    /\ revision' = revision + 1
    /\ UNCHANGED <<asked, noted>>

\* The parents change one rule, or confirm it.
Rewrite(s) ==
    /\ \E r \in {"allow", "block", NoRule} : rule' = [rule EXCEPT ![s] = r]
    /\ revision' = revision + 1
    /\ UNCHANGED <<asked, noted, list>>

Lapse(s) ==
    /\ rule' = [rule EXCEPT ![s] = NoRule]
    /\ UNCHANGED <<asked, noted, list, revision>>

\* Old questions are struck off.
Strike(n) ==
    /\ list' = [i \in DOMAIN list |->
          IF i <= n THEN [list[i] EXCEPT !.status = "deleted"] ELSE list[i]]
    /\ UNCHANGED <<asked, noted, rule, revision>>

InboxNext ==
    \/ \E s \in Sites : AskFor(s) \/ List(s) \/ Rewrite(s) \/ Lapse(s)
    \/ Note \/ Doubt \/ Settle \/ Lose
    \/ \E i \in DOMAIN list :
          Strike(i) \/ \E answer \in {"approved", "denied"} : Decide(i, answer)

InboxSpec == InboxInit /\ [][InboxNext]_inboxVars

=============================================================================
