----------------------------- MODULE KeyCreation -----------------------------
(***************************************************************************)
(* What the key-pair creation of the encrypt pipeline promises (spec 4.3   *)
(* step 1 and 5): creation is one at a time for the whole process, it     *)
(* starts only for a mailbox without an own key, and a started creation   *)
(* ends, saving one key pair or none.  Module Encrypt is shown to          *)
(* implement it.                                                           *)
(***************************************************************************)
EXTENDS Naturals

CONSTANTS Threads, Mailboxes, MailboxOf

VARIABLES
    generating,  \* the threads generating a key pair: empty or one thread
    ownKeys      \* ownKeys[mb]: key pairs saved for mailbox mb

vars == <<generating, ownKeys>>

Init ==
    /\ generating = {}
    /\ ownKeys = [mb \in Mailboxes |-> 0]

\* Thread t claims the creation for its mailbox, which has no key yet.
Begin(t) ==
    /\ generating = {}
    /\ ownKeys[MailboxOf[t]] = 0
    /\ generating' = {t}
    /\ UNCHANGED ownKeys

\* The creation of t ends; on success the key pair is saved.
Finish(t, ok) ==
    /\ t \in generating
    /\ generating' = {}
    /\ ownKeys' = IF ok THEN [ownKeys EXCEPT ![MailboxOf[t]] = @ + 1] ELSE ownKeys

Next == \E t \in Threads : Begin(t) \/ \E ok \in BOOLEAN : Finish(t, ok)

Spec == Init /\ [][Next]_vars /\ \A t \in Threads : WF_vars(\E ok \in BOOLEAN : Finish(t, ok))

=============================================================================
