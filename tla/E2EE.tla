-------------------------------- MODULE E2EE --------------------------------
(***************************************************************************)
(* One mailbox of src/src/mre2ee.c, both pipelines: threads sending with   *)
(* mre2ee_encrypt (module Encrypt) and messages received through           *)
(* mre2ee_decrypt (module Peerstate), over the mailbox's one database      *)
(* lock and its one e2ee_enabled setting.                                  *)
(*                                                                         *)
(* Encrypt reads the peerstate rows that Peerstate writes: its row of an   *)
(* address is the key and preference of Peerstate's row, the timestamps    *)
(* hidden.  A received message is one step of Peerstate, taken while the *)
(* lock is free (mre2ee_decrypt holds it for the whole read-modify-write), *)
(* and to Encrypt it is the environment step PeerstateChanged.             *)
(***************************************************************************)
EXTENDS Naturals, FiniteSets

CONSTANTS
    Threads, MB, Addrs, Keys, RecipientSets, Senders, MaxTime,
    NoThread, NoKey, Absent, NoFrom, NoDate, NoHeader

VARIABLES
    pc, holder, s_in_key_creation, selfKeys, configured, rcpt, genOk,
    doEncrypt, encKey, result, offered,   \* the sending threads (Encrypt)
    ps, now, e2ee, newest,                \* the peerstates (Peerstate)
    authentic  \* auxiliary: authentic[a], the keys headers really from a carried

encVars == <<pc, holder, s_in_key_creation, selfKeys, configured, rcpt, genOk,
             doEncrypt, encKey, result, offered>>
decVars == <<ps, now, e2ee, newest>>
vars == <<encVars, decVars, authentic>>

\* The acpeerstates row as mre2ee_encrypt loads it.
EncRow(row) ==
    IF row = Absent THEN Absent
    ELSE [public_key |-> row.public_key, prefer_encrypted |-> row.prefer_encrypted]

P == INSTANCE Peerstate WITH peerstate <- ps, e2ee_enabled <- e2ee

E == INSTANCE Encrypt WITH
        Mailboxes <- {MB}, MailboxOf <- [t \in Threads |-> MB],
        PeerRows <- P!PeerState \cup {Absent},
        e2ee_enabled <- [mb \in {MB} |-> e2ee],
        peerstate <- [mb \in {MB} |-> [a \in Addrs |-> EncRow(ps[a])]]

\* A header whose From: and to= are one address, with a valid key: the
\* address's owner really offered that key.
FromOwner(m) ==
    /\ m.from \in Addrs /\ m.aheader # NoHeader
    /\ m.aheader.to = m.from /\ m.aheader.keyValid

\* mre2ee_decrypt of message m, under the mailbox lock.
Receive(m) ==
    /\ P!Receive(m)
    /\ authentic' = IF FromOwner(m)
                    THEN [authentic EXCEPT ![m.from] = @ \cup {m.aheader.key}]
                    ELSE authentic
    /\ \E a \in Addrs : E!PeerstateChanged(MB, a, EncRow(ps'[a]))

\* The clock, and the user switching e2ee on or off.
Environment ==
    /\ P!Tick \/ \E b \in BOOLEAN : P!SetE2EE(b)
    /\ UNCHANGED <<encVars, authentic>>

\* A step of a sending thread.
Send ==
    /\ UNCHANGED <<decVars, authentic>>
    /\ \E t \in Threads :
          \/ \E R \in RecipientSets : E!Call(t, R)
          \/ E!LockDisabled(t) \/ E!LockHaveKey(t) \/ E!LockNoKey(t)
          \/ E!TestFlagStep(t) \/ E!SetFlag(t) \/ E!Relock(t)
          \/ \E ok \in BOOLEAN : E!Generate(t, ok) \/ E!Encrypt(t, ok)

Init ==
    /\ P!Init
    /\ authentic = [a \in Addrs |-> {}]
    /\ E!Init

Next ==
    \/ \E m \in P!Message : Receive(m)
    \/ Environment
    \/ Send

Spec == Init /\ [][Next]_vars

-----------------------------------------------------------------------------
(* Properties                                                              *)

\* The end-to-end promise of Autocrypt (spec 4.1, 4.4, 8): a message that
\* mre2ee_encrypt sends encrypted goes to a key that its single recipient
\* itself published in an Autocrypt: header (From: and to= both the
\* recipient), never to a key a third party slipped into the peerstate.
EncryptedToAuthenticKey ==
    \A t \in Threads :
        pc[t] = "idle" /\ result[t].encrypted =>
            \E a \in rcpt[t] : result[t].key \in authentic[a]

=============================================================================
