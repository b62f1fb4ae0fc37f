------------------------------- MODULE Encrypt -------------------------------
(***************************************************************************)
(* Threads sending mail through mre2ee_encrypt() and its helper           *)
(* load_or_generate_public_key__() (src/src/mre2ee.c, lines 155-364).     *)
(*                                                                         *)
(* Each mailbox has one database lock (mrsqlite3_lock/_unlock).  The      *)
(* helper tests and sets the function-static s_in_key_creation while      *)
(* holding the lock of its own mailbox, then unlocks the database for the *)
(* slow key generation and locks it again to validate and save the key.  *)
(* s_in_key_creation is one variable for the whole process, while the     *)
(* lock belongs to a mailbox: two threads of different mailboxes read and *)
(* write it under different locks, a data race, modelled by letting the   *)
(* test (line 168) and the set (line 170) be two steps.                   *)
(*                                                                         *)
(* The peerstates a thread reads are changed, under the same lock, by     *)
(* concurrent mre2ee_decrypt() calls (module Peerstate); here that is the *)
(* environment action PeerstateChanged.                                   *)
(***************************************************************************)
EXTENDS Naturals, FiniteSets

CONSTANTS
    Threads,        \* threads calling mre2ee_encrypt
    Mailboxes,      \* mrmailbox_t objects of the process
    MailboxOf,      \* MailboxOf[t]: the mailbox thread t sends for
    Addrs,          \* recipient addresses
    Keys,           \* peer public keys, as model values
    RecipientSets,  \* the recipients_addr lists a caller may pass
    PeerRows,       \* the peerstate rows a concurrent decrypt may write
    NoThread,       \* lock holder of a free lock
    NoKey,          \* no key used
    Absent          \* no peerstate row

ASSUME MailboxOf \in [Threads -> Mailboxes]
ASSUME PeerRows \subseteq [public_key : Keys, prefer_encrypted : {"mutual", "nopreference", "no"}] \cup {Absent}

VARIABLES
    pc,                \* pc[t]: where thread t is in mre2ee_encrypt
    holder,            \* holder[mb]: thread holding the lock of mailbox mb
    s_in_key_creation, \* the process-wide static flag of line 157
    selfKeys,          \* selfKeys[mb]: keypairs saved for the mailbox
    e2ee_enabled,      \* config "e2ee_enabled" per mailbox
    configured,        \* config "configured_addr" is set, per mailbox
    peerstate,         \* peerstate[mb][a]: Absent or [public_key, prefer_encrypted]
    rcpt,              \* rcpt[t]: recipients_addr of the current call
    genOk,             \* genOk[t]: the key generation of t succeeded (a local)
    doEncrypt,         \* doEncrypt[t]: do_encrypt of the current call
    encKey,            \* encKey[t]: peerstate->m_public_key read under the lock
    result,            \* result[t]: what the last finished call of t produced
    offered            \* auxiliary: offered[t], the keys the single recipient of
                       \* t's call held, not refusing encryption, since the call

vars == <<pc, holder, s_in_key_creation, selfKeys, e2ee_enabled, configured,
          peerstate, rcpt, genOk, doEncrypt, encKey, result, offered>>

Prefs == {"mutual", "nopreference", "no"}
PeerRow == [public_key : Keys, prefer_encrypted : Prefs]

\* header: an Autocrypt: header was added; keyOk: an own key was at hand.
Result == [header : BOOLEAN, encrypted : BOOLEAN, key : Keys \cup {NoKey},
           keyOk : BOOLEAN]
NoResult == [header |-> FALSE, encrypted |-> FALSE, key |-> NoKey, keyOk |-> FALSE]

PCs == {"idle", "lock", "testflag", "setflag", "generate", "relock", "encrypt"}

Mb(t) == MailboxOf[t]
LockFree(t) == holder[Mb(t)] = NoThread

\* The key a single recipient's row offers: one whose preference is not "no".
OfferedBy(R, rows) ==
    IF Cardinality(R) = 1
    THEN { rows[a].public_key :
             a \in {b \in R : rows[b] # Absent /\ rows[b].prefer_encrypted # "no"} }
    ELSE {}

\* Leave mre2ee_encrypt through the cleanup label, releasing the lock.
Return(t, r) ==
    /\ pc' = [pc EXCEPT ![t] = "idle"]
    /\ holder' = [holder EXCEPT ![Mb(t)] = NoThread]
    /\ result' = [result EXCEPT ![t] = r]

\* Lines 288-299: with the own key loaded, read the peerstate of a single
\* recipient, decide do_encrypt, unlock.
LoadPeerstateAndUnlock(t) ==
    LET R == rcpt[t]
        ps == IF Cardinality(R) = 1 THEN peerstate[Mb(t)][CHOOSE a \in R : TRUE]
              ELSE Absent
    IN /\ doEncrypt' = [doEncrypt EXCEPT ![t] =
                          ps # Absent /\ ps.prefer_encrypted # "no"]
       /\ encKey' = [encKey EXCEPT ![t] = IF ps # Absent THEN ps.public_key ELSE NoKey]
       /\ holder' = [holder EXCEPT ![Mb(t)] = NoThread]
       /\ pc' = [pc EXCEPT ![t] = "encrypt"]

-----------------------------------------------------------------------------
(* mre2ee_encrypt                                                          *)

\* A caller starts sending a message to the recipient list R; the helper
\* it passes is zeroed (line 265).
Call(t, R) ==
    /\ pc[t] = "idle"
    /\ pc' = [pc EXCEPT ![t] = "lock"]
    /\ rcpt' = [rcpt EXCEPT ![t] = R]
    /\ offered' = [offered EXCEPT ![t] = OfferedBy(R, peerstate[Mb(t)])]
    /\ result' = [result EXCEPT ![t] = NoResult]
    /\ UNCHANGED <<holder, s_in_key_creation, selfKeys, e2ee_enabled, configured,
                   peerstate, genOk, doEncrypt, encKey>>

\* Lines 269-286: lock; e2ee disabled or no configured_addr: cleanup.
LockDisabled(t) ==
    /\ pc[t] = "lock" /\ LockFree(t)
    /\ ~e2ee_enabled[Mb(t)] \/ ~configured[Mb(t)]
    /\ Return(t, NoResult)
    /\ UNCHANGED <<offered, s_in_key_creation, selfKeys, e2ee_enabled, configured,
                   peerstate, rcpt, genOk, doEncrypt, encKey>>

\* Lines 269-298: lock, mrkey_load_self_public__ finds the key, read the
\* peerstate, unlock.
LockHaveKey(t) ==
    /\ pc[t] = "lock" /\ LockFree(t)
    /\ e2ee_enabled[Mb(t)] /\ configured[Mb(t)]
    /\ selfKeys[Mb(t)] > 0
    /\ LoadPeerstateAndUnlock(t)
    /\ UNCHANGED <<offered, s_in_key_creation, selfKeys, e2ee_enabled, configured,
                   peerstate, rcpt, genOk, result>>

\* Lines 269-284, 165: lock, no own key yet.
LockNoKey(t) ==
    /\ pc[t] = "lock" /\ LockFree(t)
    /\ e2ee_enabled[Mb(t)] /\ configured[Mb(t)]
    /\ selfKeys[Mb(t)] = 0
    /\ holder' = [holder EXCEPT ![Mb(t)] = t]
    /\ pc' = [pc EXCEPT ![t] = "testflag"]
    /\ UNCHANGED <<offered, s_in_key_creation, selfKeys, e2ee_enabled, configured,
                   peerstate, rcpt, genOk, doEncrypt, encKey, result>>

\* Mutant: the in-creation test is missing.
TestFlagNoGuard(t) ==
    /\ pc[t] = "testflag"
    /\ pc' = [pc EXCEPT ![t] = "setflag"]
    /\ UNCHANGED <<holder, result>>

\* Mutant: a thread that finds a creation in progress waits for it, still
\* holding the lock, instead of declining.
TestFlagWait(t) ==
    /\ pc[t] = "testflag"
    /\ ~s_in_key_creation
    /\ pc' = [pc EXCEPT ![t] = "setflag"]
    /\ UNCHANGED <<holder, result>>

\* Line 168: another creation is in progress: give up (no header, no
\* encryption); otherwise go on to claim the creation.
TestFlag(t) ==
    /\ pc[t] = "testflag"
    /\ IF s_in_key_creation
       THEN Return(t, NoResult)
       ELSE /\ pc' = [pc EXCEPT ![t] = "setflag"]
            /\ UNCHANGED <<holder, result>>

TestFlagStep(t) ==
    /\ TestFlag(t)
    /\ UNCHANGED <<offered, s_in_key_creation, selfKeys, e2ee_enabled, configured,
                   peerstate, rcpt, genOk, doEncrypt, encKey>>

\* Lines 169-177: key_creation_here = s_in_key_creation = 1, unlock.
SetFlag(t) ==
    /\ pc[t] = "setflag"
    /\ s_in_key_creation' = TRUE
    /\ holder' = [holder EXCEPT ![Mb(t)] = NoThread]
    /\ pc' = [pc EXCEPT ![t] = "generate"]
    /\ UNCHANGED <<offered, selfKeys, e2ee_enabled, configured, peerstate, rcpt,
                   genOk, doEncrypt, encKey, result>>

\* Line 186, without the lock: mre2ee_driver_create_keypair; ok stands for
\* creation, both validity checks (195-196) and the save (201) succeeding.
Generate(t, ok) ==
    /\ pc[t] = "generate"
    /\ genOk' = [genOk EXCEPT ![t] = ok]
    /\ pc' = [pc EXCEPT ![t] = "relock"]
    /\ UNCHANGED <<offered, holder, s_in_key_creation, selfKeys, e2ee_enabled, configured,
                   peerstate, rcpt, doEncrypt, encKey, result>>

\* Mutant: the flag is cleared on success only.
ClearFlagOnSuccessOnly(t) ==
    s_in_key_creation' = (s_in_key_creation /\ ~genOk[t])

\* Line 215: if( key_creation_here ) s_in_key_creation = 0.
ClearFlag(t) == s_in_key_creation' = FALSE

\* Lines 188-215 and back in mre2ee_encrypt: lock again; on failure clean
\* up (no header); on success save the keypair, clear the flag and go on
\* with the peerstate under the same lock.
Relock(t) ==
    /\ pc[t] = "relock" /\ LockFree(t)
    /\ ClearFlag(t)
    /\ IF genOk[t]
       THEN /\ selfKeys' = [selfKeys EXCEPT ![Mb(t)] = @ + 1]
            /\ LoadPeerstateAndUnlock(t)
            /\ UNCHANGED result
       ELSE /\ Return(t, NoResult)
            /\ UNCHANGED <<selfKeys, doEncrypt, encKey>>
    /\ genOk' = [genOk EXCEPT ![t] = FALSE]
    /\ UNCHANGED <<offered, e2ee_enabled, configured, peerstate, rcpt>>

\* Mutant: the recipient's key is loaded again from the database after the
\* unlock instead of taken from the peerstate read with the decision.
EncryptionKeyReloaded(t) ==
    LET row == peerstate[Mb(t)][CHOOSE a \in rcpt[t] : TRUE]
    IN IF row = Absent THEN NoKey ELSE row.public_key

\* Line 316: the keyring gets peerstate->m_public_key, the key of the row
\* loaded under the lock together with do_encrypt.
EncryptionKey(t) == encKey[t]

\* Lines 301-356, without the lock: if do_encrypt, encrypt (ok: the MIME
\* text is not empty and mre2ee_driver_encrypt succeeds) and splice the
\* envelope; a failure jumps to cleanup before the header is added.  Then
\* add the Autocrypt: header.
Encrypt(t, ok) ==
    /\ pc[t] = "encrypt"
    /\ pc' = [pc EXCEPT ![t] = "idle"]
    /\ result' = [result EXCEPT ![t] =
         IF doEncrypt[t] /\ ~ok
         THEN [NoResult EXCEPT !.keyOk = TRUE]
         ELSE [header |-> TRUE, encrypted |-> doEncrypt[t],
               key |-> IF doEncrypt[t] THEN EncryptionKey(t) ELSE NoKey, keyOk |-> TRUE]]
    /\ doEncrypt' = [doEncrypt EXCEPT ![t] = FALSE]
    /\ encKey' = [encKey EXCEPT ![t] = NoKey]
    /\ UNCHANGED <<offered, holder, s_in_key_creation, selfKeys, e2ee_enabled, configured,
                   peerstate, rcpt, genOk>>

\* Environment: a concurrent mre2ee_decrypt changes a peerstate row while
\* holding the lock of the mailbox.
PeerstateChanged(mb, a, row) ==
    /\ holder[mb] = NoThread
    /\ peerstate' = [peerstate EXCEPT ![mb][a] = row]
    /\ offered' = [t \in Threads |->
                     IF pc[t] # "idle" /\ Mb(t) = mb
                     THEN offered[t] \cup OfferedBy(rcpt[t], peerstate'[mb])
                     ELSE offered[t]]
    /\ UNCHANGED <<pc, holder, s_in_key_creation, selfKeys, e2ee_enabled,
                   configured, rcpt, genOk, doEncrypt, encKey, result>>

Init ==
    /\ pc = [t \in Threads |-> "idle"]
    /\ holder = [mb \in Mailboxes |-> NoThread]
    /\ s_in_key_creation = FALSE
    /\ selfKeys = [mb \in Mailboxes |-> 0]
    /\ e2ee_enabled \in [Mailboxes -> BOOLEAN]
    /\ configured \in [Mailboxes -> BOOLEAN]
    /\ peerstate = [mb \in Mailboxes |-> [a \in Addrs |-> Absent]]
    /\ rcpt = [t \in Threads |-> {}]
    /\ genOk = [t \in Threads |-> FALSE]
    /\ doEncrypt = [t \in Threads |-> FALSE]
    /\ encKey = [t \in Threads |-> NoKey]
    /\ result = [t \in Threads |-> NoResult]
    /\ offered = [t \in Threads |-> {}]

Next ==
    \/ \E t \in Threads :
          \/ \E R \in RecipientSets : Call(t, R)
          \/ LockDisabled(t) \/ LockHaveKey(t) \/ LockNoKey(t)
          \/ TestFlagStep(t) \/ SetFlag(t) \/ Relock(t)
          \/ \E ok \in BOOLEAN : Generate(t, ok) \/ Encrypt(t, ok)
    \/ \E mb \in Mailboxes, a \in Addrs, row \in PeerRows :
          PeerstateChanged(mb, a, row)

Spec == Init /\ [][Next]_vars

\* A thread that is running keeps running (WF); a thread waiting in
\* mrsqlite3_lock for a lock that other threads take and release again
\* and again gets it in the end (SF).  The callers of mre2ee_encrypt and
\* the concurrent decrypts (PeerstateChanged) get no fairness.
Fairness ==
    \A t \in Threads :
        /\ SF_vars(LockDisabled(t) \/ LockHaveKey(t) \/ LockNoKey(t))
        /\ SF_vars(Relock(t))
        /\ WF_vars(TestFlagStep(t))
        /\ WF_vars(SetFlag(t))
        /\ WF_vars(\E ok \in BOOLEAN : Generate(t, ok))
        /\ WF_vars(\E ok \in BOOLEAN : Encrypt(t, ok))

FairSpec == Spec /\ Fairness

\* The refinement mapping: a thread is generating from the set of the flag
\* (line 170) to the relock that clears it (line 215).
Generating == {t \in Threads : pc[t] \in {"generate", "relock"}}

KC == INSTANCE KeyCreation WITH generating <- Generating, ownKeys <- selfKeys

-----------------------------------------------------------------------------
(* Properties                                                              *)

\* The in-creation flag makes key generation one at a time (spec 4.3, 5):
\* however the threads interleave around the unlocked generation, a
\* mailbox never ends up with two own keypairs.
SingleSelfKey ==
    \A mb \in Mailboxes : selfKeys[mb] <= 1

\* The in-creation flag is never left behind (line 215 on every exit of
\* the helper): while it is set, some thread is between setting it and
\* its cleanup, so a failed generation cannot block key creation forever.
FlagOwned ==
    s_in_key_creation =>
        \E t \in Threads : pc[t] \in {"generate", "relock"}

\* Publishing the own key is unconditional once the key is at hand (spec
\* 4.3 step 2 and failure semantics): a call that had the own key always
\* added the Autocrypt: header, encrypted or not.
HeaderWhenKey ==
    \A t \in Threads : result[t].keyOk => result[t].header

\* The message goes out encrypted only to a key the recipient offered
\* while the call ran: the key and the decision to encrypt are read from
\* the same peerstate under the lock (lines 289-296, 316), so a decrypt
\* that rekeys or degrades the peer after the unlock may make the key
\* stale, but never a key the recipient had refused encryption with or
\* never held.
EncryptedToOfferedKey ==
    \A t \in Threads :
        pc[t] = "idle" /\ result[t].encrypted => result[t].key \in offered[t]

\* Every call of mre2ee_encrypt returns: no thread waits forever on the
\* lock, on the in-creation flag or on another thread's key generation.
CallsReturn == \A t \in Threads : pc[t] # "idle" ~> pc[t] = "idle"

\* Key creation implements KeyCreation: one creation at a time in the
\* process, only for a mailbox without a key, and every creation ends.
KeyCreationRefined == KC!Spec

=============================================================================
