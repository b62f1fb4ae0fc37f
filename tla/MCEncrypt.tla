------------------------------ MODULE MCEncrypt ------------------------------
(* Model-checking instances of Encrypt.                                    *)
EXTENDS Encrypt, Hash, TLC

CONSTANTS t1, t2, t3, m1, m2, b1, b2, k1, k2

MCAddrs == {b1, b2}
MCKeys == {k1, k2}
\* One recipient, or two (line 289 encrypts for exactly one).
MCRecipientSets == {{b1}, {b1, b2}}

\* Every row a decrypt can leave behind.
AllPeerRows == [public_key : MCKeys, prefer_encrypted : Prefs] \cup {Absent}
\* A peer known with a mutual preference, nothing else.
\* The rows a concurrent mre2ee_decrypt writes: it never deletes a row, and
\* "nopreference" acts as "mutual" for the encrypt decision.
DecryptPeerRows == [public_key : MCKeys, prefer_encrypted : {"mutual", "no"}]
MutualPeerRows == {[public_key |-> k1, prefer_encrypted |-> "mutual"]}

\* One mailbox, two sending threads.
OneMailboxThreads == {t1, t2}
OneMailbox == {m1}
OneMailboxOf == [t \in OneMailboxThreads |-> m1]

\* Two mailboxes in one process: t1 sends for m1, t2 and t3 for m2.
TwoMailboxThreads == {t1, t2, t3}
TwoMailboxes == {m1, m2}
TwoMailboxOf == (t1 :> m1) @@ (t2 :> m2) @@ (t3 :> m2)

\* The digests of openssl_crypto.c keep their context lifecycle and
\* lengths for two rounds of up to two updates on one pgp_hash_t, over
\* every algorithm and failing calloc.  The formula is about the
\* constants only; it is stated on the initial states.
HashLifecycleChecked == Init => HashLifecycleCorrect(2, 2)

=============================================================================
