----------------------------- MODULE DecryptTree -----------------------------
(***************************************************************************)
(* The decryption half of mre2ee_decrypt() (src/src/mre2ee.c, lines       *)
(* 383-500 and 583-605): load the own private key, walk the MIME tree of  *)
(* the received message with decrypt_recursive(), and hand every child of *)
(* a multipart/encrypted part to decrypt_part(), which transfer-decodes   *)
(* the body, looks for the PGP armor and calls mre2ee_driver_decrypt().   *)
(*                                                                         *)
(* A MIME part is a record: a single part with a transfer encoding and    *)
(* data, a multipart with a subtype, a preamble and a sequence of parts,  *)
(* or a message part wrapping one body.  Data are abstracted to what the  *)
(* walk tells apart: empty, plain text, text that fails to decode, armored *)
(* ciphertext for our key and armored ciphertext for someone else.        *)
(* A part is named by its path of child indexes from the root.            *)
(***************************************************************************)
EXTENDS Naturals, Sequences, FiniteSets

CONSTANTS
    Trees,   \* the received messages, as MIME trees
    NoData   \* a NULL mailmime_data pointer (a multipart without preamble)

VARIABLES
    tree,      \* the in_out_message
    ownKey,    \* mrkeyring_load_self_private__ finds the own private key
    phase,     \* "received" before, "done" after mre2ee_decrypt
    tried,     \* paths of the parts given to mre2ee_driver_decrypt
    decrypted, \* paths whose decryption succeeded
    crashed    \* the walk dereferenced a NULL pointer

vars == <<tree, ownKey, phase, tried, decrypted, crashed>>

\* "7bit" stands for 7bit, 8bit and binary; "base64" for every encoding
\* that mailmime_part_parse must decode.
Encodings == {"7bit", "base64"}
Datas == {"empty", "text", "garbled", "armorMine", "armorOther"}

Single(enc, data) == [type |-> "single", enc |-> enc, data |-> data]
Multiple(st, pre, parts) ==
    [type |-> "multiple", subtype |-> st, preamble |-> pre, parts |-> parts]
MessagePart(body) == [type |-> "message", body |-> body]

-----------------------------------------------------------------------------
(* decrypt_part, lines 400-468                                             *)

\* The data a transfer decoding yields, or "none" when there is nothing to
\* decrypt (empty data, or mailmime_part_parse failing, lines 432-453).
Decoded(enc, data) ==
    CASE data = "empty"                      -> "none"
      [] enc = "base64" /\ data = "garbled"  -> "none"
      [] OTHER                               -> data

\* has_decrypted_pgp_armor (lines 383-397), at the level of the data kinds.
HasArmor(d) == d \in {"armorMine", "armorOther"}

\* decrypt_part reads mime->mm_data.mm_single whatever the part is: for a
\* multipart that union member is the preamble pointer; for a message part
\* it is the mailimf_fields pointer read as mailmime_data, undefined
\* behaviour that either faults (ub) or finds no text.  The result is the
\* outcome of the call: "crash", "skip", or "tried" (driver called).
DecryptPart(part, ub) ==
    LET data == CASE part.type = "single"   -> part.data
                  [] part.type = "multiple" -> part.preamble
                  [] OTHER                  -> NoData
        enc  == IF part.type = "single" THEN part.enc ELSE "7bit"
    IN CASE part.type = "message" /\ ub              -> "crash"
         [] data = NoData /\ part.type = "multiple"  -> "crash"
         [] data = NoData                            -> "skip"
         [] HasArmor(Decoded(enc, data))             -> "tried"
         [] OTHER                                    -> "skip"

-----------------------------------------------------------------------------
(* decrypt_recursive, lines 471-500: the calls of decrypt_part it makes,  *)
(* as a set of [path, part].                                               *)

RECURSIVE DecryptRecursive(_, _), DecryptRecursiveFirstPart(_, _)

Children(n, p) == { [path |-> p \o <<i>>, part |-> n.parts[i]] : i \in 1..Len(n.parts) }

\* Mutant: only the first child of a multipart/encrypted is tried.
DecryptRecursiveFirstPart(n, p) ==
    CASE n.type = "multiple" /\ n.subtype = "encrypted" ->
            IF n.parts = <<>> THEN {} ELSE {[path |-> p \o <<1>>, part |-> n.parts[1]]}
      [] n.type = "multiple" ->
            UNION { DecryptRecursive(n.parts[i], p \o <<i>>) : i \in 1..Len(n.parts) }
      [] n.type = "message" -> DecryptRecursive(n.body, p \o <<1>>)
      [] OTHER -> {}

DecryptRecursive(n, p) ==
    CASE n.type = "multiple" /\ n.subtype = "encrypted" -> Children(n, p)
      [] n.type = "multiple" ->
            UNION { DecryptRecursive(n.parts[i], p \o <<i>>) : i \in 1..Len(n.parts) }
      [] n.type = "message" -> DecryptRecursive(n.body, p \o <<1>>)
      [] OTHER -> {}

-----------------------------------------------------------------------------
(* mre2ee_decrypt, lines 583-605                                           *)

\* Lines 584-590: no configured_addr or no private key: cleanup, nothing
\* is decrypted.
DecryptNoKey ==
    /\ phase = "received" /\ ~ownKey
    /\ phase' = "done"
    /\ UNCHANGED <<tree, ownKey, tried, decrypted, crashed>>

\* Lines 592-596: unlock and walk the tree.  mre2ee_driver_decrypt
\* succeeds on ciphertext for our key; its plaintext (plain_buf) is not put
\* back into the tree, so the tree is left as it was.
DecryptWalk ==
    /\ phase = "received" /\ ownKey
    /\ \E ub \in BOOLEAN :
         LET calls == DecryptRecursive(tree, <<>>)
             outcome(c) == DecryptPart(c.part, ub)
         IN /\ crashed' = \E c \in calls : outcome(c) = "crash"
            /\ tried' = { c.path : c \in {d \in calls : outcome(d) = "tried"} }
            /\ decrypted' = { c.path : c \in {d \in calls : outcome(d) = "tried"
                                                  /\ d.part.type = "single"
                                                  /\ d.part.data = "armorMine"} }
    /\ phase' = "done"
    /\ UNCHANGED <<tree, ownKey>>

Init ==
    /\ tree \in Trees
    /\ ownKey \in BOOLEAN
    /\ phase = "received"
    /\ tried = {}
    /\ decrypted = {}
    /\ crashed = FALSE

Next == DecryptNoKey \/ DecryptWalk

Spec == Init /\ [][Next]_vars

-----------------------------------------------------------------------------
(* The reference: which parts the specification (4.4, steps 4-5) says are *)
(* to be decrypted, stated over paths instead of by recursion.            *)

RECURSIVE PathsOf(_)
PathsOf(n) ==
    {<<>>} \cup
    CASE n.type = "multiple" ->
            UNION { { <<i>> \o q : q \in PathsOf(n.parts[i]) } : i \in 1..Len(n.parts) }
      [] n.type = "message" -> { <<1>> \o q : q \in PathsOf(n.body) }
      [] OTHER -> {}

RECURSIVE NodeAt(_, _)
NodeAt(n, p) ==
    IF p = <<>> THEN n
    ELSE IF n.type = "message" THEN NodeAt(n.body, Tail(p))
    ELSE NodeAt(n.parts[Head(p)], Tail(p))

IsEncryptedMultipart(n) == n.type = "multiple" /\ n.subtype = "encrypted"

Parent(p) == SubSeq(p, 1, Len(p) - 1)

Prefixes(p) == { SubSeq(p, 1, k) : k \in 0..Len(p) - 1 }

\* A single part, child of a multipart/encrypted with no multipart/encrypted
\* above it, whose decoded data carry the armor.
Candidates(t) ==
    { p \in PathsOf(t) :
        /\ p # <<>>
        /\ IsEncryptedMultipart(NodeAt(t, Parent(p)))
        /\ \A q \in Prefixes(Parent(p)) : ~IsEncryptedMultipart(NodeAt(t, q))
        /\ NodeAt(t, p).type = "single"
        /\ HasArmor(Decoded(NodeAt(t, p).enc, NodeAt(t, p).data)) }

-----------------------------------------------------------------------------
(* Properties                                                              *)

\* Every candidate is tried, and only candidates (spec 4.4, 8): a child
\* that fails to decode or decrypt does not stop the walk over its
\* siblings and the rest of the tree, and no non-armored part is handed to
\* the decryption.
TriesExactlyCandidates ==
    phase = "done" =>
        tried = IF ownKey THEN Candidates(tree) ELSE {}

\* Decryption is in place (spec 2, 4.4): after mre2ee_decrypt no part the
\* own key decrypted is still ciphertext in the tree.
DecryptedInPlace ==
    phase = "done" =>
        \A p \in decrypted : NodeAt(tree, p).data # "armorMine"

\* Only leaves are read and nothing faults (spec 4.4 step 4, 7): whatever
\* the sender nests inside multipart/encrypted, the walk does not crash and
\* hands only single parts to the decryption.
OnlyLeavesRead ==
    phase = "done" =>
        /\ ~crashed
        /\ \A p \in tried : NodeAt(tree, p).type = "single"

=============================================================================
