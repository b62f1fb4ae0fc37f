------------------------------- MODULE Envelope -------------------------------
(***************************************************************************)
(* The envelope mre2ee_encrypt() builds (src/src/mre2ee.c, lines 324-338) *)
(* with new_data_part() (lines 40-147), as the MIME trees of module       *)
(* DecryptTree, so that what the sender builds is walked by the           *)
(* receiver's decrypt_recursive().                                         *)
(*                                                                         *)
(* A content type is the result of mailmime_content_new_with_str: a type  *)
(* and a subtype.  mre2ee_encrypt passes no message/rfc822 type, so the  *)
(* composite types met are the multiparts.                                *)
(***************************************************************************)
EXTENDS DecryptTree

DefaultEncoding == "default"   \* the encoding argument -1
NULL == "NULL"   \* data == NULL

ContentType(type, subtype) == [type |-> type, subtype |-> subtype]

\* Mutant: the composite-type test is missing; every part is a leaf.
NewDataPartNoComposite(data, ct, encoding) ==
    Single(IF encoding = DefaultEncoding THEN "base64" ELSE encoding,
           IF data # NULL THEN data ELSE "empty")

\* new_data_part (lines 40-147): multipart and message/rfc822 parts get no
\* transfer encoding (71-87); others get the given one, base64 for -1
\* (89-100).  mailmime_new_empty makes a multipart without preamble and
\* parts; only a single part gets the data as its body (127-129).  The
\* NULL returns of failed allocations (133-146) are left out: the caller
\* dereferences the result unchecked (line 327).
NewDataPart(data, ct, encoding) ==
    CASE ct.type = "multipart" -> Multiple(ct.subtype, NoData, <<>>)
      [] OTHER ->
            Single(IF encoding = DefaultEncoding THEN "base64" ELSE encoding,
                   IF data # NULL THEN data ELSE "empty")

\* Lines 324-338: multipart/encrypted holding the version part and the
\* ciphertext part, both 7bit, put in place of the original body of the
\* message (in_out_message, a message part).
EncryptedMessage(ctext) ==
    LET encrypted == NewDataPart(NULL, ContentType("multipart", "encrypted"),
                                 DefaultEncoding)
        version   == NewDataPart("text", ContentType("application", "pgp-encrypted"),
                                 "7bit")
        ctextPart == NewDataPart(ctext, ContentType("application", "octet-stream"),
                                 "7bit")
    IN MessagePart([encrypted EXCEPT !.parts = <<version, ctextPart>>])

\* What mre2ee_driver_encrypt produces: armored ciphertext for the one
\* recipient, which is us or someone else.
SentMessages == { EncryptedMessage(c) : c \in {"armorMine", "armorOther"} }

CiphertextPath == <<1, 2>>

\* The sender's envelope is what the receiver's walk looks for (spec 4.3
\* step 4, 4.4 step 4): on a message mre2ee_encrypt built, a receiver
\* with a private key hands exactly the ciphertext part to the decryption,
\* and leaves the version part alone.
SentEnvelopeDecrypted ==
    phase = "done" /\ ownKey /\ tree \in SentMessages =>
        tried = {CiphertextPath}

=============================================================================
