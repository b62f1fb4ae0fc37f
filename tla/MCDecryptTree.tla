---------------------------- MODULE MCDecryptTree ----------------------------
(* Model-checking instances of DecryptTree: bounded sets of MIME trees,   *)
(* among them the messages mre2ee_encrypt sends (module Envelope), and    *)
(* the byte-level armor test of module Armor over short buffers.          *)
EXTENDS Envelope, Armor

Leaves == { Single(e, d) : e \in Encodings, d \in Datas }

\* multipart/encrypted with one or two single parts (the version part and
\* the ciphertext part of section 6, in any order and of any content).
EncryptedParts ==
    { Multiple("encrypted", "empty", <<a>>) : a \in Leaves } \cup
    { Multiple("encrypted", "empty", <<a, b>>) : a, b \in Leaves }

\* A few plain parts to sit beside an encrypted one.
Plain == { Single("7bit", "text"), Single("base64", "armorMine") }

\* Well-formed messages: an encrypted multipart, alone, under a message
\* part, inside a multipart/mixed beside a plain part, or both.
Mixed == { Multiple("mixed", pre, <<x, l>>) :
             x \in EncryptedParts, l \in Plain, pre \in {"empty", "text"} }
WellFormedTrees ==
    EncryptedParts \cup Leaves \cup Mixed \cup
    { MessagePart(x) : x \in EncryptedParts \cup Mixed }

\* multipart/encrypted whose first child is itself a multipart (with a
\* NULL, a text or an armored preamble) or a message part.
Nested == { Multiple("mixed", pre, <<Single("7bit", "text")>>) :
              pre \in {NoData, "text", "armorMine"} } \cup
          { MessagePart(Single("7bit", "text")) }
NestedTrees ==
    { Multiple("encrypted", "empty", <<n, Single("7bit", "armorMine")>>) : n \in Nested }

\* Received messages, and the messages mre2ee_encrypt sends.
WellFormedAndSent == WellFormedTrees \cup SentMessages

\* A two-byte stand-in for the 27-byte marker ("-B"), and buffers of up to
\* four bytes of space, '-', 'B' and a high byte: long enough for leading
\* space, a marker exactly filling the rest, and a marker followed by data.
MCMarker == <<45, 66>>
MCBytes == {32, 45, 66, 200}

\* The armor test decrypt_part will apply to a received message answers
\* as the specification says and reads only inside the buffer, whichever
\* buffer of MCBytes up to 4 bytes a part decodes to.  The formula is
\* about the constants only; it is stated on the received message.
ArmorScanChecked == phase = "received" => ArmorScanCorrect(MCBytes, 4)

=============================================================================
