-------------------------------- MODULE Armor --------------------------------
(***************************************************************************)
(* has_decrypted_pgp_armor() (src/src/mre2ee.c, lines 383-397), byte by   *)
(* byte: skip the leading bytes <= ' ', then compare with strncmp() the   *)
(* next 27 bytes with "-----BEGIN PGP MESSAGE-----" if more than 27 bytes *)
(* are left.  The buffer is the transfer-decoded body of a MIME part: it  *)
(* is str_bytes long and not NUL-terminated, so strncmp() must not read   *)
(* past it.                                                                *)
(*                                                                         *)
(* A byte is a number 0..255; the marker is a constant, and 27 in the     *)
(* code is its length, so a model may give a shorter marker.              *)
(***************************************************************************)
EXTENDS Naturals, Sequences
LOCAL INSTANCE SequencesExt
LOCAL INSTANCE FiniteSetsExt

CONSTANT Marker   \* the bytes of "-----BEGIN PGP MESSAGE-----"

Space == 32       \* ' '

\* Mutant: the loop advances p without counting str_bytes down.
RECURSIVE SkipSpaceNoCount(_, _, _)
SkipSpaceNoCount(s, p, n) ==
    IF p <= Len(s) /\ s[p] <= Space THEN SkipSpaceNoCount(s, p + 1, n) ELSE <<p, n>>

\* Lines 386-392: while( p < str_end ) { if( *p > ' ' ) break; p++;
\* str_bytes--; }, with p an unsigned char pointer.  Result: <<p, str_bytes>>.
RECURSIVE SkipSpace(_, _, _)
SkipSpace(s, p, n) ==
    IF p <= Len(s) /\ s[p] <= Space THEN SkipSpace(s, p + 1, n - 1) ELSE <<p, n>>

\* The offsets j < 27 at which strncmp(p, marker, 27) finds a difference; a
\* byte past the buffer is unknown memory and counts as one.
Mismatches(s, p) ==
    { j \in 0..Len(Marker) - 1 : p + j > Len(s) \/ s[p + j] # Marker[j + 1] }

\* The indexes strncmp reads: up to the first difference, else all 27.
StrncmpReads(s, p) ==
    LET D == Mismatches(s, p)
    IN p .. p + (IF D = {} THEN Len(Marker) - 1 ELSE Min(D))

\* Line 393: str_bytes > 27 && strncmp(...) == 0.
HasDecryptedPgpArmor(s) ==
    LET r == SkipSpace(s, 1, Len(s))
    IN r[2] > Len(Marker) /\ Mismatches(s, r[1]) = {}

\* The buffer indexes the function reads beyond the loop's own.
ArmorReads(s) ==
    LET r == SkipSpace(s, 1, Len(s))
    IN IF r[2] > Len(Marker) THEN StrncmpReads(s, r[1]) ELSE {}

-----------------------------------------------------------------------------
(* The reference (spec 4.4): after the leading whitespace, the data begin *)
(* with the marker, and a message follows it.                             *)

LeadingSpace(s) ==
    CHOOSE k \in 0..Len(s) :
        /\ \A j \in 1..k : s[j] <= Space
        /\ k = Len(s) \/ s[k + 1] > Space

ArmoredBySpec(s) ==
    IsStrictPrefix(Marker, SubSeq(s, LeadingSpace(s) + 1, Len(s)))

\* The strings of bytes of ByteSet up to length n.
Strings(ByteSet, n) == UNION { [1..k -> ByteSet] : k \in 0..n }

\* The armor test answers as the specification says for every buffer of
\* bytes of ByteSet up to length n, however many bytes <= ' ' lead it,
\* and strncmp never reads past the buffer, which is not NUL-terminated
\* (the str_bytes > 27 test at line 393).
ArmorScanCorrect(ByteSet, n) ==
    \A s \in Strings(ByteSet, n) :
        /\ HasDecryptedPgpArmor(s) = ArmoredBySpec(s)
        /\ ArmorReads(s) \subseteq 1..Len(s)

=============================================================================
