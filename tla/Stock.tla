-------------------------------- MODULE Stock --------------------------------
(***************************************************************************)
(* The stock strings of src/src/mrstock.c: a string id is looked up through *)
(* the user interface's callback (MR_EVENT_GET_STRING), else taken from    *)
(* default_string(), and the placeholders "%1$s" and "%2$s" are replaced   *)
(* with strstr() by the caller's texts.                                    *)
(*                                                                         *)
(* A string is a sequence of characters.  The text around a placeholder   *)
(* is abstracted to the character "x"; a placeholder is abstracted to its *)
(* two characters that matter, the '%' both share and the digit that      *)
(* tells them apart, so that the characters of an inserted text can form  *)
(* or break one.  The callback's answer is a string or NoString (NULL).   *)
(***************************************************************************)
EXTENDS Integers, Sequences
LOCAL INSTANCE SequencesExt

CONSTANT NoString   \* a NULL char*

Placeholder1 == <<"%", "1">>   \* "%1$s"
Placeholder2 == <<"%", "2">>   \* "%2$s"
Plain == <<"x">>               \* text without placeholder

\* The ids of mrstock.h, grouped by the shape of their default text.
CountIds       == {"MEMBER", "CONTACT"}
OnePlaceholder == {"NEWGROUPDRAFT", "MSGADDMEMBER", "MSGDELMEMBER", "ERROR"}
TwoPlaceholder == {"MSGGRPNAME"}

Digit == <<"0", "1", "2", "3", "4", "5", "6", "7", "8", "9">>

\* mr_mprintf("%i", n): the decimal digits of n, with a '-' if negative.
RECURSIVE Decimal(_)
Decimal(n) ==
    IF n < 10 THEN <<Digit[n + 1]>> ELSE Decimal(n \div 10) \o <<Digit[(n % 10) + 1]>>

IntToStr(n) == IF n < 0 THEN <<"-">> \o Decimal(-n) ELSE Decimal(n)

\* default_string (lines 45-71); the other ids give plain text, and an
\* unknown id gives "ErrStr", plain text too.
DefaultString(id, qty) ==
    CASE id \in CountIds       -> IntToStr(qty) \o Plain
      [] id \in OnePlaceholder -> Plain \o Placeholder1 \o Plain
      [] id \in TwoPlaceholder -> Plain \o Placeholder1 \o Plain \o Placeholder2 \o Plain
      [] OTHER                 -> Plain

\* mrstock_str (lines 74-84): the callback's answer unless it is NULL.
MrstockStr(id, answer) ==
    IF answer # NoString THEN answer ELSE DefaultString(id, 0)

\* strstr(haystack, needle) searching from index i: the index of the first
\* occurrence, or 0 for NULL.
RECURSIVE Strstr(_, _, _)
Strstr(h, needle, i) ==
    CASE i + Len(needle) - 1 > Len(h)                -> 0
      [] SubSeq(h, i, i + Len(needle) - 1) = needle -> i
      [] OTHER                                      -> Strstr(h, needle, i + 1)

\* Mutant: the text after the needle is taken one character too early.
ReplStringShortSkip(h, needle, r) ==
    LET p2 == Strstr(h, needle, 1)
        rr == IF r = NoString THEN <<>> ELSE r
    IN IF p2 = 0 THEN h
       ELSE SubSeq(h, 1, p2 - 1) \o rr \o SubSeq(h, p2 + Len(needle) - 1, Len(h))

\* repl_string (lines 87-95): cut the haystack at the first needle and
\* print the part before it, the replacement (NULL as "") and the rest.
ReplString(h, needle, r) ==
    LET p2 == Strstr(h, needle, 1)
        rr == IF r = NoString THEN <<>> ELSE r
    IN IF p2 = 0 THEN h
       ELSE SubSeq(h, 1, p2 - 1) \o rr \o SubSeq(h, p2 + Len(needle), Len(h))

\* mrstock_str_repl_string (lines 98-104).
MrstockStrReplString(id, answer, toInsert) ==
    ReplString(MrstockStr(id, answer), Placeholder1, toInsert)

\* mrstock_str_repl_int (lines 107-113).
MrstockStrReplInt(id, answer, n) ==
    MrstockStrReplString(id, answer, IntToStr(n))

\* mrstock_str_repl_string2 (lines 116-124): "%1$s" is replaced first, and
\* "%2$s" is then searched in the result, inserted text included.
MrstockStrReplString2(id, answer, toInsert, toInsert2) ==
    ReplString(ReplString(MrstockStr(id, answer), Placeholder1, toInsert),
               Placeholder2, toInsert2)

\* mrstock_str_repl_pl (lines 127-136): the quantity string, asked with
\* the count (MR_EVENT_GET_QUANTITY_STRING), else the default with cnt.
MrstockStrReplPl(id, answer, cnt) ==
    IF answer # NoString THEN answer ELSE DefaultString(id, cnt)

-----------------------------------------------------------------------------
(* The reference: each placeholder of the template is replaced by its own *)
(* text, the first occurrence of each, in one pass.                       *)

FirstAt(p, h) == IF p \in SubSeqs(h) THEN IndexFirstSubSeq(p, h) ELSE 0

SubstitutedBySpec(h, a, b) ==
    LET i1 == FirstAt(Placeholder1, h)
        i2 == FirstAt(Placeholder2, h)
        at1(t) == IF i1 = 0 THEN t ELSE ReplaceSubSeqAt(i1, a, Placeholder1, t)
        at2(t) == IF i2 = 0 THEN t ELSE ReplaceSubSeqAt(i2, b, Placeholder2, t)
    IN IF i1 < i2 THEN at1(at2(h)) ELSE at2(at1(h))

\* A template whose every '%' starts a placeholder.
WellFormedTemplate(h) ==
    \A i \in 1..Len(h) : h[i] = "%" => i < Len(h) /\ h[i + 1] \in {"1", "2"}

\* The strings of characters of Chars up to length n.
Texts(Chars, n) == UNION { [1..k -> Chars] : k \in 0..n }

\* repl_string replaces exactly the first "%1$s" of any string the
\* callback may answer, keeping the text on both sides; and
\* mrstock_str_repl_string2, replacing the placeholders one after the
\* other, gives the one-pass substitution of both whenever the template's
\* every '%' starts a placeholder and the inserted texts hold no '%'.
StockReplCorrect(Chars, n, Inserts) ==
    /\ \A h \in Texts(Chars, n), r \in Inserts :
           ReplString(h, Placeholder1, r) = ReplaceFirstSubSeq(r, Placeholder1, h)
    /\ \A h \in Texts(Chars, n), a, b \in {s \in Inserts : \A i \in 1..Len(s) : s[i] # "%"} :
           WellFormedTemplate(h) =>
               MrstockStrReplString2("MSGGRPNAME", h, a, b) = SubstitutedBySpec(h, a, b)

=============================================================================
